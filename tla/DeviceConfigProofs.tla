-------------------------- MODULE DeviceConfigProofs --------------------------
(* Proofs about the configuration, for every width of the fields, every value and
   every content of the shared buffer: the names in use follow the stored one,
   and a value that changes is the one its client sent, unless USB and REST set
   values at the same time; and a save of the page keeps what its user left alone. *)
EXTENDS DeviceConfig, SequenceTheorems, WellFoundedInduction, TLAPS

LEMMA Widths == Narrow \in Nat /\ Wide \in Nat /\ 0 < Narrow /\ Narrow < Wide
BY WidthAssumption
-----------------------------------------------------------------------------
(* Strings in arrays *)

LEMMA CutType ==
    ASSUME NEW s \in Text, NEW n \in Nat
    PROVE  /\ Cut(s, n) \in Text /\ Len(Cut(s, n)) <= n
           /\ Len(s) <= n => Cut(s, n) = s
<1> DEFINE m == IF Len(s) < n THEN Len(s) ELSE n
<1>1. /\ s \in Seq(Char) /\ Len(s) \in Nat /\ Len(s) <= Wide
      /\ m \in 0..Len(s) /\ m <= n /\ (Len(s) <= n => m = Len(s))
  BY DEF Text
<1>2. Cut(s, n) = SubSeq(s, 1, m)
  BY DEF Cut
<1> HIDE DEF m
<1>3. SubSeq(s, 1, m) \in Seq(Char) /\ Len(SubSeq(s, 1, m)) = m
  BY <1>1
<1>4. m = Len(s) => SubSeq(s, 1, m) = s
  BY <1>1
<1> QED
  BY <1>1, <1>2, <1>3, <1>4, Widths DEF Text

\* The string an array begins with ends at the first Nul, or with the array.
Ends(b, n) == (\A i \in 1..n : b[i] # Nul) /\ (n < Len(b) => b[n + 1] = Nul)

LEMMA EndUnique ==
    ASSUME NEW b \in Seq(Cell), NEW n \in 0..Len(b), NEW m \in 0..Len(b), Ends(b, n), Ends(b, m)
    PROVE  n = m
<1>1. Len(b) \in Nat
  OBVIOUS
<1>2. CASE n < m
  BY <1>1, <1>2 DEF Ends
<1>3. CASE m < n
  BY <1>1, <1>3 DEF Ends
<1> QED
  BY <1>1, <1>2, <1>3

LEMMA EndExists ==
    ASSUME NEW b \in Seq(Cell)
    PROVE  \E n \in 0..Len(b) : Ends(b, n)
<1> DEFINE nuls == {i \in 1..Len(b) : b[i] = Nul}
           less == {p \in Nat \X Nat : p[1] < p[2]}
<1>1. Len(b) \in Nat /\ nuls \subseteq Nat
  OBVIOUS
<1>2. CASE nuls = {}
  BY <1>1, <1>2 DEF Ends
<1>3. CASE nuls # {}
  <2>1. IsWellFoundedOn(less, Nat)
    BY NatLessThanWellFounded DEF OpToRel
  <2> HIDE DEF less, nuls
  <2>2. PICK i \in nuls : \A j \in nuls : ~(<<j, i>> \in less)
    BY <1>1, <1>3, <2>1, WFMin
  <2>3. i \in 1..Len(b) /\ b[i] = Nul
    BY <2>2 DEF nuls
  <2>4. ASSUME NEW j \in 1..(i - 1) PROVE b[j] # Nul
    <3>1. j \in Nat /\ i \in Nat /\ j < i /\ j \in 1..Len(b)
      BY <1>1, <2>3
    <3>2. <<j, i>> \in less
      BY <3>1 DEF less
    <3>3. j \notin nuls
      BY <2>2, <3>2
    <3> QED
      BY <3>1, <3>3 DEF nuls
  <2>5. i - 1 \in 0..Len(b) /\ Ends(b, i - 1)
    BY <1>1, <2>3, <2>4 DEF Ends
  <2> QED
    BY <2>5
<1> QED
  BY <1>2, <1>3

LEMMA TextOfIs ==
    ASSUME NEW b \in Seq(Cell), NEW n \in 0..Len(b), Ends(b, n)
    PROVE  TextOf(b) = SubSeq(b, 1, n)
<1> DEFINE c == CHOOSE k \in 0..Len(b) : /\ \A i \in 1..k : b[i] # Nul
                                         /\ k < Len(b) => b[k + 1] = Nul
<1>1. TextOf(b) = SubSeq(b, 1, c)
  BY DEF TextOf
<1>2. c \in 0..Len(b) /\ Ends(b, c)
  BY DEF Ends
<1> HIDE DEF c
<1>3. c = n
  BY <1>2, EndUnique
<1> QED
  BY <1>1, <1>3

LEMMA TextOfType ==
    ASSUME NEW b \in Seq(Cell), Len(b) = Wide
    PROVE  TextOf(b) \in Text
<1>1. PICK n \in 0..Len(b) : Ends(b, n)
  BY EndExists
<1>2. TextOf(b) = SubSeq(b, 1, n)
  BY <1>1, TextOfIs
<1>3. \A i \in 1..n : b[i] \in Char
  <2>1. \A i \in 1..n : b[i] \in Cell /\ b[i] # Nul
    BY <1>1 DEF Ends
  <2> QED
    BY <2>1 DEF Cell
<1>4. SubSeq(b, 1, n) \in Seq(Char) /\ Len(SubSeq(b, 1, n)) = n
  BY <1>3, SubSeqProperties, Widths
<1> QED
  BY <1>2, <1>4, Widths DEF Text

\* A buffer that begins with a string holds it, up to the length asked for, or
\* whole when the Nul follows.
LEMMA BeginsWith ==
    ASSUME NEW b \in Seq(Cell), NEW v \in Seq(Char), Len(v) <= Len(b),
           \A i \in 1..Len(v) : b[i] = v[i]
    PROVE  /\ Cut(TextOf(b), Len(v)) = v
           /\ Len(v) < Len(b) /\ b[Len(v) + 1] = Nul => TextOf(b) = v
<1>1. Len(v) \in Nat /\ Len(b) \in Nat
  OBVIOUS
<1>2. \A i \in 1..Len(v) : b[i] # Nul
  BY ValueAssumption
<1>3. PICK n \in 0..Len(b) : Ends(b, n)
  BY EndExists
<1>4. TextOf(b) = SubSeq(b, 1, n)
  BY <1>3, TextOfIs
<1>5. n >= Len(v)
  BY <1>1, <1>2, <1>3 DEF Ends
<1>6. SubSeq(b, 1, n) \in Seq(Cell) /\ Len(SubSeq(b, 1, n)) = n
      /\ \A i \in 1..n : SubSeq(b, 1, n)[i] = b[i]
  BY <1>1
<1>7. Cut(TextOf(b), Len(v)) = SubSeq(SubSeq(b, 1, n), 1, Len(v))
  BY <1>1, <1>4, <1>5, <1>6 DEF Cut
<1>8. SubSeq(SubSeq(b, 1, n), 1, Len(v)) = v
  <2> DEFINE c == SubSeq(b, 1, n)
  <2>1. SubSeq(c, 1, Len(v)) \in Seq(Cell) /\ Len(SubSeq(c, 1, Len(v))) = Len(v)
        /\ \A i \in 1..Len(v) : SubSeq(c, 1, Len(v))[i] = c[i]
    BY <1>1, <1>5, <1>6
  <2>2. \A i \in 1..Len(v) : c[i] = v[i]
    BY <1>1, <1>5, <1>6
  <2>3. v \in Seq(Cell)
    BY DEF Cell
  <2> HIDE DEF c
  <2>4. SubSeq(c, 1, Len(v)) = v
    BY <1>1, <2>1, <2>2, <2>3, SeqEqual
  <2> QED
    BY <2>4 DEF c
<1>9. ASSUME Len(v) < Len(b), b[Len(v) + 1] = Nul PROVE TextOf(b) = v
  <2>1. n = Len(v)
    BY <1>1, <1>3, <1>5, <1>9 DEF Ends
  <2>2. v \in Seq(Cell)
    BY DEF Cell
  <2>3. TextOf(b) \in Seq(Cell) /\ Len(TextOf(b)) = Len(v)
        /\ \A i \in 1..Len(v) : TextOf(b)[i] = v[i]
    BY <1>1, <1>4, <1>6, <2>1
  <2> QED
    BY <2>2, <2>3
<1> QED
  BY <1>7, <1>8, <1>9

LEMMA WrittenType ==
    ASSUME buffer \in [1..Wide -> Cell], NEW bytes \in Seq(Cell)
    PROVE  /\ Written(bytes) \in [1..Wide -> Cell]
           /\ Written(bytes) \in Seq(Cell) /\ Len(Written(bytes)) = Wide
           /\ \A i \in 1..Wide : i <= Len(bytes) => Written(bytes)[i] = bytes[i]
<1>1. Written(bytes) \in [1..Wide -> Cell]
  <2>1. \A i \in 1..Wide : i <= Len(bytes) => bytes[i] \in Cell
    OBVIOUS
  <2> QED
    BY <2>1 DEF Written
<1>2. Written(bytes) \in Seq(Cell) /\ Len(Written(bytes)) = Wide
  BY <1>1, Widths
<1> QED
  BY <1>1, <1>2 DEF Written

LEMMA PaddedType ==
    ASSUME NEW s \in Text, NEW n \in Nat
    PROVE  /\ Padded(s, n) \in Seq(Cell) /\ Len(Padded(s, n)) = n
           /\ \A i \in 1..n : Padded(s, n)[i] = IF i <= Len(s) THEN s[i] ELSE Nul
<1>1. Padded(s, n) \in [1..n -> Cell]
  BY DEF Padded, Text, Cell
<1> QED
  BY <1>1 DEF Padded

LEMMA BytesType ==
    ASSUME NEW v \in Text
    PROVE  /\ v \in Seq(Cell) /\ Append(v, Nul) \in Seq(Cell)
           /\ Len(Append(v, Nul)) = Len(v) + 1 /\ Append(v, Nul)[Len(v) + 1] = Nul
           /\ \A i \in 1..Len(v) : Append(v, Nul)[i] = v[i]
<1>1. v \in Seq(Cell) /\ Nul \in Cell
  BY DEF Text, Cell
<1> QED
  BY <1>1, AppendProperties
-----------------------------------------------------------------------------
(* Types *)

\* What a request in progress works on.
UsbWorks ==
    /\ usb.step \in {"load", "store"} => usb.field \in Wireless
    /\ usb.step \in {"load", "store"} /\ usb.field = "ssid" => Len(usb.text) <= Narrow
    /\ usb.step \in {"nvs", "apply"} => usb.field = "hostname"
RestWorks ==
    rest.step = "store" => rest.field \in Wireless /\ rest.body[rest.field] # Absent

\* The page holds an SSID that was read or that its user may enter.
ShortSsid(t) == t \in Text => Len(t) <= Narrow
SsidsFit == ShortSsid(form["ssid"]) /\ ShortSsid(rest.body["ssid"]) /\ ShortSsid(rest.reply["ssid"])

TypeInv == TypeOK /\ UsbWorks /\ RestWorks /\ SsidsFit

UsbType == [step : {"idle", "load", "store", "nvs", "apply", "answer"},
            field : Field, text : Text, meant : Text \cup {Absent}, copy : Configs]
Body == [Field -> Text \cup {Absent}]
RestType == [step : {"idle", "put", "store", "read", "answer"}, field : Field,
             client : {"page", "api"}, body : Body, copy : Configs, reply : Body,
             fresh : BOOLEAN]

LEMMA NoTypes ==
    /\ <<>> \in Text /\ Len(<<>>) = 0
    /\ NoUsb \in UsbType /\ NoRest \in RestType /\ NoBody \in Body
    /\ Empty \in [Field -> Text] /\ [f \in Wireless |-> <<>>] \in Configs
    /\ "ssid" \in Field /\ "password" \in Field /\ "hostname" \in Field
    /\ Absent \notin Text /\ Unset \notin Text /\ Garbage \notin Text
<1>1. <<>> \in Text /\ Len(<<>>) = 0
  BY Widths DEF Text
<1>2. [f \in Wireless |-> <<>>] \in Configs
  BY <1>1, Widths DEF Configs, Wireless
<1>3. NoBody \in Body /\ Empty \in [Field -> Text]
  BY <1>1 DEF NoBody, Body, Empty
<1>4. NoUsb \in UsbType /\ NoRest \in RestType
  BY <1>1, <1>2, <1>3 DEF NoUsb, NoRest, UsbType, RestType, Field, Wireless
<1> QED
  BY <1>1, <1>2, <1>3, <1>4, ValueAssumption DEF Field, Wireless

LEMMA InitTypes == Init => TypeInv
<1> SUFFICES ASSUME Init PROVE TypeInv
  OBVIOUS
<1>1. usb \in UsbType /\ rest \in RestType /\ config \in Configs /\ form \in [Field -> Text]
  BY NoTypes DEF Init
<1>2. buffer \in [1..Wide -> Cell] /\ names \in [Name -> Text \cup {Garbage}]
  BY DEF Init, Cell
<1>3. TypeOK
  BY <1>1, <1>2 DEF Init, TypeOK, UsbType, RestType, Body
<1>4. ShortSsid(form["ssid"]) /\ ShortSsid(rest.body["ssid"]) /\ ShortSsid(rest.reply["ssid"])
  BY NoTypes, Widths DEF Init, Empty, NoRest, NoBody, ShortSsid, Field, Wireless
<1> QED
  BY <1>3, <1>4 DEF TypeInv, UsbWorks, RestWorks, SsidsFit, Init, NoUsb, NoRest

LEMMA HostNameType == TypeOK => HostName \in Text
BY ValueAssumption DEF TypeOK, HostName

LEMMA BootTypes ==
    ASSUME TypeInv, networking_init \/ Restart
    PROVE  TypeInv'
<1>1. CASE networking_init
  <2>1. bootName' \in Text \cup {Garbage} /\ names' \in [Name -> Text \cup {Garbage}]
        /\ boot' \in {"wifi", "mdns", "run"} /\ UNCHANGED <<kept, deferred, buffer, usb, rest, form,
                                                           page, edited, fresh>>
    BY <1>1, HostNameType DEF networking_init, BootRead, BootWifi, BootMdns, TypeInv, TypeOK,
       browser
  <2> QED
    BY <2>1 DEF TypeInv, TypeOK, UsbWorks, RestWorks, SsidsFit, kept
<1>2. CASE Restart
  <2>1. usb' \in UsbType /\ rest' \in RestType /\ usb' = NoUsb /\ rest' = NoRest
    BY <1>2, NoTypes DEF Restart
  <2>2. buffer' \in [1..Wide -> Cell] /\ names' \in [Name -> Text \cup {Garbage}]
    BY <1>2 DEF Restart, Cell
  <2>3. boot' = "read" /\ bootName' = Garbage /\ deferred' = FALSE
        /\ page' \in {"closed", "loading", "open", "saving"}
        /\ UNCHANGED <<config, stored, form, edited, fresh>>
    BY <1>2 DEF Restart, kept, TypeInv, TypeOK
  <2>4. TypeOK'
    BY <2>1, <2>2, <2>3 DEF TypeInv, TypeOK, UsbType, RestType, Body
  <2>5. SsidsFit'
    BY <2>1, <2>3, NoTypes DEF TypeInv, SsidsFit, ShortSsid, NoRest, NoBody, Field, Wireless
  <2> QED
    BY <2>1, <2>4, <2>5 DEF TypeInv, UsbWorks, RestWorks, NoUsb, NoRest
<1> QED
  BY <1>1, <1>2

\* What a setter takes over USB fits its field.
LEMMA UsbSetTypes ==
    ASSUME TypeInv, NEW f \in Field, NEW v \in Values[f], NEW ends \in BOOLEAN, UsbSet(f, v, ends)
    PROVE  TypeInv'
<1> DEFINE bytes == IF ends THEN Append(v, Nul) ELSE v
<1>1. v \in Text
  BY ValueAssumption
<1>2. bytes \in Seq(Cell)
  BY <1>1, BytesType
<1>3. buffer' = Written(bytes)
  BY DEF UsbSet
<1> HIDE DEF bytes
<1>4. buffer' \in [1..Wide -> Cell] /\ buffer' \in Seq(Cell) /\ Len(buffer') = Wide
  BY <1>2, <1>3, WrittenType DEF TypeInv, TypeOK
<1>5. TextOf(buffer') \in Text
  BY <1>4, TextOfType
<1>6. Bound(f) \in Nat /\ (f = "ssid" => Bound(f) = Narrow)
  BY Widths DEF Bound
<1>7. /\ Cut(TextOf(buffer'), Bound(f)) \in Text
      /\ f = "ssid" => Len(Cut(TextOf(buffer'), Bound(f))) <= Narrow
  BY <1>5, <1>6, CutType
<1>8. /\ usb' \in UsbType /\ usb'.field = f
      /\ usb'.step = (IF f = "hostname" THEN "nvs" ELSE "load")
      /\ usb'.text = Cut(TextOf(buffer'), Bound(f))
  BY <1>1, <1>7, NoTypes DEF UsbSet, UsbType
<1>9. UNCHANGED <<boot, bootName, config, stored, names, deferred, fresh, rest, page, form, edited>>
  BY DEF UsbSet, kept, naming, browser
<1>10. TypeOK'
  BY <1>4, <1>8, <1>9 DEF TypeInv, TypeOK, UsbType
<1>11. UsbWorks'
  BY <1>7, <1>8 DEF UsbWorks, Field
<1> QED
  BY <1>9, <1>10, <1>11 DEF TypeInv, RestWorks, SsidsFit

LEMMA UsbGetTypes ==
    ASSUME TypeInv, NEW f \in Wireless, UsbGet(f)
    PROVE  TypeInv'
<1>1. config[f] \in Text
  BY DEF TypeInv, TypeOK, Configs
<1>2. buffer' \in [1..Wide -> Cell] /\ buffer' \in Seq(Cell) /\ Len(buffer') = Wide
  BY <1>1, PaddedType, WrittenType, Widths DEF UsbGet, TypeInv, TypeOK
<1>3. TextOf(buffer') \in Text
  BY <1>2, TextOfType
<1>4. usb' \in UsbType /\ usb'.step = "answer"
  BY <1>3, NoTypes DEF UsbGet, UsbType, Field
<1>5. UNCHANGED <<boot, bootName, config, stored, names, deferred, fresh, rest, page, form, edited>>
  BY DEF UsbGet, kept, naming, browser
<1>6. TypeOK'
  BY <1>2, <1>4, <1>5 DEF TypeInv, TypeOK, UsbType
<1> QED
  BY <1>4, <1>5, <1>6 DEF TypeInv, UsbWorks, RestWorks, SsidsFit

LEMMA ShortTypes ==
    ASSUME TypeInv, Short
    PROVE  TypeInv'
<1>1. PICK k \in 1..(Narrow - 1) : \E b \in [1..k -> Cell] : buffer' = Written(b)
  BY DEF Short
<1>2. PICK bytes \in [1..k -> Cell] : buffer' = Written(bytes)
  BY <1>1
<1>3. bytes \in Seq(Cell)
  BY Widths
<1>4. buffer' \in [1..Wide -> Cell]
  BY <1>2, <1>3, WrittenType DEF TypeInv, TypeOK
<1>5. UNCHANGED <<boot, bootName, config, stored, names, deferred, fresh, usb, rest, page, form,
                  edited>>
  BY DEF Short, kept, naming, browser
<1> QED
  BY <1>4, <1>5 DEF TypeInv, TypeOK, UsbWorks, RestWorks, SsidsFit

LEMMA UsbTypes ==
    ASSUME TypeInv, UsbTask
    PROVE  TypeInv'
<1> USE DEF TypeInv
<1>1. CASE UsbLoad
  <2>1. usb' = [usb EXCEPT !.step = "store", !.copy = config] /\ usb.step = "load"
    BY <1>1 DEF UsbLoad
  <2>2. usb' \in UsbType /\ usb'.step = "store" /\ UNCHANGED <<usb.field, usb.text>>
    BY <2>1 DEF TypeOK, UsbType
  <2>3. TypeOK'
    BY <1>1, <2>2 DEF UsbLoad, TypeOK, UsbType, kept, naming, browser
  <2> QED
    BY <1>1, <2>1, <2>2, <2>3 DEF UsbLoad, UsbWorks, RestWorks, SsidsFit, browser
<1>2. CASE UsbStore
  <2>1. usb.step = "store" /\ usb' = NoUsb /\ rest' = [rest EXCEPT !.fresh = FALSE]
        /\ config' = [usb.copy EXCEPT ![usb.field] = usb.text] /\ fresh' = FALSE
        /\ UNCHANGED <<boot, bootName, stored, names, deferred, buffer, page, form, edited>>
    BY <1>2 DEF UsbStore, naming, browser
  <2>2. config' \in Configs
    BY <2>1 DEF TypeOK, UsbWorks, Configs, Wireless
  <2>3. rest' \in RestType /\ UNCHANGED <<rest.step, rest.field, rest.body, rest.reply>>
    BY <2>1 DEF TypeOK, RestType, Body
  <2>4. usb' \in UsbType /\ usb'.step = "idle"
    BY <2>1, NoTypes DEF NoUsb
  <2>5. TypeOK'
    BY <2>1, <2>2, <2>3, <2>4 DEF TypeOK, UsbType, RestType, Body
  <2> QED
    BY <2>1, <2>3, <2>4, <2>5 DEF UsbWorks, RestWorks, SsidsFit
<1>3. CASE UsbFails \/ UsbAnswered
  <2>1. usb' = NoUsb /\ UNCHANGED <<boot, bootName, config, stored, names, deferred, buffer, fresh,
                                    rest, page, form, edited>>
    BY <1>3 DEF UsbFails, UsbAnswered, kept, naming, browser
  <2>2. usb' \in UsbType /\ usb'.step = "idle"
    BY <2>1, NoTypes DEF NoUsb
  <2>3. TypeOK'
    BY <2>1, <2>2 DEF TypeOK, UsbType
  <2> QED
    BY <2>1, <2>2, <2>3 DEF UsbWorks, RestWorks, SsidsFit
<1>4. CASE UsbNvs
  <2>1. usb.step = "nvs" /\ stored' = usb.text /\ deferred' = TRUE
        /\ usb' = [usb EXCEPT !.step = "apply"]
        /\ rest' = [rest EXCEPT !.fresh = FALSE] /\ fresh' = FALSE
        /\ UNCHANGED <<boot, bootName, config, names, buffer, page, form, edited>>
    BY <1>4 DEF UsbNvs, naming, browser
  <2>2. rest' \in RestType /\ UNCHANGED <<rest.step, rest.field, rest.body, rest.reply>>
    BY <2>1 DEF TypeOK, RestType, Body
  <2>3. usb' \in UsbType /\ usb'.step = "apply" /\ UNCHANGED usb.field /\ usb.text \in Text
    BY <2>1 DEF TypeOK, UsbType
  <2>4. TypeOK'
    BY <2>1, <2>2, <2>3 DEF TypeOK, UsbType, RestType, Body
  <2> QED
    BY <2>1, <2>2, <2>3, <2>4 DEF UsbWorks, RestWorks, SsidsFit
<1>5. CASE UsbApply
  <2>1. usb' = NoUsb /\ UNCHANGED <<boot, bootName, config, stored, buffer, fresh, rest, page, form,
                                    edited>>
        /\ deferred' = (boot # "run")
    BY <1>5 DEF UsbApply, kept, browser
  <2>2. usb' \in UsbType /\ usb'.step = "idle"
    BY <2>1, NoTypes DEF NoUsb
  <2>3. names' \in [Name -> Text \cup {Garbage}]
    BY <1>5 DEF UsbApply, TypeOK, Name
  <2>4. TypeOK'
    BY <2>1, <2>2, <2>3 DEF TypeOK, UsbType
  <2> QED
    BY <2>1, <2>2, <2>4 DEF UsbWorks, RestWorks, SsidsFit
<1>6. CASE UsbAddress \/ UsbMeasure
  BY <1>6, ShortTypes DEF UsbAddress, UsbMeasure
<1>7. ASSUME NEW f \in Wireless, UsbGet(f) PROVE TypeInv'
  BY <1>7, UsbGetTypes
<1> QED
  BY <1>1, <1>2, <1>3, <1>4, <1>5, <1>6, <1>7 DEF UsbTask

LEMMA PutNextType ==
    ASSUME TypeInv
    PROVE  /\ PutNext \in RestType /\ PutNext.step \in {"put", "idle", "read"}
           /\ PutNext.step = "put" =>
                 PutNext.body = rest.body /\ PutNext.field \in {"password", "hostname"}
           /\ ShortSsid(PutNext.body["ssid"]) /\ ShortSsid(PutNext.reply["ssid"])
<1> USE DEF TypeInv, TypeOK, RestType, Body
<1>1. CASE rest.field = "ssid" \/ rest.field = "password"
  <2>1. PutNext \in {[rest EXCEPT !.step = "put", !.field = "password"],
                     [rest EXCEPT !.step = "put", !.field = "hostname"]}
    BY <1>1 DEF PutNext
  <2>2. /\ PutNext \in RestType /\ PutNext.step = "put"
        /\ PutNext.field \in {"password", "hostname"}
        /\ PutNext.body = rest.body /\ PutNext.reply = rest.reply
    BY <2>1 DEF Field, Wireless
  <2> QED
    BY <2>2 DEF SsidsFit
<1>2. CASE rest.field \notin {"ssid", "password"}
  <2>1. PutNext \in {NoRest, [NoRest EXCEPT !.step = "read", !.fresh = TRUE]}
    BY <1>2 DEF PutNext
  <2>2. /\ PutNext \in RestType /\ PutNext.step \in {"idle", "read"}
        /\ PutNext.body = NoBody /\ PutNext.reply = NoBody
    <3> DEFINE r == [NoRest EXCEPT !.step = "read", !.fresh = TRUE]
    <3>1. NoRest \in RestType /\ NoRest.step = "idle"
          /\ NoRest.body = NoBody /\ NoRest.reply = NoBody
      BY NoTypes DEF NoRest
    <3>2. r \in RestType /\ r.step = "read" /\ r.body = NoBody /\ r.reply = NoBody
      BY <3>1
    <3> QED
      BY <2>1, <3>1, <3>2
  <2> QED
    BY <2>2, NoTypes DEF ShortSsid, NoBody
<1> QED
  BY <1>1, <1>2

LEMMA RequestTypes ==
    ASSUME TypeInv, NEW client \in {"page", "api"}, NEW body \in Body, Request(client, body),
           ShortSsid(body["ssid"])
    PROVE  /\ rest' \in RestType /\ rest'.step \in {"read", "put"}
           /\ ShortSsid(rest'.body["ssid"]) /\ ShortSsid(rest'.reply["ssid"])
<1>1. rest' \in RestType /\ rest'.step \in {"read", "put"}
  BY NoTypes DEF Request, RestType
<1>2. rest'.body = body /\ rest'.reply = NoBody
  BY NoTypes DEF Request, NoRest
<1> QED
  BY <1>1, <1>2, NoTypes DEF ShortSsid, NoBody

LEMMA HttpdTypes ==
    ASSUME TypeInv, HttpdTask
    PROVE  TypeInv'
<1> USE DEF TypeInv
<1>1. CASE RestSkip \/ RestFails
  <2>1. rest' = PutNext /\ UNCHANGED <<boot, bootName, config, stored, names, deferred, buffer, usb,
                                       page, form, edited, fresh>>
    BY <1>1 DEF RestSkip, RestFails, kept, naming, browser
  <2>2. TypeOK'
    BY <2>1, PutNextType DEF TypeOK, RestType, Body
  <2> QED
    BY <2>1, <2>2, PutNextType DEF UsbWorks, RestWorks, SsidsFit
<1>2. CASE RestLoad
  <2>1. /\ rest.step = "put" /\ rest.field \in Wireless /\ rest.body[rest.field] # Absent
        /\ rest' = [rest EXCEPT !.step = "store", !.copy = config]
        /\ UNCHANGED <<boot, bootName, config, stored, names, deferred, buffer, usb, page, form,
                       edited, fresh>>
    BY <1>2 DEF RestLoad, kept, naming, browser
  <2>2. rest' \in RestType /\ UNCHANGED <<rest.field, rest.body, rest.reply>>
    BY <2>1 DEF TypeOK, RestType, Body
  <2>3. TypeOK'
    BY <2>1, <2>2 DEF TypeOK, RestType, Body
  <2> QED
    BY <2>1, <2>2, <2>3 DEF UsbWorks, RestWorks, SsidsFit
<1>3. CASE RestStore
  <2> DEFINE t == Cut(rest.body[rest.field], Bound(rest.field))
  <2>1. /\ rest.step = "store" /\ config' = [rest.copy EXCEPT ![rest.field] = t]
        /\ rest' = PutNext /\ fresh' \in BOOLEAN
        /\ UNCHANGED <<boot, bootName, stored, names, deferred, buffer, usb, page, form, edited>>
    BY <1>3 DEF RestStore, naming, browser, TypeOK
  <2>2. rest.field \in Wireless /\ rest.body[rest.field] \in Text
    BY <2>1 DEF RestWorks, TypeOK, Field
  <2>3. t \in Text /\ (rest.field = "ssid" => Len(t) <= Narrow)
    <3>1. Bound(rest.field) \in Nat /\ (rest.field = "ssid" => Bound(rest.field) = Narrow)
      BY Widths DEF Bound
    <3> QED
      BY <2>2, <3>1, CutType
  <2> HIDE DEF t
  <2>4. config' \in Configs
    BY <2>1, <2>2, <2>3 DEF TypeOK, Configs, Wireless
  <2>5. TypeOK'
    BY <2>1, <2>4, PutNextType DEF TypeOK, RestType, Body
  <2> QED
    BY <2>1, <2>5, PutNextType DEF UsbWorks, RestWorks, SsidsFit
<1>4. CASE RestNvs
  <2>1. /\ rest.body["hostname"] # Absent /\ stored' = rest.body["hostname"] /\ deferred' = TRUE
        /\ rest' = PutNext /\ fresh' \in BOOLEAN
        /\ UNCHANGED <<boot, bootName, config, names, buffer, usb, page, form, edited>>
    BY <1>4 DEF RestNvs, browser, TypeOK
  <2>2. stored' \in Text
    BY <2>1, NoTypes DEF TypeOK
  <2>3. TypeOK'
    BY <2>1, <2>2, PutNextType DEF TypeOK, RestType, Body
  <2> QED
    BY <2>1, <2>3, PutNextType DEF UsbWorks, RestWorks, SsidsFit
<1>5. CASE RestRead
  <2>1. /\ rest.step = "read"
        /\ rest' = [rest EXCEPT !.reply[rest.field] = Read(rest.field),
                            !.field = IF @ = "ssid" THEN "password" ELSE "hostname",
                            !.step = IF rest.field = "hostname" THEN "answer" ELSE "read"]
        /\ UNCHANGED <<boot, bootName, config, stored, names, deferred, buffer, usb, page, form,
                       edited, fresh>>
    BY <1>5 DEF RestRead, kept, naming, browser
  <2>2. rest.field \in Field
    BY DEF TypeOK
  <2>3. Read(rest.field) \in Text \cup {Absent} /\ (rest.field = "ssid" => ShortSsid(Read(rest.field)))
    <3>1. CASE rest.field = "hostname"
      BY <3>1, HostNameType DEF Read
    <3>2. CASE rest.field # "hostname"
      <4>1. config[rest.field] \in Text
        BY <2>2, <3>2 DEF TypeOK, Configs, Field
      <4> QED
        BY <3>2, <4>1, CutType, Widths DEF Read, ShortSsid
    <3> QED
      BY <3>1, <3>2
  <2>4. rest' \in RestType /\ rest'.step \in {"answer", "read"} /\ rest'.body = rest.body
        /\ rest'.reply = [rest.reply EXCEPT ![rest.field] = Read(rest.field)]
    BY <2>1, <2>2, <2>3, NoTypes DEF TypeOK, RestType, Body
  <2>5. ShortSsid(rest'.reply["ssid"])
    BY <2>2, <2>3, <2>4, NoTypes DEF TypeOK, SsidsFit
  <2>6. TypeOK'
    BY <2>1, <2>4 DEF TypeOK, RestType, Body
  <2> QED
    BY <2>1, <2>4, <2>5, <2>6 DEF UsbWorks, RestWorks, SsidsFit
<1>6. CASE PageAnswered
  <2>1. /\ form' = [f \in Field |-> IF rest.reply[f] = Absent THEN form[f] ELSE rest.reply[f]]
        /\ edited' = {} /\ fresh' = rest.fresh /\ page' = "open" /\ rest' = NoRest
        /\ UNCHANGED <<boot, bootName, config, stored, names, deferred, buffer, usb>>
    BY <1>6 DEF PageAnswered, kept, naming
  <2>2. form' \in [Field -> Text] /\ form'["ssid"] \in {rest.reply["ssid"], form["ssid"]}
    BY <2>1, NoTypes DEF TypeOK
  <2>3. TypeOK'
    BY <2>1, <2>2, NoTypes DEF TypeOK, RestType, Body
  <2>4. SsidsFit'
    BY <2>1, <2>2, NoTypes DEF SsidsFit, NoRest, NoBody, ShortSsid
  <2> QED
    BY <2>1, <2>3, <2>4 DEF UsbWorks, RestWorks, NoRest
<1> QED
  BY <1>1, <1>2, <1>3, <1>4, <1>5, <1>6 DEF HttpdTask

LEMMA ClientTypes ==
    ASSUME TypeInv,
           \/ \E f \in Field : \E v \in Values[f] : ApiPut(f, v) \/ Edit(f, v)
           \/ PageOpen \/ Save \/ PageClose
    PROVE  TypeInv'
<1> USE DEF TypeInv
<1>1. ASSUME NEW f \in Field, NEW v \in Values[f], ApiPut(f, v) PROVE TypeInv'
  <2> DEFINE body == [NoBody EXCEPT ![f] = v]
  <2>1. v \in Text /\ (f = "ssid" => Len(v) <= Narrow)
    BY ValueAssumption
  <2>2. body \in Body /\ ShortSsid(body["ssid"])
    BY <2>1, NoTypes DEF Body, NoBody, ShortSsid
  <2>3. Request("api", body) /\ UNCHANGED <<boot, bootName, config, stored, names, deferred, buffer,
                                            usb, page, form, edited, fresh>>
    BY <1>1 DEF ApiPut, kept, naming, browser
  <2> HIDE DEF body
  <2>4. /\ rest' \in RestType /\ rest'.step \in {"read", "put"}
        /\ ShortSsid(rest'.body["ssid"]) /\ ShortSsid(rest'.reply["ssid"])
    BY <2>2, <2>3, RequestTypes
  <2>5. TypeOK'
    BY <2>3, <2>4 DEF TypeOK, RestType, Body
  <2> QED
    BY <2>3, <2>4, <2>5 DEF UsbWorks, RestWorks, SsidsFit
<1>2. ASSUME NEW f \in Field, NEW v \in Values[f], Edit(f, v) PROVE TypeInv'
  <2>1. v \in Text /\ (f = "ssid" => Len(v) <= Narrow)
    BY ValueAssumption
  <2>2. /\ form' = [form EXCEPT ![f] = v] /\ edited' = edited \cup {f}
        /\ UNCHANGED <<boot, bootName, config, stored, names, deferred, buffer, usb, rest, page,
                       fresh>>
    BY <1>2 DEF Edit, kept, naming
  <2>3. TypeOK'
    BY <2>1, <2>2 DEF TypeOK
  <2>4. ShortSsid(form'["ssid"])
    BY <2>1, <2>2, NoTypes DEF TypeOK, SsidsFit, ShortSsid
  <2> QED
    BY <2>2, <2>3, <2>4 DEF UsbWorks, RestWorks, SsidsFit
<1>3. CASE PageOpen \/ Save
  <2> DEFINE body == IF page = "closed" THEN NoBody ELSE form
  <2>1. /\ Request("page", body) /\ page' \in {"loading", "saving"}
        /\ UNCHANGED <<boot, bootName, config, stored, names, deferred, buffer, usb, form, edited,
                       fresh>>
    BY <1>3 DEF PageOpen, Save, kept, naming
  <2>2. body \in Body /\ ShortSsid(body["ssid"])
    BY NoTypes DEF TypeOK, Body, NoBody, ShortSsid, SsidsFit
  <2> HIDE DEF body
  <2>3. /\ rest' \in RestType /\ rest'.step \in {"read", "put"}
        /\ ShortSsid(rest'.body["ssid"]) /\ ShortSsid(rest'.reply["ssid"])
    BY <2>1, <2>2, RequestTypes
  <2>4. TypeOK'
    BY <2>1, <2>3 DEF TypeOK, RestType, Body
  <2> QED
    BY <2>1, <2>3, <2>4 DEF UsbWorks, RestWorks, SsidsFit
<1>4. CASE PageClose
  <2>1. /\ page' = "closed" /\ form' = Empty /\ edited' = {} /\ fresh' = FALSE
        /\ UNCHANGED <<boot, bootName, config, stored, names, deferred, buffer, usb, rest>>
    BY <1>4 DEF PageClose, kept, naming
  <2>2. TypeOK'
    BY <2>1, NoTypes DEF TypeOK
  <2>3. ShortSsid(form'["ssid"])
    BY <2>1, NoTypes, Widths DEF ShortSsid, Empty
  <2> QED
    BY <2>1, <2>2, <2>3 DEF UsbWorks, RestWorks, SsidsFit
<1> QED
  BY <1>1, <1>2, <1>3, <1>4

LEMMA TypeStep == TypeInv /\ [Next]_vars => TypeInv'
<1> SUFFICES ASSUME TypeInv, [Next]_vars PROVE TypeInv'
  OBVIOUS
<1>1. ASSUME NEW f \in Field, NEW v \in Values[f], NEW ends \in BOOLEAN, UsbSet(f, v, ends)
      PROVE  TypeInv'
  BY <1>1, UsbSetTypes
<1>2. CASE UNCHANGED vars
  BY <1>2 DEF vars, kept, naming, browser, TypeInv, TypeOK, UsbWorks, RestWorks, SsidsFit
<1> QED
  BY <1>1, <1>2, BootTypes, UsbTypes, HttpdTypes, ClientTypes DEF Next

LEMMA Typed == Spec => []TypeInv
BY InitTypes, TypeStep, PTL DEF Spec
-----------------------------------------------------------------------------
(* USB and REST requests that set values one after the other *)

Setting == {"load", "store", "nvs", "apply"}

\* Requests do not overlap, so what one read is still there when it writes; what
\* the tinyusb task took is what the host meant.
SerialInv ==
    /\ usb.step \in Setting => rest.step \notin {"put", "store"}
    /\ usb.step = "store" => usb.copy = config
    /\ rest.step = "store" => rest.copy = config
    /\ usb.meant # Absent => usb.text = usb.meant
    /\ usb.step = "apply" => stored = usb.text

LEMMA InitSerial == Init => SerialInv
BY DEF Init, SerialInv, Setting, NoUsb, NoRest

\* Bytes an earlier request left in control_data are not part of a string that
\* came with its end or fills its field.
LEMMA TakenAsMeant ==
    ASSUME TypeInv, NEW f \in Field, NEW v \in Values[f], NEW ends \in BOOLEAN, UsbSet(f, v, ends),
           ends \/ Len(v) = Bound(f)
    PROVE  Cut(TextOf(buffer'), Bound(f)) = v
<1> DEFINE bytes == IF ends THEN Append(v, Nul) ELSE v
<1>1. v \in Text /\ v \in Seq(Char) /\ Len(v) \in Nat
  BY ValueAssumption DEF Text
<1>2. bytes \in Seq(Cell) /\ (\A i \in 1..Len(v) : bytes[i] = v[i])
      /\ (ends => Len(bytes) = Len(v) + 1 /\ bytes[Len(v) + 1] = Nul)
      /\ (~ends => Len(bytes) = Len(v))
  BY <1>1, BytesType
<1>3. buffer' = Written(bytes) /\ Len(bytes) \in 1..Bound(f)
  BY DEF UsbSet
<1> HIDE DEF bytes
<1>4. Bound(f) \in Nat /\ Bound(f) <= Wide
  BY Widths DEF Bound
<1>5. /\ buffer' \in Seq(Cell) /\ Len(buffer') = Wide
      /\ \A i \in 1..Wide : i <= Len(bytes) => buffer'[i] = bytes[i]
  BY <1>2, <1>3, WrittenType DEF TypeInv, TypeOK
<1>6. Len(v) <= Len(buffer') /\ \A i \in 1..Len(v) : buffer'[i] = v[i]
  BY <1>1, <1>2, <1>3, <1>4, <1>5, Widths
<1>7. CASE ends
  <2>1. Len(v) < Len(buffer') /\ buffer'[Len(v) + 1] = Nul
    BY <1>1, <1>2, <1>3, <1>4, <1>5, <1>7, Widths
  <2>2. TextOf(buffer') = v
    BY <1>1, <1>5, <1>6, <2>1, BeginsWith
  <2>3. Len(v) <= Bound(f)
    BY <1>1, <1>2, <1>3, <1>4, <1>7
  <2> QED
    BY <1>1, <1>4, <2>2, <2>3, CutType
<1>8. CASE ~ends
  <2>1. Cut(TextOf(buffer'), Len(v)) = v
    BY <1>1, <1>5, <1>6, BeginsWith
  <2> QED
    BY <1>8, <2>1
<1> QED
  BY <1>7, <1>8

LEMMA SerialUsb ==
    ASSUME TypeInv, SerialInv, UsbTask
    PROVE  SerialInv'
<1> USE DEF SerialInv, Setting, kept
<1>1. CASE UsbLoad
  <2>1. /\ usb.step = "load" /\ usb'.step = "store" /\ usb'.copy = config
        /\ UNCHANGED <<usb.meant, usb.text, config, rest>>
    BY <1>1 DEF UsbLoad, TypeInv, TypeOK
  <2> QED
    BY <2>1
<1>2. CASE UsbStore
  <2>1. usb.step = "store" /\ usb' = NoUsb /\ rest'.step = rest.step
    BY <1>2 DEF UsbStore, TypeInv, TypeOK
  <2> QED
    BY <2>1 DEF NoUsb
<1>3. CASE UsbFails \/ UsbAnswered \/ UsbApply
  <2>1. usb' = NoUsb /\ UNCHANGED <<rest, config>>
    BY <1>3 DEF UsbFails, UsbAnswered, UsbApply
  <2> QED
    BY <2>1 DEF NoUsb
<1>4. CASE UsbNvs
  <2>1. /\ usb.step = "nvs" /\ stored' = usb.text /\ usb'.step = "apply"
        /\ UNCHANGED <<usb.meant, usb.text, config, rest.step>>
    BY <1>4 DEF UsbNvs, TypeInv, TypeOK
  <2> QED
    BY <2>1
<1>5. CASE UsbAddress \/ UsbMeasure
  BY <1>5 DEF UsbAddress, UsbMeasure, Short
<1>6. ASSUME NEW f \in Wireless, UsbGet(f) PROVE SerialInv'
  <2>1. usb'.step = "answer" /\ usb'.meant = Absent /\ UNCHANGED <<rest, config>>
    BY <1>6 DEF UsbGet, NoUsb
  <2> QED
    BY <2>1
<1> QED
  BY <1>1, <1>2, <1>3, <1>4, <1>5, <1>6 DEF UsbTask

LEMMA SerialHttpd ==
    ASSUME TypeInv, SerialInv, HttpdTask
    PROVE  SerialInv'
<1> USE DEF SerialInv, Setting, kept
<1>1. CASE RestSkip \/ RestFails \/ RestStore \/ RestNvs
  <2>1. rest.step \in {"put", "store"} /\ rest' = PutNext /\ usb' = usb
    BY <1>1 DEF RestSkip, RestFails, RestStore, RestNvs
  <2>2. PutNext.step # "store" /\ usb.step \notin Setting
    BY <2>1, PutNextType
  <2> QED
    BY <2>1, <2>2
<1>2. CASE RestLoad
  <2>1. rest.step = "put" /\ rest'.copy = config /\ UNCHANGED <<usb, config, stored>>
    BY <1>2 DEF RestLoad, TypeInv, TypeOK
  <2> QED
    BY <2>1
<1>3. CASE RestRead \/ PageAnswered
  <2>1. rest'.step \notin {"put", "store"} /\ UNCHANGED <<usb, config, stored>>
    <3>1. CASE RestRead
      BY <3>1, NoTypes DEF RestRead, TypeInv, TypeOK, RestType, Body
    <3>2. CASE PageAnswered
      BY <3>2 DEF PageAnswered, NoRest
    <3> QED
      BY <1>3, <3>1, <3>2
  <2> QED
    BY <2>1
<1> QED
  BY <1>1, <1>2, <1>3 DEF HttpdTask

LEMMA SerialClients ==
    ASSUME ~Overlap, TypeInv, SerialInv,
           \/ \E f \in Field : \E v \in Values[f] :
                 (\E ends \in BOOLEAN : UsbSet(f, v, ends)) \/ ApiPut(f, v) \/ Edit(f, v)
           \/ PageOpen \/ Save \/ PageClose
    PROVE  SerialInv'
<1> USE DEF SerialInv, Setting, kept
<1>1. ASSUME NEW f \in Field, NEW v \in Values[f], NEW ends \in BOOLEAN, UsbSet(f, v, ends)
      PROVE  SerialInv'
  <2>1. /\ rest.step \notin {"put", "store"} /\ UNCHANGED <<rest, config>>
        /\ usb'.step \in {"nvs", "load"} /\ usb'.text = Cut(TextOf(buffer'), Bound(f))
        /\ usb'.meant = IF ends \/ Len(v) = Bound(f) THEN v ELSE Absent
    BY <1>1 DEF UsbSet, NoUsb
  <2>2. usb'.meant # Absent => usb'.text = usb'.meant
    BY <1>1, <2>1, TakenAsMeant
  <2> QED
    BY <2>1, <2>2
<1>2. ASSUME NEW client \in {"page", "api"}, NEW body, Request(client, body),
             UNCHANGED <<usb, kept>>
      PROVE  SerialInv'
  <2>1. usb.step = "idle" \/ rest'.step = "read"
    BY <1>2 DEF Request, NoRest
  <2>2. rest'.step \in {"read", "put"}
    BY <1>2 DEF Request, NoRest
  <2> QED
    BY <1>2, <2>1, <2>2
<1>3. ASSUME NEW f \in Field, NEW v \in Values[f], ApiPut(f, v) PROVE SerialInv'
  BY <1>2, <1>3 DEF ApiPut
<1>4. CASE PageOpen
  BY <1>2, <1>4 DEF PageOpen
<1>5. CASE Save
  BY <1>2, <1>5 DEF Save
<1>6. CASE PageClose \/ \E f \in Field : \E v \in Values[f] : Edit(f, v)
  BY <1>6 DEF PageClose, Edit
<1> QED
  BY <1>1, <1>3, <1>4, <1>5, <1>6

LEMMA SerialStep ==
    ASSUME ~Overlap, TypeInv, SerialInv, [Next]_vars
    PROVE  SerialInv'
<1>1. CASE networking_init
  BY <1>1 DEF networking_init, BootRead, BootWifi, BootMdns, SerialInv, kept
<1>2. CASE Restart
  BY <1>2 DEF Restart, SerialInv, Setting, NoUsb, NoRest
<1>3. CASE UNCHANGED vars
  BY <1>3 DEF vars, kept, SerialInv
<1> QED
  BY <1>1, <1>2, <1>3, SerialUsb, SerialHttpd, SerialClients DEF Next
-----------------------------------------------------------------------------
(* The names in use *)

\* A service that was started answers to the stored name, unless one waits.
NamesInv ==
    ~deferred /\ usb.step # "apply" /\ Readable =>
        /\ boot \in {"wifi", "mdns"} => bootName = HostName
        /\ boot \in {"wifi", "mdns", "run"} => names["netbios"] = HostName
        /\ boot \in {"mdns", "run"} => names["wifi"] = HostName
        /\ boot = "run" => names["mdns"] = HostName

LEMMA NamesApply ==
    ASSUME TypeInv, SerialInv, UsbApply
    PROVE  NamesInv'
<1>1. /\ stored = usb.text /\ usb.text \in Text
      /\ deferred' = (boot # "run") /\ UNCHANGED <<boot, stored>>
      /\ names' = [names EXCEPT !["netbios"] = usb.text,
                                !["mdns"] = IF boot = "run" THEN usb.text ELSE @,
                                !["wifi"] = IF DriverReady /\ Len(usb.text) <= Narrow
                                              THEN usb.text ELSE @]
  BY DEF UsbApply, SerialInv, TypeInv, TypeOK, kept
<1>2. HostName = usb.text /\ HostName' = usb.text
  BY <1>1, NoTypes DEF HostName
<1>3. CASE boot # "run"
  BY <1>1, <1>3 DEF NamesInv
<1>4. CASE boot = "run" /\ ~(Len(usb.text) < Narrow)
  BY <1>1, <1>2, <1>4 DEF NamesInv, Readable
<1>5. CASE boot = "run" /\ Len(usb.text) < Narrow
  <2>1. Len(usb.text) <= Narrow
    BY <1>1, <1>5, Widths DEF Text
  <2>2. \A n \in Name : names'[n] = usb.text
    BY <1>1, <1>5, <2>1 DEF DriverReady, Name, TypeInv, TypeOK
  <2> QED
    BY <1>1, <1>2, <1>5, <2>2 DEF NamesInv, Name
<1> QED
  BY <1>3, <1>4, <1>5

LEMMA NamesStep ==
    ASSUME TypeInv, SerialInv, NamesInv, [Next]_vars
    PROVE  NamesInv'
<1>1. CASE networking_init
  <2>1. UNCHANGED <<stored, deferred, usb>> /\ HostName' = HostName /\ Readable' = Readable
    BY <1>1 DEF networking_init, BootRead, BootWifi, BootMdns, kept, HostName, Readable
  <2> USE DEF NamesInv, TypeInv, TypeOK, Name
  <2>2. CASE BootRead
    BY <2>1, <2>2 DEF BootRead
  <2>3. CASE BootWifi
    BY <2>1, <2>3 DEF BootWifi
  <2>4. CASE BootMdns
    BY <2>1, <2>4 DEF BootMdns
  <2> QED
    BY <1>1, <2>2, <2>3, <2>4 DEF networking_init
<1>2. CASE Restart
  BY <1>2 DEF Restart, NamesInv
<1>3. CASE UsbApply
  BY <1>3, NamesApply
<1>4. CASE UsbNvs \/ RestNvs
  BY <1>4 DEF UsbNvs, RestNvs, NamesInv
<1>5. ASSUME UNCHANGED <<boot, bootName, names, deferred, stored>>,
             usb'.step = "apply" \/ usb.step # "apply"
      PROVE  NamesInv'
  BY <1>5 DEF NamesInv, HostName, Readable
<1>6. CASE UsbTask /\ ~UsbApply /\ ~UsbNvs
  <2>1. /\ UNCHANGED <<boot, bootName, names, deferred, stored>>
        /\ UNCHANGED usb \/ usb.step # "apply"
    BY <1>6 DEF UsbTask, UsbLoad, UsbStore, UsbFails, UsbAnswered, UsbAddress, UsbMeasure, Short,
                UsbGet, kept, naming
  <2> QED
    BY <1>5, <2>1
<1>7. CASE HttpdTask /\ ~RestNvs
  <2>1. UNCHANGED <<boot, bootName, names, deferred, stored, usb>>
    BY <1>7 DEF HttpdTask, RestSkip, RestLoad, RestStore, RestFails, RestRead, PageAnswered, kept,
                naming
  <2> QED
    BY <1>5, <2>1
<1>8. ASSUME NEW f \in Field, NEW v \in Values[f],
             (\E ends \in BOOLEAN : UsbSet(f, v, ends)) \/ ApiPut(f, v) \/ Edit(f, v)
      PROVE  NamesInv'
  <2>1. /\ UNCHANGED <<boot, bootName, names, deferred, stored>>
        /\ UNCHANGED usb \/ usb.step # "apply"
    BY <1>8 DEF UsbSet, ApiPut, Edit, kept, naming
  <2> QED
    BY <1>5, <2>1
<1>9. CASE PageOpen \/ Save \/ PageClose \/ UNCHANGED vars
  <2>1. UNCHANGED <<boot, bootName, names, deferred, stored, usb>>
    BY <1>9 DEF PageOpen, Save, PageClose, vars, kept, naming
  <2> QED
    BY <1>5, <2>1
<1> QED
  BY <1>1, <1>2, <1>3, <1>4, <1>6, <1>7, <1>8, <1>9 DEF Next

LEMMA SerialInvariant == ~Overlap /\ Spec => [](TypeInv /\ SerialInv /\ NamesInv)
<1>1. Init => SerialInv /\ NamesInv
  BY InitSerial DEF Init, NamesInv
<1>2. CASE ~Overlap
  <2>1. TypeInv /\ SerialInv /\ NamesInv /\ [Next]_vars => (SerialInv /\ NamesInv)'
    BY <1>2, SerialStep, NamesStep
  <2>2. Spec => [](TypeInv /\ SerialInv /\ NamesInv)
    BY <1>1, <2>1, Typed, PTL DEF Spec
  <2> QED
    BY <2>2
<1>3. CASE Overlap
  BY <1>3
<1> QED
  BY <1>2, <1>3
-----------------------------------------------------------------------------
(* The theorems *)

\* The configuration, the buffer and the requests keep their types: no value is
\* stored that its field cannot hold, whatever the clients send and the buffer
\* holds (wifi.c:143-196, usb_vendor_config.c:48-107).
THEOREM TypeCorrect == Spec => []TypeOK
<1>1. TypeInv => TypeOK
  BY DEF TypeInv
<1> QED
  BY <1>1, Typed, PTL

\* When USB and REST set values one after the other, the names in use are the one
\* stored, unless a name waits for a restart or does not fit its array
\* (networking.c:70-110).
THEOREM NamesInUse == ~Overlap /\ Spec => []NamesFollowStore
<1>1. NamesInv => NamesFollowStore
  BY DEF NamesInv, NamesFollowStore, Name
<1> QED
  BY <1>1, SerialInvariant, PTL

\* What a step of Next may change of the values.
LEMMA Kept ==
    ASSUME [Next]_vars, ~UsbStore, ~UsbNvs, ~RestStore, ~RestNvs
    PROVE  UNCHANGED kept
<1>1. networking_init \/ Restart \/ UsbTask => UNCHANGED kept
  BY DEF networking_init, BootRead, BootWifi, BootMdns, Restart, UsbTask, UsbLoad, UsbFails,
         UsbApply, UsbAnswered, UsbAddress, UsbMeasure, Short, UsbGet
<1>2. HttpdTask \/ PageOpen \/ Save \/ PageClose => UNCHANGED kept
  BY DEF HttpdTask, RestSkip, RestLoad, RestFails, RestRead, PageAnswered, PageOpen, Save, PageClose
<1>3. ASSUME NEW f \in Field, NEW v \in Values[f],
             (\E ends \in BOOLEAN : UsbSet(f, v, ends)) \/ ApiPut(f, v) \/ Edit(f, v)
      PROVE  UNCHANGED kept
  BY <1>3 DEF UsbSet, ApiPut, Edit
<1> QED
  BY <1>1, <1>2, <1>3 DEF Next, vars

\* The request a changed value comes from.
May(f) ==
    \/ /\ usb.step \in {"store", "nvs"} /\ usb.field = f
       /\ (Current[f])' = usb.meant \/ usb.meant = Absent
    \/ /\ rest.step \in {"put", "store"} /\ rest.field = f
       /\ (Current[f])' = rest.body[f]

LEMMA Changed ==
    ASSUME TypeInv, SerialInv, [Next]_vars, NEW f \in Field, (Current[f])' # Current[f]
    PROVE  May(f)
<1> USE DEF May
<1>1. /\ Current[f] = IF f = "hostname" THEN HostName ELSE config[f]
      /\ (Current[f])' = IF f = "hostname" THEN HostName' ELSE config'[f]
  BY DEF Current
<1>2. CASE UsbStore
  <2>1. /\ usb.step = "store" /\ usb.copy = config /\ UNCHANGED stored
        /\ config' = [config EXCEPT ![usb.field] = usb.text]
    BY <1>2 DEF UsbStore, SerialInv
  <2>2. HostName' = HostName /\ usb.field \in Wireless /\ config \in [Wireless -> Text]
    BY <2>1 DEF HostName, TypeInv, TypeOK, UsbWorks, Configs
  <2>3. f = usb.field /\ f # "hostname"
    BY <1>1, <2>1, <2>2 DEF Field, Wireless
  <2> QED
    BY <1>1, <2>1, <2>2, <2>3 DEF SerialInv
<1>3. CASE UsbNvs
  <2>1. usb.step = "nvs" /\ stored' = usb.text /\ config' = config /\ usb.text \in Text
    BY <1>3 DEF UsbNvs, TypeInv, TypeOK
  <2>2. f = "hostname" /\ HostName' = usb.text
    BY <1>1, <2>1, NoTypes DEF HostName
  <2> QED
    BY <1>1, <2>1, <2>2 DEF SerialInv, TypeInv, UsbWorks
<1>4. CASE RestStore
  <2> DEFINE t == Cut(rest.body[rest.field], Bound(rest.field))
  <2>1. /\ rest.step = "store" /\ rest.copy = config /\ UNCHANGED stored
        /\ config' = [config EXCEPT ![rest.field] = t]
    BY <1>4 DEF RestStore, SerialInv
  <2>2. /\ HostName' = HostName /\ rest.field \in Wireless /\ config \in [Wireless -> Text]
        /\ rest.body[rest.field] \in Text
    BY <2>1 DEF HostName, TypeInv, TypeOK, RestWorks, Configs, Field
  <2>3. t = rest.body[rest.field]
    <3>1. Bound(rest.field) \in Nat /\ Len(rest.body[rest.field]) <= Bound(rest.field)
      BY <2>2, Widths DEF Bound, Text, TypeInv, SsidsFit, ShortSsid
    <3> QED
      BY <2>2, <3>1, CutType
  <2> HIDE DEF t
  <2>4. f = rest.field /\ f # "hostname"
    BY <1>1, <2>1, <2>2 DEF Field, Wireless
  <2> QED
    BY <1>1, <2>1, <2>2, <2>3, <2>4
<1>5. CASE RestNvs
  <2>1. /\ rest.step = "put" /\ rest.field = "hostname" /\ config' = config
        /\ stored' = rest.body["hostname"] /\ rest.body["hostname"] \in Text
    BY <1>5, NoTypes DEF RestNvs, TypeInv, TypeOK
  <2>2. f = "hostname" /\ HostName' = rest.body["hostname"]
    BY <1>1, <2>1, NoTypes DEF HostName
  <2> QED
    BY <1>1, <2>1, <2>2
<1>6. CASE ~UsbStore /\ ~UsbNvs /\ ~RestStore /\ ~RestNvs
  <2>1. UNCHANGED <<config, stored>>
    BY <1>6, Kept DEF kept
  <2> QED
    BY <1>1, <2>1 DEF HostName
<1> QED
  BY <1>2, <1>3, <1>4, <1>5, <1>6

\* A value changes only when a client sets its field, and to what it sent: bytes
\* an earlier request left in control_data never become part of it, and a setter
\* that writes the whole configuration back reverts no other field
\* (usb_vendor_config.c:48-107, wifi.c:143-196, urihandlers_rest.c:132-147).
THEOREM KeepsValues == ~Overlap /\ Spec => KeepsWhatWasSent
<1>1. TypeInv /\ SerialInv /\ [Next]_vars =>
         [\A f \in Field : (Current[f])' # Current[f] => May(f)]_vars
  BY Changed
<1>2. ~Overlap /\ Spec => [][\A f \in Field : (Current[f])' # Current[f] => May(f)]_vars
  BY <1>1, SerialInvariant, PTL DEF Spec
<1> QED
  BY <1>2 DEF KeepsWhatWasSent, May

\* A string read over USB is the one in the driver, whatever earlier requests left
\* in control_data, if it is shorter than the getter's bound
\* (usb_vendor_config.c:80-84, 104-108, wifi.c:163-211).
THEOREM StringsReadBack == Spec => ReadsBack
<1>1. ASSUME TypeInv, NEW f \in Wireless, UsbGet(f), Len(config[f]) < Narrow
      PROVE  usb'.text = config[f]
  <2> DEFINE v == config[f]
             pad == Padded(config[f], Narrow)
  <2>1. v \in Text /\ v \in Seq(Char) /\ Len(v) \in Nat /\ Len(v) < Narrow
    BY <1>1 DEF TypeInv, TypeOK, Configs, Text
  <2>2. /\ pad \in Seq(Cell) /\ Len(pad) = Narrow
        /\ \A i \in 1..Narrow : pad[i] = IF i <= Len(v) THEN v[i] ELSE Nul
    BY <2>1, PaddedType, Widths
  <2>3. buffer' = Written(pad) /\ usb'.text = TextOf(buffer')
    BY <1>1 DEF UsbGet, NoUsb
  <2> HIDE DEF v, pad
  <2>4. /\ buffer' \in Seq(Cell) /\ Len(buffer') = Wide
        /\ \A i \in 1..Wide : i <= Narrow => buffer'[i] = pad[i]
    BY <1>1, <2>2, <2>3, WrittenType DEF TypeInv, TypeOK
  <2>5. /\ \A i \in 1..Len(v) : buffer'[i] = v[i]
        /\ Len(v) < Len(buffer') /\ buffer'[Len(v) + 1] = Nul
    BY <2>1, <2>2, <2>4, Widths
  <2>6. TextOf(buffer') = v
    BY <2>1, <2>4, <2>5, BeginsWith
  <2> QED
    BY <2>3, <2>6 DEF v
<1>2. TypeInv /\ [Next]_vars =>
         [\A f \in Wireless : UsbGet(f) /\ Len(config[f]) < Narrow => usb'.text = config[f]]_vars
  BY <1>1
<1> QED
  BY <1>2, Typed, PTL DEF Spec, ReadsBack
-----------------------------------------------------------------------------
(* The page *)

\* The page shows what is stored, as far as the getters can carry it, until another
\* client sets a value: what the handler has read so far, and what the form holds.
ReadSoFar ==
    IF rest.step = "answer" THEN Field
    ELSE {f \in Field : \/ f = "ssid" /\ rest.field # "ssid"
                        \/ f = "password" /\ rest.field = "hostname"}
SavesForm ==
    rest.step \in {"put", "store"} /\ rest.client = "page" => page = "saving" /\ rest.body = form
ReplyCurrent ==
    rest.step \in {"read", "answer"} /\ rest.fresh =>
        \A f \in ReadSoFar : Fits(f) => rest.reply[f] = Current[f]
FormCurrent == fresh => \A f \in Field \ edited : Fits(f) => form[f] = Current[f]
FormInv == SavesForm /\ ReplyCurrent /\ FormCurrent

LEMMA InitForm == Init => FormInv
BY DEF Init, FormInv, SavesForm, ReplyCurrent, FormCurrent, NoRest

LEMMA FieldsAreText ==
    ASSUME TypeInv, NEW f \in Field
    PROVE  Current[f] \in Text /\ form[f] \in Text /\ Current[f] # Absent
<1>1. HostName \in Text
  BY ValueAssumption DEF HostName, TypeInv, TypeOK
<1>2. f # "hostname" => config[f] \in Text
  BY DEF TypeInv, TypeOK, Configs, Field, Wireless
<1> QED
  BY <1>1, <1>2, NoTypes DEF Current, TypeInv, TypeOK

\* A value that fits is read as it is.
LEMMA ReadsFitting ==
    ASSUME TypeInv, NEW f \in Field, Fits(f)
    PROVE  Read(f) = Current[f]
<1>1. CASE f = "hostname"
  BY <1>1 DEF Fits, Read, Current
<1>2. CASE f # "hostname"
  <2>1. config[f] \in Text /\ Current[f] = config[f]
    BY <1>2 DEF TypeInv, TypeOK, Configs, Field, Wireless, Current
  <2> QED
    BY <1>2, <2>1, Widths, CutType DEF Read, Fits
<1> QED
  BY <1>1, <1>2

\* Nothing is stored: the form and the answer are as current as before.
LEMMA FormKept ==
    ASSUME UNCHANGED <<config, stored>>
    PROVE  \A f \in Field : (Current[f])' = Current[f] /\ (Fits(f)' <=> Fits(f))
BY DEF Current, HostName, Readable, Fits

LEMMA FormQuiet ==
    ASSUME FormInv, UNCHANGED <<config, stored, rest, page, form, edited, fresh>>
    PROVE  FormInv'
<1>1. ReadSoFar' = ReadSoFar /\ ReadSoFar \subseteq Field
  BY DEF ReadSoFar
<1>2. SavesForm'
  BY DEF FormInv, SavesForm
<1>3. ReplyCurrent'
  BY <1>1, FormKept DEF FormInv, ReplyCurrent
<1>4. FormCurrent'
  BY FormKept DEF FormInv, FormCurrent
<1> QED
  BY <1>2, <1>3, <1>4 DEF FormInv

LEMMA FormUsb ==
    ASSUME TypeInv, FormInv, UsbTask
    PROVE  FormInv'
<1>1. CASE UsbStore \/ UsbNvs
  <2>1. /\ fresh' = FALSE /\ rest' = [rest EXCEPT !.fresh = FALSE] /\ UNCHANGED <<page, form>>
        /\ rest \in RestType
    BY <1>1 DEF UsbStore, UsbNvs, browser, TypeInv, TypeOK, RestType, Body
  <2>2. /\ ~rest'.fresh /\ rest'.step = rest.step /\ rest'.client = rest.client
        /\ rest'.body = rest.body
    BY <2>1 DEF RestType
  <2> QED
    BY <2>1, <2>2 DEF FormInv, SavesForm, ReplyCurrent, FormCurrent
<1>2. CASE UsbLoad \/ UsbFails \/ UsbApply \/ UsbAnswered \/ UsbAddress \/ UsbMeasure
  BY <1>2, FormQuiet
     DEF UsbLoad, UsbFails, UsbApply, UsbAnswered, UsbAddress, UsbMeasure, Short, kept, browser
<1>3. ASSUME NEW f \in Wireless, UsbGet(f) PROVE FormInv'
  BY <1>3, FormQuiet DEF UsbGet, kept, browser
<1> QED
  BY <1>1, <1>2, <1>3 DEF UsbTask

\* The handler goes on to the next field, answers, or begins to read.
LEMMA NextField ==
    ASSUME TypeInv, rest' = PutNext
    PROVE  /\ rest'.step \in {"put", "store"} /\ rest'.client = "page"
                => rest.client = "page" /\ rest'.body = rest.body
           /\ rest'.step \in {"read", "answer"} => ReadSoFar' = {}
<1>1. rest \in RestType
  BY DEF TypeInv, TypeOK, RestType, Body
<1>2. CASE rest.field = "ssid"
  BY <1>1, <1>2 DEF PutNext, RestType, Field, Wireless
<1>3. CASE rest.field = "password"
  BY <1>1, <1>3 DEF PutNext, RestType, Field, Wireless
<1>4. CASE rest.field \notin {"ssid", "password"}
  BY <1>1, <1>4 DEF PutNext, NoRest, ReadSoFar
<1> QED
  BY <1>2, <1>3, <1>4

LEMMA FormStored ==
    ASSUME TypeInv, SerialInv, FormInv, [Next]_vars, rest.step \in {"put", "store"},
           usb.step \notin {"store", "nvs"},
           rest' = PutNext, UNCHANGED <<page, form, edited>>,
           fresh' => fresh /\ (rest.client = "page" \/ UNCHANGED <<config, stored>>)
    PROVE  FormInv'
<1>1. SavesForm' /\ ReplyCurrent'
  BY NextField DEF FormInv, SavesForm, ReplyCurrent
<1>2. ASSUME fresh', NEW f \in Field \ edited, Fits(f)' PROVE form[f] = (Current[f])'
  <2>1. CASE (Current[f])' = Current[f]
    <3>1. Fits(f)
      BY <1>2, <2>1 DEF Fits, Readable, Current
    <3> QED
      BY <1>2, <2>1, <3>1 DEF FormInv, FormCurrent
  <2>2. CASE (Current[f])' # Current[f]
    <3>1. May(f) /\ rest.client = "page"
      BY <1>2, <2>2, Changed, FormKept
    <3> QED
      BY <3>1 DEF May, FormInv, SavesForm
  <2> QED
    BY <2>1, <2>2
<1> QED
  BY <1>1, <1>2 DEF FormInv, FormCurrent

LEMMA FormHttpd ==
    ASSUME TypeInv, SerialInv, FormInv, [Next]_vars, HttpdTask
    PROVE  FormInv'
<1>1. rest \in RestType
  BY DEF TypeInv, TypeOK, RestType, Body
<1>2. CASE RestSkip \/ RestFails \/ RestStore \/ RestNvs
  <2>1. /\ rest.step \in {"put", "store"} /\ rest' = PutNext /\ UNCHANGED <<page, form, edited>>
        /\ fresh' => fresh /\ (rest.client = "page" \/ UNCHANGED <<config, stored>>)
    <3>1. /\ rest.step \in {"put", "store"} /\ rest' = PutNext /\ UNCHANGED <<page, form, edited>>
          /\ \/ UNCHANGED <<config, stored>> /\ fresh' = fresh
             \/ fresh' = (fresh /\ rest.client = "page")
      BY <1>2 DEF RestSkip, RestFails, RestStore, RestNvs, kept, browser
    <3>2. CASE UNCHANGED <<config, stored>> /\ fresh' = fresh
      BY <3>1, <3>2
    <3>3. CASE fresh' = (fresh /\ rest.client = "page")
      BY <3>1, <3>3, Zenon
    <3> QED
      BY <3>1, <3>2, <3>3
  <2>2. usb.step \notin {"store", "nvs"}
    BY <2>1 DEF SerialInv, Setting
  <2> QED
    BY <2>1, <2>2, FormStored
<1>3. CASE RestLoad
  <2>1. /\ rest.step = "put" /\ rest'.step = "store" /\ rest'.client = rest.client
        /\ rest'.body = rest.body /\ UNCHANGED <<config, stored, page, form, edited, fresh>>
    BY <1>1, <1>3 DEF RestLoad, kept, browser, RestType
  <2> QED
    BY <2>1, FormKept DEF FormInv, SavesForm, ReplyCurrent, FormCurrent
<1>4. CASE RestRead
  <2>1. /\ rest.step = "read" /\ rest'.step \in {"read", "answer"} /\ rest'.fresh = rest.fresh
        /\ rest'.reply = [rest.reply EXCEPT ![rest.field] = Read(rest.field)]
        /\ ReadSoFar' \subseteq ReadSoFar \cup {rest.field}
        /\ UNCHANGED <<config, stored, page, form, edited, fresh>>
    <3>1. rest.field \in {"ssid", "password", "hostname"} /\ rest.step = "read"
      BY <1>1, <1>4 DEF RestRead, RestType, Field, Wireless
    <3>2. /\ rest'.field = IF rest.field = "ssid" THEN "password" ELSE "hostname"
          /\ rest'.step = IF rest.field = "hostname" THEN "answer" ELSE "read"
          /\ rest'.fresh = rest.fresh
          /\ rest'.reply = [rest.reply EXCEPT ![rest.field] = Read(rest.field)]
      BY <1>1, <1>4 DEF RestRead, RestType
    <3>3. ReadSoFar' \subseteq ReadSoFar \cup {rest.field}
      BY <3>1, <3>2 DEF ReadSoFar, Field, Wireless
    <3> QED
      BY <1>4, <3>1, <3>2, <3>3 DEF RestRead, kept, browser
  <2>2. ASSUME rest'.fresh, NEW f \in ReadSoFar', Fits(f)' PROVE rest'.reply[f] = (Current[f])'
    <3>1. f \in Field /\ rest.reply \in [Field -> Text \cup {Absent}] /\ rest.field \in Field
      BY <1>1, <2>1, <2>2 DEF ReadSoFar, RestType, Body, Field, Wireless
    <3>2. (Current[f])' = Current[f] /\ Fits(f)
      BY <2>1, <2>2, <3>1, FormKept
    <3>3. CASE f = rest.field
      BY <2>1, <3>1, <3>2, <3>3, ReadsFitting
    <3>4. CASE f # rest.field
      BY <2>1, <2>2, <3>1, <3>2, <3>4 DEF FormInv, ReplyCurrent
    <3> QED
      BY <3>3, <3>4
  <2> QED
    BY <2>1, <2>2, FormKept DEF FormInv, SavesForm, ReplyCurrent, FormCurrent
<1>5. CASE PageAnswered
  <2>1. /\ rest.step = "answer" /\ fresh' = rest.fresh /\ edited' = {} /\ rest' = NoRest
        /\ form' = [f \in Field |-> IF rest.reply[f] = Absent THEN form[f] ELSE rest.reply[f]]
        /\ UNCHANGED <<config, stored>>
    BY <1>5 DEF PageAnswered, kept
  <2>2. ASSUME fresh', NEW f \in Field, Fits(f)' PROVE form'[f] = (Current[f])'
    <3>1. (Current[f])' = Current[f] /\ Fits(f)
      BY <2>1, <2>2, FormKept
    <3>2. f \in ReadSoFar
      BY <2>1 DEF ReadSoFar
    <3>3. rest.reply[f] = Current[f] /\ Current[f] # Absent
      BY <2>1, <2>2, <3>1, <3>2, FieldsAreText DEF FormInv, ReplyCurrent
    <3> QED
      BY <2>1, <3>1, <3>3
  <2> QED
    BY <2>1, <2>2 DEF FormInv, SavesForm, ReplyCurrent, FormCurrent, NoRest
<1> QED
  BY <1>2, <1>3, <1>4, <1>5 DEF HttpdTask

LEMMA FormClients ==
    ASSUME TypeInv, FormInv,
           \/ \E f \in Field : \E v \in Values[f] :
                 (\E ends \in BOOLEAN : UsbSet(f, v, ends)) \/ ApiPut(f, v) \/ Edit(f, v)
           \/ PageOpen \/ Save \/ PageClose
    PROVE  FormInv'
<1>1. ASSUME NEW f \in Field, NEW v \in Values[f], NEW ends \in BOOLEAN, UsbSet(f, v, ends)
      PROVE  FormInv'
  BY <1>1, FormQuiet DEF UsbSet, kept, browser
<1>2. ASSUME NEW client, NEW body, Request(client, body), UNCHANGED kept,
             UNCHANGED <<form, edited, fresh>>,
             rest'.step = "put" /\ client = "page" => page' = "saving" /\ body = form'
      PROVE  FormInv'
  <2>1. /\ rest'.step \in {"read", "put"} /\ rest'.client = client /\ rest'.body = body
        /\ rest'.field = "ssid"
    BY <1>2 DEF Request, NoRest
  <2>2. SavesForm'
    BY <1>2, <2>1 DEF SavesForm
  <2>3. ReplyCurrent'
    <3>1. ReadSoFar' = {}
      BY <2>1 DEF ReadSoFar
    <3> QED
      BY <3>1 DEF ReplyCurrent
  <2>4. FormCurrent'
    BY <1>2, FormKept DEF FormInv, FormCurrent, kept
  <2> QED
    BY <2>2, <2>3, <2>4 DEF FormInv
<1>3. ASSUME NEW f \in Field, NEW v \in Values[f], ApiPut(f, v) PROVE FormInv'
  BY <1>2, <1>3 DEF ApiPut, browser
<1>4. CASE PageOpen
  <2>1. rest'.step = "read"
    BY <1>4 DEF PageOpen, Request, NoRest
  <2> QED
    BY <1>2, <1>4, <2>1 DEF PageOpen
<1>5. CASE Save
  BY <1>2, <1>5 DEF Save
<1>6. ASSUME NEW f \in Field, NEW v \in Values[f], Edit(f, v) PROVE FormInv'
  <2>1. /\ page = "open" /\ form' = [form EXCEPT ![f] = v] /\ edited' = edited \cup {f}
        /\ UNCHANGED <<config, stored, rest, page, fresh>>
    BY <1>6 DEF Edit, kept
  <2>2. SavesForm' /\ ReadSoFar' = ReadSoFar /\ ReadSoFar \subseteq Field
    BY <2>1 DEF FormInv, SavesForm, ReadSoFar
  <2>3. ReplyCurrent'
    BY <2>1, <2>2, FormKept DEF FormInv, ReplyCurrent
  <2>4. FormCurrent'
    BY <2>1, FormKept DEF FormInv, FormCurrent
  <2> QED
    BY <2>2, <2>3, <2>4 DEF FormInv
<1>7. CASE PageClose
  <2>1. /\ page = "open" /\ fresh' = FALSE /\ UNCHANGED <<config, stored, rest>>
    BY <1>7 DEF PageClose, kept
  <2>2. ReadSoFar' = ReadSoFar /\ ReadSoFar \subseteq Field
    BY <2>1 DEF ReadSoFar
  <2>3. ReplyCurrent'
    BY <2>1, <2>2, FormKept DEF FormInv, ReplyCurrent
  <2> QED
    BY <2>1, <2>3 DEF FormInv, SavesForm, FormCurrent
<1> QED
  BY <1>1, <1>3, <1>4, <1>5, <1>6, <1>7

LEMMA FormStep == TypeInv /\ SerialInv /\ FormInv /\ [Next]_vars => FormInv'
<1> SUFFICES ASSUME TypeInv, SerialInv, FormInv, [Next]_vars PROVE FormInv'
  OBVIOUS
<1>1. CASE networking_init \/ UNCHANGED vars
  BY <1>1, FormQuiet
     DEF networking_init, BootRead, BootWifi, BootMdns, vars, kept, browser
<1>2. CASE Restart
  <2>1. rest' = NoRest /\ UNCHANGED <<config, stored, form, edited, fresh>>
    BY <1>2 DEF Restart, kept
  <2>2. FormCurrent'
    BY <2>1, FormKept DEF FormInv, FormCurrent
  <2> QED
    BY <2>1, <2>2 DEF FormInv, SavesForm, ReplyCurrent, NoRest
<1> QED
  BY <1>1, <1>2, FormUsb, FormHttpd, FormClients DEF Next

\* Saving a form that shows what is stored changes only the fields its user edited,
\* of the values the getters can carry, whatever restarts and refused stores come in
\* between, when USB and REST set values one after the other (SystemConfig.vue:19-63,
\* urihandlers_rest.c:126-177).
THEOREM SavesKeep == ~Overlap /\ Spec => SaveKeepsFitting
<1> DEFINE Keeps == Saves => \A f \in Field \ edited : Fits(f) => (Current[f])' = Current[f]
<1>1. ASSUME TypeInv, SerialInv, FormInv, [Next]_vars PROVE Keeps
  <2>1. ASSUME Saves, NEW f \in Field \ edited, Fits(f), (Current[f])' # Current[f] PROVE FALSE
    <3>1. May(f)
      BY <1>1, <2>1, Changed
    <3>2. (Current[f])' = rest.body[f]
      BY <1>1, <2>1, <3>1 DEF May, Saves, SerialInv, Setting
    <3>3. rest.body[f] = Current[f]
      BY <1>1, <2>1 DEF FormInv, SavesForm, FormCurrent, Saves
    <3> QED
      BY <2>1, <3>2, <3>3
  <2> QED
    BY <2>1
<1>2. TypeInv /\ SerialInv /\ FormInv /\ [Next]_vars => [Keeps]_vars
  BY <1>1
<1>3. ~Overlap /\ Spec => [][Keeps]_vars
  BY <1>2, InitForm, FormStep, SerialInvariant, PTL DEF Spec
<1> QED
  BY <1>3 DEF SaveKeepsFitting
-----------------------------------------------------------------------------
(* The settings as registers *)

\* What the two requests ask for, field by field.
LEMMA Asked ==
    /\ Requests["usb"] = InUsb /\ Requests["rest"] = InRest
    /\ Requests'["usb"] = InUsb' /\ Requests'["rest"] = InRest'
    /\ DOMAIN Requests = Clients /\ DOMAIN Requests' = Clients
    /\ InUsb' = InUsb /\ InRest' = InRest => Requests' = Requests
BY DEF Requests, Clients

\* A step that leaves the values and both requests alone is none of the registers.
LEMMA Quiet ==
    ASSUME UNCHANGED kept, InUsb' = InUsb, InRest' = InRest
    PROVE  UNCHANGED Registers!vars
BY Asked DEF Registers!vars, kept, Current, HostName

\* The requests ask for texts.
LEMMA AskedTypes ==
    ASSUME TypeInv
    PROVE  InUsb \in Body /\ InRest \in Body
<1>1. usb.text \in Text /\ usb.meant \in Text \cup {Absent} /\ rest.body \in Body
  BY DEF TypeInv, TypeOK, Body
<1> QED
  BY <1>1 DEF InUsb, InRest, Body

LEMMA NextAskedTypes ==
    ASSUME TypeInv'
    PROVE  InUsb' \in Body /\ InRest' \in Body
<1>1. usb'.text \in Text /\ usb'.meant \in Text \cup {Absent} /\ rest'.body \in Body
  BY DEF TypeInv, TypeOK, Body
<1> QED
  BY <1>1 DEF InUsb, InRest, Body

\* The tinyusb task settles what it was asked for: it stores or refuses it.
LEMMA UsbSettles ==
    ASSUME TypeInv, SerialInv, usb.step \in {"load", "store", "nvs"},
           usb'.step \notin {"load", "store", "nvs"}, InRest' = InRest
    PROVE  Registers!Settle("usb", usb.field) /\ InUsb[usb.field] = usb.text
<1>1. usb.field \in Field /\ usb.text \in Text
  BY DEF TypeInv, TypeOK
<1>2. InUsb = [f \in Field |-> IF f = usb.field THEN usb.text ELSE Absent]
  BY DEF InUsb, SerialInv
<1>3. InUsb' = [InUsb EXCEPT ![usb.field] = Absent]
  BY <1>1, <1>2 DEF InUsb
<1>4. InUsb[usb.field] = usb.text /\ usb.text # Absent
  BY <1>1, <1>2, NoTypes
<1>5. Requests' = [Requests EXCEPT !["usb"][usb.field] = Absent]
  BY <1>3 DEF Requests, Clients
<1> QED
  BY <1>4, <1>5, Asked DEF Registers!Settle

\* Once the handler is done with a field, the others are still to come.
LEMMA PutPassesOn ==
    ASSUME TypeInv, rest.step \in {"put", "store"}, rest' = PutNext
    PROVE  InRest' = [InRest EXCEPT ![rest.field] = Absent]
<1>1. rest \in RestType /\ rest.field \in Field
  BY DEF TypeInv, TypeOK, RestType, Body
<1>2. CASE rest.field = "ssid"
  <2>1. rest'.step = "put" /\ rest'.field = "password" /\ rest'.body = rest.body
    BY <1>1, <1>2 DEF PutNext, RestType
  <2> QED
    BY <1>2, <2>1 DEF InRest, ToCome
<1>3. CASE rest.field = "password"
  <2>1. rest'.step = "put" /\ rest'.field = "hostname" /\ rest'.body = rest.body
    BY <1>1, <1>3 DEF PutNext, RestType
  <2> QED
    BY <1>3, <2>1 DEF InRest, ToCome, Field, Wireless
<1>4. CASE rest.field = "hostname"
  <2>1. rest'.step \notin {"put", "store"}
    BY <1>1, <1>4 DEF PutNext, NoRest
  <2> QED
    BY <1>4, <2>1 DEF InRest, ToCome
<1> QED
  BY <1>1, <1>2, <1>3, <1>4 DEF Field, Wireless

\* So does the httpd task with the field it has come to.
LEMMA RestSettles ==
    ASSUME TypeInv, rest.step \in {"put", "store"}, rest.body[rest.field] # Absent,
           rest' = PutNext, InUsb' = InUsb
    PROVE  Registers!Settle("rest", rest.field) /\ InRest[rest.field] = rest.body[rest.field]
<1>1. InRest[rest.field] = rest.body[rest.field]
  BY DEF InRest, ToCome, TypeInv, TypeOK
<1>2. InRest' = [InRest EXCEPT ![rest.field] = Absent]
  BY PutPassesOn
<1>3. Requests' = [Requests EXCEPT !["rest"][rest.field] = Absent]
  BY <1>2 DEF Requests, Clients
<1> QED
  BY <1>1, <1>3, Asked DEF Registers!Settle

\* What neither task stores, refuses or is asked is none of the registers.
LEMMA QuietSteps ==
    ASSUME TypeInv,
           \/ networking_init \/ UsbLoad \/ UsbApply \/ UsbAnswered \/ UsbAddress \/ UsbMeasure
           \/ \E f \in Wireless : UsbGet(f)
           \/ RestSkip \/ RestLoad \/ RestRead \/ PageAnswered \/ PageOpen \/ PageClose
           \/ \E f \in Field : \E v \in Values[f] : Edit(f, v)
           \/ UNCHANGED vars
    PROVE  UNCHANGED Registers!vars
<1> USE DEF kept
<1>1. usb \in UsbType /\ rest \in RestType
  BY DEF TypeInv, TypeOK, UsbType, RestType, Body
<1>2. CASE networking_init \/ UsbAddress \/ UsbMeasure \/ PageClose \/ UNCHANGED vars
           \/ \E f \in Field : \E v \in Values[f] : Edit(f, v)
  <2>1. UNCHANGED <<kept, usb, rest>>
    BY <1>2 DEF networking_init, BootRead, BootWifi, BootMdns, UsbAddress, UsbMeasure, Short,
                PageClose, Edit, vars
  <2> QED
    BY <2>1, Quiet DEF InUsb, InRest, ToCome
<1>3. CASE UsbLoad
  <2>1. /\ usb.step = "load" /\ usb'.step = "store" /\ usb'.field = usb.field
        /\ usb'.text = usb.text /\ usb'.meant = usb.meant /\ UNCHANGED <<kept, rest>>
    BY <1>1, <1>3 DEF UsbLoad, UsbType
  <2> QED
    BY <2>1, Quiet DEF InUsb, InRest, ToCome
<1>4. CASE UsbApply \/ UsbAnswered \/ \E f \in Wireless : UsbGet(f)
  <2>1. /\ usb.step \notin {"load", "store", "nvs"} /\ usb'.step \notin {"load", "store", "nvs"}
        /\ UNCHANGED <<kept, rest>>
    <3>1. CASE UsbApply \/ UsbAnswered
      BY <3>1 DEF UsbApply, UsbAnswered, NoUsb
    <3>2. ASSUME NEW f \in Wireless, UsbGet(f)
          PROVE  /\ usb.step = "idle" /\ usb'.step = "answer" /\ UNCHANGED <<kept, rest>>
      BY <3>2 DEF UsbGet, NoUsb
    <3> QED
      BY <1>4, <3>1, <3>2
  <2> QED
    BY <2>1, Quiet DEF InUsb, InRest, ToCome
<1>5. CASE RestSkip
  <2>1. /\ rest.step = "put" /\ rest.body[rest.field] = Absent /\ rest' = PutNext
        /\ UNCHANGED <<kept, usb>>
    BY <1>5 DEF RestSkip
  <2>2. InRest' = [InRest EXCEPT ![rest.field] = Absent] /\ InRest[rest.field] = Absent
    BY <1>1, <2>1, PutPassesOn DEF InRest, RestType
  <2>3. InRest' = InRest
    BY <2>2 DEF InRest
  <2> QED
    BY <2>1, <2>3, Quiet DEF InUsb
<1>6. CASE RestLoad
  <2>1. /\ rest.step = "put" /\ rest'.step = "store" /\ rest'.field = rest.field
        /\ rest'.body = rest.body /\ UNCHANGED <<kept, usb>>
    BY <1>1, <1>6 DEF RestLoad, RestType
  <2> QED
    BY <2>1, Quiet DEF InUsb, InRest, ToCome
<1>7. CASE RestRead \/ PageAnswered
  <2>1. /\ rest.step \notin {"put", "store"} /\ rest'.step \notin {"put", "store"}
        /\ UNCHANGED <<kept, usb>>
    <3>1. CASE RestRead
      BY <1>1, <3>1 DEF RestRead, RestType
    <3>2. CASE PageAnswered
      BY <3>2 DEF PageAnswered, NoRest
    <3> QED
      BY <1>7, <3>1, <3>2
  <2> QED
    BY <2>1, Quiet DEF InUsb, InRest, ToCome
<1>8. CASE PageOpen
  <2>1. rest.step = "idle" /\ rest'.step = "read" /\ UNCHANGED <<kept, usb>>
    BY <1>8 DEF PageOpen, Request, NoRest
  <2> QED
    BY <2>1, Quiet DEF InUsb, InRest, ToCome
<1> QED
  BY <1>2, <1>3, <1>4, <1>5, <1>6, <1>7, <1>8

\* The task asks for the values of its request when it has settled the last one.
LEMMA Asks ==
    ASSUME TypeInv', UNCHANGED kept,
           NEW c \in Clients, Requests[c] = Registers!NoRequest,
           \A d \in Clients \ {c} : Requests'[d] = Requests[d]
    PROVE  Registers!Ask(c)
<1>1. Requests'[c] \in Body
  BY NextAskedTypes, Asked DEF Clients
<1>2. Requests' = [Requests EXCEPT ![c] = Requests'[c]]
  BY DEF Requests
<1>3. Current' = Current
  BY DEF kept, Current, HostName
<1> QED
  BY <1>1, <1>2, <1>3 DEF Registers!Ask, Body

LEMMA AskSteps ==
    ASSUME TypeInv, TypeInv',
           \/ \E f \in Field : \E v \in Values[f] :
                 (\E ends \in BOOLEAN : UsbSet(f, v, ends)) \/ ApiPut(f, v)
           \/ Save
    PROVE  Registers!Next
<1>1. CASE \E f \in Field : \E v \in Values[f] : \E ends \in BOOLEAN : UsbSet(f, v, ends)
  <2>1. usb.step = "idle" /\ UNCHANGED <<kept, rest>>
    <3>1. ASSUME NEW f \in Field, NEW v \in Values[f], NEW ends \in BOOLEAN, UsbSet(f, v, ends)
          PROVE  usb.step = "idle" /\ UNCHANGED <<kept, rest>>
      BY <3>1 DEF UsbSet
    <3> QED
      BY <1>1, <3>1
  <2>2. InUsb = Registers!NoRequest /\ InRest' = InRest
    BY <2>1 DEF InUsb, InRest, ToCome, Registers!NoRequest
  <2>3. Registers!Ask("usb")
    BY <2>1, <2>2, Asked, Asks DEF Clients
  <2> QED
    BY <2>3 DEF Registers!Next, Clients
<1>2. CASE Save \/ \E f \in Field : \E v \in Values[f] : ApiPut(f, v)
  <2>1. rest.step = "idle" /\ UNCHANGED <<kept, usb>>
    <3>1. CASE Save
      BY <3>1 DEF Save, Request
    <3>2. ASSUME NEW f \in Field, NEW v \in Values[f], ApiPut(f, v)
          PROVE  rest.step = "idle" /\ UNCHANGED <<kept, usb>>
      BY <3>2 DEF ApiPut, Request
    <3> QED
      BY <1>2, <3>1, <3>2
  <2>2. InRest = Registers!NoRequest /\ InUsb' = InUsb
    BY <2>1 DEF InUsb, InRest, ToCome, Registers!NoRequest
  <2>3. Registers!Ask("rest")
    BY <2>1, <2>2, Asked, Asks DEF Clients
  <2> QED
    BY <2>3 DEF Registers!Next, Clients
<1> QED
  BY <1>1, <1>2

\* A value that is stored takes the place of that of its field, and of no other.
LEMMA StoreSteps ==
    ASSUME TypeInv, SerialInv, UsbStore \/ UsbNvs \/ RestStore \/ RestNvs
    PROVE  Registers!Next
<1>1. CASE UsbStore \/ UsbNvs
  <2>1. /\ usb.step \in {"load", "store", "nvs"} /\ usb'.step \notin {"load", "store", "nvs"}
        /\ rest'.step = rest.step /\ rest'.field = rest.field /\ rest'.body = rest.body
        /\ usb.field \in Field /\ usb.text \in Text
    BY <1>1 DEF UsbStore, UsbNvs, NoUsb, TypeInv, TypeOK
  <2>2. Registers!Settle("usb", usb.field) /\ InUsb[usb.field] = usb.text
    BY <2>1, UsbSettles DEF InRest, ToCome
  <2>3. Current' = [Current EXCEPT ![usb.field] = usb.text]
    <3>1. CASE UsbStore
      <4>1. /\ config' = [config EXCEPT ![usb.field] = usb.text] /\ stored' = stored
            /\ usb.field \in Wireless /\ config \in [Wireless -> Text]
        BY <3>1 DEF UsbStore, SerialInv, TypeInv, TypeOK, UsbWorks, Configs
      <4> QED
        BY <4>1 DEF Current, HostName, Field, Wireless
    <3>2. CASE UsbNvs
      <4>1. stored' = usb.text /\ config' = config /\ usb.field = "hostname"
        BY <3>2 DEF UsbNvs, TypeInv, UsbWorks
      <4>2. HostName' = usb.text
        BY <2>1, <4>1, NoTypes DEF HostName
      <4> QED
        BY <4>1, <4>2 DEF Current
    <3> QED
      BY <1>1, <3>1, <3>2
  <2>4. Registers!Store("usb", usb.field)
    BY <2>2, <2>3, Asked DEF Registers!Store
  <2> QED
    BY <2>1, <2>4 DEF Registers!Next, Clients
<1>2. CASE RestStore \/ RestNvs
  <2> DEFINE t == rest.body[rest.field]
  <2>1. /\ rest.step \in {"put", "store"} /\ rest' = PutNext /\ usb' = usb
        /\ t # Absent /\ t \in Text /\ rest.field \in Field
    <3>1. rest.body \in Body /\ rest.field \in Field
      BY DEF TypeInv, TypeOK, Body
    <3>2. rest.step \in {"put", "store"} /\ rest' = PutNext /\ usb' = usb /\ t # Absent
      BY <1>2 DEF RestStore, RestNvs, TypeInv, RestWorks
    <3> QED
      BY <3>1, <3>2 DEF Body
  <2>2. Registers!Settle("rest", rest.field) /\ InRest[rest.field] = t
    BY <2>1, RestSettles DEF InUsb
  <2>3. Current' = [Current EXCEPT ![rest.field] = t]
    <3>1. CASE RestStore
      <4>1. /\ config' = [config EXCEPT ![rest.field] = Cut(t, Bound(rest.field))]
            /\ stored' = stored
            /\ rest.field \in Wireless /\ config \in [Wireless -> Text]
        BY <3>1 DEF RestStore, SerialInv, TypeInv, TypeOK, RestWorks, Configs
      <4>2. Bound(rest.field) \in Nat /\ Len(t) <= Bound(rest.field)
        BY <2>1, Widths DEF Bound, Text, TypeInv, SsidsFit, ShortSsid
      <4>3. Cut(t, Bound(rest.field)) = t
        BY <2>1, <4>2, CutType
      <4> QED
        BY <4>1, <4>3 DEF Current, HostName, Field, Wireless
    <3>2. CASE RestNvs
      <4>1. stored' = t /\ config' = config /\ rest.field = "hostname"
        BY <3>2 DEF RestNvs
      <4>2. HostName' = t
        BY <2>1, <4>1, NoTypes DEF HostName
      <4> QED
        BY <4>1, <4>2 DEF Current
    <3> QED
      BY <1>2, <3>1, <3>2
  <2>4. Registers!Store("rest", rest.field)
    BY <2>2, <2>3, Asked DEF Registers!Store
  <2> QED
    BY <2>1, <2>4 DEF Registers!Next, Clients
<1> QED
  BY <1>1, <1>2

LEMMA RefuseSteps ==
    ASSUME TypeInv, SerialInv, UsbFails \/ RestFails
    PROVE  [Registers!Next]_(Registers!vars)
<1>1. UNCHANGED kept /\ Current' = Current
  BY DEF UsbFails, RestFails, kept, Current, HostName
<1>2. CASE UsbFails
  <2>1. /\ usb.step \in {"load", "store", "nvs"} /\ usb' = NoUsb /\ rest' = rest
        /\ usb.field \in Field
    BY <1>2 DEF UsbFails, TypeInv, TypeOK
  <2>2. usb'.step \notin {"load", "store", "nvs"} /\ InRest' = InRest
    BY <2>1 DEF NoUsb, InRest, ToCome
  <2>3. Registers!Refuse("usb", usb.field)
    BY <1>1, <2>1, <2>2, UsbSettles DEF Registers!Refuse
  <2> QED
    BY <2>1, <2>3 DEF Registers!Next, Clients
<1>3. CASE RestFails
  <2>1. /\ rest.step \in {"put", "store"} /\ rest' = PutNext /\ InUsb' = InUsb
        /\ rest.field \in Field
    BY <1>3 DEF RestFails, TypeInv, TypeOK, InUsb
  <2>2. CASE rest.body[rest.field] # Absent
    <3>1. Registers!Refuse("rest", rest.field)
      BY <1>1, <2>1, <2>2, RestSettles DEF Registers!Refuse
    <3> QED
      BY <2>1, <3>1 DEF Registers!Next, Clients
  <2>3. CASE rest.body[rest.field] = Absent
    <3>1. InRest' = [InRest EXCEPT ![rest.field] = Absent] /\ InRest[rest.field] = Absent
      BY <2>1, <2>3, PutPassesOn DEF InRest
    <3>2. InRest' = InRest
      BY <3>1 DEF InRest
    <3> QED
      BY <1>1, <2>1, <3>2, Quiet
  <2> QED
    BY <2>2, <2>3
<1> QED
  BY <1>2, <1>3

LEMMA RestartStep ==
    ASSUME Restart
    PROVE  Registers!Next
<1>1. usb' = NoUsb /\ rest' = NoRest /\ Current' = Current
  BY DEF Restart, kept, Current, HostName
<1>2. InUsb' = Registers!NoRequest /\ InRest' = Registers!NoRequest
  BY <1>1 DEF InUsb, InRest, ToCome, NoUsb, NoRest, Registers!NoRequest
<1>3. Requests' = [c \in Clients |-> Registers!NoRequest]
  BY <1>2 DEF Requests
<1> QED
  BY <1>1, <1>3 DEF Registers!Next, Registers!Restart

LEMMA RegisterStep ==
    ASSUME TypeInv, TypeInv', SerialInv, [Next]_vars
    PROVE  [Registers!Next]_(Registers!vars)
BY QuietSteps, AskSteps, StoreSteps, RefuseSteps, RestartStep DEF Next, UsbTask, HttpdTask

\* When USB and REST do not set at once, the setters that read, change and write back a
\* whole configuration implement one register per field: what a request sets is
\* stored whole, at one moment and at most once, and no other step changes it
\* (wifi.c:143-196, networking.c:92-103, urihandlers_rest.c:132-147).
THEOREM ConfigImplementsSettings == ~Overlap /\ Spec => ImplementsSettings
<1>1. Init => Registers!Init
  <2> SUFFICES ASSUME Init PROVE Registers!Init
    OBVIOUS
  <2>1. InUsb = Registers!NoRequest /\ InRest = Registers!NoRequest
    BY DEF Init, InUsb, InRest, ToCome, NoUsb, NoRest, Registers!NoRequest
  <2>2. Current = AtFirst
    BY DEF Init, Current, HostName, AtFirst, Field, Wireless
  <2> QED
    BY <2>1, <2>2 DEF Registers!Init, Requests
<1>2. TypeInv /\ TypeInv' /\ SerialInv /\ [Next]_vars => [Registers!Next]_(Registers!vars)
  BY RegisterStep
<1> QED
  BY <1>1, <1>2, SerialInvariant, PTL DEF Spec, ImplementsSettings, Registers!Spec
=============================================================================
