------------------------------- MODULE UsbProofs -------------------------------
(* Proofs about UsbBulk and UsbVendor for every size of their buffers.  For every
   host: the handler of the bulk task is installed and removed consistently
   although the two tasks that write bulk_task_handle share no lock.  For a host
   that keeps the protocol and waits for the answers to its commands: USB uses the
   bus only under its claim, gives the claim back, and never frees the hex file
   under the bootloader, whatever the web server does.  For a host that starts
   when the bulk task sleeps: no record of a hex file is lost.                  *)
EXTENDS UsbVendor, SequenceTheorems, FunctionTheorems, FiniteSetTheorems, TLAPS

\* What each point of a control request knows: which requests get there, and
\* that only the bulk task clears the handler under it.
RequestInv ==
    /\ handle \in Handler \cup {"none"}
    /\ tpc \in UsbStep
    /\ tpc = "lin_claim" => treq = "lin_on"
    /\ tpc = "start_command" => treq \in {"lin_on", "btl_on"}
    /\ tpc \in {"start_raw", "flush", "install"} => treq \in Starts
    /\ tpc = "hex_clear" => treq = "hex_on"
    /\ tpc = "hex_mode" => treq \in {"hex_on", "hex_off"}
    /\ tpc = "ota_begin" => treq = "ota_on"
    /\ tpc = "ota_mode" => treq \in {"ota_on", "ota_off"}
    /\ tpc \in {"flush", "install", "stop_command"} => handle = "none"

\* The command handler is set before it can be used, and reset after.
CommandInv ==
    /\ tpc \in {"start_raw", "flush", "install"} /\ treq \in {"lin_on", "btl_on"}
          => command # "none"
    /\ CommandHandlerSet

HandlerInv == RequestInv /\ CommandInv

\* Nothing is installed and no request is in progress when the task is created.
LEMMA HandlerInit == Init => HandlerInv
BY DEF Init, HandlerInv, RequestInv, CommandInv, CommandHandlerSet, Handler, UsbStep

\* The bulk task and the web server leave the requests alone and at most clear
\* the handler.
LEMMA OtherTasks ==
    ASSUME HandlerInv,
           UNCHANGED <<command, usb>>,
           handle' \in {handle, "none"}
    PROVE  HandlerInv'
BY DEF HandlerInv, RequestInv, CommandInv, CommandHandlerSet, usb

LEMMA HandlerStep == HandlerInv /\ [Next]_vars => HandlerInv'
<1> SUFFICES ASSUME HandlerInv, [Next]_vars PROVE HandlerInv'
    OBVIOUS
<1> USE DEF handles, task, busVars
<1>1. CASE BulkAnswer
  <2>1. UNCHANGED <<command, usb>> /\ handle' = handle
    BY <1>1 DEF BulkAnswer, HexDone, OtaWriteFails, OtaDone, CmdRefused, LinDone,
                BtlRefused, BtlDone
  <2> QED
    BY <2>1, OtherTasks
<1>2. CASE BulkSilent
  <2>1. UNCHANGED <<command, usb>> /\ handle' \in {handle, "none"}
    BY <1>2 DEF BulkSilent, BulkCheck, BulkSuspend, BulkWake, BulkReturn, BulkClear,
                ReceiveNothing, Receive, HexParse, HexWait, OtaWrite, OtaWait,
                CmdSkip, CmdUnderflow, CmdDispatch, BtlClaim
  <2> QED
    BY <2>1, OtherTasks
<1>3. CASE DeviceFault
  BY <1>3 DEF DeviceFault, HandlerInv, RequestInv, CommandInv, CommandHandlerSet, Handler,
              UsbStep
<1>4. CASE \E r \in Starts \cup Stops : Request(r)
  <2>1. PICK r \in Starts \cup Stops : Request(r)
    BY <1>4
  <2> QED
    BY <2>1 DEF Request, First, Starts, Stops, HandlerInv, RequestInv, CommandInv,
                CommandHandlerSet, UsbStep
<1>5. CASE UsbStepNext
  <2> USE DEF HandlerInv, RequestInv, CommandInv, CommandHandlerSet, UsbGoto, UsbStep
  <2>1. CASE LinClaim \/ LinRefused
    BY <1>5, <2>1 DEF LinClaim, LinRefused
  <2>2. CASE StartCommand
    BY <2>2 DEF StartCommand, Starts
  <2>3. CASE StartRaw
    BY <2>3 DEF StartRaw
  <2>4. CASE Flush
    BY <2>4 DEF Flush
  <2>5. CASE Install
    BY <2>5 DEF Install, HandlerOf, Starts, Handler
  <2>6. CASE Resume
    BY <2>6 DEF Resume
  <2>7. CASE StopHandle
    BY <2>7 DEF StopHandle
  <2>8. CASE StopCommand
    BY <2>8 DEF StopCommand
  <2>9. CASE Release
    BY <2>9 DEF Release
  <2>10. CASE HexClear \/ HexMode
    BY <2>10 DEF HexClear, HexMode, Starts
  <2>11. CASE OtaBegin \/ OtaMode
    BY <2>11 DEF OtaBegin, OtaMode, Starts
  <2>12. CASE Ack
    BY <2>12 DEF Ack
  <2> QED
    BY <1>5, <2>1, <2>2, <2>3, <2>4, <2>5, <2>6, <2>7, <2>8, <2>9, <2>10, <2>11, <2>12
    DEF UsbStepNext
<1>6. CASE OtaStall
  BY <1>6 DEF OtaStall, HandlerInv, RequestInv, CommandInv, CommandHandlerSet, UsbStep
<1>7. CASE \E i \in Item : RxCallback(i)
  BY <1>7, OtherTasks DEF RxCallback
<1>8. CASE WebClaim \/ WebRelease \/ \E on \in BOOLEAN : SlavePower(on)
  BY <1>8, OtherTasks DEF WebClaim, WebRelease, SlavePower
<1>9. CASE UNCHANGED vars
  BY <1>9, OtherTasks DEF vars
<1> QED
  BY <1>1, <1>2, <1>3, <1>4, <1>5, <1>6, <1>7, <1>8, <1>9 DEF Next

LEMMA HandlerInvariant == Spec => []HandlerInv
<1>1. Init => HandlerInv
  BY HandlerInit
<1>2. HandlerInv /\ [Next]_vars => HandlerInv'
  BY HandlerStep
<1> QED
  BY <1>1, <1>2, PTL DEF Spec

\* Whenever the command handler is what the bulk task will run, a LIN or a
\* bootloader command handler is set (usb_vendor_bulk.c:156-158, 211-226).
THEOREM CommandHandlerIsSet == Spec => []CommandHandlerSet
<1>1. HandlerInv => CommandHandlerSet
  BY DEF HandlerInv, CommandInv
<1> QED
  BY <1>1, HandlerInvariant, PTL

\* A handler that is installed is run until it ends or is stopped, never
\* exchanged (usb_vendor_bulk.c:201-203).
THEOREM HandlerIsNeverReplaced == Spec => HandlerNeverReplaced
<1>1. HandlerInv /\ [Next]_vars => [handle # "none" => handle' \in {handle, "none"}]_vars
  <2> SUFFICES ASSUME HandlerInv, Next, handle # "none"
               PROVE  handle' \in {handle, "none"}
    OBVIOUS
  <2> USE DEF handles, task, busVars
  <2>1. CASE BulkAnswer
    BY <2>1 DEF BulkAnswer, HexDone, OtaWriteFails, OtaDone, CmdRefused, LinDone,
                BtlRefused, BtlDone
  <2>2. CASE BulkSilent
    BY <2>2 DEF BulkSilent, BulkCheck, BulkSuspend, BulkWake, BulkReturn, BulkClear,
                ReceiveNothing, Receive, HexParse, HexWait, OtaWrite, OtaWait,
                CmdSkip, CmdUnderflow, CmdDispatch, BtlClaim
  <2>3. CASE UsbStepNext
    BY <2>3 DEF HandlerInv, RequestInv, UsbStepNext, LinClaim, LinRefused, StartCommand,
                StartRaw, Flush, Install, Resume, StopHandle, StopCommand, Release,
                HexClear, HexMode, OtaBegin, OtaMode, Ack
  <2>4. CASE \/ DeviceFault \/ OtaStall \/ WebClaim \/ WebRelease
             \/ \E on \in BOOLEAN : SlavePower(on)
    BY <2>4 DEF DeviceFault, OtaStall, WebClaim, WebRelease, SlavePower
  <2>5. CASE \E r \in Starts \cup Stops : Request(r)
    BY <2>5 DEF Request
  <2>6. CASE \E i \in Item : RxCallback(i)
    BY <2>6 DEF RxCallback
  <2> QED
    BY <2>1, <2>2, <2>3, <2>4, <2>5, <2>6 DEF Next
<1> QED
  BY <1>1, HandlerInvariant, PTL DEF Spec, HandlerNeverReplaced
-----------------------------------------------------------------------------
(* Types: the ring stays within its capacity, whatever the buffer does *)

LEMMA Sizes == RxCap \in Nat \ {0} /\ MaxFile \in Nat \ {0}
BY BoundAssumption

\* What is left of a sequence after its first n items.
LEMMA Rest ==
    ASSUME NEW s \in Seq(Item), NEW n \in 0..Len(s)
    PROVE  /\ SubSeq(s, n + 1, Len(s)) \in Seq(Item)
           /\ Len(SubSeq(s, n + 1, Len(s))) = Len(s) - n
           /\ \A i \in 1..(Len(s) - n) : SubSeq(s, n + 1, Len(s))[i] = s[n + i]
<1>1. Len(s) \in Nat
  OBVIOUS
<1>2. CASE n = Len(s)
  <2>1. SubSeq(s, n + 1, Len(s)) = <<>>
    BY <1>1, <1>2, SubSeqEmpty
  <2> QED
    BY <1>1, <1>2, <2>1
<1>3. CASE n < Len(s)
  BY <1>1, <1>3, SubSeqProperties
<1> QED
  BY <1>1, <1>2, <1>3

\* The beginning of a sequence.
LEMMA Front ==
    ASSUME NEW s \in Seq(Item), NEW k \in {1, 2}, NEW n \in 1..Len(s)
    PROVE  /\ SubSeq(s, k, n) \in Seq(Item)
           /\ Len(SubSeq(s, k, n)) = n - k + 1
           /\ \A i \in 1..(n - k + 1) : SubSeq(s, k, n)[i] = s[k + i - 1]
<1>1. Len(s) \in Nat
  OBVIOUS
<1>2. CASE k <= n
  BY <1>1, <1>2, SubSeqProperties
<1>3. CASE k > n
  <2>1. SubSeq(s, k, n) = <<>> /\ n - k + 1 = 0
    BY <1>1, <1>3, SubSeqEmpty
  <2> QED
    BY <2>1
<1> QED
  BY <1>1, <1>2, <1>3

LEMMA ContiguousRange == TypeOK => Contiguous \in 0..Len(rx)
BY Sizes DEF TypeOK, Contiguous

LEMMA TakeTypes ==
    ASSUME TypeOK, NEW n \in 0..Contiguous, Take(n)
    PROVE  rx' \in Seq(Item) /\ Len(rx') = Len(rx) - n /\ head' \in 0..(RxCap - 1)
<1>1. n \in 0..Len(rx)
  BY ContiguousRange
<1>2. (head + n) % RxCap \in 0..(RxCap - 1)
  BY <1>1, Sizes DEF TypeOK
<1> QED
  BY <1>1, <1>2, Rest DEF TypeOK, Take

LEMMA DropTypes ==
    ASSUME TypeOK, DropFrame(buf)
    PROVE  buf' \in Seq(Item)
<1>1. PICK i \in 1..Len(buf) : buf' = SubSeq(buf, i + 1, Len(buf))
  BY DEF DropFrame
<1>2. Len(buf) \in Nat
  BY DEF TypeOK
<1> QED
  BY <1>1, <1>2, Rest, Sizes DEF TypeOK

\* What Receive appends: the items it takes, or the mangled ones.
Received(n) == IF negative THEN <<"junk">> \o SubSeq(rx, 2, n) ELSE SubSeq(rx, 1, n)

LEMMA ReceivedTypes ==
    ASSUME TypeOK, NEW n \in 1..Len(rx)
    PROVE  /\ Received(n) \in Seq(Item) /\ Len(Received(n)) = n
           /\ \A i \in 1..n : Received(n)[i] \in {rx[i], "junk"}
<1>1. rx \in Seq(Item) /\ Len(rx) \in Nat
  BY DEF TypeOK
<1>2. CASE negative
  <2>1. <<"junk">> \in Seq(Item) /\ Len(<<"junk">>) = 1 /\ <<"junk">>[1] = "junk"
    BY DEF Item
  <2>2. /\ SubSeq(rx, 2, n) \in Seq(Item) /\ Len(SubSeq(rx, 2, n)) = n - 1
        /\ \A i \in 1..(n - 1) : SubSeq(rx, 2, n)[i] = rx[i + 1]
    BY <1>1, Front
  <2> QED
    BY <1>2, <2>1, <2>2, ConcatProperties DEF Received
<1>3. CASE ~negative
  BY <1>1, <1>3, Front DEF Received
<1> QED
  BY <1>2, <1>3

LEMMA ReceiveTypes ==
    ASSUME TypeOK, Receive
    PROVE  /\ buf' \in Seq(Item)
           /\ rx' \in Seq(Item) /\ Len(rx') <= RxCap /\ head' \in 0..(RxCap - 1)
<1>1. PICK n \in 1..Contiguous :
         buf' = buf \o Received(n) /\ Take(n)
  BY DEF Receive, Received
<1>2. n \in 1..Len(rx) /\ n \in 0..Contiguous
  BY ContiguousRange
<1>3. Received(n) \in Seq(Item) /\ Len(Received(n)) = n
  BY <1>2, ReceivedTypes
<1>4. buf \in Seq(Item) /\ Len(buf) \in Nat
  BY DEF TypeOK
<1>5. buf' \in Seq(Item) /\ Len(buf') = Len(buf) + n
  BY <1>1, <1>3, <1>4, ConcatProperties
<1>6. rx' \in Seq(Item) /\ Len(rx') = Len(rx) - n /\ head' \in 0..(RxCap - 1)
  BY <1>1, <1>2, TakeTypes
<1> QED
  BY <1>1, <1>2, <1>5, <1>6, Sizes DEF TypeOK

\* The task receives only with a handler it loaded.
Loaded == bpc = "receive" => running \in Handler

LEMMA BulkTypes ==
    ASSUME TypeOK, Loaded, BulkAnswer \/ BulkSilent
    PROVE  TypeOK'
<1> USE DEF TypeOK, BulkStep, handles, ring, hexVars, otaVars, busVars, usb
<1>1. <<>> \in Seq(Item) /\ Len(<<>>) = 0
  OBVIOUS
<1>2. CASE HexDone \/ OtaDone \/ LinDone \/ BtlRefused \/ BtlDone
  BY <1>1, <1>2 DEF HexDone, OtaDone, LinDone, BtlRefused, BtlDone
<1>3. CASE OtaWriteFails \/ OtaWrite
  <2>1. PICK n \in 1..Contiguous : Take(n)
    BY <1>3 DEF OtaWriteFails, OtaWrite
  <2>2. n \in 0..Contiguous /\ n \in 1..Len(rx)
    BY <2>1, ContiguousRange
  <2>3. rx' \in Seq(Item) /\ Len(rx') = Len(rx) - n /\ head' \in 0..(RxCap - 1)
    BY <2>1, <2>2, TakeTypes
  <2>4. Len(rx') <= RxCap
    BY <2>2, <2>3, Sizes
  <2> QED
    BY <1>1, <1>3, <2>3, <2>4 DEF OtaWriteFails, OtaWrite
<1>4. CASE CmdRefused \/ CmdDispatch
  <2>1. buf' \in Seq(Item)
    BY <1>4, DropTypes DEF CmdRefused, CmdDispatch
  <2> QED
    BY <1>4, <2>1 DEF CmdRefused, CmdDispatch
<1>5. CASE BulkCheck \/ BulkSuspend \/ BulkReturn \/ BulkClear
  BY <1>5 DEF BulkCheck, BulkSuspend, BulkReturn, BulkClear
<1>6. CASE BulkWake \/ CmdSkip
  BY <1>1, <1>6 DEF BulkWake, CmdSkip
<1>7. CASE ReceiveNothing
  <2>1. running \in BulkStep
    BY <1>7 DEF ReceiveNothing, Loaded, Handler
  <2> QED
    BY <1>7, <2>1 DEF ReceiveNothing
<1>8. CASE Receive
  <2>1. /\ buf' \in Seq(Item)
        /\ rx' \in Seq(Item) /\ Len(rx') <= RxCap /\ head' \in 0..(RxCap - 1)
    BY <1>8, ReceiveTypes
  <2>2. /\ bpc' \in BulkStep /\ negative' \in BOOLEAN
        /\ UNCHANGED <<handle, command, suspended, running, hexMode, hexFile, fileInUse,
                       otaMode, otaOpen, bus, power, tpc, treq>>
    BY <1>8 DEF Receive
  <2> QED
    BY <2>1, <2>2
<1>9. CASE HexParse
  <2>1. PICK n \in 0..Len(buf) :
           /\ hexFile + n <= MaxFile /\ hexFile' = hexFile + n
           /\ buf' = SubSeq(buf, Consumed(buf, n) + 1, Len(buf))
    BY <1>9 DEF HexParse
  <2>2. Consumed(buf, n) \in 0..Len(buf)
    BY <2>1 DEF Consumed
  <2>3. buf' \in Seq(Item)
    BY <2>1, <2>2, Rest, Sizes
  <2>4. hexFile' \in 0..MaxFile
    BY <2>1, Sizes
  <2> QED
    BY <1>9, <2>3, <2>4 DEF HexParse
<1>10. CASE HexWait \/ OtaWait \/ CmdUnderflow
  BY <1>10 DEF HexWait, OtaWait, CmdUnderflow
<1>11. CASE BtlClaim
  BY <1>11 DEF BtlClaim
<1> QED
  BY <1>2, <1>3, <1>4, <1>5, <1>6, <1>7, <1>8, <1>9, <1>10, <1>11
  DEF BulkAnswer, BulkSilent

LEMMA UsbTypes ==
    ASSUME TypeOK, HandlerInv, UsbStepNext
    PROVE  TypeOK'
<1> USE DEF TypeOK, UsbStep, UsbGoto, handles, task, ring, hexVars, otaVars, busVars
<1>1. CASE LinClaim \/ LinRefused
  BY <1>1 DEF LinClaim, LinRefused
<1>2. CASE StartCommand
  <2>1. command' \in {"lin", "btl", "none"} /\ tpc' \in UsbStep /\ treq' = treq
    BY <1>2 DEF StartCommand
  <2> QED
    BY <1>2, <2>1 DEF StartCommand
<1>12. CASE StartRaw \/ Resume
  BY <1>12 DEF StartRaw, Resume
<1>3. CASE Flush
  <2>1. /\ rx' \in Seq(Item) /\ Len(rx') = Len(rx) - Contiguous
        /\ head' \in 0..(RxCap - 1) /\ Contiguous \in 0..Len(rx)
    BY <1>3, ContiguousRange, TakeTypes DEF Flush
  <2>2. Len(rx') <= RxCap
    BY <2>1, Sizes
  <2> QED
    BY <1>3, <2>1, <2>2 DEF Flush
<1>4. CASE Install
  BY <1>4 DEF Install, HandlerInv, RequestInv, HandlerOf, Starts, Handler
<1>5. CASE StopHandle \/ StopCommand
  BY <1>5 DEF StopHandle, StopCommand
<1>6. CASE Release
  <2>1. power' \in BOOLEAN
    BY <1>6 DEF Release
  <2>2. bus' \in {"free", "web", "usb_app", "usb_btl"}
    BY <1>6 DEF Release
  <2> QED
    BY <1>6, <2>1, <2>2 DEF Release
<1>7. CASE HexClear
  BY <1>7, Sizes DEF HexClear
<1>8. CASE HexMode
  <2>1. hexMode' \in BOOLEAN
    BY <1>8 DEF HexMode
  <2> QED
    BY <1>8, <2>1 DEF HexMode
<1>9. CASE OtaBegin
  BY <1>9 DEF OtaBegin
<1>10. CASE OtaMode
  <2>1. otaMode' \in BOOLEAN
    BY <1>10 DEF OtaMode
  <2> QED
    BY <1>10, <2>1 DEF OtaMode
<1>11. CASE Ack
  BY <1>11 DEF Ack
<1> QED
  BY <1>1, <1>2, <1>12, <1>3, <1>4, <1>5, <1>6, <1>7, <1>8, <1>9, <1>10,
     <1>11 DEF UsbStepNext

TypeInv == TypeOK /\ Loaded

LEMMA TypeInit == Init => TypeInv
<1>1. <<>> \in Seq(Item) /\ Len(<<>>) = 0
  OBVIOUS
<1>2. 0 <= RxCap /\ 0 \in 0..(RxCap - 1) /\ 0 \in 0..MaxFile
  BY Sizes
<1> QED
  BY <1>1, <1>2 DEF Init, TypeInv, TypeOK, Loaded, BulkStep, UsbStep

LEMMA TypeStep == TypeInv /\ HandlerInv /\ [Next]_vars => TypeInv'
<1> SUFFICES ASSUME TypeInv, HandlerInv, [Next]_vars PROVE TypeInv'
    OBVIOUS
<1> USE DEF handles, task, ring, hexVars, otaVars, busVars, usb
<1>1. CASE BulkAnswer
  <2>1. bpc' # "receive"
    BY <1>1 DEF BulkAnswer, HexDone, OtaWriteFails, OtaDone, CmdRefused, LinDone,
                BtlRefused, BtlDone
  <2> QED
    BY <1>1, <2>1, BulkTypes DEF TypeInv, Loaded
<1>2. CASE BulkSilent
  <2>1. bpc' = "receive" => running' \in Handler
    BY <1>2 DEF BulkSilent, BulkCheck, BulkSuspend, BulkWake, BulkReturn, BulkClear,
                ReceiveNothing, Receive, HexParse, HexWait, OtaWrite, OtaWait, CmdSkip,
                CmdUnderflow, CmdDispatch, BtlClaim, TypeInv, TypeOK, Loaded, Handler
  <2> QED
    BY <1>2, <2>1, BulkTypes DEF TypeInv, Loaded
<1>3. CASE DeviceFault
  <2>1. <<>> \in Seq(Item) /\ Len(<<>>) = 0
    OBVIOUS
  <2>2. 0 <= RxCap /\ 0 \in 0..(RxCap - 1) /\ 0 \in 0..MaxFile
    BY Sizes
  <2> QED
    BY <1>3, <2>1, <2>2 DEF DeviceFault, TypeInv, TypeOK, Loaded, BulkStep, UsbStep
<1>4. CASE \E r \in Starts \cup Stops : Request(r)
  <2>1. PICK r \in Starts \cup Stops : Request(r)
    BY <1>4
  <2>2. First[r] \in UsbStep
    BY DEF First, Starts, Stops, UsbStep
  <2> QED
    BY <2>1, <2>2 DEF Request, TypeInv, TypeOK, Loaded
<1>5. CASE UsbStepNext
  <2>1. UNCHANGED <<bpc, running>>
    BY <1>5 DEF UsbStepNext, LinClaim, LinRefused, StartCommand, StartRaw, Flush, Install,
                Resume, StopHandle, StopCommand, Release, HexClear, HexMode, OtaBegin,
                OtaMode, Ack
  <2> QED
    BY <1>5, <2>1, UsbTypes DEF TypeInv, Loaded
<1>6. CASE OtaStall
  BY <1>6 DEF OtaStall, TypeInv, TypeOK, Loaded, UsbStep
<1>7. CASE \E on \in BOOLEAN : SlavePower(on)
  BY <1>7 DEF SlavePower, TypeInv, TypeOK, Loaded
<1>8. CASE \E i \in Item : RxCallback(i)
  <2>1. PICK i \in Item : RxCallback(i)
    BY <1>8
  <2>2. rx' \in Seq(Item) /\ Len(rx') <= RxCap
    BY <2>1, Sizes DEF RxCallback, TypeInv, TypeOK
  <2> QED
    BY <2>1, <2>2 DEF RxCallback, TypeInv, TypeOK, Loaded
<1>9. CASE WebClaim \/ WebRelease
  BY <1>9 DEF WebClaim, WebRelease, TypeInv, TypeOK, Loaded
<1>10. CASE UNCHANGED vars
  BY <1>10 DEF vars, TypeInv, TypeOK, Loaded
<1> QED
  BY <1>1, <1>2, <1>3, <1>4, <1>5, <1>6, <1>7, <1>8, <1>9, <1>10 DEF Next

LEMMA TypeInvariant == Spec => [](TypeInv /\ HandlerInv)
<1>1. Init => TypeInv /\ HandlerInv
  BY TypeInit, HandlerInit
<1>2. TypeInv /\ HandlerInv /\ [Next]_vars => (TypeInv /\ HandlerInv)'
  BY TypeStep, HandlerStep
<1> QED
  BY <1>1, <1>2, PTL DEF Spec

\* Every variable keeps its type, and the ring never holds more than it has room for,
\* for every host and every size.  The task's buffer has no such bound
\* (usb_vendor_bulk.c:269-282, usb_vendor_hex_transfer.c:64-69).
THEOREM TypeCorrect == Spec => []TypeOK
<1>1. TypeInv => TypeOK
  BY DEF TypeInv
<1> QED
  BY <1>1, TypeInvariant, PTL

-----------------------------------------------------------------------------
(* A patient host *)

\* What the host is assumed to do: it waits for the answer to a command, is not
\* unplugged, and puts no command frame into a hex file.
Patient == Timeouts \cap {"lin", "btl"} = {} /\ ~MayUnplug /\ "frame" \notin HexItems

\* The session behind a control request in progress.
RequestSession ==
    /\ treq = "lin_on" => session = "lin"
    /\ treq = "btl_on" => session = "btl"
    /\ treq \in {"lin_off", "btl_off"} => session = "none"
    /\ tpc \in {"stop_handle", "stop_command", "release"} => treq \in {"lin_off", "btl_off"}

\* A transfer that is about to be started: its handler is not installed yet.
Starting ==
    /\ treq \in {"hex_on", "ota_on"}
    /\ tpc \in {"hex_clear", "hex_mode", "ota_begin", "ota_mode", "start_raw", "flush",
                "install"}

StartSession == Starting => session = SessionOf[treq]

\* A mode whose handler is set is claimed, until the request to leave it has
\* reset the handler.
CommandClaimed ==
    /\ tpc = "start_command" /\ treq = "lin_on" => bus = "usb_app" /\ power
    /\ command = "lin" =>
          /\ bus = "usb_app" /\ power
          /\ session = "lin" \/ (tpc \in {"stop_handle", "stop_command"} /\ treq = "lin_off")
    /\ command = "btl" =>
          session = "btl" \/ (tpc \in {"stop_handle", "stop_command"} /\ treq = "btl_off")

\* A USB claim belongs to an open mode, or to one that is being left.
Leaving(r) == treq = r /\ tpc \in {"stop_handle", "stop_command", "release"}
ClaimOwned ==
    /\ bus = "usb_app" => session = "lin" \/ Leaving("lin_off")
    /\ bus = "usb_btl" => session = "btl" \/ Leaving("btl_off")

\* A transfer handler that outlived its transfer is never called again: the task
\* is about to clear it, or sleeps and is not resumed while it is installed.
Ending == (bpc = "return" /\ negative) \/ bpc = "clear"
Stale == Ending \/ (bpc = "suspended" /\ suspended)
TransferOwned ==
    /\ handle \in Transfer => (session = handle /\ ~Starting) \/ Stale
    /\ tpc = "resume" /\ handle \in Transfer => session = handle \/ Ending
    /\ bpc \in {"receive", "hex", "ota"} /\ running \in Transfer => handle = running
    /\ bpc \in Handler => running = bpc

\* A command is on its way, or executed, only while its host waits for it in an
\* open mode; it is the last thing in the buffers.
Acting == bpc \in {"lin_action", "btl_claim", "btl_action"}
CommandAwaited ==
    ~NoFrame(buf) \/ ~NoFrame(rx) \/ Acting
        => awaiting /\ session \in {"lin", "btl"} /\ tpc = "idle"
FrameLast ==
    /\ \A i \in 1..Len(buf) : buf[i] = "frame" => i = Len(buf) /\ rx = <<>>
    /\ \A i \in 1..Len(rx) : rx[i] = "frame" => i = Len(rx)
    /\ Acting => NoFrame(buf) /\ NoFrame(rx)

\* What a command that is executed may rely on.
ActionClaimed ==
    /\ bpc = "lin_action" => session = "lin" /\ bus = "usb_app" /\ power
    /\ bpc \in {"btl_claim", "btl_action"} => session = "btl"
    /\ bpc = "btl_action" => bus = "usb_btl"
    /\ fileInUse = "live" => bpc = "btl_action"
    /\ FileLive

IInv ==
    /\ RequestSession /\ StartSession /\ CommandClaimed /\ ClaimOwned
    /\ TransferOwned /\ CommandAwaited /\ FrameLast /\ ActionClaimed

State == TypeInv /\ HandlerInv /\ IInv

LEMMA InitIInv == VendorInit => IInv
BY DEF VendorInit, Init, IInv, RequestSession, StartSession, Starting, CommandClaimed,
       ClaimOwned, Leaving, TransferOwned, Stale, Ending, Transfer, Handler, CommandAwaited, Acting,
       FrameLast, NoFrame, ActionClaimed, FileLive
-----------------------------------------------------------------------------
(* The host only sends what a host may send: its steps are steps of UsbBulk *)

LEMMA VendorIsBulk == [VendorNext]_allVars => [Next]_vars
BY DEF VendorNext, allVars, HostAnswered, HostRequest, HostPower, HostCommand, HostData,
       HostTimeout, HostRestarted, HostStalled, Unplug, Plug, Next, Item

\* A host that keeps the protocol is one of the hosts of UsbBulk: all that is proved
\* there for any host holds here (usb_vendor_bulk.c:101-282).
THEOREM VendorImplementsBulk == VendorSpec => Init /\ [][Next]_vars
<1>1. VendorInit => Init
  BY DEF VendorInit
<1> QED
  BY <1>1, VendorIsBulk, PTL DEF VendorSpec

LEMMA BulkInvariant == VendorSpec => [](TypeInv /\ HandlerInv)
<1>1. VendorInit => TypeInv /\ HandlerInv
  BY TypeInit, HandlerInit DEF VendorInit
<1>2. TypeInv /\ HandlerInv /\ [VendorNext]_allVars => (TypeInv /\ HandlerInv)'
  BY VendorIsBulk, TypeStep, HandlerStep
<1> QED
  BY <1>1, <1>2, PTL DEF VendorSpec
-----------------------------------------------------------------------------
(* The answers *)

\* Dropping the frame empties the buffer: it was the last thing sent.
LEMMA Dropped ==
    ASSUME State, DropFrame(buf)
    PROVE  buf' = <<>> /\ rx = <<>> /\ ~NoFrame(buf)
<1>1. PICK i \in 1..Len(buf) : buf[i] = "frame" /\ buf' = SubSeq(buf, i + 1, Len(buf))
  BY DEF DropFrame, IsFirstFrame
<1>2. i = Len(buf) /\ rx = <<>>
  BY <1>1 DEF State, IInv, FrameLast
<1>3. buf \in Seq(Item) /\ Len(buf) \in Nat
  BY DEF State, TypeInv, TypeOK
<1>4. Len(buf') = 0 /\ buf' \in Seq(Item)
  BY <1>1, <1>2, <1>3, Rest
<1> QED
  BY <1>1, <1>2, <1>4, EmptySeq DEF NoFrame

LEMMA NoFrameEmpty == NoFrame(<<>>)
BY DEF NoFrame

\* A transfer is answered while its own session is open, before the next start.
LEMMA TransferAnswer ==
    ASSUME State, HexDone \/ OtaWriteFails \/ OtaDone
    PROVE  /\ session \in Transfer /\ ~Starting /\ ~Acting
           /\ NoFrame(buf) /\ NoFrame(rx)
           /\ bpc' = "return" /\ negative' = TRUE
<1>1. /\ bpc \in {"receive", "hex", "ota"} /\ bpc' = "return" /\ negative' = TRUE
      /\ bpc = "receive" => running = "ota"
  BY DEF HexDone, OtaWriteFails, OtaDone
<1>2. running \in Transfer /\ handle = running
  BY <1>1 DEF State, IInv, TransferOwned, Handler, Transfer
<1>3. session \in Transfer /\ ~Starting
  BY <1>1, <1>2 DEF State, IInv, TransferOwned, Stale, Ending
<1> QED
  BY <1>1, <1>3 DEF State, IInv, CommandAwaited, Acting, Transfer

LEMMA CommandAnswer ==
    ASSUME State, CmdRefused \/ LinDone \/ BtlRefused \/ BtlDone
    PROVE  /\ awaiting /\ session \in {"lin", "btl"} /\ tpc = "idle"
           /\ NoFrame(buf') /\ NoFrame(rx')
           /\ bpc' = "return" /\ UNCHANGED <<handle, command, suspended, negative, running>>
           /\ UNCHANGED <<rx, bus, power, usb>>
<1> USE DEF handles, ring, busVars
<1>1. CASE CmdRefused
  <2>1. buf' = <<>> /\ rx = <<>> /\ ~NoFrame(buf)
    BY <1>1, Dropped DEF CmdRefused
  <2> QED
    BY <1>1, <2>1, NoFrameEmpty DEF CmdRefused, State, IInv, CommandAwaited
<1>2. CASE LinDone \/ BtlRefused \/ BtlDone
  <2>1. Acting /\ UNCHANGED <<buf, rx>>
    BY <1>2 DEF LinDone, BtlRefused, BtlDone, Acting
  <2> QED
    BY <1>2, <2>1 DEF LinDone, BtlRefused, BtlDone, State, IInv, CommandAwaited, FrameLast
<1> QED
  BY <1>1, <1>2
-----------------------------------------------------------------------------
(* The requests and the claims *)

Owners == RequestSession /\ StartSession /\ CommandClaimed /\ ClaimOwned

\* The bulk task answers without touching a claim, and closes no mode.
LEMMA AnswerKeepsOwners ==
    ASSUME State, BulkAnswer, HostAnswered
    PROVE  Owners'
<1> USE DEF Owners, RequestSession, StartSession, Starting, CommandClaimed, ClaimOwned, Leaving,
            HostAnswered, handles, busVars, usb
<1>1. UNCHANGED <<command, bus, power, tpc, treq>>
  BY DEF BulkAnswer, HexDone, OtaWriteFails, OtaDone, CmdRefused, LinDone, BtlRefused, BtlDone
<1>2. CASE HexDone \/ OtaWriteFails \/ OtaDone
  BY <1>1, <1>2, TransferAnswer DEF State, IInv, Transfer
<1>3. CASE CmdRefused \/ LinDone \/ BtlRefused \/ BtlDone
  BY <1>1, <1>3, CommandAnswer DEF State, IInv, Transfer
<1> QED
  BY <1>2, <1>3 DEF BulkAnswer

LEMMA SilentKeepsOwners ==
    ASSUME State, BulkSilent, UNCHANGED host
    PROVE  Owners'
<1> USE DEF Owners, RequestSession, StartSession, Starting, CommandClaimed, ClaimOwned, Leaving,
            host, State, IInv, busVars, usb, handles
<1>1. CASE BtlClaim
  BY <1>1 DEF BtlClaim, ActionClaimed
<1>2. CASE ~BtlClaim
  <2>1. UNCHANGED <<command, bus, power, tpc, treq>>
    BY <1>2 DEF BulkSilent, BulkCheck, BulkSuspend, BulkWake, BulkReturn, BulkClear,
                ReceiveNothing, Receive, HexParse, HexWait, OtaWrite, OtaWait, CmdSkip,
                CmdUnderflow, CmdDispatch
  <2> QED
    BY <2>1
<1> QED
  BY <1>1, <1>2

LEMMA UsbKeepsOwners ==
    ASSUME State, UsbStepNext, UNCHANGED host
    PROVE  Owners'
<1> USE DEF Owners, RequestSession, StartSession, Starting, CommandClaimed, ClaimOwned, Leaving,
            host, State, IInv, busVars, handles, UsbGoto, HandlerInv, RequestInv
<1>1. CASE LinClaim
  BY <1>1 DEF LinClaim
<1>2. CASE LinRefused
  BY <1>2 DEF LinRefused
<1>3. CASE StartCommand
  BY <1>3 DEF StartCommand
<1>4. CASE StartRaw
  BY <1>4 DEF StartRaw
<1>5. CASE Flush \/ Install \/ Resume
  BY <1>5 DEF Flush, Install, Resume
<1>6. CASE StopHandle
  BY <1>6 DEF StopHandle
<1>7. CASE StopCommand
  BY <1>7 DEF StopCommand
<1>8. CASE Release
  BY <1>8 DEF Release, TypeInv, TypeOK
<1>9. CASE HexClear \/ HexMode
  BY <1>9 DEF HexClear, HexMode
<1>10. CASE OtaBegin \/ OtaMode \/ Ack
  BY <1>10 DEF OtaBegin, OtaMode, Ack
<1> QED
  BY <1>1, <1>2, <1>3, <1>4, <1>5, <1>6, <1>7, <1>8, <1>9, <1>10 DEF UsbStepNext

LEMMA OwnersStep ==
    ASSUME Patient, State, [VendorNext]_allVars
    PROVE  Owners'
<1> USE DEF Owners, RequestSession, StartSession, Starting, CommandClaimed, ClaimOwned, Leaving,
            host, State, IInv, busVars, handles, usb
<1>1. CASE BulkAnswer /\ HostAnswered
  BY <1>1, AnswerKeepsOwners
<1>2. CASE BulkSilent /\ UNCHANGED host
  BY <1>2, SilentKeepsOwners
<1>3. CASE UsbStepNext /\ UNCHANGED host
  BY <1>3, UsbKeepsOwners
<1>4. CASE (WebClaim \/ WebRelease) /\ UNCHANGED host
  BY <1>4 DEF WebClaim, WebRelease
<1>5. ASSUME NEW r \in Starts \cup Stops, HostRequest(r) PROVE Owners'
  <2>1. /\ tpc = "idle" /\ treq' = r /\ tpc' = First[r] /\ UNCHANGED <<command, bus, power>>
        /\ session = IF r \in Starts THEN "none" ELSE SessionOf[r]
        /\ session' = IF r \in {"lin_off", "btl_off"} THEN "none" ELSE SessionOf[r]
    BY <1>5 DEF HostRequest, HostMay, Request
  <2>2. CASE r = "lin_on" \/ r = "btl_on"
    BY <2>1, <2>2 DEF First, SessionOf, Starts, Stops
  <2>3. CASE r = "hex_on" \/ r = "ota_on"
    BY <2>1, <2>3 DEF First, SessionOf, Starts, Stops
  <2>4. CASE r = "lin_off" \/ r = "btl_off"
    BY <2>1, <2>4 DEF First, SessionOf, Starts, Stops
  <2>5. CASE r = "hex_off" \/ r = "ota_off"
    BY <2>1, <2>5 DEF First, SessionOf, Starts, Stops
  <2> QED
    BY <2>2, <2>3, <2>4, <2>5 DEF Starts, Stops
<1>6. ASSUME NEW on \in BOOLEAN, HostPower(on) PROVE Owners'
  BY <1>6 DEF HostPower, SlavePower
<1>7. CASE HostCommand \/ \E i \in Item : HostData(i)
  BY <1>7 DEF HostCommand, HostData, RxCallback
<1>8. CASE HostTimeout
  BY <1>8 DEF HostTimeout, HostAnswered, Patient, Transfer, vars
<1>9. CASE HostRestarted
  BY <1>9 DEF HostRestarted, DeviceFault
<1>10. CASE HostStalled
  <2>1. treq = "ota_on" /\ session = "ota"
    BY <1>10 DEF HostStalled, OtaStall, HandlerInv, RequestInv, SessionOf
  <2> QED
    BY <1>10, <2>1 DEF HostStalled, OtaStall
<1>11. CASE Unplug \/ Plug \/ UNCHANGED allVars
  BY <1>11 DEF Unplug, Plug, Patient, vars, allVars
<1> QED
  BY <1>1, <1>2, <1>3, <1>4, <1>5, <1>6, <1>7, <1>8, <1>9, <1>10, <1>11 DEF VendorNext
-----------------------------------------------------------------------------
(* The handlers of transfers *)

LEMMA AnswerKeepsTransfers ==
    ASSUME State, BulkAnswer, HostAnswered
    PROVE  TransferOwned'
<1> USE DEF TransferOwned, Stale, Ending, Starting, HostAnswered, handles, busVars, usb
<1>1. CASE HexDone \/ OtaWriteFails \/ OtaDone
  <2>1. bpc' = "return" /\ negative' = TRUE
    BY <1>1, TransferAnswer
  <2> QED
    BY <2>1 DEF Handler
<1>2. CASE CmdRefused \/ LinDone \/ BtlRefused \/ BtlDone
  <2>1. /\ session \in {"lin", "btl"} /\ bpc' = "return"
        /\ handle' = handle
    BY <1>2, CommandAnswer
  <2>2. bpc \in {"cmd", "lin_action", "btl_claim", "btl_action"}
    BY <1>2 DEF CmdRefused, LinDone, BtlRefused, BtlDone
  <2>3. handle \notin Transfer
    BY <2>1, <2>2 DEF State, IInv, Transfer
  <2> QED
    BY <2>1, <2>3 DEF Handler
<1> QED
  BY <1>1, <1>2 DEF BulkAnswer

LEMMA SilentKeepsTransfers ==
    ASSUME State, BulkSilent, UNCHANGED host
    PROVE  TransferOwned'
<1> USE DEF TransferOwned, Stale, Ending, Starting, host, State, IInv, Transfer, Handler, handles, usb
<1>1. CASE BulkCheck
  BY <1>1 DEF BulkCheck
<1>2. CASE BulkSuspend
  BY <1>2 DEF BulkSuspend
<1>3. CASE BulkWake
  BY <1>3 DEF BulkWake
<1>4. CASE BulkReturn
  BY <1>4 DEF BulkReturn
<1>5. CASE BulkClear
  BY <1>5 DEF BulkClear
<1>6. CASE ReceiveNothing \/ Receive
  <2>1. /\ bpc = "receive" /\ bpc' = running /\ running' = running
        /\ UNCHANGED <<handle, suspended, tpc, treq>>
    BY <1>6 DEF ReceiveNothing, Receive
  <2> QED
    BY <2>1 DEF TypeInv, Loaded
<1>7. CASE HexParse \/ HexWait \/ OtaWrite \/ OtaWait \/ CmdSkip \/ CmdUnderflow
  <2>1. /\ bpc \in {"receive", "hex", "ota", "cmd"} /\ bpc' = "return"
        /\ UNCHANGED <<handle, suspended, running, tpc, treq>>
    BY <1>7 DEF HexParse, HexWait, OtaWrite, OtaWait, CmdSkip, CmdUnderflow
  <2> QED
    BY <2>1
<1>8. CASE CmdDispatch \/ BtlClaim
  <2>1. /\ bpc \in {"cmd", "btl_claim"} /\ bpc' \in {"lin_action", "btl_claim", "btl_action"}
        /\ UNCHANGED <<handle, suspended, running, tpc, treq>>
    BY <1>8 DEF CmdDispatch, BtlClaim
  <2> QED
    BY <2>1
<1> QED
  BY <1>1, <1>2, <1>3, <1>4, <1>5, <1>6, <1>7, <1>8 DEF BulkSilent

LEMMA UsbKeepsTransfers ==
    ASSUME State, UsbStepNext, UNCHANGED host
    PROVE  TransferOwned'
<1> USE DEF TransferOwned, Stale, Ending, Starting, host, State, IInv, Transfer, Handler, handles, task,
            UsbGoto, HandlerInv, RequestInv
<1>1. CASE LinClaim \/ LinRefused
  BY <1>1 DEF LinClaim, LinRefused
<1>2. CASE StartCommand
  BY <1>2 DEF StartCommand
<1>3. CASE StartRaw
  BY <1>3 DEF StartRaw
<1>4. CASE Flush
  BY <1>4 DEF Flush
<1>5. CASE Install
  BY <1>5 DEF Install, HandlerOf, StartSession, SessionOf, Starts
<1>6. CASE Resume
  BY <1>6 DEF Resume
<1>7. CASE StopHandle
  BY <1>7 DEF StopHandle, RequestSession
<1>8. CASE StopCommand \/ Release
  BY <1>8 DEF StopCommand, Release
<1>9. CASE HexClear \/ HexMode
  BY <1>9 DEF HexClear, HexMode
<1>10. CASE OtaBegin \/ OtaMode \/ Ack
  BY <1>10 DEF OtaBegin, OtaMode, Ack
<1> QED
  BY <1>1, <1>2, <1>3, <1>4, <1>5, <1>6, <1>7, <1>8, <1>9, <1>10 DEF UsbStepNext

LEMMA TransfersStep ==
    ASSUME Patient, State, [VendorNext]_allVars
    PROVE  TransferOwned'
<1> USE DEF TransferOwned, Stale, Ending, Starting, host, State, IInv, handles, task, usb
<1>1. CASE BulkAnswer /\ HostAnswered
  BY <1>1, AnswerKeepsTransfers
<1>2. CASE BulkSilent /\ UNCHANGED host
  BY <1>2, SilentKeepsTransfers
<1>3. CASE UsbStepNext /\ UNCHANGED host
  BY <1>3, UsbKeepsTransfers
<1>4. CASE (WebClaim \/ WebRelease) /\ UNCHANGED host
  BY <1>4 DEF WebClaim, WebRelease
<1>5. ASSUME NEW r \in Starts \cup Stops, HostRequest(r) PROVE TransferOwned'
  <2>1. /\ tpc = "idle" /\ treq' = r /\ tpc' = First[r] /\ UNCHANGED <<handles, task>>
        /\ session = IF r \in Starts THEN "none" ELSE SessionOf[r]
        /\ session' = IF r \in {"lin_off", "btl_off"} THEN "none" ELSE SessionOf[r]
    BY <1>5 DEF HostRequest, HostMay, Request
  <2>2. CASE r \in {"lin_on", "btl_on", "hex_on", "ota_on"}
    BY <2>1, <2>2 DEF First, Starts, Transfer
  <2>3. CASE r = "lin_off" \/ r = "btl_off"
    BY <2>1, <2>3 DEF First, SessionOf, Starts, Transfer
  <2>4. CASE r = "hex_off" \/ r = "ota_off"
    BY <2>1, <2>4 DEF First, SessionOf, Starts, Transfer
  <2> QED
    BY <2>2, <2>3, <2>4 DEF Starts, Stops
<1>6. ASSUME NEW on \in BOOLEAN, HostPower(on) PROVE TransferOwned'
  BY <1>6 DEF HostPower, SlavePower
<1>7. CASE HostCommand \/ \E i \in Item : HostData(i)
  BY <1>7 DEF HostCommand, HostData, RxCallback
<1>8. CASE HostTimeout
  BY <1>8 DEF HostTimeout, HostAnswered, vars, Handler
<1>9. CASE HostRestarted
  BY <1>9 DEF HostRestarted, DeviceFault, Transfer, Handler
<1>10. CASE HostStalled
  BY <1>10 DEF HostStalled, OtaStall, HandlerInv, RequestInv
<1>11. CASE Unplug \/ Plug \/ UNCHANGED allVars
  BY <1>11 DEF Unplug, Plug, Patient, vars, allVars
<1> QED
  BY <1>1, <1>2, <1>3, <1>4, <1>5, <1>6, <1>7, <1>8, <1>9, <1>10, <1>11 DEF VendorNext
-----------------------------------------------------------------------------
(* The command on its way *)

Frames == CommandAwaited /\ FrameLast

LEMMA AnswerKeepsFrames ==
    ASSUME State, BulkAnswer, HostAnswered
    PROVE  Frames'
<1> USE DEF Frames, CommandAwaited, FrameLast, Acting, NoFrame, HostAnswered, ring, usb
<1>1. CASE HexDone \/ OtaWriteFails \/ OtaDone
  <2>1. NoFrame(buf) /\ NoFrame(rx) /\ bpc' = "return"
    BY <1>1, TransferAnswer
  <2>2. NoFrame(buf')
    BY <1>1, <2>1 DEF HexDone, OtaWriteFails, OtaDone
  <2>3. NoFrame(rx')
    <3>1. CASE HexDone \/ OtaDone
      BY <2>1, <3>1 DEF HexDone, OtaDone
    <3>2. CASE OtaWriteFails
      <4>1. PICK n \in 1..Contiguous : Take(n)
        BY <3>2 DEF OtaWriteFails
      <4>2. n \in 0..Len(rx) /\ rx \in Seq(Item) /\ Len(rx) \in Nat
        BY <4>1, ContiguousRange DEF State, TypeInv, TypeOK
      <4> QED
        BY <2>1, <4>1, <4>2, Rest DEF Take
    <3> QED
      BY <1>1, <3>1, <3>2
  <2> QED
    BY <2>1, <2>2, <2>3
<1>2. CASE CmdRefused \/ LinDone \/ BtlRefused \/ BtlDone
  BY <1>2, CommandAnswer
<1> QED
  BY <1>1, <1>2 DEF BulkAnswer

\* A frame that is received whole stays the last thing in the buffers.
LEMMA ReceiveKeepsFrames ==
    ASSUME State, Receive, UNCHANGED host
    PROVE  Frames'
<1>1. PICK n \in 1..Contiguous : buf' = buf \o Received(n) /\ Take(n)
  BY DEF Receive, Received
<1>2. /\ buf \in Seq(Item) /\ Len(buf) \in Nat /\ rx \in Seq(Item) /\ Len(rx) \in Nat
      /\ n \in 1..Len(rx) /\ n \in 0..Len(rx)
  BY <1>1, ContiguousRange DEF State, TypeInv, TypeOK
<1>3. /\ Received(n) \in Seq(Item) /\ Len(Received(n)) = n
      /\ \A i \in 1..n : Received(n)[i] \in {rx[i], "junk"}
  BY <1>2, ReceivedTypes DEF State, TypeInv
<1>4. /\ Len(buf') = Len(buf) + n
      /\ \A i \in 1..(Len(buf) + n) :
            buf'[i] = IF i <= Len(buf) THEN buf[i] ELSE Received(n)[i - Len(buf)]
  BY <1>1, <1>2, <1>3, ConcatProperties
<1>5. /\ Len(rx') = Len(rx) - n
      /\ \A i \in 1..(Len(rx) - n) : rx'[i] = rx[n + i]
      /\ n = Len(rx) => rx' = <<>>
  BY <1>1, <1>2, Rest, SubSeqEmpty DEF Take
<1>6. NoFrame(buf)
  BY <1>2 DEF State, IInv, FrameLast, NoFrame
<1>7. \A i \in 1..Len(rx) : rx[i] = "frame" => i = Len(rx)
  BY DEF State, IInv, FrameLast
<1>8. ASSUME NEW i \in 1..Len(buf'), buf'[i] = "frame"
      PROVE  i = Len(buf') /\ rx' = <<>> /\ ~NoFrame(rx)
  <2>1. i > Len(buf)
    BY <1>2, <1>4, <1>6, <1>8 DEF NoFrame
  <2> DEFINE j == i - Len(buf)
  <2>2. j \in 1..n /\ i = Len(buf) + j
    BY <1>2, <1>4, <2>1
  <2>3. rx[j] = "frame"
    BY <1>2, <1>3, <1>4, <1>8, <2>1, <2>2
  <2>4. j \in 1..Len(rx)
    BY <1>2, <2>2
  <2> HIDE DEF j
  <2>5. j = Len(rx)
    BY <1>7, <2>3, <2>4
  <2>6. n = Len(rx) /\ i = Len(buf')
    BY <1>2, <1>4, <2>2, <2>5
  <2> QED
    BY <1>5, <2>3, <2>4, <2>6 DEF NoFrame
<1>9. ASSUME NEW i \in 1..Len(rx'), rx'[i] = "frame"
      PROVE  i = Len(rx') /\ ~NoFrame(rx)
  <2>1. rx[n + i] = "frame" /\ n + i \in 1..Len(rx)
    BY <1>2, <1>5, <1>9
  <2> QED
    BY <1>2, <1>5, <1>7, <2>1 DEF NoFrame
<1>10. bpc' \in {"hex", "cmd"} /\ UNCHANGED <<tpc, session, awaiting>>
  BY DEF Receive, host, usb
<1>11. ~NoFrame(rx) => awaiting /\ session \in {"lin", "btl"} /\ tpc = "idle"
  BY DEF State, IInv, CommandAwaited
<1>12. FrameLast'
  BY <1>8, <1>9, <1>10 DEF FrameLast, Acting
<1>13. CommandAwaited'
  BY <1>8, <1>9, <1>10, <1>11 DEF CommandAwaited, Acting, NoFrame
<1> QED
  BY <1>12, <1>13 DEF Frames

LEMMA SilentKeepsFrames ==
    ASSUME State, BulkSilent, UNCHANGED host
    PROVE  Frames'
<1> USE DEF Frames, CommandAwaited, FrameLast, Acting, NoFrame, host, ring, usb
<1>1. CASE BulkCheck \/ BulkSuspend \/ BulkReturn \/ BulkClear \/ HexWait \/ OtaWait
           \/ CmdUnderflow
  <2>1. UNCHANGED <<buf, rx, tpc, session, awaiting>> /\ ~Acting'
    BY <1>1 DEF BulkCheck, BulkSuspend, BulkReturn, BulkClear, HexWait, OtaWait, CmdUnderflow
  <2> QED
    BY <2>1 DEF State, IInv
<1>2. CASE ReceiveNothing
  <2>1. UNCHANGED <<buf, rx, tpc, session, awaiting>> /\ ~Acting'
    BY <1>2 DEF ReceiveNothing, State, TypeInv, TypeOK, Handler
  <2> QED
    BY <2>1 DEF State, IInv
<1>3. CASE Receive
  BY <1>3, ReceiveKeepsFrames
<1>4. CASE BulkWake \/ CmdSkip
  <2>1. buf' = <<>> /\ UNCHANGED <<rx, tpc, session, awaiting>> /\ ~Acting'
    BY <1>4 DEF BulkWake, CmdSkip
  <2> QED
    BY <2>1 DEF State, IInv
<1>5. CASE HexParse \/ OtaWrite
  <2>1. /\ bpc \in {"receive", "hex"} /\ bpc' = "return"
        /\ bpc = "receive" => running = "ota"
    BY <1>5 DEF HexParse, OtaWrite
  <2>2. running \in Transfer /\ handle = running
    BY <2>1 DEF State, IInv, TransferOwned, Handler, Transfer
  <2>6. session \in Transfer
    BY <2>1, <2>2 DEF State, IInv, TransferOwned, Stale, Ending
  <2>3. NoFrame(buf) /\ NoFrame(rx)
    BY <2>6 DEF State, IInv, Transfer
  <2>4. NoFrame(buf')
    <3>1. CASE HexParse
      <4>1. PICK n \in 0..Len(buf) : buf' = SubSeq(buf, Consumed(buf, n) + 1, Len(buf))
        BY <3>1 DEF HexParse
      <4>2. Consumed(buf, n) \in 0..Len(buf) /\ buf \in Seq(Item) /\ Len(buf) \in Nat
        BY <4>1 DEF Consumed, State, TypeInv, TypeOK
      <4> QED
        BY <2>3, <4>1, <4>2, Rest
    <3>2. CASE OtaWrite
      BY <2>3, <3>2 DEF OtaWrite
    <3> QED
      BY <1>5, <3>1, <3>2
  <2>5. NoFrame(rx')
    <3>1. CASE HexParse
      BY <2>3, <3>1 DEF HexParse
    <3>2. CASE OtaWrite
      <4>1. PICK n \in 1..Contiguous : Take(n)
        BY <3>2 DEF OtaWrite
      <4>2. n \in 0..Len(rx) /\ rx \in Seq(Item) /\ Len(rx) \in Nat
        BY <4>1, ContiguousRange DEF State, TypeInv, TypeOK
      <4> QED
        BY <2>3, <4>1, <4>2, Rest DEF Take
    <3> QED
      BY <1>5, <3>1, <3>2
  <2> QED
    BY <2>1, <2>4, <2>5
<1>6. CASE CmdDispatch
  <2>1. buf' = <<>> /\ rx = <<>> /\ ~NoFrame(buf)
    BY <1>6, Dropped DEF CmdDispatch
  <2>2. rx' = <<>> /\ UNCHANGED <<tpc, session, awaiting>>
    BY <1>6, <2>1 DEF CmdDispatch
  <2>3. awaiting /\ session \in {"lin", "btl"} /\ tpc = "idle"
    BY <2>1 DEF State, IInv
  <2> QED
    BY <2>1, <2>2, <2>3
<1>7. CASE BtlClaim
  <2>1. UNCHANGED <<buf, rx, tpc, session, awaiting>> /\ Acting
    BY <1>7 DEF BtlClaim
  <2> QED
    BY <2>1 DEF State, IInv
<1> QED
  BY <1>1, <1>2, <1>3, <1>4, <1>5, <1>6, <1>7 DEF BulkSilent

\* No frame is on its way while a control request is in progress.
LEMMA UsbKeepsFrames ==
    ASSUME State, UsbStepNext, UNCHANGED host
    PROVE  Frames'
<1> USE DEF Frames, CommandAwaited, FrameLast, Acting, NoFrame, host, task, ring
<1>1. tpc # "idle" /\ UNCHANGED <<bpc, buf>>
  BY DEF UsbStepNext, LinClaim, LinRefused, StartCommand, StartRaw, Flush, Install, Resume,
         StopHandle, StopCommand, Release, HexClear, HexMode, OtaBegin, OtaMode, Ack
<1>2. NoFrame(buf) /\ NoFrame(rx) /\ ~Acting
  BY <1>1 DEF State, IInv
<1>3. NoFrame(rx')
  <2>1. CASE Flush
    <3>1. Take(Contiguous) /\ Contiguous \in 0..Len(rx) /\ rx \in Seq(Item) /\ Len(rx) \in Nat
      BY <2>1, ContiguousRange DEF Flush, State, TypeInv, TypeOK
    <3> QED
      BY <1>2, <3>1, Rest DEF Take
  <2>2. CASE ~Flush
    BY <1>2, <2>2 DEF UsbStepNext, LinClaim, LinRefused, StartCommand, StartRaw, Install, Resume,
                      StopHandle, StopCommand, Release, HexClear, HexMode, OtaBegin, OtaMode, Ack
  <2> QED
    BY <2>1, <2>2
<1> QED
  BY <1>1, <1>2, <1>3

\* An item reaches the ring behind whatever is in it.
LEMMA Queued ==
    ASSUME State, NEW i \in Item, RxCallback(i), NoFrame(rx)
    PROVE  \A k \in 1..Len(rx') : rx'[k] = "frame" => k = Len(rx') /\ i = "frame"
<1>1. rx \in Seq(Item) /\ Len(rx) \in Nat
  BY DEF State, TypeInv, TypeOK
<1>2. CASE rx' = rx
  BY <1>2 DEF NoFrame
<1>3. CASE rx' = Append(rx, i)
  <2>1. /\ Len(rx') = Len(rx) + 1
        /\ \A k \in 1..(Len(rx) + 1) : rx'[k] = IF k <= Len(rx) THEN rx[k] ELSE i
    BY <1>1, <1>3
  <2> QED
    BY <1>1, <2>1 DEF NoFrame
<1> QED
  BY <1>2, <1>3 DEF RxCallback

LEMMA FramesStep ==
    ASSUME Patient, State, [VendorNext]_allVars
    PROVE  Frames'
<1> USE DEF Frames, CommandAwaited, FrameLast, Acting, NoFrame, host, task, ring, usb
<1>1. CASE BulkAnswer /\ HostAnswered
  BY <1>1, AnswerKeepsFrames
<1>2. CASE BulkSilent /\ UNCHANGED host
  BY <1>2, SilentKeepsFrames
<1>3. CASE UsbStepNext /\ UNCHANGED host
  BY <1>3, UsbKeepsFrames
<1>4. CASE (WebClaim \/ WebRelease) /\ UNCHANGED host
  BY <1>4 DEF WebClaim, WebRelease, State, IInv
<1>5. ASSUME NEW r \in Starts \cup Stops, HostRequest(r) PROVE Frames'
  <2>1. ~awaiting /\ UNCHANGED <<buf, rx, bpc>>
    BY <1>5 DEF HostRequest, HostMay, Request
  <2> QED
    BY <2>1 DEF State, IInv
<1>6. ASSUME NEW on \in BOOLEAN, HostPower(on) PROVE Frames'
  BY <1>6 DEF HostPower, SlavePower, State, IInv
<1>7. CASE HostCommand
  <2>1. /\ ~awaiting /\ session \in {"lin", "btl"} /\ tpc = "idle"
        /\ RxCallback("frame") /\ awaiting' = TRUE
        /\ UNCHANGED <<session, bpc, buf, tpc>>
    BY <1>7 DEF HostCommand, RxCallback
  <2>2. NoFrame(buf) /\ NoFrame(rx) /\ ~Acting
    BY <2>1 DEF State, IInv
  <2>3. \A k \in 1..Len(rx') : rx'[k] = "frame" => k = Len(rx')
    BY <2>1, <2>2, Queued DEF Item
  <2> QED
    BY <2>1, <2>2, <2>3
<1>8. ASSUME NEW i \in Item, HostData(i) PROVE Frames'
  <2>1. /\ ~awaiting /\ RxCallback(i) /\ i # "frame" /\ UNCHANGED <<bpc, buf, tpc, awaiting>>
    BY <1>8 DEF HostData, RxCallback, Patient
  <2>2. NoFrame(buf) /\ NoFrame(rx) /\ ~Acting
    BY <2>1 DEF State, IInv
  <2>3. NoFrame(rx')
    BY <2>1, <2>2, Queued
  <2> QED
    BY <2>1, <2>2, <2>3
<1>9. CASE HostTimeout
  <2>1. session \notin {"lin", "btl"} /\ UNCHANGED <<bpc, buf, rx>>
    BY <1>9 DEF HostTimeout, Patient, vars
  <2> QED
    BY <2>1 DEF State, IInv
<1>10. CASE HostRestarted
  BY <1>10 DEF HostRestarted, DeviceFault
<1>11. CASE HostStalled
  BY <1>11 DEF HostStalled, OtaStall, State, IInv
<1>12. CASE Unplug \/ Plug \/ UNCHANGED allVars
  BY <1>12 DEF Unplug, Plug, Patient, vars, allVars, State, IInv
<1> QED
  BY <1>1, <1>2, <1>3, <1>4, <1>5, <1>6, <1>7, <1>8, <1>9, <1>10, <1>11, <1>12 DEF VendorNext
-----------------------------------------------------------------------------
(* What an executed command relies on *)

\* A control request cannot disturb a command: its host still waits.
LEMMA RequestsWait ==
    ASSUME State, tpc # "idle"
    PROVE  ~Acting /\ fileInUse = "none"
<1>1. ~Acting
  BY DEF State, IInv, CommandAwaited
<1>2. fileInUse \in {"none", "live", "freed"}
  BY DEF State, TypeInv, TypeOK
<1> QED
  BY <1>1, <1>2 DEF State, IInv, ActionClaimed, FileLive, Acting

LEMMA BulkKeepsActions ==
    ASSUME State, (BulkAnswer /\ HostAnswered) \/ (BulkSilent /\ UNCHANGED host)
    PROVE  ActionClaimed'
<1> USE DEF ActionClaimed, FileLive, Acting, State, IInv
<1>1. CASE HexDone \/ OtaWriteFails \/ OtaDone
  BY <1>1 DEF HexDone, OtaWriteFails, OtaDone, hexVars
<1>2. CASE CmdRefused \/ LinDone \/ BtlRefused
  BY <1>2 DEF CmdRefused, LinDone, BtlRefused, hexVars
<1>3. CASE BtlDone
  BY <1>3 DEF BtlDone
<1>4. CASE BulkSilent /\ UNCHANGED host
  <2>1. CASE CmdDispatch
    <3>1. /\ command # "none" /\ DropFrame(buf)
          /\ bpc' = IF command = "lin" THEN "lin_action" ELSE "btl_claim"
          /\ UNCHANGED <<hexFile, fileInUse, bus, power>> /\ bpc = "cmd"
      BY <2>1 DEF CmdDispatch, hexVars, busVars
    <3>2. tpc = "idle"
      BY <3>1, Dropped DEF CommandAwaited
    <3>3. command = "lin" => session = "lin" /\ bus = "usb_app" /\ power
      BY <3>2 DEF CommandClaimed
    <3>4. command # "lin" => session = "btl"
      BY <3>1, <3>2 DEF CommandClaimed, TypeInv, TypeOK
    <3> QED
      BY <1>4, <3>1, <3>3, <3>4 DEF host
  <2>2. CASE BtlClaim
    BY <1>4, <2>2 DEF BtlClaim, host
  <2>3. CASE ~CmdDispatch /\ ~BtlClaim
    <3>1. /\ UNCHANGED <<fileInUse, bus, power, session>> /\ ~Acting' /\ ~Acting
      BY <1>4, <2>3 DEF BulkSilent, BulkCheck, BulkSuspend, BulkWake, BulkReturn, BulkClear,
                  ReceiveNothing, Receive, HexParse, HexWait, OtaWrite, OtaWait, CmdSkip,
                  CmdUnderflow, hexVars, busVars, host, Handler, TypeInv, TypeOK, Loaded
    <3> QED
      BY <3>1
  <2> QED
    BY <2>1, <2>2, <2>3
<1> QED
  BY <1>1, <1>2, <1>3, <1>4 DEF BulkAnswer

LEMMA UsbKeepsActions ==
    ASSUME State, UsbStepNext, UNCHANGED host
    PROVE  ActionClaimed'
<1> USE DEF ActionClaimed, FileLive, Acting
<1>1. tpc # "idle" /\ bpc' = bpc
  BY DEF UsbStepNext, LinClaim, LinRefused, StartCommand, StartRaw, Flush, Install, Resume,
         StopHandle, StopCommand, Release, HexClear, HexMode, OtaBegin, OtaMode, Ack, task
<1>2. ~Acting /\ fileInUse = "none"
  BY <1>1, RequestsWait
<1>3. fileInUse' = fileInUse
  BY <1>2 DEF UsbStepNext, LinClaim, LinRefused, StartCommand, StartRaw, Flush, Install, Resume,
         StopHandle, StopCommand, Release, HexClear, HexMode, OtaBegin, OtaMode, Ack, hexVars
<1> QED
  BY <1>1, <1>2, <1>3

LEMMA ActionsStep ==
    ASSUME Patient, State, [VendorNext]_allVars
    PROVE  ActionClaimed'
<1> USE DEF ActionClaimed, FileLive, host, task, hexVars, State, IInv
<1>1. CASE BulkAnswer /\ HostAnswered
  BY <1>1, BulkKeepsActions
<1>2. CASE BulkSilent /\ UNCHANGED host
  BY <1>2, BulkKeepsActions
<1>3. CASE UsbStepNext /\ UNCHANGED host
  BY <1>3, UsbKeepsActions
<1>4. CASE (WebClaim \/ WebRelease) /\ UNCHANGED host
  BY <1>4 DEF WebClaim, WebRelease
<1>5. ASSUME NEW r \in Starts \cup Stops, HostRequest(r) PROVE ActionClaimed'
  <2>1. ~awaiting /\ UNCHANGED <<bpc, fileInUse>>
    BY <1>5 DEF HostRequest, HostMay, Request
  <2>2. ~Acting
    BY <2>1 DEF CommandAwaited
  <2> QED
    BY <2>1, <2>2 DEF Acting
<1>6. ASSUME NEW on \in BOOLEAN, HostPower(on) PROVE ActionClaimed'
  BY <1>6 DEF HostPower, SlavePower
<1>7. CASE HostCommand \/ \E i \in Item : HostData(i)
  BY <1>7 DEF HostCommand, HostData, RxCallback, busVars
<1>8. CASE HostTimeout
  <2>1. session \notin {"lin", "btl"} /\ UNCHANGED <<bpc, fileInUse>>
    BY <1>8 DEF HostTimeout, Patient, vars
  <2> QED
    BY <2>1 DEF CommandAwaited, Acting
<1>9. CASE HostRestarted
  BY <1>9 DEF HostRestarted, DeviceFault
<1>10. CASE HostStalled
  <2>1. tpc = "ota_begin" /\ UNCHANGED <<bpc, fileInUse>>
    BY <1>10 DEF HostStalled, OtaStall
  <2> QED
    BY <2>1, RequestsWait DEF Acting
<1>11. CASE Unplug \/ Plug \/ UNCHANGED allVars
  BY <1>11 DEF Unplug, Plug, Patient, vars, allVars, busVars
<1> QED
  BY <1>1, <1>2, <1>3, <1>4, <1>5, <1>6, <1>7, <1>8, <1>9, <1>10, <1>11 DEF VendorNext
-----------------------------------------------------------------------------
(* The invariant, and what follows from it *)

LEMMA IInvStep ==
    ASSUME Patient, State, [VendorNext]_allVars
    PROVE  IInv'
BY OwnersStep, TransfersStep, FramesStep, ActionsStep DEF IInv, Owners, Frames

LEMMA VendorInvariant == Patient /\ VendorSpec => []State
<1>1. VendorInit => IInv
  BY InitIInv
<1>2. Patient /\ TypeInv /\ HandlerInv /\ IInv /\ [VendorNext]_allVars => IInv'
  BY IInvStep DEF State
<1>3. Patient /\ VendorInit => Patient
  OBVIOUS
<1>4. CASE Patient
  <2>1. TypeInv /\ HandlerInv /\ IInv /\ [VendorNext]_allVars => IInv'
    BY <1>2, <1>4
  <2>2. VendorSpec => []State
    BY <1>1, <2>1, BulkInvariant, PTL DEF VendorSpec, State
  <2> QED
    BY <2>2
<1>5. CASE ~Patient
  BY <1>5
<1> QED
  BY <1>4, <1>5

\* USB uses the drivers under the claim of their mode, LIN on powered slaves: a
\* handler that is set belongs to a claimed session, and the command it runs ends
\* before the host can leave the session (usb_vendor_lin_comm.c:133-142,
\* usb_vendor_btl_ppm.c:66-93).
THEOREM CommandsUnderClaim == Patient /\ VendorSpec => []UsedUnderClaim
<1>1. State => UsedUnderClaim
  BY DEF State, IInv, ActionClaimed, UsedUnderClaim
<1> QED
  BY <1>1, VendorInvariant, PTL

\* A host that closed its mode leaves no USB claim behind, also when the web
\* server took the bus in between (usb_vendor_lin_comm.c:140-141,
\* usb_vendor_btl_ppm.c:157-158).
THEOREM ClaimsReturned == Patient /\ VendorSpec => []NoClaimLeft
<1>1. State => NoClaimLeft
  BY DEF State, IInv, ClaimOwned, Leaving, NoClaimLeft, TypeInv, TypeOK
<1> QED
  BY <1>1, VendorInvariant, PTL

\* The intelhex containers are not freed while a bootloader action works on them:
\* the request that frees them waits for the answer of the action
\* (usb_vendor_hex_transfer.c:134-138, usb_vendor_btl_ppm.c:88-93).
THEOREM FileStaysLive == Patient /\ VendorSpec => []FileLive
<1>1. State => FileLive
  BY DEF State, IInv, ActionClaimed
<1> QED
  BY <1>1, VendorInvariant, PTL
-----------------------------------------------------------------------------
(* What holds for every host, and for one that waits until the task sleeps *)

HostTypes ==
    /\ session \in {"none", "lin", "btl"} \cup Transfer
    /\ awaiting \in BOOLEAN
    /\ sent \in 0..MaxSend
    /\ records \in 0..sent
    /\ mounted \in BOOLEAN

LEMMA HostTypesInit == VendorInit => HostTypes
<1>1. 0 \in 0..MaxSend /\ 0 \in 0..0
  BY HostAssumption
<1> QED
  BY <1>1 DEF VendorInit, HostTypes, Transfer

LEMMA HostTypesStep ==
    ASSUME HostTypes, [VendorNext]_allVars
    PROVE  HostTypes'
<1> USE HostAssumption DEF HostTypes, host, HostAnswered, Transfer
<1>1. CASE BulkAnswer /\ HostAnswered
  BY <1>1
<1>2. CASE UNCHANGED <<host, mounted>> \/ UNCHANGED allVars
  BY <1>2 DEF allVars
<1>3. ASSUME NEW r \in Starts \cup Stops, HostRequest(r) PROVE HostTypes'
  BY <1>3 DEF HostRequest, SessionOf, Starts, Stops
<1>4. CASE (\E on \in BOOLEAN : HostPower(on)) \/ HostCommand
  BY <1>4 DEF HostPower, HostCommand
<1>5. ASSUME NEW i \in Item, HostData(i) PROVE HostTypes'
  BY <1>5 DEF HostData
<1>6. CASE HostTimeout \/ HostStalled
  BY <1>6 DEF HostTimeout, HostStalled
<1>7. CASE HostRestarted
  <2>1. 0 \in 0..MaxSend /\ 0 \in 0..0
    OBVIOUS
  <2> QED
    BY <1>7, <2>1 DEF HostRestarted
<1>8. CASE Unplug \/ Plug
  BY <1>8 DEF Unplug, Plug
<1> QED
  BY <1>1, <1>2, <1>3, <1>4, <1>5, <1>6, <1>7, <1>8 DEF VendorNext

\* The bulk task, the control requests and a host that keeps the protocol only hold
\* values of their types; what does not fit the receive ring is dropped and not
\* counted as taken (usb_vendor_bulk.c:109-180, 269-282).
THEOREM VendorTypes == VendorSpec => []VendorTypeOK
<1>1. TypeInv /\ HostTypes => VendorTypeOK
  BY DEF TypeInv, HostTypes, VendorTypeOK
<1> QED
  BY <1>1, HostTypesInit, HostTypesStep, BulkInvariant, PTL DEF VendorSpec

\* A request of an idle host that starts a handler finds the task asleep until it
\* resumes it; the task wakes up with an empty buffer, and remembers the handler
\* that is installed while it runs it.
FreshInv ==
    /\ treq \in Starts /\ tpc # "ack" => bpc = "suspended" /\ suspended
    /\ handle # "none" =>
          \/ running = handle
          \/ bpc = "suspended"
          \/ bpc = "check" /\ buf = <<>> /\ ~negative
    /\ bpc = "suspend" => running = "none"

LEMMA FreshStep ==
    ASSUME Host = "idle", TypeInv, HandlerInv, FreshInv, [VendorNext]_allVars
    PROVE  FreshInv'
<1> USE DEF FreshInv, handles, task, usb
<1>1. CASE BulkAnswer
  <2>1. /\ bpc \notin {"check", "suspend", "suspended"} /\ bpc' = "return"
        /\ UNCHANGED <<handle, running, suspended, tpc, treq>>
    BY <1>1 DEF BulkAnswer, HexDone, OtaWriteFails, OtaDone, CmdRefused, LinDone, BtlRefused,
                BtlDone
  <2> QED
    BY <2>1
<1>2. CASE BulkSilent
  <2>1. CASE BulkCheck \/ BulkSuspend \/ BulkWake \/ BulkReturn \/ BulkClear
    BY <2>1 DEF BulkCheck, BulkSuspend, BulkWake, BulkReturn, BulkClear
  <2>2. CASE ReceiveNothing \/ Receive
    BY <2>2 DEF ReceiveNothing, Receive, TypeInv, Loaded, Handler
  <2>3. CASE HexParse \/ HexWait \/ OtaWrite \/ OtaWait \/ CmdSkip \/ CmdUnderflow
             \/ CmdDispatch \/ BtlClaim
    BY <2>3 DEF HexParse, HexWait, OtaWrite, OtaWait, CmdSkip, CmdUnderflow, CmdDispatch,
                BtlClaim
  <2> QED
    BY <1>2, <2>1, <2>2, <2>3 DEF BulkSilent
<1>3. CASE UsbStepNext
  BY <1>3 DEF UsbStepNext, LinClaim, LinRefused, StartCommand, StartRaw, Flush, Install,
              Resume, StopHandle, StopCommand, Release, HexClear, HexMode, OtaBegin, OtaMode,
              Ack, UsbGoto, HandlerInv, RequestInv, Starts
<1>4. CASE WebClaim \/ WebRelease
  BY <1>4 DEF WebClaim, WebRelease
<1>5. ASSUME NEW r \in Starts \cup Stops, HostRequest(r) PROVE FreshInv'
  BY <1>5 DEF HostRequest, HostMay, Request, Starts, Stops
<1>6. CASE (\E on \in BOOLEAN : HostPower(on)) \/ HostCommand \/ (\E i \in Item : HostData(i))
  BY <1>6 DEF HostPower, SlavePower, HostCommand, HostData, RxCallback
<1>7. CASE HostTimeout \/ Unplug \/ Plug \/ UNCHANGED allVars
  BY <1>7 DEF HostTimeout, Unplug, Plug, allVars, vars
<1>8. CASE HostRestarted
  BY <1>8 DEF HostRestarted, DeviceFault, Starts
<1>9. CASE HostStalled
  BY <1>9 DEF HostStalled, OtaStall, Starts
<1> QED
  BY <1>1, <1>2, <1>3, <1>4, <1>5, <1>6, <1>7, <1>8, <1>9 DEF VendorNext

\* For a host that starts the next mode or transfer only when the bulk task
\* sleeps, a handler that was not running starts on an empty buffer at a valid
\* write position (usb_vendor_bulk.c:101-109).
THEOREM FreshStarts == Host = "idle" /\ VendorSpec => []StartsFresh
<1>1. VendorInit => FreshInv
  BY DEF VendorInit, Init, FreshInv, Starts
<1>2. TypeInv /\ HandlerInv /\ FreshInv => StartsFresh
  BY DEF FreshInv, StartsFresh
<1>3. CASE Host = "idle"
  <2>1. TypeInv /\ HandlerInv /\ FreshInv /\ [VendorNext]_allVars => FreshInv'
    BY <1>3, FreshStep
  <2>2. VendorSpec => []StartsFresh
    BY <1>1, <1>2, <2>1, BulkInvariant, PTL DEF VendorSpec
  <2> QED
    BY <2>2
<1>4. CASE Host # "idle"
  BY <1>4
<1> QED
  BY <1>3, <1>4
-----------------------------------------------------------------------------
(* Counting data records *)

LineSet(q) == {i \in 1..Len(q) : IsLine(q[i])}

LEMMA LinesAre ==
    ASSUME NEW q \in Seq(Item)
    PROVE  /\ IsFiniteSet(LineSet(q)) /\ LineSet(q) \subseteq 1..Len(q)
           /\ Lines(q) = Cardinality(LineSet(q)) /\ Lines(q) \in Nat
<1>1. Len(q) \in Nat /\ LineSet(q) \subseteq 1..Len(q)
  BY DEF LineSet
<1>2. IsFiniteSet(LineSet(q))
  <2>1. IsFiniteSet(1..Len(q))
    BY <1>1, FS_Interval
  <2> QED
    BY <1>1, <2>1, FS_Subset
<1>3. Lines(q) = Cardinality(LineSet(q))
  BY DEF Lines, LineSet
<1> QED
  BY <1>1, <1>2, <1>3, FS_CardinalityType

LEMMA LinesEmpty == Lines(<<>>) = 0
<1>1. LineSet(<<>>) = {}
  BY DEF LineSet
<1>2. Lines(<<>>) = Cardinality(LineSet(<<>>))
  BY DEF Lines, LineSet
<1> QED
  BY <1>1, <1>2, FS_EmptySet

\* Records that are only among the first n items are at most n.
LEMMA LinesBound ==
    ASSUME NEW q \in Seq(Item), NEW n \in Nat, \A i \in 1..Len(q) : IsLine(q[i]) => i <= n
    PROVE  Lines(q) <= n
<1>1. LineSet(q) \subseteq 1..n
  BY DEF LineSet
<1>2. IsFiniteSet(1..n) /\ Cardinality(1..n) = n
  <2>1. IsFiniteSet(1..n) /\ Cardinality(1..n) = IF 1 > n THEN 0 ELSE n - 1 + 1
    BY FS_Interval
  <2> QED
    BY <2>1
<1> QED
  BY <1>1, <1>2, LinesAre, FS_Subset

\* The records of a sequence are those of its two parts.
LEMMA LinesSum ==
    ASSUME NEW q \in Seq(Item), NEW s \in Seq(Item), NEW t \in Seq(Item),
           Len(q) = Len(s) + Len(t),
           \A i \in 1..Len(s) : q[i] = s[i],
           \A i \in 1..Len(t) : q[Len(s) + i] = t[i]
    PROVE  Lines(q) = Lines(s) + Lines(t)
<1> DEFINE k == Len(s)
           Shifted == {k + i : i \in LineSet(t)}
           shift == [i \in LineSet(t) |-> k + i]
<1>1. k \in Nat /\ Len(t) \in Nat
  OBVIOUS
<1>2. LineSet(q) = LineSet(s) \cup Shifted
  <2>1. ASSUME NEW i \in LineSet(q) PROVE i \in LineSet(s) \cup Shifted
    <3>1. i \in 1..(k + Len(t)) /\ IsLine(q[i])
      BY <2>1 DEF LineSet
    <3>2. CASE i <= k
      BY <1>1, <3>1, <3>2 DEF LineSet
    <3>3. CASE i > k
      <4>1. i - k \in 1..Len(t) /\ i = k + (i - k)
        BY <1>1, <3>1, <3>3
      <4>2. IsLine(t[i - k])
        BY <3>1, <4>1
      <4> QED
        BY <4>1, <4>2 DEF LineSet
    <3> QED
      BY <1>1, <3>1, <3>2, <3>3
  <2>2. ASSUME NEW i \in LineSet(s) PROVE i \in LineSet(q)
    BY <1>1 DEF LineSet
  <2>3. ASSUME NEW i \in LineSet(t) PROVE k + i \in LineSet(q)
    <3>1. i \in 1..Len(t) /\ IsLine(t[i]) /\ q[k + i] = t[i]
      BY DEF LineSet
    <3>2. k + i \in 1..Len(q)
      BY <1>1, <3>1
    <3> QED
      BY <3>1, <3>2 DEF LineSet
  <2> QED
    BY <2>1, <2>2, <2>3
<1>3. LineSet(s) \cap Shifted = {}
  BY <1>1 DEF LineSet
<1>4. IsFiniteSet(Shifted) /\ Cardinality(Shifted) = Lines(t)
  <2>1. shift \in Bijection(LineSet(t), Shifted)
    <3>1. shift \in [LineSet(t) -> Shifted]
      OBVIOUS
    <3>2. ASSUME NEW i \in LineSet(t), NEW j \in LineSet(t), shift[i] = shift[j] PROVE i = j
      BY <1>1, <3>2 DEF LineSet
    <3>3. \A y \in Shifted : \E i \in LineSet(t) : shift[i] = y
      OBVIOUS
    <3> QED
      BY <3>1, <3>2, <3>3, Fun_IsBij
  <2>2. ExistsBijection(LineSet(t), Shifted)
    BY <2>1 DEF ExistsBijection
  <2> QED
    BY <2>2, LinesAre, FS_Bijection
<1>5. Cardinality(LineSet(q)) = Cardinality(LineSet(s)) + Cardinality(Shifted) - 0
  <2> HIDE DEF Shifted
  <2>1. IsFiniteSet(LineSet(s))
    BY LinesAre
  <2> QED
    BY <1>2, <1>3, <1>4, <2>1, FS_Union, FS_EmptySet
<1> QED
  BY <1>4, <1>5, LinesAre

LEMMA LinesConcat ==
    ASSUME NEW s \in Seq(Item), NEW t \in Seq(Item)
    PROVE  Lines(s \o t) = Lines(s) + Lines(t)
<1>1. /\ s \o t \in Seq(Item) /\ Len(s \o t) = Len(s) + Len(t)
      /\ \A i \in 1..Len(s) : (s \o t)[i] = s[i]
      /\ \A i \in 1..Len(t) : (s \o t)[Len(s) + i] = t[i]
  OBVIOUS
<1> QED
  BY <1>1, LinesSum

LEMMA LinesAppend ==
    ASSUME NEW s \in Seq(Item), NEW i \in Item
    PROVE  Lines(Append(s, i)) = IF IsLine(i) THEN Lines(s) + 1 ELSE Lines(s)
<1> DEFINE t == <<i>>
           q == Append(s, i)
<1>1. t \in Seq(Item) /\ Len(t) = 1 /\ t[1] = i
  OBVIOUS
<1>2. /\ q \in Seq(Item) /\ Len(q) = Len(s) + 1
      /\ \A j \in 1..Len(s) : q[j] = s[j]
      /\ q[Len(s) + 1] = i
  OBVIOUS
<1>3. Lines(q) = Lines(s) + Lines(t)
  <2> HIDE DEF t, q
  <2>1. \A j \in 1..Len(t) : q[Len(s) + j] = t[j]
    BY <1>1, <1>2
  <2>2. Len(q) = Len(s) + Len(t)
    BY <1>1, <1>2
  <2> QED
    BY <1>1, <1>2, <2>1, <2>2, LinesSum
<1>4. LineSet(t) = IF IsLine(i) THEN {1} ELSE {}
  BY <1>1 DEF LineSet
<1>5. Cardinality(LineSet(t)) = IF IsLine(i) THEN 1 ELSE 0
  BY <1>4, FS_Singleton, FS_EmptySet
<1>6. Lines(t) = Cardinality(LineSet(t))
  BY <1>1, LinesAre
<1> QED
  BY <1>3, <1>5, <1>6, LinesAre

\* Cut after n items, a sequence keeps its records.
LEMMA LinesSplit ==
    ASSUME NEW s \in Seq(Item), NEW n \in 0..Len(s)
    PROVE  /\ SubSeq(s, 1, n) \in Seq(Item) /\ Len(SubSeq(s, 1, n)) = n
           /\ \A i \in 1..n : SubSeq(s, 1, n)[i] = s[i]
           /\ Lines(s) = Lines(SubSeq(s, 1, n)) + Lines(SubSeq(s, n + 1, Len(s)))
<1> DEFINE f == SubSeq(s, 1, n)
           r == SubSeq(s, n + 1, Len(s))
<1>1. r \in Seq(Item) /\ Len(r) = Len(s) - n /\ \A i \in 1..(Len(s) - n) : r[i] = s[n + i]
  BY Rest
<1>2. f \in Seq(Item) /\ Len(f) = n /\ \A i \in 1..n : f[i] = s[i]
  <2>1. CASE n = 0
    <3>1. f = <<>>
      BY <2>1
    <3> QED
      BY <2>1, <3>1
  <2>2. CASE n # 0
    <3>1. n \in 1..Len(s) /\ 1 \in {1, 2}
      BY <2>2
    <3>2. f \in Seq(Item) /\ Len(f) = n - 1 + 1 /\ \A i \in 1..(n - 1 + 1) : f[i] = s[1 + i - 1]
      BY <3>1, Front
    <3> QED
      BY <3>2
  <2> QED
    BY <2>1, <2>2
<1> HIDE DEF f, r
<1>3. /\ Len(s) = Len(f) + Len(r)
      /\ \A i \in 1..Len(r) : s[Len(f) + i] = r[i]
      /\ \A i \in 1..Len(f) : s[i] = f[i]
  BY <1>1, <1>2
<1>4. Lines(s) = Lines(f) + Lines(r)
  BY <1>1, <1>2, <1>3, LinesSum
<1> QED
  BY <1>2, <1>4 DEF f, r
-----------------------------------------------------------------------------
(* No record is lost on the way to an idle host's "OK" *)

\* A hex transfer is open, or its records are not all forgotten.
Collecting == session = "hex" \/ records > 0

\* An idle host finds no handler when it starts one.
Asleep ==
    /\ bpc = "suspend" => handle = "none"
    /\ suspended /\ handle # "none" => tpc = "resume"

\* What each point of a control request knows of it.
InRequest ==
    /\ tpc = "idle" => treq = "none"
    /\ tpc \in {"stop_handle", "stop_command", "release"} => treq \in {"lin_off", "btl_off"}

\* Records are sent after the request that starts a hex transfer.
HexOnly ==
    /\ treq \in Starts => records = 0
    /\ session \in {"lin", "btl", "ota"} => records = 0

\* From then on the task runs no other handler, and an empty buffer is left when
\* this one is done.
Undisturbed ==
    Collecting =>
        /\ treq \in {"none", "hex_on", "hex_off"}
        /\ handle \in {"hex", "none"}
        /\ bpc \in {"check", "suspend", "suspended", "receive", "hex", "return", "clear"}
        /\ bpc \in {"receive", "hex", "return"} => running = "hex"
        /\ bpc \in {"receive", "hex", "return", "clear"} => handle = "hex"
        /\ bpc \in {"receive", "hex"} => ~negative
        /\ bpc \in {"check", "suspend"} /\ negative => handle = "none"
        /\ bpc \in {"check", "return", "clear"} /\ negative => buf = <<>>
        /\ bpc = "check" /\ handle = "none" => buf = <<>>
        /\ bpc = "clear" => negative

\* The records in the buffer count, unless the task is about to sleep and empty it.
Buffered == IF bpc \in {"suspend", "suspended"} THEN 0 ELSE Lines(buf)

Accounted == records <= hexFile + Buffered + Lines(rx)

RecordInv == Asleep /\ InRequest /\ HexOnly /\ Undisturbed /\ Accounted

\* What the arithmetic needs.
LEMMA CountTypes ==
    ASSUME TypeInv, HostTypes
    PROVE  /\ buf \in Seq(Item) /\ rx \in Seq(Item)
           /\ Lines(buf) \in Nat /\ Lines(rx) \in Nat /\ Buffered \in Nat
           /\ hexFile \in Nat /\ records \in Nat
<1>1. buf \in Seq(Item) /\ rx \in Seq(Item) /\ hexFile \in Nat /\ records \in Nat
  BY Sizes, HostAssumption DEF TypeInv, TypeOK, HostTypes
<1> QED
  BY <1>1, LinesAre DEF Buffered

LEMMA NextCountTypes ==
    ASSUME TypeInv', HostTypes'
    PROVE  /\ Lines(buf') \in Nat /\ Lines(rx') \in Nat /\ Buffered' \in Nat
           /\ hexFile' \in Nat /\ records' \in Nat
<1>1. buf' \in Seq(Item) /\ rx' \in Seq(Item) /\ hexFile' \in Nat /\ records' \in Nat
  BY Sizes, HostAssumption DEF TypeInv, TypeOK, HostTypes
<1>2. Lines(buf') \in Nat /\ Lines(rx') \in Nat
  BY <1>1, LinesAre
<1> QED
  BY <1>1, <1>2 DEF Buffered

\* As long as no record was sent, none is missing.
LEMMA NoneMissing ==
    ASSUME TypeInv', HostTypes', records' = 0
    PROVE  Accounted'
<1>1. /\ Lines(rx') \in Nat /\ Buffered' \in Nat /\ hexFile' \in Nat
  BY NextCountTypes
<1>2. 0 <= hexFile' + Buffered' + Lines(rx')
  BY <1>1
<1> QED
  BY <1>2 DEF Accounted

\* Receiving moves records from the ring to the buffer.
LEMMA ReceiveCounts ==
    ASSUME TypeInv, HostTypes, Receive, ~negative
    PROVE  Lines(buf') + Lines(rx') = Lines(buf) + Lines(rx)
<1>1. PICK n \in 1..Contiguous :
           buf' = buf \o SubSeq(rx, 1, n) /\ rx' = SubSeq(rx, n + 1, Len(rx))
  BY DEF Receive, Take
<1>2. n \in 0..Len(rx) /\ buf \in Seq(Item) /\ rx \in Seq(Item)
  BY CountTypes, ContiguousRange DEF TypeInv
<1>3. /\ SubSeq(rx, 1, n) \in Seq(Item) /\ SubSeq(rx, n + 1, Len(rx)) \in Seq(Item)
      /\ Lines(rx) = Lines(SubSeq(rx, 1, n)) + Lines(rx')
  BY <1>1, <1>2, LinesSplit, Rest
<1>4. Lines(buf') = Lines(buf) + Lines(SubSeq(rx, 1, n))
  BY <1>1, <1>2, <1>3, LinesConcat
<1>5. /\ Lines(buf) \in Nat /\ Lines(SubSeq(rx, 1, n)) \in Nat /\ Lines(rx') \in Nat
  BY <1>1, <1>2, <1>3, LinesAre
<1> QED
  BY <1>3, <1>4, <1>5

\* The parser moves records from the buffer to the file.
LEMMA ParseCounts ==
    ASSUME TypeInv, HostTypes, HexParse
    PROVE  hexFile + Lines(buf) <= hexFile' + Lines(buf')
<1>1. PICK n \in 0..Len(buf) :
           /\ ParsesTo(buf, n) /\ hexFile' = hexFile + n
           /\ buf' = SubSeq(buf, Consumed(buf, n) + 1, Len(buf))
  BY DEF HexParse
<1> DEFINE m == Consumed(buf, n)
<1>2. /\ buf \in Seq(Item) /\ Len(buf) \in Nat /\ hexFile \in Nat
      /\ m \in 0..Len(buf) /\ m \in {n, n + 1}
      /\ m = n + 1 => ~IsLine(buf[n + 1])
  BY CountTypes DEF Consumed, IsLine
<1> DEFINE f == SubSeq(buf, 1, m)
<1> HIDE DEF m
<1>3. /\ f \in Seq(Item) /\ Len(f) = m /\ (\A i \in 1..m : f[i] = buf[i])
      /\ buf' \in Seq(Item)
      /\ Lines(buf) = Lines(f) + Lines(buf')
  BY <1>1, <1>2, LinesSplit, Rest DEF m
<1>4. Lines(f) <= n
  <2>1. ASSUME NEW i \in 1..Len(f), IsLine(f[i]) PROVE i <= n
    <3>1. i \in 1..m /\ IsLine(buf[i])
      BY <1>3, <2>1
    <3> QED
      BY <1>2, <3>1
  <2> HIDE DEF f
  <2>2. n \in Nat
    BY <1>2
  <2> QED
    BY <1>3, <2>1, <2>2, LinesBound
<1> HIDE DEF f
<1>5. Lines(f) \in Nat /\ Lines(buf') \in Nat /\ n \in Nat
  BY <1>2, <1>3, LinesAre
<1> QED
  BY <1>1, <1>2, <1>3, <1>4, <1>5

\* The steps of the bulk task while a hex file is collected.
LEMMA HexSteps ==
    ASSUME Undisturbed, Collecting, BulkAnswer \/ BulkSilent
    PROVE  \/ BulkCheck \/ BulkSuspend \/ BulkWake \/ BulkReturn \/ BulkClear
           \/ ReceiveNothing \/ Receive \/ HexParse \/ HexWait \/ HexDone
BY DEF Undisturbed, BulkAnswer, BulkSilent, OtaWriteFails, OtaDone, CmdRefused, LinDone,
       BtlRefused, BtlDone, OtaWrite, OtaWait, CmdSkip, CmdUnderflow, CmdDispatch, BtlClaim

LEMMA BulkKeepsRecords ==
    ASSUME TypeInv, HostTypes, FreshInv, RecordInv, TypeInv', HostTypes',
           BulkAnswer \/ BulkSilent,
           UNCHANGED records, session' \in {session, "none"}
    PROVE  RecordInv'
<1> USE DEF handles, task, ring, hexVars, usb
<1>1. Asleep'
  <2>1. \/ BulkCheck \/ BulkSuspend \/ BulkClear
        \/ bpc' # "suspend" /\ UNCHANGED <<suspended, handle, tpc>>
    BY DEF BulkAnswer, HexDone, OtaWriteFails, OtaDone, CmdRefused, LinDone, BtlRefused,
           BtlDone, BulkSilent, BulkWake, BulkReturn, ReceiveNothing, Receive, HexParse,
           HexWait, OtaWrite, OtaWait, CmdSkip, CmdUnderflow, CmdDispatch, BtlClaim,
           TypeInv, TypeOK, Handler
  <2> QED
    BY <2>1 DEF RecordInv, Asleep, BulkCheck, BulkSuspend, BulkClear
<1>2. UNCHANGED usb
  BY DEF BulkAnswer, HexDone, OtaWriteFails, OtaDone, CmdRefused, LinDone, BtlRefused,
         BtlDone, BulkSilent, BulkCheck, BulkSuspend, BulkWake, BulkReturn, BulkClear,
         ReceiveNothing, Receive, HexParse, HexWait, OtaWrite, OtaWait, CmdSkip,
         CmdUnderflow, CmdDispatch, BtlClaim
<1>3. InRequest' /\ HexOnly'
  BY <1>2 DEF RecordInv, InRequest, HexOnly
<1>4. CASE ~Collecting
  <2>1. ~Collecting' /\ records' = 0
    BY <1>4, CountTypes DEF Collecting
  <2> QED
    BY <1>1, <1>3, <2>1, NoneMissing DEF RecordInv, Undisturbed
<1>5. CASE Collecting
  <2> USE <1>5 DEF RecordInv
  <2>1. Undisturbed'
    <3>1. CASE BulkCheck \/ BulkSuspend \/ BulkWake \/ BulkReturn \/ BulkClear
      BY <3>1 DEF Undisturbed, BulkCheck, BulkSuspend, BulkWake, BulkReturn, BulkClear
    <3>2. CASE ReceiveNothing \/ Receive
      <4>1. /\ bpc = "receive" /\ bpc' = running /\ ~negative'
            /\ UNCHANGED <<handle, running, usb>>
        BY <3>2 DEF ReceiveNothing, Receive, Undisturbed
      <4> QED
        BY <4>1 DEF Undisturbed
    <3>3. CASE HexParse \/ HexWait \/ HexDone
      <4>1. /\ bpc = "hex" /\ bpc' = "return" /\ UNCHANGED <<handle, running, usb>>
            /\ negative' => buf' = <<>>
        BY <3>3 DEF HexParse, HexWait, HexDone, Undisturbed
      <4> QED
        BY <4>1 DEF Undisturbed
    <3> QED
      BY <3>1, <3>2, <3>3, HexSteps
  <2>2. Accounted'
    <3> USE DEF Accounted, Buffered
    <3>1. CASE BulkCheck \/ BulkSuspend \/ BulkWake \/ BulkReturn \/ BulkClear
      <4>1. /\ UNCHANGED <<rx, hexFile, records>>
            /\ \/ UNCHANGED <<bpc, buf>>
               \/ UNCHANGED buf /\ bpc \notin {"suspend", "suspended"}
                    /\ bpc' \notin {"suspend", "suspended"}
               \/ buf = <<>> /\ bpc = "check" /\ bpc' = "suspend"
               \/ bpc = "suspend" /\ bpc' = "suspended"
               \/ bpc = "suspended" /\ bpc' = "check" /\ buf' = <<>>
        BY <3>1 DEF Undisturbed, BulkCheck, BulkSuspend, BulkWake, BulkReturn, BulkClear
      <4> QED
        BY <4>1, LinesEmpty
    <3>2. CASE ReceiveNothing \/ HexWait \/ HexDone
      BY <3>2 DEF Undisturbed, ReceiveNothing, HexWait, HexDone
    <3>3. CASE Receive
      <4>1. /\ bpc = "receive" /\ bpc' = "hex" /\ UNCHANGED <<hexFile, records>> /\ ~negative
        BY <3>3 DEF Receive, Undisturbed
      <4>2. Lines(buf') + Lines(rx') = Lines(buf) + Lines(rx)
        BY <3>3, <4>1, ReceiveCounts
      <4>3. Lines(buf') \in Nat /\ Lines(rx') \in Nat
        BY NextCountTypes
      <4> QED
        BY <4>1, <4>2, <4>3, CountTypes
    <3>4. CASE HexParse
      <4>1. bpc = "hex" /\ bpc' = "return" /\ UNCHANGED <<rx, records>>
        BY <3>4 DEF HexParse
      <4>2. hexFile + Lines(buf) <= hexFile' + Lines(buf')
        BY <3>4, ParseCounts
      <4>3. Lines(buf') \in Nat /\ hexFile' \in Nat
        BY NextCountTypes
      <4> QED
        BY <4>1, <4>2, <4>3, CountTypes
    <3> QED
      BY <3>1, <3>2, <3>3, <3>4, HexSteps
  <2> QED
    BY <1>1, <1>3, <2>1, <2>2
<1> QED
  BY <1>4, <1>5

LEMMA UsbKeepsRecords ==
    ASSUME HandlerInv, FreshInv, RecordInv, TypeInv', HostTypes',
           UsbStepNext, UNCHANGED host
    PROVE  RecordInv'
<1> USE DEF handles, task, ring, hexVars, host, UsbGoto, HandlerInv, RequestInv, Starts
<1>1. UNCHANGED <<bpc, running, buf, negative, session, records>>
  BY DEF UsbStepNext, LinClaim, LinRefused, StartCommand, StartRaw, Flush, Install, Resume,
         StopHandle, StopCommand, Release, HexClear, HexMode, OtaBegin, OtaMode, Ack
<1>2. treq' \in {treq, "none"} /\ InRequest'
  BY DEF UsbStepNext, LinClaim, LinRefused, StartCommand, StartRaw, Flush, Install, Resume,
         StopHandle, StopCommand, Release, HexClear, HexMode, OtaBegin, OtaMode, Ack,
         RecordInv, InRequest
<1>3. HexOnly'
  BY <1>1, <1>2 DEF RecordInv, HexOnly
<1>4. \/ Install /\ treq \in Starts /\ bpc = "suspended" /\ handle' = HandlerOf[treq]
         /\ tpc' = "resume"
      \/ Resume /\ ~suspended' /\ UNCHANGED handle
      \/ StopHandle /\ handle' = "none" /\ treq \in {"lin_off", "btl_off"} /\ UNCHANGED suspended
      \/ tpc # "resume" /\ UNCHANGED <<handle, suspended>>
  BY DEF UsbStepNext, LinClaim, LinRefused, StartCommand, StartRaw, Flush, Install, Resume,
         StopHandle, StopCommand, Release, HexClear, HexMode, OtaBegin, OtaMode, Ack,
         FreshInv, RecordInv, InRequest
<1>5. Asleep'
  BY <1>1, <1>4 DEF RecordInv, Asleep
<1>6. Undisturbed'
  BY <1>1, <1>2, <1>4 DEF RecordInv, Undisturbed, Collecting, HandlerOf
<1>7. Accounted'
  <2>1. CASE treq \in Starts
    BY <1>1, <2>1, NoneMissing DEF RecordInv, HexOnly
  <2>2. CASE treq \notin Starts
    <3>1. UNCHANGED <<rx, hexFile>>
      BY <2>2 DEF UsbStepNext, LinClaim, LinRefused, StartCommand, StartRaw, Flush, Install,
             Resume, StopHandle, StopCommand, Release, HexClear, HexMode, OtaBegin, OtaMode, Ack
    <3> QED
      BY <1>1, <3>1 DEF RecordInv, Accounted, Buffered
  <2> QED
    BY <2>1, <2>2
<1> QED
  BY <1>2, <1>3, <1>5, <1>6, <1>7 DEF RecordInv

\* A request of the host finds the task asleep or continues its session.
LEMMA RequestKeepsRecords ==
    ASSUME Host = "idle", RecordInv, HostTypes, TypeInv', HostTypes',
           NEW r \in Starts \cup Stops, HostRequest(r)
    PROVE  RecordInv'
<1> USE DEF handles, task, ring, hexVars, HostRequest, HostMay, Request, RecordInv
<1>1. /\ UNCHANGED <<handle, suspended, bpc, running, buf, negative, rx, hexFile>>
      /\ tpc = "idle" /\ treq' = r /\ tpc' = First[r]
  OBVIOUS
<1>2. InRequest'
  BY <1>1 DEF InRequest, First, Starts, Stops
<1>3. CASE r \in Starts
  <2>1. records' = 0 /\ bpc = "suspended" /\ handle = "none"
    BY <1>1, <1>3 DEF Asleep
  <2>2. Collecting' => r = "hex_on"
    BY <1>3, <2>1 DEF Collecting, SessionOf, Starts
  <2>3. Accounted'
    BY <2>1, NoneMissing
  <2> QED
    BY <1>1, <1>2, <2>1, <2>2, <2>3 DEF Asleep, HexOnly, Undisturbed
<1>4. CASE r \in Stops \ Starts
  <2>1. UNCHANGED records /\ session = SessionOf[r] /\ records \in Nat
    BY <1>4, HostAssumption DEF HostTypes
  <2>2. session' = IF r \in {"lin_off", "btl_off"} THEN "none" ELSE session
    BY <2>1
  <2>3. Asleep'
    BY <1>1 DEF Asleep
  <2>4. HexOnly'
    BY <1>1, <1>4, <2>1, <2>2 DEF HexOnly
  <2>5. Undisturbed'
    <3>1. Collecting' => Collecting /\ r = "hex_off"
      BY <1>4, <2>1, <2>2 DEF Collecting, HexOnly, SessionOf, Stops
    <3> QED
      BY <1>1, <3>1 DEF Undisturbed
  <2>6. Accounted'
    BY <1>1, <2>1 DEF Accounted, Buffered
  <2> QED
    BY <1>2, <2>3, <2>4, <2>5, <2>6
<1> QED
  BY <1>3, <1>4

\* What the host sends goes to the ring, or is dropped there and does not count.
LEMMA DataKeepsRecords ==
    ASSUME RecordInv, TypeInv, HostTypes, TypeInv', HostTypes',
           HostCommand \/ \E i \in Item : HostData(i)
    PROVE  RecordInv'
<1> DEFINE Sends(i) ==
             /\ RxCallback(i) /\ UNCHANGED session
             /\ \/ session \in {"lin", "btl"} /\ UNCHANGED records
                \/ /\ session \in Transfer /\ (session = "ota" => i = "junk")
                   /\ records' = IF i = "line" /\ Len(rx) < RxCap THEN records + 1
                                                                 ELSE records
<1>1. PICK i \in Item : Sends(i)
  <2>1. CASE HostCommand
    <3>1. Sends("frame") /\ "frame" \in Item
      BY <2>1 DEF HostCommand, Item
    <3> QED
      BY <3>1
  <2>2. ASSUME NEW i \in Item, HostData(i) PROVE Sends(i)
    BY <2>2 DEF HostData, Transfer
  <2> QED
    BY <2>1, <2>2
<1>2. /\ UNCHANGED <<handle, suspended, bpc, running, buf, negative, hexFile, tpc, treq>>
      /\ tpc = "idle" /\ treq = "none"
  BY <1>1 DEF RxCallback, handles, task, hexVars, usb, RecordInv, InRequest
<1>3. records \in Nat /\ rx \in Seq(Item) /\ Lines(rx) \in Nat /\ Buffered \in Nat
      /\ hexFile \in Nat /\ Len(rx) \in Nat /\ RxCap \in Nat
  BY CountTypes, Sizes
<1>4. session \in {"lin", "btl", "ota"} => records' = records
  BY <1>1 DEF Transfer
<1>5. Collecting' => Collecting
  BY <1>1, <1>3, <1>4 DEF Collecting, Transfer
<1>6. records' - records <= Lines(rx') - Lines(rx) /\ Lines(rx') \in Nat /\ records' \in Nat
  <2>1. Lines(Append(rx, i)) = IF IsLine(i) THEN Lines(rx) + 1 ELSE Lines(rx)
    BY <1>3, LinesAppend
  <2>2. rx' = IF Len(rx) < RxCap THEN Append(rx, i) ELSE rx
    BY <1>1 DEF RxCallback
  <2> QED
    BY <1>1, <1>3, <2>1, <2>2 DEF IsLine
<1>7. Accounted'
  BY <1>2, <1>3, <1>6 DEF RecordInv, Accounted, Buffered
<1> QED
  BY <1>1, <1>2, <1>4, <1>5, <1>7 DEF RecordInv, Asleep, InRequest, HexOnly, Undisturbed, Starts

LEMMA RecordStep ==
    ASSUME Host = "idle", TypeInv, HostTypes, HandlerInv, FreshInv, RecordInv,
           TypeInv', HostTypes', [VendorNext]_allVars
    PROVE  RecordInv'
<1> USE DEF handles, task, ring, hexVars, usb, host
<1>1. CASE BulkAnswer /\ HostAnswered
  BY <1>1, BulkKeepsRecords DEF HostAnswered
<1>2. CASE BulkSilent /\ UNCHANGED <<host, mounted>>
  BY <1>2, BulkKeepsRecords
<1>3. CASE UsbStepNext /\ UNCHANGED <<host, mounted>>
  BY <1>3, UsbKeepsRecords
<1>4. CASE \E r \in Starts \cup Stops : HostRequest(r)
  BY <1>4, RequestKeepsRecords
<1>5. CASE HostCommand \/ \E i \in Item : HostData(i)
  BY <1>5, DataKeepsRecords
<1>6. CASE HostRestarted \/ HostStalled
  <2>1. HostStalled => records = 0
    BY DEF HostStalled, OtaStall, HandlerInv, RequestInv, RecordInv, HexOnly, Starts
  <2>2. records' = 0 /\ session' = "none" /\ treq' = "none" /\ tpc' = "idle"
    BY <1>6, <2>1 DEF HostRestarted, DeviceFault, HostStalled, OtaStall
  <2>3. Asleep'
    BY <1>6 DEF HostRestarted, DeviceFault, HostStalled, OtaStall, RecordInv, Asleep
  <2>4. ~Collecting' /\ Accounted'
    BY <2>2, NoneMissing DEF Collecting
  <2> QED
    BY <2>2, <2>3, <2>4 DEF RecordInv, InRequest, HexOnly, Undisturbed, Starts
<1>7. CASE \/ (WebClaim \/ WebRelease) /\ UNCHANGED <<host, mounted>>
           \/ \E on \in BOOLEAN : HostPower(on)
           \/ HostTimeout \/ Unplug \/ Plug \/ UNCHANGED allVars
  <2>1. /\ UNCHANGED <<handle, suspended, bpc, running, buf, negative, rx, hexFile, tpc, treq,
                       records>>
        /\ session' \in {session, "none"}
    BY <1>7 DEF WebClaim, WebRelease, HostPower, SlavePower, HostTimeout, HostAnswered, Unplug,
                Plug, allVars, vars
  <2> QED
    BY <2>1 DEF RecordInv, Asleep, InRequest, HexOnly, Undisturbed, Collecting, Accounted,
                Buffered
<1> QED
  BY <1>1, <1>2, <1>3, <1>4, <1>5, <1>6, <1>7 DEF VendorNext

LEMMA RecordInit == VendorInit => RecordInv
<1> SUFFICES ASSUME VendorInit PROVE RecordInv
  OBVIOUS
<1>1. records = 0 /\ hexFile = 0 /\ rx = <<>> /\ buf = <<>> /\ bpc = "check"
  BY DEF VendorInit, Init
<1>2. Accounted
  BY <1>1, LinesEmpty DEF Accounted, Buffered
<1> QED
  BY <1>2 DEF VendorInit, Init, RecordInv, Asleep, InRequest, HexOnly, Undisturbed, Collecting,
              Starts

\* What holds throughout for an idle host.
IdleInv == TypeInv /\ HandlerInv /\ HostTypes /\ FreshInv /\ RecordInv

LEMMA IdleInvariant == Host = "idle" /\ VendorSpec => []IdleInv
<1>1. CASE Host = "idle"
  <2>1. VendorSpec => [](TypeInv /\ HandlerInv /\ HostTypes)
    BY BulkInvariant, HostTypesInit, HostTypesStep, PTL DEF VendorSpec
  <2>2. VendorInit => FreshInv
    BY DEF VendorInit, Init, FreshInv, Starts
  <2>3. TypeInv /\ HandlerInv /\ FreshInv /\ [VendorNext]_allVars => FreshInv'
    BY <1>1, FreshStep
  <2>4. TypeInv /\ HandlerInv /\ HostTypes /\ FreshInv /\ RecordInv
          /\ (TypeInv /\ HandlerInv /\ HostTypes)' /\ [VendorNext]_allVars => RecordInv'
    BY <1>1, RecordStep
  <2> QED
    BY <2>1, <2>2, <2>3, <2>4, RecordInit, PTL DEF VendorSpec, IdleInv
<1>2. CASE Host # "idle"
  BY <1>2
<1> QED
  BY <1>1, <1>2

\* For a host that starts a transfer only when the bulk task sleeps, every record
\* the ring took is in the containers or still in the ring when "OK" ends the
\* transfer, however the data was cut into packets and receives, whatever else was in
\* the file, and whether or not the host timed out or was unplugged before
\* (usb_vendor_hex_transfer.c:58-117, usb_vendor_bulk.c:101-180, 269-282).
THEOREM RecordsArrive == Host = "idle" /\ VendorSpec => NoRecordLost
<1>1. IdleInv /\ [VendorNext]_allVars => [HexDone => hexFile + Lines(rx) >= records]_allVars
  <2> SUFFICES ASSUME IdleInv, HexDone
               PROVE  hexFile + Lines(rx) >= records
    OBVIOUS
  <2>1. buf = <<>> /\ bpc = "hex"
    BY DEF HexDone
  <2>2. Buffered = 0
    BY <2>1, LinesEmpty DEF Buffered
  <2> QED
    BY <2>2, CountTypes DEF IdleInv, RecordInv, Accounted
<1> QED
  BY <1>1, IdleInvariant, PTL DEF VendorSpec, NoRecordLost

\* For the same hosts no start is refused because a handler is still installed, and
\* no wake-up is lost between the bulk task's test of its handler and its suspension
\* (usb_vendor_bulk.c:101-109, 201-208).
THEOREM StartsWork == Host = "idle" /\ VendorSpec => []StartsTakeEffect
<1>1. IdleInv => StartsTakeEffect
  BY DEF IdleInv, HandlerInv, RequestInv, FreshInv, RecordInv, Asleep, StartsTakeEffect, Starts
<1> QED
  BY <1>1, IdleInvariant, PTL
-----------------------------------------------------------------------------
(* Text that the parser consumes whole leaves the buffer room for more *)

\* A host that transfers files of data records, and nothing else.
PlainFiles == Host = "idle" /\ Uses \subseteq {"hex", "power"} /\ HexItems \subseteq {"line"}

AllLines(q) == \A i \in 1..Len(q) : IsLine(q[i])

\* Only the hex handler runs, at a valid write position, and all it does not hold at
\* the moment is parsed.
PlainInv ==
    /\ session \in {"none", "hex"}
    /\ treq \in {"none", "hex_on", "hex_off"}
    /\ handle \in {"hex", "none"} /\ running \in {"hex", "none"}
    /\ bpc \in {"check", "suspend", "suspended", "receive", "hex", "return", "clear"}
    /\ negative => \/ bpc \in {"return", "clear", "suspend", "suspended"}
                   \/ bpc = "check" /\ handle = "none"
    /\ AllLines(rx) /\ AllLines(buf)
    /\ bpc # "hex" => buf = <<>>
    /\ Len(buf) <= RxCap

LEMMA TakeKeepsLines ==
    ASSUME TypeOK, AllLines(rx), NEW n \in 0..Contiguous, Take(n)
    PROVE  AllLines(rx')
<1>1. n \in 0..Len(rx)
  BY ContiguousRange
<1>2. rx \in Seq(Item) /\ Len(rx) \in Nat /\ rx' = SubSeq(rx, n + 1, Len(rx))
  BY DEF TypeOK, Take
<1>3. Len(rx') = Len(rx) - n /\ \A i \in 1..(Len(rx) - n) : rx'[i] = rx[n + i]
  BY <1>1, <1>2, Rest
<1>4. ASSUME NEW i \in 1..Len(rx') PROVE IsLine(rx'[i])
  <2>1. n + i \in 1..Len(rx) /\ rx'[i] = rx[n + i]
    BY <1>1, <1>2, <1>3
  <2> QED
    BY <2>1 DEF AllLines
<1> QED
  BY <1>4 DEF AllLines

LEMMA PlainReceive ==
    ASSUME TypeInv, PlainInv, Receive
    PROVE  AllLines(rx') /\ AllLines(buf') /\ Len(buf') <= RxCap
<1>1. buf = <<>> /\ ~negative /\ TypeOK
  BY DEF Receive, PlainInv, TypeInv
<1>2. PICK n \in 1..Contiguous : buf' = buf \o SubSeq(rx, 1, n) /\ Take(n)
  BY <1>1 DEF Receive
<1>3. n \in 1..Len(rx) /\ n \in 0..Contiguous /\ rx \in Seq(Item) /\ Len(rx) \in Nat
  BY <1>1, ContiguousRange DEF TypeOK
<1>4. /\ SubSeq(rx, 1, n) \in Seq(Item) /\ Len(SubSeq(rx, 1, n)) = n
      /\ \A i \in 1..n : SubSeq(rx, 1, n)[i] = rx[i]
  BY <1>3, LinesSplit
<1>5. buf' = SubSeq(rx, 1, n)
  BY <1>1, <1>2, <1>4, ConcatEmptySeq
<1>6. AllLines(buf')
  BY <1>3, <1>4, <1>5 DEF AllLines, PlainInv
<1>7. Len(buf') <= RxCap
  BY <1>1, <1>3, <1>4, <1>5, Sizes DEF TypeOK
<1> QED
  BY <1>1, <1>2, <1>3, <1>6, <1>7, TakeKeepsLines DEF PlainInv

\* The parser stops at nothing but the end.
LEMMA PlainParse ==
    ASSUME TypeInv, PlainInv, HexParse
    PROVE  buf' = <<>>
<1>1. PICK n \in 0..Len(buf) :
         ParsesTo(buf, n) /\ buf' = SubSeq(buf, Consumed(buf, n) + 1, Len(buf))
  BY DEF HexParse
<1>2. buf \in Seq(Item) /\ Len(buf) \in Nat
  BY DEF TypeInv, TypeOK
<1>3. n = Len(buf)
  <2>1. n < Len(buf) => n + 1 \in 1..Len(buf) /\ ~IsLine(buf[n + 1])
    BY <1>1, <1>2 DEF ParsesTo
  <2> QED
    BY <1>1, <1>2, <2>1 DEF PlainInv, AllLines
<1>4. Consumed(buf, n) = Len(buf)
  BY <1>2, <1>3 DEF Consumed
<1> QED
  BY <1>1, <1>2, <1>4, SubSeqEmpty

LEMMA PlainBulk ==
    ASSUME TypeInv, FreshInv, PlainInv, BulkAnswer \/ BulkSilent,
           session' \in {session, "none"}
    PROVE  PlainInv'
<1> USE DEF handles, task, ring, usb, hexVars, otaVars, busVars
<1>1. CASE BulkAnswer
  <2>1. HexDone
    BY <1>1 DEF BulkAnswer, PlainInv, OtaWriteFails, OtaDone, CmdRefused, LinDone, BtlRefused,
                BtlDone
  <2> QED
    BY <2>1 DEF HexDone, PlainInv
<1>2. CASE BulkSilent
  <2>1. CASE BulkCheck \/ BulkSuspend \/ BulkReturn \/ BulkClear
    BY <2>1 DEF BulkCheck, BulkSuspend, BulkReturn, BulkClear, PlainInv
  <2>2. CASE BulkWake
    BY <2>2 DEF BulkWake, PlainInv
  <2>3. CASE ReceiveNothing
    BY <2>3 DEF ReceiveNothing, PlainInv, TypeInv, Loaded, Handler
  <2>4. CASE Receive
    <3>1. /\ bpc' = "hex" /\ negative' = FALSE
          /\ UNCHANGED <<handle, running, treq>>
      BY <2>4 DEF Receive, PlainInv
    <3> QED
      BY <2>4, <3>1, PlainReceive DEF PlainInv
  <2>5. CASE HexParse
    <3>1. buf' = <<>> /\ bpc' = "return" /\ UNCHANGED <<handle, running, negative, rx, treq>>
      BY <2>5, PlainParse DEF HexParse
    <3>2. Len(<<>>) = 0 /\ 0 <= RxCap /\ AllLines(<<>>)
      BY Sizes DEF AllLines
    <3> QED
      BY <3>1, <3>2 DEF PlainInv
  <2>6. CASE HexWait
    BY <2>6 DEF HexWait, PlainInv
  <2>7. ~(OtaWrite \/ OtaWait \/ CmdSkip \/ CmdUnderflow \/ CmdDispatch \/ BtlClaim)
    BY DEF OtaWrite, OtaWait, CmdSkip, CmdUnderflow, CmdDispatch, BtlClaim, PlainInv
  <2> QED
    BY <1>2, <2>1, <2>2, <2>3, <2>4, <2>5, <2>6, <2>7 DEF BulkSilent
<1> QED
  BY <1>1, <1>2

LEMMA PlainStep ==
    ASSUME PlainFiles, TypeInv, HandlerInv, FreshInv, PlainInv, [VendorNext]_allVars
    PROVE  PlainInv'
<1> USE DEF handles, task, ring, usb, host
<1>1. CASE BulkAnswer /\ HostAnswered
  BY <1>1, PlainBulk DEF HostAnswered
<1>2. CASE BulkSilent /\ UNCHANGED <<host, mounted>>
  BY <1>2, PlainBulk
<1>3. CASE UsbStepNext /\ UNCHANGED <<host, mounted>>
  <2>1. CASE Flush
    <3>1. AllLines(rx')
      <4>1. Contiguous \in 0..Contiguous /\ Take(Contiguous) /\ TypeOK
        BY <2>1, ContiguousRange DEF Flush, TypeInv, TypeOK
      <4> QED
        BY <4>1, TakeKeepsLines DEF PlainInv
    <3> QED
      BY <1>3, <2>1, <3>1 DEF Flush, UsbGoto, PlainInv
  <2>2. CASE Install
    <3>1. bpc = "suspended" /\ handle' = "hex"
      BY <2>2 DEF Install, HandlerInv, RequestInv, FreshInv, PlainInv, HandlerOf, Starts
    <3> QED
      BY <1>3, <2>2, <3>1 DEF Install, UsbGoto, PlainInv
  <2>3. CASE \/ LinClaim \/ LinRefused \/ StartCommand \/ StartRaw \/ Resume \/ StopHandle
             \/ StopCommand \/ Release \/ HexClear \/ HexMode \/ OtaBegin \/ OtaMode \/ Ack
    <3>1. /\ UNCHANGED <<bpc, running, buf, negative, rx, session>>
          /\ handle' \in {handle, "none"} /\ treq' \in {treq, "none"}
      BY <1>3, <2>3 DEF LinClaim, LinRefused, StartCommand, StartRaw, Resume, StopHandle,
                        StopCommand, Release, HexClear, HexMode, OtaBegin, OtaMode, Ack, UsbGoto
    <3> QED
      BY <3>1 DEF PlainInv
  <2> QED
    BY <1>3, <2>1, <2>2, <2>3 DEF UsbStepNext
<1>4. ASSUME NEW r \in Starts \cup Stops, HostRequest(r) PROVE PlainInv'
  <2>1. r \in {"hex_on", "hex_off"}
    BY <1>4 DEF HostRequest, HostMay, PlainFiles, SessionOf, Starts, Stops
  <2> QED
    BY <1>4, <2>1 DEF HostRequest, Request, SessionOf, PlainInv
<1>5. ASSUME NEW i \in Item, HostData(i) PROVE PlainInv'
  <2>1. /\ i = "line" /\ rx' \in {rx, Append(rx, i)}
        /\ UNCHANGED <<bpc, running, buf, negative, handle, treq, session>>
    BY <1>5 DEF HostData, RxCallback, PlainInv, PlainFiles, Transfer
  <2>2. rx \in Seq(Item)
    BY DEF TypeInv, TypeOK
  <2>3. AllLines(rx')
    BY <2>1, <2>2 DEF AllLines, PlainInv, IsLine
  <2> QED
    BY <2>1, <2>3 DEF PlainInv
<1>6. ~HostCommand
  BY DEF HostCommand, PlainInv
<1>7. CASE HostRestarted
  <2>1. Len(<<>>) = 0 /\ 0 <= RxCap /\ AllLines(<<>>)
    BY Sizes DEF AllLines
  <2> QED
    BY <1>7, <2>1 DEF HostRestarted, DeviceFault, PlainInv
<1>8. CASE \/ (WebClaim \/ WebRelease) /\ UNCHANGED <<host, mounted>>
           \/ \E on \in BOOLEAN : HostPower(on)
           \/ HostTimeout \/ HostStalled \/ Unplug \/ Plug \/ UNCHANGED allVars
  <2>1. /\ UNCHANGED <<bpc, running, buf, negative, rx, handle>>
        /\ session' \in {session, "none"} /\ treq' \in {treq, "none"}
    BY <1>8 DEF WebClaim, WebRelease, HostPower, SlavePower, HostTimeout, HostAnswered,
                HostStalled, OtaStall, Unplug, Plug, allVars, vars
  <2> QED
    BY <2>1 DEF PlainInv
<1> QED
  BY <1>1, <1>2, <1>3, <1>4, <1>5, <1>6, <1>7, <1>8 DEF VendorNext

\* Nothing keeps the text of a transfer from running past the end of the task's
\* buffer but the parser, which has to consume it faster than it comes.  It does for
\* an idle host that transfers files of data records (each an item, which arrives
\* whole), whatever the ring dropped and however often the host is unplugged (usb_vendor_hex_transfer.c:58-112).
THEOREM PlainFilesFit == PlainFiles /\ VendorSpec => [](Len(buf) <= BufCap)
<1>1. CASE PlainFiles
  <2>1. VendorInit => PlainInv
    <3>1. Len(<<>>) = 0 /\ 0 <= RxCap /\ AllLines(<<>>)
      BY Sizes DEF AllLines
    <3> QED
      BY <3>1 DEF VendorInit, Init, PlainInv
  <2>2. PlainInv /\ IdleInv /\ [VendorNext]_allVars => PlainInv'
    BY <1>1, PlainStep DEF IdleInv
  <2>3. PlainInv /\ IdleInv => Len(buf) <= BufCap
    <3>1. IdleInv => Len(buf) \in Nat
      BY DEF IdleInv, TypeInv, TypeOK
    <3> QED
      BY <3>1, SizeAssumption, BoundAssumption DEF PlainInv
  <2>4. VendorSpec => []IdleInv
    <3>1. Host = "idle"
      BY <1>1 DEF PlainFiles
    <3> QED
      BY <3>1, IdleInvariant, PTL
  <2> QED
    BY <2>1, <2>2, <2>3, <2>4, PTL DEF VendorSpec
<1>2. CASE ~PlainFiles
  BY <1>2
<1> QED
  BY <1>1, <1>2
=============================================================================
