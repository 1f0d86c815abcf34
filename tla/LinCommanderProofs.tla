-------------------------- MODULE LinCommanderProofs --------------------------
(* A schedule the page shows as running has a chain that polls, for every script
   and every number of chains.                                                *)
EXTENDS LinCommander, TLAPS

\* The records a chain holds.
Waits == [kind : {"none", "poll", "once"},
          at : {"ended", "connect", "power", "frame", "timer"},
          seq : Nat \ {0}, frame : Nat \ {0}, frames : Nat \ {0}]

\* A chain that has ended has forgotten everything, any other one has a kind.
Kinds ==
    \A c \in Chains :
       /\ chain[c].at = "ended" => chain[c] = Ended
       /\ chain[c].at # "ended" => chain[c].kind \in {"poll", "once"}

TypeInv == TypeOK /\ Kinds

\* A script has numbers of frames.
LEMMA ScriptTypes ==
  ASSUME NEW t \in Scripts \cup {<<>>}
  PROVE  /\ t \in Seq(Nat \ {0}) /\ Len(t) \in Nat
         /\ \A i \in 1..Len(t) : t[i] \in Nat \ {0}
         /\ t \in Scripts => Len(t) > 0
<1>1. t \in Seq(Nat \ {0})
  <2>1. <<>> \in Seq(Nat \ {0})
    OBVIOUS
  <2> QED
    BY <2>1, ScriptsAssumption
<1>2. t \in Scripts => t # <<>>
  BY ScriptsAssumption
<1> QED
  BY <1>1, <1>2

\* A chain that waits for the next entry of the schedule.
Sleeping == [Ended EXCEPT !.kind = "poll", !.at = "timer"]

LEMMA EndedTypes ==
  /\ Ended \in Waits /\ Ended.kind = "none" /\ Ended.at = "ended"
  /\ Sleeping \in Waits /\ Sleeping.kind = "poll" /\ Sleeping.at = "timer"
  /\ Sleeping.seq = 1 /\ Sleeping.frame = 1 /\ Sleeping.frames = 1
<1>1. Ended \in Waits /\ Ended.kind = "none" /\ Ended.at = "ended"
  <2>1. 1 \in Nat \ {0}
    OBVIOUS
  <2> QED
    BY <2>1 DEF Ended, Waits
<1>2. Sleeping = [kind |-> "poll", at |-> "timer", seq |-> 1, frame |-> 1, frames |-> 1]
  <2>1. [Ended EXCEPT !.kind = "poll"]
           = [kind |-> "poll", at |-> "ended", seq |-> 1, frame |-> 1, frames |-> 1]
    BY DEF Ended
  <2>2. Sleeping = [[Ended EXCEPT !.kind = "poll"] EXCEPT !.at = "timer"]
    BY DEF Sleeping, Ended
  <2> QED
    BY <2>1, <2>2
<1>3. 1 \in Nat \ {0}
  OBVIOUS
<1> QED
  BY <1>1, <1>2, <1>3 DEF Waits

-----------------------------------------------------------------------------
(* Types *)

\* What one continuation of a chain does to the chains.
LEMMA SequenceTypes ==
  ASSUME TypeInv, running' \in BOOLEAN, UNCHANGED script,
         NEW c \in Chains, chain[c].at # "connect",
         NEW kind \in {"poll", "once"}, NEW s \in Nat \ {0}, NEW f \in Nat \ {0},
         NEW p \in Nat \ {0}, handleSequence(c, kind, s, f, p)
  PROVE  /\ position' \in Nat \ {0}
         /\ socket' \in {"none", "connecting", "open", "closing"}
         /\ chain' \in [Chains -> Waits]
         /\ socket' = "connecting" <=> \E d \in Chains : chain'[d].at = "connect"
         /\ Kinds'
<1> USE DEF TypeInv, TypeOK, Waits, Kinds
<1>1. \A d \in Chains \ {c} : chain'[d] = chain[d]
  BY DEF handleSequence, Reject, connectMaster, sendMessage, EntryDone
<1>2. CASE socket = "none" /\ connectMaster(c, kind, s) /\ position' = p
  <2>1. chain'[c] = [kind |-> kind, at |-> "connect", seq |-> s, frame |-> 1, frames |-> 1]
    BY <1>2 DEF connectMaster
  <2>2. chain' \in [Chains -> Waits]
    BY <1>2 DEF connectMaster
  <2> QED
    BY <1>1, <1>2, <2>1, <2>2 DEF connectMaster
<1>3. CASE socket # "none" /\ Reject(c) /\ position' = p
  <2>1. chain'[c] = Ended /\ chain' \in [Chains -> Waits]
    BY <1>3, EndedTypes DEF Reject
  <2> QED
    BY <1>1, <1>3, <2>1 DEF Reject, Ended
<1>4. CASE socket = "open" /\ InScript(s, f) /\ sendMessage(c, kind, s, f) /\ position' = p
  <2>1. script[s] \in Nat \ {0}
    BY <1>4, ScriptTypes DEF InScript
  <2>2. chain'[c] = [kind |-> kind, at |-> "frame", seq |-> s, frame |-> f,
                     frames |-> script[s]]
    BY <1>4 DEF sendMessage
  <2>3. chain' \in [Chains -> Waits]
    BY <1>4, <2>1 DEF sendMessage
  <2> QED
    BY <1>1, <1>4, <2>2, <2>3 DEF sendMessage
<1>5. CASE socket \in {"connecting", "closing"} /\ EntryDone(c, kind, p)
  <2>1. chain'[c] \in {Ended, Sleeping}
    BY <1>5 DEF EntryDone, Sleeping
  <2>2. chain' \in [Chains -> Waits]
    BY <1>5, EndedTypes DEF EntryDone
  <2>3. position' \in Nat \ {0}
    BY <1>5 DEF EntryDone
  <2> QED
    BY <1>1, <1>5, <2>1, <2>2, <2>3 DEF EntryDone, Ended
<1> QED
  BY <1>2, <1>3, <1>4, <1>5 DEF handleSequence

LEMMA AnsweredTypes ==
  ASSUME TypeInv, running' = running, UNCHANGED script,
         NEW c \in Chains, onMessage(c)
  PROVE  /\ position' \in Nat \ {0}
         /\ socket' \in {"none", "connecting", "open", "closing"}
         /\ chain' \in [Chains -> Waits]
         /\ socket' = "connecting" <=> \E d \in Chains : chain'[d].at = "connect"
         /\ Kinds'
<1> DEFINE r == chain[c]
<1>1. /\ r \in Waits /\ r.at = "frame" /\ r.kind \in {"poll", "once"}
      /\ r.seq \in Nat \ {0} /\ r.frame \in Nat \ {0} /\ position \in Nat \ {0}
      /\ running' \in BOOLEAN
  BY DEF TypeInv, TypeOK, Kinds, onMessage, Waits
<1>2. CASE handleSequence(c, r.kind, r.seq, r.frame + 1, position)
  <2>1. r.frame + 1 \in Nat \ {0}
    BY <1>1
  <2> QED
    BY <1>1, <1>2, <2>1, SequenceTypes
<1>3. CASE EntryDone(c, r.kind, position)
  <2> USE DEF TypeInv, TypeOK, Kinds, Waits
  <2>1. chain'[c] \in {Ended, Sleeping}
        /\ \A d \in Chains \ {c} : chain'[d] = chain[d]
    BY <1>3 DEF EntryDone, Sleeping
  <2>2. chain' \in [Chains -> Waits]
    BY <1>3, EndedTypes DEF EntryDone
  <2>3. position' \in Nat \ {0} /\ socket' = socket
    BY <1>1, <1>3 DEF EntryDone
  <2> QED
    BY <1>1, <2>1, <2>2, <2>3, EndedTypes DEF onMessage
<1> QED
  BY <1>2, <1>3 DEF onMessage, nextFrame

LEMMA UserTypes == ASSUME TypeInv, User PROVE TypeInv'
<1>1. CASE onLoadFile
  BY <1>1 DEF TypeInv, TypeOK, Kinds, onLoadFile
<1>2. CASE startSchedule
  <2>1. PICK c \in Chains : ~Alive(c) /\ handleSequence(c, "poll", 1, 1, 1)
    BY <1>2 DEF startSchedule
  <2>2. chain[c].at # "connect" /\ UNCHANGED file /\ running' \in BOOLEAN
    BY <1>2, <2>1 DEF Alive, Ended, startSchedule
  <2>3. UNCHANGED script
    BY <2>2 DEF file
  <2> HIDE DEF TypeInv
  <2>4. /\ position' \in Nat \ {0}
        /\ socket' \in {"none", "connecting", "open", "closing"}
        /\ chain' \in [Chains -> Waits]
        /\ socket' = "connecting" <=> \E d \in Chains : chain'[d].at = "connect"
        /\ Kinds'
    BY <2>1, <2>2, <2>3, SequenceTypes
  <2> QED
    BY <2>2, <2>4 DEF TypeInv, TypeOK, Waits, file
<1>3. CASE stopSchedule
  BY <1>3 DEF TypeInv, TypeOK, Kinds, stopSchedule, file
<1>4. CASE ExecuteSequence
  <2>1. PICK c \in Chains, s \in 1..Len(script) :
             ~Alive(c) /\ handleSequence(c, "once", s, 1, position)
    BY <1>4 DEF ExecuteSequence
  <2>2. chain[c].at # "connect" /\ UNCHANGED file /\ running' \in BOOLEAN
    BY <1>4, <2>1 DEF Alive, Ended, ExecuteSequence, TypeInv, TypeOK
  <2>3. UNCHANGED script /\ s \in Nat \ {0} /\ position \in Nat \ {0}
    BY <2>2, ScriptTypes DEF file, TypeInv, TypeOK
  <2>4. /\ position' \in Nat \ {0}
        /\ socket' \in {"none", "connecting", "open", "closing"}
        /\ chain' \in [Chains -> Waits]
        /\ socket' = "connecting" <=> \E d \in Chains : chain'[d].at = "connect"
        /\ Kinds'
    BY <2>1, <2>2, <2>3, SequenceTypes
  <2> QED
    BY <2>2, <2>4 DEF TypeInv, TypeOK, Waits, file
<1> QED
  BY <1>1, <1>2, <1>3, <1>4 DEF User

\* The socket takes the chain that waits for it along.
LEMMA SocketTypes ==
  ASSUME TypeInv, Open \/ ConnectFails \/ Closing \/ Closed PROVE TypeInv'
<1> USE DEF TypeInv, TypeOK, Kinds, Waits
<1>1. CASE Open
  <2>1. \A c \in Chains : chain'[c] = IF chain[c].at = "connect"
                                      THEN [chain[c] EXCEPT !.at = "power"] ELSE chain[c]
    BY <1>1 DEF Open
  <2>2. chain' \in [Chains -> Waits]
    BY <1>1 DEF Open
  <2>3. \A c \in Chains : chain'[c].at # "connect"
    BY <2>1
  <2>4. Kinds'
    BY <2>1
  <2> QED
    BY <1>1, <2>2, <2>3, <2>4 DEF Open, file
<1>2. CASE ConnectFails
  <2>1. \A c \in Chains : chain'[c] = IF chain[c].at = "connect" THEN Ended ELSE chain[c]
    BY <1>2 DEF ConnectFails
  <2>2. chain' \in [Chains -> Waits]
    BY <1>2, EndedTypes DEF ConnectFails
  <2>3. \A c \in Chains : chain'[c].at # "connect"
    BY <2>1 DEF Ended
  <2>4. Kinds'
    BY <2>1 DEF Ended
  <2> QED
    BY <1>2, <2>2, <2>3, <2>4 DEF ConnectFails, file
<1>3. CASE Closing
  BY <1>3 DEF Closing, file
<1>4. CASE Closed
  <2>1. \A c \in Chains : chain'[c] = IF chain[c].at \in {"power", "frame"}
                                      THEN Ended ELSE chain[c]
    BY <1>4 DEF Closed
  <2>2. chain' \in [Chains -> Waits]
    BY <1>4, EndedTypes DEF Closed
  <2>3. \A c \in Chains : chain'[c].at # "connect"
    BY <1>4, <2>1 DEF Closed, Ended
  <2>4. Kinds'
    BY <2>1 DEF Ended
  <2> QED
    BY <1>4, <2>2, <2>3, <2>4 DEF Closed, file
<1> QED
  BY <1>1, <1>2, <1>3, <1>4

LEMMA ChainTypes ==
  ASSUME TypeInv, NEW c \in Chains, stepSchedule(c) \/ Powered(c) \/ onMessage(c)
  PROVE  TypeInv'
<1>1. /\ UNCHANGED <<running, file>> /\ UNCHANGED script /\ running' \in BOOLEAN
      /\ position \in Nat \ {0} /\ chain[c].at # "connect" /\ chain[c] \in Waits
  BY DEF stepSchedule, Powered, onMessage, file, TypeInv, TypeOK, Waits
<1>2. /\ position' \in Nat \ {0}
      /\ socket' \in {"none", "connecting", "open", "closing"}
      /\ chain' \in [Chains -> Waits]
      /\ socket' = "connecting" <=> \E d \in Chains : chain'[d].at = "connect"
      /\ Kinds'
  <2>1. CASE stepSchedule(c) /\ running
    BY <1>1, <2>1, SequenceTypes DEF stepSchedule
  <2>2. CASE stepSchedule(c) /\ ~running
    <3>1. chain'[c] = Ended /\ \A d \in Chains \ {c} : chain'[d] = chain[d]
      BY <2>2 DEF stepSchedule, Reject, TypeInv, TypeOK
    <3>2. chain' \in [Chains -> Waits]
      BY <2>2, EndedTypes DEF stepSchedule, Reject, TypeInv, TypeOK, Waits
    <3>3. position' \in Nat \ {0} /\ socket' = socket
      BY <1>1, <2>2 DEF stepSchedule, Reject
    <3> QED
      BY <1>1, <2>2, <3>1, <3>2, <3>3, EndedTypes DEF stepSchedule, TypeInv, TypeOK, Kinds
  <2>3. CASE Powered(c)
    <3>1. chain[c].kind \in {"poll", "once"} /\ chain[c].seq \in Nat \ {0}
      BY <1>1, <2>3 DEF Powered, TypeInv, Kinds, Waits
    <3> QED
      BY <1>1, <2>3, <3>1, SequenceTypes DEF Powered
  <2>4. CASE onMessage(c)
    BY <1>1, <2>4, AnsweredTypes
  <2> QED
    BY <2>1, <2>2, <2>3, <2>4
<1> QED
  BY <1>1, <1>2 DEF TypeInv, TypeOK, Waits, file

LEMMA NextTypes == ASSUME TypeInv, [Next]_vars PROVE TypeInv'
<1>1. CASE FileRead
  BY <1>1 DEF TypeInv, TypeOK, Kinds, FileRead
<1>2. CASE UNCHANGED vars
  BY <1>2 DEF TypeInv, TypeOK, Kinds, vars, file
<1> QED
  BY <1>1, <1>2, UserTypes, SocketTypes, ChainTypes DEF Next

LEMMA InitTypes == Init => TypeInv
<1> SUFFICES ASSUME Init PROVE TypeInv
  OBVIOUS
<1>1. chain \in [Chains -> Waits] /\ \A c \in Chains : chain[c] = Ended
  BY EndedTypes DEF Init
<1> QED
  BY <1>1, EndedTypes DEF Init, TypeInv, TypeOK, Kinds, Waits

\* The state keeps its types, and a socket connects exactly as long as a chain
\* waits for it (LinCommander.vue:64-165, ethernetTransport.js:160-200).
THEOREM TypeCorrect == Spec => []TypeOK
<1>1. TypeInv /\ [Next]_vars => TypeInv'
  BY NextTypes
<1>2. TypeInv => TypeOK
  BY DEF TypeInv
<1> QED
  BY InitTypes, <1>1, <1>2, PTL DEF Spec
-----------------------------------------------------------------------------
(* The schedule *)

\* A chain works on the script that is loaded: nobody reads a new one while chains
\* are alive, the frame it waits for is in the script, and the schedule stands at
\* one of its entries.
InPlay ==
    /\ fileLoaded => script \in Scripts /\ ~reading
    /\ \A c \in Chains : Alive(c) =>
          /\ fileLoaded
          /\ chain[c].seq \in 1..Len(script)
          /\ chain[c].at = "timer" => chain[c].kind = "poll"
          /\ chain[c].at = "frame" => /\ chain[c].frames = script[chain[c].seq]
                                     /\ chain[c].frame <= chain[c].frames
          /\ Polls(c) => position <= Len(script)

Inv == TypeInv /\ InPlay /\ RunningHasPoller

LEMMA AliveAt == ASSUME Kinds, NEW c \in Chains PROVE Alive(c) <=> chain[c].at # "ended"
BY EndedTypes DEF Kinds, Alive

\* The end of an entry leaves the schedule in its script, and goes on polling.
LEMMA DonePlays ==
  ASSUME TypeInv, InPlay, fileLoaded, UNCHANGED file,
         NEW c \in Chains, NEW kind \in {"poll", "once"},
         NEW p \in Nat \ {0}, kind = "once" => p = position,
         EntryDone(c, kind, p)
  PROVE  InPlay' /\ (kind = "poll" /\ running' => Polls(c)')
<1>1. UNCHANGED <<script, fileLoaded, reading>> /\ script \in Scripts
  BY DEF file, InPlay
<1>2. Len(script) \in Nat /\ Len(script) > 0
  BY <1>1, ScriptTypes
<1>3. /\ chain'[c] = IF kind = "poll" /\ running' THEN Sleeping ELSE Ended
      /\ \A d \in Chains \ {c} : chain'[d] = chain[d]
  BY DEF EntryDone, Sleeping, TypeInv, TypeOK
<1>4. \/ kind = "once" /\ position' = position
      \/ position' <= Len(script)
  BY <1>2 DEF EntryDone
<1>5. kind = "poll" /\ running' => Polls(c)'
  BY <1>3, EndedTypes DEF Polls, Alive
<1>6. kind = "once" => ~Alive(c)'
  BY <1>3 DEF Alive
<1> QED
  BY <1>1, <1>2, <1>3, <1>4, <1>5, <1>6, EndedTypes DEF InPlay, Alive, Polls

LEMMA SequencePlays ==
  ASSUME TypeInv, InPlay, fileLoaded, UNCHANGED file,
         NEW c \in Chains, NEW kind \in {"poll", "once"},
         NEW s \in 1..Len(script), NEW f \in Nat \ {0}, f <= script[s],
         NEW p \in Nat \ {0}, kind = "once" => p = position,
         kind = "poll" => p <= Len(script),
         handleSequence(c, kind, s, f, p)
  PROVE  InPlay' /\ (kind = "poll" /\ running' => Polls(c)')
<1>1. UNCHANGED <<script, fileLoaded, reading>> /\ script \in Scripts
  BY DEF file, InPlay
<1>2. Len(script) \in Nat /\ Len(script) > 0 /\ InScript(s, f)
  BY <1>1, ScriptTypes DEF InScript
<1>3. CASE socket = "none" /\ connectMaster(c, kind, s) /\ position' = p
  <2>1. /\ chain'[c] = [kind |-> kind, at |-> "connect", seq |-> s, frame |-> 1,
                         frames |-> 1]
        /\ \A d \in Chains \ {c} : chain'[d] = chain[d]
    BY <1>3 DEF connectMaster, TypeInv, TypeOK
  <2>2. Alive(c)' /\ chain'[c].kind = kind /\ chain'[c].at = "connect" /\ chain'[c].seq = s
    BY <2>1, EndedTypes DEF Alive
  <2> QED
    BY <1>1, <1>2, <1>3, <2>1, <2>2 DEF InPlay, Alive, Polls
<1>4. CASE socket = "open" /\ sendMessage(c, kind, s, f) /\ position' = p
  <2>1. /\ chain'[c] = [kind |-> kind, at |-> "frame", seq |-> s, frame |-> f,
                         frames |-> script[s]]
        /\ \A d \in Chains \ {c} : chain'[d] = chain[d]
    BY <1>4 DEF sendMessage, TypeInv, TypeOK
  <2>2. /\ Alive(c)' /\ chain'[c].kind = kind /\ chain'[c].seq = s
        /\ chain'[c].frame = f /\ chain'[c].frames = script[s]
    BY <2>1, EndedTypes DEF Alive
  <2> QED
    BY <1>1, <1>2, <1>4, <2>1, <2>2 DEF InPlay, Alive, Polls
<1>5. CASE EntryDone(c, kind, p)
  BY <1>5, DonePlays
<1> QED
  BY <1>2, <1>3, <1>4, <1>5 DEF handleSequence

\* A poller that stays keeps the schedule alive.
LEMMA OtherPoller ==
  ASSUME RunningHasPoller, running' = running,
         NEW c \in Chains, ~Polls(c) \/ (running' => Polls(c)'),
         \A d \in Chains \ {c} : chain'[d] = chain[d]
  PROVE  RunningHasPoller'
BY DEF RunningHasPoller, Polls, Alive

\* A step of one chain touches no other one.
LEMMA OneChain ==
  ASSUME NEW c, NEW kind, NEW s, NEW f, NEW p, TypeInv,
         handleSequence(c, kind, s, f, p) \/ EntryDone(c, kind, p)
  PROVE  \A d \in Chains \ {c} : chain'[d] = chain[d]
BY DEF handleSequence, Reject, connectMaster, sendMessage, EntryDone, TypeInv, TypeOK

LEMMA UserInv == ASSUME ~MayReload, Inv, User, TypeInv' PROVE Inv'
<1>1. CASE onLoadFile
  <2>1. \A c \in Chains : ~Alive(c) /\ ~Alive(c)'
    BY <1>1 DEF onLoadFile, Alive
  <2>2. ~running'
    BY <1>1, <2>1 DEF onLoadFile, Inv, RunningHasPoller, Polls
  <2> QED
    BY <1>1, <2>1, <2>2 DEF Inv, InPlay, RunningHasPoller, onLoadFile
<1>2. CASE startSchedule
  <2>1. PICK c \in Chains : ~Alive(c) /\ handleSequence(c, "poll", 1, 1, 1)
    BY <1>2 DEF startSchedule
  <2>2. fileLoaded /\ UNCHANGED file /\ running' /\ script \in Scripts
    BY <1>2 DEF startSchedule, Inv, InPlay
  <2>3. 1 \in 1..Len(script) /\ 1 <= script[1] /\ 1 <= Len(script)
    BY <2>2, ScriptTypes
  <2>4. InPlay' /\ Polls(c)'
    <3>1. /\ "poll" \in {"poll", "once"} /\ 1 \in Nat \ {0}
          /\ ("poll" = "once" => 1 = position) /\ ("poll" = "poll" => 1 <= Len(script))
      BY <2>3
    <3> QED
      BY <2>1, <2>2, <2>3, <3>1, SequencePlays DEF Inv
  <2> QED
    BY <2>4 DEF Inv, RunningHasPoller
<1>3. CASE stopSchedule
  BY <1>3 DEF stopSchedule, file, Inv, InPlay, RunningHasPoller, Alive, Polls
<1>4. CASE ExecuteSequence
  <2>1. PICK c \in Chains, s \in 1..Len(script) :
             ~Alive(c) /\ handleSequence(c, "once", s, 1, position)
    BY <1>4 DEF ExecuteSequence
  <2>2. fileLoaded /\ UNCHANGED file /\ running' = running
    BY <1>4 DEF ExecuteSequence
  <2>3. script[s] \in Nat \ {0} /\ position \in Nat \ {0}
    BY ScriptTypes DEF Inv, TypeInv, TypeOK
  <2>4. InPlay'
    <3>1. /\ "once" \in {"poll", "once"} /\ 1 \in Nat \ {0} /\ 1 <= script[s]
          /\ ("once" = "poll" => position <= Len(script))
      BY <2>3
    <3> QED
      BY <2>1, <2>2, <2>3, <3>1, SequencePlays DEF Inv
  <2>5. RunningHasPoller'
    BY <2>1, <2>2, OneChain, OtherPoller DEF Inv, Polls
  <2> QED
    BY <2>4, <2>5 DEF Inv
<1> QED
  BY <1>1, <1>2, <1>3, <1>4 DEF User

LEMMA SocketInv ==
  ASSUME Inv, Open \/ ConnectFails \/ Closing \/ Closed, TypeInv' PROVE Inv'
<1>1. CASE Open
  <2>1. \A c \in Chains : chain'[c] = IF chain[c].at = "connect"
                                      THEN [chain[c] EXCEPT !.at = "power"] ELSE chain[c]
    BY <1>1 DEF Open, Inv, TypeInv, TypeOK
  <2>2. \A c \in Chains : /\ chain'[c].kind = chain[c].kind /\ chain'[c].seq = chain[c].seq
                          /\ Alive(c)' = Alive(c)
                          /\ chain'[c].at = "frame" => chain'[c] = chain[c]
    BY <2>1, AliveAt, EndedTypes DEF Inv, TypeInv, TypeOK, Alive
  <2> QED
    BY <1>1, <2>2 DEF Open, file, Inv, InPlay, RunningHasPoller, Polls
<1>2. CASE ConnectFails
  <2>1. \A c \in Chains : chain'[c] = IF chain[c].at = "connect" THEN Ended ELSE chain[c]
    BY <1>2 DEF ConnectFails, Inv, TypeInv, TypeOK
  <2> QED
    BY <1>2, <2>1 DEF ConnectFails, file, Inv, InPlay, RunningHasPoller, Alive, Polls
<1>3. CASE Closing
  BY <1>3 DEF Closing, file, Inv, InPlay, RunningHasPoller, Alive, Polls
<1>4. CASE Closed
  <2>1. \A c \in Chains : chain'[c] = IF chain[c].at \in {"power", "frame"}
                                      THEN Ended ELSE chain[c]
    BY <1>4 DEF Closed, Inv, TypeInv, TypeOK
  <2> QED
    BY <1>4, <2>1 DEF Closed, file, Inv, InPlay, RunningHasPoller, Alive, Polls
<1> QED
  BY <1>1, <1>2, <1>3, <1>4

LEMMA ChainInv ==
  ASSUME Inv, NEW c \in Chains, stepSchedule(c) \/ Powered(c) \/ onMessage(c), TypeInv'
  PROVE  Inv'
<1> DEFINE r == chain[c]
<1>1. /\ UNCHANGED <<running, file>> /\ running' = running
      /\ r.at \in {"timer", "power", "frame"} /\ r \in Waits
      /\ r.kind \in {"poll", "once"} /\ Alive(c)
  BY AliveAt DEF stepSchedule, Powered, onMessage, Inv, TypeInv, TypeOK, Waits, Kinds
<1>2. /\ fileLoaded /\ script \in Scripts /\ r.seq \in 1..Len(script)
      /\ position \in Nat \ {0} /\ (r.kind = "poll" => position <= Len(script))
      /\ r.frame \in Nat \ {0} /\ r.frames \in Nat \ {0}
  BY <1>1 DEF Inv, InPlay, TypeInv, TypeOK, Waits, Polls
<1>3. /\ Len(script) \in Nat /\ \A s \in 1..Len(script) : script[s] \in Nat \ {0}
      /\ \A s \in 1..Len(script) : 1 <= script[s]
  BY <1>2, ScriptTypes
<1>4. CASE stepSchedule(c) /\ running
  <2>1. r.kind = "poll"
    BY <1>1, <1>4 DEF stepSchedule, Inv, InPlay
  <2>2. InPlay' /\ (running' => Polls(c)')
    BY <1>1, <1>2, <1>3, <1>4, <2>1, SequencePlays DEF Inv, stepSchedule
  <2> QED
    BY <1>1, <1>4, <2>2 DEF Inv, RunningHasPoller
<1>5. CASE stepSchedule(c) /\ ~running
  <2>1. /\ chain'[c] = Ended /\ \A d \in Chains \ {c} : chain'[d] = chain[d]
        /\ UNCHANGED <<position, file>>
    BY <1>5 DEF stepSchedule, Reject, Inv, TypeInv, TypeOK
  <2> QED
    BY <1>1, <1>5, <2>1 DEF Inv, InPlay, RunningHasPoller, Alive, Polls, file
<1>6. CASE Powered(c)
  <2>1. InPlay' /\ (r.kind = "poll" /\ running' => Polls(c)')
    BY <1>1, <1>2, <1>3, <1>6, SequencePlays DEF Inv, Powered
  <2>2. ~Polls(c) \/ (running' => Polls(c)')
    BY <2>1 DEF Polls
  <2> QED
    BY <1>1, <1>6, <2>1, <2>2, OneChain, OtherPoller DEF Inv, Powered
<1>7. CASE onMessage(c)
  <2>1. r.frames = script[r.seq] /\ r.frame <= r.frames
    BY <1>1, <1>7 DEF onMessage, Inv, InPlay
  <2>2. CASE r.frame < r.frames /\ handleSequence(c, r.kind, r.seq, r.frame + 1, position)
    <3>1. r.frame + 1 \in Nat \ {0} /\ r.frame + 1 <= script[r.seq]
      BY <1>2, <2>1, <2>2
    <3>2. InPlay' /\ (r.kind = "poll" /\ running' => Polls(c)')
      BY <1>1, <1>2, <1>3, <2>2, <3>1, SequencePlays DEF Inv
    <3>3. ~Polls(c) \/ (running' => Polls(c)')
      BY <3>2 DEF Polls
    <3> QED
      BY <1>1, <2>2, <3>2, <3>3, OneChain, OtherPoller DEF Inv
  <2>3. CASE EntryDone(c, r.kind, position)
    <3>1. InPlay' /\ (r.kind = "poll" /\ running' => Polls(c)')
      BY <1>1, <1>2, <2>3, DonePlays DEF Inv
    <3>2. ~Polls(c) \/ (running' => Polls(c)')
      BY <3>1 DEF Polls
    <3> QED
      BY <1>1, <2>3, <3>1, <3>2, OneChain, OtherPoller DEF Inv
  <2> QED
    BY <1>7, <2>2, <2>3 DEF onMessage, nextFrame
<1> QED
  BY <1>4, <1>5, <1>6, <1>7

LEMMA NextInv == ASSUME ~MayReload, Inv, [Next]_vars PROVE Inv'
<1>1. TypeInv'
  BY NextTypes DEF Inv
<1>2. CASE FileRead
  <2>1. ~fileLoaded /\ \A c \in Chains : ~Alive(c) /\ ~Alive(c)'
    BY <1>2 DEF FileRead, Inv, InPlay, Alive
  <2>2. fileLoaded' => script' \in Scripts /\ ~reading'
    BY <1>2, <2>1 DEF FileRead
  <2> QED
    BY <1>1, <1>2, <2>1, <2>2 DEF FileRead, Inv, InPlay, RunningHasPoller, Polls
<1>3. CASE UNCHANGED vars
  BY <1>1, <1>3 DEF vars, file, Inv, InPlay, RunningHasPoller, Alive, Polls
<1> QED
  BY <1>1, <1>2, <1>3, UserInv, SocketInv, ChainInv DEF Next

\* As long as no file is loaded over chains that are alive, a schedule shown as
\* running is polled, whatever connections fail and however often it is stopped and
\* started (LinCommander.vue:49-62, 136-165).
THEOREM RunningIsPolled ==
  ASSUME ~MayReload
  PROVE  Spec => []RunningHasPoller
<1>1. Init => Inv
  BY InitTypes DEF Init, Inv, InPlay, RunningHasPoller, Alive
<1>2. Inv /\ [Next]_vars => Inv'
  BY NextInv
<1>3. Inv => RunningHasPoller
  BY DEF Inv
<1> QED
  BY <1>1, <1>2, <1>3, PTL DEF Spec
=============================================================================
