----------------------------- MODULE LinCommander -----------------------------
(* The page that polls LIN slaves (frontend/src/views/lin/LinCommander.vue) over
   the websocket transport (frontend/src/js/ethernetTransport.js, ethMcm.js).
   JavaScript runs one task at a time: an action is one event with everything
   that follows from it until the engine waits again.  A chain is one call of
   handleSequence and the promises it waits for, started by the schedule
   ("poll") or by a click on a row ("once").  The id of a request is abstracted
   to the chain that waits for its answer; a chain has one request at a time.  *)
EXTENDS Integers, Sequences

CONSTANTS Chains,   \* bound: chains alive at once
          Scripts,  \* files to load, a sequence of numbers of frames each
          MayReload \* whether the user loads a file while chains are alive

ASSUME ScriptsAssumption == Scripts \subseteq Seq(Nat \ {0}) /\ <<>> \notin Scripts
ASSUME ReloadAssumption == MayReload \in BOOLEAN

VARIABLES running,    \* scheduleRunning
          position,   \* schedulePosition, counted from one
          script,     \* linScript: the number of frames of each entry
          fileLoaded, \* fileLoaded: the schedule and its buttons are shown
          reading,    \* a FileReader is at work
          socket,     \* of master; "none" when master is null
          chain       \* what each chain waits for, and in which frame of which entry

file == <<script, fileLoaded, reading>>
vars == <<running, position, file, socket, chain>>

Ended == [kind |-> "none", at |-> "ended", seq |-> 1, frame |-> 1, frames |-> 1]

Alive(c) == chain[c] # Ended

Polls(c) == Alive(c) /\ chain[c].kind = "poll"

Entries == UNION {DOMAIN t : t \in Scripts}

TypeOK ==
    /\ running \in BOOLEAN
    /\ position \in Nat \ {0}
    /\ script \in Scripts \cup {<<>>}
    /\ fileLoaded \in BOOLEAN
    /\ reading \in BOOLEAN
    /\ socket \in {"none", "connecting", "open", "closing"}
    /\ chain \in [Chains -> [kind : {"none", "poll", "once"},
                             at : {"ended", "connect", "power", "frame", "timer"},
                             seq : Nat \ {0}, frame : Nat \ {0}, frames : Nat \ {0}]]
    /\ socket = "connecting" <=> \E c \in Chains : chain[c].at = "connect"

Init ==
    /\ running = FALSE
    /\ position = 1
    /\ script = <<>>
    /\ fileLoaded = FALSE
    /\ reading = FALSE
    /\ socket = "none"
    /\ chain = [c \in Chains |-> Ended]
-----------------------------------------------------------------------------
(* handleSequence *)

\* An exception inside the promise ends the chain, and nothing else.
Reject(c) ==
    /\ chain' = [chain EXCEPT ![c] = Ended]
    /\ UNCHANGED socket

InScript(s, f) == s <= Len(script) /\ f <= script[s]

connectMaster(c, kind, s) ==
    /\ socket' = "connecting"
    /\ chain' = [chain EXCEPT ![c] = [kind |-> kind, at |-> "connect",
                                      seq |-> s, frame |-> 1, frames |-> 1]]

\* The number of frames is that of the script the frame was taken from.
sendMessage(c, kind, s, f) ==
    /\ chain' = [chain EXCEPT ![c] = [kind |-> kind, at |-> "frame",
                                      seq |-> s, frame |-> f, frames |-> script[s]]]
    /\ UNCHANGED socket

\* Mutant of EntryDone: the position does not wrap around.
DoneRunsOff(c, kind, p) ==
    /\ position' = IF kind = "poll" /\ p \in Entries THEN p + 1 ELSE p
    /\ chain' = [chain EXCEPT ![c] =
                    IF kind = "poll" /\ running'
                    THEN [Ended EXCEPT !.kind = "poll", !.at = "timer"] ELSE Ended]
    /\ UNCHANGED socket

\* The end of an entry.  p is the schedule's position before it; a schedule that
\* still runs goes on to the next one after its delay.
EntryDone(c, kind, p) ==
    /\ position' = IF kind # "poll" THEN p
                   ELSE IF p >= Len(script) THEN 1 ELSE p + 1
    /\ chain' = [chain EXCEPT ![c] =
                    IF kind = "poll" /\ running'
                    THEN [Ended EXCEPT !.kind = "poll", !.at = "timer"] ELSE Ended]
    /\ UNCHANGED socket

\* While the socket connects or closes, every frame of the entry is refused on
\* the spot, and the sequence ends.
handleSequence(c, kind, s, f, p) ==
    \/ socket = "none" /\ connectMaster(c, kind, s) /\ position' = p
    \/ socket # "none" /\ ~InScript(s, f) /\ Reject(c) /\ position' = p
    \/ socket = "open" /\ InScript(s, f) /\ sendMessage(c, kind, s, f) /\ position' = p
    \/ socket \in {"connecting", "closing"} /\ InScript(s, f) /\ EntryDone(c, kind, p)
-----------------------------------------------------------------------------
(* The user *)

\* Without a file the reader only reports an error.
onLoadFile ==
    /\ ~reading
    /\ MayReload \/ \A c \in Chains : ~Alive(c)
    /\ fileLoaded' = FALSE
    /\ script' = <<>>
    /\ reading' \in BOOLEAN
    /\ UNCHANGED <<running, position, socket, chain>>

startSchedule ==
    /\ fileLoaded /\ ~running
    /\ running' = TRUE
    /\ \E c \in Chains : ~Alive(c) /\ handleSequence(c, "poll", 1, 1, 1)
    /\ UNCHANGED file

\* The buttons are hidden while no file is loaded.
stopSchedule ==
    /\ fileLoaded /\ running
    /\ running' = FALSE
    /\ UNCHANGED <<position, file, socket, chain>>

\* A click on a row of the table.
ExecuteSequence ==
    /\ fileLoaded
    /\ UNCHANGED <<running, file>>
    /\ \E c \in Chains, s \in 1..Len(script) :
          ~Alive(c) /\ handleSequence(c, "once", s, 1, position)
-----------------------------------------------------------------------------
(* Timers, files and the websocket *)

FileRead ==
    /\ reading
    /\ reading' = FALSE
    /\ \/ script' \in Scripts /\ fileLoaded' = TRUE
       \/ UNCHANGED <<script, fileLoaded>>
    /\ UNCHANGED <<running, position, socket, chain>>

stepSchedule(c) ==
    /\ chain[c].at = "timer"
    /\ UNCHANGED <<running, file>>
    /\ IF running THEN handleSequence(c, "poll", position, 1, position)
                  ELSE Reject(c) /\ UNCHANGED position

\* The chain that connected asks for the slave power first.
Open ==
    /\ socket = "connecting"
    /\ socket' = "open"
    /\ chain' = [c \in Chains |-> IF chain[c].at = "connect"
                                  THEN [chain[c] EXCEPT !.at = "power"] ELSE chain[c]]
    /\ UNCHANGED <<running, position, file>>

\* Mutant of ConnectFails: nobody stops the schedule.
FailsRunning ==
    /\ socket = "connecting"
    /\ socket' = "none"
    /\ chain' = [c \in Chains |-> IF chain[c].at = "connect" THEN Ended ELSE chain[c]]
    /\ UNCHANGED <<running, position, file>>

\* The events "error" and "close" of a connection that never opened.
ConnectFails ==
    /\ socket = "connecting"
    /\ socket' = "none"
    /\ running' = FALSE
    /\ chain' = [c \in Chains |-> IF chain[c].at = "connect" THEN Ended ELSE chain[c]]
    /\ UNCHANGED <<position, file>>

Closing ==
    /\ socket = "open"
    /\ socket' = "closing"
    /\ UNCHANGED <<running, position, file, chain>>

\* Nobody settles the promises of the requests under way: their chains are
\* never continued.
Closed ==
    /\ socket \in {"open", "closing"}
    /\ socket' = "none"
    /\ running' = FALSE
    /\ chain' = [c \in Chains |-> IF chain[c].at \in {"power", "frame"}
                                  THEN Ended ELSE chain[c]]
    /\ UNCHANGED <<position, file>>

\* The firmware acknowledges every power_out request it receives.
Powered(c) ==
    /\ socket = "open" /\ chain[c].at = "power"
    /\ UNCHANGED <<running, file>>
    /\ handleSequence(c, chain[c].kind, chain[c].seq, 1, position)

\* Mutant of nextFrame: the first frame again.
NextIsFirst(c, r) ==
    \/ r.frame < r.frames /\ handleSequence(c, r.kind, r.seq, r.frame, position)
    \/ r.frame = r.frames /\ EntryDone(c, r.kind, position)

nextFrame(c, r) ==
    \/ r.frame < r.frames /\ handleSequence(c, r.kind, r.seq, r.frame + 1, position)
    \/ r.frame = r.frames /\ EntryDone(c, r.kind, position)

\* An answer, be it an acknowledgement or an error, leads to the next frame.
onMessage(c) ==
    /\ socket = "open" /\ chain[c].at = "frame"
    /\ UNCHANGED <<running, file>>
    /\ nextFrame(c, chain[c])
-----------------------------------------------------------------------------
User == onLoadFile \/ startSchedule \/ stopSchedule \/ ExecuteSequence

Next ==
    \/ User
    \/ FileRead
    \/ Open \/ ConnectFails \/ Closing \/ Closed
    \/ \E c \in Chains : stepSchedule(c) \/ Powered(c) \/ onMessage(c)

\* Timers fire, connections open or fail, and requests on an open socket are
\* answered: the httpd task answers every command.
Spec ==
    /\ Init /\ [][Next]_vars
    /\ WF_vars(Open \/ ConnectFails) /\ WF_vars(socket = "closing" /\ Closed)
    /\ \A c \in Chains : WF_vars(stepSchedule(c)) /\ WF_vars(Powered(c) \/ onMessage(c))
-----------------------------------------------------------------------------
(* Properties *)

\* As long as the page shows a running schedule a chain polls, whatever
\* connections failed and however often it was stopped and started
\* (LinCommander.vue:49-62, 136-165).
RunningHasPoller == running => \E c \in Chains : Polls(c)

\* One poller alone, not disturbed by clicks on rows or by a row's connection
\* attempt, keeps sending every entry (LinCommander.vue:142-161).
EveryEntryPolled ==
    \A s \in Entries :
        <>[](/\ running /\ s <= Len(script)
             /\ \A c, d \in Chains : Polls(c) /\ Polls(d) => c = d)
        => []<>(\E c \in Chains : /\ Polls(c) /\ chain[c].at = "frame"
                                  /\ chain[c].seq = s)

\* A sequence started by hand ends or loses its connection
\* (LinCommander.vue:64-134, ethernetTransport.js:160-200).
SequenceEnds ==
    \A c \in Chains : chain[c].kind = "once" ~> chain[c].kind # "once"
=============================================================================
