----------------------------- MODULE ImageSwitch -----------------------------
(* What an update over USB promises: the device has an image that has proved
   itself, and at most one candidate to replace it.  A candidate is tried once.  It
   becomes the proven image when it gets through app_main's initialisation
   (main.c:72, ota_support.c:34-52); until then every failure leads back, and the
   image must be selected again before it is tried again.                       *)
CONSTANTS Image,   \* the firmware images
          Good,    \* those that get through app_main's initialisation
          Factory, \* the image of a new device
          Nothing  \* no candidate

VARIABLES proven,    \* the image the device falls back on
          candidate, \* the image the next boot tries, or the one on trial
          trial      \* the device boots, or runs, the candidate

vars == <<proven, candidate, trial>>

Init ==
    /\ proven = Factory
    /\ candidate = Nothing
    /\ trial = FALSE

\* An update that is written over a candidate takes its place.
Select(i) ==
    /\ ~trial
    /\ candidate' = i
    /\ UNCHANGED <<proven, trial>>

\* An update that was begun over a candidate leaves none.
Withdraw ==
    /\ ~trial
    /\ candidate' = Nothing
    /\ UNCHANGED <<proven, trial>>

Try ==
    /\ ~trial /\ candidate # Nothing
    /\ trial' = TRUE
    /\ UNCHANGED <<proven, candidate>>

Confirm ==
    /\ trial /\ candidate \in Good
    /\ proven' = candidate
    /\ candidate' = Nothing
    /\ trial' = FALSE

GiveUp ==
    /\ trial
    /\ candidate' = Nothing
    /\ trial' = FALSE
    /\ UNCHANGED proven

Next == (\E i \in Image : Select(i)) \/ Withdraw \/ Try \/ Confirm \/ GiveUp

Spec == Init /\ [][Next]_vars
=============================================================================
