------------------------------- MODULE Settings -------------------------------
(* What the configuration promises clients that do not set at the same time: one
   value per field.  A request asks for values; each of them is stored whole and
   at one moment, at most once, or is refused; a restart drops what was not stored
   yet (usb_vendor_config.c:86-107, urihandlers_rest.c:132-147).  Nothing else
   changes a value.                                                            *)
CONSTANTS Client,  \* who sets values
          Field,   \* what can be set
          Value,   \* what a field can hold
          Nothing, \* the request has no value for a field, or no more
          Initial  \* the values of a new device

VARIABLES value, \* value[f]: what is stored
          asked  \* asked[c][f]: what client c still has to store

vars == <<value, asked>>

NoRequest == [f \in Field |-> Nothing]

Init ==
    /\ value = Initial
    /\ asked = [c \in Client |-> NoRequest]

Ask(c) ==
    /\ asked[c] = NoRequest
    /\ UNCHANGED value
    /\ asked' = [asked EXCEPT ![c] = asked'[c]]
    /\ asked'[c] \in [Field -> Value \cup {Nothing}]

Settle(c, f) ==
    /\ asked[c][f] # Nothing
    /\ asked' = [asked EXCEPT ![c][f] = Nothing]

Store(c, f) ==
    /\ Settle(c, f)
    /\ value' = [value EXCEPT ![f] = asked[c][f]]

Refuse(c, f) ==
    /\ Settle(c, f)
    /\ UNCHANGED value

Restart ==
    /\ asked' = [c \in Client |-> NoRequest]
    /\ UNCHANGED value

Next ==
    \/ Restart
    \/ \E c \in Client : Ask(c) \/ \E f \in Field : Store(c, f) \/ Refuse(c, f)

Spec == Init /\ [][Next]_vars
=============================================================================
