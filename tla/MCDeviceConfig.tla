---------------------------- MODULE MCDeviceConfig ----------------------------
(* The values of the clients in the runs of DeviceConfig. *)
EXTENDS DeviceConfig

CONSTANT x

NoName == <<>>

\* An SSID and a password that fill their fields, and names of one character.  The
\* only shorter SSID or password is the empty one a field begins with.
Lengths ==
    [f \in Field |-> CASE f = "ssid" -> {<<x, x>>}
                       [] f = "password" -> {<<x, x, x>>}
                       [] OTHER -> {<<x>>}]
=============================================================================
