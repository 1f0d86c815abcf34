------------------------------- MODULE BusLock -------------------------------
(* What the bus manager promises its callers: one lock over the slave bus,
   held by a user in a mode.  A call is placed, answered in one atomic step,
   and a second claim of the same user in the same mode is answered OK
   without changing anything (bus_manager.c:49-51).                          *)
CONSTANTS Task,     \* the tasks that place calls
          Request   \* the (user, mode) pairs that can be claimed

NoOne == [user |-> "UNKNOWN", mode |-> "UNKNOWN"]
NoCall == [op |-> "none", req |-> NoOne]

VARIABLES owner,    \* the request that holds the bus, or NoOne
          call,     \* call[t]: the call task t waits for, or NoCall
          answer    \* answer[t]: whether the last call of t returned ESP_OK

vars == <<owner, call, answer>>

Init ==
    /\ owner = NoOne
    /\ call = [t \in Task |-> NoCall]
    /\ answer = [t \in Task |-> FALSE]

Place(t) ==
    /\ call[t] = NoCall
    /\ \E op \in {"claim", "release"}, r \in Request :
           call' = [call EXCEPT ![t] = [op |-> op, req |-> r]]
    /\ UNCHANGED <<owner, answer>>

Reply(t, ok) ==
    /\ call' = [call EXCEPT ![t] = NoCall]
    /\ answer' = [answer EXCEPT ![t] = ok]

\* A free bus may still be refused: the driver of the mode can fail to start.
Claim(t) ==
    /\ call[t].op = "claim"
    /\ \/ owner \in {NoOne, call[t].req} /\ owner' = call[t].req /\ Reply(t, TRUE)
       \/ owner # call[t].req /\ UNCHANGED owner /\ Reply(t, FALSE)

Release(t) ==
    /\ call[t].op = "release"
    /\ \/ owner = call[t].req /\ owner' = NoOne /\ Reply(t, TRUE)
       \/ owner # call[t].req /\ UNCHANGED owner /\ Reply(t, FALSE)

Next == \E t \in Task : Place(t) \/ Claim(t) \/ Release(t)

Spec == Init /\ [][Next]_vars
=============================================================================
