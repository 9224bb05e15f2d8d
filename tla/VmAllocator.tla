---------------------------- MODULE VmAllocator ----------------------------
(***************************************************************************)
(* What every VM pool of the repository promises its clients: a VM that is *)
(* handed out belongs to one client until that client gives it back.       *)
(* ConcurrentVmPool is shown to implement this.                            *)
(***************************************************************************)
CONSTANTS Clients, NoVM

VARIABLE holder    \* holder[c]: the VM client c holds, or NoVM

Held == {holder[c] : c \in Clients}

Init == holder = [c \in Clients |-> NoVM]

\* An acquire that succeeds hands out a VM nobody holds.
Acquire(c) ==
    /\ holder[c] = NoVM
    /\ holder'[c] # NoVM
    /\ holder'[c] \notin Held
    /\ holder' = [holder EXCEPT ![c] = holder'[c]]

Release(c) ==
    /\ holder[c] # NoVM
    /\ holder' = [holder EXCEPT ![c] = NoVM]

Next == \E c \in Clients : Acquire(c) \/ Release(c)

Spec == Init /\ [][Next]_holder
=============================================================================
