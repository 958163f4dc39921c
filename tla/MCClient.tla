------------------------------ MODULE MCClient ------------------------------
(* The display service: two threads of its client process, one of which makes *)
(* every call.  Beside it, on its own, the composer service: two clients, two *)
(* layers of one buffer slot, two sequence numbers.  The side that moves is   *)
(* chosen at the start.                                                       *)
EXTENDS DisplayIpc, Client, TLC

VARIABLE side   \* "client" or "ipc"

Alike == Permutations(Handles)

MCInit ==
    /\ side \in {"client", "ipc"}
    /\ Init /\ ClientInit
    /\ side = "ipc" => primary = FALSE
ClientStep == side = "client" /\ ClientNext /\ UNCHANGED <<ipc, side>>
IpcStep == side = "ipc" /\ Next /\ UNCHANGED <<cvars, side>>
MCNext == ClientStep \/ IpcStep
MCSpec == MCInit /\ [][MCNext]_<<ipc, cvars, side>>
=============================================================================
