------------------------------- MODULE MCVsync -------------------------------
(* Two layers, so that one tunnel layer can go while another stays.  Beside   *)
(* the clock, on its own, the thread that handles the events of the tunnels,  *)
(* of which there are three: the side that moves is chosen at the start.      *)
EXTENDS Vsync, TLC

CONSTANTS Tunnels, Errors

VARIABLES instances, consumers, mutex, sf, thread, mExit,
          side   \* "clock" or "tunnels"

T == INSTANCE VtEventThread

tunnels == <<instances, consumers, mutex, sf, thread, mExit>>
all == <<vars, tunnels, side>>

MCInit ==
    /\ Init /\ T!Init
    /\ \/ side = "clock"
       \/ side = "tunnels" /\ kind = "default" /\ scans

OfClock(step) == side = "clock" /\ step /\ UNCHANGED <<tunnels, side>>
OfTunnels(step) == side = "tunnels" /\ step /\ UNCHANGED <<vars, side>>

MCNext == OfClock(Next) \/ OfTunnels(T!Next)

(* Every thread that can run runs, in either module.                          *)
MCSpec ==
    /\ MCInit /\ [][MCNext]_all
    /\ WF_all(OfClock(Clock)) /\ WF_all(OfClock(Worker)) /\ WF_all(OfClock(Binder))
    /\ WF_all(OfTunnels(T!ThreadStep)) /\ WF_all(OfTunnels(T!ConnectStep))

(* The event thread neither keeps a layer that connects waiting for ever, nor  *)
(* outlives the last instance for long.                                       *)
ThreadStops == T!StartReturns /\ T!ThreadStops
=============================================================================
