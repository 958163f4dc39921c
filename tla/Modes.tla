-------------------------------- MODULE Modes --------------------------------
(***************************************************************************)
(* The mode policy between its two callers: the event thread, which follows  *)
(* what is plugged, and a binder call, which does what a user or             *)
(* SurfaceFlinger asks.  setSourceDisplay and setSourceOutputMode hold       *)
(* mMutex; what the calls do before and after is not locked, and is a step   *)
(* of its own here.                                                          *)
(***************************************************************************)
EXTENDS ModePolicy

CONSTANTS Tvs,           \* the displays somebody may plug
          Libs,          \* the ways the library may decide
          Boots,         \* environments the box may start with
          BootModes,     \* modes the boot loader may have set
          Calls,         \* the calls of the binder thread
          Allowed,       \* sets of formats a user may allow
          MaxCalls, MaxPlugs   \* bounds: binder calls, changes of the plug

VARIABLES p,             \* the policy, see ModePolicy
          sink,          \* what is plugged
          pending,       \* an event waits for the event thread
          ev,            \* the event thread: "boot", "idle", or "apply" (mMutex)
          pc,            \* the binder call
          calls, plugs,
          fresh          \* nothing was called since the event thread decided

vars == <<p, sink, pending, ev, pc, calls, plugs, fresh>>

Modenames == DOMAIN Rank
Idle == [op |-> "none", mode |-> Dummy, step |-> 0, overtaken |-> FALSE]

-----------------------------------------------------------------------------
(* The world: a display is plugged or unplugged, or the box wakes up, which  *)
(* the event listener passes on as a hotplug.                                *)
Plug ==
    /\ plugs < MaxPlugs
    /\ \E tv \in Tvs \cup {NoTv} : sink' = tv
    /\ pending' = TRUE /\ plugs' = plugs + 1
    /\ UNCHANGED <<p, ev, pc, calls, fresh>>

(* The connector is read, then setSourceDisplay: with nothing plugged, or a  *)
(* display that cannot be read, all of it.                                   *)
EventDecide ==
    /\ ev \in {"boot", "idle"} /\ (ev = "boot" \/ pending)
    /\ \E ready \in BOOLEAN :
        LET q == [p EXCEPT !.tv = sink, !.drv.ready = ready]
            state == IF ev = "boot" THEN "INIT" ELSE "POWER"
        IN IF ~sink.on THEN ready /\ p' = Unplugged(q) /\ ev' = "idle"
           ELSE IF ~sink.ok
           THEN ready /\ p' = setDefaultMode(ReadDisplay(q, state)) /\ ev' = "idle"
           ELSE p' = Decide(q, state) /\ ev' = "apply"
    /\ pending' = FALSE /\ fresh' = TRUE
    /\ pc' = [pc EXCEPT !.overtaken = TRUE]
    /\ UNCHANGED <<sink, calls, plugs>>

EventApply ==
    /\ ev = "apply"
    /\ p' = Apply(p) /\ ev' = "idle"
    /\ UNCHANGED <<sink, pending, pc, calls, plugs, fresh>>

-----------------------------------------------------------------------------
Begin(op, mode, q, step) ==
    /\ pc.step = 0 /\ ev # "boot"
    /\ op \in Calls /\ calls < MaxCalls
    /\ p' = q
    /\ pc' = [op |-> op, mode |-> mode, step |-> step, overtaken |-> FALSE]
    /\ calls' = calls + 1 /\ fresh' = FALSE
    /\ UNCHANGED <<sink, pending, ev, plugs>>

(* A step of the call that is running; the policy's lock, if it takes it, is *)
(* the event thread's while that is between deciding and applying.           *)
Step(op, step, locked, q, next) ==
    /\ pc.op = op /\ pc.step = step
    /\ locked => ev # "apply"
    /\ p' = q
    /\ pc' = [pc EXCEPT !.step = next]
    /\ fresh' = FALSE
    /\ UNCHANGED <<sink, pending, ev, calls, plugs>>

(* Mutant: the library is left with its own policy.                           *)
KeepsPolicy(mode, frac) ==
    Begin("active", mode, [p EXCEPT !.reason = "HWC", !.frc = frac], 1)

(* setActiveConfig: told to keep to the mode, the mode, told the policy again.*)
SetActiveConfig(mode, frac) ==
    Begin("active", mode,
          [p EXCEPT !.reason = "HWC", !.frc = frac, !.vendor = "INVALID"], 1)

ActiveMode == Step("active", 1, TRUE, setSourceOutputMode(p, pc.mode, "SWITCH"), 2)

ActiveDone ==
    Step("active", 2, FALSE, [p EXCEPT !.vendor = p.policy, !.reason = "INIT"], 0)

SetBootConfig(mode, frac) == Begin("boot", mode, setBootConfig(p, mode, frac), 0)

ClearBootConfig == Begin("boot", Dummy, clearBootConfig(p), 0)

(* getPreferredBootConfig asks the library under another policy, into the    *)
(* output every decision uses.                                               *)
PreferredBoot ==
    Begin("preferred", Dummy,
          getPolicyOutput([p EXCEPT !.con.state = "INIT", !.vendor = "BEST"]), 1)

PreferredDone == Step("preferred", 1, FALSE, [p EXCEPT !.vendor = p.policy], 0)

SetColorSpace(color) == ev # "apply" /\ Begin("color", Dummy, setColorSpace(p, color), 0)

ClearUserConfig == ev # "apply" /\ Begin("color", Dummy, clearUserDisplayConfig(p), 0)

(* setDvMode: the wish unlocked, then the current mode again.                 *)
SetDvMode(type) ==
    Begin("dv", Dummy,
          [p EXCEPT !.con.dvType = type, !.dv = type # 0, !.env.dv = type # 0,
                    !.env.dvType = type], 1)

DvMode == Step("dv", 1, TRUE, setSourceOutputMode(p, "current", "AMDV"), 0)

(* setHdrConversionStrategy: what is allowed, then the policy from it.        *)
SetHdrStrategy(allowed, isAuto, match) ==
    Begin("hdr", Dummy,
          getPreferredHdrConversionType(setAllowedHdrTypes(p, allowed, isAuto, match)),
          IF match THEN 1 ELSE 2)

HdrPolicy(step) ==
    Step("hdr", step, TRUE, setHdrConversionPolicy(p, step = 1), 0)

(* setALLMMode(1): dolby vision off, with vrr the fastest mode of the group  *)
(* without it, and the low latency mode last.                                *)
AllmOn ==
    LET q == IF p.tv.dvModes # {} /\ p.dv
             THEN [disableDolbyVision(p) EXCEPT !.out.amdv = 0, !.drv.avmute = FALSE]
             ELSE p
        mode == p.drv.mode
        brr == mode \in p.con.modes /\ BrrMode(p, mode) # mode
        r == [q EXCEPT !.cur = mode, !.drv.vrr = FALSE, !.prev = mode, !.toBrr = brr]
    IN /\ p.tv.on /\ p.tv.allm /\ ~p.drv.allm
       /\ Begin("allm", IF brr THEN BrrMode(p, mode) ELSE "current",
                IF p.tv.vrr THEN r ELSE [q EXCEPT !.cur = mode],
                IF p.tv.vrr /\ (brr \/ mode \notin p.con.modes) THEN 1 ELSE 2)

AllmMode == Step("allm", 1, TRUE, setSourceOutputMode(p, pc.mode, "ALLM"), 2)

AllmSet == Step("allm", 2, FALSE, [p EXCEPT !.drv.allm = TRUE], 0)

(* setALLMMode(0): low latency off, dolby vision as the user had it if the   *)
(* colour still is right for it, vrr and the mode from before.               *)
AllmOff ==
    LET mode == p.drv.mode
        type == IF p.env.dvType = 2 /\ p.drv.color = "422" THEN 2
                ELSE IF p.env.dvType = 1 /\ p.drv.color = "444" THEN 1 ELSE 0
        q == IF p.tv.dvModes # {} /\ p.env.dv /\ mode \in p.con.dvModes
             THEN IF type = 0 THEN [p EXCEPT !.drv.avmute = FALSE]
                  ELSE [enableDolbyVision(p, type) EXCEPT !.out.amdv = type,
                                                          !.drv.avmute = FALSE]
             ELSE p
        r == [q EXCEPT !.cur = mode, !.drv.allm = FALSE]
        quick == mode \in p.con.modes /\ BrrMode(p, mode) = mode /\ ~p.toBrr
    IN /\ p.tv.on /\ p.tv.allm
       /\ Begin("noallm", IF p.toBrr THEN p.prev ELSE "current",
                IF p.tv.vrr THEN [r EXCEPT !.drv.vrr = TRUE] ELSE r,
                IF p.tv.vrr /\ ~quick THEN 1 ELSE 0)

AllmBack ==
    Step("noallm", 1, TRUE,
         [setSourceOutputMode(p, pc.mode, "ALLM") EXCEPT !.toBrr = FALSE], 0)

-----------------------------------------------------------------------------
Init ==
    \E env \in Boots, lib \in Libs, tv \in Tvs \cup {NoTv}, mode \in BootModes,
       dv \in BOOLEAN :
        /\ p = [tv |-> NoTv, env |-> env, lib |-> lib,
                drv |-> [mode |-> mode, color |-> "444", policy |-> "sink",
                         dvPolicy |-> "sink", priority |-> AllHdr, dv |-> dv,
                         ll |-> FALSE, frac |-> 1, avmute |-> FALSE, auth |-> FALSE,
                         allm |-> FALSE, vrr |-> TRUE, ready |-> TRUE],
                con |-> [state |-> "INIT", cur |-> "none", modes |-> {}, dvModes |-> {},
                         dv |-> FALSE, dvType |-> 0, color |-> "none",
                         envMode |-> "none", policy |-> "sink", priority |-> {}],
                out |-> [mode |-> "none", amdv |-> 0, color |-> "none"],
                dv |-> FALSE, policy |-> "BEST", vendor |-> "BEST", reason |-> "INIT",
                state |-> "INIT", conv |-> "follow", hdrPolicy |-> "source",
                hdrPriority |-> {}, cur |-> "none", prev |-> "none", toBrr |-> FALSE,
                inited |-> FALSE, frc |-> 2, changed |-> FALSE]
        /\ sink = tv
    /\ pending = FALSE /\ ev = "boot" /\ pc = Idle
    /\ calls = 0 /\ plugs = 0 /\ fresh = TRUE

SetActive == \E mode \in Modenames, frac \in {0, 1} : SetActiveConfig(mode, frac)
SetBoot == \E mode \in Modenames, frac \in {0, 1} : SetBootConfig(mode, frac)
SetColor == \E color \in {"444", "422"} : SetColorSpace(color)
SetDv == \E type \in 0 .. 2 : SetDvMode(type)
SetHdr == \E allowed \in Allowed, isAuto, match \in BOOLEAN :
              SetHdrStrategy(allowed, isAuto, match)
HdrApply == \E step \in {1, 2} : HdrPolicy(step)

Next == Plug \/ EventDecide \/ EventApply
        \/ SetActive \/ ActiveMode \/ ActiveDone \/ SetBoot \/ ClearBootConfig
        \/ PreferredBoot \/ PreferredDone \/ SetColor \/ ClearUserConfig
        \/ SetDv \/ DvMode \/ SetHdr \/ HdrApply
        \/ AllmOn \/ AllmMode \/ AllmSet \/ AllmOff \/ AllmBack

Spec == Init /\ [][Next]_vars

-----------------------------------------------------------------------------
(* Properties                                                                *)

Quiet == ev = "idle" /\ ~pending /\ pc.step = 0
Readable == p.tv.on /\ p.tv.ok

(* A display of which the framework has not chosen a mode yet may be left in *)
(* another one of the same group.                                            *)
LeftAlone(mode) ==
    p.tv.vrr /\ ~p.inited /\ p.drv.mode \in p.tv.modes /\ Group[mode] = Group[p.drv.mode]

TypeOK ==
    /\ p.tv \in Tvs \cup {NoTv} /\ sink \in Tvs \cup {NoTv}
    /\ p.drv.mode \in Modenames \cup {Dummy, DefaultMode}
    /\ p.policy \in {"BEST", "INVALID"} /\ p.vendor \in {"BEST", "INVALID"}
    /\ p.env.policy \in {"source", "sink"} /\ p.drv.dvPolicy \in {"source", "sink", "force"}
    /\ ev \in {"boot", "idle", "apply"} /\ pc.step \in 0 .. 2

(* However often the display was changed and modes were set for the moment   *)
(* only, one that is plugged gets the mode of the environment: the one to    *)
(* boot with if it has that, else its best one.                              *)
BootModeRestored ==
    ev = "idle" /\ fresh /\ Readable =>
        LET mode == IF ~isBestPolicy(p) /\ p.env.mode \in p.tv.modes
                    THEN p.env.mode ELSE BestOf(p.tv.modes)
        IN p.drv.mode = mode \/ LeftAlone(mode)

(* A mode SurfaceFlinger sets is set although the policy says another, unless *)
(* the event thread came between the call's steps.                           *)
ModeAsked ==
    pc.op = "active" /\ pc.step = 2 /\ ~pc.overtaken /\ pc.mode \in p.con.modes =>
        p.drv.mode = pc.mode \/ LeftAlone(pc.mode)

(* No order of plugs, wake-ups and calls leaves a display that can be read    *)
(* muted or in the dummy mode.                                               *)
Unmuted == Quiet /\ Readable => ~p.drv.avmute /\ p.drv.mode # Dummy

(* When all is done the library has the policy again the environment asks for.*)
PolicyFollowsEnv ==
    ev # "boot" /\ Quiet /\ Readable =>
        /\ p.vendor = p.policy /\ p.reason # "HWC"
        /\ p.policy = IF isBestPolicy(p) THEN "BEST" ELSE "INVALID"

(* And the driver converts as the environment says, with dolby vision or      *)
(* without, and the dolby vision it runs is the one decided.                  *)
DriverConverts ==
    Quiet /\ Readable =>
        /\ p.env.policy = IF p.dv THEN p.drv.dvPolicy ELSE p.drv.policy
        /\ p.env.priority = p.drv.priority
        /\ p.drv.dv => p.dv

(* What was decided is applied: nothing is left of a moment's mode.           *)
Applied == Unmuted /\ PolicyFollowsEnv /\ DriverConverts
=============================================================================
