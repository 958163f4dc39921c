------------------------------ MODULE ModePolicy ------------------------------
(***************************************************************************)
(* What ModePolicy makes of a request, for a box on hdmi: operators on one  *)
(* record p, its members:                                                   *)
(*                                                                         *)
(*   tv     the display at the other end, NoTv if unplugged                *)
(*   env    the boot environment (UBOOTENV_...)                             *)
(*   drv    what the driver was last told (sysfs and connector attributes)  *)
(*   lib    how the closed policy library decides, see VendorMode           *)
(*   con    mConData     dv    mDvInfo.dv_enable     out   mSceneOutInfo    *)
(*   policy, vendor      mPolicy and the library's copy of it               *)
(*   reason, state       mReason, mState                                    *)
(*   conv, hdrPolicy, hdrPriority   mHdrConversionType, mHdr_...            *)
(*   cur, prev, toBrr, inited   mCurrentMode, mAllmPrevMode,                *)
(*                       mModeChange2Brr, mInitialized                      *)
(*   frc    the fraction RealModeMgr asks for      changed  the result of   *)
(*                       applyDisplaySetting                                *)
(*                                                                         *)
(* A tv is [on, ok (the edid parses), modes, dvModes, hdr, allm, vrr]: the  *)
(* modes it has, those it takes dolby vision in, and the rest of its caps.  *)
(* A hdr priority is the set of the formats it allows.                      *)
(***************************************************************************)
EXTENDS Integers, FiniteSets

CONSTANTS Rank,          \* mode name -> how good the library thinks it is
          Group,         \* mode name -> its vrr group
          Rate,          \* mode name -> its refresh rate
          Caps           \* the formats the crtc converts to

NoTv == [on |-> FALSE, ok |-> FALSE, modes |-> {}, dvModes |-> {}, hdr |-> {},
         allm |-> FALSE, vrr |-> FALSE]

DefaultMode == "1080p60"
DefaultColor == "444"
Dummy == "dummy_l"
AllHdr == {"dv", "hdr10", "hlg"}

-----------------------------------------------------------------------------
(* The library, by what the source says of it: under any policy but BEST it  *)
(* keeps the mode asked for if the display has it, under BEST it takes the   *)
(* best one, at a switch perhaps not (lib.keeps).  Dolby vision as the user  *)
(* asked if the display takes it; what it answers for a display that does    *)
(* not is open (lib.plain).                                                  *)
BestOf(modes) == IF modes = {} THEN DefaultMode
                 ELSE CHOOSE x \in modes : \A y \in modes : Rank[y] <= Rank[x]

VendorMode(p) ==
    IF p.con.cur \in p.con.modes
       /\ (p.vendor = "INVALID" \/ (p.con.state = "SWITCH" /\ p.lib.keeps))
    THEN p.con.cur ELSE BestOf(p.con.modes)

VendorDv(p, mode) ==
    IF ~p.con.dv THEN 0
    ELSE IF mode \notin p.con.dvModes THEN p.lib.plain
    ELSE IF p.con.dvType = 2 THEN 2 ELSE 1

getPolicyOutput(p) ==
    LET mode == VendorMode(p)
        amdv == VendorDv(p, mode)
    IN [p EXCEPT !.out = [mode |-> mode, amdv |-> amdv,
            color |-> IF amdv = 1 THEN "444" ELSE IF amdv = 2 THEN "422"
                      ELSE IF p.con.color # "none" THEN p.con.color ELSE "422"]]

-----------------------------------------------------------------------------
isBestPolicy(p) == p.env.mode = "none" \/ p.env.best

(* Reads the user's choices from the environment, and the mode the driver    *)
(* has into mCurrentMode.                                                    *)
getConnectorUserData(p) ==
    [p EXCEPT !.cur = p.drv.mode, !.dv = p.env.dv,
              !.con.color = p.env.color, !.con.envMode = p.env.mode]

getHdrUserInfo(p) ==
    [p EXCEPT !.con.dv = p.dv,
              !.con.dvType = p.env.dvType,
              !.con.policy = p.env.policy, !.con.priority = p.env.priority]

(* Also what the display can do; the modes only if there is one.             *)
getConnectorData(p) ==
    LET q == getHdrUserInfo(getConnectorUserData(p))
    IN [q EXCEPT !.con.cur = p.drv.mode, !.con.dvModes = p.tv.dvModes,
                 !.con.modes = IF p.tv.on THEN p.tv.modes ELSE @]

(* The policy, the priority and the type of conversion the user's choice     *)
(* gives on this display; "follow" is the -1 of a display that converts      *)
(* nothing.                                                                  *)
Auto(allowed, tv) ==
    LET kinds == allowed \cap AllHdr
        dvTv == "dv" \in tv.hdr
        to == IF dvTv /\ "dv" \in kinds THEN "dv"
              ELSE IF "hdr10" \in kinds THEN "hdr10"
              ELSE IF "hlg" \in kinds THEN "follow" ELSE "sdr"
    IN [policy |-> IF to = "follow" THEN "source" ELSE "sink",
        priority |-> kinds, type |-> to]

Force(allowed, tv) ==
    LET to == IF "dv" \in allowed THEN "dv" ELSE IF "hdr10" \in allowed THEN "hdr10"
              ELSE IF "hlg" \in allowed THEN "hlg" ELSE "sdr"
    IN IF to = "sdr" THEN [policy |-> "sink", priority |-> {}, type |-> "sdr"]
       ELSE IF to \notin tv.hdr
       THEN [policy |-> "source", priority |-> AllHdr, type |-> "follow"]
       ELSE IF to = "hlg" THEN [policy |-> "source", priority |-> {"hlg"}, type |-> "follow"]
       ELSE [policy |-> "sink", priority |-> {to}, type |-> to]

PreferredHdr(p) ==
    LET allowed == IF p.env.allowed = {"unset"} THEN Caps ELSE p.env.allowed
        r == IF p.env.pref = "force" THEN Force(allowed, p.tv) ELSE Auto(allowed, p.tv)
    IN IF p.env.pref = "match"
       THEN [policy |-> "source", priority |-> AllHdr, type |-> "follow"]
       ELSE IF p.tv.hdr = {} THEN [r EXCEPT !.type = "sdr"] ELSE r

getPreferredHdrConversionType(p) ==
    LET r == PreferredHdr(p)
    IN [p EXCEPT !.hdrPolicy = r.policy, !.hdrPriority = r.priority, !.conv = r.type]

(* What hotplug and a switch of the resolution save of it.                   *)
SaveHdr(p) ==
    [p EXCEPT !.env.policy = IF p.conv = "follow" THEN "source" ELSE p.hdrPolicy,
              !.env.priority = p.hdrPriority]

(* A forced format the mode does not take: follow the source.                *)
check_hdr_mode(p, type, mode) ==
    IF /\ p.env.pref = "force" /\ type # "follow"
       /\ type = "dv" /\ mode \notin p.con.dvModes
    THEN [p EXCEPT !.hdrPolicy = "source", !.env.policy = "source"] ELSE p

-----------------------------------------------------------------------------
enableDolbyVision(p, type) ==
    [p EXCEPT !.dv = TRUE, !.drv.dv = TRUE, !.drv.ll = type = 2,
              !.drv.policy = p.env.policy, !.drv.dvPolicy = p.env.policy]

disableDolbyVision(p) ==
    [p EXCEPT !.dv = FALSE, !.drv.dv = FALSE,
              !.drv.policy = p.env.policy, !.drv.dvPolicy = "force"]

SetDolbyVision(p) ==
    IF p.out.amdv # 0 THEN enableDolbyVision(p, p.out.amdv) ELSE disableDolbyVision(p)

checkDolbyVisionStatusChanged(p) ==
    p.out.amdv # (IF ~p.drv.dv THEN 0 ELSE IF p.drv.ll THEN 2 ELSE 1)

PreferredFrac(p) == IF p.tv.vrr THEN 0 ELSE 1

FracPolicy(p) ==
    CASE p.reason = "HWC" -> IF p.frc = 2 THEN p.env.frac ELSE p.frc
      [] p.state \in {"INIT", "POWER"} ->
             IF p.con.cur # p.out.mode THEN PreferredFrac(p) ELSE p.env.frac
      [] p.state = "SWITCH" -> p.env.frac
      [] OTHER -> p.drv.frac

(* What differs between the driver and the decision.                         *)
Differs(p) ==
    [mode |-> p.drv.mode # p.out.mode,
     color |-> p.drv.color # p.out.color,
     frac |-> p.drv.frac # FracPolicy(p),
     policy |-> (IF p.dv THEN p.drv.dvPolicy ELSE p.drv.policy) # p.env.policy,
     priority |-> p.drv.priority # p.env.priority,
     dv |-> checkDolbyVisionStatusChanged(p)]

(* Mutant: another fraction is left alone whatever the mode is.                *)
FracLeftAlone(p, d) ==
    /\ p.tv.vrr /\ ~p.inited
    /\ ~d.dv /\ ~d.color /\ ~d.policy /\ ~d.priority /\ p.drv.ready
    /\ d.frac

(* A display with vrr, before the framework has chosen: a change of the      *)
(* rate within the group is left to it.                                      *)
QmsLeftAlone(p, d) ==
    /\ p.tv.vrr /\ ~p.inited
    /\ ~d.dv /\ ~d.color /\ ~d.policy /\ ~d.priority /\ p.drv.ready
    /\ \/ ~d.mode /\ d.frac
       \/ d.mode /\ {p.drv.mode, p.out.mode} \subseteq p.con.modes
                 /\ Group[p.drv.mode] = Group[p.out.mode]

saveHdmiParamToEnv(p) ==
    IF p.drv.mode = Dummy THEN p
    ELSE [p EXCEPT !.env.out = p.drv.mode, !.env.dv = p.dv]

(* The mode goes last, after the policy, the priority and dolby vision, with *)
(* the picture muted and hdcp stopped.                                       *)
SendToDriver(p, d) ==
    LET q == [p EXCEPT !.drv.policy = IF d.policy THEN p.env.policy ELSE @,
                       !.drv.dvPolicy = IF d.policy /\ p.dv THEN p.env.policy ELSE @,
                       !.drv.priority = p.env.priority]
        r == IF d.dv /\ p.state # "INIT" THEN SetDolbyVision(q) ELSE q
    IN [r EXCEPT !.drv.mode = p.out.mode, !.drv.ready = TRUE,
                 !.drv.auth = p.out.mode # Dummy]

applyDisplaySetting(p, force) ==
    LET d == Differs(p)
        set == [p EXCEPT !.drv.frac = FracPolicy(p), !.drv.color = p.out.color]
        pre == IF d.dv /\ p.state = "INIT" THEN SetDolbyVision(set) ELSE set
        need == d.mode \/ d.color \/ d.frac \/ d.policy \/ d.priority
                \/ (d.dv /\ p.state # "INIT") \/ ~p.drv.ready \/ force
        sent == IF need THEN SendToDriver(pre, d)
                ELSE [pre EXCEPT !.drv.auth = @ \/ p.state = "INIT"]
    IN IF QmsLeftAlone(p, d) THEN [set EXCEPT !.changed = FALSE]
       ELSE saveHdmiParamToEnv([sent EXCEPT !.drv.avmute = FALSE, !.changed = need])

(* What a display gets whose edid does not parse.                            *)
setDefaultMode(p) ==
    IF p.drv.mode = DefaultMode THEN p
    ELSE [p EXCEPT !.drv.color = DefaultColor, !.drv.mode = DefaultMode,
                   !.drv.avmute = FALSE]

-----------------------------------------------------------------------------
(* setSourceDisplay, the half that decides: what a display brings, and the   *)
(* mode to boot with, forgetting what was asked before.                      *)
ReadDisplay(p, state) ==
    LET wiped == [p EXCEPT !.state = state, !.dv = FALSE,
                      !.con = [state |-> state, cur |-> "none", modes |-> {},
                               dvModes |-> {}, dv |-> FALSE, dvType |-> 0,
                               color |-> "none", envMode |-> "none",
                               policy |-> "sink", priority |-> {}]]
        q == getConnectorData(SaveHdr(getPreferredHdrConversionType(wiped)))
    IN [q EXCEPT !.con.cur = q.con.envMode]

(* Mutant: the mode the driver has is taken for the one to boot with.         *)
DecideFromDriver(p, state) ==
    LET q == ReadDisplay(p, state)
        best == IF isBestPolicy(q) THEN "BEST" ELSE "INVALID"
    IN getPolicyOutput([q EXCEPT !.con.cur = p.drv.mode, !.policy = best, !.vendor = best])

Decide(p, state) ==
    LET q == ReadDisplay(p, state)
        best == IF isBestPolicy(q) THEN "BEST" ELSE "INVALID"
    IN getPolicyOutput([q EXCEPT !.policy = best, !.vendor = best])

(* ... and the half that applies it.                                         *)
Apply(p) ==
    applyDisplaySetting(check_hdr_mode(p, p.conv, p.out.mode), FALSE)

(* Nothing plugged: the dummy mode, muted.                                   *)
Unplugged(p) == [p EXCEPT !.drv.mode = Dummy, !.drv.avmute = TRUE]

(* The name of the mode may be mCurrentMode itself, which reading the user's *)
(* data overwrites ("current").                                              *)
setSourceOutputMode(p, mode, state) ==
    LET hdr == IF state = "SWITCH" THEN SaveHdr(getPreferredHdrConversionType(p)) ELSE p
        user == getHdrUserInfo(getConnectorUserData(hdr))
        q == getPolicyOutput([user EXCEPT !.state = state, !.con.state = "SWITCH",
                  !.con.cur = IF mode = "current" THEN user.cur ELSE mode])
        r == IF state = "SWITCH" THEN check_hdr_mode(q, q.conv, q.out.mode) ELSE q
    IN applyDisplaySetting(r, state = "ALLM")

(* The fastest mode of the group of a mode the display has.                  *)
BrrMode(p, mode) ==
    CHOOSE x \in {y \in p.con.modes : Group[y] = Group[mode]} :
        \A y \in p.con.modes : Group[y] = Group[mode] => Rate[y] <= Rate[x]

setBootConfig(p, mode, frac) ==
    [p EXCEPT !.env.best = FALSE, !.env.mode = mode, !.env.frac = frac,
              !.policy = "INVALID", !.vendor = "INVALID"]

clearBootConfig(p) ==
    [p EXCEPT !.env.best = TRUE, !.env.mode = "none", !.env.frac = PreferredFrac(p),
              !.policy = "BEST", !.vendor = "BEST"]

setColorSpace(p, color) ==
    setSourceOutputMode([p EXCEPT !.env.color = color, !.cur = p.drv.mode],
                        "current", "COLOR")

clearUserDisplayConfig(p) ==
    setSourceOutputMode([p EXCEPT !.env.color = "none", !.env.dvType = 1,
                                  !.cur = p.drv.mode], "current", "COLOR")

(* The match of content, a list of formats for the system to choose from (an *)
(* empty one forces sdr), or one format.                                     *)
setAllowedHdrTypes(p, allowed, isAuto, match) ==
    IF match THEN [p EXCEPT !.env.pref = "match"]
    ELSE [p EXCEPT !.env.allowed = allowed,
                   !.env.pref = IF isAuto THEN "system" ELSE "force"]

setHdrConversionPolicy(p, passthrough) ==
    LET q == IF passthrough \/ p.conv = "follow" THEN [p EXCEPT !.env.policy = "source"]
             ELSE check_hdr_mode([p EXCEPT !.env.policy = p.hdrPolicy], p.conv, p.drv.mode)
    IN [setSourceOutputMode([q EXCEPT !.env.priority = p.hdrPriority, !.cur = p.drv.mode],
                            "current", "HDR") EXCEPT !.inited = TRUE]
=============================================================================
