----------------------------- MODULE ActiveModes -----------------------------
(***************************************************************************)
(* ActiveModeMgr: SurfaceFlinger is told of one configuration for each        *)
(* refresh rate.  mHwcActiveModes and mSfActiveModes are sequences: the id of *)
(* a mode is its place, from 0.                                               *)
(***************************************************************************)
EXTENDS Integers, Sequences, SequencesExt, FiniteSets

CONSTANTS Marks,        \* names to the substrings the code looks for in them
          highestDv     \* the substrings of the highest mode with Dolby Vision

LOCAL FakeInitial ==
    [name |-> "FAKE_INITIAL_MODE", w |-> 1920, h |-> 1080, rate |-> 60, group |-> 0]

NewActive == [hwc |-> <<>>, sf |-> <<>>, hwcActive |-> 0, sfActive |-> 0,
              last |-> FakeInitial, callOnHotPlug |-> TRUE]

reset(a) == [a EXCEPT !.hwc = <<>>, !.sf = <<>>, !.hwcActive = -1, !.sfActive = -1]

(* With Dolby Vision, 4k modes are left out unless it is there for 2160p60.   *)
TooLargeForDv(mode, active, dv) ==
    /\ dv /\ mode.name # active.name
    /\ "2160p60hz" \notin highestDv
    /\ Marks[mode.name] \cap {"2160p", "smpte"} # {}

updateHwcActiveConfig(a, mode) ==
    LET found == {i \in DOMAIN a.hwc : a.hwc[i].name = mode.name /\ a.hwc[i].rate = mode.rate}
    IN [a EXCEPT !.hwcActive = IF found # {} THEN (CHOOSE i \in found : \A j \in found : i <= j) - 1
                               ELSE Len(a.hwc) - 1]

(* For one rate the widest mode, the last of those, but 4096 only if it is    *)
(* the first; nothing wider than the mode set on a display below 1920.        *)
Widest(list) ==
    FoldLeft(LAMBDA best, mode : IF mode.w >= best.w /\ mode.w # 4096 THEN mode ELSE best,
             Head(list), Tail(list))

updateSfDispConfigs(a) ==
    LET shown == SelectSeq(a.hwc, LAMBDA m : a.last.w >= 1920 \/ m.w <= a.last.w)
        rates == SetToSortSeq({shown[i].rate : i \in DOMAIN shown}, LAMBDA x, y : x < y)
        best == [i \in DOMAIN rates |-> Widest(SelectSeq(shown, LAMBDA m : m.rate = rates[i]))]
        active == a.hwc[a.hwcActive + 1]
        places == {i \in DOMAIN best : best[i].name = active.name /\ best[i].rate = active.rate}
        id == IF places # {} THEN (CHOOSE i \in places : TRUE) - 1 ELSE a.sfActive
    IN IF id = -1 THEN [a EXCEPT !.sf = Append(best, active), !.sfActive = Len(best)]
       ELSE [a EXCEPT !.sf = best, !.sfActive = id]

updateActive(a, connector, dv, mode) ==
    LET modes == IF ~connector.on THEN <<>>
                 ELSE SelectSeq(connector.modes, LAMBDA m : ~TooLargeForDv(m, mode, dv))
        current == /\ mode.name # "dummy_l"
                   /\ \E i \in DOMAIN modes : modes[i].name = mode.name
        last == IF current THEN mode ELSE [a.last EXCEPT !.name = "FAKE_PREVIOUS_MODE"]
        listed == [reset(a) EXCEPT !.hwc = IF current THEN modes ELSE Append(modes, last),
                                   !.last = last]
    IN updateSfDispConfigs(updateHwcActiveConfig(listed, last))

seamlessActive(a, config) ==
    config + 1 \in DOMAIN a.sf /\ a.sf[config + 1].group = a.last.group

setActiveActive(a, config) ==
    IF config + 1 \notin DOMAIN a.sf \/ a.sf[config + 1].name = FakeInitial.name THEN a
    ELSE updateHwcActiveConfig([a EXCEPT !.sfActive = config, !.callOnHotPlug = FALSE],
                               a.sf[config + 1])
=============================================================================
