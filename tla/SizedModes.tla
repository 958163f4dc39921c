------------------------------ MODULE SizedModes ------------------------------
(***************************************************************************)
(* FixedSizeModeMgr, one configuration that follows the mode of the display,  *)
(* and VariableModeMgr, the modes of the connector with a default mode last.  *)
(***************************************************************************)
EXTENDS Integers, Sequences, SequencesExt

CONSTANTS Fb,          \* the size of the frame buffer
          DefaultMode  \* the mode of mode_info of that size, at 60

-----------------------------------------------------------------------------
(* FixedSizeModeMgr: the size reported is that of the frame buffer, or 1080p  *)
(* when a 4k frame buffer is shown on less.                                   *)

NewFixed == [cur |-> [name |-> "", w |-> Fb[1], h |-> Fb[2], rate |-> 0, group |-> 0],
             previous |-> [name |-> "FAKE_INITIAL_MODE", w |-> 1920, h |-> 1080,
                           rate |-> 60, group |-> 0],
             callOnHotPlug |-> TRUE]

FixedSize(cur, real) ==
    CASE (Fb[1] < 3840 /\ Fb[2] < 2160) \/ real.name = "dummy_l" -> <<cur.w, cur.h>>
      [] real.w <= 1920 \/ real.h <= 1080 -> <<1920, 1080>>
      [] OTHER -> Fb

updateFixed(f, connector, real) ==
    IF connector.on
    THEN LET size == FixedSize(f.cur, real)
             cur == [real EXCEPT !.w = size[1], !.h = size[2]]
         IN [f EXCEPT !.cur = cur, !.previous = cur]
    ELSE [f EXCEPT !.cur = [f.previous EXCEPT !.name = "FAKE_PREVIOUS_MODE",
                                              !.w = Fb[1], !.h = Fb[2]]]

-----------------------------------------------------------------------------
(* VariableModeMgr                                                           *)

NewVariable == [hwc |-> <<DefaultMode>>, sf |-> <<>>, hwcActive |-> 0, sfActive |-> -1,
                fake |-> 0, ext |-> FALSE, default |-> FALSE, callOnHotPlug |-> TRUE]

(* A mode that is not listed becomes the default one.                         *)
activeOf(v, mode) ==
    LET found == {i \in DOMAIN v.hwc : v.hwc[i].name = mode.name /\ v.hwc[i].rate = mode.rate}
        last == Len(v.hwc) - 1
    IN [v EXCEPT !.fake = last,
                 !.hwcActive = IF found = {} THEN last
                               ELSE (CHOOSE i \in found : \A j \in found : i <= j) - 1]

updateHwcDispConfigs(v, connector) ==
    LET default(m) == m.name = DefaultMode.name /\ m.rate = DefaultMode.rate
    IN [v EXCEPT !.hwc = Append(SelectSeq(connector.modes, LAMBDA m : ~default(m)), DefaultMode),
                 !.default = @ \/ \E i \in DOMAIN connector.modes : default(connector.modes[i])]

updateVariable(v, connector, real) ==
    IF connector.on THEN activeOf(updateHwcDispConfigs(v, connector), real)
    ELSE activeOf(v, DefaultMode)

(* SurfaceFlinger's list is made when it asks for it.                         *)
fillConfigs(v) == [v EXCEPT !.sf = v.hwc, !.sfActive = v.hwcActive]

activeForHwc(v) == IF v.ext THEN v.hwcActive ELSE v.fake

(* A default mode the display lacks was only listed: nothing is set.          *)
setActiveVariable(v, config) ==
    IF config + 1 \notin DOMAIN v.sf THEN [mgr |-> v, sets |-> FALSE]
    ELSE LET mode == v.sf[config + 1]
             set == activeOf(v, mode)
             shown == [set EXCEPT !.sfActive = set.hwcActive]
             lacks == ~v.default /\ mode.name = DefaultMode.name
         IN [mgr |-> IF lacks THEN shown ELSE [shown EXCEPT !.ext = TRUE], sets |-> ~lacks]
=============================================================================
