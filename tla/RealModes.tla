------------------------------ MODULE RealModes ------------------------------
(***************************************************************************)
(* RealModeMgr: the configurations of a display are the modes of its          *)
(* connector.  A mode is its name, size, refresh rate and vrr group.  Every   *)
(* operator takes the manager, a record, and gives the manager it becomes.    *)
(***************************************************************************)
EXTENDS Integers, FiniteSets

CONSTANTS Marks,             \* names to the substrings the code looks for in them
          DISPLAY_MODE_LIST, \* names the device can show
          Filter16_9,        \* HwcConfig::getModeCondition
          PrimaryHotplug,    \* HwcConfig::primaryHotplugEnabled
          Framebuffer        \* width and height

Has(mode, part) == part \in Marks[mode.name]
FakePrevious == "FAKE_PREVIOUS_MODE"
FakeInitial == [name |-> "FAKE_INITIAL_MODE", w |-> 1920, h |-> 1080, rate |-> 60, group |-> 0]

NewReal == [modes |-> [id \in {} |-> FakeInitial], active |-> 0, latest |-> FakeInitial,
            callOnHotPlug |-> TRUE, allm |-> FALSE]

SameMode(a, b) == a.name = b.name /\ a.rate = b.rate
LargestId(modes) == CHOOSE id \in DOMAIN modes \cup {-1} :
                        \A other \in DOMAIN modes : other <= id
With(modes, id, mode) == [i \in DOMAIN modes \cup {id} |-> IF i = id THEN mode ELSE modes[i]]

-----------------------------------------------------------------------------
(* The modes to report                                                       *)

is16_9Mode(mode) ==
    mode.w % 16 = 0 /\ mode.h % 9 = 0 /\ mode.w \div 16 = mode.h \div 9

isDlgMode(mode) == mode.w = 3840 /\ mode.h = 1080

mapToFakeSizeMode(mode, type) ==
    LET size == CASE type = "tv" -> <<1280, 720>>
                  [] type # "tv" /\ isDlgMode(mode) -> <<3840, 2160>>
                  [] OTHER -> Framebuffer
    IN [mode EXCEPT !.w = size[1], !.h = size[2]]

(* processModeList: cvbs modes alone on a cvbs connector, 16:9 modes alone    *)
(* when the product wants that, and in any case the current mode.             *)
Listed(mode, current, type) ==
    \/ mode.name = current.name
    \/ IF type = "tv" THEN Has(mode, "cvbs") ELSE ~Filter16_9 \/ is16_9Mode(mode)

MapsSize(mode, type) ==
    CASE type = "tv" -> TRUE
      [] type # "tv" /\ Filter16_9 -> ~is16_9Mode(mode)
      [] OTHER -> isDlgMode(mode) \/ (Has(mode, "768p") /\ type = "panel")

processModeList(list, current, type) ==
    [i \in {j \in DOMAIN list : Listed(list[j], current, type)} |->
        IF MapsSize(list[i], type) THEN mapToFakeSizeMode(list[i], type) ELSE list[i]]

isSupportModeForCurrentDevice(mode) == mode.name \in DISPLAY_MODE_LIST

-----------------------------------------------------------------------------
(* The mode that is set, found in the list or added to it                     *)

updateActiveConfig(r, mode) ==
    LET found == {id \in DOMAIN r.modes : SameMode(r.modes[id], mode)}
        id == IF found # {} THEN CHOOSE i \in found : \A j \in found : i <= j
              ELSE LargestId(r.modes) + 1
    IN [r EXCEPT !.active = id,
                 !.modes = IF found # {} THEN @ ELSE With(@, id, mode)]

(* The scan a name asks for: the first of these it holds.                     *)
ScanOf(name) ==
    CASE "pal" \in Marks[name] -> "pal"
      [] "pal" \notin Marks[name] /\ "ntsc" \in Marks[name] -> "ntsc"
      [] Marks[name] \cap {"pal", "ntsc"} = {} /\ "cvbs" \in Marks[name] -> "cvbs"
      [] Marks[name] \cap {"pal", "ntsc", "cvbs"} = {} /\ "i" \in Marks[name] -> "i"
      [] OTHER -> "p"

(* dynamicMapMode: entries take the names of modes of the same size and rate  *)
(* that have the scan asked for; cvbs entries have their size mapped.         *)
TrueSize(mode) ==
    CASE mode.name \in {"576cvbs", "pal_n"} -> <<720, 576>>
      [] mode.name \in {"480cvbs", "pal_m", "ntsc_m"} -> <<720, 480>>
      [] OTHER -> <<mode.w, mode.h>>

dynamicMapMode(r, name, list) ==
    LET fits(entry) == {i \in DOMAIN list : /\ list[i].rate = entry.rate
                                            /\ <<list[i].w, list[i].h>> = TrueSize(entry)
                                            /\ Has(list[i], ScanOf(name))}
        first(entry) == list[CHOOSE i \in fits(entry) : \A j \in fits(entry) : i <= j]
        renamed(entry) == IF fits(entry) = {} THEN entry
                          ELSE [entry EXCEPT !.name = first(entry).name,
                                             !.group = first(entry).group]
    IN [r EXCEPT !.modes = [id \in DOMAIN r.modes |-> renamed(r.modes[id])]]

-----------------------------------------------------------------------------
(* update: the list made again, its ids after the largest one in use when     *)
(* SurfaceFlinger is told of the primary display as of any other.             *)
(* Mutant: the largest id is used again.                                      *)
LargestAgain(r) ==
    IF PrimaryHotplug /\ DOMAIN r.modes # {} THEN LargestId(r.modes) ELSE 0

FirstId(r) == IF PrimaryHotplug THEN LargestId(r.modes) + 1 ELSE 0

(* The place with k of the others before it, and the modes at the places kept *)
(* of a list, in their order.                                                 *)
Nth(kept, k) == CHOOSE i \in kept : Cardinality({j \in kept : j < i}) = k

Numbered(first, list, kept) ==
    [id \in first..(first + Cardinality(kept) - 1) |-> list[Nth(kept, id - first)]]

Scanned(mode) == Marks[mode.name] \cap {"i", "pal", "ntsc"} # {}

(* The current mode unless it is interlaced, the others the device can show.  *)
Reported(mode, real) == IF mode.name = real.name THEN ~Scanned(real)
                        ELSE isSupportModeForCurrentDevice(mode)

updateReal(r, connector, real) ==
    IF ~r.callOnHotPlug THEN r
    ELSE
    LET shown == processModeList(connector.modes, real, connector.type)
        reported == IF ~connector.on \/ real.name = "dummy_l" THEN {}
                    ELSE {i \in DOMAIN shown : Reported(shown[i], real)}
        alone == connector.on /\ r.allm
        current == connector.on /\ (r.allm \/ \E i \in DOMAIN shown : /\ shown[i].name = real.name
                                                                     /\ real.name # "dummy_l")
        sized == IF r.allm \/ ~\E i \in DOMAIN shown : SameMode(shown[i], real) THEN real
                 ELSE shown[CHOOSE i \in DOMAIN shown : SameMode(shown[i], real)]
        latest == IF current THEN sized ELSE [r.latest EXCEPT !.name = FakePrevious]
        modes == IF alone THEN [id \in {FirstId(r)} |-> real]
                 ELSE Numbered(FirstId(r), shown, reported)
        made == [r EXCEPT !.modes = modes, !.latest = latest]
        named == IF connector.on /\ ~r.allm /\ Scanned(real)
                 THEN dynamicMapMode(made, real.name, connector.modes) ELSE made
        next == FirstId(r) + Cardinality(reported)
    IN updateActiveConfig(IF current THEN named
                          ELSE [named EXCEPT !.modes = With(@, next, latest)], latest)

-----------------------------------------------------------------------------
(* setActiveConfig: a seamless mode goes to the crtc, another one to the mode *)
(* policy, whose mode change then keeps the list.                             *)
seamlessReal(r, config) ==
    config \in DOMAIN r.modes /\ r.modes[config].group = r.latest.group

setModeLocked(r, mode) ==
    LET set == updateActiveConfig([r EXCEPT !.latest = mode], mode)
    IN IF mode.group = r.latest.group THEN set ELSE [set EXCEPT !.callOnHotPlug = FALSE]

setActiveReal(r, config) ==
    IF config \notin DOMAIN r.modes \/ r.modes[config].name = FakeInitial.name THEN r
    ELSE setModeLocked(r, r.modes[config])

(* setPerferredMode: the names remapped to the scan preferred, and the active *)
(* entry set again when it is the mode preferred already.                     *)
Preferred(r, name) ==
    LET named == {id \in DOMAIN r.modes : r.modes[id].name = name}
    IN CHOOSE id \in named : \A other \in named : id <= other

setPerferredMode(r, name, connector, real) ==
    LET mapped == dynamicMapMode(r, name, connector.modes)
        desired == mapped.modes[Preferred(mapped, name)]
    IN IF /\ \E id \in DOMAIN mapped.modes : mapped.modes[id].name = name
          /\ TrueSize(desired) = <<real.w, real.h>> /\ desired.rate = real.rate
       THEN [again |-> TRUE, mgr |-> mapped] ELSE [again |-> FALSE, mgr |-> mapped]
=============================================================================
