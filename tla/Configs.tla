------------------------------- MODULE Configs -------------------------------
(***************************************************************************)
(* The configurations of a display, under each of the four mode managers:     *)
(* the event thread, which reads the connector and makes the list again,      *)
(* SurfaceFlinger, which reads the list in several calls and sets one of it,  *)
(* and the display service, which prefers a scan.  Where the modes of a        *)
(* hotplug come from is Hotplug and Modes; here some mode of the display.     *)
(***************************************************************************)
EXTENDS Integers, Sequences, SequencesExt, FiniteSets

CONSTANTS Marks, DISPLAY_MODE_LIST, Filter16_9, PrimaryHotplug, highestDv,
          Fb, DefaultMode,
          Policies,       \* mode managers; one is chosen when the product is built
          Displays,       \* displays: the type of their connector, and modes
          MaxRate,        \* HwcConfig::getMaxRefreshRate
          Changes, Asks   \* bounds: changes of what is plugged or set; calls

VARIABLES policy,     \* the mode manager
          manager,    \* its fields
          shown,      \* the display that is plugged
          connector,  \* the connector as read last
          dv,         \* its Dolby Vision
          driver,     \* the mode of the crtc
          queue,      \* mode changes that were not handled
          step,       \* where the event thread is
          heard,      \* SurfaceFlinger was told to read the list
          reading,    \* what it has read of it so far
          knows,      \* the configurations it knows, with width and rate
          ask,        \* the call of SurfaceFlinger under way, and whether the
                      \* list changed between its look and its change
          period,     \* of the vsync thread, as a rate
          changes, asks

configVars == <<policy, manager, shown, connector, dv, driver, queue, step, heard, reading,
                knows, ask, period, changes, asks>>

Real == INSTANCE RealModes WITH Framebuffer <- Fb
Active == INSTANCE ActiveModes
Sized == INSTANCE SizedModes

DummyL == [name |-> "dummy_l", w |-> 720, h |-> 480, rate |-> 60, group |-> 0]
(* Only ActiveModeMgr asks for it.                                            *)
Visions == IF policy = "active" THEN BOOLEAN ELSE {FALSE}
ModesOf(display) == {display.modes[i] : i \in DOMAIN display.modes}

-----------------------------------------------------------------------------
(* HwcModeMgr: one manager for a product                                      *)

createModeMgr ==
    CASE policy = "real" -> Real!NewReal
      [] policy = "active" -> Active!NewActive
      [] policy = "fixed" -> Sized!NewFixed
      [] policy = "full" -> Sized!NewVariable

updateManager(m, con, mode) ==
    CASE policy = "real" -> Real!updateReal(m, con, mode)
      [] policy = "active" -> Active!updateActive(m, con, dv, mode)
      [] policy = "fixed" -> Sized!updateFixed(m, con, mode)
      [] policy = "full" -> Sized!updateVariable(m, con, mode)

Place(list) == [id \in 0..(Len(list) - 1) |-> list[id + 1]]

(* What getDisplayConfigs counts, and what it fills in.                       *)
Counted == CASE policy = "real" -> manager.modes
             [] policy = "active" -> Place(manager.sf)
             [] policy = "fixed" -> Place(<<manager.cur>>)
             [] policy = "full" -> Place(manager.hwc)

FilledBy == IF policy = "full" THEN Sized!fillConfigs(manager) ELSE manager
Filled == IF policy = "full" THEN Place(FilledBy.sf) ELSE Counted

(* getDisplayAttribute for SurfaceFlinger                                     *)
Attributes == IF policy = "full" THEN Place(manager.sf) ELSE Counted
Width(mode) == IF policy = "active" THEN Fb[1] ELSE mode.w
Capped(rate) == IF rate > MaxRate THEN MaxRate ELSE rate
Rate(mode) == IF policy = "fixed" THEN Capped(mode.rate) ELSE mode.rate

getActiveConfig == CASE policy = "real" -> manager.active
                     [] policy = "active" -> manager.sfActive
                     [] policy = "fixed" -> 0
                     [] policy = "full" -> Sized!activeForHwc(manager)

isSeamlessTo(config) ==
    CASE policy = "real" -> Real!seamlessReal(manager, config)
      [] policy = "active" -> Active!seamlessActive(manager, config)
      [] OTHER -> FALSE

-----------------------------------------------------------------------------
(* The event thread                                                          *)

(* HwcDisplayPipe::handleEvent, a hotplug: the connector is read, and the     *)
(* mode policy sets a mode of the display, or none.                           *)
HotplugOut ==
    /\ step = "idle" /\ connector.on /\ connector.type = "hdmi" /\ changes < Changes
    /\ shown' = [shown EXCEPT !.modes = <<>>]
    /\ connector' = [connector EXCEPT !.on = FALSE]
    /\ driver' = DummyL /\ queue' = queue + 1
    /\ step' = "outList" /\ changes' = changes + 1
    /\ UNCHANGED <<policy, manager, dv, heard, reading, knows, ask, period, asks>>

HotplugIn ==
    /\ step = "idle" /\ ~connector.on /\ changes < Changes
    /\ \E display \in Displays, vision \in Visions :
        /\ display.type = connector.type
        /\ shown' = display /\ dv' = vision
        /\ connector' = [on |-> TRUE, type |-> display.type, modes |-> display.modes]
        /\ driver' \in ModesOf(display)
    /\ queue' = queue + 1 /\ changes' = changes + 1
    /\ UNCHANGED <<policy, manager, step, heard, reading, knows, ask, period, asks>>

(* onHotplug(false) makes the list again and tells SurfaceFlinger.            *)
OutList ==
    /\ step = "outList"
    /\ manager' = updateManager(manager, connector, driver) /\ step' = "outTell"
    /\ UNCHANGED <<policy, shown, connector, dv, driver, queue, heard, reading, knows, ask,
                   period, changes, asks>>

OutTell ==
    /\ step = "outTell"
    /\ heard' = TRUE /\ step' = "idle"
    /\ UNCHANGED <<policy, manager, shown, connector, dv, driver, queue, reading, knows, ask,
                   period, changes, asks>>

(* A mode change: connector, crtc and list, then the display, the vsync last. *)
UpdateList ==
    /\ step = "idle" /\ queue > 0
    /\ queue' = queue - 1
    /\ manager' = updateManager(manager, connector, driver) /\ step' = "modeTell"
    /\ UNCHANGED <<policy, shown, connector, dv, driver, heard, reading, knows, ask, period,
                   changes, asks>>

(* onModeChanged: the list is told, unless a call of SurfaceFlinger changed   *)
(* the mode; then the next change is told again.                              *)
TellChange ==
    /\ step = "modeTell"
    /\ IF driver.name # "dummy_l" /\ manager.callOnHotPlug
       THEN heard' = TRUE /\ UNCHANGED manager
       ELSE manager' = [manager EXCEPT !.callOnHotPlug = TRUE] /\ UNCHANGED heard
    /\ step' = "period"
    /\ UNCHANGED <<policy, shown, connector, dv, driver, queue, reading, knows, ask, period,
                   changes, asks>>

ModePeriod ==
    /\ step = "period"
    /\ period' = Capped(driver.rate) /\ step' = "idle"
    /\ ask' = [ask EXCEPT !.crossed = FALSE]
    /\ UNCHANGED <<policy, manager, shown, connector, dv, driver, queue, heard, reading, knows,
                   changes, asks>>

(* The display service or the user sets a mode.                               *)
setDisplayMode ==
    /\ connector.on /\ changes < Changes
    /\ driver' \in ModesOf(connector) \ {driver}
    /\ queue' = queue + 1 /\ changes' = changes + 1
    /\ UNCHANGED <<policy, manager, shown, connector, dv, step, heard, reading, knows, ask,
                   period, asks>>

-----------------------------------------------------------------------------
(* SurfaceFlinger                                                            *)

(* HwcHal::getDisplayConfigs: a count, then the ids, then each one's          *)
(* attributes; an id that is gone by then has none.                           *)
CountConfigs ==
    /\ heard /\ reading.pc = "idle" /\ ask.pc = "idle"
    /\ heard' = FALSE
    /\ reading' = [pc |-> "fill", count |-> Cardinality(DOMAIN Counted), ids |-> {}]
    /\ UNCHANGED <<policy, manager, shown, connector, dv, driver, queue, step, knows, ask,
                   period, changes, asks>>

FillConfigs ==
    /\ reading.pc = "fill"
    /\ manager' = FilledBy
    /\ reading' = [reading EXCEPT !.pc = "attributes", !.ids = DOMAIN Filled]
    /\ UNCHANGED <<policy, shown, connector, dv, driver, queue, step, heard, knows, ask,
                   period, changes, asks>>

getDisplayAttribute ==
    /\ reading.pc = "attributes"
    /\ knows' = [id \in reading.ids \cap DOMAIN Attributes |->
                    [w |-> Width(Attributes[id]), rate |-> Rate(Attributes[id])]]
    /\ reading' = [pc |-> "idle", count |-> 0, ids |-> {}]
    /\ UNCHANGED <<policy, manager, shown, connector, dv, driver, queue, step, heard, ask,
                   period, changes, asks>>

(* setActiveConfig, or the same with constraints, which looks for the id in   *)
(* the list first; the mode that is active is not set again.                  *)
setActiveConfig ==
    /\ ask.pc = "idle" /\ reading.pc = "idle" /\ asks < Asks
    /\ \E config \in DOMAIN knows, constrained \in BOOLEAN :
        /\ constrained => config \in DOMAIN Filled
        /\ config # getActiveConfig
        /\ manager' = IF constrained THEN FilledBy ELSE manager
        /\ ask' = [ask EXCEPT !.pc = "set", !.config = config,
                               !.seamless = isSeamlessTo(config)]
    /\ asks' = asks + 1
    /\ UNCHANGED <<policy, shown, connector, dv, driver, queue, step, heard, reading, knows,
                   period, changes>>

(* The mode of the connector the driver takes for a configuration.            *)
Taken(mode) == {m \in ModesOf(connector) : m.name = mode.name /\ m.rate = mode.rate}

(* Set at the driver: a seamless switch has no mode change event.             *)
Sets(mode, seamless) ==
    IF ~connector.on \/ Taken(mode) = {} THEN UNCHANGED <<driver, queue>>
    ELSE driver' \in Taken(mode) /\ queue' = IF seamless THEN queue ELSE queue + 1

SetByManager ==
    LET config == ask.config
    IN CASE policy = "real" ->
              /\ manager' = Real!setActiveReal(manager, config)
              /\ IF manager' = manager THEN UNCHANGED <<driver, queue>>
                 ELSE Sets(manager.modes[config], isSeamlessTo(config))
         [] policy = "active" ->
              /\ manager' = Active!setActiveActive(manager, config)
              /\ IF manager' = manager THEN UNCHANGED <<driver, queue>>
                 ELSE Sets(manager.sf[config + 1], isSeamlessTo(config))
         [] policy = "full" ->
              LET set == Sized!setActiveVariable(manager, config)
              IN /\ manager' = set.mgr
                 /\ IF set.sets THEN Sets(manager.sf[config + 1], FALSE)
                    ELSE UNCHANGED <<driver, queue>>
         [] OTHER -> UNCHANGED <<manager, driver, queue>>

ActiveRate == Rate(Counted[getActiveConfig])

(* A seamless switch sets the period of the vsync thread here.                *)
SetConfig ==
    /\ ask.pc = "set"
    /\ SetByManager
    /\ ask' = [ask EXCEPT !.pc = IF ask.seamless THEN "period" ELSE "idle",
                           !.crossed = @ \/ ask.seamless # isSeamlessTo(ask.config)]
    /\ UNCHANGED <<policy, shown, connector, dv, step, heard, reading, knows, period,
                   changes, asks>>

(* Mutant: a seamless switch leaves the period alone.                         *)
KeepsPeriod ==
    /\ ask.pc = "period"
    /\ ask' = [ask EXCEPT !.pc = "idle"]
    /\ UNCHANGED <<policy, manager, shown, connector, dv, driver, queue, step, heard, reading,
                   knows, period, changes, asks>>

getDisplayVsyncPeriod ==
    /\ ask.pc = "period"
    /\ period' = ActiveRate /\ ask' = [ask EXCEPT !.pc = "idle", !.crossed = FALSE]
    /\ UNCHANGED <<policy, manager, shown, connector, dv, driver, queue, step, heard, reading,
                   knows, changes, asks>>

(* The display service prefers a mode of the display; a vrr display has       *)
(* SurfaceFlinger read the list again.                                        *)
setPerferredMode ==
    /\ policy = "real" /\ connector.on /\ asks < Asks
    /\ \E mode \in ModesOf(connector) :
        LET result == Real!setPerferredMode(manager, mode.name, connector, driver)
            mapped == result.mgr
        IN IF result.again /\ mapped.active \in DOMAIN mapped.modes
           THEN /\ manager' = Real!setActiveReal(mapped, mapped.active)
                /\ Sets(mapped.modes[mapped.active], Real!seamlessReal(mapped, mapped.active))
           ELSE manager' = mapped /\ UNCHANGED <<driver, queue>>
    /\ heard' \in {heard, TRUE} /\ asks' = asks + 1
    /\ UNCHANGED <<policy, shown, connector, dv, step, reading, knows, ask, period, changes>>

-----------------------------------------------------------------------------
(* The pipe was made, and SurfaceFlinger is told of the display.              *)
ConfigsInit ==
    /\ policy \in Policies
    /\ \E display \in Displays, vision \in Visions :
        /\ shown = display /\ dv = vision
        /\ connector = [on |-> TRUE, type |-> display.type, modes |-> display.modes]
        /\ driver \in ModesOf(display)
    /\ manager = updateManager(createModeMgr, connector, driver)
    /\ queue = 0 /\ step = "idle" /\ heard = TRUE
    /\ reading = [pc |-> "idle", count |-> 0, ids |-> {}]
    /\ knows = [id \in {} |-> [w |-> 0, rate |-> 0]]
    /\ ask = [pc |-> "idle", config |-> 0, seamless |-> FALSE, crossed |-> FALSE]
    /\ period = Capped(driver.rate)
    /\ changes = 0 /\ asks = 0

ConfigsNext ==
    \/ HotplugOut \/ HotplugIn \/ OutList \/ OutTell
    \/ UpdateList \/ TellChange \/ ModePeriod \/ setDisplayMode
    \/ CountConfigs \/ FillConfigs \/ getDisplayAttribute
    \/ setActiveConfig \/ SetConfig \/ getDisplayVsyncPeriod \/ setPerferredMode

ConfigsSpec == ConfigsInit /\ [][ConfigsNext]_configVars

-----------------------------------------------------------------------------
(* Properties                                                                *)

(* The configurations SurfaceFlinger knows, against the list, and the active  *)
(* one, against what is counted: the two parts of IdKeepsMeaning.             *)
KeepsMeaning ==
    policy = "real" =>
        \A id \in DOMAIN knows \cap DOMAIN manager.modes :
            knows[id] = [w |-> manager.modes[id].w, rate |-> manager.modes[id].rate]

ActiveListed == getActiveConfig \in DOMAIN Counted

(* What SurfaceFlinger read of a configuration stays true of it: an id it     *)
(* knows is gone, or is still a mode of that width and rate, across replugs,  *)
(* preferred scans and its own mode changes.  Only RealModeMgr promises it    *)
(* (update's comment), for its ids go on from the largest one.  And the       *)
(* active configuration is one of the list, whatever was plugged in or set:   *)
(* no id of an older list stays.                                              *)
IdKeepsMeaning == KeepsMeaning /\ ActiveListed

(* Every change handled, a display that shows a picture has the period of the *)
(* vsync thread from the mode of its driver, and so has, but for the managers *)
(* that may keep a list, the active configuration.  A call whose list changed *)
(* between its look and its change (Hwc2Display.cpp:1779) may not see to it,   *)
(* and a seamless one does not cap the rate (:1793).                          *)
Settled == queue = 0 /\ step = "idle" /\ ask.pc = "idle" /\ ~ask.crossed /\ connector.on
PeriodIsScreen ==
    Settled => /\ Capped(period) = Capped(driver.rate)
               /\ policy \in {"active", "fixed"} => Capped(ActiveRate) = Capped(driver.rate)
=============================================================================
