---------------------------- MODULE HotplugProofs ----------------------------
(***************************************************************************)
(* Proofs about Hotplug: once every event is handled, the display is composed  *)
(* for if and only if something is plugged in, unless a seamless switch left   *)
(* the dummy mode; and the hdr capabilities are those of what is plugged in.   *)
(* Then about the pipes: displays follow the cable, and what they use is bound. *)
(***************************************************************************)
EXTENDS HotplugPipes, TLAPS, FiniteSetTheorems

Hot == {"in", "out", "resume"}
Events == Hot \cup {"begin", "complete"}
TvModes == UNION {tv.modes : tv \in Tvs}
Names == TvModes \cup {Dummy, Fake}
Configs == Nat \X Names
Hdrs == {tv.hdr : tv \in Tvs} \cup {"none"}
Places == {"idle", "start", "pipe", "mode", "pending", "policy", "display", "list", "tell", "wake"}

Connector == [on : BOOLEAN, modes : SUBSET TvModes, hdr : Hdrs]
TypeOK ==
    /\ sink \in Tvs \cup {NoTv}
    /\ uevents \in Seq(Events)
    /\ ev \in [pc : Places, event : Events \cup {"none"}, sends : BOOLEAN, caps : BOOLEAN]
    /\ hdmi \in Connector
    /\ conn \in {"virtual", "hdmi"}
    /\ crtc \in [mode : TvModes \cup {Dummy}, busy : BOOLEAN, pending : Names \cup {"none"}]
    /\ mgr \in [gen : Nat, modes : SUBSET Configs, latest : Names, active : Configs,
                callOnHotPlug : BOOLEAN, allm : BOOLEAN,
                fakeGroup : {0} \cup {Group[m] : m \in DOMAIN Group}]
    /\ disp \in [connected : BOOLEAN, skip : BOOLEAN, hpd : BOOLEAN, changed : BOOLEAN,
                 mode : Names, hdr : Hdrs]
    /\ sf \in [told : BOOLEAN, configs : SUBSET Configs]
    /\ bc \in [op : {"none", "active", "hdr", "allm"},
               pc : {"idle", "set", "policy", "wait", "hdrWait", "hdrDone"},
               config : Configs, seamless : BOOLEAN]

-----------------------------------------------------------------------------
(* Sequences of uevents                                                      *)

Has(s, e) == \E i \in DOMAIN s : s[i] = e
HasHot(s) == \E i \in DOMAIN s : s[i] \in Hot

(* Event e is what the kernel tells when k is plugged.                        *)
Agrees(e, k) == (e = "out" => k = NoTv) /\ (e = "in" => k # NoTv)

(* The last hotplug in s tells of k.                                          *)
LastTells(s, k) ==
    \A i \in DOMAIN s :
        s[i] \in Hot /\ (\A j \in DOMAIN s : j > i => s[j] \notin Hot) => Agrees(s[i], k)

(* What begins will be complete.                                              *)
Paired(s) ==
    \A i \in DOMAIN s : s[i] = "begin" => \E j \in DOMAIN s : j > i /\ s[j] = "complete"

LEMMA OfAppend ==
    ASSUME NEW s \in Seq(Events), NEW e \in Events
    PROVE  LET t == Append(s, e) IN
           /\ t \in Seq(Events)
           /\ e \in Hot => HasHot(t) /\ \A k : Agrees(e, k) => LastTells(t, k)
           /\ \A x : Has(s, x) => Has(t, x)
           /\ e \in Hot /\ Paired(s) => Paired(t)
<1>. DEFINE t == Append(s, e)
<1>1. /\ t \in Seq(Events) /\ DOMAIN s = 1..Len(s) /\ DOMAIN t = 1..(Len(s) + 1)
      /\ Len(s) \in Nat /\ t[Len(s) + 1] = e /\ \A i \in 1..Len(s) : t[i] = s[i]
  OBVIOUS
<1>. HIDE DEF t
<1>2. ASSUME e \in Hot PROVE HasHot(t) /\ \A k : Agrees(e, k) => LastTells(t, k)
  <2>1. Len(s) + 1 \in DOMAIN t
    BY <1>1
  <2>2. HasHot(t)
    BY <2>1, <1>1, <1>2 DEF HasHot
  <2>3. ASSUME NEW k, Agrees(e, k), NEW i \in DOMAIN t,
               \A j \in DOMAIN t : j > i => t[j] \notin Hot
        PROVE  i = Len(s) + 1
    BY <2>1, <2>3, <1>1, <1>2
  <2>. QED
    BY <2>2, <2>3, <1>1 DEF LastTells
<1>3. ASSUME NEW x, Has(s, x) PROVE Has(t, x)
  BY <1>3, <1>1 DEF Has
<1>4. ASSUME e \in Hot, Paired(s) PROVE Paired(t)
  <2>. SUFFICES ASSUME NEW i \in DOMAIN t, t[i] = "begin"
                PROVE  \E j \in DOMAIN t : j > i /\ t[j] = "complete"
    BY DEF Paired
  <2>1. i \in DOMAIN s /\ s[i] = "begin"
    BY <1>1, <1>4 DEF Hot
  <2>2. PICK j \in DOMAIN s : j > i /\ s[j] = "complete"
    BY <2>1, <1>4 DEF Paired
  <2>. QED
    BY <2>2, <1>1
<1>. QED
  BY <1>1, <1>2, <1>3, <1>4 DEF t

(* A mode is set, which the kernel tells.                                     *)
LEMMA OfTold ==
    ASSUME NEW s \in Seq(Events)
    PROVE  LET t == s \o <<"begin", "complete">> IN
           /\ t \in Seq(Events) /\ t # s
           /\ HasHot(t) <=> HasHot(s)
           /\ \A k : LastTells(s, k) => LastTells(t, k)
           /\ \A x : Has(s, x) => Has(t, x)
           /\ Has(t, "begin") /\ Has(t, "complete")
           /\ Paired(s) => Paired(t)
<1>. DEFINE t == s \o <<"begin", "complete">>
<1>1. /\ t \in Seq(Events) /\ DOMAIN s = 1..Len(s) /\ DOMAIN t = 1..(Len(s) + 2)
      /\ Len(s) \in Nat /\ t[Len(s) + 1] = "begin" /\ t[Len(s) + 2] = "complete"
      /\ \A i \in 1..Len(s) : t[i] = s[i]
  <2>1. <<"begin", "complete">> \in Seq(Events)
    BY DEF Events
  <2>2. t \in Seq(Events) /\ Len(t) = Len(s) + 2
    BY <2>1
  <2>3. t[Len(s) + 1] = "begin" /\ t[Len(s) + 2] = "complete"
    OBVIOUS
  <2>4. \A i \in 1..Len(s) : t[i] = s[i]
    OBVIOUS
  <2>. HIDE DEF t
  <2>5. DOMAIN t = 1..(Len(s) + 2) /\ DOMAIN s = 1..Len(s) /\ Len(s) \in Nat
    BY <2>2
  <2>. QED
    BY <2>2, <2>3, <2>4, <2>5
<1>. HIDE DEF t
<1>2. t # s
  BY <1>1
<1>3. Len(s) + 1 \in DOMAIN t /\ Len(s) + 2 \in DOMAIN t
  BY <1>1
<1>4. \A i \in DOMAIN t : i \notin DOMAIN s => i = Len(s) + 1 \/ i = Len(s) + 2
  BY <1>1
<1>5. \A i \in DOMAIN t : t[i] \in Hot => i \in DOMAIN s
  BY <1>1, <1>4 DEF Hot
<1>6. \A i \in DOMAIN s : i \in DOMAIN t /\ t[i] = s[i]
  BY <1>1
<1>7. HasHot(t) <=> HasHot(s)
  BY <1>5, <1>6 DEF HasHot
<1>8. ASSUME NEW k, LastTells(s, k) PROVE LastTells(t, k)
  BY <1>8, <1>5, <1>6 DEF LastTells
<1>9. ASSUME NEW x, Has(s, x) PROVE Has(t, x)
  BY <1>9, <1>6 DEF Has
<1>10. Has(t, "begin") /\ Has(t, "complete")
  BY <1>1, <1>3 DEF Has
<1>11. ASSUME Paired(s) PROVE Paired(t)
  <2>. SUFFICES ASSUME NEW i \in DOMAIN t, t[i] = "begin"
                PROVE  \E j \in DOMAIN t : j > i /\ t[j] = "complete"
    BY DEF Paired
  <2>1. i < Len(s) + 2
    BY <1>1
  <2>. QED
    BY <2>1, <1>1, <1>3
<1>. QED
  BY <1>1, <1>2, <1>7, <1>8, <1>9, <1>10, <1>11 DEF t

LEMMA OfTail ==
    ASSUME NEW s \in Seq(Events), s # <<>>
    PROVE  LET h == Head(s)
               t == Tail(s)
           IN /\ h \in Events /\ t \in Seq(Events)
              /\ HasHot(s) <=> h \in Hot \/ HasHot(t)
              /\ \A k : LastTells(s, k) =>
                           LastTells(t, k) /\ (h \in Hot /\ ~HasHot(t) => Agrees(h, k))
              /\ \A x : Has(s, x) <=> h = x \/ Has(t, x)
              /\ Paired(s) => Paired(t) /\ (h = "begin" => Has(t, "complete"))
<1>. DEFINE h == Head(s)
            t == Tail(s)
            n == Len(s)
<1>1. /\ h \in Events /\ t \in Seq(Events) /\ n \in Nat \ {0} /\ h = s[1]
      /\ DOMAIN s = 1..n /\ DOMAIN t = 1..(n - 1) /\ \A i \in 1..(n - 1) : t[i] = s[i + 1]
  OBVIOUS
<1>. HIDE DEF h, t, n
<1>2. 1 \in DOMAIN s /\ \A i \in DOMAIN t : i + 1 \in DOMAIN s /\ t[i] = s[i + 1]
  BY <1>1
<1>3. \A i \in DOMAIN s : i = 1 \/ (i - 1 \in DOMAIN t /\ t[i - 1] = s[i])
  BY <1>1
<1>4. HasHot(s) <=> h \in Hot \/ HasHot(t)
  <2>1. h \in Hot => HasHot(s)
    BY <1>1, <1>2 DEF HasHot
  <2>2. HasHot(t) => HasHot(s)
    BY <1>2 DEF HasHot
  <2>3. HasHot(s) => h \in Hot \/ HasHot(t)
    BY <1>1, <1>3 DEF HasHot
  <2>. QED
    BY <2>1, <2>2, <2>3
<1>5. ASSUME NEW x PROVE Has(s, x) <=> h = x \/ Has(t, x)
  <2>1. h = x => Has(s, x)
    BY <1>1, <1>2 DEF Has
  <2>2. Has(t, x) => Has(s, x)
    BY <1>2 DEF Has
  <2>3. Has(s, x) => h = x \/ Has(t, x)
    BY <1>1, <1>3 DEF Has
  <2>. QED
    BY <2>1, <2>2, <2>3
<1>6. ASSUME NEW k, LastTells(s, k) PROVE LastTells(t, k)
  <2>. SUFFICES ASSUME NEW i \in DOMAIN t, t[i] \in Hot,
                       \A j \in DOMAIN t : j > i => t[j] \notin Hot
                PROVE  Agrees(t[i], k)
    BY DEF LastTells
  <2>1. \A j \in DOMAIN s : j > i + 1 => s[j] \notin Hot
    <3>. SUFFICES ASSUME NEW j \in DOMAIN s, j > i + 1 PROVE s[j] \notin Hot
      OBVIOUS
    <3>1. j - 1 \in DOMAIN t /\ t[j - 1] = s[j] /\ j - 1 > i
      BY <1>1, <1>3
    <3>. QED
      BY <3>1
  <2>. QED
    BY <2>1, <1>2, <1>6 DEF LastTells
<1>7. ASSUME NEW k, LastTells(s, k), h \in Hot, ~HasHot(t) PROVE Agrees(h, k)
  <2>1. \A j \in DOMAIN s : j > 1 => s[j] \notin Hot
    <3>. SUFFICES ASSUME NEW j \in DOMAIN s, j > 1 PROVE s[j] \notin Hot
      OBVIOUS
    <3>1. j - 1 \in DOMAIN t /\ t[j - 1] = s[j]
      BY <1>1, <1>3
    <3>. QED
      BY <3>1, <1>7 DEF HasHot
  <2>. QED
    BY <2>1, <1>1, <1>7 DEF LastTells
<1>8. ASSUME Paired(s) PROVE Paired(t)
  <2>. SUFFICES ASSUME NEW i \in DOMAIN t, t[i] = "begin"
                PROVE  \E j \in DOMAIN t : j > i /\ t[j] = "complete"
    BY DEF Paired
  <2>1. PICK j \in DOMAIN s : j > i + 1 /\ s[j] = "complete"
    BY <1>2, <1>8 DEF Paired
  <2>2. j - 1 \in DOMAIN t /\ j - 1 > i /\ t[j - 1] = "complete"
    BY <2>1, <1>1, <1>3
  <2>. QED
    BY <2>2
<1>9. ASSUME Paired(s), h = "begin" PROVE Has(t, "complete")
  <2>1. PICK j \in DOMAIN s : j > 1 /\ s[j] = "complete"
    BY <1>1, <1>2, <1>9 DEF Paired
  <2>2. j - 1 \in DOMAIN t /\ t[j - 1] = "complete"
    BY <2>1, <1>1, <1>3
  <2>. QED
    BY <2>2 DEF Has
<1>. QED
  BY <1>1, <1>4, <1>5, <1>6, <1>7, <1>8, <1>9 DEF h, t

-----------------------------------------------------------------------------
(* The inductive invariant                                                   *)

(* A hotplug is still to be handled; one is handled up to the policy; up to    *)
(* the display.                                                               *)
HotDue == At("start", Hot) \/ HasHot(uevents)
MidHot == \E pc \in {"pipe", "mode", "pending", "policy"} : At(pc, Hot)
HotEnds == At("display", Hot)

LastAgrees ==
    /\ LastTells(uevents, sink)
    /\ At("start", Hot) /\ ~HasHot(uevents) => Agrees(ev.event, sink)

(* No hotplug is due: the pipe has the connector of what is plugged.          *)
Followed ==
    ~HotDue => /\ (conn = "virtual") = (sink = NoTv)
               /\ sink # NoTv => hdmi = [on |-> TRUE, modes |-> sink.modes, hdr |-> sink.hdr]

OutIsVirtual == ev.event = "out" /\ ev.pc \notin {"idle", "start"} => conn = "virtual"
BusyEarly == crtc.busy => At("pipe", Hot) \/ At("mode", Hot)

(* The virtual connector has the dummy mode, the hdmi one another.            *)
Driven ==
    ~MidHot => /\ conn = "virtual" => crtc.mode = Dummy
               /\ conn = "hdmi" /\ ~HotDue => crtc.mode # Dummy

BeginDue == Has(uevents, "begin") \/ At("start", {"begin"})
CompleteDue ==
    Has(uevents, "complete") \/ \E pc \in {"start", "list", "display"} : At(pc, {"complete"})
Completed == Paired(uevents) /\ (At("start", {"begin"}) => Has(uevents, "complete"))

(* Composition is skipped for the dummy mode, and only then, but for events   *)
(* still to be handled.                                                       *)
Skips ==
    /\ disp.skip /\ crtc.mode # Dummy => CompleteDue
    /\ ~disp.skip /\ crtc.mode = Dummy => BeginDue

CapsRead ==
    ~HotDue /\ ~MidHot /\ ~HotEnds /\ ~disp.hpd /\ sink # NoTv => disp.hdr = sink.hdr

(* The dummy mode is never a configuration among others, so that no call asks  *)
(* for it.                                                                    *)
Ids ==
    /\ \A config \in mgr.modes : config[1] = mgr.gen
    /\ mgr.active = <<mgr.gen, mgr.latest>> /\ mgr.active \in mgr.modes
    /\ \A config \in sf.configs : config[1] <= mgr.gen
    /\ <<mgr.gen, Dummy>> \in mgr.modes => mgr.modes = {mgr.active}
    /\ bc.pc = "set" => bc.config[1] <= mgr.gen /\ bc.config # mgr.active

(* The invariant but for Skips, which Announced is needed for.                *)
Core ==
    /\ TypeOK /\ LastAgrees /\ Followed /\ OutIsVirtual /\ BusyEarly /\ Driven
    /\ Completed /\ CapsRead /\ Ids

(* The kernel tells of every switch that leaves the dummy mode.               *)
Announced == crtc.mode = Dummy /\ crtc'.mode # Dummy => uevents' # uevents

LEMMA TvFacts ==
    /\ NoTv \notin Tvs /\ Dummy \notin TvModes /\ Fake \notin TvModes /\ Dummy # Fake
    /\ NoTv.modes = {} /\ NoTv.hdr = "none"
    /\ \A tv \in Tvs : tv.modes \subseteq TvModes /\ tv.hdr \in Hdrs /\ tv.modes # {}
BY TvsAssumption DEF NoTv, TvModes, Hdrs, Dummy, Fake

LEMMA InitCore == Init => Core /\ Skips
<1>. SUFFICES ASSUME Init PROVE Core /\ Skips
  OBVIOUS
<1>. USE TvFacts
<1>1. PICK tv \in Tvs \cup {NoTv} :
        LET on == tv # NoTv
            mode == IF on THEN CHOOSE m \in tv.modes : TRUE ELSE Dummy
            latest == IF on THEN mode ELSE Fake
            modes == {<<1, n>> : n \in tv.modes \cup {latest}}
        IN /\ sink = tv
           /\ hdmi = [on |-> on, modes |-> tv.modes, hdr |-> tv.hdr]
           /\ conn = IF on THEN "hdmi" ELSE "virtual"
           /\ crtc = [mode |-> mode, busy |-> FALSE, pending |-> "none"]
           /\ mgr = [gen |-> 1, modes |-> modes, latest |-> latest,
                     active |-> <<1, latest>>, callOnHotPlug |-> TRUE, allm |-> FALSE,
                     fakeGroup |-> 0]
           /\ disp = [connected |-> on, skip |-> ~on, hpd |-> FALSE, changed |-> FALSE,
                      mode |-> mode, hdr |-> tv.hdr]
           /\ sf = [told |-> FALSE, configs |-> modes]
  BY DEF Init
<1>. DEFINE on == tv # NoTv
            mode == IF on THEN CHOOSE m \in tv.modes : TRUE ELSE Dummy
            latest == IF on THEN mode ELSE Fake
            modes == {<<1, n>> : n \in tv.modes \cup {latest}}
<1>2. /\ on \in BOOLEAN /\ (on => mode \in tv.modes) /\ (~on => mode = Dummy)
      /\ tv.modes \subseteq TvModes /\ tv.hdr \in Hdrs
  BY DEF Hdrs
<1>3. mode \in TvModes \cup {Dummy} /\ latest \in Names /\ (on => mode # Dummy) /\ latest # Dummy
  BY <1>2 DEF Names
<1>4. /\ sink = tv /\ hdmi = [on |-> on, modes |-> tv.modes, hdr |-> tv.hdr]
      /\ conn = (IF on THEN "hdmi" ELSE "virtual")
      /\ crtc = [mode |-> mode, busy |-> FALSE, pending |-> "none"]
      /\ mgr = [gen |-> 1, modes |-> modes, latest |-> latest,
                active |-> <<1, latest>>, callOnHotPlug |-> TRUE, allm |-> FALSE,
                fakeGroup |-> 0]
      /\ disp = [connected |-> on, skip |-> ~on, hpd |-> FALSE, changed |-> FALSE,
                 mode |-> mode, hdr |-> tv.hdr]
      /\ sf = [told |-> FALSE, configs |-> modes]
  BY <1>1
<1>5. modes \subseteq Configs /\ (\A config \in modes : config[1] = 1)
      /\ <<1, latest>> \in modes /\ <<1, latest>> \in Configs /\ <<1, Dummy>> \notin modes
  BY <1>2, <1>3 DEF Names, Configs
<1>. HIDE DEF on, mode, latest, modes
<1>6. /\ uevents = <<>> /\ ev = [pc |-> "idle", event |-> "none", sends |-> FALSE, caps |-> FALSE]
      /\ bc = [op |-> "none", pc |-> "idle", config |-> <<0, Dummy>>, seamless |-> FALSE]
  BY DEF Init
<1>7. TypeOK
  <2>1. sink \in Tvs \cup {NoTv} /\ uevents \in Seq(Events) /\ conn \in {"virtual", "hdmi"}
    BY <1>4, <1>6
  <2>2. ev \in [pc : Places, event : Events \cup {"none"}, sends : BOOLEAN, caps : BOOLEAN]
    BY <1>6 DEF Places
  <2>3. hdmi \in Connector
    BY <1>2, <1>4 DEF Connector
  <2>4. crtc \in [mode : TvModes \cup {Dummy}, busy : BOOLEAN, pending : Names \cup {"none"}]
    BY <1>3, <1>4
  <2>5. mgr \in [gen : Nat, modes : SUBSET Configs, latest : Names, active : Configs,
                callOnHotPlug : BOOLEAN, allm : BOOLEAN,
                fakeGroup : {0} \cup {Group[m] : m \in DOMAIN Group}]
    BY <1>3, <1>4, <1>5
  <2>6. disp \in [connected : BOOLEAN, skip : BOOLEAN, hpd : BOOLEAN, changed : BOOLEAN,
                 mode : Names, hdr : Hdrs]
    BY <1>2, <1>3, <1>4 DEF Names
  <2>7. sf \in [told : BOOLEAN, configs : SUBSET Configs]
    BY <1>4, <1>5
  <2>8. <<0, Dummy>> \in Configs
    BY DEF Configs, Names
  <2>9. bc \in [op : {"none", "active", "hdr", "allm"},
               pc : {"idle", "set", "policy", "wait", "hdrWait", "hdrDone"},
               config : Configs, seamless : BOOLEAN]
    BY <1>6, <2>8
  <2>. QED
    BY <2>1, <2>2, <2>3, <2>4, <2>5, <2>6, <2>7, <2>9 DEF TypeOK
<1>8. ~HasHot(uevents) /\ LastTells(uevents, sink) /\ Paired(uevents)
  BY <1>6 DEF HasHot, LastTells, Paired
<1>9. ev.pc = "idle" /\ bc.pc = "idle"
  BY <1>6
<1>10. LastAgrees /\ OutIsVirtual /\ Completed
  BY <1>8, <1>9 DEF LastAgrees, OutIsVirtual, Completed, At
<1>11. Followed /\ CapsRead
  BY <1>4, <1>2 DEF Followed, CapsRead, on
<1>12. BusyEarly
  BY <1>4 DEF BusyEarly
<1>13. Driven /\ Skips
  BY <1>4, <1>2, <1>3 DEF Driven, Skips
<1>14. Ids
  BY <1>4, <1>5, <1>9 DEF Ids
<1>. QED
  BY <1>7, <1>10, <1>11, <1>12, <1>13, <1>14 DEF Core

-----------------------------------------------------------------------------
(* What the steps do with the driver                                         *)

CrtcType == [mode : TvModes \cup {Dummy}, busy : BOOLEAN, pending : Names \cup {"none"}]
Told == uevents \o <<"begin", "complete">>

(* A mode is kept, set with uevents, or set without them.                     *)
Kept == crtc'.mode = crtc.mode /\ uevents' = uevents
SetTold(mode) == ~crtc'.busy /\ mode \in ConnectorModes /\ crtc'.mode = mode /\ uevents' = Told
SetUntold(mode) ==
    ~crtc'.busy /\ mode \in ConnectorModes /\ crtc'.mode = mode /\ uevents' = uevents

LEMMA ModesTyped ==
    ASSUME TypeOK
    PROVE  /\ hdmi.modes \subseteq TvModes /\ ConnectorModes \subseteq TvModes \cup {Dummy}
           /\ getMode \in Names /\ Reported \subseteq Names
           /\ conn = "hdmi" => Dummy \notin ConnectorModes
<1>1. hdmi.modes \subseteq TvModes
  BY DEF TypeOK, Connector
<1>2. /\ ConnectorModes \subseteq TvModes \cup {Dummy}
      /\ conn = "hdmi" => Dummy \notin ConnectorModes
  BY <1>1, TvFacts DEF ConnectorModes
<1>3. getMode \in Names
  BY DEF TypeOK, getMode, Names
<1>4. Reported \subseteq Names
  BY <1>2, <1>3 DEF Reported, Names
<1>. QED
  BY <1>1, <1>2, <1>3, <1>4

LEMMA RereadTyped ==
    ASSUME TypeOK
    PROVE  /\ Reread \in Connector
           /\ Reread.on = (sink # NoTv)
           /\ sink # NoTv => Reread = [on |-> TRUE, modes |-> sink.modes, hdr |-> sink.hdr]
<1>1. CASE sink = NoTv
  <2>1. Reread = [hdmi EXCEPT !.on = FALSE, !.hdr = "none"] /\ "none" \in Hdrs
    BY <1>1 DEF Reread, Hdrs
  <2>2. hdmi \in Connector
    BY DEF TypeOK
  <2>3. Reread \in Connector /\ Reread.on = FALSE
    BY <2>1, <2>2 DEF Connector
  <2>. QED
    BY <1>1, <2>3
<1>2. CASE sink # NoTv
  <2>1. sink \in Tvs
    BY <1>2 DEF TypeOK
  <2>2. Reread = [on |-> TRUE, modes |-> sink.modes, hdr |-> sink.hdr]
    BY <1>2 DEF Reread
  <2>3. sink.modes \subseteq TvModes /\ sink.hdr \in Hdrs
    BY <2>1, TvFacts
  <2>. QED
    BY <1>2, <2>2, <2>3 DEF Connector
<1>. QED
  BY <1>1, <1>2

LEMMA SetsMode ==
    ASSUME TypeOK, NEW mode \in Names, NEW seamless \in BOOLEAN, SetMode(mode, seamless)
    PROVE  /\ crtc' \in CrtcType /\ uevents' \in Seq(Events) /\ crtc'.busy = crtc.busy
           /\ Kept \/ SetTold(mode) \/ (seamless /\ SetUntold(mode))
<1>1. /\ crtc \in CrtcType /\ uevents \in Seq(Events)
      /\ ConnectorModes \subseteq TvModes \cup {Dummy} /\ Told \in Seq(Events)
  BY ModesTyped, OfTold DEF TypeOK, CrtcType, Told
<1>2. CASE crtc.busy
  <2>1. crtc' = [crtc EXCEPT !.pending = mode] /\ uevents' = uevents
    BY <1>2 DEF SetMode, Takes
  <2>. QED
    BY <2>1, <1>1 DEF CrtcType, Kept
<1>3. CASE ~crtc.busy /\ mode \in ConnectorModes
  <2>1. /\ crtc' = [crtc EXCEPT !.mode = mode]
        /\ uevents' = IF ~seamless THEN Told ELSE uevents
    BY <1>3 DEF SetMode, Takes, Told
  <2>2. mode \in TvModes \cup {Dummy}
    BY <1>1, <1>3
  <2>3. crtc' \in CrtcType /\ crtc'.mode = mode /\ crtc'.busy = crtc.busy
    BY <2>1, <2>2, <1>1 DEF CrtcType
  <2>. QED
    BY <2>1, <2>3, <1>1, <1>3 DEF SetTold, SetUntold
<1>4. CASE ~crtc.busy /\ mode \notin ConnectorModes
  <2>1. crtc' = crtc /\ uevents' = uevents
    BY <1>4 DEF SetMode, Takes
  <2>. QED
    BY <2>1, <1>1 DEF Kept
<1>. QED
  BY <1>2, <1>3, <1>4

LEMMA KeepsKeeps ==
    ASSUME TypeOK, KeepsMode
    PROVE  /\ crtc' \in CrtcType /\ uevents' \in Seq(Events) /\ crtc'.busy = crtc.busy
           /\ Kept
BY DEF KeepsMode, Kept, TypeOK, CrtcType

-----------------------------------------------------------------------------
(* Types                                                                     *)

MgrType == [gen : Nat, modes : SUBSET Configs, latest : Names, active : Configs,
            callOnHotPlug : BOOLEAN, allm : BOOLEAN,
            fakeGroup : {0} \cup {Group[m] : m \in DOMAIN Group}]
BcType == [op : {"none", "active", "hdr", "allm"},
           pc : {"idle", "set", "policy", "wait", "hdrWait", "hdrDone"},
           config : Configs, seamless : BOOLEAN]
DispType == [connected : BOOLEAN, skip : BOOLEAN, hpd : BOOLEAN, changed : BOOLEAN,
             mode : Names, hdr : Hdrs]
EvType == [pc : Places, event : Events \cup {"none"}, sends : BOOLEAN, caps : BOOLEAN]

LEMMA TypeParts ==
    TypeOK <=> /\ sink \in Tvs \cup {NoTv} /\ uevents \in Seq(Events) /\ ev \in EvType
               /\ hdmi \in Connector /\ conn \in {"virtual", "hdmi"} /\ crtc \in CrtcType
               /\ mgr \in MgrType /\ disp \in DispType
               /\ sf \in [told : BOOLEAN, configs : SUBSET Configs] /\ bc \in BcType
BY DEF TypeOK, EvType, CrtcType, MgrType, DispType, BcType

LEMMA GroupTyped ==
    ASSUME TypeOK, NEW mode
    PROVE  GroupOf(mode) \in {0} \cup {Group[m] : m \in DOMAIN Group}
BY DEF TypeOK, GroupOf

(* The list made anew: its ids are of one generation, and the dummy mode is    *)
(* alone in it or not at all.                                                 *)
LEMMA UpdateTyped ==
    ASSUME TypeOK
    PROVE  /\ update \in MgrType /\ update.gen = mgr.gen + 1
           /\ update.active = <<update.gen, update.latest>>
           /\ update.active \in update.modes
           /\ \A config \in update.modes : config[1] = update.gen
           /\ <<update.gen, Dummy>> \in update.modes => update.modes = {update.active}
           /\ update.callOnHotPlug = mgr.callOnHotPlug
<1>. DEFINE fake == getMode \notin Reported
            latest == IF fake THEN Fake ELSE getMode
            gen == mgr.gen + 1
            names == Reported \cup {latest}
            group == IF fake THEN GroupOf(mgr.latest) ELSE mgr.fakeGroup
            modes == {<<gen, n>> : n \in names}
<1>1. update = [mgr EXCEPT !.gen = gen, !.modes = modes, !.latest = latest,
                           !.active = <<gen, latest>>, !.fakeGroup = group]
  BY DEF update
<1>2. mgr \in MgrType
  BY DEF TypeOK, MgrType
<1>3. gen \in Nat /\ names \subseteq Names /\ latest \in names /\ latest \in Names
  BY <1>2, ModesTyped DEF MgrType, Names
<1>4. group \in {0} \cup {Group[m] : m \in DOMAIN Group}
  BY <1>2, GroupTyped DEF MgrType
<1>5. Dummy \in names => names = {latest}
  <2>1. CASE ~Connected
    BY <2>1 DEF Reported
  <2>2. CASE Connected /\ mgr.allm
    <3>1. Reported = {getMode} /\ latest = getMode
      BY <2>2 DEF Reported
    <3>. QED
      BY <3>1
  <2>3. CASE Connected /\ ~mgr.allm
    <3>1. Dummy \notin Reported
      BY <2>3 DEF Reported
    <3>. QED
      BY <3>1, TvFacts
  <2>. QED
    BY <2>1, <2>2, <2>3
<1>. HIDE DEF fake, latest, gen, names, group
<1>6. modes \subseteq Configs /\ <<gen, latest>> \in Configs /\ <<gen, latest>> \in modes
  BY <1>3 DEF Configs
<1>7. \A config \in modes : config[1] = gen
  OBVIOUS
<1>8. <<gen, Dummy>> \in modes => modes = {<<gen, latest>>}
  BY <1>5
<1>. HIDE DEF modes
<1>9. /\ update \in MgrType /\ update.gen = gen /\ update.latest = latest
      /\ update.modes = modes /\ update.active = <<gen, latest>>
      /\ update.callOnHotPlug = mgr.callOnHotPlug
  BY <1>1, <1>2, <1>3, <1>4, <1>6 DEF MgrType
<1>. QED
  BY <1>9, <1>6, <1>7, <1>8 DEF gen

LEMMA TypeNext == TypeOK /\ [Next]_vars => TypeOK'
<1>. SUFFICES ASSUME TypeOK, [Next]_vars PROVE TypeOK'
  OBVIOUS
<1>0. /\ sink \in Tvs \cup {NoTv} /\ uevents \in Seq(Events) /\ ev \in EvType
      /\ hdmi \in Connector /\ conn \in {"virtual", "hdmi"} /\ crtc \in CrtcType
      /\ mgr \in MgrType /\ disp \in DispType
      /\ sf \in [told : BOOLEAN, configs : SUBSET Configs] /\ bc \in BcType
  BY TypeParts
<1>. SUFFICES /\ (sink \in Tvs \cup {NoTv})' /\ (uevents \in Seq(Events))' /\ (ev \in EvType)'
              /\ (hdmi \in Connector)' /\ (conn \in {"virtual", "hdmi"})' /\ (crtc \in CrtcType)'
              /\ (mgr \in MgrType)' /\ (disp \in DispType)'
              /\ (sf \in [told : BOOLEAN, configs : SUBSET Configs])' /\ (bc \in BcType)'
  BY DEF TypeOK, EvType, CrtcType, MgrType, DispType, BcType
<1>. USE <1>0
<1>1. ASSUME NEW pc \in Places, Goto(pc) PROVE ev' \in EvType
  BY <1>1 DEF Goto, EvType
<1>2. ASSUME Done PROVE ev' \in EvType
  BY <1>2 DEF Done, EvType, Places
<1>3. ASSUME NEW tv, uevents' = Append(uevents, tv), tv \in Events PROVE uevents' \in Seq(Events)
  BY <1>3
<1>4. CASE Plug
  BY <1>4, <1>3 DEF Plug, Events, Hot
<1>5. CASE Resume
  BY <1>5, <1>3 DEF Resume, Events, Hot
<1>6. CASE NextEvent
  <2>1. Head(uevents) \in Events /\ Tail(uevents) \in Seq(Events)
    BY <1>6, OfTail DEF NextEvent
  <2>2. ev' \in EvType
    BY <1>6, <2>1 DEF NextEvent, EvType, Places
  <2>. QED
    BY <1>6, <2>1, <2>2 DEF NextEvent
<1>7. CASE HotplugStart
  <2>1. crtc' = [crtc EXCEPT !.busy = TRUE] /\ crtc' \in CrtcType
    BY <1>7 DEF HotplugStart, CrtcType
  <2>2. (hdmi' = hdmi \/ hdmi' = Reread) /\ conn' = TargetConnector(ev.event, Reread.on)
    BY <1>7 DEF HotplugStart
  <2>3. hdmi' \in Connector /\ conn' \in {"virtual", "hdmi"}
    BY <2>2, RereadTyped DEF TargetConnector
  <2>4. Goto("pipe") \/ Goto("mode")
    BY <1>7 DEF HotplugStart
  <2>5. ev' \in EvType
    BY <2>4, <1>1 DEF Places
  <2>. QED
    BY <1>7, <2>1, <2>3, <2>5 DEF HotplugStart
<1>8. CASE PipeUpdate
  BY <1>8, <1>1, UpdateTyped DEF PipeUpdate, Places
<1>9. CASE ConnectorSettled
  <2>1. crtc' \in CrtcType
    BY <1>9 DEF ConnectorSettled, CrtcType
  <2>. QED
    BY <1>9, <2>1, <1>1 DEF ConnectorSettled, Places
<1>10. CASE PendingMode
  <2>1. PICK m \in TvModes \cup {Dummy} : crtc' = [crtc EXCEPT !.mode = m, !.pending = "none"]
    BY <1>10, ModesTyped DEF PendingMode, CrtcType
  <2>2. uevents' = Told \/ uevents' = uevents
    BY <1>10 DEF PendingMode, Told
  <2>3. crtc' \in CrtcType
    BY <2>1 DEF CrtcType
  <2>4. uevents' \in Seq(Events)
    BY <2>2, OfTold DEF Told
  <2>. QED
    BY <1>10, <2>3, <2>4, <1>1 DEF PendingMode, Places
<1>11. CASE HotplugPolicy
  <2>1. KeepsMode \/ \E mode \in Names : SetMode(mode, FALSE)
    <3>1. Dummy \in Names /\ hdmi.modes \subseteq Names
      BY ModesTyped DEF Names
    <3>. QED
      BY <1>11, <3>1 DEF HotplugPolicy
  <2>2. crtc' \in CrtcType /\ uevents' \in Seq(Events)
    BY <2>1, SetsMode, KeepsKeeps
  <2>3. mgr' \in MgrType
    BY <1>11 DEF HotplugPolicy, MgrType
  <2>. QED
    BY <1>11, <2>2, <2>3, <1>1 DEF HotplugPolicy, Places
<1>12. CASE HotplugDisplay
  <2>1. PICK b \in BOOLEAN : \/ disp' = [disp EXCEPT !.hpd = TRUE, !.connected = b]
                             \/ disp' = [disp EXCEPT !.connected = FALSE, !.skip = TRUE]
    <3>1. (disp.connected \/ conn # "hdmi") \in BOOLEAN
      OBVIOUS
    <3>. QED
      BY <1>12, <3>1 DEF HotplugDisplay, AfterHotplug
  <2>2. disp' \in DispType
    BY <2>1 DEF DispType
  <2>3. Done \/ Goto("list") \/ Goto("tell")
    BY <1>12 DEF HotplugDisplay
  <2>4. ev' \in EvType
    BY <2>3, <1>1, <1>2 DEF Places
  <2>. QED
    BY <1>12, <2>2, <2>4 DEF HotplugDisplay
<1>13. CASE HotplugList
  BY <1>13, <1>1, UpdateTyped DEF HotplugList, Places
<1>14. CASE HotplugTell
  <2>1. sf' \in [told : BOOLEAN, configs : SUBSET Configs]
    BY <1>14 DEF HotplugTell
  <2>. QED
    BY <1>14, <2>1, <1>1 DEF HotplugTell, Places
<1>15. ASSUME Wakes PROVE disp' \in DispType /\ bc' \in BcType
  <2>1. disp' \in DispType
    BY <1>15 DEF Wakes, DispType
  <2>2. bc' = bc \/ bc' = [bc EXCEPT !.pc = "idle"] \/ bc' = [bc EXCEPT !.pc = "hdrDone"]
    BY <1>15 DEF Wakes
  <2>. QED
    BY <2>1, <2>2 DEF BcType
<1>16. CASE HotplugWake
  BY <1>16, <1>15, <1>2 DEF HotplugWake
<1>17. CASE ModeBegin
  <2>1. disp' \in DispType
    BY <1>17 DEF ModeBegin, DispType
  <2>. QED
    BY <1>17, <2>1, <1>2 DEF ModeBegin
<1>18. CASE ModeStart
  <2>1. hdmi' \in Connector
    BY <1>18, RereadTyped DEF ModeStart
  <2>2. Goto("list") \/ Goto("display")
    BY <1>18 DEF ModeStart
  <2>3. ev' \in EvType
    BY <2>2, <1>1 DEF Places
  <2>. QED
    BY <1>18, <2>1, <2>3 DEF ModeStart
<1>19. CASE ModeList
  BY <1>19, <1>1, UpdateTyped DEF ModeList, Places
<1>20. CASE ModeDisplay
  <2>. DEFINE caps == IF disp.hpd THEN hdmi.hdr ELSE disp.hdr
  <2>1. caps \in Hdrs /\ getMode \in Names
    BY ModesTyped DEF Connector, DispType
  <2>2. \/ disp' = [disp EXCEPT !.connected = TRUE, !.skip = FALSE, !.mode = getMode, !.hpd = FALSE,
                                !.hdr = caps]
        \/ disp' = [disp EXCEPT !.mode = getMode, !.hdr = caps]
    BY <1>20 DEF ModeDisplay
  <2>3. disp' \in DispType
    BY <2>1, <2>2 DEF DispType
  <2>4. PICK a, b \in BOOLEAN : ev' = [ev EXCEPT !.pc = "tell", !.sends = a, !.caps = b]
    <3>1. (getMode # Dummy) \in BOOLEAN /\ (caps # disp.hdr) \in BOOLEAN
      OBVIOUS
    <3>. QED
      BY <1>20, <3>1 DEF ModeDisplay
  <2>5. ev' \in EvType
    BY <2>4 DEF EvType, Places
  <2>. QED
    BY <1>20, <2>3, <2>5 DEF ModeDisplay
<1>21. CASE ModeTell
  <2>1. sf' \in [told : BOOLEAN, configs : SUBSET Configs] /\ mgr' \in MgrType
    BY <1>21 DEF ModeTell, TellOrReset, MgrType
  <2>. QED
    BY <1>21, <2>1, <1>1 DEF ModeTell, Places
<1>22. CASE ModeWake
  BY <1>22, <1>15, <1>2 DEF ModeWake
<1>23. CASE ReadConfigs
  <2>1. sf' \in [told : BOOLEAN, configs : SUBSET Configs]
    BY <1>23 DEF ReadConfigs, MgrType
  <2>. QED
    BY <1>23, <2>1 DEF ReadConfigs
<1>24. ASSUME NEW op \in {"active", "hdr", "allm"}, NEW pc \in {"set", "policy"},
              NEW config \in Configs, NEW seamless \in BOOLEAN, Begin(op, pc, config, seamless)
       PROVE  bc' \in BcType /\ UNCHANGED <<sink, hdmi, conn, sf, ev>>
  BY <1>24 DEF Begin, BcType
<1>25. CASE SetActiveConfig
  <2>1. PICK config \in sf.configs :
            /\ Begin("active", "set", config, isSeamlessSwitch(config))
            /\ disp' = [disp EXCEPT !.changed = TRUE] /\ UNCHANGED <<uevents, crtc, mgr>>
    BY <1>25 DEF SetActiveConfig
  <2>2. config \in Configs /\ isSeamlessSwitch(config) \in BOOLEAN
    BY <2>1 DEF isSeamlessSwitch
  <2>3. disp' \in DispType
    BY <2>1 DEF DispType
  <2>. QED
    BY <2>1, <2>2, <2>3, <1>24
<1>26. ASSUME NEW pc \in {"idle", "wait", "hdrWait", "hdrDone", "policy"},
              bc' = [bc EXCEPT !.pc = pc]
       PROVE  bc' \in BcType
  BY <1>26 DEF BcType
<1>27. AfterSet \in {"idle", "wait"} /\ bc.config \in Configs /\ bc.config[2] \in Names
  BY DEF AfterSet, BcType, Configs
<1>28. CASE SetModeLocked
  <2>1. CASE bc.config \notin mgr.modes
    BY <1>28, <2>1, <1>26, <1>27, KeepsKeeps DEF SetModeLocked
  <2>2. CASE bc.config \in mgr.modes /\ isSeamlessSwitch(bc.config)
    <3>1. /\ mgr' = [mgr EXCEPT !.latest = bc.config[2], !.active = bc.config]
          /\ SetMode(bc.config[2], TRUE) /\ bc' = [bc EXCEPT !.pc = AfterSet]
      BY <1>28, <2>2 DEF SetModeLocked
    <3>2. mgr' \in MgrType
      BY <3>1, <1>27 DEF MgrType
    <3>. QED
      BY <1>28, <3>1, <3>2, <1>26, <1>27, SetsMode DEF SetModeLocked
  <2>3. CASE bc.config \in mgr.modes /\ ~isSeamlessSwitch(bc.config)
    <3>1. /\ mgr' = [mgr EXCEPT !.latest = bc.config[2], !.active = bc.config,
                                !.callOnHotPlug = FALSE]
          /\ KeepsMode /\ bc' = [bc EXCEPT !.pc = "policy"]
      BY <1>28, <2>3 DEF SetModeLocked
    <3>2. mgr' \in MgrType
      BY <3>1, <1>27 DEF MgrType
    <3>. QED
      BY <1>28, <3>1, <3>2, <1>26, KeepsKeeps DEF SetModeLocked
  <2>. QED
    BY <2>1, <2>2, <2>3
<1>29. CASE PolicySets
  BY <1>29, <1>26, <1>27, SetsMode, KeepsKeeps DEF PolicySets
<1>30. CASE SetHdrStrategy
  <2>1. <<0, getMode>> \in Configs
    BY ModesTyped DEF Configs
  <2>2. mgr' \in MgrType
    BY <1>30 DEF SetHdrStrategy, MgrType
  <2>. QED
    BY <1>30, <2>1, <2>2, <1>24 DEF SetHdrStrategy
<1>31. CASE HdrPolicy
  BY <1>31, <1>26, <1>27, SetsMode, KeepsKeeps DEF HdrPolicy
<1>32. CASE HdrDone
  <2>1. mgr' \in MgrType
    BY <1>32 DEF HdrDone, MgrType
  <2>. QED
    BY <1>32, <2>1, <1>26 DEF HdrDone
<1>33. CASE Timeout
  BY <1>33, <1>26 DEF Timeout
<1>34. CASE SetAllm
  <2>1. PICK on \in BOOLEAN, mode \in hdmi.modes :
            /\ Begin("allm", "policy", <<0, mode>>, FALSE)
            /\ mgr' = [mgr EXCEPT !.callOnHotPlug = TRUE, !.allm = on]
    BY <1>34 DEF SetAllm
  <2>2. <<0, mode>> \in Configs
    BY ModesTyped DEF Configs, Names
  <2>3. mgr' \in MgrType
    BY <2>1 DEF MgrType
  <2>. QED
    BY <1>34, <2>1, <2>2, <2>3, <1>24 DEF SetAllm
<1>35. CASE AllmPolicy
  BY <1>35, <1>26, <1>27, SetsMode DEF AllmPolicy
<1>36. CASE UNCHANGED vars
  BY <1>36 DEF vars
<1>. QED
  BY <1>4, <1>5, <1>6, <1>7, <1>8, <1>9, <1>10, <1>11, <1>12, <1>13, <1>14, <1>16, <1>17, <1>18,
     <1>19, <1>20, <1>21, <1>22, <1>23, <1>25, <1>28, <1>29, <1>30, <1>31, <1>32, <1>33, <1>34,
     <1>35, <1>36 DEF Next

-----------------------------------------------------------------------------
(* The ids                                                                   *)

(* The configurations of an older list are not of the new one.                *)
LEMMA IdsOfUpdate ==
    ASSUME TypeOK, Ids, mgr' = update, UNCHANGED <<sf, bc>>
    PROVE  Ids'
<1>1. /\ mgr'.gen = mgr.gen + 1 /\ mgr.gen \in Nat
      /\ mgr'.active = <<mgr'.gen, mgr'.latest>> /\ mgr'.active \in mgr'.modes
      /\ \A config \in mgr'.modes : config[1] = mgr'.gen
      /\ <<mgr'.gen, Dummy>> \in mgr'.modes => mgr'.modes = {mgr'.active}
  BY UpdateTyped DEF TypeOK
<1>2. ASSUME NEW config \in sf'.configs PROVE config[1] <= mgr'.gen
  <2>1. config[1] <= mgr.gen /\ config[1] \in Nat
    BY DEF Ids, TypeOK, Configs
  <2>. QED
    BY <2>1, <1>1
<1>3. ASSUME bc'.pc = "set" PROVE bc'.config[1] <= mgr'.gen /\ bc'.config # mgr'.active
  <2>1. bc.config[1] <= mgr.gen /\ bc.config[1] \in Nat /\ mgr'.active[1] = mgr.gen + 1
    BY <1>1, <1>3 DEF Ids, TypeOK, Configs
  <2>. QED
    BY <2>1, <1>1
<1>. QED
  BY <1>1, <1>2, <1>3 DEF Ids

LEMMA AskedIsNoDummy ==
    ASSUME TypeOK, Ids, bc.pc = "set", bc.config \in mgr.modes
    PROVE  /\ bc.config[2] # Dummy /\ bc.config = <<mgr.gen, bc.config[2]>>
           /\ <<mgr.gen, Dummy>> \notin mgr.modes
<1>1. bc.config \in Configs /\ bc.config[1] = mgr.gen /\ bc.config # mgr.active
  BY DEF Ids, TypeOK
<1>2. bc.config = <<mgr.gen, bc.config[2]>>
  BY <1>1 DEF Configs
<1>3. mgr.modes # {mgr.active}
  BY <1>1
<1>. QED
  BY <1>2, <1>3 DEF Ids

LEMMA IdsNext == TypeOK /\ Ids /\ [Next]_vars => Ids'
<1>. SUFFICES ASSUME TypeOK, Ids, [Next]_vars PROVE Ids'
  OBVIOUS
<1>1. CASE UNCHANGED <<mgr, sf, bc>>
  BY <1>1 DEF Ids
<1>2. CASE mgr' = update /\ UNCHANGED <<sf, bc>>
  BY <1>2, IdsOfUpdate
<1>. DEFINE Kin == /\ mgr'.gen = mgr.gen /\ mgr'.modes = mgr.modes /\ mgr'.latest = mgr.latest
                   /\ mgr'.active = mgr.active
<1>3. ASSUME NEW b, \/ mgr' = mgr \/ mgr' = [mgr EXCEPT !.allm = b]
                    \/ mgr' = [mgr EXCEPT !.callOnHotPlug = b]
                    \/ \E on : mgr' = [mgr EXCEPT !.callOnHotPlug = b, !.allm = on]
      PROVE  Kin
  BY <1>3 DEF TypeOK
<1>4. ASSUME Kin, sf'.configs = sf.configs \/ sf'.configs = mgr.modes,
             bc'.pc = "set" => bc'.config = bc.config /\ bc.pc = "set"
      PROVE  Ids'
  <2>1. \A config \in sf'.configs : config[1] <= mgr'.gen
    BY <1>4 DEF Ids, TypeOK
  <2>. QED
    BY <2>1, <1>4 DEF Ids
<1>. HIDE DEF Kin
<1>5. ASSUME NEW pc, bc' = [bc EXCEPT !.pc = pc], pc # "set" PROVE bc'.pc # "set"
  BY <1>5 DEF TypeOK
<1>6. CASE HotplugPolicy
  BY <1>6, <1>3, <1>4 DEF HotplugPolicy
<1>7. CASE HotplugTell
  <2>1. sf'.configs = sf.configs /\ mgr' = mgr /\ bc' = bc
    BY <1>7 DEF HotplugTell, TypeOK
  <2>. QED
    BY <2>1, <1>3, <1>4
<1>8. ASSUME Wakes, UNCHANGED <<mgr, sf>> PROVE Ids'
  <2>1. bc' = bc \/ bc' = [bc EXCEPT !.pc = "idle"] \/ bc' = [bc EXCEPT !.pc = "hdrDone"]
    BY <1>8 DEF Wakes
  <2>2. bc'.pc = "set" => bc' = bc
    BY <2>1 DEF TypeOK
  <2>. QED
    BY <2>2, <1>3, <1>4, <1>8
<1>9. CASE ModeTell
  <2>1. sf'.configs = sf.configs /\ bc' = bc
    BY <1>9 DEF ModeTell, TellOrReset, TypeOK
  <2>2. mgr' = mgr \/ mgr' = [mgr EXCEPT !.callOnHotPlug = TRUE]
    BY <1>9 DEF ModeTell, TellOrReset
  <2>. QED
    BY <2>1, <2>2, <1>3, <1>4
<1>10. CASE ReadConfigs
  <2>1. sf'.configs = mgr.modes /\ mgr' = mgr /\ bc' = bc
    BY <1>10 DEF ReadConfigs
  <2>. QED
    BY <2>1, <1>3, <1>4
<1>11. CASE SetActiveConfig
  <2>1. PICK config \in sf.configs :
            /\ config # mgr.active
            /\ Begin("active", "set", config, isSeamlessSwitch(config)) /\ mgr' = mgr
    BY <1>11 DEF SetActiveConfig
  <2>2. sf' = sf /\ bc'.config = config
    BY <2>1 DEF Begin
  <2>. QED
    BY <2>1, <2>2 DEF Ids
<1>12. CASE SetModeLocked
  <2>0. /\ sf' = sf /\ AfterSet # "set" /\ bc.pc = "set"
        /\ mgr \in MgrType /\ bc \in BcType
    BY <1>12 DEF SetModeLocked, AfterSet, TypeOK, MgrType, BcType
  <2>1. CASE bc.config \notin mgr.modes
    <3>1. mgr' = mgr /\ bc' = [bc EXCEPT !.pc = AfterSet]
      BY <1>12, <2>1 DEF SetModeLocked
    <3>. QED
      BY <3>1, <2>0, <1>3, <1>4, <1>5
  <2>2. CASE bc.config \in mgr.modes
    <3>1. \/ mgr' = [mgr EXCEPT !.latest = bc.config[2], !.active = bc.config]
          \/ mgr' = [mgr EXCEPT !.latest = bc.config[2], !.active = bc.config,
                                !.callOnHotPlug = FALSE]
      BY <1>12, <2>2 DEF SetModeLocked
    <3>2. bc'.pc # "set"
      <4>1. bc' = [bc EXCEPT !.pc = AfterSet] \/ bc' = [bc EXCEPT !.pc = "policy"]
        BY <1>12, <2>2 DEF SetModeLocked
      <4>. QED
        BY <4>1, <2>0, <1>5
    <3>3. /\ mgr'.gen = mgr.gen /\ mgr'.modes = mgr.modes /\ mgr'.latest = bc.config[2]
          /\ mgr'.active = bc.config
      BY <3>1, <2>0 DEF MgrType
    <3>. QED
      BY <3>2, <3>3, <2>0, <2>2, AskedIsNoDummy DEF Ids
  <2>. QED
    BY <2>1, <2>2
<1>13. CASE PolicySets
  <2>1. bc'.pc # "set" /\ mgr' = mgr /\ sf' = sf
    BY <1>13, <1>5 DEF PolicySets, AfterSet
  <2>. QED
    BY <2>1, <1>3, <1>4
<1>14. CASE SetHdrStrategy
  <2>1. bc'.pc # "set" /\ sf' = sf /\ mgr' = [mgr EXCEPT !.callOnHotPlug = FALSE]
    BY <1>14 DEF SetHdrStrategy, Begin
  <2>. QED
    BY <2>1, <1>3, <1>4
<1>15. CASE HdrPolicy
  <2>1. bc'.pc # "set" /\ mgr' = mgr /\ sf' = sf
    BY <1>15, <1>5 DEF HdrPolicy
  <2>. QED
    BY <2>1, <1>3, <1>4
<1>16. CASE HdrDone
  <2>1. bc'.pc # "set" /\ sf' = sf /\ mgr' = [mgr EXCEPT !.callOnHotPlug = TRUE]
    BY <1>16, <1>5 DEF HdrDone
  <2>. QED
    BY <2>1, <1>3, <1>4
<1>17. CASE Timeout
  <2>1. bc'.pc # "set" /\ mgr' = mgr /\ sf' = sf
    BY <1>17, <1>5 DEF Timeout
  <2>. QED
    BY <2>1, <1>3, <1>4
<1>18. CASE SetAllm
  <2>1. PICK on \in BOOLEAN, mode \in hdmi.modes :
            /\ Begin("allm", "policy", <<0, mode>>, FALSE)
            /\ mgr' = [mgr EXCEPT !.callOnHotPlug = TRUE, !.allm = on]
    BY <1>18 DEF SetAllm
  <2>2. bc'.pc # "set" /\ sf' = sf
    BY <2>1 DEF Begin
  <2>. QED
    BY <2>1, <2>2, <1>3, <1>4
<1>19. CASE AllmPolicy
  <2>1. bc'.pc # "set" /\ mgr' = mgr /\ sf' = sf
    BY <1>19, <1>5 DEF AllmPolicy
  <2>. QED
    BY <2>1, <1>3, <1>4
<1>20. CASE Plug \/ Resume \/ NextEvent \/ HotplugStart \/ ConnectorSettled \/ PendingMode
            \/ HotplugDisplay \/ ModeBegin \/ ModeStart \/ ModeDisplay \/ UNCHANGED vars
  BY <1>20, <1>1 DEF Plug, Resume, NextEvent, HotplugStart, ConnectorSettled, PendingMode,
     HotplugDisplay, ModeBegin, ModeStart, ModeDisplay, vars
<1>21. CASE PipeUpdate \/ HotplugList \/ ModeList
  BY <1>21, <1>2 DEF PipeUpdate, HotplugList, ModeList
<1>22. CASE HotplugWake \/ ModeWake
  BY <1>22, <1>8 DEF HotplugWake, ModeWake
<1>. QED
  BY <1>6, <1>7, <1>9, <1>10, <1>11, <1>12, <1>13, <1>14, <1>15, <1>16, <1>17, <1>18, <1>19,
     <1>20, <1>21, <1>22 DEF Next

-----------------------------------------------------------------------------
(* Events, connector and driver                                              *)

HotOK ==
    /\ LastAgrees /\ Followed /\ OutIsVirtual /\ BusyEarly /\ Driven /\ Completed /\ CapsRead

(* Nothing that the event thread's invariant is about moves but the driver.   *)
Aside ==
    /\ UNCHANGED <<sink, ev, hdmi, conn>> /\ crtc'.busy = crtc.busy
    /\ disp'.skip = disp.skip /\ disp'.hpd = disp.hpd /\ disp'.hdr = disp.hdr

Drives ==
    \/ Kept
    \/ \E mode \in Names : SetTold(mode)
    \/ \E mode \in Names : SetUntold(mode) /\ mode # Dummy

LEMMA DriverStep ==
    ASSUME TypeOK, HotOK, Aside, Drives
    PROVE  HotOK' /\ (Skips /\ Announced => Skips')
<1>. USE DEF At
<1>1. /\ HasHot(uevents') <=> HasHot(uevents)
      /\ LastTells(uevents, sink) => LastTells(uevents', sink)
      /\ \A x : Has(uevents, x) => Has(uevents', x)
      /\ Paired(uevents) => Paired(uevents')
      /\ uevents' = uevents \/ (Has(uevents', "begin") /\ Has(uevents', "complete"))
  BY OfTold DEF Drives, Kept, SetTold, SetUntold, Told, TypeOK
<1>2. crtc'.mode = crtc.mode \/ (crtc'.mode \in ConnectorModes /\ ~crtc'.busy)
  BY DEF Drives, Kept, SetTold, SetUntold
<1>3. uevents' = uevents => crtc'.mode = crtc.mode \/ crtc'.mode # Dummy
  BY OfTold DEF Drives, Kept, SetTold, SetUntold, Told, TypeOK
<1>4. /\ HotDue' <=> HotDue
      /\ MidHot' <=> MidHot
      /\ HotEnds' <=> HotEnds
  BY <1>1 DEF HotDue, MidHot, HotEnds, Aside
<1>5. /\ conn = "virtual" => crtc'.mode = crtc.mode \/ crtc'.mode = Dummy
      /\ conn = "hdmi" => crtc'.mode = crtc.mode \/ crtc'.mode # Dummy
  BY <1>2, ModesTyped DEF ConnectorModes
<1>6. LastAgrees'
  BY <1>1 DEF HotOK, LastAgrees, Aside
<1>7. Followed' /\ OutIsVirtual' /\ BusyEarly' /\ CapsRead'
  BY <1>4 DEF HotOK, Followed, OutIsVirtual, BusyEarly, CapsRead, Aside
<1>8. Driven'
  BY <1>4, <1>5 DEF HotOK, Driven, Aside
<1>9. Completed'
  BY <1>1 DEF HotOK, Completed, Aside
<1>10. ASSUME Skips, Announced PROVE Skips'
  <2>1. CompleteDue => CompleteDue'
    BY <1>1 DEF CompleteDue, Aside
  <2>2. BeginDue => BeginDue'
    BY <1>1 DEF BeginDue, Aside
  <2>3. CASE uevents' = uevents
    <3>1. crtc'.mode # Dummy => crtc.mode # Dummy
      BY <2>3, <1>10 DEF Announced
    <3>2. crtc'.mode = Dummy => crtc.mode = Dummy
      BY <2>3, <1>3
    <3>. QED
      BY <3>1, <3>2, <2>1, <2>2, <1>10 DEF Skips, Aside
  <2>4. CASE Has(uevents', "begin") /\ Has(uevents', "complete")
    BY <2>4 DEF Skips, BeginDue, CompleteDue
  <2>. QED
    BY <2>3, <2>4, <1>1
<1>. QED
  BY <1>6, <1>7, <1>8, <1>9, <1>10 DEF HotOK

(* The binder thread.                                                         *)
BinderStep ==
    \/ ReadConfigs \/ SetActiveConfig \/ SetModeLocked \/ PolicySets
    \/ SetHdrStrategy \/ HdrPolicy \/ HdrDone \/ Timeout \/ SetAllm \/ AllmPolicy

LEMMA BinderDrives ==
    ASSUME TypeOK, Ids, BinderStep
    PROVE  Aside /\ Drives
<1>1. CASE UNCHANGED <<sink, uevents, ev, hdmi, conn, crtc, disp>>
  BY <1>1 DEF Aside, Drives, Kept
<1>2. ASSUME UNCHANGED <<sink, ev, hdmi, conn, disp>>, crtc'.busy = crtc.busy PROVE Aside
  BY <1>2 DEF Aside
<1>3. bc.config[2] \in Names
  BY DEF TypeOK, Configs
<1>4. ASSUME SetMode(bc.config[2], FALSE) PROVE crtc'.busy = crtc.busy /\ Drives
  BY <1>3, <1>4, SetsMode DEF Drives
<1>5. ASSUME KeepsMode PROVE crtc'.busy = crtc.busy /\ Drives
  BY <1>5, KeepsKeeps DEF Drives
<1>6. CASE ReadConfigs
  BY <1>6, <1>1 DEF ReadConfigs
<1>7. CASE SetActiveConfig
  <2>1. /\ UNCHANGED <<sink, hdmi, conn, ev, uevents, crtc>>
        /\ disp' = [disp EXCEPT !.changed = TRUE]
    BY <1>7 DEF SetActiveConfig, Begin
  <2>. QED
    BY <2>1 DEF Aside, Drives, Kept, TypeOK
<1>8. CASE SetModeLocked
  <2>0. UNCHANGED <<sink, ev, hdmi, conn, disp>> /\ bc.pc = "set"
    BY <1>8 DEF SetModeLocked
  <2>1. CASE KeepsMode
    BY <2>0, <2>1, <1>2, <1>5
  <2>2. CASE SetMode(bc.config[2], TRUE) /\ bc.config \in mgr.modes
    <3>1. bc.config[2] # Dummy
      BY <2>0, <2>2, AskedIsNoDummy
    <3>2. crtc'.busy = crtc.busy /\ (Kept \/ SetTold(bc.config[2]) \/ SetUntold(bc.config[2]))
      BY <2>2, <1>3, SetsMode
    <3>. QED
      BY <3>1, <3>2, <2>0, <1>2, <1>3 DEF Drives
  <2>. QED
    BY <2>1, <2>2, <1>8 DEF SetModeLocked
<1>9. CASE PolicySets
  BY <1>9, <1>2, <1>4, <1>5 DEF PolicySets
<1>10. CASE SetHdrStrategy
  BY <1>10, <1>1 DEF SetHdrStrategy, Begin
<1>11. CASE HdrPolicy
  BY <1>11, <1>2, <1>4, <1>5 DEF HdrPolicy
<1>12. CASE HdrDone \/ Timeout
  BY <1>12, <1>1 DEF HdrDone, Timeout
<1>13. CASE SetAllm
  BY <1>13, <1>1 DEF SetAllm, Begin
<1>14. CASE AllmPolicy
  BY <1>14, <1>2, <1>4 DEF AllmPolicy
<1>. QED
  BY <1>6, <1>7, <1>8, <1>9, <1>10, <1>11, <1>12, <1>13, <1>14 DEF BinderStep

-----------------------------------------------------------------------------
(* The kernel                                                                *)

LEMMA PlugStep ==
    ASSUME TypeOK, HotOK, Plug \/ Resume
    PROVE  HotOK' /\ (Skips => Skips')
<1>. USE DEF At
<1>1. PICK e \in Hot : /\ uevents' = Append(uevents, e) /\ Agrees(e, sink')
                       /\ UNCHANGED <<ev, hdmi, conn, crtc, disp>>
  <2>1. CASE Plug
    <3>1. PICK tv \in Tvs \cup {NoTv} :
            /\ (tv = NoTv) # (sink = NoTv) /\ sink' = tv
            /\ uevents' = Append(uevents, IF tv = NoTv THEN "out" ELSE "in")
      BY <2>1 DEF Plug
    <3>2. UNCHANGED <<ev, hdmi, conn, crtc, disp>>
      BY <2>1 DEF Plug
    <3>. QED
      BY <3>1, <3>2 DEF Hot, Agrees
  <2>2. CASE Resume
    BY <2>2 DEF Resume, Hot, Agrees
  <2>. QED
    BY <2>1, <2>2
<1>2. /\ HasHot(uevents') /\ LastTells(uevents', sink')
      /\ \A x : Has(uevents, x) => Has(uevents', x)
      /\ Paired(uevents) => Paired(uevents')
  BY <1>1, OfAppend DEF TypeOK, Events
<1>3. HotDue' /\ (MidHot' <=> MidHot)
  BY <1>1, <1>2 DEF HotDue, MidHot
<1>4. LastAgrees' /\ Followed' /\ OutIsVirtual' /\ BusyEarly' /\ CapsRead' /\ Completed'
  BY <1>1, <1>2, <1>3 DEF HotOK, LastAgrees, Followed, OutIsVirtual, BusyEarly, CapsRead, Completed
<1>5. Driven'
  BY <1>1, <1>3 DEF HotOK, Driven
<1>6. Skips => Skips'
  BY <1>1, <1>2 DEF Skips, BeginDue, CompleteDue
<1>. QED
  BY <1>4, <1>5, <1>6 DEF HotOK

LEMMA NextEventStep ==
    ASSUME TypeOK, HotOK, NextEvent
    PROVE  HotOK' /\ (Skips => Skips')
<1>. DEFINE e == Head(uevents)
<1>1. /\ ev.pc = "idle" /\ ev'.pc = "start" /\ ev'.event = e /\ uevents' = Tail(uevents)
      /\ UNCHANGED <<sink, hdmi, conn, crtc, mgr, disp>>
  BY DEF NextEvent, TypeOK
<1>2. /\ e \in Events /\ uevents' \in Seq(Events)
      /\ HasHot(uevents) <=> e \in Hot \/ HasHot(uevents')
      /\ LastTells(uevents, sink) =>
            LastTells(uevents', sink) /\ (e \in Hot /\ ~HasHot(uevents') => Agrees(e, sink))
      /\ \A x : Has(uevents, x) <=> e = x \/ Has(uevents', x)
      /\ Paired(uevents) => Paired(uevents') /\ (e = "begin" => Has(uevents', "complete"))
  BY <1>1, OfTail DEF NextEvent, TypeOK
<1>. HIDE DEF e
<1>3. HotDue' <=> HotDue
  BY <1>1, <1>2 DEF HotDue, At
<1>4. ~MidHot /\ ~MidHot' /\ ~HotEnds /\ ~HotEnds'
  BY <1>1 DEF MidHot, HotEnds, At
<1>5. LastAgrees'
  BY <1>1, <1>2 DEF HotOK, LastAgrees, At
<1>6. Followed' /\ CapsRead' /\ Driven'
  BY <1>1, <1>3, <1>4 DEF HotOK, Followed, CapsRead, Driven
<1>7. OutIsVirtual' /\ BusyEarly'
  BY <1>1 DEF HotOK, OutIsVirtual, BusyEarly, At
<1>8. Completed'
  BY <1>1, <1>2 DEF HotOK, Completed, At
<1>9. ASSUME Skips PROVE Skips'
  <2>1. CompleteDue => CompleteDue'
    BY <1>1, <1>2 DEF CompleteDue, At
  <2>2. BeginDue => BeginDue'
    BY <1>1, <1>2 DEF BeginDue, At
  <2>. QED
    BY <2>1, <2>2, <1>1, <1>9 DEF Skips
<1>. QED
  BY <1>5, <1>6, <1>7, <1>8, <1>9 DEF HotOK

-----------------------------------------------------------------------------
(* The event thread in a hotplug                                             *)

LEMMA HotplugStartStep ==
    ASSUME TypeOK, HotOK, HotplugStart
    PROVE  HotOK' /\ (Skips => Skips')
<1>1. /\ ev.pc = "start" /\ ev.event \in Hot /\ ev'.event = ev.event
      /\ ev'.pc \in {"pipe", "mode"}
      /\ UNCHANGED <<sink, uevents, disp>> /\ crtc'.mode = crtc.mode
      /\ conn' = TargetConnector(ev.event, Reread.on)
      /\ conn' = "hdmi" \/ ev.event = "resume" => hdmi' = Reread
  BY DEF HotplugStart, At, Goto, TypeOK, Hot
<1>2. /\ Reread.on = (sink # NoTv)
      /\ sink # NoTv => Reread = [on |-> TRUE, modes |-> sink.modes, hdr |-> sink.hdr]
  BY RereadTyped
<1>3. (HotDue' <=> HasHot(uevents)) /\ MidHot' /\ HotDue
  BY <1>1 DEF HotDue, MidHot, At
<1>4. ~HasHot(uevents) => Agrees(ev.event, sink)
  BY <1>1 DEF HotOK, LastAgrees, At
<1>5. Followed'
  <2>. SUFFICES ASSUME ~HasHot(uevents)
                PROVE  /\ (conn' = "virtual") = (sink = NoTv)
                       /\ sink # NoTv =>
                            hdmi' = [on |-> TRUE, modes |-> sink.modes, hdr |-> sink.hdr]
    BY <1>1, <1>3 DEF Followed
  <2>1. conn' \in {"virtual", "hdmi"} /\ ((conn' = "virtual") = (sink = NoTv))
    BY <1>1, <1>2, <1>4 DEF Agrees, TargetConnector, Hot
  <2>. QED
    BY <2>1, <1>1, <1>2
<1>6. LastAgrees' /\ Completed'
  BY <1>1 DEF HotOK, LastAgrees, Completed, At
<1>7. OutIsVirtual'
  BY <1>1 DEF OutIsVirtual, TargetConnector
<1>8. BusyEarly'
  BY <1>1 DEF BusyEarly, At
<1>9. Driven' /\ CapsRead'
  BY <1>3 DEF Driven, CapsRead
<1>10. Skips => Skips'
  BY <1>1 DEF Skips, CompleteDue, BeginDue, At, Hot
<1>. QED
  BY <1>5, <1>6, <1>7, <1>8, <1>9, <1>10 DEF HotOK

(* From the mode list to the policy.                                          *)
Readies ==
    /\ ev.event \in Hot /\ ev'.event = ev.event
    /\ ev.pc \in {"pipe", "mode", "pending"} /\ ev'.pc \in {"mode", "pending", "policy"}
    /\ UNCHANGED <<sink, hdmi, conn, disp>>
    /\ crtc'.busy => ev'.pc = "mode"
    /\ Kept \/ uevents' = Told

LEMMA ReadyStep ==
    ASSUME TypeOK, HotOK, Readies
    PROVE  HotOK' /\ (Skips => Skips')
<1>0. Kept \/ uevents' = Told
  BY DEF Readies
<1>1. /\ HasHot(uevents') <=> HasHot(uevents)
      /\ LastTells(uevents, sink) => LastTells(uevents', sink)
      /\ \A x : Has(uevents, x) => Has(uevents', x)
      /\ Paired(uevents) => Paired(uevents')
      /\ Kept \/ (Has(uevents', "begin") /\ Has(uevents', "complete"))
  BY <1>0, OfTold DEF Kept, Told, TypeOK
<1>2. (HotDue' <=> HotDue) /\ MidHot'
  BY <1>1 DEF HotDue, MidHot, Readies, At
<1>3. LastAgrees' /\ Completed'
  BY <1>1 DEF HotOK, LastAgrees, Completed, Readies, At
<1>4. Followed'
  BY <1>2 DEF HotOK, Followed, Readies
<1>5. OutIsVirtual'
  BY DEF HotOK, OutIsVirtual, Readies
<1>6. BusyEarly'
  BY DEF BusyEarly, Readies, At
<1>7. Driven' /\ CapsRead'
  BY <1>2 DEF Driven, CapsRead
<1>8. ASSUME Skips PROVE Skips'
  <2>1. (CompleteDue => CompleteDue') /\ (BeginDue => BeginDue')
    BY <1>1 DEF CompleteDue, BeginDue, Readies, At, Hot
  <2>2. CASE Kept
    BY <2>1, <2>2, <1>8 DEF Skips, Kept, Readies
  <2>3. CASE Has(uevents', "begin") /\ Has(uevents', "complete")
    BY <2>3 DEF Skips, CompleteDue, BeginDue
  <2>. QED
    BY <2>2, <2>3, <1>1
<1>. QED
  BY <1>3, <1>4, <1>5, <1>6, <1>7, <1>8 DEF HotOK

LEMMA PipeUpdateStep == ASSUME TypeOK, HotOK, PipeUpdate PROVE HotOK' /\ (Skips => Skips')
<1>1. Readies
  BY DEF PipeUpdate, Readies, At, Goto, Kept, Hot, TypeOK
<1>. QED
  BY <1>1, ReadyStep

LEMMA ConnectorSettledStep ==
    ASSUME TypeOK, HotOK, ConnectorSettled PROVE HotOK' /\ (Skips => Skips')
<1>1. Readies
  BY DEF ConnectorSettled, Readies, At, Goto, Kept, Hot, TypeOK
<1>. QED
  BY <1>1, ReadyStep

LEMMA PendingModeStep == ASSUME TypeOK, HotOK, PendingMode PROVE HotOK' /\ (Skips => Skips')
<1>1. /\ ev.event \in Hot /\ ev'.event = ev.event /\ ev.pc = "pending" /\ ev'.pc = "policy"
      /\ UNCHANGED <<sink, hdmi, conn, disp>>
  BY DEF PendingMode, At, Goto, Hot, TypeOK
<1>2. ~crtc.busy
  BY <1>1 DEF HotOK, BusyEarly, At
<1>3. ~crtc'.busy /\ (Kept \/ uevents' = Told)
  BY <1>2 DEF PendingMode, Kept, Told, TypeOK
<1>. QED
  BY <1>1, <1>3, ReadyStep DEF Readies

LEMMA HotplugPolicyStep ==
    ASSUME TypeOK, HotOK, HotplugPolicy
    PROVE  HotOK' /\ (Skips => Skips')
<1>1. /\ ev.event \in Hot /\ ev'.event = ev.event /\ ev.pc = "policy" /\ ev'.pc = "display"
      /\ UNCHANGED <<sink, hdmi, conn, disp>>
  BY DEF HotplugPolicy, At, Goto, Hot, TypeOK
<1>2. ~crtc.busy /\ getMode = crtc.mode
  BY <1>1 DEF HotOK, BusyEarly, At, getMode
<1>3. PICK mode \in Names : KeepsMode \/ SetMode(mode, FALSE)
  BY ModesTyped DEF HotplugPolicy, Names
<1>4. ~crtc'.busy /\ (Kept \/ uevents' = Told)
  BY <1>2, <1>3, SetsMode, KeepsKeeps DEF SetTold
<1>5. conn = "virtual" => crtc'.mode = Dummy
  <2>. SUFFICES ASSUME conn = "virtual" PROVE crtc'.mode = Dummy
    OBVIOUS
  <2>1. CASE crtc.mode = Dummy /\ KeepsMode
    BY <2>1 DEF KeepsMode
  <2>2. CASE SetMode(Dummy, FALSE)
    <3>1. Takes(Dummy)
      BY <1>2 DEF Takes, ConnectorModes
    <3>. QED
      BY <3>1, <2>2, <1>2 DEF SetMode, TypeOK
  <2>. QED
    BY <2>1, <2>2, <1>2 DEF HotplugPolicy
<1>6. conn = "hdmi" /\ hdmi.on => crtc'.mode # Dummy
  <2>. SUFFICES ASSUME conn = "hdmi", hdmi.on PROVE crtc'.mode # Dummy
    OBVIOUS
  <2>1. PICK m \in hdmi.modes : (m = crtc.mode /\ KeepsMode) \/ SetMode(m, FALSE)
    BY <1>2 DEF HotplugPolicy
  <2>2. m # Dummy /\ Takes(m)
    BY <1>2, ModesTyped, TvFacts DEF Takes, ConnectorModes
  <2>. QED
    BY <2>1, <2>2, <1>2 DEF SetMode, KeepsMode, TypeOK
<1>7. /\ HasHot(uevents') <=> HasHot(uevents)
      /\ LastTells(uevents, sink) => LastTells(uevents', sink)
      /\ \A x : Has(uevents, x) => Has(uevents', x)
      /\ Paired(uevents) => Paired(uevents')
      /\ Kept \/ (Has(uevents', "begin") /\ Has(uevents', "complete"))
  BY <1>4, OfTold DEF Kept, Told, TypeOK
<1>8. (HotDue' <=> HotDue) /\ HotEnds'
  BY <1>1, <1>7 DEF HotDue, HotEnds, At
<1>9. LastAgrees' /\ Completed'
  BY <1>1, <1>7 DEF HotOK, LastAgrees, Completed, At
<1>10. Followed'
  BY <1>1, <1>8 DEF HotOK, Followed
<1>11. OutIsVirtual' /\ BusyEarly'
  BY <1>1, <1>4 DEF HotOK, OutIsVirtual, BusyEarly
<1>12. Driven'
  <2>1. ~HotDue /\ conn = "hdmi" => hdmi.on
    BY DEF HotOK, Followed
  <2>. QED
    BY <2>1, <1>1, <1>5, <1>6, <1>8 DEF Driven
<1>13. CapsRead'
  BY <1>8 DEF CapsRead
<1>14. ASSUME Skips PROVE Skips'
  <2>1. (CompleteDue => CompleteDue') /\ (BeginDue => BeginDue')
    BY <1>1, <1>7 DEF CompleteDue, BeginDue, At, Hot
  <2>2. CASE Kept
    BY <2>1, <2>2, <1>1, <1>14 DEF Skips, Kept
  <2>3. CASE Has(uevents', "begin") /\ Has(uevents', "complete")
    BY <2>3 DEF Skips, CompleteDue, BeginDue
  <2>. QED
    BY <2>2, <2>3, <1>7
<1>. QED
  BY <1>9, <1>10, <1>11, <1>12, <1>13, <1>14 DEF HotOK

LEMMA HotplugDisplayStep ==
    ASSUME TypeOK, HotOK, HotplugDisplay
    PROVE  HotOK' /\ (Skips => Skips')
<1>1. /\ ev.event \in Hot /\ ev'.event = ev.event /\ ev.pc = "display"
      /\ ev'.pc \in {"idle", "list", "tell"} /\ (ev.event # "out" => ev'.pc = "idle")
      /\ UNCHANGED <<sink, uevents, hdmi, conn, crtc>>
      /\ IF ev.event = "out" THEN disp'.skip = TRUE ELSE disp'.skip = disp.skip /\ disp'.hpd = TRUE
  BY DEF HotplugDisplay, AfterHotplug, At, Goto, Done, Hot, TypeOK
<1>2. (HotDue' <=> HotDue) /\ ~MidHot /\ ~MidHot'
  BY <1>1 DEF HotDue, MidHot, At
<1>3. LastAgrees' /\ Completed'
  BY <1>1 DEF HotOK, LastAgrees, Completed, At
<1>4. Followed' /\ Driven'
  BY <1>1, <1>2 DEF HotOK, Followed, Driven
<1>5. ev.event = "out" => conn = "virtual" /\ crtc.mode = Dummy
  BY <1>1, <1>2 DEF HotOK, OutIsVirtual, Driven
<1>6. OutIsVirtual' /\ BusyEarly'
  BY <1>1, <1>5 DEF HotOK, OutIsVirtual, BusyEarly, At
<1>7. CapsRead'
  BY <1>1, <1>2, <1>5 DEF HotOK, Followed, CapsRead
<1>8. ASSUME Skips PROVE Skips'
  <2>1. (CompleteDue => CompleteDue') /\ (BeginDue => BeginDue')
    BY <1>1 DEF CompleteDue, BeginDue, At, Hot
  <2>. QED
    BY <2>1, <1>1, <1>5, <1>8 DEF Skips
<1>. QED
  BY <1>3, <1>4, <1>6, <1>7, <1>8 DEF HotOK

-----------------------------------------------------------------------------
(* A mode change                                                             *)

LEMMA ModeBeginStep == ASSUME TypeOK, HotOK, ModeBegin PROVE HotOK' /\ (Skips => Skips')
<1>1. /\ ev.event = "begin" /\ ev.pc = "start" /\ ev'.pc = "idle"
      /\ UNCHANGED <<sink, uevents, hdmi, conn, crtc>>
      /\ disp'.skip = TRUE /\ disp'.hpd = disp.hpd /\ disp'.hdr = disp.hdr
  BY DEF ModeBegin, At, Done, TypeOK
<1>2. (HotDue' <=> HotDue) /\ ~MidHot /\ ~MidHot' /\ ~HotEnds /\ ~HotEnds'
  BY <1>1 DEF HotDue, MidHot, HotEnds, At, Hot
<1>3. LastAgrees' /\ Completed'
  BY <1>1 DEF HotOK, LastAgrees, Completed, At
<1>4. Followed' /\ Driven' /\ CapsRead'
  BY <1>1, <1>2 DEF HotOK, Followed, Driven, CapsRead
<1>5. OutIsVirtual' /\ BusyEarly'
  BY <1>1 DEF HotOK, OutIsVirtual, BusyEarly, At
<1>6. Skips'
  BY <1>1 DEF HotOK, Completed, Skips, CompleteDue, At
<1>. QED
  BY <1>3, <1>4, <1>5, <1>6 DEF HotOK

LEMMA ModeStartStep == ASSUME TypeOK, HotOK, ModeStart PROVE HotOK' /\ (Skips => Skips')
<1>1. /\ ev.event = "complete" /\ ev'.event = ev.event /\ ev.pc = "start"
      /\ ev'.pc \in {"list", "display"} /\ UNCHANGED <<sink, uevents, conn, crtc, disp>>
      /\ hdmi' = IF conn = "hdmi" THEN Reread ELSE hdmi
  BY DEF ModeStart, At, Goto, TypeOK
<1>2. (HotDue' <=> HotDue) /\ ~MidHot /\ ~MidHot' /\ ~HotEnds /\ ~HotEnds'
  BY <1>1 DEF HotDue, MidHot, HotEnds, At, Hot
<1>3. LastAgrees' /\ Completed'
  BY <1>1 DEF HotOK, LastAgrees, Completed, At
<1>4. Driven' /\ CapsRead'
  BY <1>1, <1>2 DEF HotOK, Driven, CapsRead
<1>5. Followed'
  BY <1>1, <1>2, RereadTyped DEF HotOK, Followed
<1>6. OutIsVirtual' /\ BusyEarly'
  BY <1>1 DEF HotOK, OutIsVirtual, BusyEarly, At, Hot
<1>7. Skips => Skips'
  BY <1>1 DEF Skips, CompleteDue, BeginDue, At
<1>. QED
  BY <1>3, <1>4, <1>5, <1>6, <1>7 DEF HotOK

LEMMA ModeDisplayStep == ASSUME TypeOK, HotOK, ModeDisplay PROVE HotOK' /\ (Skips => Skips')
<1>1. /\ ev.event = "complete" /\ ev'.event = ev.event /\ ev.pc = "display" /\ ev'.pc = "tell"
      /\ UNCHANGED <<sink, uevents, hdmi, conn, crtc>>
  BY DEF ModeDisplay, At, TypeOK
<1>2. getMode = crtc.mode
  BY <1>1 DEF HotOK, BusyEarly, At, Hot, getMode
<1>3. /\ crtc.mode # Dummy => disp'.skip = FALSE
      /\ crtc.mode = Dummy => disp'.skip = disp.skip
      /\ disp'.hdr = IF disp.hpd THEN hdmi.hdr ELSE disp.hdr
  BY <1>2 DEF ModeDisplay, TypeOK
<1>4. (HotDue' <=> HotDue) /\ ~MidHot /\ ~MidHot' /\ ~HotEnds /\ ~HotEnds'
  BY <1>1 DEF HotDue, MidHot, HotEnds, At, Hot
<1>5. LastAgrees' /\ Completed'
  BY <1>1 DEF HotOK, LastAgrees, Completed, At
<1>6. Followed' /\ Driven'
  BY <1>1, <1>4 DEF HotOK, Followed, Driven
<1>7. CapsRead'
  BY <1>1, <1>3, <1>4 DEF HotOK, Followed, CapsRead
<1>8. OutIsVirtual' /\ BusyEarly'
  BY <1>1 DEF HotOK, OutIsVirtual, BusyEarly, At, Hot
<1>9. Skips => Skips'
  BY <1>1, <1>3 DEF Skips, CompleteDue, BeginDue, At
<1>. QED
  BY <1>5, <1>6, <1>7, <1>8, <1>9 DEF HotOK

(* The list, the observer and the wake, after a plug out or a mode change.     *)
Ends ==
    /\ UNCHANGED <<sink, uevents, hdmi, conn, crtc>> /\ ev'.event = ev.event
    /\ disp'.skip = disp.skip /\ disp'.hpd = disp.hpd /\ disp'.hdr = disp.hdr
    /\ \/ ev.pc = "list" /\ ev'.pc = (IF ev.event = "out" THEN "tell" ELSE "display")
       \/ ev.pc = "tell" /\ ev'.pc = "wake"
       \/ ev.pc = "wake" /\ ev'.pc = "idle"
    /\ ev.event \in {"out", "complete"}

LEMMA EndStep == ASSUME TypeOK, HotOK, Ends PROVE HotOK' /\ (Skips => Skips')
<1>1. (HotDue' <=> HotDue) /\ ~MidHot /\ ~MidHot' /\ ~HotEnds /\ ~HotEnds'
  BY DEF HotDue, MidHot, HotEnds, At, Hot, Ends
<1>2. LastAgrees' /\ Completed'
  BY DEF HotOK, LastAgrees, Completed, At, Ends
<1>3. Followed' /\ Driven' /\ CapsRead'
  BY <1>1 DEF HotOK, Followed, Driven, CapsRead, Ends
<1>4. OutIsVirtual' /\ BusyEarly'
  BY DEF HotOK, OutIsVirtual, BusyEarly, At, Ends
<1>5. Skips => Skips'
  BY DEF Skips, CompleteDue, BeginDue, At, Ends
<1>. QED
  BY <1>2, <1>3, <1>4, <1>5 DEF HotOK

EndingStep ==
    HotplugList \/ HotplugTell \/ HotplugWake \/ ModeList \/ ModeTell \/ ModeWake

LEMMA EndingEnds == ASSUME TypeOK, EndingStep PROVE Ends
<1>. USE DEF At, Goto, Done, TypeOK
<1>1. ASSUME Wakes PROVE disp'.skip = disp.skip /\ disp'.hpd = disp.hpd /\ disp'.hdr = disp.hdr
  BY <1>1 DEF Wakes
<1>2. CASE HotplugList \/ ModeList
  BY <1>2 DEF HotplugList, ModeList, Ends
<1>3. CASE HotplugTell \/ ModeTell
  BY <1>3 DEF HotplugTell, ModeTell, Ends
<1>4. CASE HotplugWake \/ ModeWake
  BY <1>4, <1>1 DEF HotplugWake, ModeWake, Ends
<1>. QED
  BY <1>2, <1>3, <1>4 DEF EndingStep

-----------------------------------------------------------------------------
(* The theorems                                                              *)

LEMMA CoreNext == Core /\ [Next]_vars => Core' /\ (Skips /\ Announced => Skips')
<1>. SUFFICES ASSUME Core, [Next]_vars PROVE Core' /\ (Skips /\ Announced => Skips')
  OBVIOUS
<1>1. TypeOK /\ Ids /\ HotOK
  BY DEF Core, HotOK
<1>2. TypeOK' /\ Ids'
  BY <1>1, TypeNext, IdsNext
<1>. SUFFICES HotOK' /\ (Skips /\ Announced => Skips')
  BY <1>2 DEF Core, HotOK
<1>3. CASE Plug \/ Resume
  BY <1>1, <1>3, PlugStep
<1>4. CASE NextEvent
  BY <1>1, <1>4, NextEventStep
<1>5. CASE HotplugStart
  BY <1>1, <1>5, HotplugStartStep
<1>6. CASE PipeUpdate
  BY <1>1, <1>6, PipeUpdateStep
<1>7. CASE ConnectorSettled
  BY <1>1, <1>7, ConnectorSettledStep
<1>8. CASE PendingMode
  BY <1>1, <1>8, PendingModeStep
<1>9. CASE HotplugPolicy
  BY <1>1, <1>9, HotplugPolicyStep
<1>10. CASE HotplugDisplay
  BY <1>1, <1>10, HotplugDisplayStep
<1>11. CASE ModeBegin
  BY <1>1, <1>11, ModeBeginStep
<1>12. CASE ModeStart
  BY <1>1, <1>12, ModeStartStep
<1>13. CASE ModeDisplay
  BY <1>1, <1>13, ModeDisplayStep
<1>14. CASE EndingStep
  BY <1>1, <1>14, EndingEnds, EndStep
<1>15. CASE BinderStep
  BY <1>1, <1>15, BinderDrives, DriverStep
<1>16. CASE UNCHANGED vars
  BY <1>1, <1>16, DriverStep DEF vars, Aside, Drives, Kept
<1>. QED
  BY <1>3, <1>4, <1>5, <1>6, <1>7, <1>8, <1>9, <1>10, <1>11, <1>12, <1>13, <1>14, <1>15, <1>16
     DEF Next, EndingStep, BinderStep

LEMMA SpecCore == Spec => []Core
<1>1. Init => Core
  BY InitCore
<1>2. Core /\ [Next]_vars => Core'
  BY CoreNext
<1>. QED
  BY <1>1, <1>2, PTL DEF Spec

(* Every uevent, connector, mode, configuration and call has its type.        *)
THEOREM TypeCorrect == Spec => []TypeOK
<1>1. Core => TypeOK
  BY DEF Core
<1>. QED
  BY <1>1, SpecCore, PTL

(* Once a mode has been set on a display plugged in, the hdr capabilities told *)
(* to SurfaceFlinger are its own.                                             *)
THEOREM CapsStayOfSink == Spec => []CapsOfSink
<1>1. Core => CapsOfSink
  <2>. SUFFICES ASSUME Core, Quiet, sink # NoTv, ~disp.hpd PROVE disp.hdr = sink.hdr
    BY DEF CapsOfSink
  <2>1. ~HotDue /\ ~MidHot /\ ~HotEnds
    BY DEF Quiet, HotDue, MidHot, HotEnds, At, HasHot
  <2>. QED
    BY <2>1 DEF Core, CapsRead
<1>. QED
  BY <1>1, SpecCore, PTL

(* If the kernel tells of every switch that leaves the dummy mode, then once   *)
(* every event is handled the display is composed for if something is plugged  *)
(* in, and for nothing else.                                                  *)
THEOREM StaysComposed == Spec /\ [][Announced]_vars => []Composed
<1>1. Init => Core /\ Skips
  BY InitCore
<1>2. Core /\ Skips /\ [Next]_vars /\ [Announced]_vars => (Core /\ Skips)'
  <2>1. UNCHANGED vars => Announced
    BY DEF vars, Announced
  <2>. QED
    BY <2>1, CoreNext
<1>3. Core /\ Skips => Composed
  <2>. SUFFICES ASSUME Core, Skips, Quiet PROVE disp.skip = (sink = NoTv)
    BY DEF Composed
  <2>1. ~HotDue /\ ~MidHot /\ ~BeginDue /\ ~CompleteDue
    BY DEF Quiet, HotDue, MidHot, BeginDue, CompleteDue, At, Has, HasHot
  <2>2. disp.skip = (crtc.mode = Dummy)
    <3>1. disp.skip \in BOOLEAN
      BY DEF Core, TypeOK
    <3>. QED
      BY <3>1, <2>1 DEF Skips
  <2>3. (crtc.mode = Dummy) = (conn = "virtual")
    BY <2>1 DEF Core, Driven, TypeOK
  <2>. QED
    BY <2>1, <2>2, <2>3 DEF Core, Followed
<1>. QED
  BY <1>1, <1>2, <1>3, PTL DEF Spec

-----------------------------------------------------------------------------
(* The pipes                                                                  *)

Sockets == {"hdmi", "tv", "virtual", "panel"}
Cfgs == [pipe : 0 .. 2, conn : Sockets \cup {P!None}, modePipe : 0 .. 2,
         modeConn : Sockets \cup {P!None}, post : BOOLEAN]
JobPlaces == {"idle", "target", "plan", "wire", "tell"}
Uevents == {"in", "out", "sleep", "resume"}
Wirings == [pipes : [1 .. 2 -> Sockets \cup {P!None}], conn : [1 .. 2 -> Sockets \cup {P!None}],
            crtc : [Sockets -> 0 .. 2], plane : [DOMAIN board.masks -> 0 .. 2]]

PipesOK ==
    /\ board \in Boards
    /\ plugged \in BOOLEAN /\ seen \in BOOLEAN /\ hdmiConnected \in BOOLEAN
    /\ asleep \in BOOLEAN /\ post \in BOOLEAN /\ raced \in BOOLEAN
    /\ queued \in Seq(Uevents)
    /\ eventState \in {P!None, "in", "out", "resume", "suspend"}
    /\ stat \in [P!DisplayIds -> Cfgs]
    /\ job \in [P!Threads -> [pc : JobPlaces, d : P!DisplayIds, cfg : Cfgs]]
    /\ wiring \in Wirings

-----------------------------------------------------------------------------
(* Types                                                                      *)

LEMMA BoardTypes ==
    ASSUME PipesOK
    PROVE  /\ board.kind \in Kinds /\ board.drm \in BOOLEAN /\ board.dynViu \in BOOLEAN
           /\ board.always \in BOOLEAN
           /\ P!DisplayIds = 1 .. Len(board.wired)
           /\ 1 \in P!DisplayIds /\ P!DisplayIds \subseteq 1 .. 2
           /\ Len(board.wired) = IF board.kind \in {"dual", "multi"} THEN 2 ELSE 1
           /\ \A d \in P!DisplayIds : board.wired[d] \in Wires
<1>1. board \in Boards
  BY DEF PipesOK
<1>2. /\ board.kind \in Kinds /\ board.drm \in BOOLEAN /\ board.dynViu \in BOOLEAN
      /\ board.always \in BOOLEAN /\ board.wired \in Seq(Wires)
      /\ Len(board.wired) = IF board.kind \in {"dual", "multi"} THEN 2 ELSE 1
  BY <1>1, BoardsAssumption
<1>. QED
  BY <1>2 DEF P!DisplayIds

LEMMA CfgTypes ==
    ASSUME PipesOK, NEW d \in P!DisplayIds, NEW on \in BOOLEAN
    PROVE  /\ P!ConnectorCfg(d) \in Sockets
           /\ P!getPipeCfg(d) \in Cfgs /\ P!LoopbackCfg(P!ConnectorCfg(1), on) \in Cfgs
<1>1. ASSUME NEW c \in P!DisplayIds PROVE P!ConnectorCfg(c) \in Sockets
  BY BoardTypes DEF P!ConnectorCfg, Wires, Sockets
<1>2. ASSUME NEW c \in Sockets, NEW p \in 1 .. 2 PROVE P!Straight(p, c) \in Cfgs
  BY <1>2 DEF P!Straight, Cfgs
<1>3. ASSUME NEW c \in Sockets, NEW b \in BOOLEAN PROVE P!LoopbackCfg(c, b) \in Cfgs
  BY <1>2, <1>3 DEF P!LoopbackCfg, Cfgs, Sockets
<1>4. ASSUME NEW c \in Sockets
      PROVE  P!SwitchedHdmi(c) \in Sockets /\ P!FixedConnector(c) \in Sockets
  BY <1>4 DEF P!SwitchedHdmi, P!FixedConnector, P!Dummy, P!hasDummyConnector, Sockets
<1>5. ASSUME NEW c PROVE P!DualPipe(d, c) \in 1 .. 2
  BY DEF P!DualPipe
<1>6. P!getPipeCfg(d) \in Cfgs
  <2>1. CASE board.kind = "multi"
    BY <2>1, <1>1, <1>2, <1>4, BoardTypes DEF P!getPipeCfg
  <2>2. CASE board.kind = "dual"
    BY <2>2, <1>1, <1>2, <1>4, <1>5 DEF P!getPipeCfg
  <2>3. CASE board.kind = "fixed"
    BY <2>3, <1>1, <1>2, <1>4 DEF P!getPipeCfg
  <2>4. CASE board.kind = "loopback"
    BY <2>4, <1>1, <1>3 DEF P!getPipeCfg, PipesOK
  <2>. QED
    BY <2>1, <2>2, <2>3, <2>4, BoardTypes DEF Kinds
<1>. QED
  BY <1>1, <1>3, <1>6, BoardTypes

LEMMA WiringTypes ==
    ASSUME PipesOK, NEW w \in Wirings, NEW cfg \in Cfgs, NEW p \in 0 .. 2
    PROVE  /\ P!unbind(w, p) \in Wirings /\ P!clearMode(w, p) \in Wirings
           /\ P!Rewire(w, cfg) \in Wirings
<1>1. ASSUME NEW x \in Wirings, NEW q \in 0 .. 2 PROVE P!fbdevUnbind(x, q) \in Wirings
  <2>1. ASSUME NEW c PROVE [x EXCEPT !.crtc[c] = 0, !.conn[q] = P!None] \in Wirings
    <3>1. [x.crtc EXCEPT ![c] = 0] \in [Sockets -> 0 .. 2]
      <4>1. x.crtc \in [Sockets -> 0 .. 2]
        BY <1>1 DEF Wirings
      <4>2. 0 \in 0 .. 2
        OBVIOUS
      <4>. QED
        BY <4>1, <4>2, Zenon
    <3>2. [x.conn EXCEPT ![q] = P!None] \in [1 .. 2 -> Sockets \cup {P!None}]
      BY <1>1 DEF Wirings
    <3>. QED
      BY <1>1, <3>1, <3>2 DEF Wirings
  <2>. QED
    BY <1>1, <2>1 DEF P!fbdevUnbind
<1>2. ASSUME NEW x \in Wirings, NEW q \in 0 .. 2 PROVE P!unbind(x, q) \in Wirings
  BY <1>1, <1>2 DEF P!unbind, Wirings
<1>3. ASSUME NEW x \in Wirings, NEW q \in 0 .. 2, NEW c \in Sockets \cup {P!None}
      PROVE  P!bind(x, q, c) \in Wirings
  <2>1. P!fbdevBind(x, q, c) \in Wirings
    <3>. DEFINE y == P!fbdevUnbind(x, q)
    <3>1. y \in Wirings
      BY <1>1
    <3>. HIDE DEF y
    <3>2. [y EXCEPT !.crtc[c] = q, !.conn[q] = c] \in Wirings
      BY <3>1 DEF Wirings
    <3>. QED
      BY <3>2 DEF P!fbdevBind, y
  <2>2. P!drmBind(x, q, c) \in Wirings
    <3>1. CASE x.pipes[q] = c
      BY <3>1 DEF P!drmBind
    <3>2. CASE x.pipes[q] # c
      <4>1. [x EXCEPT !.pipes[q] = IF @ = P!None THEN c ELSE @, !.conn[q] = c, !.crtc[c] = q,
                      !.plane = [i \in DOMAIN @ |-> IF i \in P!planesOf[q] THEN q ELSE @[i]]]
            \in Wirings
        BY DEF Wirings
      <4>. QED
        BY <3>2, <4>1 DEF P!drmBind
    <3>. QED
      BY <3>1, <3>2
  <2>. QED
    BY <2>1, <2>2 DEF P!bind
<1>4. P!clearMode(w, p) \in Wirings
  BY DEF P!clearMode, Wirings
<1>5. P!Rewire(w, cfg) \in Wirings
  <2>1. /\ cfg.pipe \in 0 .. 2 /\ cfg.modePipe \in 0 .. 2
        /\ cfg.conn \in Sockets \cup {P!None} /\ cfg.modeConn \in Sockets \cup {P!None}
    BY DEF Cfgs
  <2>. DEFINE first == P!bind(P!unbind(w, cfg.pipe), cfg.pipe, cfg.conn)
              freed == IF board.drm THEN P!unbind(first, cfg.modePipe) ELSE first
  <2>2. first \in Wirings
    BY <2>1, <1>2, <1>3
  <2>. HIDE DEF first
  <2>3. freed \in Wirings
    BY <2>1, <2>2, <1>2
  <2>. HIDE DEF freed
  <2>4. P!bind(freed, cfg.modePipe, cfg.modeConn) \in Wirings
    BY <2>1, <2>3, <1>3
  <2>. QED
    BY <2>2, <2>4 DEF P!Rewire, first, freed
<1>. QED
  BY <1>2, <1>4, <1>5

(* What each step does to the parts that matter.                              *)
JobsStay == UNCHANGED <<board, plugged, queued, asleep, hdmiConnected, eventState, post, raced>>

LEMMA PipesOKInit == ASSUME P!Init PROVE PipesOK
<1>1. P!DisplayIds = 1 .. Len(board.wired) /\ 1 \in P!DisplayIds
  BY BoardsAssumption DEF P!Init, P!DisplayIds
<1>2. stat \in [P!DisplayIds -> Cfgs]
  BY DEF P!Init, Cfgs
<1>3. job \in [P!Threads -> [pc : JobPlaces, d : P!DisplayIds, cfg : Cfgs]]
  BY <1>1 DEF P!Init, P!Threads, JobPlaces, Cfgs, P!Straight
<1>4. wiring \in Wirings
  <2>1. ASSUME NEW c \in {P!None, "hdmi", "panel"} PROVE P!Booted(c) \in Wirings
    BY <2>1 DEF P!Booted, Wirings, Sockets
  <2>. QED
    BY <2>1 DEF P!Init
<1>5. post \in BOOLEAN
  BY BoardsAssumption DEF P!Init
<1>6. queued \in Seq(Uevents)
  BY DEF P!Init
<1>. QED
  BY <1>2, <1>3, <1>4, <1>5, <1>6 DEF P!Init, PipesOK

LEMMA PipesOKNext == ASSUME PipesOK, [P!Next]_(P!pipeVars) PROVE PipesOK'
<1>1. ASSUME board' = board, PipesOK
      PROVE  P!DisplayIds' = P!DisplayIds /\ Wirings' = Wirings
  BY <1>1 DEF P!DisplayIds, Wirings
<1>2. ASSUME NEW t \in P!Threads, NEW pc \in JobPlaces,
             job' = [job EXCEPT ![t].pc = pc], board' = board
      PROVE  job' \in [P!Threads -> [pc : JobPlaces, d : P!DisplayIds', cfg : Cfgs]]
  BY <1>1, <1>2 DEF PipesOK
<1>3. ASSUME NEW c, P!ReadBy(c) PROVE seen' \in BOOLEAN
  BY <1>3 DEF P!ReadBy, PipesOK
<1>4. ASSUME NEW t \in P!Threads, P!FixedTarget(t) PROVE PipesOK'
  <2>1. /\ UNCHANGED <<board, plugged, used, queued, asleep, hdmiConnected, eventState, post,
                       stat, wiring, raced, moves>>
        /\ seen' \in BOOLEAN
        /\ job' = [job EXCEPT ![t].pc = "tell"] \/ job' = [job EXCEPT ![t].pc = "plan"]
    BY <1>3, <1>4 DEF P!FixedTarget, PipesOK
  <2>. QED
    BY <2>1, <1>1, <1>2 DEF PipesOK, JobPlaces
<1>5. ASSUME NEW t \in P!Threads, P!PlanPipe(t) PROVE PipesOK'
  <2>1. job[t].d \in P!DisplayIds
    BY DEF PipesOK
  <2>2. P!getPipeCfg(job[t].d) \in Cfgs
    BY <2>1, CfgTypes
  <2>3. ASSUME NEW cfg \in Cfgs, job' = [job EXCEPT ![t].pc = "wire", ![t].cfg = cfg]
        PROVE  job' \in [P!Threads -> [pc : JobPlaces, d : P!DisplayIds, cfg : Cfgs]]
    BY <2>3 DEF PipesOK, JobPlaces
  <2>. QED
    BY <1>1, <1>5, <2>2, <2>3 DEF PipesOK, P!PlanPipe
<1>6. ASSUME NEW t \in P!Threads, P!WirePipe(t) PROVE PipesOK'
  <2>1. job[t].d \in P!DisplayIds /\ job[t].cfg \in Cfgs /\ wiring \in Wirings
    BY DEF PipesOK
  <2>2. P!Rewire(wiring, job[t].cfg) \in Wirings
    BY <2>1, WiringTypes
  <2>3. stat' \in [P!DisplayIds -> Cfgs] /\ wiring' \in Wirings
    BY <1>6, <2>1, <2>2 DEF P!WirePipe, PipesOK
  <2>4. seen' \in BOOLEAN
    BY <1>6, <1>3 DEF P!WirePipe, PipesOK
  <2>5. job[t].d < Len(board.wired) => job[t].d + 1 \in P!DisplayIds
    BY <2>1, BoardTypes
  <2>6. ASSUME NEW pc \in JobPlaces, NEW d \in P!DisplayIds,
               job' = [job EXCEPT ![t].pc = pc, ![t].d = d]
        PROVE  job' \in [P!Threads -> [pc : JobPlaces, d : P!DisplayIds, cfg : Cfgs]]
    BY <2>6 DEF PipesOK
  <2>7. job' \in [P!Threads -> [pc : JobPlaces, d : P!DisplayIds, cfg : Cfgs]]
    BY <1>6, <2>5, <2>6, BoardTypes DEF P!WirePipe, JobPlaces
  <2>. QED
    BY <1>1, <1>6, <2>3, <2>4, <2>7 DEF P!WirePipe, PipesOK
<1>7. ASSUME NEW t \in P!Threads, P!TellDisplays(t) PROVE PipesOK'
  <2>1. seen' \in BOOLEAN
    BY <1>3, <1>7 DEF P!TellDisplays, PipesOK
  <2>. QED
    BY <2>1, <1>1, <1>2, <1>7 DEF P!TellDisplays, PipesOK, JobPlaces
<1>8. ASSUME NEW t \in P!Threads, NEW e \in {"in", "out", "resume", "suspend"},
             P!HotplugEvent(t, e), queued' \in Seq(Uevents), asleep' \in BOOLEAN
      PROVE  PipesOK'
  <2>1. seen' \in BOOLEAN
    BY <1>3, <1>8 DEF P!HotplugEvent, PipesOK
  <2>2. eventState' \in {P!None, "in", "out", "resume", "suspend"} /\ hdmiConnected' \in BOOLEAN
    BY <1>8 DEF P!HotplugEvent, PipesOK
  <2>3. ASSUME NEW pc \in JobPlaces, job' = [job EXCEPT ![t].pc = pc, ![t].d = 1]
        PROVE  job' \in [P!Threads -> [pc : JobPlaces, d : P!DisplayIds, cfg : Cfgs]]
    BY <2>3, BoardTypes DEF PipesOK
  <2>4. job' \in [P!Threads -> [pc : JobPlaces, d : P!DisplayIds, cfg : Cfgs]]
    BY <1>8, <2>3 DEF P!HotplugEvent, JobPlaces, PipesOK
  <2>5. raced' \in BOOLEAN
    BY <1>8 DEF P!HotplugEvent, P!Races, PipesOK, P!Idle, P!At
  <2>. QED
    BY <1>1, <1>8, <2>1, <2>2, <2>4, <2>5 DEF P!HotplugEvent, PipesOK
<1>9. CASE P!HandleUevent
  <2>1. Tail(queued) \in Seq(Uevents) /\ queued' = Tail(queued) /\ Head(queued) \in Uevents
    BY <1>9 DEF P!HandleUevent, PipesOK
  <2>2. CASE P!HotplugEvent("uevent", Head(queued)) /\ asleep' = FALSE /\ Head(queued) # "sleep"
    BY <1>8, <2>1, <2>2 DEF Uevents, P!Threads
  <2>3. CASE /\ asleep' = TRUE
             /\ UNCHANGED <<board, plugged, used, seen, hdmiConnected, eventState, post, stat,
                            wiring, job, raced>>
    BY <2>1, <2>3, <1>1 DEF PipesOK
  <2>. QED
    BY <1>9, <2>1, <2>2, <2>3 DEF P!HandleUevent
<1>10. CASE P!setPowerMode
  BY <1>8, <1>10 DEF P!setPowerMode, P!Threads, PipesOK
<1>11. CASE P!handleRequest
  <2>. DEFINE old == stat[1]
              cleared == P!clearMode(P!clearMode(wiring, old.pipe), old.modePipe)
              cfg == P!LoopbackCfg(P!ConnectorCfg(1), post')
  <2>1. post' \in BOOLEAN /\ old \in Cfgs /\ old.pipe \in 0 .. 2 /\ old.modePipe \in 0 .. 2
    BY <1>11, BoardTypes DEF P!handleRequest, PipesOK, Cfgs
  <2>2. cfg \in Cfgs
    BY <2>1, CfgTypes, BoardTypes
  <2>. HIDE DEF cfg
  <2>3. P!clearMode(wiring, old.pipe) \in Wirings /\ cleared \in Wirings
    BY <2>1, <2>2, WiringTypes DEF PipesOK
  <2>. HIDE DEF cleared
  <2>4. P!unbind(cleared, old.pipe) \in Wirings
    BY <2>1, <2>2, <2>3, WiringTypes
  <2>5. P!Rewire(P!unbind(P!unbind(cleared, old.pipe), old.modePipe), cfg) \in Wirings
    BY <2>1, <2>2, <2>4, WiringTypes
  <2>6. stat' \in [P!DisplayIds -> Cfgs] /\ wiring' \in Wirings
    BY <1>11, <2>2, <2>5 DEF P!handleRequest, PipesOK, cfg, cleared
  <2>7. seen' \in BOOLEAN
    BY <1>3, <1>11 DEF P!handleRequest
  <2>. QED
    BY <1>1, <1>11, <2>1, <2>6, <2>7 DEF P!handleRequest, PipesOK
<1>12. CASE P!Cable
  <2>1. queued' \in Seq(Uevents)
    BY <1>12 DEF P!Cable, PipesOK, Uevents
  <2>. QED
    BY <2>1, <1>1, <1>12 DEF P!Cable, PipesOK
<1>13. CASE P!Sleep
  <2>1. queued' \in Seq(Uevents)
    BY <1>13 DEF P!Sleep, PipesOK, Uevents
  <2>. QED
    BY <2>1, <1>1, <1>13 DEF P!Sleep, PipesOK
<1>14. CASE UNCHANGED P!pipeVars
  BY <1>1, <1>14 DEF P!pipeVars, PipesOK
<1>. QED
  BY <1>4, <1>5, <1>6, <1>7, <1>9, <1>10, <1>11, <1>12, <1>13, <1>14 DEF P!Next

-----------------------------------------------------------------------------
(* The cable                                                                  *)

CableEvents == {"in", "out"}
Unheard(s) == \E i \in DOMAIN s : s[i] \in CableEvents

(* The last cable event that waits tells where the cable is.                  *)
LastCable ==
    \A i \in DOMAIN queued :
        queued[i] \in CableEvents
            /\ (\A j \in DOMAIN queued : j > i => queued[j] \notin CableEvents)
            => (queued[i] = "in") = plugged

(* Nothing is to come that would tell of the cable.                           *)
Settled == ~asleep /\ ~Unheard(queued) /\ eventState # "suspend"

(* The event handled last and the connector as read tell of the cable.        *)
EventTrue ==
    /\ eventState = "in" => plugged
    /\ eventState = "out" => ~plugged
    /\ eventState \in {P!None, "resume"} \/ board.kind \in {"dual", "multi"} => seen = plugged

(* One thread at a time.                                                      *)
Alone ==
    /\ board.kind # "multi" => ~raced
    /\ ~raced => \A t, u \in P!Threads : t # u => P!Idle(t) \/ P!Idle(u)

OnHdmi(d) == board.wired[d] \in {"hdmi", "hdmi-cvbs"}
Follows(d, cfg) == OnHdmi(d) => (cfg.conn = "hdmi") = plugged

(* Display d is behind thread t: wired, or not to be.                         *)
Past(t, d) == \/ job[t].pc \in {"idle", "tell"}
              \/ job[t].pc \in {"plan", "wire"} /\ d < job[t].d
Through(d) == \A t \in P!Threads : Past(t, d)

Switching == board.drm /\ board.kind # "loopback"

(* The displays behind every thread follow the cable, and so will those being *)
(* wired.                                                                     *)
FollowedAll ==
    /\ \A d \in P!DisplayIds : Through(d) => Follows(d, stat[d])
    /\ \A t \in P!Threads : P!At(t, "wire") => Follows(job[t].d, job[t].cfg)

(* The inductive invariant of the cable: why the pipes follow it.             *)
CableInv ==
    /\ PipesOK /\ LastCable /\ Alone
    /\ \A t \in P!Threads : P!At(t, "target") => board.kind = "fixed"
    /\ Switching /\ Settled => EventTrue
    /\ Switching /\ Settled /\ ~raced => FollowedAll

LEMMA QueueAppend ==
    ASSUME PipesOK, NEW e \in Uevents, queued' = Append(queued, e)
    PROVE  /\ e \in CableEvents => Unheard(queued')
           /\ e \notin CableEvents => (Unheard(queued') <=> Unheard(queued))
           /\ e \in CableEvents /\ (e = "in") = plugged' => LastCable'
           /\ e \notin CableEvents /\ LastCable /\ plugged' = plugged => LastCable'
<1>1. /\ DOMAIN queued = 1 .. Len(queued) /\ DOMAIN queued' = 1 .. Len(queued) + 1
      /\ Len(queued) \in Nat /\ queued'[Len(queued) + 1] = e
      /\ \A i \in 1 .. Len(queued) : queued'[i] = queued[i]
  BY DEF PipesOK
<1>2. Len(queued) + 1 \in DOMAIN queued'
  BY <1>1
<1>3. e \in CableEvents => Unheard(queued')
  BY <1>1, <1>2 DEF Unheard
<1>4. e \notin CableEvents => (Unheard(queued') <=> Unheard(queued))
  BY <1>1 DEF Unheard
<1>5. ASSUME e \in CableEvents, (e = "in") = plugged' PROVE LastCable'
  <2>. SUFFICES ASSUME NEW i \in DOMAIN queued',
                       \A j \in DOMAIN queued' : j > i => queued'[j] \notin CableEvents
                PROVE  (queued'[i] = "in") = plugged'
    BY DEF LastCable
  <2>1. i = Len(queued) + 1
    BY <1>1, <1>2, <1>5
  <2>. QED
    BY <2>1, <1>1, <1>5
<1>6. ASSUME e \notin CableEvents, LastCable, plugged' = plugged PROVE LastCable'
  <2>. SUFFICES ASSUME NEW i \in DOMAIN queued', queued'[i] \in CableEvents,
                       \A j \in DOMAIN queued' : j > i => queued'[j] \notin CableEvents
                PROVE  (queued'[i] = "in") = plugged'
    BY DEF LastCable
  <2>1. i \in DOMAIN queued /\ queued[i] = queued'[i]
    BY <1>1, <1>6
  <2>2. \A j \in DOMAIN queued : j > i => queued[j] \notin CableEvents
    BY <1>1
  <2>. QED
    BY <2>1, <2>2, <1>6 DEF LastCable
<1>. QED
  BY <1>3, <1>4, <1>5, <1>6

LEMMA QueueTail ==
    ASSUME PipesOK, queued # <<>>, queued' = Tail(queued), LastCable, plugged' = plugged
    PROVE  /\ LastCable'
           /\ ~Unheard(queued') /\ Head(queued) \in CableEvents => (Head(queued) = "in") = plugged
<1>1. /\ DOMAIN queued = 1 .. Len(queued) /\ Len(queued) \in Nat /\ Len(queued) >= 1
      /\ DOMAIN queued' = 1 .. Len(queued) - 1 /\ Head(queued) = queued[1]
      /\ \A i \in 1 .. Len(queued) - 1 : queued'[i] = queued[i + 1]
  BY DEF PipesOK
<1>2. LastCable'
  <2>. SUFFICES ASSUME NEW i \in DOMAIN queued', queued'[i] \in CableEvents,
                       \A j \in DOMAIN queued' : j > i => queued'[j] \notin CableEvents
                PROVE  (queued'[i] = "in") = plugged'
    BY DEF LastCable
  <2>1. i + 1 \in DOMAIN queued /\ queued[i + 1] = queued'[i] /\ i \in Nat
    BY <1>1
  <2>2. ASSUME NEW j \in DOMAIN queued, j > i + 1 PROVE queued[j] \notin CableEvents
    <3>1. j - 1 \in DOMAIN queued' /\ j - 1 > i /\ queued'[j - 1] = queued[j]
      BY <1>1, <2>1, <2>2
    <3>. QED
      BY <3>1
  <2>. QED
    BY <2>1, <2>2 DEF LastCable
<1>3. ASSUME ~Unheard(queued'), Head(queued) \in CableEvents PROVE (Head(queued) = "in") = plugged
  <2>1. ASSUME NEW j \in DOMAIN queued, j > 1 PROVE queued[j] \notin CableEvents
    <3>1. j - 1 \in DOMAIN queued' /\ queued'[j - 1] = queued[j]
      BY <1>1, <2>1
    <3>. QED
      BY <3>1, <1>3 DEF Unheard
  <2>2. 1 \in DOMAIN queued
    BY <1>1
  <2>. QED
    BY <2>1, <2>2, <1>1, <1>3 DEF LastCable
<1>. QED
  BY <1>2, <1>3

(* A configuration made when the event is true has hdmi if it is plugged.     *)
LEMMA PlanFollows ==
    ASSUME PipesOK, Switching, EventTrue, eventState # "suspend", NEW d \in P!DisplayIds
    PROVE  /\ Follows(d, P!getPipeCfg(d))
           /\ board.kind = "fixed" /\ OnHdmi(1)
                => (P!FixedConnector(P!ConnectorCfg(1)) = "hdmi") = plugged
<1>1. /\ board.kind \in {"fixed", "dual", "multi"} /\ P!hasDummyConnector /\ seen \in BOOLEAN
      /\ plugged \in BOOLEAN
      /\ eventState \in {P!None, "in", "out", "resume"}
  BY BoardTypes DEF Switching, Kinds, P!hasDummyConnector, PipesOK
<1>2. CASE board.kind = "fixed"
  <2>1. d = 1
    BY <1>2, BoardTypes
  <2>2. OnHdmi(1) => (P!FixedConnector(P!ConnectorCfg(1)) = "hdmi") = plugged
    BY <1>1, <1>2 DEF OnHdmi, P!FixedConnector, P!ConnectorCfg, P!Dummy, EventTrue, P!None
  <2>. QED
    BY <1>2, <2>1, <2>2 DEF P!getPipeCfg, P!Straight, Follows
<1>3. CASE board.kind \in {"dual", "multi"}
  <2>1. OnHdmi(d) => (P!SwitchedHdmi(P!ConnectorCfg(d)) = "hdmi") = plugged
    BY <1>1, <1>3 DEF OnHdmi, P!SwitchedHdmi, P!ConnectorCfg, P!Dummy, EventTrue, P!None
  <2>. QED
    BY <1>3, <2>1 DEF P!getPipeCfg, P!Straight, Follows
<1>. QED
  BY <1>1, <1>2, <1>3

LEMMA CableInvInit == ASSUME P!Init PROVE CableInv
<1>1. PipesOK
  BY PipesOKInit
<1>2. /\ queued = <<>> /\ ~raced /\ eventState = P!None /\ seen = plugged
      /\ job["main"].pc = "plan" /\ job["main"].d = 1
      /\ job["uevent"].pc = "idle" /\ job["binder"].pc = "idle"
  BY DEF P!Init, P!Threads
<1>3. LastCable
  BY <1>2 DEF LastCable
<1>4. Alone
  BY <1>2 DEF Alone, P!Threads, P!Idle, P!At
<1>5. FollowedAll
  <2>1. ASSUME NEW d \in P!DisplayIds PROVE ~Through(d)
    BY <1>1, <1>2, BoardTypes DEF Through, Past, P!Threads
  <2>. QED
    BY <2>1, <1>2 DEF FollowedAll, P!Threads, P!At
<1>. QED
  BY <1>1, <1>2, <1>3, <1>4, <1>5 DEF CableInv, EventTrue, P!Threads, P!At, P!None

(* A thread that goes on leaves the others where they are.                    *)
GoesOn(t) ==
    /\ ~P!Idle(t)
    /\ \A u \in P!Threads \ {t} : job'[u] = job[u]
    /\ UNCHANGED <<board, plugged, queued, asleep, hdmiConnected, eventState, raced>>
    /\ seen' = plugged \/ seen' = seen

LEMMA StepGoesOn ==
    ASSUME PipesOK, NEW t \in P!Threads,
           P!FixedTarget(t) \/ P!PlanPipe(t) \/ P!WirePipe(t) \/ P!TellDisplays(t)
    PROVE  GoesOn(t)
<1>. USE DEF GoesOn, P!Idle, P!At, P!ReadBy
<1>1. CASE P!FixedTarget(t)
  BY <1>1 DEF P!FixedTarget, PipesOK
<1>2. CASE P!PlanPipe(t)
  BY <1>2 DEF P!PlanPipe, PipesOK
<1>3. CASE P!WirePipe(t)
  BY <1>3 DEF P!WirePipe, PipesOK
<1>4. CASE P!TellDisplays(t)
  BY <1>4 DEF P!TellDisplays, PipesOK
<1>. QED
  BY <1>1, <1>2, <1>3, <1>4

LEMMA GoesOnKeeps ==
    ASSUME CableInv, NEW t \in P!Threads, GoesOn(t)
    PROVE  /\ LastCable' /\ Alone'
           /\ Switching' = Switching /\ Settled' = Settled
           /\ Switching' /\ Settled' => EventTrue /\ EventTrue'
           /\ Switching' /\ Settled' /\ ~raced' =>
                /\ FollowedAll
                /\ \A u \in P!Threads \ {t} : P!Idle(u) /\ P!Idle(u)'
<1>1. LastCable'
  BY DEF CableInv, GoesOn, LastCable
<1>2. Alone'
  BY DEF CableInv, GoesOn, Alone, P!Idle, P!At
<1>3. Switching' = Switching /\ Settled' = Settled
  BY DEF GoesOn, Switching, Settled, Unheard
<1>4. Switching' /\ Settled' => EventTrue /\ EventTrue'
  BY <1>3 DEF CableInv, GoesOn, EventTrue
<1>5. ASSUME ~raced, NEW u \in P!Threads \ {t} PROVE P!Idle(u) /\ P!Idle(u)'
  BY <1>5 DEF CableInv, GoesOn, Alone, P!Idle, P!At
<1>. QED
  BY <1>1, <1>2, <1>3, <1>4, <1>5 DEF CableInv, GoesOn

LEMMA CableStep ==
    ASSUME CableInv, PipesOK', NEW t \in P!Threads,
           P!FixedTarget(t) \/ P!PlanPipe(t) \/ P!WirePipe(t) \/ P!TellDisplays(t)
    PROVE  CableInv'
<1>1. GoesOn(t) /\ PipesOK /\ P!DisplayIds' = P!DisplayIds
  BY StepGoesOn DEF CableInv, GoesOn, P!DisplayIds
<1>2. /\ LastCable' /\ Alone' /\ Switching' = Switching /\ Settled' = Settled
      /\ Switching' /\ Settled' => EventTrue /\ EventTrue'
  BY <1>1, GoesOnKeeps
<1>3. \A u \in P!Threads : P!At(u, "target")' => board'.kind = "fixed"
  <2>1. job'[t].pc # "target"
    BY <1>1 DEF P!FixedTarget, P!PlanPipe, P!WirePipe, P!TellDisplays, PipesOK
  <2>. QED
    BY <2>1, <1>1 DEF CableInv, GoesOn, P!At
<1>4. ASSUME Switching, Settled, ~raced PROVE FollowedAll'
  <2>1. /\ FollowedAll /\ EventTrue /\ eventState # "suspend"
        /\ \A u \in P!Threads \ {t} : P!Idle(u) /\ P!Idle(u)'
    BY <1>1, <1>2, <1>4, GoesOnKeeps DEF GoesOn, Settled
  <2>2. \A d : Through(d) <=> Past(t, d)
    BY <2>1 DEF Through, Past, P!Idle, P!At
  <2>3. \A d : Through(d)' <=> Past(t, d)'
    BY <2>1 DEF Through, Past, P!Idle, P!At
  <2>4. \A u \in P!Threads : P!At(u, "wire")' => u = t
    BY <2>1 DEF P!Idle, P!At
  <2>5. \A d, cfg : Follows(d, cfg)' <=> Follows(d, cfg)
    BY <1>1 DEF GoesOn, Follows, OnHdmi
  <2>6. SUFFICES /\ \A d \in P!DisplayIds : Past(t, d)' => Follows(d, stat'[d])
                 /\ P!At(t, "wire")' => Follows(job'[t].d, job'[t].cfg)
    BY <1>1, <2>3, <2>4, <2>5 DEF FollowedAll, Follows, OnHdmi, GoesOn
  <2>7. CASE P!FixedTarget(t)
    <3>1. P!At(t, "target") /\ board.kind = "fixed" /\ stat' = stat
      BY <2>7 DEF P!FixedTarget, CableInv
    <3>2. P!DisplayIds = {1}
      BY <1>1, <3>1, BoardTypes
    <3>3. CASE /\ P!FixedConnector(P!ConnectorCfg(1)) = stat[1].conn
               /\ job' = [job EXCEPT ![t].pc = "tell"]
      <4>1. Follows(1, stat[1])
        BY <1>1, <1>4, <2>1, <3>1, <3>2, <3>3, PlanFollows DEF Follows
      <4>. QED
        BY <1>1, <3>1, <3>2, <3>3, <4>1 DEF PipesOK, P!At
    <3>4. CASE job' = [job EXCEPT ![t].pc = "plan"]
      <4>1. job'[t].pc = "plan" /\ job'[t].d = 1
        BY <1>1, <3>2, <3>4 DEF PipesOK
      <4>. QED
        BY <3>2, <4>1 DEF Past, P!At
    <3>. QED
      BY <2>7, <3>3, <3>4 DEF P!FixedTarget
  <2>8. CASE P!PlanPipe(t)
    <3>1. /\ job[t].pc = "plan" /\ job'[t].pc = "wire" /\ job'[t].d = job[t].d
          /\ job'[t].cfg = P!getPipeCfg(job[t].d) /\ stat' = stat /\ job[t].d \in P!DisplayIds
      BY <1>1, <2>8 DEF P!PlanPipe, PipesOK, P!At
    <3>2. Follows(job[t].d, P!getPipeCfg(job[t].d))
      BY <1>1, <1>4, <2>1, <3>1, PlanFollows
    <3>. QED
      BY <2>1, <2>2, <3>1, <3>2 DEF FollowedAll, Past
  <2>9. CASE P!WirePipe(t)
    <3>1. /\ job[t].pc = "wire" /\ job[t].d \in P!DisplayIds /\ job'[t].pc # "wire"
          /\ IF job[t].d < Len(board.wired) THEN job'[t].pc = "plan" /\ job'[t].d = job[t].d + 1
             ELSE job'[t].pc \in {"idle", "tell"}
      BY <1>1, <2>9 DEF P!WirePipe, PipesOK, P!At
    <3>2. stat'[job[t].d] = job[t].cfg /\ \A d \in P!DisplayIds \ {job[t].d} : stat'[d] = stat[d]
      BY <1>1, <2>9, <3>1 DEF P!WirePipe, PipesOK
    <3>3. Follows(job[t].d, job[t].cfg)
      BY <2>1, <3>1 DEF FollowedAll, P!At
    <3>4. ASSUME NEW d \in P!DisplayIds, Past(t, d)', d # job[t].d PROVE Follows(d, stat'[d])
      <4>1. d < job[t].d
        BY <1>1, <3>1, <3>4, BoardTypes DEF Past
      <4>. QED
        BY <2>1, <2>2, <3>1, <3>2, <3>4, <4>1 DEF FollowedAll, Past
    <3>. QED
      BY <3>1, <3>2, <3>3, <3>4 DEF P!At
  <2>10. CASE P!TellDisplays(t)
    <3>1. job[t].pc = "tell" /\ job'[t].pc = "idle" /\ stat' = stat
      BY <1>1, <2>10 DEF P!TellDisplays, PipesOK, P!At
    <3>. QED
      BY <2>1, <2>2, <3>1 DEF FollowedAll, Past, P!At
  <2>. QED
    BY <2>7, <2>8, <2>9, <2>10
<1>5. Switching' /\ Settled' /\ ~raced' => FollowedAll'
  BY <1>1, <1>2, <1>4 DEF GoesOn
<1>. QED
  BY <1>2, <1>3, <1>5 DEF CableInv

(* A hotplug takes a thread that was idle, and no other is at work.           *)
LEMMA CableHotplug ==
    ASSUME CableInv, PipesOK', LastCable', NEW t \in P!Threads,
           NEW e \in {"in", "out", "resume", "suspend"}, P!HotplugEvent(t, e),
           Settled' => /\ e # "suspend"
                       /\ e \in CableEvents => (e = "in") = plugged
    PROVE  CableInv'
<1>1. /\ PipesOK /\ UNCHANGED <<board, plugged, stat>> /\ P!DisplayIds' = P!DisplayIds
      /\ Switching' = Switching
  BY DEF CableInv, P!HotplugEvent, P!DisplayIds, Switching
<1>2. /\ P!Idle(t) /\ \A u \in P!Threads \ {t} : job'[u] = job[u]
      /\ board.kind = "loopback" => job' = job
      /\ board.kind # "loopback" =>
           job'[t].pc = (IF board.kind = "fixed" THEN "target" ELSE "plan") /\ job'[t].d = 1
  BY <1>1 DEF P!HotplugEvent, PipesOK
<1>3. raced' <=> raced \/ \E u \in P!Threads \ {t} : ~P!Idle(u)
  BY DEF P!HotplugEvent, P!Races
<1>4. Alone'
  BY <1>1, <1>2, <1>3 DEF CableInv, Alone, P!HotplugEvent, P!Free, P!Idle, P!At
<1>5. \A u \in P!Threads : P!At(u, "target")' => board'.kind = "fixed"
  BY <1>1, <1>2 DEF CableInv, P!At, P!Idle
<1>6. Switching' /\ Settled' => EventTrue'
  <2>. SUFFICES ASSUME Switching, Settled' PROVE EventTrue'
    BY <1>1
  <2>1. eventState' = e /\ board.kind \in {"fixed", "dual", "multi"}
    BY <1>1, BoardTypes DEF P!HotplugEvent, Switching, Kinds
  <2>2. board.kind \in {"dual", "multi"} \/ e = "resume" => seen' = plugged
    BY <2>1 DEF P!HotplugEvent, P!ReadBy, P!FixedReads
  <2>3. e \in {"in", "out", "resume"} /\ (e \in {"in", "out"} => (e = "in") = plugged)
    BY DEF CableEvents
  <2>. QED
    BY <1>1, <2>1, <2>2, <2>3 DEF EventTrue, PipesOK, P!None
<1>7. Switching' /\ ~raced' => FollowedAll'
  <2>. SUFFICES ASSUME Switching, ~raced' PROVE FollowedAll'
    BY <1>1
  <2>1. \A u \in P!Threads \ {t} : P!Idle(u)'
    BY <1>2, <1>3 DEF P!Idle, P!At
  <2>2. job'[t].pc \in {"target", "plan"} /\ job'[t].d = 1
    BY <1>2 DEF Switching
  <2>3. ASSUME NEW d \in P!DisplayIds PROVE ~Past(t, d)'
    BY <1>1, <2>2, BoardTypes DEF Past
  <2>. QED
    BY <1>1, <2>1, <2>2, <2>3 DEF FollowedAll, Through, P!At, P!Idle
<1>. QED
  BY <1>4, <1>5, <1>6, <1>7 DEF CableInv

LEMMA CableInvNext == ASSUME CableInv, [P!Next]_(P!pipeVars) PROVE CableInv'
<1>1. PipesOK /\ PipesOK'
  BY PipesOKNext DEF CableInv
<1>2. ASSUME NEW t \in P!Threads,
             P!FixedTarget(t) \/ P!PlanPipe(t) \/ P!WirePipe(t) \/ P!TellDisplays(t)
      PROVE  CableInv'
  BY <1>1, <1>2, CableStep
<1>3. CASE P!HandleUevent
  <2>1. /\ queued # <<>> /\ queued' = Tail(queued) /\ Head(queued) \in Uevents
        /\ plugged' = plugged
    BY <1>1, <1>3 DEF P!HandleUevent, P!HotplugEvent, PipesOK
  <2>2. /\ LastCable'
        /\ ~Unheard(queued') /\ Head(queued) \in CableEvents => (Head(queued) = "in") = plugged
    BY <1>1, <2>1, QueueTail DEF CableInv
  <2>3. CASE P!HotplugEvent("uevent", Head(queued)) /\ Head(queued) # "sleep"
    <3>1. Settled' => /\ Head(queued) # "suspend"
                      /\ Head(queued) \in CableEvents => (Head(queued) = "in") = plugged
      BY <2>1, <2>2 DEF Settled, Uevents
    <3>. QED
      BY <1>1, <2>1, <2>2, <2>3, <3>1, CableHotplug DEF Uevents, P!Threads
  <2>4. CASE asleep' = TRUE /\ UNCHANGED <<board, job, raced>>
    BY <1>1, <2>2, <2>4 DEF CableInv, Alone, P!Idle, P!At, Settled
  <2>. QED
    BY <1>3, <2>1, <2>3, <2>4 DEF P!HandleUevent
<1>4. CASE P!setPowerMode
  <2>1. LastCable'
    BY <1>4 DEF P!setPowerMode, P!HotplugEvent, CableInv, LastCable
  <2>2. ~Settled' \/ board.kind = "loopback"
    BY <1>4 DEF P!setPowerMode, P!HotplugEvent, Settled
  <2>3. CASE ~Settled'
    BY <1>1, <1>4, <2>1, <2>3, CableHotplug DEF P!setPowerMode, P!Threads
  <2>4. CASE board.kind = "loopback"
    <3>1. /\ board' = board /\ job' = job /\ ~raced /\ \A u \in P!Threads \ {"binder"} : P!Idle(u)
          /\ raced' <=> raced \/ \E u \in P!Threads \ {"binder"} : ~P!Idle(u)
      BY <1>4, <2>4 DEF P!setPowerMode, P!HotplugEvent, P!Free, P!Races, CableInv, Alone
    <3>. QED
      BY <1>1, <2>1, <2>4, <3>1 DEF CableInv, Alone, P!Idle, P!At, Switching
  <2>. QED
    BY <2>2, <2>3, <2>4
<1>5. CASE P!handleRequest
  <2>1. /\ UNCHANGED <<board, plugged, queued, job, raced>> /\ board.kind = "loopback"
    BY <1>5 DEF P!handleRequest
  <2>. QED
    BY <1>1, <2>1 DEF CableInv, LastCable, Alone, P!Idle, P!At, Switching
<1>6. CASE P!Cable
  <2>1. LastCable' /\ Unheard(queued')
    <3>. DEFINE e == IF plugged THEN "out" ELSE "in"
    <3>1. e \in Uevents /\ e \in CableEvents /\ (e = "in") = plugged'
      BY <1>1, <1>6 DEF P!Cable, Uevents, CableEvents, PipesOK
    <3>2. queued' = Append(queued, e)
      BY <1>6 DEF P!Cable
    <3>. HIDE DEF e
    <3>. QED
      BY <1>1, <3>1, <3>2, QueueAppend
  <2>2. UNCHANGED <<board, job, raced>>
    BY <1>6 DEF P!Cable
  <2>. QED
    BY <1>1, <2>1, <2>2 DEF CableInv, Alone, P!Idle, P!At, Settled
<1>7. ASSUME UNCHANGED <<board, plugged, asleep, seen, eventState, stat, job, raced>>,
             LastCable', Unheard(queued') <=> Unheard(queued)
      PROVE  CableInv'
  <2>1. Settled' = Settled
    BY <1>7 DEF Settled
  <2>2. /\ Switching' = Switching /\ EventTrue' = EventTrue /\ Alone' = Alone
        /\ FollowedAll' = FollowedAll
    BY <1>7 DEF Switching, EventTrue, Alone, FollowedAll, Through, Past, Follows, OnHdmi, P!Idle,
                   P!At,
                P!DisplayIds
  <2>. QED
    BY <1>1, <1>7, <2>1, <2>2 DEF CableInv, P!At
<1>8. CASE P!Sleep
  <2>. DEFINE e == IF P!Sleeping THEN "resume" ELSE "sleep"
  <2>1. e \in Uevents /\ e \notin CableEvents /\ queued' = Append(queued, e)
    BY <1>8 DEF P!Sleep, Uevents, CableEvents
  <2>2. UNCHANGED <<board, plugged, asleep, seen, eventState, stat, job, raced>>
    BY <1>8 DEF P!Sleep
  <2>. HIDE DEF e
  <2>. QED
    BY <1>1, <1>7, <2>1, <2>2, QueueAppend DEF CableInv
<1>9. CASE UNCHANGED P!pipeVars
  BY <1>1, <1>7, <1>9 DEF P!pipeVars, LastCable, CableInv
<1>. QED
  BY <1>2, <1>3, <1>4, <1>5, <1>6, <1>8, <1>9 DEF P!Next

(* On drm and off the loopback, once every uevent is handled and the last was *)
(* not a suspend, every display on hdmi has the hdmi connector if and only if *)
(* something is plugged: handleEvent of FixedDisplayPipe, DualDisplayPipe and *)
(* MultiDisplayDrmPipe, on any board, whenever the cable moved.               *)
THEOREM CableStaysFollowed == PipesSpec => []CableFollowed
<1>1. P!Init => CableInv
  BY CableInvInit
<1>2. CableInv /\ [P!Next]_(P!pipeVars) => CableInv'
  BY CableInvNext
<1>3. CableInv => CableFollowed
  <2>. SUFFICES ASSUME CableInv, P!Quiet, queued = <<>>, ~asleep, eventState # "suspend",
                       board.drm, board.kind # "loopback", NEW d \in P!DisplayIds, OnHdmi(d)
                PROVE  (stat[d].conn = "hdmi") = plugged
    BY DEF CableFollowed, P!CableFollowed, OnHdmi
  <2>1. Settled /\ Switching /\ ~raced
    BY DEF Settled, Switching, Unheard, P!Quiet
  <2>2. Through(d)
    BY DEF P!Quiet, Through, Past, P!Idle, P!At
  <2>. QED
    BY <2>1, <2>2 DEF CableInv, FollowedAll, Follows
<1>. QED
  BY <1>1, <1>2, <1>3, PTL DEF PipesSpec

-----------------------------------------------------------------------------
(* The bindings                                                               *)

(* Not yet initialised.                                                       *)
Unset(d) == stat[d].pipe = 0

(* What getPipeCfg may choose for display d.                                  *)
PlanOf(d, cfg) ==
    CASE board.kind = "fixed" -> \E c \in Sockets : cfg = P!Straight(1, c)
      [] board.kind = "loopback" ->
            \E c \in Uses(board.wired[1]) \ {"virtual"}, on \in BOOLEAN : cfg = P!LoopbackCfg(c, on)
      [] OTHER -> \E p \in 1 .. 2, c \in Uses(board.wired[d]) :
                    cfg = P!Straight(p, c) /\ (~board.dynViu => p = d)

(* What cfg uses is bound to each other in the table w.                       *)
BoundIn(w, cfg) ==
    /\ w.conn[cfg.pipe] = cfg.conn /\ w.crtc[cfg.conn] = cfg.pipe
    /\ w.conn[cfg.modePipe] = cfg.modeConn
    /\ w.crtc[cfg.modeConn] = cfg.modePipe
    /\ board.drm => \A i \in P!planesOf[cfg.pipe] : w.plane[i] = cfg.pipe

(* Displays are initialised in order, and what is planned is of the plans.    *)
Planned ==
    /\ job["main"].pc \in {"plan", "wire", "idle"}
    /\ \A d \in P!DisplayIds : Past("main", d) => ~Unset(d)
    /\ \A t \in P!Threads : P!At(t, "wire") => PlanOf(job[t].d, job[t].cfg)
    /\ \A d \in P!DisplayIds : ~Unset(d) => PlanOf(d, stat[d])

(* The crtcs of fbdev have the connectors of their displays.                  *)
FbWiring ==
    /\ board.kind # "loopback" =>
         \A d \in P!DisplayIds : wiring.conn[d] = IF Unset(d) THEN P!None ELSE stat[d].conn
    /\ board.kind = "loopback" => /\ \A t \in P!Threads : ~P!Idle(t) => t = "main" /\ Unset(1)
                                  /\ Unset(1) => wiring.conn[1] = P!None
                                  /\ Unset(1) \/ stat[1].modePipe = 1 => wiring.conn[2] = P!None

(* With a dynamic viu the crtcs are those of the last event.                  *)
Crossed ==
    /\ \A d \in P!DisplayIds : Through(d) => stat[d].pipe = P!DualPipe(d, board.wired[d])
    /\ \A t \in P!Threads :
         P!At(t, "wire") => job[t].cfg.pipe = P!DualPipe(job[t].d, board.wired[job[t].d])

(* The inductive invariant of the bindings.                                   *)
BoundInv ==
    /\ CableInv /\ Planned
    /\ ~board.dynViu => \A d \in P!DisplayIds : ~Unset(d) => BoundIn(wiring, stat[d])
    /\ ~board.drm /\ ~board.dynViu => FbWiring
    /\ board.dynViu /\ ~board.drm => Crossed

LEMMA PlanesInside ==
    ASSUME PipesOK, NEW p \in 1 .. P!PipesOf(board)
    PROVE  /\ P!planesOf[p] # {} /\ P!planesOf[p] \subseteq DOMAIN board.masks
           /\ \A q \in 1 .. P!PipesOf(board) : q # p => P!planesOf[p] \cap P!planesOf[q] = {}
<1>1. /\ board \in Boards /\ board.masks \in Seq(SUBSET (1 .. 2))
      /\ DOMAIN board.masks = 1 .. Len(board.masks)
  BY BoardsAssumption DEF PipesOK
<1>2. P!planesOf[p] # {}
  BY <1>1, BoardsAssumption DEF P!planesOf
<1>. DEFINE n == Len(board.masks)
            takes(i, x) == P!Cardinality(board.masks[i]) # 1 /\ x \in board.masks[i]
            cursor[i \in 1 .. n] ==
                IF i = n THEN P!PipesOf(board)
                ELSE IF takes(i + 1, cursor[i + 1]) THEN P!Max({1, cursor[i + 1] - 1})
                ELSE cursor[i + 1]
            f == cursor
<1>3. P!planesOf = [x \in 1 .. P!PipesOf(board) |->
           {i \in 1 .. n : board.masks[i] = {x} \/ (takes(i, x) /\ f[i] = x)}]
  BY Zenon DEF P!planesOf, P!Planes
<1>. HIDE DEF f, cursor
<1>4. ASSUME NEW q \in 1 .. P!PipesOf(board), q # p PROVE P!planesOf[p] \cap P!planesOf[q] = {}
  <2>1. ASSUME NEW S PROVE P!Cardinality(S) = Cardinality(S)
    BY Zenon DEF P!Cardinality, Cardinality
  <2>2. P!Cardinality({p}) = 1 /\ P!Cardinality({q}) = 1
    BY <2>1, FS_Singleton
  <2>. QED
    BY <1>1, <1>3, <1>4, <2>2
<1>. QED
  BY <1>1, <1>2, <1>3, <1>4

LEMMA PlanMade ==
    ASSUME PipesOK, NEW d \in P!DisplayIds, NEW on \in BOOLEAN
    PROVE  /\ PlanOf(d, P!getPipeCfg(d))
           /\ board.kind = "loopback" => PlanOf(1, P!LoopbackCfg(P!ConnectorCfg(1), on))
<1>1. /\ board.kind \in Kinds /\ 1 \in P!DisplayIds /\ post \in BOOLEAN
      /\ \A e \in P!DisplayIds : board.wired[e] \in Wires
  BY BoardTypes DEF PipesOK
<1>2. ASSUME NEW e \in P!DisplayIds
      PROVE  /\ P!ConnectorCfg(e) \in Uses(board.wired[e]) \ {"virtual"}
             /\ P!SwitchedHdmi(P!ConnectorCfg(e)) \in Uses(board.wired[e])
             /\ P!FixedConnector(P!ConnectorCfg(e)) \in Sockets
  BY <1>1 DEF P!ConnectorCfg, Uses, Wires, P!SwitchedHdmi, P!FixedConnector, Sockets, P!Dummy,
              P!hasDummyConnector
<1>3. CASE board.kind = "fixed"
  <2>1. P!getPipeCfg(d) = P!Straight(1, P!FixedConnector(P!ConnectorCfg(d)))
    BY <1>3 DEF P!getPipeCfg
  <2>. QED
    BY <1>2, <1>3, <2>1 DEF PlanOf
<1>4. CASE board.kind = "dual"
  <2>. DEFINE c == P!SwitchedHdmi(P!ConnectorCfg(d))
  <2>1. P!getPipeCfg(d) = P!Straight(P!DualPipe(d, c), c)
    BY <1>4 DEF P!getPipeCfg
  <2>2. P!DualPipe(d, c) \in 1 .. 2 /\ (~board.dynViu => P!DualPipe(d, c) = d)
    BY <1>1, BoardTypes DEF P!DualPipe
  <2>. QED
    BY <1>2, <1>4, <2>1, <2>2 DEF PlanOf
<1>5. CASE board.kind = "multi"
  <2>1. P!getPipeCfg(d) = P!Straight(d, P!SwitchedHdmi(P!ConnectorCfg(d))) /\ d \in 1 .. 2
    BY <1>5, BoardTypes DEF P!getPipeCfg
  <2>. QED
    BY <1>2, <1>5, <2>1 DEF PlanOf
<1>6. CASE board.kind = "loopback"
  <2>1. d = 1 /\ P!getPipeCfg(d) = P!LoopbackCfg(P!ConnectorCfg(1), post)
    BY <1>6, BoardTypes DEF P!getPipeCfg
  <2>. QED
    BY <1>1, <1>2, <1>6, <2>1 DEF PlanOf
<1>. QED
  BY <1>1, <1>3, <1>4, <1>5, <1>6 DEF Kinds

(* Of a plan: a crtc and a connector, and another crtc and another connector  *)
(* for the mode, if not the same.                                             *)
WellMade(cfg) ==
    /\ cfg \in Cfgs
    /\ cfg.pipe \in 1 .. 2 /\ cfg.conn \in Sockets
    /\ cfg.modePipe \in 1 .. 2 /\ cfg.modeConn \in Sockets
    /\ (cfg.modePipe = cfg.pipe) = (cfg.modeConn = cfg.conn)
    /\ cfg.pipe <= P!PipesOf(board) /\ cfg.modePipe <= P!PipesOf(board)

LEMMA PlanWellMade ==
    ASSUME PipesOK, NEW d \in P!DisplayIds, NEW cfg, PlanOf(d, cfg)
    PROVE  WellMade(cfg) /\ cfg.pipe # 0
<1>1. ASSUME NEW c \in Sockets, NEW p \in 1 .. 2, p <= P!PipesOf(board)
      PROVE  WellMade(P!Straight(p, c))
  BY <1>1 DEF P!Straight, WellMade, Cfgs
<1>2. board.kind \in Kinds /\ Len(board.wired) \in Nat /\ board.wired[d] \in Wires /\ d \in 1 .. 2
  BY BoardTypes
<1>3. CASE board.kind = "fixed"
  <2>1. P!PipesOf(board) = 1
    BY <1>3, BoardTypes DEF P!PipesOf
  <2>. QED
    BY <1>1, <1>3, <2>1 DEF PlanOf, WellMade
<1>4. CASE board.kind \in {"dual", "multi"}
  <2>1. P!PipesOf(board) = 2
    BY <1>4, BoardTypes DEF P!PipesOf
  <2>2. Uses(board.wired[d]) \subseteq Sockets
    BY <1>2 DEF Uses, Wires, Sockets
  <2>. QED
    BY <1>1, <1>4, <2>1, <2>2 DEF PlanOf, WellMade
<1>5. CASE board.kind = "loopback"
  <2>1. P!PipesOf(board) = 2 /\ board.wired[1] \in Wires
    BY <1>5, BoardTypes DEF P!PipesOf
  <2>2. PICK c \in Uses(board.wired[1]) \ {"virtual"}, on \in BOOLEAN : cfg = P!LoopbackCfg(c, on)
    BY <1>5 DEF PlanOf
  <2>3. c \in Sockets /\ c # "virtual"
    BY <2>1 DEF Uses, Wires, Sockets
  <2>4. CASE on
    BY <2>1, <2>2, <2>3, <2>4 DEF P!LoopbackCfg, WellMade, Cfgs, Sockets
  <2>5. CASE ~on
    BY <1>1, <2>1, <2>2, <2>3, <2>5 DEF P!LoopbackCfg, WellMade
  <2>. QED
    BY <2>4, <2>5
<1>. QED
  BY <1>2, <1>3, <1>4, <1>5 DEF Kinds

(* What a rewiring binds, and what it leaves as it was: w becomes y.          *)
Updated(w, y, s, n, a, c) ==
    y \in Wirings /\ y.conn = [w.conn EXCEPT ![a] = c] /\ y.crtc = [w.crtc EXCEPT ![s] = n]

DrmBound(w, y, a, s) ==
    /\ Updated(w, y, s, a, a, s)
    /\ y.plane = [i \in DOMAIN board.masks |-> IF i \in P!planesOf[a] THEN a ELSE w.plane[i]]

FbUnbound(w, y, a) ==
    /\ y \in Wirings /\ y.conn = [w.conn EXCEPT ![a] = P!None]
    /\ \A o \in Sockets \ {w.conn[a]} : y.crtc[o] = w.crtc[o]

FbBound(w, y, a, s) ==
    /\ y \in Wirings /\ y.conn = [w.conn EXCEPT ![a] = s] /\ y.crtc[s] = a
    /\ \A o \in Sockets \ {s, w.conn[a]} : y.crtc[o] = w.crtc[o]

LEMMA WiringUpdates ==
    ASSUME NEW w \in Wirings, NEW a \in 1 .. 2, NEW s \in Sockets, NEW n \in 0 .. 2,
           NEW c \in Sockets \cup {P!None}, NEW y, y = [w EXCEPT !.crtc[s] = n, !.conn[a] = c]
    PROVE  Updated(w, y, s, n, a, c)
<1>1. [w.conn EXCEPT ![a] = c] \in [1 .. 2 -> Sockets \cup {P!None}]
  BY DEF Wirings
<1>2. [w.crtc EXCEPT ![s] = n] \in [Sockets -> 0 .. 2]
  BY DEF Wirings
<1>3. /\ y.conn = [w.conn EXCEPT ![a] = c] /\ y.crtc = [w.crtc EXCEPT ![s] = n]
  BY DEF Wirings
<1>4. y \in Wirings
  BY <1>1, <1>2 DEF Wirings
<1>. QED
  BY <1>3, <1>4 DEF Updated

LEMMA DrmBinds ==
    ASSUME board.drm, NEW w \in Wirings, NEW a \in 1 .. 2, NEW s \in Sockets
    PROVE  DrmBound(w, P!bind(P!unbind(w, a), a, s), a, s)
<1>1. PICK u : u = [w EXCEPT !.pipes[a] = P!None]
  OBVIOUS
<1>2. /\ u \in Wirings /\ u.pipes[a] = P!None /\ u.conn = w.conn /\ u.crtc = w.crtc
      /\ u.plane = w.plane
  BY <1>1 DEF Wirings
<1>3. PICK y : y = [u EXCEPT !.pipes[a] = IF @ = P!None THEN s ELSE @, !.conn[a] = s, !.crtc[s] = a,
                             !.plane = [i \in DOMAIN @ |-> IF i \in P!planesOf[a] THEN a ELSE @[i]]]
  OBVIOUS
<1>4. y = P!bind(P!unbind(w, a), a, s)
  <2>1. u.pipes[a] # s
    BY <1>2 DEF Sockets, P!None
  <2>. QED
    BY <1>1, <1>3, <2>1 DEF P!bind, P!unbind, P!drmBind
<1>5. /\ y.pipes = [u.pipes EXCEPT ![a] = s]
      /\ y.conn = [u.conn EXCEPT ![a] = s] /\ y.crtc = [u.crtc EXCEPT ![s] = a]
      /\ y.plane = [i \in DOMAIN board.masks |-> IF i \in P!planesOf[a] THEN a ELSE u.plane[i]]
      /\ y = [pipes |-> y.pipes, conn |-> y.conn, crtc |-> y.crtc, plane |-> y.plane]
  BY <1>2, <1>3 DEF Wirings
<1>6. /\ y.pipes \in [1 .. 2 -> Sockets \cup {P!None}]
      /\ y.conn \in [1 .. 2 -> Sockets \cup {P!None}]
      /\ y.crtc \in [Sockets -> 0 .. 2]
  BY <1>2, <1>5 DEF Wirings
<1>7. y.plane \in [DOMAIN board.masks -> 0 .. 2]
  BY <1>2, <1>5 DEF Wirings
<1>8. y \in Wirings
  <2>1. [pipes |-> y.pipes, conn |-> y.conn, crtc |-> y.crtc, plane |-> y.plane] \in Wirings
    BY <1>6, <1>7 DEF Wirings
  <2>. QED
    BY <1>5, <2>1
<1>9. DrmBound(w, y, a, s)
  BY <1>2, <1>5, <1>8 DEF DrmBound, Updated
<1>. QED
  BY <1>4, <1>9

LEMMA DrmRewires ==
    ASSUME PipesOK, board.drm, NEW w \in Wirings, NEW cfg, WellMade(cfg)
    PROVE  LET r == P!Rewire(w, cfg) IN
           /\ BoundIn(r, cfg)
           /\ \A p \in 1 .. 2 \ {cfg.pipe, cfg.modePipe} : r.conn[p] = w.conn[p]
           /\ \A c \in Sockets \ {cfg.conn, cfg.modeConn} : r.crtc[c] = w.crtc[c]
           /\ \A i \in DOMAIN board.masks \ (P!planesOf[cfg.pipe] \cup P!planesOf[cfg.modePipe]) :
                r.plane[i] = w.plane[i]
<1>1. PICK p, c, q, m : p = cfg.pipe /\ c = cfg.conn /\ q = cfg.modePipe /\ m = cfg.modeConn
  OBVIOUS
<1>2. /\ p \in 1 .. 2 /\ c \in Sockets /\ q \in 1 .. 2 /\ m \in Sockets
      /\ (q = p) = (m = c) /\ p \in 1 .. P!PipesOf(board) /\ q \in 1 .. P!PipesOf(board)
  BY <1>1, BoardTypes DEF WellMade, P!PipesOf
<1>3. PICK first : first = P!bind(P!unbind(w, p), p, c)
  OBVIOUS
<1>4. PICK second : second = P!bind(P!unbind(first, q), q, m)
  OBVIOUS
<1>5. P!Rewire(w, cfg) = IF q = p THEN first ELSE second
  BY <1>1, <1>3, <1>4 DEF P!Rewire
<1>6. /\ first \in Wirings
      /\ first.conn = [w.conn EXCEPT ![p] = c] /\ first.crtc = [w.crtc EXCEPT ![c] = p]
      /\ first.plane = [i \in DOMAIN board.masks |-> IF i \in P!planesOf[p] THEN p ELSE w.plane[i]]
  <2>1. DrmBound(w, first, p, c)
    BY <1>2, <1>3, DrmBinds
  <2>. QED
    BY <2>1 DEF DrmBound, Updated
<1>7. /\ second.conn = [first.conn EXCEPT ![q] = m] /\ second.crtc = [first.crtc EXCEPT ![m] = q]
      /\ second.plane =
             [i \in DOMAIN board.masks |-> IF i \in P!planesOf[q] THEN q ELSE first.plane[i]]
  <2>1. DrmBound(first, second, q, m)
    BY <1>2, <1>4, <1>6, DrmBinds
  <2>. QED
    BY <2>1 DEF DrmBound, Updated
<1>8. P!planesOf[p] \subseteq DOMAIN board.masks /\ (p # q => P!planesOf[p] \cap P!planesOf[q] = {})
  BY <1>2, PlanesInside
<1>9. w.conn \in [1 .. 2 -> Sockets \cup {P!None}] /\ w.crtc \in [Sockets -> 0 .. 2]
  BY DEF Wirings
<1>10. CASE q = p
  BY <1>1, <1>2, <1>5, <1>6, <1>8, <1>9, <1>10 DEF BoundIn
<1>11. CASE q # p
  <2>1. BoundIn(second, cfg)
    <3>1. /\ second.conn[p] = c /\ second.crtc[c] = p
          /\ second.conn[q] = m /\ second.crtc[m] = q
      BY <1>2, <1>6, <1>7, <1>9, <1>11
    <3>2. \A i \in P!planesOf[p] : second.plane[i] = p
      BY <1>6, <1>7, <1>8, <1>11
    <3>. QED
      BY <1>1, <3>1, <3>2 DEF BoundIn
  <2>2. \A x \in 1 .. 2 \ {p, q} : second.conn[x] = w.conn[x]
    BY <1>6, <1>7, <1>9
  <2>3. \A x \in Sockets \ {c, m} : second.crtc[x] = w.crtc[x]
    BY <1>6, <1>7, <1>9
  <2>4. \A i \in DOMAIN board.masks \ (P!planesOf[p] \cup P!planesOf[q]) :
            second.plane[i] = w.plane[i]
    BY <1>6, <1>7
  <2>. QED
    BY <1>1, <1>5, <1>11, <2>1, <2>2, <2>3, <2>4
<1>. QED
  BY <1>10, <1>11

LEMMA FbUnbinds ==
    ASSUME NEW w \in Wirings, NEW a \in 1 .. 2
    PROVE  FbUnbound(w, P!fbdevUnbind(w, a), a)
<1>1. w.conn \in [1 .. 2 -> Sockets \cup {P!None}] /\ w.crtc \in [Sockets -> 0 .. 2]
  BY DEF Wirings
<1>2. CASE w.conn[a] = P!None
  BY <1>1, <1>2 DEF P!fbdevUnbind, FbUnbound
<1>3. CASE w.conn[a] # P!None
  <2>1. PICK o \in Sockets : o = w.conn[a]
    BY <1>1, <1>3
  <2>2. PICK y : y = [w EXCEPT !.crtc[o] = 0, !.conn[a] = P!None]
    OBVIOUS
  <2>3. Updated(w, y, o, 0, a, P!None)
    <3>1. 0 \in 0 .. 2 /\ P!None \in Sockets \cup {P!None}
      OBVIOUS
    <3>. QED
      BY <2>2, <3>1, WiringUpdates, Zenon
  <2>4. y = P!fbdevUnbind(w, a)
    BY <1>3, <2>1, <2>2 DEF P!fbdevUnbind
  <2>5. FbUnbound(w, y, a)
    BY <1>1, <2>1, <2>3 DEF FbUnbound, Updated
  <2>. QED
    BY <2>4, <2>5
<1>. QED
  BY <1>2, <1>3

LEMMA FbBinds ==
    ASSUME NEW w \in Wirings, NEW a \in 1 .. 2, NEW s \in Sockets
    PROVE  FbBound(w, P!fbdevBind(w, a, s), a, s)
<1>1. PICK u : u = P!fbdevUnbind(w, a)
  OBVIOUS
<1>2. PICK y : y = [u EXCEPT !.crtc[s] = a, !.conn[a] = s]
  OBVIOUS
<1>3. /\ u \in Wirings /\ u.conn = [w.conn EXCEPT ![a] = P!None]
      /\ \A o \in Sockets \ {w.conn[a]} : u.crtc[o] = w.crtc[o]
  <2>1. FbUnbound(w, u, a)
    BY <1>1, FbUnbinds
  <2>. QED
    BY <2>1 DEF FbUnbound
<1>4. y \in Wirings /\ y.conn = [u.conn EXCEPT ![a] = s] /\ y.crtc = [u.crtc EXCEPT ![s] = a]
  <2>1. Updated(u, y, s, a, a, s)
    <3>1. a \in 0 .. 2 /\ s \in Sockets \cup {P!None}
      OBVIOUS
    <3>. QED
      BY <1>2, <1>3, <3>1, WiringUpdates, Zenon
  <2>. QED
    BY <2>1 DEF Updated
<1>5. y = P!fbdevBind(w, a, s)
  BY <1>1, <1>2 DEF P!fbdevBind
<1>6. w.conn \in [1 .. 2 -> Sockets \cup {P!None}] /\ u.crtc \in [Sockets -> 0 .. 2]
  BY <1>3 DEF Wirings
<1>7. y.conn = [w.conn EXCEPT ![a] = s]
  BY <1>3, <1>4, <1>6
<1>8. y.crtc[s] = a /\ \A o \in Sockets \ {s, w.conn[a]} : y.crtc[o] = w.crtc[o]
  BY <1>3, <1>4, <1>6
<1>. QED
  BY <1>4, <1>5, <1>7, <1>8 DEF FbBound

LEMMA FbRewires ==
    ASSUME ~board.drm, NEW w \in Wirings, NEW cfg, WellMade(cfg)
    PROVE  LET r == P!Rewire(w, cfg) IN
           /\ cfg.pipe = cfg.modePipe =>
                /\ BoundIn(r, cfg)
                /\ \A p \in 1 .. 2 \ {cfg.pipe} : r.conn[p] = w.conn[p]
                /\ \A c \in Sockets \ {cfg.conn, w.conn[cfg.pipe]} : r.crtc[c] = w.crtc[c]
           /\ w.conn[1] = P!None /\ w.conn[2] = P!None => BoundIn(r, cfg)
<1>1. PICK p, c, q, m : p = cfg.pipe /\ c = cfg.conn /\ q = cfg.modePipe /\ m = cfg.modeConn
  OBVIOUS
<1>2. /\ p \in 1 .. 2 /\ c \in Sockets /\ q \in 1 .. 2 /\ m \in Sockets
      /\ (q = p) = (m = c)
  BY <1>1 DEF WellMade
<1>3. PICK u : u = P!fbdevUnbind(w, p)
  OBVIOUS
<1>4. PICK first : first = P!fbdevBind(u, p, c)
  OBVIOUS
<1>5. PICK second : second = P!fbdevBind(first, q, m)
  OBVIOUS
<1>6. P!Rewire(w, cfg) = IF q = p THEN first ELSE second
  BY <1>1, <1>3, <1>4, <1>5 DEF P!Rewire, P!bind, P!unbind
<1>7. /\ u \in Wirings /\ u.conn = [w.conn EXCEPT ![p] = P!None]
      /\ \A o \in Sockets \ {w.conn[p]} : u.crtc[o] = w.crtc[o]
  <2>1. FbUnbound(w, u, p)
    BY <1>2, <1>3, FbUnbinds
  <2>. QED
    BY <2>1 DEF FbUnbound
<1>8. /\ first \in Wirings /\ first.conn = [u.conn EXCEPT ![p] = c] /\ first.crtc[c] = p
      /\ \A o \in Sockets \ {c, u.conn[p]} : first.crtc[o] = u.crtc[o]
  <2>1. FbBound(u, first, p, c)
    BY <1>2, <1>4, <1>7, FbBinds
  <2>. QED
    BY <2>1 DEF FbBound
<1>9. /\ second.conn = [first.conn EXCEPT ![q] = m] /\ second.crtc[m] = q
      /\ \A o \in Sockets \ {m, first.conn[q]} : second.crtc[o] = first.crtc[o]
  <2>1. FbBound(first, second, q, m)
    BY <1>2, <1>5, <1>8, FbBinds
  <2>. QED
    BY <2>1 DEF FbBound
<1>10. w.conn \in [1 .. 2 -> Sockets \cup {P!None}] /\ P!None \notin Sockets
  BY DEF Wirings, Sockets, P!None
<1>11. first.conn = [w.conn EXCEPT ![p] = c] /\ u.conn[p] = P!None
  BY <1>2, <1>7, <1>8, <1>10
<1>12. ASSUME w.conn[1] = P!None, w.conn[2] = P!None, q # p PROVE BoundIn(second, cfg)
  <2>1. first.conn[q] = P!None /\ second.conn[p] = c /\ second.conn[q] = m
    BY <1>2, <1>9, <1>10, <1>11, <1>12
  <2>2. second.crtc[c] = p
    BY <1>2, <1>8, <1>9, <1>10, <1>12, <2>1
  <2>. QED
    BY <1>1, <1>9, <2>1, <2>2 DEF BoundIn
<1>13. CASE q = p
  <2>1. BoundIn(first, cfg)
    BY <1>1, <1>2, <1>8, <1>10, <1>11, <1>13 DEF BoundIn
  <2>2. \A x \in 1 .. 2 \ {p} : first.conn[x] = w.conn[x]
    BY <1>10, <1>11
  <2>3. \A x \in Sockets \ {c, w.conn[p]} : first.crtc[x] = w.crtc[x]
    BY <1>7, <1>8, <1>10, <1>11
  <2>. QED
    BY <1>1, <1>6, <1>13, <2>1, <2>2, <2>3
<1>14. CASE q # p
  BY <1>1, <1>6, <1>12, <1>14
<1>. QED
  BY <1>13, <1>14

-----------------------------------------------------------------------------
(* The bindings stay                                                          *)

LEMMA BoundInvInit == ASSUME P!Init PROVE BoundInv
<1>1. CableInv /\ PipesOK
  BY CableInvInit DEF CableInv
<1>2. /\ \A d \in P!DisplayIds : Unset(d)
      /\ job["main"].pc = "plan" /\ job["main"].d = 1
      /\ job["uevent"].pc = "idle" /\ job["binder"].pc = "idle"
      /\ \A t \in P!Threads : ~P!At(t, "wire")
  BY DEF P!Init, Unset, P!Threads, P!At
<1>3. \A d \in P!DisplayIds : ~Past("main", d)
  BY <1>1, <1>2, BoardTypes DEF Past
<1>4. Planned
  BY <1>2, <1>3 DEF Planned
<1>5. ASSUME ~board.drm PROVE FbWiring
  <2>1. wiring.conn[1] = P!None /\ wiring.conn[2] = P!None
    BY <1>5 DEF P!Init, P!Booted
  <2>2. \A d \in P!DisplayIds : wiring.conn[d] = P!None
    BY <1>1, <2>1, BoardTypes
  <2>3. Unset(1)
    BY <1>1, <1>2, BoardTypes
  <2>4. \A t \in P!Threads : ~P!Idle(t) => t = "main"
    BY <1>2 DEF P!Idle, P!At, P!Threads
  <2>. QED
    BY <1>2, <2>1, <2>2, <2>3, <2>4 DEF FbWiring
<1>6. Crossed
  <2>1. \A d \in P!DisplayIds : ~Through(d)
    BY <1>3 DEF Through, P!Threads
  <2>. QED
    BY <1>2, <2>1 DEF Crossed
<1>. QED
  BY <1>1, <1>2, <1>4, <1>5, <1>6 DEF BoundInv

(* Nothing the bindings depend on changes but by wiring.                      *)
LEMMA BoundInUnchanged ==
    ASSUME board' = board, wiring' = wiring
    PROVE  \A cfg : BoundIn(wiring, cfg)' <=> BoundIn(wiring, cfg)
  BY DEF BoundIn, P!planesOf

LEMMA PlanOfUnchanged ==
    ASSUME board' = board
    PROVE  \A d, cfg : PlanOf(d, cfg)' <=> PlanOf(d, cfg)
  BY DEF PlanOf

(* Two displays take their connectors apart.                                  *)
LEMMA PlansApart ==
    ASSUME PipesOK, NEW d \in P!DisplayIds, NEW e \in P!DisplayIds, d # e,
           NEW x, PlanOf(d, x), NEW y, PlanOf(e, y)
    PROVE  /\ board.kind \in {"dual", "multi"} /\ {d, e} = 1 .. 2
           /\ x.conn \in Uses(board.wired[d]) /\ y.conn \in Uses(board.wired[e])
           /\ Uses(board.wired[d]) \cap Uses(board.wired[e]) = {}
           /\ x.modePipe = x.pipe /\ x.modeConn = x.conn
           /\ y.modePipe = y.pipe /\ y.modeConn = y.conn
           /\ ~board.dynViu => x.pipe = d /\ y.pipe = e
<1>1. board.kind \in {"dual", "multi"} /\ {d, e} = 1 .. 2
  BY BoardTypes DEF Kinds
<1>2. board.kind \notin {"fixed", "loopback"}
  BY <1>1
<1>3. PICK p \in 1 .. 2, c \in Uses(board.wired[d]) :
        x = P!Straight(p, c) /\ (~board.dynViu => p = d)
  BY <1>2 DEF PlanOf
<1>4. PICK q \in 1 .. 2, m \in Uses(board.wired[e]) :
        y = P!Straight(q, m) /\ (~board.dynViu => q = e)
  BY <1>2 DEF PlanOf
<1>5. Uses(board.wired[d]) \cap Uses(board.wired[e]) = {}
  <2>1. board \in Boards
    BY DEF PipesOK
  <2>2. Uses(board.wired[1]) \cap Uses(board.wired[2]) = {}
    BY <1>1, <2>1, BoardsAssumption
  <2>3. (d = 1 /\ e = 2) \/ (d = 2 /\ e = 1)
    BY <1>1
  <2>. QED
    BY <2>2, <2>3
<1>. QED
  BY <1>1, <1>3, <1>4, <1>5 DEF P!Straight

(* Without a dynamic viu a wiring leaves the other displays bound.            *)
LEMMA WiresApart ==
    ASSUME PipesOK, Planned, ~board.dynViu, ~board.drm => FbWiring,
           NEW d \in P!DisplayIds, NEW cfg, PlanOf(d, cfg),
           board.kind # "loopback",
           NEW e \in P!DisplayIds, ~Unset(e), e # d, BoundIn(wiring, stat[e])
    PROVE  /\ BoundIn(P!Rewire(wiring, cfg), stat[e])
           /\ P!Rewire(wiring, cfg).conn[e] = wiring.conn[e]
<1>1. PlanOf(e, stat[e]) /\ wiring \in Wirings /\ WellMade(cfg) /\ WellMade(stat[e])
  BY PlanWellMade DEF Planned, PipesOK
<1>2. PICK c, m, r : c = cfg.conn /\ m = stat[e].conn /\ r = P!Rewire(wiring, cfg)
  OBVIOUS
<1>3. /\ cfg.pipe = d /\ cfg.modePipe = d /\ cfg.modeConn = c
      /\ stat[e].pipe = e /\ stat[e].modePipe = e /\ stat[e].modeConn = m
      /\ c \in Uses(board.wired[d]) /\ m \in Uses(board.wired[e])
      /\ Uses(board.wired[d]) \cap Uses(board.wired[e]) = {}
      /\ board.kind \in {"dual", "multi"}
  BY <1>1, <1>2, PlansApart
<1>4. m \in Sockets /\ m # c /\ d \in 1 .. 2 /\ e \in 1 .. 2
  BY <1>1, <1>2, <1>3, BoardTypes DEF WellMade
<1>5. SUFFICES /\ r.conn[e] = wiring.conn[e] /\ r.crtc[m] = wiring.crtc[m]
               /\ board.drm => \A i \in P!planesOf[e] : r.plane[i] = wiring.plane[i]
  BY <1>2, <1>3 DEF BoundIn
<1>6. CASE board.drm
  <2>1. /\ \A p \in 1 .. 2 \ {d} : r.conn[p] = wiring.conn[p]
        /\ \A k \in Sockets \ {c} : r.crtc[k] = wiring.crtc[k]
        /\ \A i \in DOMAIN board.masks \ P!planesOf[d] : r.plane[i] = wiring.plane[i]
    BY <1>1, <1>2, <1>3, <1>6, DrmRewires
  <2>2. d \in 1 .. P!PipesOf(board) /\ e \in 1 .. P!PipesOf(board)
    BY <1>1, <1>3, <1>4 DEF WellMade
  <2>3. P!planesOf[e] \subseteq DOMAIN board.masks /\ P!planesOf[e] \cap P!planesOf[d] = {}
    BY <2>2, PlanesInside
  <2>. QED
    BY <1>4, <2>1, <2>3
<1>7. CASE ~board.drm
  <2>1. /\ \A p \in 1 .. 2 \ {d} : r.conn[p] = wiring.conn[p]
        /\ \A k \in Sockets \ {c, wiring.conn[d]} : r.crtc[k] = wiring.crtc[k]
    BY <1>1, <1>2, <1>3, <1>7, FbRewires
  <2>2. wiring.conn[d] = IF Unset(d) THEN P!None ELSE stat[d].conn
    BY <1>7 DEF FbWiring
  <2>3. wiring.conn[d] # m
    <3>1. CASE Unset(d)
      BY <1>4, <2>2, <3>1 DEF Sockets, P!None
    <3>2. CASE ~Unset(d)
      <4>1. PlanOf(d, stat[d])
        BY <3>2 DEF Planned
      <4>2. stat[d].conn \in Uses(board.wired[d])
        BY <1>1, <4>1, PlansApart
      <4>. QED
        BY <1>3, <2>2, <3>2, <4>2
    <3>. QED
      BY <3>1, <3>2
  <2>. QED
    BY <1>4, <1>7, <2>1, <2>3
<1>. QED
  BY <1>6, <1>7

LEMMA BoundStays ==
    ASSUME BoundInv, CableInv', UNCHANGED <<board, stat, wiring>>, Planned',
           board.kind = "loopback" => \A t \in P!Threads : P!Idle(t) => P!Idle(t)',
           board.dynViu /\ ~board.drm => Crossed'
    PROVE  BoundInv'
<1>1. P!DisplayIds' = P!DisplayIds /\ \A d : Unset(d)' <=> Unset(d)
  BY DEF P!DisplayIds, Unset
<1>2. ~board.dynViu => \A d \in P!DisplayIds' : ~Unset(d)' => BoundIn(wiring, stat[d])'
  <2>1. ASSUME ~board.dynViu, NEW d \in P!DisplayIds, ~Unset(d) PROVE BoundIn(wiring, stat[d])'
    BY <2>1 DEF BoundInv, BoundIn, P!planesOf
  <2>. QED
    BY <1>1, <2>1
<1>3. ~board.drm /\ ~board.dynViu => FbWiring'
  BY <1>1 DEF BoundInv, FbWiring
<1>. QED
  BY <1>2, <1>3 DEF BoundInv

(* Plans and crtcs of a thread that goes on.                                  *)
LEMMA CrossedPlan ==
    ASSUME PipesOK, board.dynViu, ~board.drm, NEW d \in P!DisplayIds
    PROVE  P!getPipeCfg(d).pipe = P!DualPipe(d, board.wired[d])
<1>1. board \in Boards /\ d \in 1 .. 2
  BY BoardTypes DEF PipesOK
<1>2. board.kind = "dual" /\ board.wired[d] \in {"hdmi", "panel"}
  BY <1>1, BoardsAssumption
<1>3. P!SwitchedHdmi(P!ConnectorCfg(d)) = board.wired[d]
  BY <1>2 DEF P!SwitchedHdmi, P!ConnectorCfg, P!Dummy, P!hasDummyConnector
<1>. QED
  BY <1>2, <1>3 DEF P!getPipeCfg, P!Straight

LEMMA BoundStep ==
    ASSUME BoundInv, CableInv', NEW t \in P!Threads,
           P!FixedTarget(t) \/ P!PlanPipe(t) \/ P!TellDisplays(t)
    PROVE  BoundInv'
<1>1. /\ CableInv /\ PipesOK /\ Planned /\ GoesOn(t)
      /\ UNCHANGED <<board, stat, wiring, hdmiConnected>> /\ P!DisplayIds' = P!DisplayIds
  BY StepGoesOn DEF BoundInv, CableInv, P!FixedTarget, P!PlanPipe, P!TellDisplays, P!DisplayIds
<1>2. /\ \A d, cfg : PlanOf(d, cfg)' <=> PlanOf(d, cfg)
      /\ \A d : Unset(d)' <=> Unset(d)
      /\ \A d, c : P!DualPipe(d, c)' = P!DualPipe(d, c)
  BY <1>1, PlanOfUnchanged DEF Unset, P!DualPipe
<1>3. CASE P!PlanPipe(t)
  <2>1. /\ job[t].pc = "plan" /\ job'[t].pc = "wire" /\ job'[t].d = job[t].d
        /\ job'[t].cfg = P!getPipeCfg(job[t].d) /\ job[t].d \in P!DisplayIds
    BY <1>1, <1>3 DEF P!PlanPipe, PipesOK, P!At
  <2>2. /\ \A u \in P!Threads : \A d : Past(u, d)' <=> Past(u, d)
        /\ \A u \in P!Threads \ {t} : job'[u] = job[u]
    BY <1>1, <2>1 DEF Past, GoesOn
  <2>3. Planned'
    <3>1. job'["main"].pc \in {"plan", "wire", "idle"}
      BY <1>1, <2>1 DEF Planned, GoesOn, P!Threads
    <3>2. \A d \in P!DisplayIds : Past("main", d)' => ~Unset(d)'
      BY <1>1, <1>2, <2>2 DEF Planned, P!Threads
    <3>3. ASSUME NEW u \in P!Threads, P!At(u, "wire")' PROVE PlanOf(job'[u].d, job'[u].cfg)
      <4>1. CASE u = t
        BY <1>1, <2>1, <4>1, PlanMade
      <4>2. CASE u # t
        BY <1>1, <2>2, <3>3, <4>2 DEF Planned, P!At
      <4>. QED
        BY <4>1, <4>2
    <3>4. \A d \in P!DisplayIds : ~Unset(d)' => PlanOf(d, stat[d])
      BY <1>1, <1>2 DEF Planned
    <3>. QED
      BY <1>1, <1>2, <3>1, <3>2, <3>3, <3>4 DEF Planned
  <2>4. ASSUME board.dynViu, ~board.drm PROVE Crossed'
    <3>1. Crossed
      BY <2>4 DEF BoundInv
    <3>2. \A d : Through(d)' <=> Through(d)
      BY <2>2 DEF Through
    <3>3. ASSUME NEW u \in P!Threads, P!At(u, "wire")'
          PROVE  job'[u].cfg.pipe = P!DualPipe(job'[u].d, board.wired[job'[u].d])
      <4>1. CASE u = t
        BY <1>1, <2>1, <2>4, <4>1, CrossedPlan
      <4>2. CASE u # t
        BY <2>2, <3>1, <3>3, <4>2 DEF Crossed, P!At
      <4>. QED
        BY <4>1, <4>2
    <3>. QED
      BY <1>1, <1>2, <3>1, <3>2, <3>3 DEF Crossed
  <2>. QED
    BY <1>1, <2>1, <2>2, <2>3, <2>4, BoundStays DEF P!Idle, P!At
<1>4. CASE P!FixedTarget(t) \/ P!TellDisplays(t)
  <2>1. /\ job[t].pc \in {"target", "tell"} /\ job'[t].pc \in {"idle", "tell", "plan"}
        /\ t # "main" /\ \A u \in P!Threads \ {t} : job'[u] = job[u]
    BY <1>1, <1>4 DEF P!FixedTarget, P!TellDisplays, P!At, PipesOK, Planned, GoesOn
  <2>2. Planned'
    <3>1. \A d \in P!DisplayIds : Past("main", d)' => ~Unset(d)'
      BY <1>1, <1>2, <2>1 DEF Planned, Past, P!Threads
    <3>2. ASSUME NEW u \in P!Threads, P!At(u, "wire")' PROVE PlanOf(job'[u].d, job'[u].cfg)
      BY <1>1, <2>1, <3>2 DEF Planned, P!At
    <3>3. \A d \in P!DisplayIds : ~Unset(d)' => PlanOf(d, stat[d])
      BY <1>1, <1>2 DEF Planned
    <3>. QED
      BY <1>1, <1>2, <2>1, <3>1, <3>2, <3>3 DEF Planned, P!Threads
  <2>3. ASSUME board.dynViu, ~board.drm PROVE Crossed'
    <3>1. Crossed /\ board.kind = "dual"
      BY <1>1, <2>3, BoardsAssumption DEF BoundInv, PipesOK
    <3>2. job[t].pc = "tell" /\ job'[t].pc = "idle"
      BY <1>1, <1>4, <3>1 DEF CableInv, P!FixedTarget, P!TellDisplays, P!At, PipesOK
    <3>3. \A d : Through(d)' <=> Through(d)
      BY <2>1, <3>2 DEF Through, Past
    <3>4. ASSUME NEW u \in P!Threads, P!At(u, "wire")'
          PROVE  job'[u].cfg.pipe = P!DualPipe(job'[u].d, board.wired[job'[u].d])
      BY <2>1, <3>1, <3>2, <3>4 DEF Crossed, P!At
    <3>. QED
      BY <1>1, <1>2, <3>1, <3>3, <3>4 DEF Crossed
  <2>. QED
    BY <1>1, <2>1, <2>2, <2>3, BoundStays DEF P!Idle, P!At
<1>. QED
  BY <1>3, <1>4

LEMMA BoundHotplug ==
    ASSUME BoundInv, CableInv', NEW t \in {"uevent", "binder"}, NEW e, P!HotplugEvent(t, e)
    PROVE  BoundInv'
<1>1. /\ CableInv /\ PipesOK /\ Planned /\ t \in P!Threads
      /\ UNCHANGED <<board, stat, wiring>> /\ P!DisplayIds' = P!DisplayIds
  BY DEF BoundInv, CableInv, P!HotplugEvent, P!DisplayIds, P!Threads
<1>2. /\ P!Idle(t) /\ \A u \in P!Threads \ {t} : job'[u] = job[u]
      /\ board.kind = "loopback" => job' = job
      /\ board.kind # "loopback" =>
           job'[t].pc = (IF board.kind = "fixed" THEN "target" ELSE "plan") /\ job'[t].d = 1
  BY <1>1 DEF P!HotplugEvent, PipesOK
<1>3. /\ \A d, cfg : PlanOf(d, cfg)' <=> PlanOf(d, cfg)
      /\ \A d : Unset(d)' <=> Unset(d)
      /\ job'["main"] = job["main"]
      /\ ~P!At(t, "wire")'
  BY <1>1, <1>2, PlanOfUnchanged DEF Unset, P!Threads, P!Idle, P!At
<1>4. Planned'
  <2>1. \A d \in P!DisplayIds : Past("main", d)' => ~Unset(d)'
    BY <1>1, <1>3 DEF Planned, Past
  <2>2. ASSUME NEW u \in P!Threads, P!At(u, "wire")' PROVE PlanOf(job'[u].d, job'[u].cfg)
    BY <1>1, <1>2, <1>3, <2>2 DEF Planned, P!At
  <2>3. \A d \in P!DisplayIds : ~Unset(d)' => PlanOf(d, stat[d])
    BY <1>1, <1>3 DEF Planned
  <2>. QED
    BY <1>1, <1>3, <2>1, <2>2, <2>3 DEF Planned
<1>5. ASSUME board.dynViu, ~board.drm PROVE Crossed'
  <2>1. board.kind = "dual"
    BY <1>1, <1>5, BoardsAssumption DEF PipesOK
  <2>2. \A u \in P!Threads \ {t} : ~P!At(u, "wire")'
    BY <1>2, <2>1 DEF P!HotplugEvent, P!Free, P!Idle, P!At
  <2>3. ASSUME NEW d \in P!DisplayIds PROVE ~Through(d)'
    BY <1>1, <1>2, <2>1, BoardTypes DEF Through, Past
  <2>. QED
    BY <1>1, <1>3, <2>2, <2>3 DEF Crossed
<1>6. board.kind = "loopback" => \A u \in P!Threads : P!Idle(u) => P!Idle(u)'
  BY <1>2 DEF P!Idle, P!At
<1>. QED
  BY <1>1, <1>4, <1>5, <1>6, BoundStays

LEMMA BoundWire ==
    ASSUME BoundInv, CableInv', NEW t \in P!Threads, P!WirePipe(t) PROVE BoundInv'
<1>1. PICK d, cfg : d = job[t].d /\ cfg = job[t].cfg
  OBVIOUS
<1>2. /\ CableInv /\ PipesOK /\ Planned /\ GoesOn(t) /\ wiring \in Wirings
      /\ UNCHANGED <<board, hdmiConnected>> /\ P!DisplayIds' = P!DisplayIds
      /\ d \in P!DisplayIds /\ PlanOf(d, cfg) /\ WellMade(cfg) /\ cfg.pipe # 0
      /\ job[t].pc = "wire"
  <2>1. CableInv /\ PipesOK /\ Planned /\ GoesOn(t) /\ wiring \in Wirings /\ job[t].pc = "wire"
    BY StepGoesOn DEF BoundInv, CableInv, PipesOK, P!WirePipe, P!At
  <2>2. d \in P!DisplayIds /\ PlanOf(d, cfg)
    BY <1>1, <2>1 DEF PipesOK, Planned, P!At
  <2>3. WellMade(cfg) /\ cfg.pipe # 0
    BY <2>1, <2>2, PlanWellMade
  <2>. QED
    BY <2>1, <2>2, <2>3 DEF P!WirePipe, P!DisplayIds
<1>3. /\ stat'[d] = cfg /\ \A e \in P!DisplayIds \ {d} : stat'[e] = stat[e]
      /\ IF cfg = stat[d] THEN wiring' = wiring /\ stat' = stat
         ELSE wiring' = P!Rewire(wiring, cfg)
      /\ IF d < Len(board.wired) THEN job'[t].pc = "plan" /\ job'[t].d = d + 1
         ELSE job'[t].pc \in {"idle", "tell"} /\ (t = "main" => job'[t].pc = "idle")
  BY <1>1, <1>2 DEF P!WirePipe, PipesOK
<1>4. /\ \A e, x : PlanOf(e, x)' <=> PlanOf(e, x)
      /\ \A e : Unset(e) = (stat[e].pipe = 0) /\ Unset(e)' = (stat'[e].pipe = 0)
      /\ ~Unset(d)' /\ \A e \in P!DisplayIds \ {d} : Unset(e)' <=> Unset(e)
      /\ \A e, c : P!DualPipe(e, c)' = P!DualPipe(e, c)
      /\ \A u \in P!Threads \ {t} : job'[u] = job[u]
  BY <1>2, <1>3, PlanOfUnchanged DEF Unset, P!DualPipe, GoesOn
<1>5. ASSUME NEW e \in P!DisplayIds, e # d, Past(t, e)' PROVE Past(t, e)
  BY <1>1, <1>2, <1>3, <1>5, BoardTypes DEF Past
<1>6. Planned'
  <2>1. job'["main"].pc \in {"plan", "wire", "idle"}
    BY <1>2, <1>3, <1>4 DEF Planned, P!Threads
  <2>2. ASSUME NEW e \in P!DisplayIds, Past("main", e)' PROVE ~Unset(e)'
    <3>1. CASE e = d
      BY <1>4, <3>1
    <3>2. CASE e # d
      <4>1. Past("main", e)
        BY <1>4, <1>5, <2>2, <3>2 DEF Past, P!Threads
      <4>. QED
        BY <1>2, <1>4, <3>2, <4>1 DEF Planned
    <3>. QED
      BY <3>1, <3>2
  <2>3. ASSUME NEW u \in P!Threads, P!At(u, "wire")' PROVE PlanOf(job'[u].d, job'[u].cfg)
    BY <1>2, <1>3, <1>4, <2>3 DEF Planned, P!At
  <2>4. ASSUME NEW e \in P!DisplayIds, ~Unset(e)' PROVE PlanOf(e, stat'[e])
    BY <1>2, <1>3, <1>4, <2>4 DEF Planned
  <2>. QED
    BY <1>2, <1>4, <2>1, <2>2, <2>3, <2>4 DEF Planned
<1>7. ASSUME board.kind # "loopback"
      PROVE  cfg.modePipe = cfg.pipe /\ (~board.dynViu => cfg.pipe = d)
  BY <1>2, <1>7, BoardTypes DEF PlanOf, P!Straight, Kinds
<1>8. ASSUME board.kind = "loopback", ~board.drm
      PROVE  /\ d = 1 /\ Unset(1) /\ wiring.conn[1] = P!None /\ wiring.conn[2] = P!None
             /\ cfg.pipe = 1 /\ \A u \in P!Threads : P!Idle(u)'
  <2>1. ~board.dynViu
    BY <1>2, <1>8, BoardsAssumption DEF PipesOK
  <2>2. FbWiring /\ ~P!Idle(t)
    BY <1>2, <1>8, <2>1 DEF BoundInv, P!Idle, P!At
  <2>3. t = "main" /\ Unset(1) /\ \A u \in P!Threads \ {t} : P!Idle(u)
    BY <1>8, <2>2 DEF FbWiring
  <2>4. d = 1 /\ Len(board.wired) = 1
    BY <1>2, <1>8, BoardTypes
  <2>5. cfg.pipe = 1
    BY <1>2, <1>8 DEF PlanOf, P!LoopbackCfg, P!Straight
  <2>6. \A u \in P!Threads : P!Idle(u)'
    BY <1>3, <1>4, <2>3, <2>4 DEF P!Idle, P!At
  <2>. QED
    BY <1>8, <2>2, <2>3, <2>4, <2>5, <2>6 DEF FbWiring
<1>9. ASSUME ~board.dynViu, NEW e \in P!DisplayIds, ~Unset(e)' PROVE BoundIn(wiring', stat'[e])
  <2>1. CASE cfg = stat[d]
    BY <1>3, <1>4, <1>9, <2>1 DEF BoundInv, Unset
  <2>2. CASE cfg # stat[d] /\ e = d
    <3>1. CASE board.drm
      BY <1>2, <1>3, <2>2, <3>1, DrmRewires
    <3>2. CASE ~board.drm /\ board.kind = "loopback"
      BY <1>2, <1>3, <1>8, <2>2, <3>2, FbRewires
    <3>3. CASE ~board.drm /\ board.kind # "loopback"
      BY <1>2, <1>3, <1>7, <2>2, <3>3, FbRewires
    <3>. QED
      BY <3>1, <3>2, <3>3
  <2>3. CASE cfg # stat[d] /\ e # d
    <3>1. board.kind # "loopback" /\ ~Unset(e) /\ stat'[e] = stat[e]
      BY <1>2, <1>3, <1>4, <1>9, <2>3, BoardTypes
    <3>2. BoundIn(wiring, stat[e]) /\ (~board.drm => FbWiring)
      BY <1>9, <3>1 DEF BoundInv
    <3>. QED
      BY <1>2, <1>3, <1>9, <2>3, <3>1, <3>2, WiresApart
  <2>. QED
    BY <2>1, <2>2, <2>3
<1>10. ASSUME ~board.drm, ~board.dynViu PROVE FbWiring'
  <2>1. FbWiring
    BY <1>10 DEF BoundInv
  <2>2. ASSUME board.kind # "loopback", NEW e \in P!DisplayIds
        PROVE  wiring'.conn[e] = IF Unset(e)' THEN P!None ELSE stat'[e].conn
    <3>1. CASE e = d
      <4>1. BoundIn(wiring', cfg)
        BY <1>3, <1>4, <1>9, <1>10, <3>1
      <4>. QED
        BY <1>3, <1>4, <1>7, <1>10, <2>2, <3>1, <4>1 DEF BoundIn
    <3>2. CASE e # d
      <4>1. wiring'.conn[e] = wiring.conn[e]
        <5>1. CASE cfg = stat[d]
          BY <1>3, <5>1
        <5>2. CASE cfg # stat[d]
          <6>1. e \in 1 .. 2 \ {cfg.pipe}
            BY <1>2, <1>7, <1>10, <2>2, <3>2, BoardTypes
          <6>2. wiring' = P!Rewire(wiring, cfg) /\ cfg.pipe = cfg.modePipe
            BY <1>3, <1>7, <2>2, <5>2
          <6>. QED
            BY <1>2, <1>10, <6>1, <6>2, FbRewires
        <5>. QED
          BY <5>1, <5>2
      <4>. QED
        BY <1>3, <1>4, <2>1, <2>2, <3>2, <4>1 DEF FbWiring
    <3>. QED
      BY <3>1, <3>2
  <2>3. ASSUME board.kind = "loopback", stat'[1].modePipe = 1 PROVE wiring'.conn[2] = P!None
    <3>1. /\ d = 1 /\ Unset(1) /\ wiring.conn[2] = P!None /\ cfg.pipe = 1
      BY <1>8, <1>10, <2>3
    <3>2. cfg.modePipe = 1 /\ cfg # stat[d]
      BY <1>2, <1>3, <1>4, <2>3, <3>1
    <3>. QED
      BY <1>2, <1>3, <1>10, <3>1, <3>2, FbRewires
  <2>4. board.kind = "loopback" => ~Unset(1)' /\ \A u \in P!Threads : P!Idle(u)'
    BY <1>4, <1>8, <1>10
  <2>. QED
    BY <1>2, <2>2, <2>3, <2>4 DEF FbWiring
<1>11. ASSUME board.dynViu, ~board.drm PROVE Crossed'
  <2>1. Crossed
    BY <1>11 DEF BoundInv
  <2>2. cfg.pipe = P!DualPipe(d, board.wired[d])
    BY <1>1, <1>2, <2>1 DEF Crossed, P!At
  <2>3. ASSUME NEW e \in P!DisplayIds, Through(e)'
        PROVE  stat'[e].pipe = P!DualPipe(e, board.wired[e])
    <3>1. CASE e = d
      BY <1>3, <2>2, <3>1
    <3>2. CASE e # d
      <4>1. Through(e)
        <5>1. ASSUME NEW u \in P!Threads PROVE Past(u, e)
          <6>1. Past(u, e)'
            BY <2>3, <5>1 DEF Through
          <6>. QED
            BY <1>4, <1>5, <3>2, <6>1 DEF Past
        <5>. QED
          BY <5>1 DEF Through
      <4>. QED
        BY <1>3, <2>1, <3>2, <4>1 DEF Crossed
    <3>. QED
      BY <3>1, <3>2
  <2>4. ASSUME NEW u \in P!Threads, P!At(u, "wire")'
        PROVE  job'[u].cfg.pipe = P!DualPipe(job'[u].d, board.wired[job'[u].d])
    <3>1. u # t
      BY <1>3, <2>4 DEF P!At
    <3>. QED
      BY <1>4, <2>1, <2>4, <3>1 DEF Crossed, P!At
  <2>. QED
    BY <1>2, <1>4, <2>3, <2>4 DEF Crossed
<1>. QED
  BY <1>2, <1>6, <1>9, <1>10, <1>11 DEF BoundInv, BoundIn, P!planesOf

LEMMA BoundRequest ==
    ASSUME BoundInv, CableInv', P!handleRequest PROVE BoundInv'
<1>. DEFINE old == stat[1]
            cleared == P!clearMode(P!clearMode(wiring, old.pipe), old.modePipe)
            freed == P!unbind(P!unbind(cleared, old.pipe), old.modePipe)
<1>1. PICK cfg : cfg = P!LoopbackCfg(P!ConnectorCfg(1), post')
  OBVIOUS
<1>2. /\ CableInv /\ PipesOK /\ Planned /\ wiring \in Wirings /\ post' \in BOOLEAN
      /\ board.kind = "loopback" /\ P!DisplayIds = {1} /\ old \in Cfgs
      /\ UNCHANGED <<board, job>> /\ P!DisplayIds' = P!DisplayIds
      /\ P!Idle("main")
  BY BoardTypes DEF BoundInv, CableInv, P!handleRequest, PipesOK, P!DisplayIds, Kinds
<1>3. PlanOf(1, cfg) /\ WellMade(cfg) /\ cfg.pipe = 1
  <2>1. PlanOf(1, cfg) /\ WellMade(cfg)
    BY <1>1, <1>2, PlanMade, PlanWellMade
  <2>. QED
    BY <1>2, <2>1 DEF PlanOf, P!LoopbackCfg, P!Straight
<1>4. /\ stat'[1] = cfg /\ wiring' = P!Rewire(freed, cfg)
  BY <1>1, <1>2 DEF P!handleRequest, PipesOK
<1>5. ~Unset(1) /\ PlanOf(1, old) /\ WellMade(old) /\ old.pipe = 1
  <2>1. ~Unset(1)
    BY <1>2 DEF Planned, Past, P!Idle, P!At, P!Threads
  <2>2. PlanOf(1, old) /\ WellMade(old)
    BY <1>2, <2>1, PlanWellMade DEF Planned
  <2>3. PICK c, on : old = P!LoopbackCfg(c, on)
    BY <1>2, <2>2 DEF PlanOf
  <2>4. old.pipe = 1
    BY <2>3 DEF P!LoopbackCfg, P!Straight
  <2>. QED
    BY <2>1, <2>2, <2>4
<1>6. old.pipe \in 0 .. 2 /\ old.modePipe \in 0 .. 2
  BY <1>2 DEF Cfgs
<1>7. P!clearMode(wiring, old.pipe) \in Wirings
  BY <1>2, <1>6, WiringTypes
<1>8. cleared \in Wirings
  BY <1>2, <1>6, <1>7, WiringTypes
<1>. HIDE DEF cleared
<1>9. P!unbind(cleared, old.pipe) \in Wirings
  BY <1>2, <1>6, <1>8, WiringTypes
<1>10. freed \in Wirings
  BY <1>2, <1>6, <1>9, WiringTypes
<1>11. \A d, x : PlanOf(d, x)' <=> PlanOf(d, x)
  BY <1>2, PlanOfUnchanged
<1>12. ~Unset(1)'
  BY <1>3, <1>4 DEF Unset
<1>13. Planned'
  BY <1>2, <1>3, <1>4, <1>11, <1>12 DEF Planned, P!At
<1>14. ~board.dynViu
  BY <1>2, BoardsAssumption DEF PipesOK
<1>15. ASSUME ~board.drm
       PROVE  /\ freed.conn[1] = P!None /\ freed.conn[2] = P!None
  <2>1. FbWiring
    BY <1>14, <1>15 DEF BoundInv
  <2>2. cleared = wiring
    BY <1>15 DEF P!clearMode, cleared
  <2>3. PICK u : u = P!fbdevUnbind(wiring, 1)
    OBVIOUS
  <2>4. PICK v : v = P!fbdevUnbind(u, old.modePipe)
    OBVIOUS
  <2>5. freed = v
    BY <1>5, <1>15, <2>2, <2>3, <2>4 DEF P!unbind
  <2>6. FbUnbound(wiring, u, 1)
    BY <1>2, <2>3, FbUnbinds
  <2>7. u \in Wirings /\ old.modePipe \in 1 .. 2
    BY <1>5, <2>6 DEF FbUnbound, WellMade
  <2>8. FbUnbound(u, v, old.modePipe)
    BY <2>4, <2>7, FbUnbinds
  <2>9. wiring.conn \in [1 .. 2 -> Sockets \cup {P!None}]
    BY <1>2 DEF Wirings
  <2>10. old.modePipe = 1 => wiring.conn[2] = P!None
    BY <1>2, <2>1 DEF FbWiring
  <2>. QED
    BY <2>5, <2>6, <2>7, <2>8, <2>9, <2>10 DEF FbUnbound
<1>. HIDE DEF freed, old
<1>16. BoundIn(wiring', cfg)
  <2>1. CASE board.drm
    BY <1>2, <1>3, <1>4, <1>10, <2>1, DrmRewires
  <2>2. CASE ~board.drm
    BY <1>3, <1>4, <1>10, <1>15, <2>2, FbRewires
  <2>. QED
    BY <2>1, <2>2
<1>17. ~board.drm => FbWiring'
  <2>1. ASSUME ~board.drm, cfg.modePipe = 1 PROVE wiring'.conn[2] = P!None
    BY <1>3, <1>4, <1>10, <1>15, <2>1, FbRewires
  <2>2. ~board.drm => \A t \in P!Threads : P!Idle(t)
    BY <1>2, <1>5, <1>14 DEF BoundInv, FbWiring
  <2>. QED
    BY <1>2, <1>4, <1>12, <2>1, <2>2 DEF FbWiring, P!Idle, P!At
<1>. QED
  BY <1>2, <1>4, <1>13, <1>14, <1>16, <1>17 DEF BoundInv, BoundIn, P!planesOf

LEMMA BoundInvNext == ASSUME BoundInv, [P!Next]_(P!pipeVars) PROVE BoundInv'
<1>1. CableInv' /\ PipesOK /\ Planned
  BY CableInvNext DEF BoundInv, CableInv
<1>2. ASSUME NEW t \in P!Threads,
             P!FixedTarget(t) \/ P!PlanPipe(t) \/ P!WirePipe(t) \/ P!TellDisplays(t)
      PROVE  BoundInv'
  BY <1>1, <1>2, BoundStep, BoundWire
<1>3. ASSUME UNCHANGED <<board, stat, wiring, job, hdmiConnected>> PROVE BoundInv'
  <2>1. Planned'
    BY <1>1, <1>3, PlanOfUnchanged DEF Planned, Past, Unset, P!At, P!DisplayIds
  <2>2. board.dynViu /\ ~board.drm => Crossed'
    BY <1>3 DEF BoundInv, Crossed, Through, Past, P!At, P!DualPipe, P!DisplayIds
  <2>. QED
    BY <1>1, <1>3, <2>1, <2>2, BoundStays DEF P!Idle, P!At
<1>4. CASE P!HandleUevent
  BY <1>1, <1>3, <1>4, BoundHotplug DEF P!HandleUevent
<1>5. CASE P!setPowerMode
  BY <1>1, <1>5, BoundHotplug DEF P!setPowerMode
<1>6. CASE P!handleRequest
  BY <1>1, <1>6, BoundRequest
<1>7. CASE P!Cable \/ P!Sleep \/ UNCHANGED P!pipeVars
  BY <1>3, <1>7 DEF P!Cable, P!Sleep, P!pipeVars
<1>. QED
  BY <1>2, <1>4, <1>5, <1>6, <1>7 DEF P!Next

LEMMA BoundInvBound == ASSUME BoundInv PROVE P!Bound /\ (~(board.drm /\ board.dynViu) => P!Apart)
<1>1. PipesOK /\ Planned
  BY DEF BoundInv, CableInv
<1>2. ASSUME P!Quiet, NEW d \in P!DisplayIds PROVE ~Unset(d) /\ Through(d) /\ PlanOf(d, stat[d])
  <2>1. Through(d)
    BY <1>2 DEF P!Quiet, Through, Past, P!Idle, P!At
  <2>2. ~Unset(d)
    BY <1>1, <2>1 DEF Planned, Through, P!Threads
  <2>. QED
    BY <1>1, <2>1, <2>2 DEF Planned
<1>3. ASSUME P!Quiet, ~board.dynViu, NEW d \in P!DisplayIds
      PROVE  BoundIn(wiring, stat[d]) /\ P!planesOf[stat[d].pipe] # {}
  <2>1. WellMade(stat[d])
    BY <1>1, <1>2, <1>3, PlanWellMade
  <2>2. stat[d].pipe \in 1 .. P!PipesOf(board)
    BY <1>1, <2>1, BoardTypes DEF WellMade, P!PipesOf
  <2>. QED
    BY <1>1, <1>2, <1>3, <2>2, PlanesInside DEF BoundInv
<1>4. P!Bound
  BY <1>3 DEF P!Bound, BoundIn
<1>5. ASSUME ~(board.drm /\ board.dynViu), P!Quiet,
             NEW d \in P!DisplayIds, NEW e \in P!DisplayIds, d # e
      PROVE  stat[d].pipe # stat[e].pipe /\ stat[d].conn # stat[e].conn
  <2>1. /\ stat[d].conn \in Uses(board.wired[d]) /\ stat[e].conn \in Uses(board.wired[e])
        /\ Uses(board.wired[d]) \cap Uses(board.wired[e]) = {}
        /\ ~board.dynViu => stat[d].pipe = d /\ stat[e].pipe = e
        /\ {d, e} = 1 .. 2
    BY <1>1, <1>2, <1>5, PlansApart
  <2>2. ASSUME board.dynViu PROVE stat[d].pipe # stat[e].pipe
    <3>1. Crossed
      BY <1>5, <2>2 DEF BoundInv
    <3>2. /\ stat[d].pipe = P!DualPipe(d, board.wired[d])
          /\ stat[e].pipe = P!DualPipe(e, board.wired[e])
      BY <1>2, <1>5, <3>1 DEF Crossed
    <3>3. board.wired[d] \in {"hdmi", "panel"} /\ board.wired[e] \in {"hdmi", "panel"}
      BY <1>1, <2>1, <2>2, BoardsAssumption DEF PipesOK
    <3>4. board.wired[d] # board.wired[e]
      BY <2>1
    <3>. QED
      BY <2>1, <3>2, <3>3, <3>4 DEF P!DualPipe
  <2>. QED
    BY <1>5, <2>1, <2>2
<1>. QED
  BY <1>4, <1>5 DEF P!Apart

(* With no event under way, crtc, connector and planes of every display are   *)
(* bound to each other, whatever order events, sleeps, cables and requests    *)
(* came in, and no two displays share a crtc or a connector.  With a dynamic  *)
(* viu the crtcs move after the planes: only the latter, and not on drm.      *)
THEOREM StaysBound == PipesSpec => [](P!Bound /\ (~(board.drm /\ board.dynViu) => Bound))
<1>1. P!Init => BoundInv
  BY BoundInvInit
<1>2. BoundInv /\ [P!Next]_(P!pipeVars) => BoundInv'
  BY BoundInvNext
<1>3. BoundInv => P!Bound /\ (~(board.drm /\ board.dynViu) => Bound)
  BY BoundInvBound DEF Bound
<1>. QED
  BY <1>1, <1>2, <1>3, PTL DEF PipesSpec
=============================================================================
