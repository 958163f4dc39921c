------------------------------ MODULE DrmPlanes ------------------------------
(***************************************************************************)
(* The framebuffers of the drm planes, one plane of each display.             *)
(* SurfaceFlinger's thread sets the planes and flips; the event thread blanks  *)
(* and cleans up a display that is unplugged.  A plane keeps the buffer        *)
(* objects of its last frames, because a commit does not wait for the screen   *)
(* and removing a framebuffer that is shown turns the plane off.               *)
(***************************************************************************)
EXTENDS DrmBo, Sequences, SequencesExt

CONSTANTS Off,           \* a request that turns the plane off
          Unmade,        \* a DrmBo whose import failed, or before the first one
          NewFbs(_, _),  \* bound: the framebuffer ids the kernel takes, if free
          Brings(_, _)   \* bound: the buffers of a display, faulty or not

SF == "sf"
EV == "ev"

\* The threads are threads, and None, Off and Unmade are not buffers.
DrmConstants ==
    /\ SF \in Thread /\ EV \in Thread /\ IsFiniteSet(FbId)
    /\ None \notin Buffer \cup Handle \cup FbId
    /\ Off \notin FbId \cup {None} /\ Unmade \notin FbId \cup {None}
ASSUME DrmAssumption == DrmConstants

CacheDepth == 3

VARIABLES plane,   \* of each display: mDrmBo, mBlank and mBoCache
          req,     \* mReq: the framebuffer it sets, Off, or None
          shown,   \* what the kernel shows: a framebuffer or None
          unseen,  \* framebuffers set since the last commit the driver took, up
                   \* to CacheDepth; CacheDepth when it refused to turn the plane off
          sf,      \* the frame under way, its display, and what it lets go of
          ev,      \* the unplug under way, likewise
          plugged,
          faulty   \* displays whose imports and commits may fail

planeVars == <<plane, req, shown, unseen, sf, ev, plugged, faulty>>
drmVars == <<boVars, planeVars>>

Display == DOMAIN plane

\* The framebuffers a plane holds on to.
Held(s) == (ToSet(s.cache) \cup {s.bo}) \ {None, Unmade}

\* A plane changes, and the thread has to release what it no longer holds.
Changes(d, s) == plane' = [plane EXCEPT ![d] = s]
LetGo(d, s) == Held(plane[d]) \ Held(s)

\* Mutant: a plane keeps only the newest buffer object.
KeepNewest(cache) == IF Len(cache) > 1 THEN Tail(cache) ELSE cache

Cached(cache) == IF Len(cache) > CacheDepth THEN Tail(cache) ELSE cache

Pushed(s) == IF s.bo = None THEN s ELSE [s EXCEPT !.cache = Cached(Append(@, s.bo))]

SFIdle == sf.at = "idle"
\* mMutex of a display: presentDisplay, onHotplug and cleanupBeforeDestroy.
Free(d) == (sf.at = "idle" \/ sf.d # d) /\ (ev.at \notin {"clean", "drop"} \/ ev.d # d)

-----------------------------------------------------------------------------
(* A frame                                                                   *)

\* setPlane with a new framebuffer: mDrmBo is replaced before the import.  The one
\* before it is in the cache.
setPlane(d, b) ==
    /\ SFIdle /\ Free(d) /\ plugged[d] /\ ~raced
    /\ FdToHandle(SF, b)
    /\ Changes(d, [plane[d] EXCEPT !.bo = Unmade])
    /\ sf' = [at |-> "import", d |-> d, drop |-> {}]
    /\ UNCHANGED <<req, shown, unseen, ev, plugged, faulty>>

\* An import that fails returns; the frame goes on without the plane.
ImportFails(d) ==
    /\ SFIdle /\ Free(d) /\ plugged[d] /\ d \in faulty /\ ~raced
    /\ Changes(d, [plane[d] EXCEPT !.bo = Unmade])
    /\ UNCHANGED <<boVars, req, shown, unseen, sf, ev, plugged, faulty>>

AddFramebuffer ==
    /\ sf.at = "import"
    /\ \E f \in NewFbs(sf.d, plane[sf.d].cache) : AddFb(SF, f)
    /\ UNCHANGED planeVars

\* The rest of setPlane: the request, and the cache of buffer objects.
Set ==
    /\ sf.at = "import" /\ refHandle(SF)
    /\ LET d == sf.d
           f == call[SF].fb
           s == Pushed([plane[d] EXCEPT !.bo = f, !.blank = FALSE])
       IN /\ Changes(d, s)
          /\ req' = [req EXCEPT ![d] = f]
          /\ unseen' = [unseen EXCEPT ![d] = IF @ < CacheDepth THEN @ + 1 ELSE @]
          /\ sf' = [sf EXCEPT !.at = "flip", !.drop = LetGo(d, s)]
    /\ UNCHANGED <<shown, ev, plugged, faulty>>

BlankPlane(s) == Pushed([s EXCEPT !.bo = IF s.blank THEN @ ELSE None, !.blank = TRUE])

\* The frame has nothing for the plane.
BlankFrame(d) ==
    /\ SFIdle /\ Free(d) /\ ~raced
    /\ Changes(d, BlankPlane(plane[d]))
    /\ req' = [req EXCEPT ![d] = IF plane[d].blank THEN None ELSE Off]
    /\ sf' = [at |-> "flip", d |-> d, drop |-> LetGo(d, BlankPlane(plane[d]))]
    /\ UNCHANGED <<boVars, shown, unseen, ev, plugged, faulty>>

\* The kernel turns off a plane whose framebuffer is removed.
Removed(f) == shown' = [d \in Display |-> IF shown[d] = f THEN None ELSE shown[d]]

\* A DrmBo that is referenced no more.
PopBo(f) ==
    /\ sf.at = "flip" /\ f \in sf.drop
    /\ RmFb(SF, f) /\ Removed(f)
    /\ sf' = [sf EXCEPT !.drop = @ \ {f}]
    /\ UNCHANGED <<plane, req, unseen, ev, plugged, faulty>>

Release(t) == (unrefHandle(t) \/ GemClose(t)) /\ UNCHANGED planeVars

Shows(d) == CASE req[d] = None -> shown[d] [] req[d] = Off -> None [] OTHER -> req[d]

Flips == sf.at = "flip" /\ sf.drop = {} /\ call[SF] = Idle

pageFlip ==
    /\ Flips
    /\ shown' = [shown EXCEPT ![sf.d] = Shows(sf.d)]
    /\ unseen' = [unseen EXCEPT ![sf.d] = IF req[sf.d] = None THEN @ ELSE 0]
    /\ req' = [req EXCEPT ![sf.d] = None]
    /\ sf' = [sf EXCEPT !.at = "idle"]
    /\ UNCHANGED <<boVars, plane, ev, plugged, faulty>>

FlipRefused ==
    /\ Flips /\ req[sf.d] # None /\ sf.d \in faulty
    /\ unseen' = [unseen EXCEPT ![sf.d] = IF req[sf.d] = Off THEN CacheDepth ELSE @]
    /\ req' = [req EXCEPT ![sf.d] = None]
    /\ sf' = [sf EXCEPT !.at = "idle"]
    /\ UNCHANGED <<boVars, plane, shown, ev, plugged, faulty>>

-----------------------------------------------------------------------------
(* The event thread                                                          *)

\* onHotplug: the planes are blanked with mMutex held; the commit may be refused.
Unplug(d) ==
    /\ ev.at = "idle" /\ Free(d) /\ plugged[d] /\ ~raced
    /\ plugged' = [plugged EXCEPT ![d] = FALSE]
    /\ Changes(d, BlankPlane(plane[d]))
    /\ req' = [req EXCEPT ![d] = None]
    /\ \/ shown' = [shown EXCEPT ![d] = IF plane[d].blank THEN @ ELSE None] /\ UNCHANGED unseen
       \/ d \in faulty /\ UNCHANGED shown /\ unseen' = [unseen EXCEPT ![d] = CacheDepth]
    /\ ev' = [at |-> "told", d |-> d, drop |-> LetGo(d, BlankPlane(plane[d]))]
    /\ UNCHANGED <<boVars, sf, faulty>>

\* cleanupBeforeDestroy: the cache is emptied.
clearPlaneResources ==
    /\ ev.at = "told" /\ Free(ev.d)
    /\ LET s == [plane[ev.d] EXCEPT !.cache = <<>>]
       IN Changes(ev.d, s) /\ ev' = [ev EXCEPT !.at = "clean", !.drop = @ \cup LetGo(ev.d, s)]
    /\ UNCHANGED <<boVars, req, shown, unseen, sf, plugged, faulty>>

DropBo(f) ==
    /\ ev.at = "clean" /\ f \in ev.drop
    /\ RmFb(EV, f) /\ Removed(f)
    /\ ev' = [ev EXCEPT !.drop = @ \ {f}]
    /\ UNCHANGED <<plane, req, unseen, sf, plugged, faulty>>

\* The display is reported as gone.
Gone ==
    /\ ev.at = "clean" /\ ev.drop = {} /\ call[EV] = Idle
    /\ ev' = [ev EXCEPT !.at = "idle"]
    /\ UNCHANGED <<boVars, plane, req, shown, unseen, sf, plugged, faulty>>

PlugIn(d) ==
    /\ ev.at = "idle" /\ ~plugged[d]
    /\ plugged' = [plugged EXCEPT ![d] = TRUE]
    /\ UNCHANGED <<boVars, plane, req, shown, unseen, sf, ev, faulty>>

-----------------------------------------------------------------------------
\* No frame has been set, none is shown.
Init(displays, failing) ==
    /\ BoInit
    /\ plane = [d \in displays |-> [bo |-> Unmade, blank |-> TRUE, cache |-> <<>>]]
    /\ req = [d \in displays |-> None]
    /\ shown = [d \in displays |-> None]
    /\ unseen = [d \in displays |-> 0]
    /\ sf = [at |-> "idle", d |-> None, drop |-> {}]
    /\ ev = sf
    /\ plugged = [d \in displays |-> TRUE]
    /\ faulty = failing

Next ==
    \/ \E d \in Display : \/ \E b \in Brings(d, faulty) : setPlane(d, b)
                         \/ ImportFails(d) \/ BlankFrame(d) \/ Unplug(d) \/ PlugIn(d)
    \/ AddFramebuffer \/ Set \/ pageFlip \/ FlipRefused
    \/ \E f \in FbId : PopBo(f) \/ DropBo(f)
    \/ \E t \in Thread : Release(t)
    \/ clearPlaneResources \/ Gone

-----------------------------------------------------------------------------
\* The framebuffer on the screen is never removed while the plane is in use: the
\* cache outlives every frame the screen may still show, up to two refused
\* commits in a row (DrmPlane.cpp:495-500).  A plane the driver refused to turn off is
\* meant to be dark.
KeepsShown ==
    \A d \in Display :
        shown[d] # None /\ fbs[shown[d]].live /\ ~fbs'[shown[d]].live
            => plane[d].blank \/ unseen[d] >= CacheDepth

ShownAlive == [][KeepsShown]_drmVars

\* When an unplugged display is reported, none of its buffers is held any more
\* (comment Hwc2Display.cpp:485-488), whatever was refused before and whatever
\* SurfaceFlinger presents in between.
NothingHeld ==
    \A d \in Display : ~plugged[d] /\ (ev.d = d => ev.at = "idle") => Held(plane[d]) = {}

\* A handle is open as long as a plane uses it, and no longer.
HandlesOpen == HandlesKept /\ NothingHeld
=============================================================================
