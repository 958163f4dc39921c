------------------------------ MODULE FbPlanes ------------------------------
(***************************************************************************)
(* One display on the frame buffer drivers: an osd plane, a cursor plane and *)
(* the old video plane, set one after the other and put on screen by a page   *)
(* flip; the release fences that tell SurfaceFlinger when it may draw into a  *)
(* buffer again; and the driver, which shows a flip at a later vsync.  The    *)
(* operators take and give the members m of these objects:                    *)
(*   ui      the one ui layer: its buffer and mPrevReleaseFence               *)
(*   target  the buffer of the client target                                  *)
(*   osd     OsdPlane: mBlank, mDrmFb                                         *)
(*   cursor  CursorPlane: mBlank, mLastTransform, the size of its buffer      *)
(*   video   LegacyVideoPlane: mPlaneMute, mLegacyVideoFb, what it backed up  *)
(*   hdr     the crtc's hdrVideoInfo                                          *)
(*   drv     what the drivers were told: the osd of the next flip, flips not  *)
(*           yet shown, the one shown, how many were made and shown           *)
(* A fence is the number of the flip that signals it, 0 for no fence.         *)
(***************************************************************************)
EXTENDS Naturals, Sequences, SequencesExt

CONSTANTS UiBuffers, Targets,  \* buffers of the ui layer, of the client target
          Kinds, Scenes,  \* what the ui layer is; what else a frame may show
          Nothing,
          MaxFrames, MaxFlips  \* bounds: frames and blanks, flips the driver has not shown

(* A cursor has a place, a rotation, a size and a picture; a video, besides   *)
(* its window, a type and a rotation.  255 is a rotation nobody asks for, and *)
(* the crtc's copy begins as zeroes or as what malloc gave ("junk").  A       *)
(* client target is no buffer of a layer.                                     *)
ASSUME FbAssumption ==
    /\ UiBuffers \cap Targets = {} /\ Nothing \notin UiBuffers \cup Targets
    /\ \A s \in Scenes :
          /\ s = [osd |-> Nothing, cursor |-> s.cursor, video |-> s.video,
                  hidden |-> s.hidden, hdr |-> s.hdr]
          /\ s.hidden \in BOOLEAN /\ s.hdr \notin {"zero", "junk"}
          /\ s.video # Nothing => s.video.type # "undefined" /\ s.video.rot # 255

VARIABLES m,
          afbc,      \* PLANE_SUPPORT_AFBC of the osd
          keep,      \* mOmxKeepLastFrame
          skip,      \* mSkipComposition
          released,  \* buffers SurfaceFlinger has back, each with its fence
          early,     \* of them, those a skipped frame gave back
          asked,     \* what the last frame was to show
          played,    \* a video was shown
          refused,   \* a driver has refused a call
          frames

fbVars == <<m, afbc, keep, skip, released, early, asked, played, refused, frames>>

NoFence == 0
Calls == {"osd", "cursor", "mute", "axis", "flip"}
NoAxis == [win |-> Nothing, rot |-> 255]
Dark == [osd |-> Nothing, cursor |-> Nothing, video |-> Nothing, hidden |-> FALSE,
         hdr |-> Nothing]

-----------------------------------------------------------------------------
(* OsdPlane                                                                  *)

(* Rotated layers and those in a format or of a size the osd cannot scan out  *)
(* are composed; afbc ones when it has no decoder.                            *)
OsdFbSupport(kinds, decodes) == kinds \subseteq (IF decodes THEN {"afbc"} ELSE {})

(* The fence of the buffer that leaves the plane is the fence of this flip.   *)
PrevRelease(s) == IF s.osd.fb = "ui" THEN [s EXCEPT !.ui.fence = s.drv.made + 1] ELSE s

OsdSetPlane(s, fb, op, no) ==
    LET blank == op # "unblank"
        told == [s EXCEPT !.osd.blank = blank]
    IN IF blank /\ s.osd.blank THEN s
       ELSE IF "osd" \in no THEN told
       ELSE [PrevRelease(told) EXCEPT !.osd.fb = IF blank THEN Nothing ELSE fb,
                                      !.drv.next = IF blank THEN Nothing ELSE s[fb].buffer]

-----------------------------------------------------------------------------
(* CursorPlane.  The picture is copied when its size is another one only.     *)

updateCursorBuffer(s, c) ==
    IF s.cursor.size = c.size THEN s
    ELSE [s EXCEPT !.cursor.size = c.size, !.drv.image = c.image]

setCursorPosition(s, c, no) ==
    [s EXCEPT !.drv.at = IF "cursor" \in no THEN @ ELSE c.at,
              !.drv.rot = IF s.cursor.rot = c.rot \/ "cursor" \in no THEN @ ELSE c.rot,
              !.cursor.rot = c.rot]

CursorSetPlane(s, c, op, no) ==
    LET placed == IF c = Nothing THEN s ELSE setCursorPosition(updateCursorBuffer(s, c), c, no)
        blank == op # "unblank"
    IN IF placed.cursor.blank = blank \/ "cursor" \in no THEN placed
       ELSE [placed EXCEPT !.cursor.blank = blank, !.drv.cursor = ~blank]

-----------------------------------------------------------------------------
(* LegacyVideoPlane.  The driver's disable status is 0, 1 for disabled, or 2  *)
(* for disabled until the next picture.                                       *)

shouldUpdateAxis(s, v) == s.video.axis # [win |-> v.win, rot |-> v.rot]

setAxis(s, v, no) ==
    IF ~shouldUpdateAxis(s, v) THEN s
    ELSE [s EXCEPT !.video.axis = [win |-> v.win, rot |-> v.rot],
                   !.drv.axis = IF "axis" \in no THEN @ ELSE [win |-> v.win, rot |-> v.rot]]

(* Mutant: a secure video is left as it is, the fb alone is remembered.       *)
MuteNothing(s, status, no) ==
    IF status \/ "mute" \in no THEN s ELSE [s EXCEPT !.video.mute = FALSE, !.drv.muted = FALSE]

setMute(s, status, no) ==
    IF s.video.mute = status \/ "mute" \in no THEN s
    ELSE [s EXCEPT !.video.mute = status, !.drv.muted = status]

newVideo(s, v) ==
    LET disabled == IF s.video.type = "omx" /\ v.type # "omx" THEN 2 ELSE s.drv.disable
    IN [s EXCEPT !.video.type = v.type, !.drv.disable = disabled]

setDisable(s, op, keeps) ==
    LET disable == s.drv.disable
        next == CASE op = "none" /\ disable \in {0, 2} -> 1
                  [] op = "unblank" /\ s.video.type = "overlay" -> 0
                  [] op = "unblank" /\ s.video.type # "overlay" /\ disable = 1 -> 2
                  [] OTHER -> disable
    IN IF s.video.type = "overlay" \/ keeps THEN [s EXCEPT !.drv.disable = next] ELSE s

VideoSetPlane(s, v, op, no) ==
    LET fb == IF v = Nothing THEN s ELSE setAxis(newVideo(s, v), v, no)
        muted == setMute(fb, op # "unblank", no)
        done == setDisable(muted, op, keep)
    IN CASE fb.video.type = "undefined" -> fb
         [] fb.video.type # "undefined" /\ op = "secure" -> muted
         [] fb.video.type # "undefined" /\ op = "unblank" -> done
         [] OTHER -> [done EXCEPT !.video.type = "undefined",
                                  !.video.axis = NoAxis]

-----------------------------------------------------------------------------
(* The crtc.  hdrVideoInfo is what malloc gave; an all zero one is never      *)
(* replaced.                                                                  *)

setHdrMetadata(s, hdr) ==
    IF hdr = Nothing \/ s.hdr \in {"zero", hdr} THEN s
    ELSE [s EXCEPT !.hdr = hdr, !.drv.hdr = hdr]

(* Mutant: the flip gives no fence.                                          *)
FlipWithoutFence(s, no) ==
    [s EXCEPT !.drv.made = @ + 1, !.drv.queue = Append(@, s.drv.next), !.drv.fence = NoFence]

(* A flip the driver refuses is not made, and what is read as its fence is    *)
(* whatever the stack held: no fence here.                                    *)
fbPageFlip(s, no) ==
    IF "flip" \in no THEN [s EXCEPT !.drv.fence = NoFence]
    ELSE [s EXCEPT !.drv.made = @ + 1, !.drv.queue = Append(@, s.drv.next),
                   !.drv.fence = s.drv.made + 1]

FbInit ==
    /\ afbc \in BOOLEAN /\ keep \in BOOLEAN
    /\ \E muted \in BOOLEAN, hdr \in {"zero", "junk"} :
         m = [ui |-> [buffer |-> Nothing, fence |-> NoFence],
              target |-> [buffer |-> Nothing],
              osd |-> [blank |-> FALSE, fb |-> Nothing],
              cursor |-> [blank |-> TRUE, rot |-> 0, size |-> 256],
              video |-> [mute |-> muted, type |-> "undefined",
                         axis |-> NoAxis],
              hdr |-> hdr,
              drv |-> [next |-> Nothing, queue |-> <<>>, shown |-> Nothing, made |-> 0,
                       done |-> 0, fence |-> NoFence, at |-> Nothing, rot |-> 0,
                       image |-> Nothing, cursor |-> FALSE, muted |-> muted, disable |-> 0,
                       axis |-> [win |-> Nothing, rot |-> 0], hdr |-> Nothing]]
    /\ skip = FALSE
    /\ released = [b \in UiBuffers \cup Targets |-> NoFence]
    /\ early = {} /\ asked = Dark
    /\ played = FALSE /\ refused = FALSE /\ frames = 0

-----------------------------------------------------------------------------
(* SurfaceFlinger.  A new buffer is one whose release fence has signalled.    *)

Signalled(buffers) == {b \in buffers \cap DOMAIN released : released[b] <= m.drv.done}

(* setBuffer: the fence for the buffer before is the next frame's to give.    *)
clearBufferInfo(s) == [s EXCEPT !.ui.fence = NoFence]
SetBuffer(s, b) == [clearBufferInfo(s) EXCEPT !.ui.buffer = b]
setClientTarget(s, t) == [s EXCEPT !.target.buffer = t]

(* getReleaseFences: what the frame s replaces goes back, a ui buffer with its *)
(* own fence if it has one, else with the frame's present fence.              *)
Replaced(before, after) == IF before = after THEN {} ELSE {before} \ {Nothing}
getReleaseFences(s, present) ==
    LET ui == Replaced(m.ui.buffer, s.ui.buffer)
        target == Replaced(m.target.buffer, s.target.buffer)
        kept == DOMAIN released \ {s.ui.buffer, s.target.buffer}
    IN [b \in kept \cup ui \cup target |->
            CASE b \in ui /\ s.ui.fence # NoFence -> s.ui.fence
              [] b \in ui /\ s.ui.fence = NoFence -> present
              [] b \in target -> present
              [] OTHER -> released[b]]

Refusals == IF refused THEN {{}} ELSE {{}} \cup {{c} : c \in Calls}

(* What SurfaceFlinger brings for a frame: a ui layer with a new buffer or    *)
(* the old one, composed by it into the client target or not.                 *)
Brought ==
    {s \in {m} \cup {SetBuffer(m, b) : b \in Signalled(UiBuffers)} : s.ui.buffer # Nothing}

(* presentDisplay: the planes one after the other, then the flip.             *)
Frame ==
    /\ ~skip /\ frames < MaxFrames /\ Len(m.drv.queue) < MaxFlips
    /\ \E brought \in Brought \cup {m}, kinds \in Kinds, scene \in Scenes, no \in Refusals :
         LET direct == OsdFbSupport(kinds, afbc)
             cursor == scene.cursor
             video == scene.video
         IN
         \E s \in IF brought.ui.buffer = Nothing \/ direct THEN {brought}
                  ELSE {setClientTarget(brought, t) : t \in Signalled(Targets)} :
           LET osd == CASE brought.ui.buffer = Nothing -> Nothing
                        [] brought.ui.buffer # Nothing /\ direct -> "ui"
                        [] OTHER -> "target"
               videoOp == CASE video = Nothing -> "none"
                            [] video # Nothing /\ scene.hidden -> "secure"
                            [] OTHER -> "unblank"
               onCursor == CursorSetPlane(s, cursor,
                               IF cursor = Nothing THEN "none" ELSE "unblank", no)
               onVideo == VideoSetPlane(onCursor, video, videoOp, no)
               onOsd == OsdSetPlane(onVideo, osd, IF osd = Nothing THEN "none" ELSE "unblank", no)
               flipped == fbPageFlip(setHdrMetadata(onOsd, scene.hdr), no)
           IN /\ m' = flipped
              /\ released' = getReleaseFences(flipped, flipped.drv.fence)
              /\ asked' = [scene EXCEPT !.osd = IF osd = Nothing THEN Nothing
                                                ELSE s[osd].buffer]
              /\ played' = (played \/ video # Nothing)
              /\ refused' = (refused \/ no # {})
    /\ early' = early \cap DOMAIN released'
    /\ frames' = frames + 1
    /\ UNCHANGED <<afbc, keep, skip>>

(* A frame while mSkipComposition is set: nothing is shown, there is no        *)
(* present fence.                                                            *)
SkipFrame ==
    /\ skip /\ frames < MaxFrames
    /\ \E s \in Brought \cup {m} :
         /\ m' = s
         /\ released' = getReleaseFences(s, NoFence)
         /\ early' = (early \cap DOMAIN released') \cup (DOMAIN released' \ DOMAIN released)
    /\ frames' = frames + 1
    /\ UNCHANGED <<afbc, keep, skip, asked, played, refused>>

(* blankDisplay: every plane dark, and a flip nobody waits for.               *)
blankDisplay ==
    /\ ~skip /\ frames < MaxFrames /\ Len(m.drv.queue) < MaxFlips
    /\ m' = fbPageFlip(VideoSetPlane(CursorSetPlane(OsdSetPlane(m, Nothing, "none", {}),
                Nothing, "none", {}), Nothing, "none", {}), {})
    /\ skip' = TRUE /\ asked' = Dark /\ frames' = frames + 1
    /\ UNCHANGED <<afbc, keep, released, early, played, refused>>

(* The mode is set, and the display composes again.                           *)
ModeComplete == skip /\ skip' = FALSE
                /\ UNCHANGED <<m, afbc, keep, released, early, asked, played, refused, frames>>

(* The driver shows the next flip and signals its fence.                      *)
Vsync ==
    /\ m.drv.queue # <<>>
    /\ m' = [m EXCEPT !.drv.shown = Head(m.drv.queue), !.drv.queue = Tail(@),
                      !.drv.done = @ + 1]
    /\ UNCHANGED <<afbc, keep, skip, released, early, asked, played, refused, frames>>

FbNext == Frame \/ SkipFrame \/ blankDisplay \/ ModeComplete \/ Vsync
FbSpec == FbInit /\ [][FbNext]_fbVars

-----------------------------------------------------------------------------
(* Properties                                                                *)

(* SurfaceFlinger never draws into a buffer the display reads: a buffer it    *)
(* has back, the fence of which has signalled, is neither on the screen nor   *)
(* in a flip to come (the fences OsdPlane::setPlane gives the fb before, the  *)
(* present fence for the others).  A frame skipped while the screen goes dark *)
(* gives its buffer back at once, and a driver that refuses a call promises   *)
(* nothing.                                                                  *)
NotOverwritten ==
    ~refused => Signalled(DOMAIN released) \cap
                  ({m.drv.shown, m.drv.next} \cup ToSet(m.drv.queue)) \subseteq early

(* Once a frame is set, every plane is as it asked, whatever the planes       *)
(* remember of the frames before: the osd has its buffer or is dark, the      *)
(* cursor is where its layer is, the right way round, the video is muted when *)
(* there is none or it is hidden and has its window and rotation otherwise,   *)
(* not disabled when it is the composer that disables it; and the driver was  *)
(* told its hdr data, unless the crtc's copy was all zero.                    *)
PlanesFollow ==
    LET drv == m.drv  v == asked.video  c == asked.cursor  IN
    ~refused /\ ~skip /\ frames > 0 =>
        /\ drv.next = asked.osd
        /\ drv.cursor = (c # Nothing)
        /\ (c # Nothing => drv.at = c.at /\ drv.rot = c.rot)
        /\ (played => drv.muted = (v = Nothing \/ asked.hidden))
        /\ (v # Nothing => drv.axis = [win |-> v.win, rot |-> v.rot])
        /\ (v # Nothing /\ ~asked.hidden /\ (v.type = "overlay" \/ keep) => drv.disable # 1)
        /\ (asked.hdr # Nothing /\ m.hdr # "zero" => drv.hdr = asked.hdr)
=============================================================================
