---------------------------- MODULE PlanesProofs ----------------------------
(***************************************************************************)
(* What holds of the planes of both back ends.  On drm, for any number of    *)
(* displays, buffers, handles and framebuffer ids, and any choice of the ids *)
(* by the kernel: a handle is open as long as a plane uses it and no longer, *)
(* and the framebuffer on the screen is not removed.  On the frame buffer    *)
(* drivers, for any buffers, scenes and order of frames, blanks and vsyncs:  *)
(* no buffer goes back while a flip shows it, and every plane is as asked.   *)
(***************************************************************************)
EXTENDS DrmPlanes, FbPlanes, Integers, TLAPS, FiniteSetTheorems, SequenceTheorems

\* The framebuffers of a handle, and the calls that are between counts.
Live(h) == {f \in FbId : fbs[f].live /\ fbs[f].h = h}
During(at, h) == \E t \in Thread : call[t].at = at /\ call[t].h = h

BoTypes ==
    /\ open \in [Handle -> Buffer \cup {None}]
    /\ refs \in [Handle -> Int]
    /\ fbs \in [FbId -> [live : BOOLEAN, h : Handle \cup {None}, b : Buffer \cup {None}]]
    /\ call \in [Thread -> {Idle} \cup [at : {"add", "unref", "close"}, h : Handle, fb : {None}]
                                 \cup [at : {"ref"}, h : Handle, fb : FbId]]
    /\ raced \in BOOLEAN
    /\ \A f \in FbId : fbs[f].live => fbs[f].h \in Handle

\* Until two threads are in import or release at once, only one is.
OneAtATime == ~raced => \A t, u \in Thread : call[t] # Idle /\ call[u] # Idle => t = u

\* A handle is counted once for each of its framebuffers, but for the one that has
\* just been made or removed.
Counted ==
    ~raced => \A h \in Handle :
        refs[h] = Cardinality(Live(h)) + (IF During("unref", h) THEN 1 ELSE 0)
                                       - (IF During("ref", h) THEN 1 ELSE 0)

\* A handle is open for its framebuffers or for a call that is about to use or to
\* close it.
OpenFor ==
    ~raced => /\ \A f \in FbId : fbs[f].live => fbs[f].b \in Buffer /\ open[fbs[f].h] = fbs[f].b
              /\ \A h \in Handle :
                    /\ During("add", h) => open[h] # None
                    /\ During("close", h) => Live(h) = {}
                    /\ open[h] # None => Live(h) # {} \/ During("add", h) \/ During("unref", h)
                                                      \/ During("close", h)

BoInv == BoTypes /\ OneAtATime /\ Counted /\ OpenFor

----------------------------------------------------------------------------
PlaneState ==
    [bo : FbId \cup {None, Unmade}, blank : BOOLEAN, cache : Seq(FbId \cup {Unmade})]

\* The types of the planes, the requests and the two threads.
PlaneTypes ==
    /\ plane \in [Display -> PlaneState]
    /\ req \in [Display -> FbId \cup {None, Off}]
    /\ shown \in [Display -> FbId \cup {None}]
    /\ unseen \in [Display -> 0 .. CacheDepth]
    /\ sf \in [at : {"idle", "import", "flip"}, d : Display \cup {None}, drop : SUBSET FbId]
    /\ ev \in [at : {"idle", "told", "clean"}, d : Display \cup {None}, drop : SUBSET FbId]
    /\ plugged \in [Display -> BOOLEAN]
    /\ \A d \in Display : Len(plane[d].cache) <= CacheDepth

\* A buffer object is in the cache, a plane that is blank has none, only a display that is plugged in is
\* set, and an unplugged one holds nothing once its planes are cleared.
Cleared ==
    /\ \A d \in Display :
          /\ plane[d].bo \in FbId => plane[d].bo \in ToSet(plane[d].cache)
          /\ plane[d].blank => plane[d].bo \in {None, Unmade}
          /\ ~plugged[d] => plane[d].blank
          /\ ~plugged[d] /\ ~(ev.at = "told" /\ ev.d = d) => Held(plane[d]) = {}
    /\ sf.at # "idle" => sf.d \in Display
    /\ sf.at = "import" => plugged[sf.d]
    /\ ev.at # "idle" => ev.d \in Display /\ ~plugged[ev.d]

\* Where a framebuffer of a display is: held by the plane, being let go of by one of
\* the two threads, or just made.
Spots == {"held", "sf", "ev", "new"}
Keeps(d, s, f) ==
    CASE s = "held" -> f \in Held(plane[d])
      [] s = "sf" -> sf.at = "flip" /\ sf.d = d /\ f \in sf.drop
      [] s = "ev" -> ev.at # "idle" /\ ev.d = d /\ f \in ev.drop
      [] s = "new" -> sf.at = "import" /\ sf.d = d /\ call[SF].at = "ref" /\ call[SF].fb = f

\* A framebuffer is in one spot of one display, and is there until it is removed; the
\* screen and the request show no other.
Owned ==
    /\ \A d, e \in Display, s, r \in Spots, f \in FbId :
          Keeps(d, s, f) /\ Keeps(e, r, f) => d = e /\ s = r
    /\ \A d \in Display, s \in Spots, f \in FbId : Keeps(d, s, f) => fbs[f].live
    /\ \A d \in Display : shown[d] # None => \E s \in Spots : Keeps(d, s, shown[d])

\* The request is the frame under way; the screen shows the last frame but as many as
\* it has not seen, or nothing.
OnScreen ==
    \A d \in Display :
        /\ req[d] # None => sf.at = "flip" /\ sf.d = d
        /\ req[d] = Off => plane[d].blank
        /\ req[d] \in FbId => LET c == plane[d].cache
                              IN ~plane[d].blank /\ Len(c) > 0 /\ c[Len(c)] = req[d]
        /\ ~plane[d].blank /\ shown[d] # None /\ unseen[d] < CacheDepth =>
               LET c == plane[d].cache
               IN Len(c) > unseen[d] /\ c[Len(c) - unseen[d]] = shown[d]
        /\ plane[d].blank /\ req[d] # Off => shown[d] = None \/ unseen[d] >= CacheDepth

\* What is given of the kernel and of the buffers: it does not change.
Given ==
    /\ \A d \in Display, c \in Seq(FbId \cup {Unmade}) : NewFbs(d, c) \subseteq FbId
    /\ \A d \in Display : Brings(d, faulty) \subseteq Buffer

PlaneInv == PlaneTypes /\ Given /\ Cleared /\ Owned /\ OnScreen
----------------------------------------------------------------------------
(* One call of import or release *)

Moves == {Idle} \cup [at : {"add", "unref", "close"}, h : Handle, fb : {None}]
                \cup [at : {"ref"}, h : Handle, fb : FbId]

\* While one thread alone is in import or release, what goes on is what it does.
LEMMA BoStep ==
  ASSUME BoInv, NEW t \in Thread, NEW c \in Moves, call' = [call EXCEPT ![t] = c],
         raced' \in BOOLEAN, ~raced' => ~raced /\ \A u \in Thread \ {t} : call[u] = Idle
  PROVE  /\ call' \in [Thread -> Moves] /\ OneAtATime'
         /\ ~raced' => \A at \in {"add", "ref", "unref", "close"}, h \in Handle :
               /\ During(at, h) <=> call[t].at = at /\ call[t].h = h
               /\ During(at, h)' <=> c.at = at /\ c.h = h
  <1>1. call \in [Thread -> Moves] /\ call' \in [Thread -> Moves] /\ call'[t] = c
        /\ \A u \in Thread \ {t} : call'[u] = call[u]
    BY DEF BoInv, BoTypes, Moves
  <1>2. OneAtATime'
    BY <1>1 DEF OneAtATime
  <1>3. ASSUME ~raced', NEW at \in {"add", "ref", "unref", "close"}, NEW h \in Handle
        PROVE  /\ During(at, h) <=> call[t].at = at /\ call[t].h = h
               /\ During(at, h)' <=> c.at = at /\ c.h = h
    <2>1. \A u \in Thread \ {t} : call[u].at = "idle" /\ call'[u].at = "idle"
      BY <1>1, <1>3 DEF Idle
    <2> QED BY <1>1, <2>1 DEF During
  <1> QED BY <1>1, <1>2, <1>3

\* A thread that is in a call already is the only one.
LEMMA BoAlone ==
  ASSUME BoInv, NEW t \in Thread, call[t] # Idle, ~raced
  PROVE  \A u \in Thread \ {t} : call[u] = Idle
  BY DEF BoInv, OneAtATime

LEMMA LiveFinite ==
  ASSUME DrmConstants, NEW h
  PROVE  IsFiniteSet(Live(h)) /\ Cardinality(Live(h)) \in Nat
  BY FS_Subset, FS_CardinalityType DEF DrmConstants, Live

LEMMA FdToHandleKeeps ==
  ASSUME DrmConstants, BoInv, NEW t \in Thread, NEW b \in Buffer, FdToHandle(t, b)
  PROVE  BoInv'
  <1>1. PICK h \in Handle :
            /\ open[h] = b \/ open[h] = None
            /\ open' = [open EXCEPT ![h] = b]
            /\ call' = [call EXCEPT ![t] = [at |-> "add", h |-> h, fb |-> None]]
    BY DEF FdToHandle
  <1>2. /\ call[t] = Idle /\ UNCHANGED <<refs, fbs>>
        /\ raced' = (raced \/ \E u \in Thread \ {t} : call[u] # Idle)
    BY DEF FdToHandle, Enters
  <1> DEFINE c == [at |-> "add", h |-> h, fb |-> None]
  <1>3. c \in Moves /\ c.at = "add" /\ c.h = h
    BY DEF Moves
  <1>4. /\ raced' \in BOOLEAN
        /\ ~raced' => ~raced /\ \A u \in Thread \ {t} : call[u] = Idle
    BY <1>2 DEF BoInv, BoTypes
  <1> HIDE DEF c
  <1>5. call' = [call EXCEPT ![t] = c]
    BY <1>1 DEF c
  <1>6. /\ call' \in [Thread -> Moves] /\ OneAtATime'
        /\ ~raced' => \A at \in {"add", "ref", "unref", "close"}, k \in Handle :
              /\ During(at, k) <=> call[t].at = at /\ call[t].h = k
              /\ During(at, k)' <=> c.at = at /\ c.h = k
    BY <1>3, <1>4, <1>5, BoStep
  <1>7. BoTypes'
    BY <1>1, <1>2, <1>4, <1>6 DEF BoInv, BoTypes, Moves
  <1>8. Counted'
    <2>1. \A k : Live(k)' = Live(k)
      BY <1>2 DEF Live
    <2>2. call[t].at = "idle"
      BY <1>2 DEF Idle
    <2> QED BY <1>2, <1>3, <1>4, <1>6, <2>1, <2>2 DEF BoInv, Counted
  <1>9. OpenFor'
    <2> SUFFICES ASSUME ~raced'
                 PROVE  OpenFor'
      BY DEF OpenFor
    <2>1. ~raced
      BY <1>4
    <2>2. \A k \in Handle : /\ open'[k] = IF k = h THEN b ELSE open[k]
                            /\ b # None
      BY <1>1 DEF BoInv, BoTypes, DrmConstants
    <2>3. \A f \in FbId : fbs[f].live => fbs[f].h \in Handle
      BY DEF BoInv, BoTypes
    <2>4. \A f \in FbId : fbs[f].live => fbs[f].b \in Buffer /\ open'[fbs[f].h] = fbs[f].b
      BY <1>1, <2>1, <2>2, <2>3 DEF BoInv, OpenFor, DrmConstants
    <2>5. \A k : Live(k)' = Live(k)
      BY <1>2 DEF Live
    <2>6. call[t].at = "idle"
      BY <1>2 DEF Idle
    <2>7. ASSUME NEW k \in Handle
          PROVE  /\ During("add", k)' => open'[k] # None
                 /\ During("close", k)' => Live(k)' = {}
                 /\ open'[k] # None => Live(k)' # {} \/ During("add", k)' \/ During("unref", k)'
                                                   \/ During("close", k)'
      BY <1>3, <1>6, <2>1, <2>2, <2>5, <2>6 DEF BoInv, OpenFor
    <2> QED BY <1>2, <2>4, <2>7 DEF OpenFor
  <1> QED BY <1>6, <1>7, <1>8, <1>9 DEF BoInv

LEMMA AddFbKeeps ==
  ASSUME DrmConstants, BoInv, NEW t \in Thread, NEW f \in FbId, AddFb(t, f)
  PROVE  BoInv'
  <1>0. PICK h : h = call[t].h
    OBVIOUS
  <1> DEFINE c == [at |-> "ref", h |-> h, fb |-> f]
  <1>1. /\ call[t].at = "add" /\ open[h] # None /\ ~fbs[f].live
        /\ fbs' = [fbs EXCEPT ![f] = [live |-> TRUE, h |-> h, b |-> open[h]]]
        /\ call' = [call EXCEPT ![t] = c]
        /\ UNCHANGED <<open, refs, raced>>
    BY <1>0 DEF AddFb
  <1>2. call[t] # Idle /\ call[t] \in Moves
    BY <1>1 DEF Idle, BoInv, BoTypes, Moves
  <1>3. h \in Handle
    BY <1>0, <1>1, <1>2 DEF Moves, Idle
  <1>4. c \in Moves /\ c.at = "ref" /\ c.h = h
    BY <1>3 DEF Moves
  <1> HIDE DEF c
  <1>5. /\ raced' \in BOOLEAN
        /\ ~raced' => ~raced /\ \A u \in Thread \ {t} : call[u] = Idle
    BY <1>1, <1>2, BoAlone DEF BoInv, BoTypes
  <1>6. /\ call' \in [Thread -> Moves] /\ OneAtATime'
        /\ ~raced' => \A at \in {"add", "ref", "unref", "close"}, k \in Handle :
              /\ During(at, k) <=> call[t].at = at /\ call[t].h = k
              /\ During(at, k)' <=> c.at = at /\ c.h = k
    BY <1>1, <1>4, <1>5, BoStep
  <1>7. open[h] \in Buffer
    BY <1>1, <1>3 DEF BoInv, BoTypes
  <1>8. /\ \A g \in FbId : g # f => fbs'[g] = fbs[g]
        /\ fbs'[f].live /\ fbs'[f].h = h /\ fbs'[f].b = open[h]
        /\ fbs' \in [FbId -> [live : BOOLEAN, h : Handle \cup {None}, b : Buffer \cup {None}]]
    BY <1>1, <1>3, <1>7 DEF BoInv, BoTypes
  <1>9. BoTypes'
    <2>1. \A g \in FbId : fbs'[g].live => fbs'[g].h \in Handle
      BY <1>3, <1>8 DEF BoInv, BoTypes
    <2> QED BY <1>1, <1>5, <1>6, <1>8, <2>1 DEF BoInv, BoTypes, Moves
  <1>10. /\ Live(h)' = Live(h) \cup {f} /\ f \notin Live(h)
         /\ \A k \in Handle \ {h} : Live(k)' = Live(k)
    BY <1>1, <1>8 DEF Live
  <1>11. Counted'
    <2> SUFFICES ASSUME ~raced', NEW k \in Handle
                 PROVE  Counted!2!(k)'
      BY DEF Counted
    <2>1. refs[k] = Cardinality(Live(k)) /\ refs[k]' = refs[k]
      BY <1>1, <1>5, <1>6, LiveFinite DEF BoInv, Counted
    <2>2. (During("ref", k)' <=> k = h) /\ ~During("unref", k)'
      BY <1>4, <1>6
    <2>3. CASE k = h
      <3>1. Cardinality(Live(k)') = Cardinality(Live(k)) + 1
        BY <1>10, <2>3, LiveFinite, FS_AddElement
      <3> QED BY <2>1, <2>2, <2>3, <3>1, LiveFinite
    <2>4. CASE k # h
      BY <1>10, <2>1, <2>2, <2>4, LiveFinite
    <2> QED BY <2>3, <2>4
  <1>12. OpenFor'
    <2> SUFFICES ASSUME ~raced'
                 PROVE  OpenFor'
      BY DEF OpenFor
    <2>1. ~raced /\ open' = open
      BY <1>1, <1>5
    <2>2. \A g \in FbId : fbs'[g].live => fbs'[g].b \in Buffer /\ open'[fbs'[g].h] = fbs'[g].b
      BY <1>7, <1>8, <2>1 DEF BoInv, OpenFor
    <2>3. ASSUME NEW k \in Handle
          PROVE  /\ During("add", k)' => open'[k] # None
                 /\ During("close", k)' => Live(k)' = {}
                 /\ open'[k] # None => Live(k)' # {} \/ During("add", k)' \/ During("unref", k)'
                                                   \/ During("close", k)'
      <3>1. open[k] # None /\ k # h => Live(k) # {}
        BY <1>0, <1>1, <1>6, <2>1 DEF BoInv, OpenFor
      <3> QED BY <1>4, <1>6, <1>10, <2>1, <3>1
    <2> QED BY <2>2, <2>3 DEF OpenFor
  <1> QED BY <1>6, <1>9, <1>11, <1>12 DEF BoInv

LEMMA refHandleKeeps ==
  ASSUME DrmConstants, BoInv, NEW t \in Thread, refHandle(t)
  PROVE  BoInv'
  <1> DEFINE h == call[t].h
  <1>1. /\ call[t].at = "ref" /\ refs' = [refs EXCEPT ![h] = @ + 1]
        /\ call' = [call EXCEPT ![t] = Idle] /\ UNCHANGED <<open, fbs, raced>>
    BY DEF refHandle
  <1>2. call[t] # Idle /\ call[t] \in Moves
    BY <1>1 DEF Idle, BoInv, BoTypes, Moves
  <1>3. h \in Handle
    BY <1>1, <1>2 DEF Moves, Idle
  <1> HIDE DEF h
  <1>4. Idle \in Moves /\ Idle.at = "idle"
    BY DEF Moves, Idle
  <1>5. /\ raced' \in BOOLEAN
        /\ ~raced' => ~raced /\ \A u \in Thread \ {t} : call[u] = Idle
    BY <1>1, <1>2, BoAlone DEF BoInv, BoTypes
  <1>6. /\ call' \in [Thread -> Moves] /\ OneAtATime'
        /\ ~raced' => \A at \in {"add", "ref", "unref", "close"}, k \in Handle :
              /\ During(at, k) <=> call[t].at = at /\ call[t].h = k
              /\ During(at, k)' <=> Idle.at = at /\ Idle.h = k
    BY <1>1, <1>4, <1>5, BoStep
  <1>7. refs' \in [Handle -> Int] /\ refs'[h] = refs[h] + 1
        /\ \A k \in Handle \ {h} : refs'[k] = refs[k]
    <2>1. refs \in [Handle -> Int]
      BY DEF BoInv, BoTypes
    <2> QED BY <1>1, <1>3, <2>1
  <1>8. BoTypes'
    BY <1>1, <1>5, <1>6, <1>7 DEF BoInv, BoTypes, Moves
  <1>9. \A k : Live(k)' = Live(k)
    BY <1>1 DEF Live
  <1>10. Counted'
    <2> SUFFICES ASSUME ~raced', NEW k \in Handle
                 PROVE  Counted!2!(k)'
      BY DEF Counted
    <2>1. ~During("ref", k)' /\ ~During("unref", k)' /\ ~During("unref", k)
          /\ (During("ref", k) <=> k = h)
      BY <1>1, <1>4, <1>6 DEF h
    <2>2. refs[k] = Cardinality(Live(k)) + (IF During("unref", k) THEN 1 ELSE 0)
                                         - (IF During("ref", k) THEN 1 ELSE 0)
      BY <1>5 DEF BoInv, Counted
    <2>3. refs'[k] = Cardinality(Live(k))
      BY <1>7, <2>1, <2>2, LiveFinite
    <2> QED BY <1>9, <2>1, <2>3, LiveFinite
  <1>11. OpenFor'
    <2> SUFFICES ASSUME ~raced'
                 PROVE  OpenFor'
      BY DEF OpenFor
    <2>1. ASSUME NEW k \in Handle
          PROVE  /\ During("add", k)' => open'[k] # None
                 /\ During("close", k)' => Live(k)' = {}
                 /\ open'[k] # None => Live(k)' # {} \/ During("add", k)' \/ During("unref", k)'
                                                   \/ During("close", k)'
      BY <1>1, <1>4, <1>5, <1>6, <1>9 DEF BoInv, OpenFor
    <2> QED BY <1>1, <1>5, <2>1 DEF BoInv, OpenFor
  <1> QED BY <1>6, <1>8, <1>10, <1>11 DEF BoInv

LEMMA RmFbKeeps ==
  ASSUME DrmConstants, BoInv, NEW t \in Thread, NEW f \in FbId, RmFb(t, f)
  PROVE  BoInv'
  <1>0. PICK h : h = fbs[f].h
    OBVIOUS
  <1> DEFINE c == [at |-> "unref", h |-> h, fb |-> None]
  <1>1. /\ call[t] = Idle /\ fbs[f].live /\ fbs' = [fbs EXCEPT ![f] = NoFb]
        /\ call' = [call EXCEPT ![t] = c] /\ UNCHANGED <<open, refs>>
        /\ raced' = (raced \/ \E u \in Thread \ {t} : call[u] # Idle)
    BY <1>0 DEF RmFb, Enters
  <1>2. h \in Handle
    BY <1>0, <1>1 DEF BoInv, BoTypes
  <1>3. c \in Moves /\ c.at = "unref" /\ c.h = h
    BY <1>2 DEF Moves
  <1> HIDE DEF c
  <1>4. /\ raced' \in BOOLEAN
        /\ ~raced' => ~raced /\ \A u \in Thread \ {t} : call[u] = Idle
    BY <1>1 DEF BoInv, BoTypes
  <1>5. /\ call' \in [Thread -> Moves] /\ OneAtATime'
        /\ ~raced' => \A at \in {"add", "ref", "unref", "close"}, k \in Handle :
              /\ During(at, k) <=> call[t].at = at /\ call[t].h = k
              /\ During(at, k)' <=> c.at = at /\ c.h = k
    BY <1>1, <1>3, <1>4, BoStep
  <1>6. /\ \A g \in FbId : g # f => fbs'[g] = fbs[g]
        /\ ~fbs'[f].live
        /\ fbs' \in [FbId -> [live : BOOLEAN, h : Handle \cup {None}, b : Buffer \cup {None}]]
    BY <1>1 DEF BoInv, BoTypes, NoFb
  <1>7. BoTypes'
    <2>1. \A g \in FbId : fbs'[g].live => fbs'[g].h \in Handle
      BY <1>6 DEF BoInv, BoTypes
    <2> QED BY <1>1, <1>4, <1>5, <1>6, <2>1 DEF BoInv, BoTypes, Moves
  <1>8. /\ Live(h)' = Live(h) \ {f} /\ f \in Live(h)
        /\ \A k \in Handle \ {h} : Live(k)' = Live(k)
    BY <1>0, <1>1, <1>6 DEF Live
  <1>9. call[t].at = "idle"
    BY <1>1 DEF Idle
  <1>10. Counted'
    <2> SUFFICES ASSUME ~raced', NEW k \in Handle
                 PROVE  Counted!2!(k)'
      BY DEF Counted
    <2>1. refs[k] = Cardinality(Live(k)) /\ refs[k]' = refs[k]
      BY <1>1, <1>4, <1>5, <1>9, LiveFinite DEF BoInv, Counted
    <2>2. (During("unref", k)' <=> k = h) /\ ~During("ref", k)'
      BY <1>3, <1>5
    <2>3. CASE k = h
      <3>1. Cardinality(Live(k)') = Cardinality(Live(k)) - 1
        BY <1>8, <2>3, LiveFinite, FS_RemoveElement
      <3> QED BY <2>1, <2>2, <2>3, <3>1, LiveFinite
    <2>4. CASE k # h
      BY <1>8, <2>1, <2>2, <2>4, LiveFinite
    <2> QED BY <2>3, <2>4
  <1>11. OpenFor'
    <2> SUFFICES ASSUME ~raced'
                 PROVE  OpenFor'
      BY DEF OpenFor
    <2>1. ~raced /\ open' = open
      BY <1>1, <1>4
    <2>2. \A g \in FbId : fbs'[g].live => fbs'[g].b \in Buffer /\ open'[fbs'[g].h] = fbs'[g].b
      BY <1>6, <2>1 DEF BoInv, OpenFor
    <2>3. ASSUME NEW k \in Handle
          PROVE  /\ During("add", k)' => open'[k] # None
                 /\ During("close", k)' => Live(k)' = {}
                 /\ open'[k] # None => Live(k)' # {} \/ During("add", k)' \/ During("unref", k)'
                                                   \/ During("close", k)'
      <3>1. open[k] # None => Live(k) # {}
        BY <1>5, <1>9, <2>1 DEF BoInv, OpenFor
      <3> QED BY <1>3, <1>5, <1>8, <2>1, <3>1
    <2> QED BY <2>2, <2>3 DEF OpenFor
  <1> QED BY <1>5, <1>7, <1>10, <1>11 DEF BoInv

LEMMA unrefHandleKeeps ==
  ASSUME DrmConstants, BoInv, NEW t \in Thread, unrefHandle(t)
  PROVE  BoInv'
  <1> DEFINE h == call[t].h
             c == IF refs[h] - 1 = 0 THEN [at |-> "close", h |-> h, fb |-> None] ELSE Idle
  <1>1. /\ call[t].at = "unref" /\ refs' = [refs EXCEPT ![h] = @ - 1]
        /\ call' = [call EXCEPT ![t] = c] /\ UNCHANGED <<open, fbs, raced>>
    BY DEF unrefHandle
  <1>2. call[t] # Idle /\ call[t] \in Moves
    BY <1>1 DEF Idle, BoInv, BoTypes, Moves
  <1>3. h \in Handle
    BY <1>1, <1>2 DEF Moves, Idle
  <1> HIDE DEF h
  <1>4. c \in Moves /\ (\/ c.at = "close" /\ c.h = h /\ refs[h] = 1
                        \/ c.at = "idle" /\ refs[h] # 1)
    <2>1. refs[h] \in Int
      BY <1>3 DEF BoInv, BoTypes
    <2>2. CASE refs[h] = 1
      BY <1>3, <2>2 DEF Moves, Idle
    <2>3. CASE refs[h] # 1
      BY <2>1, <2>3 DEF Moves, Idle
    <2> QED BY <2>2, <2>3
  <1> HIDE DEF c
  <1>5. /\ raced' \in BOOLEAN
        /\ ~raced' => ~raced /\ \A u \in Thread \ {t} : call[u] = Idle
    BY <1>1, <1>2, BoAlone DEF BoInv, BoTypes
  <1>6. /\ call' \in [Thread -> Moves] /\ OneAtATime'
        /\ ~raced' => \A at \in {"add", "ref", "unref", "close"}, k \in Handle :
              /\ During(at, k) <=> call[t].at = at /\ call[t].h = k
              /\ During(at, k)' <=> c.at = at /\ c.h = k
    BY <1>1, <1>4, <1>5, BoStep
  <1>7. refs' \in [Handle -> Int] /\ refs'[h] = refs[h] - 1
        /\ \A k \in Handle \ {h} : refs'[k] = refs[k]
    <2>1. refs \in [Handle -> Int]
      BY DEF BoInv, BoTypes
    <2> QED BY <1>1, <1>3, <2>1
  <1>8. BoTypes'
    BY <1>1, <1>5, <1>6, <1>7 DEF BoInv, BoTypes, Moves
  <1>9. \A k : Live(k)' = Live(k)
    BY <1>1 DEF Live
  <1>10. ASSUME ~raced', NEW k \in Handle
         PROVE  /\ ~During("ref", k)' /\ ~During("unref", k)' /\ ~During("ref", k)
                /\ During("unref", k) <=> k = h
                /\ refs[k] = Cardinality(Live(k)) + (IF k = h THEN 1 ELSE 0)
    <2>1. /\ ~During("ref", k)' /\ ~During("unref", k)' /\ ~During("ref", k)
          /\ During("unref", k) <=> k = h
      BY <1>1, <1>4, <1>6, <1>10 DEF h
    <2>2. refs[k] = Cardinality(Live(k)) + (IF During("unref", k) THEN 1 ELSE 0)
                                         - (IF During("ref", k) THEN 1 ELSE 0)
      BY <1>5, <1>10 DEF BoInv, Counted
    <2> QED BY <2>1, <2>2, LiveFinite
  <1>11. Counted'
    <2> SUFFICES ASSUME ~raced', NEW k \in Handle
                 PROVE  Counted!2!(k)'
      BY DEF Counted
    <2>1. refs'[k] = Cardinality(Live(k))
      BY <1>7, <1>10, LiveFinite
    <2> QED BY <1>9, <1>10, <2>1, LiveFinite
  <1>12. OpenFor'
    <2> SUFFICES ASSUME ~raced'
                 PROVE  OpenFor'
      BY DEF OpenFor
    <2>1. ASSUME NEW k \in Handle
          PROVE  /\ During("add", k)' => open'[k] # None
                 /\ During("close", k)' => Live(k)' = {}
                 /\ open'[k] # None => Live(k)' # {} \/ During("add", k)' \/ During("unref", k)'
                                                   \/ During("close", k)'
      <3>1. During("close", k)' => k = h /\ refs[h] = 1
        BY <1>4, <1>6
      <3>2. k = h /\ refs[h] = 1 => Live(k) = {} /\ During("close", k)'
        <4>1. k = h /\ refs[h] = 1 => Cardinality(Live(k)) = 0
          BY <1>10, LiveFinite
        <4> QED BY <1>4, <1>6, <4>1, LiveFinite, FS_EmptySet
      <3>3. k = h /\ refs[h] # 1 => Live(k) # {}
        <4>1. k = h /\ refs[h] # 1 => Cardinality(Live(k)) # 0
          BY <1>10, LiveFinite
        <4> QED BY <4>1, FS_EmptySet
      <3>4. open[k] # None /\ k # h => Live(k) # {}
        BY <1>1, <1>5, <1>6 DEF BoInv, OpenFor, h
      <3>5. ~During("add", k)'
        BY <1>4, <1>6
      <3> QED BY <1>1, <1>9, <3>1, <3>2, <3>3, <3>4, <3>5
    <2> QED BY <1>1, <1>5, <2>1 DEF BoInv, OpenFor
  <1> QED BY <1>6, <1>8, <1>11, <1>12 DEF BoInv

LEMMA GemCloseKeeps ==
  ASSUME DrmConstants, BoInv, NEW t \in Thread, GemClose(t)
  PROVE  BoInv'
  <1> DEFINE h == call[t].h
  <1>1. /\ call[t].at = "close" /\ refs' = [refs EXCEPT ![h] = 0]
        /\ open' = [open EXCEPT ![h] = None]
        /\ call' = [call EXCEPT ![t] = Idle] /\ UNCHANGED <<fbs, raced>>
    BY DEF GemClose
  <1>2. call[t] # Idle /\ call[t] \in Moves
    BY <1>1 DEF Idle, BoInv, BoTypes, Moves
  <1>3. h \in Handle
    BY <1>1, <1>2 DEF Moves, Idle
  <1> HIDE DEF h
  <1>4. Idle \in Moves /\ Idle.at = "idle"
    BY DEF Moves, Idle
  <1>5. /\ raced' \in BOOLEAN
        /\ ~raced' => ~raced /\ \A u \in Thread \ {t} : call[u] = Idle
    BY <1>1, <1>2, BoAlone DEF BoInv, BoTypes
  <1>6. /\ call' \in [Thread -> Moves] /\ OneAtATime'
        /\ ~raced' => \A at \in {"add", "ref", "unref", "close"}, k \in Handle :
              /\ During(at, k) <=> call[t].at = at /\ call[t].h = k
              /\ During(at, k)' <=> Idle.at = at /\ Idle.h = k
    BY <1>1, <1>4, <1>5, BoStep
  <1>7. BoTypes'
    <2>1. refs' \in [Handle -> Int]
      BY <1>1, <1>3 DEF BoInv, BoTypes
    <2> QED BY <1>1, <1>5, <1>6, <2>1 DEF BoInv, BoTypes, Moves
  <1>8. \A k : Live(k)' = Live(k)
    BY <1>1 DEF Live
  <1>9. ~raced' => Live(h) = {}
    BY <1>1, <1>3, <1>5, <1>6 DEF BoInv, OpenFor, h
  <1>10. Counted'
    <2> SUFFICES ASSUME ~raced', NEW k \in Handle
                 PROVE  Counted!2!(k)'
      BY DEF Counted
    <2>1. ~During("ref", k)' /\ ~During("unref", k)' /\ ~During("unref", k) /\ ~During("ref", k)
      BY <1>1, <1>4, <1>6
    <2>2. refs[k] = Cardinality(Live(k))
      BY <1>5, <2>1, LiveFinite DEF BoInv, Counted
    <2>3. refs'[k] = IF k = h THEN 0 ELSE refs[k]
      BY <1>1 DEF BoInv, BoTypes
    <2>4. refs'[k] = Cardinality(Live(k))
      BY <1>9, <2>2, <2>3, FS_EmptySet
    <2> QED BY <1>8, <2>1, <2>4, LiveFinite
  <1>11. OpenFor'
    <2> SUFFICES ASSUME ~raced'
                 PROVE  OpenFor'
      BY DEF OpenFor
    <2>1. ASSUME NEW g \in FbId, fbs[g].live
          PROVE  fbs[g].b \in Buffer /\ open'[fbs[g].h] = fbs[g].b
      <3>1. fbs[g].h \in Handle /\ fbs[g].h # h
        BY <1>9, <2>1 DEF BoInv, BoTypes, Live
      <3> QED BY <1>1, <1>5, <2>1, <3>1 DEF BoInv, BoTypes, OpenFor
    <2>2. ASSUME NEW k \in Handle
          PROVE  /\ During("add", k)' => open'[k] # None
                 /\ During("close", k)' => Live(k)' = {}
                 /\ open'[k] # None => Live(k)' # {} \/ During("add", k)' \/ During("unref", k)'
                                                   \/ During("close", k)'
      <3>1. open'[k] = IF k = h THEN None ELSE open[k]
        BY <1>1 DEF BoInv, BoTypes
      <3>2. open[k] # None /\ k # h => Live(k) # {}
        BY <1>1, <1>5, <1>6 DEF BoInv, OpenFor, h
      <3> QED BY <1>4, <1>6, <1>8, <3>1, <3>2
    <2> QED BY <1>1, <2>1, <2>2 DEF OpenFor
  <1> QED BY <1>6, <1>7, <1>10, <1>11 DEF BoInv

LEMMA BoInitKeeps ==
  ASSUME DrmConstants, BoInit
  PROVE  BoInv
  <1>1. /\ open = [h \in Handle |-> None] /\ refs = [h \in Handle |-> 0]
        /\ fbs = [f \in FbId |-> NoFb] /\ call = [t \in Thread |-> Idle] /\ raced = FALSE
    BY DEF BoInit
  <1>2. BoTypes
    <2>1. /\ NoFb \in [live : BOOLEAN, h : Handle \cup {None}, b : Buffer \cup {None}]
          /\ ~NoFb.live
      BY DEF NoFb
    <2>2. refs \in [Handle -> Int] /\ open \in [Handle -> Buffer \cup {None}]
      BY <1>1
    <2> QED BY <1>1, <2>1, <2>2 DEF BoTypes
  <1>3. /\ \A h \in Handle : Live(h) = {} /\ refs[h] = 0
        /\ \A at \in {"add", "ref", "unref", "close"}, h \in Handle : ~During(at, h)
    BY <1>1 DEF Live, NoFb, During, Idle
  <1>4. Counted
    BY <1>3, FS_EmptySet DEF Counted
  <1>5. OneAtATime /\ OpenFor
    BY <1>1, <1>3 DEF OneAtATime, OpenFor, NoFb
  <1> QED BY <1>2, <1>4, <1>5 DEF BoInv

LEMMA BoNextKeeps ==
  ASSUME DrmConstants, BoInv, [BoNext]_boVars
  PROVE  BoInv'
  <1>1. CASE BoNext
    BY <1>1, FdToHandleKeeps, AddFbKeeps, RmFbKeeps, refHandleKeeps, unrefHandleKeeps,
       GemCloseKeeps DEF BoNext
  <1>2. CASE UNCHANGED boVars
    <2>1. \A k : Live(k)' = Live(k) /\ \A at : During(at, k)' = During(at, k)
      BY <1>2 DEF boVars, Live, During
    <2> QED BY <1>2, <2>1 DEF boVars, BoInv, BoTypes, OneAtATime, Counted, OpenFor
  <1> QED BY <1>1, <1>2

LEMMA BoKept ==
  ASSUME BoInv
  PROVE  HandlesKept
  <1> SUFFICES ASSUME ~raced
               PROVE  HandlesKept
    BY DEF HandlesKept
  <1>1. \A f \in FbId : fbs[f].live => open[fbs[f].h] = fbs[f].b
    BY DEF BoInv, OpenFor
  <1>2. ASSUME \A t \in Thread : call[t] = Idle, NEW h \in Handle, open[h] # None
        PROVE  \E f \in FbId : fbs[f].live /\ fbs[f].h = h
    <2>1. \A at \in {"add", "unref", "close"} : ~During(at, h)
      BY <1>2 DEF During, Idle
    <2>2. Live(h) # {}
      BY <1>2, <2>1 DEF BoInv, OpenFor
    <2> QED BY <2>2 DEF Live
  <1> QED BY <1>1, <1>2 DEF HandlesKept

----------------------------------------------------------------------------
(* A plane and its cache *)

\* The cache keeps the newest buffer objects and moves the others one place back.
LEMMA PushedCache ==
  ASSUME DrmConstants, NEW s \in PlaneState, Len(s.cache) <= CacheDepth
  PROVE  /\ Pushed(s) \in PlaneState /\ Len(Pushed(s).cache) <= CacheDepth
         /\ Pushed(s).bo = s.bo /\ Pushed(s).blank = s.blank
         /\ ToSet(Pushed(s).cache) \subseteq ToSet(s.cache) \cup {s.bo}
         /\ s.bo # None => LET c == Pushed(s).cache
                               k == s.cache
                           IN /\ Len(c) > 0 /\ c[Len(c)] = s.bo
                              /\ \A n \in 0 .. CacheDepth - 2 : n < Len(k) =>
                                     Len(c) > n + 1 /\ c[Len(c) - (n + 1)] = k[Len(k) - n]
  <1> DEFINE S == FbId \cup {Unmade}
             k == s.cache
             a == Append(k, s.bo)
             c == Cached(a)
  <1>1. k \in Seq(S) /\ Len(k) \in Nat /\ Len(k) <= 3
    BY DEF PlaneState, CacheDepth
  <1>2. CASE s.bo = None
    BY <1>2 DEF Pushed
  <1>3. CASE s.bo # None
    <2>1. s.bo \in S /\ Pushed(s) = [s EXCEPT !.cache = c]
      BY <1>3 DEF Pushed, PlaneState
    <2>2. /\ a \in Seq(S) /\ Len(a) = Len(k) + 1 /\ a[Len(k) + 1] = s.bo
          /\ \A i \in 1 .. Len(k) : a[i] = k[i]
      BY <1>1, <2>1
    <2> HIDE DEF a, k, S
    <2>3. PICK n \in {0, 1} :
             /\ c \in Seq(S) /\ Len(c) = Len(a) - n /\ Len(c) \in 1 .. 3 /\ (n = 1 => Len(a) = 4)
             /\ \A i \in 1 .. Len(c) : c[i] = a[i + n]
      <3>1. CASE Len(a) > 3
        <4>1. a # <<>>
          BY <3>1, EmptySeq
        <4>2. c = Tail(a)
          BY <3>1 DEF Cached, CacheDepth
        <4>3. /\ Tail(a) \in Seq(S) /\ Len(Tail(a)) = Len(a) - 1
              /\ \A i \in 1 .. Len(Tail(a)) : Tail(a)[i] = a[i + 1]
          BY <2>2, <4>1, HeadTailProperties
        <4> QED BY <1>1, <2>2, <3>1, <4>2, <4>3, SMTT(30)
      <3>2. CASE ~(Len(a) > 3)
        <4>1. c = a
          BY <3>2 DEF Cached, CacheDepth
        <4> HIDE DEF c
        <4> QED BY <1>1, <2>2, <3>2, <4>1
      <3> QED BY <3>1, <3>2
    <2> HIDE DEF c
    <2>4. /\ Pushed(s).cache = c /\ Pushed(s).bo = s.bo /\ Pushed(s).blank = s.blank
          /\ Pushed(s) \in PlaneState
      BY <2>1, <2>3 DEF PlaneState, S
    <2>5. Len(c) = Len(k) + 1 - n /\ Len(c) > 0 /\ Len(c) <= 3
      BY <1>1, <2>2, <2>3
    <2>6. c[Len(c)] = s.bo
      BY <1>1, <2>2, <2>3, <2>5
    <2>7. ASSUME NEW j \in 0 .. 1, j < Len(k)
          PROVE  Len(c) > j + 1 /\ c[Len(c) - (j + 1)] = k[Len(k) - j]
      <3>1. Len(c) > j + 1
        BY <1>1, <2>2, <2>3, <2>5, <2>7
      <3>2. Len(c) - (j + 1) \in 1 .. Len(c) /\ Len(c) - (j + 1) + n = Len(k) - j
            /\ Len(k) - j \in 1 .. Len(k)
        BY <1>1, <2>3, <2>5, <2>7, <3>1
      <3> QED BY <2>2, <2>3, <3>1, <3>2
    <2>8. ToSet(c) \subseteq ToSet(k) \cup {s.bo}
      <3>1. DOMAIN c = 1 .. Len(c) /\ DOMAIN k = 1 .. Len(k)
        BY <1>1, <2>3, LenProperties
      <3>2. ASSUME NEW i \in 1 .. Len(c)
            PROVE  c[i] \in ToSet(k) \cup {s.bo}
        <4>1. i + n \in 1 .. Len(k) + 1 /\ c[i] = a[i + n]
          BY <1>1, <2>3, <2>5
        <4>2. CASE i + n = Len(k) + 1
          BY <2>2, <4>1, <4>2
        <4>3. CASE i + n # Len(k) + 1
          <5>1. i + n \in 1 .. Len(k)
            BY <1>1, <4>1, <4>3
          <5> QED BY <2>2, <3>1, <4>1, <5>1 DEF ToSet
        <4> QED BY <4>2, <4>3
      <3> QED BY <3>1, <3>2 DEF ToSet
    <2> QED BY <1>3, <2>4, <2>5, <2>6, <2>7, <2>8 DEF CacheDepth, k
  <1> QED BY <1>2, <1>3

\* The plane after a frame that sets it, and after one that has nothing for it.
LEMMA SetPlane ==
  ASSUME DrmConstants, NEW s \in PlaneState, Len(s.cache) <= CacheDepth, NEW f \in FbId,
         s.bo \in FbId => s.bo \in ToSet(s.cache)
  PROVE  LET p == Pushed([s EXCEPT !.bo = f, !.blank = FALSE])
         IN /\ p \in PlaneState /\ Len(p.cache) <= CacheDepth
            /\ p.bo = f /\ p.blank = FALSE /\ f \in ToSet(p.cache)
            /\ Held(p) \subseteq Held(s) \cup {f} /\ f \in Held(p)
            /\ Len(p.cache) > 0 /\ p.cache[Len(p.cache)] = f
            /\ \A n \in 0 .. CacheDepth - 2 : n < Len(s.cache) =>
                   /\ Len(p.cache) > n + 1
                   /\ p.cache[Len(p.cache) - (n + 1)] = s.cache[Len(s.cache) - n]
  <1> DEFINE r == [s EXCEPT !.bo = f, !.blank = FALSE]
             p == Pushed(r)
  <1>1. r \in PlaneState /\ r.bo = f /\ r.blank = FALSE /\ r.cache = s.cache /\ f # None
    BY DEF PlaneState, DrmConstants
  <1> HIDE DEF r
  <1>2. /\ p \in PlaneState /\ Len(p.cache) <= CacheDepth /\ p.bo = f /\ p.blank = FALSE
        /\ ToSet(p.cache) \subseteq ToSet(s.cache) \cup {f}
        /\ Len(p.cache) > 0 /\ p.cache[Len(p.cache)] = f
        /\ \A n \in 0 .. CacheDepth - 2 : n < Len(s.cache) =>
              /\ Len(p.cache) > n + 1
              /\ p.cache[Len(p.cache) - (n + 1)] = s.cache[Len(s.cache) - n]
    BY <1>1, PushedCache
  <1> HIDE DEF p
  <1>3. f \in ToSet(p.cache)
    <2>1. p.cache \in Seq(FbId \cup {Unmade})
      BY <1>2 DEF PlaneState
    <2>2. Len(p.cache) \in DOMAIN p.cache
      BY <1>2, <2>1, LenProperties
    <2> QED BY <1>2, <2>2 DEF ToSet
  <1>4. Held(p) \subseteq Held(s) \cup {f} /\ f \in Held(p)
    BY <1>1, <1>2, <1>3 DEF Held, DrmConstants
  <1> QED BY <1>2, <1>3, <1>4 DEF p, r

LEMMA BlankedPlane ==
  ASSUME DrmConstants, NEW s \in PlaneState, Len(s.cache) <= CacheDepth,
         s.blank => s.bo \in {None, Unmade}
  PROVE  LET p == BlankPlane(s)
         IN /\ p \in PlaneState /\ Len(p.cache) <= CacheDepth
            /\ p.blank = TRUE /\ p.bo \in {None, Unmade} /\ Held(p) \subseteq Held(s)
  <1> DEFINE r == [s EXCEPT !.bo = IF s.blank THEN @ ELSE None, !.blank = TRUE]
  <1>1. r \in PlaneState /\ r.bo \in {None, Unmade} /\ r.blank = TRUE /\ r.cache = s.cache
    BY DEF PlaneState
  <1>2. BlankPlane(s) = Pushed(r)
    BY DEF BlankPlane
  <1> HIDE DEF r
  <1>3. /\ Pushed(r) \in PlaneState /\ Len(Pushed(r).cache) <= CacheDepth
        /\ Pushed(r).bo = r.bo /\ Pushed(r).blank = TRUE
        /\ ToSet(Pushed(r).cache) \subseteq ToSet(s.cache) \cup {r.bo}
    BY <1>1, PushedCache
  <1> QED BY <1>1, <1>2, <1>3 DEF Held

----------------------------------------------------------------------------
(* One step of the planes *)

LEMMA Changed ==
  ASSUME PlaneTypes, NEW d \in Display, NEW s \in PlaneState, Len(s.cache) <= CacheDepth,
         Changes(d, s)
  PROVE  /\ Display' = Display /\ plane' \in [Display -> PlaneState] /\ plane'[d] = s
         /\ \A e \in Display \ {d} : plane'[e] = plane[e]
         /\ \A e \in Display : Len(plane'[e].cache) <= CacheDepth
  BY DEF PlaneTypes, Changes, Display

LEMMA PlaneOf ==
  ASSUME PlaneInv, NEW d \in Display
  PROVE  /\ plane[d] \in PlaneState /\ Len(plane[d].cache) <= CacheDepth
         /\ plane[d].bo \in FbId => plane[d].bo \in ToSet(plane[d].cache)
         /\ plane[d].blank => plane[d].bo \in {None, Unmade}
  BY DEF PlaneInv, PlaneTypes, Cleared

LEMMA GivenKept ==
  ASSUME Given, Display' = Display, faulty' = faulty
  PROVE  Given'
  BY DEF Given

LEMMA HeldFbs ==
  ASSUME DrmConstants, NEW s \in PlaneState
  PROVE  Held(s) \subseteq FbId
  <1>1. DOMAIN s.cache = 1 .. Len(s.cache) /\ s.cache \in Seq(FbId \cup {Unmade})
    BY LenProperties DEF PlaneState
  <1>2. \A i \in DOMAIN s.cache : s.cache[i] \in FbId \cup {Unmade}
    BY <1>1, ElementOfSeq
  <1> QED BY <1>2 DEF Held, ToSet, PlaneState

\* A plane without its buffer object holds as much: the cache has it.
LEMMA ForgetBo ==
  ASSUME DrmConstants, PlaneInv, NEW d \in Display
  PROVE  LET s == [plane[d] EXCEPT !.bo = Unmade]
         IN /\ s \in PlaneState /\ s.cache = plane[d].cache /\ s.blank = plane[d].blank
            /\ s.bo = Unmade /\ Held(s) = Held(plane[d])
  <1> DEFINE s == [plane[d] EXCEPT !.bo = Unmade]
  <1>1. plane[d] \in PlaneState
    BY PlaneOf
  <1>2. s \in PlaneState /\ s.cache = plane[d].cache /\ s.blank = plane[d].blank /\ s.bo = Unmade
    BY <1>1 DEF PlaneState
  <1>3. plane[d].bo \in FbId => plane[d].bo \in ToSet(plane[d].cache)
    BY PlaneOf
  <1>4. plane[d].bo \in FbId \cup {None, Unmade}
    BY <1>1 DEF PlaneState
  <1> HIDE DEF s
  <1>5. Held(s) = Held(plane[d])
    BY <1>2, <1>3, <1>4 DEF Held
  <1> QED BY <1>2, <1>5 DEF s

LEMMA Spotted ==
  ASSUME NEW d, NEW f
  PROVE  /\ Keeps(d, "held", f) <=> f \in Held(plane[d])
         /\ Keeps(d, "sf", f) <=> sf.at = "flip" /\ sf.d = d /\ f \in sf.drop
         /\ Keeps(d, "ev", f) <=> ev.at # "idle" /\ ev.d = d /\ f \in ev.drop
         /\ Keeps(d, "new", f) <=> sf.at = "import" /\ sf.d = d /\ call[SF].at = "ref"
                                   /\ call[SF].fb = f
  BY DEF Keeps

\* Framebuffers move from spot to spot of their display, or are forgotten by the
\* model only if the screen does not show them.
LEMMA OwnedMoved ==
  ASSUME Owned, Display' = Display, fbs' = fbs,
         \A d \in Display, s \in Spots, f \in FbId :
             Keeps(d, s, f)' => \E r \in Spots : Keeps(d, r, f),
         \A d \in Display, s, r \in Spots, f \in FbId : Keeps(d, s, f)' /\ Keeps(d, r, f)' => s = r,
         \A d \in Display : shown'[d] # None => \E s \in Spots : Keeps(d, s, shown[d])'
  PROVE  Owned'
  <1>1. ASSUME NEW d \in Display, NEW e \in Display, NEW s \in Spots, NEW r \in Spots, NEW f \in FbId,
               Keeps(d, s, f)', Keeps(e, r, f)'
        PROVE  d = e /\ s = r
    <2>1. PICK s1 \in Spots, r1 \in Spots : Keeps(d, s1, f) /\ Keeps(e, r1, f)
      BY <1>1
    <2>2. d = e
      BY <2>1 DEF Owned
    <2> QED BY <1>1, <2>2
  <1>2. ASSUME NEW d \in Display, NEW s \in Spots, NEW f \in FbId, Keeps(d, s, f)'
        PROVE  fbs'[f].live
    BY <1>2 DEF Owned
  <1> QED BY <1>1, <1>2 DEF Owned

LEMMA StillShown ==
  ASSUME NEW F, \A f \in F : fbs[f].live => fbs'[f].live,
         \A d \in Display : shown[d] # None => shown[d] \in F
  PROVE  KeepsShown
  BY DEF KeepsShown

LEMMA setPlaneKeeps ==
  ASSUME DrmConstants, BoInv, PlaneInv, NEW d \in Display, NEW b, setPlane(d, b)
  PROVE  PlaneInv' /\ KeepsShown
  <1> DEFINE s == [plane[d] EXCEPT !.bo = Unmade]
  <1>1. /\ sf.at = "idle" /\ plugged[d] /\ Changes(d, s) /\ FdToHandle(SF, b)
        /\ sf' = [at |-> "import", d |-> d, drop |-> {}]
        /\ UNCHANGED <<req, shown, unseen, ev, plugged, faulty>>
    BY DEF setPlane, SFIdle
  <1>2. /\ s \in PlaneState /\ s.cache = plane[d].cache /\ s.blank = plane[d].blank
        /\ s.bo = Unmade /\ Held(s) = Held(plane[d]) /\ Len(s.cache) <= CacheDepth
    BY ForgetBo, PlaneOf
  <1> HIDE DEF s
  <1>3. /\ Display' = Display /\ plane' \in [Display -> PlaneState] /\ plane'[d] = s
        /\ \A e \in Display \ {d} : plane'[e] = plane[e]
        /\ \A e \in Display : Len(plane'[e].cache) <= CacheDepth
    BY <1>1, <1>2, Changed DEF PlaneInv
  <1>4. fbs' = fbs /\ call'[SF].at = "add"
    BY <1>1 DEF FdToHandle, BoInv, BoTypes, DrmConstants
  <1>5. PlaneTypes'
    <2>1. sf' \in [at : {"idle", "import", "flip"}, d : Display \cup {None}, drop : SUBSET FbId]
      BY <1>1
    <2> QED BY <1>1, <1>3, <2>1 DEF PlaneInv, PlaneTypes
  <1>6. Cleared'
    <2>1. sf'.at = "import" /\ sf'.d = d
      BY <1>1
    <2> QED BY <1>1, <1>2, <1>3, <2>1 DEF PlaneInv, Cleared, DrmConstants
  <1>7. /\ \A e \in Display : Held(plane'[e]) = Held(plane[e])
        /\ sf'.at = "import"
    BY <1>1, <1>2, <1>3
  <1>8. Owned'
    <2>1. ASSUME NEW e \in Display, NEW f \in FbId
          PROVE  /\ Keeps(e, "held", f)' <=> Keeps(e, "held", f)
                 /\ Keeps(e, "ev", f)' <=> Keeps(e, "ev", f)
                 /\ ~Keeps(e, "sf", f)' /\ ~Keeps(e, "new", f)'
                 /\ ~Keeps(e, "sf", f) /\ ~Keeps(e, "new", f)
      BY <1>1, <1>3, <1>4, <1>7 DEF Keeps
    <2>2. \A e \in Display, r \in Spots, f \in FbId : Keeps(e, r, f)' <=> Keeps(e, r, f)
      BY <2>1 DEF Spots
    <2>3. \A e \in Display : shown[e] \in FbId \cup {None}
      BY DEF PlaneInv, PlaneTypes
    <2> QED BY <1>1, <1>3, <1>4, <2>2, <2>3 DEF PlaneInv, Owned
  <1>9. OnScreen'
    <2>1. \A e \in Display : req[e] = None
      BY <1>1 DEF PlaneInv, OnScreen
    <2>2. \A e \in Display : plane'[e].cache = plane[e].cache /\ plane'[e].blank = plane[e].blank
      BY <1>2, <1>3
    <2>3. None \notin FbId \cup {Off}
      BY DEF DrmConstants
    <2> QED BY <1>1, <1>3, <2>1, <2>2, <2>3 DEF PlaneInv, OnScreen
  <1>10. KeepsShown
    BY <1>4 DEF KeepsShown
  <1> QED BY <1>1, <1>3, <1>5, <1>6, <1>8, <1>9, <1>10, GivenKept DEF PlaneInv

LEMMA ImportFailsKeeps ==
  ASSUME DrmConstants, BoInv, PlaneInv, NEW d \in Display, ImportFails(d)
  PROVE  PlaneInv' /\ KeepsShown
  <1> DEFINE s == [plane[d] EXCEPT !.bo = Unmade]
  <1>1. /\ plugged[d] /\ Changes(d, s)
        /\ UNCHANGED <<boVars, req, shown, unseen, sf, ev, plugged, faulty>>
    BY DEF ImportFails
  <1>2. /\ s \in PlaneState /\ s.cache = plane[d].cache /\ s.blank = plane[d].blank
        /\ s.bo = Unmade /\ Held(s) = Held(plane[d]) /\ Len(s.cache) <= CacheDepth
    BY ForgetBo, PlaneOf
  <1> HIDE DEF s
  <1>3. /\ Display' = Display /\ plane' \in [Display -> PlaneState] /\ plane'[d] = s
        /\ \A e \in Display \ {d} : plane'[e] = plane[e]
        /\ \A e \in Display : Len(plane'[e].cache) <= CacheDepth
    BY <1>1, <1>2, Changed DEF PlaneInv
  <1>4. fbs' = fbs /\ call' = call
    BY <1>1 DEF boVars
  <1>5. PlaneTypes'
    BY <1>1, <1>3 DEF PlaneInv, PlaneTypes
  <1>6. Cleared'
    BY <1>1, <1>2, <1>3 DEF PlaneInv, Cleared, DrmConstants
  <1>7. Owned'
    <2>1. \A e \in Display : Held(plane'[e]) = Held(plane[e])
      BY <1>2, <1>3
    <2>2. ASSUME NEW e \in Display, NEW r \in Spots, NEW f \in FbId
          PROVE  Keeps(e, r, f)' <=> Keeps(e, r, f)
      BY <1>1, <1>3, <1>4, <2>1 DEF Keeps, Spots
    <2>3. \A e \in Display : shown[e] \in FbId \cup {None}
      BY DEF PlaneInv, PlaneTypes
    <2> QED BY <1>1, <1>3, <1>4, <2>2, <2>3 DEF PlaneInv, Owned
  <1>8. OnScreen'
    <2>1. \A e \in Display : plane'[e].cache = plane[e].cache /\ plane'[e].blank = plane[e].blank
      BY <1>2, <1>3
    <2> QED BY <1>1, <1>3, <2>1 DEF PlaneInv, OnScreen
  <1>9. KeepsShown
    BY <1>4 DEF KeepsShown
  <1> QED BY <1>1, <1>3, <1>5, <1>6, <1>7, <1>8, <1>9, GivenKept DEF PlaneInv

\* The framebuffer that is made is nowhere yet.
LEMMA AddFramebufferKeeps ==
  ASSUME DrmConstants, BoInv, PlaneInv, AddFramebuffer
  PROVE  PlaneInv' /\ KeepsShown
  <1>1. sf.at = "import" /\ UNCHANGED planeVars
    BY DEF AddFramebuffer
  <1>2. sf.d \in Display /\ plane[sf.d].cache \in Seq(FbId \cup {Unmade})
    BY <1>1, PlaneOf DEF PlaneInv, Cleared, PlaneState
  <1>3. PICK f \in FbId : AddFb(SF, f)
    BY <1>2 DEF AddFramebuffer, PlaneInv, Given
  <1>4. /\ ~fbs[f].live /\ call[SF].at = "add" /\ call'[SF].at = "ref" /\ call'[SF].fb = f
        /\ \A g \in FbId : g # f => fbs'[g] = fbs[g]
        /\ fbs'[f].live
    BY <1>3 DEF AddFb, BoInv, BoTypes, DrmConstants
  <1>5. Display' = Display
    BY <1>1 DEF planeVars, Display
  <1>6. PlaneTypes' /\ Cleared' /\ OnScreen'
    BY <1>1, <1>5 DEF PlaneInv, PlaneTypes, Cleared, OnScreen, planeVars
  <1>7. Owned'
    <2>1. ASSUME NEW d \in Display, NEW g \in FbId
          PROVE  /\ Keeps(d, "held", g)' <=> Keeps(d, "held", g)
                 /\ Keeps(d, "sf", g)' <=> Keeps(d, "sf", g)
                 /\ Keeps(d, "ev", g)' <=> Keeps(d, "ev", g)
                 /\ Keeps(d, "new", g)' <=> d = sf.d /\ g = f
                 /\ ~Keeps(d, "new", g)
      BY <1>1, <1>4 DEF Keeps, planeVars
    <2>2. ASSUME NEW d \in Display, NEW s \in Spots, NEW g \in FbId
          PROVE  /\ Keeps(d, s, g) => Keeps(d, s, g)'
                 /\ Keeps(d, s, g)' => Keeps(d, s, g) \/ (s = "new" /\ d = sf.d /\ g = f)
      BY <2>1 DEF Spots
    <2>3. \A d \in Display, s \in Spots : ~Keeps(d, s, f)
      BY <1>4 DEF PlaneInv, Owned
    <2>4. ASSUME NEW d \in Display, NEW e \in Display, NEW s \in Spots, NEW r \in Spots, NEW g \in FbId,
                 Keeps(d, s, g)', Keeps(e, r, g)'
          PROVE  d = e /\ s = r
      <3>1. CASE g = f
        BY <2>2, <2>3, <2>4, <3>1
      <3>2. CASE g # f
        <4>1. Keeps(d, s, g) /\ Keeps(e, r, g)
          BY <2>2, <2>4, <3>2
        <4> QED BY <4>1 DEF PlaneInv, Owned
      <3> QED BY <3>1, <3>2
    <2>5. \A d \in Display, s \in Spots, g \in FbId : Keeps(d, s, g)' => fbs'[g].live
      BY <1>4, <2>2 DEF PlaneInv, Owned
    <2>6. ASSUME NEW d \in Display, shown'[d] # None
          PROVE  \E s \in Spots : Keeps(d, s, shown[d])'
      <3>1. PICK g \in FbId : g = shown[d] /\ g = shown'[d]
        BY <1>1, <2>6 DEF planeVars, PlaneInv, PlaneTypes
      <3>2. PICK s \in Spots : Keeps(d, s, g)
        BY <1>1, <2>6, <3>1 DEF PlaneInv, Owned, planeVars
      <3>3. Keeps(d, s, g)'
        BY <2>2, <3>2
      <3> QED BY <3>1, <3>3
    <2> QED BY <1>5, <2>4, <2>5, <2>6 DEF Owned
  <1>8. Given'
    BY <1>1, <1>5, GivenKept DEF PlaneInv, planeVars
  <1>9. KeepsShown
    <2>1. \A d \in Display : shown[d] \in FbId \cup {None}
      BY DEF PlaneInv, PlaneTypes
    <2> QED BY <1>4, <2>1 DEF KeepsShown
  <1> QED BY <1>6, <1>7, <1>8, <1>9 DEF PlaneInv

LEMMA SetKeeps ==
  ASSUME DrmConstants, BoInv, PlaneInv, Set
  PROVE  PlaneInv' /\ KeepsShown
  <1>0. PICK d, f : d = sf.d /\ f = call[SF].fb
    OBVIOUS
  <1> DEFINE s == Pushed([plane[d] EXCEPT !.bo = f, !.blank = FALSE])
             lost == LetGo(d, s)
  <1>1. /\ sf.at = "import" /\ refHandle(SF) /\ Changes(d, s)
        /\ req' = [req EXCEPT ![d] = f]
        /\ unseen' = [unseen EXCEPT ![d] = IF @ < CacheDepth THEN @ + 1 ELSE @]
        /\ sf' = [sf EXCEPT !.at = "flip", !.drop = lost]
        /\ UNCHANGED <<shown, ev, plugged, faulty>>
    BY <1>0 DEF Set
  <1>2. d \in Display /\ plugged[d] /\ plane[d] \in PlaneState
    BY <1>0, <1>1, PlaneOf DEF PlaneInv, Cleared
  <1>3. /\ call[SF].at = "ref" /\ call[SF] \in Moves /\ call'[SF].at = "idle"
        /\ UNCHANGED <<fbs>>
    BY <1>1 DEF refHandle, Idle, BoInv, BoTypes, Moves, DrmConstants
  <1>4. f \in FbId
    BY <1>0, <1>3 DEF Moves, Idle
  <1>5. /\ s \in PlaneState /\ Len(s.cache) <= CacheDepth
        /\ s.bo = f /\ s.blank = FALSE /\ f \in ToSet(s.cache)
        /\ Held(s) \subseteq Held(plane[d]) \cup {f} /\ f \in Held(s)
        /\ Len(s.cache) > 0 /\ s.cache[Len(s.cache)] = f
        /\ \A n \in 0 .. CacheDepth - 2 : n < Len(plane[d].cache) =>
               /\ Len(s.cache) > n + 1
               /\ s.cache[Len(s.cache) - (n + 1)] = plane[d].cache[Len(plane[d].cache) - n]
    BY <1>2, <1>4, SetPlane, PlaneOf
  <1>6. lost = Held(plane[d]) \ Held(s)
    BY DEF LetGo
  <1> HIDE DEF s, lost
  <1>7. /\ Display' = Display /\ plane' \in [Display -> PlaneState] /\ plane'[d] = s
        /\ \A e \in Display \ {d} : plane'[e] = plane[e]
        /\ \A e \in Display : Len(plane'[e].cache) <= CacheDepth
    BY <1>1, <1>2, <1>5, Changed DEF PlaneInv
  <1>8. /\ sf' = [at |-> "flip", d |-> d, drop |-> lost] /\ lost \subseteq FbId
    BY <1>0, <1>1, <1>2, <1>6, HeldFbs DEF PlaneInv, PlaneTypes
  <1>9. PlaneTypes'
    <2>1. req' \in [Display -> FbId \cup {None, Off}]
      BY <1>1, <1>4 DEF PlaneInv, PlaneTypes
    <2>2. unseen' \in [Display -> 0 .. CacheDepth]
      <3>1. unseen \in [Display -> 0 .. CacheDepth]
        BY DEF PlaneInv, PlaneTypes
      <3> QED BY <1>1, <1>2, <3>1 DEF CacheDepth
    <2>3. sf' \in [at : {"idle", "import", "flip"}, d : Display \cup {None}, drop : SUBSET FbId]
      BY <1>2, <1>8
    <2> QED BY <1>1, <1>7, <2>1, <2>2, <2>3 DEF PlaneInv, PlaneTypes
  <1>10. Cleared'
    BY SMTT(60), <1>1, <1>2, <1>5, <1>7, <1>8 DEF PlaneInv, Cleared
  <1>11. Owned'
    <2>1. ASSUME NEW e \in Display, NEW g \in FbId
          PROVE  /\ Keeps(e, "held", g)' <=> IF e = d THEN g \in Held(s) ELSE Keeps(e, "held", g)
                 /\ Keeps(e, "ev", g)' <=> Keeps(e, "ev", g)
                 /\ Keeps(e, "sf", g)' <=> e = d /\ g \in Held(plane[d]) /\ g \notin Held(s)
                 /\ ~Keeps(e, "new", g)'
                 /\ ~Keeps(e, "sf", g)
                 /\ Keeps(e, "new", g) <=> e = d /\ g = f
                 /\ Keeps(d, "held", g) <=> g \in Held(plane[d])
      BY <1>0, <1>1, <1>3, <1>6, <1>7, <1>8 DEF Keeps
    <2>2. ASSUME NEW e \in Display, NEW r \in Spots, NEW g \in FbId, Keeps(e, r, g)'
          PROVE  \E q \in Spots : Keeps(e, q, g)
      BY <1>2, <1>5, <2>1, <2>2 DEF Spots
    <2>3. f \notin Held(plane[d]) /\ \A g \in FbId : Keeps(d, "ev", g) => g # f /\ g \notin Held(plane[d])
      BY <1>2, <1>4, <2>1 DEF PlaneInv, Owned, Spots
    <2>4. ASSUME NEW e \in Display, NEW r \in Spots, NEW q \in Spots, NEW g \in FbId,
                 Keeps(e, r, g)', Keeps(e, q, g)'
          PROVE  r = q
      <3>1. Keeps(e, "held", g) /\ Keeps(e, "ev", g) => FALSE
        BY DEF PlaneInv, Owned, Spots
      <3> QED BY <1>2, <1>5, <2>1, <2>3, <2>4, <3>1 DEF Spots
    <2>5. ASSUME NEW e \in Display, shown'[e] # None
          PROVE  \E r \in Spots : Keeps(e, r, shown[e])'
      <3>1. shown' = shown /\ shown[e] \in FbId
        BY <1>1, <2>5 DEF PlaneInv, PlaneTypes
      <3>2. PICK r \in Spots : Keeps(e, r, shown[e])
        BY <2>5, <3>1 DEF PlaneInv, Owned
      <3>3. PICK g \in FbId : g = shown[e] /\ g = shown'[e]
        BY <3>1
      <3>4. \E q \in Spots : Keeps(e, q, g)'
        BY <1>2, <1>5, <2>1, <3>2, <3>3 DEF Spots
      <3> QED BY <3>3, <3>4
    <2> QED BY <1>3, <1>7, <2>2, <2>4, <2>5, OwnedMoved DEF PlaneInv
  <1>12. OnScreen'
    <2>1. \A e \in Display : req[e] = None
      BY <1>1 DEF PlaneInv, OnScreen
    <2>2. ASSUME NEW e \in Display, e # d
          PROVE  /\ req'[e] = None /\ plane'[e] = plane[e] /\ unseen'[e] = unseen[e]
                 /\ shown'[e] = shown[e]
      BY <1>1, <1>7, <2>1, <2>2 DEF PlaneInv, PlaneTypes
    <2>3. req'[d] = f /\ shown'[d] = shown[d] /\ unseen[d] \in 0 .. CacheDepth
          /\ unseen'[d] = IF unseen[d] < CacheDepth THEN unseen[d] + 1 ELSE unseen[d]
      BY <1>1, <1>2 DEF PlaneInv, PlaneTypes
    <2>4. ASSUME shown[d] # None, unseen'[d] < CacheDepth
          PROVE  Len(s.cache) > unseen'[d] /\ s.cache[Len(s.cache) - unseen'[d]] = shown[d]
      <3>1. unseen'[d] = unseen[d] + 1 /\ unseen[d] \in 0 .. CacheDepth - 2
        BY <2>3, <2>4 DEF CacheDepth
      <3>2. ~plane[d].blank
        BY <1>2, <2>1, <2>4, <3>1 DEF PlaneInv, OnScreen, CacheDepth, DrmConstants
      <3>3. LET c == plane[d].cache
            IN Len(c) > unseen[d] /\ c[Len(c) - unseen[d]] = shown[d]
        BY <1>2, <2>4, <3>1, <3>2 DEF PlaneInv, OnScreen, CacheDepth
      <3> QED BY <1>5, <3>1, <3>3
    <2>5. f # Off /\ f # None
      BY <1>4 DEF DrmConstants
    <2>6. OnScreen!(d)'
      BY <1>5, <1>7, <1>8, <2>3, <2>4, <2>5
    <2>7. ASSUME NEW e \in Display, e # d
          PROVE  OnScreen!(e)'
      BY <2>1, <2>2, <2>7 DEF PlaneInv, OnScreen, DrmConstants
    <2> QED BY <1>7, <2>6, <2>7 DEF OnScreen
  <1>13. KeepsShown
    BY <1>3 DEF KeepsShown
  <1> QED BY <1>1, <1>7, <1>9, <1>10, <1>11, <1>12, <1>13, GivenKept DEF PlaneInv

\* The frame has nothing for the plane: what the cache drops is let go of.
LEMMA BlankFrameKeeps ==
  ASSUME DrmConstants, BoInv, PlaneInv, NEW d \in Display, BlankFrame(d)
  PROVE  PlaneInv' /\ KeepsShown
  <1> DEFINE s == BlankPlane(plane[d])
             lost == LetGo(d, s)
  <1>1. /\ sf.at = "idle" /\ Changes(d, s)
        /\ req' = [req EXCEPT ![d] = IF plane[d].blank THEN None ELSE Off]
        /\ sf' = [at |-> "flip", d |-> d, drop |-> lost]
        /\ UNCHANGED <<boVars, shown, unseen, ev, plugged, faulty>>
    BY DEF BlankFrame, SFIdle
  <1>2. plane[d] \in PlaneState
    BY PlaneOf
  <1>3. /\ s \in PlaneState /\ Len(s.cache) <= CacheDepth
        /\ s.blank = TRUE /\ s.bo \in {None, Unmade} /\ Held(s) \subseteq Held(plane[d])
    BY PlaneOf, BlankedPlane
  <1>4. lost = Held(plane[d]) \ Held(s) /\ lost \subseteq FbId
    BY <1>2, HeldFbs DEF LetGo
  <1> HIDE DEF s, lost
  <1>5. /\ Display' = Display /\ plane' \in [Display -> PlaneState] /\ plane'[d] = s
        /\ \A e \in Display \ {d} : plane'[e] = plane[e]
        /\ \A e \in Display : Len(plane'[e].cache) <= CacheDepth
    BY <1>1, <1>3, Changed DEF PlaneInv
  <1>6. fbs' = fbs /\ call' = call
    BY <1>1 DEF boVars
  <1>7. PlaneTypes'
    <2>1. req' \in [Display -> FbId \cup {None, Off}]
      BY <1>1 DEF PlaneInv, PlaneTypes
    <2>2. sf' \in [at : {"idle", "import", "flip"}, d : Display \cup {None}, drop : SUBSET FbId]
      BY <1>1, <1>4
    <2> QED BY <1>1, <1>5, <2>1, <2>2 DEF PlaneInv, PlaneTypes
  <1>8. Cleared'
    <2>1. sf'.at = "flip" /\ sf'.d = d
      BY <1>1
    <2>2. None \notin FbId /\ Unmade \notin FbId
      BY DEF DrmConstants
    <2>3. Held(plane[d]) = {} => Held(s) = {}
      BY <1>3
    <2> QED BY <1>1, <1>3, <1>5, <2>1, <2>2, <2>3 DEF PlaneInv, Cleared
  <1>9. Owned'
    <2>1. ASSUME NEW e \in Display, NEW g \in FbId
          PROVE  /\ Keeps(e, "held", g)' <=> IF e = d THEN g \in Held(s) ELSE Keeps(e, "held", g)
                 /\ Keeps(e, "ev", g)' <=> Keeps(e, "ev", g)
                 /\ Keeps(e, "sf", g)' <=> e = d /\ g \in Held(plane[d]) /\ g \notin Held(s)
                 /\ ~Keeps(e, "new", g)'
                 /\ ~Keeps(e, "sf", g) /\ ~Keeps(e, "new", g)
                 /\ Keeps(d, "held", g) <=> g \in Held(plane[d])
      BY <1>1, <1>4, <1>5 DEF Keeps
    <2>2. ASSUME NEW e \in Display, NEW r \in Spots, NEW g \in FbId, Keeps(e, r, g)'
          PROVE  \E q \in Spots : Keeps(e, q, g)
      BY <1>3, <2>1, <2>2 DEF Spots
    <2>3. ASSUME NEW e \in Display, NEW r \in Spots, NEW q \in Spots, NEW g \in FbId,
                 Keeps(e, r, g)', Keeps(e, q, g)'
          PROVE  r = q
      <3>1. Keeps(e, "held", g) /\ Keeps(e, "ev", g) => FALSE
        BY DEF PlaneInv, Owned, Spots
      <3> QED BY <1>3, <2>1, <2>3, <3>1 DEF Spots
    <2>4. ASSUME NEW e \in Display, shown'[e] # None
          PROVE  \E r \in Spots : Keeps(e, r, shown[e])'
      <3>1. PICK g \in FbId : g = shown[e] /\ g = shown'[e]
        BY <1>1, <2>4 DEF PlaneInv, PlaneTypes
      <3>2. PICK r \in Spots : Keeps(e, r, g)
        BY <1>1, <2>4, <3>1 DEF PlaneInv, Owned
      <3>3. \E q \in Spots : Keeps(e, q, g)'
        BY <2>1, <3>2 DEF Spots
      <3> QED BY <3>1, <3>3
    <2> QED BY <1>5, <1>6, <2>2, <2>3, <2>4, OwnedMoved DEF PlaneInv
  <1>10. OnScreen'
    <2>1. \A e \in Display : req[e] = None
      BY <1>1 DEF PlaneInv, OnScreen
    <2>2. None \notin FbId /\ Off \notin FbId /\ Off # None
      BY DEF DrmConstants
    <2>3. req'[d] = IF plane[d].blank THEN None ELSE Off
      BY <1>1 DEF PlaneInv, PlaneTypes
    <2>4. \A e \in Display : e # d => req'[e] = req[e]
      BY <1>1 DEF PlaneInv, PlaneTypes
    <2>5. sf'.at = "flip" /\ sf'.d = d
      BY <1>1
    <2>6. plane[d].blank => shown[d] = None \/ unseen[d] >= CacheDepth
      BY <2>1, <2>2 DEF PlaneInv, OnScreen
    <2>7. OnScreen!(d)'
      BY <1>1, <1>3, <1>5, <2>2, <2>3, <2>5, <2>6
    <2>8. ASSUME NEW e \in Display, e # d
          PROVE  OnScreen!(e)'
      BY <1>1, <1>5, <2>1, <2>2, <2>4, <2>8 DEF PlaneInv, OnScreen
    <2> QED BY <1>5, <2>7, <2>8 DEF OnScreen
  <1>11. KeepsShown
    BY <1>6 DEF KeepsShown
  <1> QED BY <1>1, <1>5, <1>7, <1>8, <1>9, <1>10, <1>11, GivenKept DEF PlaneInv

\* What the screen shows of a plane in use is held, but for a frame too old.
LEMMA ShownHeld ==
  ASSUME DrmConstants, PlaneInv, NEW d \in Display, shown[d] # None, ~plane[d].blank,
         unseen[d] < CacheDepth
  PROVE  shown[d] \in Held(plane[d])
  <1> DEFINE c == plane[d].cache
  <1>1. /\ c \in Seq(FbId \cup {Unmade}) /\ Len(c) \in Nat /\ unseen[d] \in 0 .. CacheDepth
        /\ shown[d] \in FbId
    BY PlaneOf DEF PlaneInv, PlaneTypes, PlaneState
  <1>2. Len(c) > unseen[d] /\ c[Len(c) - unseen[d]] = shown[d]
    BY DEF PlaneInv, OnScreen
  <1>3. Len(c) - unseen[d] \in 1 .. Len(c)
    BY <1>1, <1>2 DEF CacheDepth
  <1>4. DOMAIN c = 1 .. Len(c)
    BY <1>1, LenProperties
  <1>5. shown[d] \in ToSet(c)
    BY <1>2, <1>3, <1>4 DEF ToSet
  <1> QED BY <1>1, <1>5 DEF Held, DrmConstants

\* A framebuffer that is removed is let go of by a thread: no plane holds it.
LEMMA RemovedSafely ==
  ASSUME DrmConstants, PlaneInv, NEW f \in FbId, NEW d \in Display, NEW s \in Spots,
         s # "held", Keeps(d, s, f), Removed(f), fbs' = [fbs EXCEPT ![f] = NoFb],
         fbs \in [FbId -> [live : BOOLEAN, h : Handle \cup {None}, b : Buffer \cup {None}]],
         UNCHANGED <<plane, req, unseen>>,
         \A e \in Display : req[e] # None => sf'.at = "flip" /\ sf'.d = e,
         \A e \in Display, r \in Spots, g \in FbId : Keeps(e, r, g)' => Keeps(e, r, g),
         \A e \in Display, r \in Spots, g \in FbId : Keeps(e, r, g) /\ g # f => Keeps(e, r, g)',
         \A e \in Display, r \in Spots : ~Keeps(e, r, f)'
  PROVE  Owned' /\ OnScreen' /\ KeepsShown
  <1>1. /\ Display' = Display
        /\ \A g \in FbId : g # f => fbs'[g] = fbs[g]
        /\ \A e \in Display : shown'[e] = IF shown[e] = f THEN None ELSE shown[e]
        /\ shown \in [Display -> FbId \cup {None}]
    BY DEF Display, Removed, PlaneInv, PlaneTypes
  <1>2. Owned'
    <2>1. ASSUME NEW e \in Display, NEW r \in Display, NEW p \in Spots, NEW q \in Spots, NEW g \in FbId,
                 Keeps(e, p, g)', Keeps(r, q, g)'
          PROVE  e = r /\ p = q
      <3>1. Keeps(e, p, g) /\ Keeps(r, q, g)
        BY <2>1
      <3> QED BY <3>1 DEF PlaneInv, Owned
    <2>2. ASSUME NEW e \in Display, NEW p \in Spots, NEW g \in FbId, Keeps(e, p, g)'
          PROVE  fbs'[g].live
      <3>1. Keeps(e, p, g) /\ g # f
        BY <2>2
      <3> QED BY <1>1, <3>1 DEF PlaneInv, Owned
    <2>3. ASSUME NEW e \in Display, shown'[e] # None
          PROVE  \E p \in Spots : Keeps(e, p, shown[e])'
      <3>1. PICK g \in FbId : g = shown[e] /\ g = shown'[e] /\ g # f
        BY <1>1, <2>3
      <3>2. PICK p \in Spots : Keeps(e, p, g)
        BY <1>1, <2>3, <3>1 DEF PlaneInv, Owned
      <3>3. Keeps(e, p, g)'
        BY <3>1, <3>2
      <3> QED BY <3>1, <3>3
    <2> QED BY <1>1, <2>1, <2>2, <2>3 DEF Owned
  <1>3. OnScreen'
    <2>1. ASSUME NEW e \in Display
          PROVE  OnScreen!(e)'
      BY <1>1, <2>1 DEF PlaneInv, OnScreen
    <2> QED BY <1>1, <2>1 DEF OnScreen
  <1>4. KeepsShown
    <2> SUFFICES ASSUME NEW e \in Display, shown[e] # None,
                        fbs[shown[e]].live, ~fbs'[shown[e]].live
                 PROVE  plane[e].blank \/ unseen[e] >= CacheDepth
      BY DEF KeepsShown
    <2>1. shown[e] = f
      BY <1>1
    <2>2. PICK r \in Spots : Keeps(e, r, f)
      BY <2>1 DEF PlaneInv, Owned
    <2>3. r # "held"
      BY <2>2 DEF PlaneInv, Owned
    <2>4. ~Keeps(e, "held", f)
      BY <2>2, <2>3 DEF PlaneInv, Owned, Spots
    <2>5. f \notin Held(plane[e])
      BY <2>4, Spotted
    <2>6. unseen[e] \in 0 .. CacheDepth
      BY DEF PlaneInv, PlaneTypes
    <2> QED BY <2>1, <2>5, <2>6, ShownHeld DEF CacheDepth
  <1> QED BY <1>2, <1>3, <1>4

LEMMA PopBoKeeps ==
  ASSUME DrmConstants, BoInv, PlaneInv, NEW f \in FbId, PopBo(f)
  PROVE  PlaneInv' /\ KeepsShown
  <1>1. /\ sf.at = "flip" /\ f \in sf.drop /\ Removed(f)
        /\ fbs' = [fbs EXCEPT ![f] = NoFb]
        /\ sf' = [sf EXCEPT !.drop = @ \ {f}]
        /\ UNCHANGED <<plane, req, unseen, ev, plugged, faulty>>
    BY DEF PopBo, RmFb
  <1>2. sf.d \in Display /\ Keeps(sf.d, "sf", f) /\ Display' = Display
    BY <1>1 DEF PlaneInv, Cleared, Keeps, Display
  <1>3. /\ sf'.at = sf.at /\ sf'.d = sf.d /\ sf'.drop = sf.drop \ {f} /\ sf.drop \subseteq FbId
        /\ sf' \in [at : {"idle", "import", "flip"}, d : Display \cup {None}, drop : SUBSET FbId]
    BY <1>1 DEF PlaneInv, PlaneTypes
  <1>4. PlaneTypes' /\ Cleared'
    BY <1>1, <1>2, <1>3 DEF PlaneInv, PlaneTypes, Cleared, Removed
  <1>5. ASSUME NEW e \in Display, NEW g \in FbId
        PROVE  /\ Keeps(e, "held", g)' <=> Keeps(e, "held", g)
               /\ Keeps(e, "ev", g)' <=> Keeps(e, "ev", g)
               /\ Keeps(e, "sf", g)' <=> Keeps(e, "sf", g) /\ g # f
               /\ ~Keeps(e, "new", g)' /\ ~Keeps(e, "new", g)
    BY <1>1, <1>3 DEF Keeps
  <1>6. \A e \in Display : ~Keeps(e, "held", f) /\ ~Keeps(e, "ev", f)
    BY <1>2 DEF PlaneInv, Owned, Spots
  <1>7. /\ \A e \in Display, r \in Spots, g \in FbId : Keeps(e, r, g)' => Keeps(e, r, g)
        /\ \A e \in Display, r \in Spots, g \in FbId : Keeps(e, r, g) /\ g # f => Keeps(e, r, g)'
        /\ \A e \in Display, r \in Spots : ~Keeps(e, r, f)'
    BY <1>5, <1>6 DEF Spots
  <1>8. \A e \in Display : req[e] # None => sf'.at = "flip" /\ sf'.d = e
    BY <1>3 DEF PlaneInv, OnScreen
  <1>9. Owned' /\ OnScreen' /\ KeepsShown
    BY <1>1, <1>2, <1>7, <1>8, RemovedSafely DEF BoInv, BoTypes, Spots
  <1> QED BY <1>1, <1>2, <1>4, <1>9, GivenKept DEF PlaneInv

LEMMA DropBoKeeps ==
  ASSUME DrmConstants, BoInv, PlaneInv, NEW f \in FbId, DropBo(f)
  PROVE  PlaneInv' /\ KeepsShown
  <1>1. /\ ev.at = "clean" /\ f \in ev.drop /\ Removed(f)
        /\ fbs' = [fbs EXCEPT ![f] = NoFb] /\ call[EV] = Idle
        /\ call' = [call EXCEPT ![EV] = [at |-> "unref", h |-> fbs[f].h, fb |-> None]]
        /\ ev' = [ev EXCEPT !.drop = @ \ {f}]
        /\ UNCHANGED <<plane, req, unseen, sf, plugged, faulty>>
    BY DEF DropBo, RmFb
  <1>2. ev.d \in Display /\ Keeps(ev.d, "ev", f) /\ Display' = Display
    BY <1>1 DEF PlaneInv, Cleared, Keeps, Display
  <1>3. /\ ev'.at = ev.at /\ ev'.d = ev.d /\ ev'.drop = ev.drop \ {f} /\ ev.drop \subseteq FbId
        /\ ev' \in [at : {"idle", "told", "clean"}, d : Display \cup {None}, drop : SUBSET FbId]
    BY <1>1 DEF PlaneInv, PlaneTypes
  <1>4. PlaneTypes' /\ Cleared'
    BY <1>1, <1>2, <1>3 DEF PlaneInv, PlaneTypes, Cleared, Removed
  <1>5. call'[SF] = call[SF]
    BY <1>1 DEF BoInv, BoTypes, SF, EV
  <1>6. ASSUME NEW e \in Display, NEW g \in FbId
        PROVE  /\ Keeps(e, "held", g)' <=> Keeps(e, "held", g)
               /\ Keeps(e, "sf", g)' <=> Keeps(e, "sf", g)
               /\ Keeps(e, "ev", g)' <=> Keeps(e, "ev", g) /\ g # f
               /\ Keeps(e, "new", g)' <=> Keeps(e, "new", g)
    BY <1>1, <1>3, <1>5 DEF Keeps
  <1>7. \A e \in Display : ~Keeps(e, "held", f) /\ ~Keeps(e, "sf", f) /\ ~Keeps(e, "new", f)
    BY <1>2 DEF PlaneInv, Owned, Spots
  <1>8. /\ \A e \in Display, r \in Spots, g \in FbId : Keeps(e, r, g)' => Keeps(e, r, g)
        /\ \A e \in Display, r \in Spots, g \in FbId : Keeps(e, r, g) /\ g # f => Keeps(e, r, g)'
        /\ \A e \in Display, r \in Spots : ~Keeps(e, r, f)'
    BY <1>6, <1>7 DEF Spots
  <1>9. \A e \in Display : req[e] # None => sf'.at = "flip" /\ sf'.d = e
    BY <1>1 DEF PlaneInv, OnScreen
  <1>10. Owned' /\ OnScreen' /\ KeepsShown
    BY <1>1, <1>2, <1>8, <1>9, RemovedSafely DEF BoInv, BoTypes, Spots
  <1> QED BY <1>1, <1>2, <1>4, <1>10, GivenKept DEF PlaneInv

\* The frame ends: the driver takes the request, or refuses it.
LEMMA FlipKeeps ==
  ASSUME DrmConstants, BoInv, PlaneInv, pageFlip \/ FlipRefused
  PROVE  PlaneInv' /\ KeepsShown
  <1>0. PICK d : d = sf.d
    OBVIOUS
  <1>1. /\ sf.at = "flip" /\ sf.drop = {} /\ req' = [req EXCEPT ![d] = None]
        /\ sf' = [sf EXCEPT !.at = "idle"]
        /\ UNCHANGED <<boVars, plane, ev, plugged, faulty>>
    BY <1>0 DEF pageFlip, FlipRefused, Flips
  <1>2. d \in Display /\ Display' = Display
    BY <1>0, <1>1 DEF PlaneInv, Cleared, Display
  <1>3. /\ req \in [Display -> FbId \cup {None, Off}] /\ shown \in [Display -> FbId \cup {None}]
        /\ unseen \in [Display -> 0 .. CacheDepth]
    BY DEF PlaneInv, PlaneTypes
  <1>4. /\ req' \in [Display -> FbId \cup {None, Off}] /\ req'[d] = None
        /\ \A e \in Display \ {d} : req'[e] = req[e] /\ req[e] = None
    BY <1>0, <1>1, <1>2, <1>3 DEF PlaneInv, OnScreen
  <1>5. /\ sf'.at = "idle" /\ sf'.d = d /\ sf'.drop = {}
        /\ sf' \in [at : {"idle", "import", "flip"}, d : Display \cup {None}, drop : SUBSET FbId]
    BY <1>0, <1>1 DEF PlaneInv, PlaneTypes
  <1>6. fbs' = fbs /\ call' = call
    BY <1>1 DEF boVars
  <1>7. Cleared'
    BY <1>1, <1>2, <1>5 DEF PlaneInv, Cleared
  <1>8. ASSUME NEW e \in Display, NEW g \in FbId
        PROVE  /\ Keeps(e, "held", g)' <=> Keeps(e, "held", g)
               /\ Keeps(e, "ev", g)' <=> Keeps(e, "ev", g)
               /\ ~Keeps(e, "sf", g)' /\ ~Keeps(e, "sf", g)
               /\ ~Keeps(e, "new", g)' /\ ~Keeps(e, "new", g)
    BY <1>1, <1>5 DEF Keeps
  <1>9. \A e \in Display, r \in Spots, g \in FbId : Keeps(e, r, g)' <=> Keeps(e, r, g)
    BY <1>8 DEF Spots
  <1>10. ASSUME shown' \in [Display -> FbId \cup {None}],
                \A e \in Display : shown'[e] # None =>
                    shown'[e] = shown[e] \/ (shown'[e] \in FbId /\ shown'[e] \in Held(plane[e]))
         PROVE  Owned'
    <2>1. ASSUME NEW e \in Display, shown'[e] # None
          PROVE  \E r \in Spots : Keeps(e, r, shown[e])'
      <3>1. PICK g \in FbId : g = shown'[e]
        BY <1>10, <2>1
      <3>2. CASE shown'[e] = shown[e]
        <4>1. PICK r \in Spots : Keeps(e, r, g)
          BY <2>1, <3>1, <3>2 DEF PlaneInv, Owned
        <4> QED BY <1>9, <3>1, <4>1
      <3>3. CASE shown'[e] \in Held(plane[e])
        <4>1. Keeps(e, "held", g)'
          BY <1>8, <3>1, <3>3, Spotted
        <4> QED BY <3>1, <4>1 DEF Spots
      <3> QED BY <1>10, <2>1, <3>2, <3>3
    <2>2. ASSUME NEW e \in Display, NEW p \in Spots, NEW q \in Spots, NEW g \in FbId,
                 Keeps(e, p, g)', Keeps(e, q, g)'
          PROVE  p = q
      BY <1>9, <2>2 DEF PlaneInv, Owned
    <2>3. \A e \in Display, p \in Spots, g \in FbId : Keeps(e, p, g)' => \E r \in Spots : Keeps(e, r, g)
      BY <1>9
    <2> QED BY <1>2, <1>6, <2>1, <2>2, <2>3, OwnedMoved DEF PlaneInv
  <1>11. KeepsShown
    BY <1>6 DEF KeepsShown
  <1>12. None \notin FbId /\ Off \notin FbId /\ Off # None
    BY DEF DrmConstants
  <1>13. CASE pageFlip
    <2>1. /\ shown' = [shown EXCEPT ![d] = Shows(d)]
          /\ unseen' = [unseen EXCEPT ![d] = IF req[d] = None THEN @ ELSE 0]
      BY <1>0, <1>13 DEF pageFlip
    <2>2. Shows(d) = IF req[d] = None THEN shown[d] ELSE IF req[d] = Off THEN None ELSE req[d]
      BY <1>12 DEF Shows
    <2>3. /\ shown' \in [Display -> FbId \cup {None}] /\ shown'[d] = Shows(d)
          /\ \A e \in Display \ {d} : shown'[e] = shown[e]
          /\ unseen' \in [Display -> 0 .. CacheDepth]
          /\ unseen'[d] = IF req[d] = None THEN unseen[d] ELSE 0
          /\ \A e \in Display \ {d} : unseen'[e] = unseen[e]
      <3>1. Shows(d) \in FbId \cup {None} /\ 0 \in 0 .. CacheDepth
        BY <1>2, <1>3, <2>2 DEF CacheDepth
      <3> QED BY <1>2, <1>3, <2>1, <3>1
    <2>4. PlaneTypes'
      BY <1>1, <1>2, <1>4, <1>5, <2>3 DEF PlaneInv, PlaneTypes
    <2>5. ASSUME req[d] \in FbId
          PROVE  /\ req[d] \in Held(plane[d]) /\ ~plane[d].blank
                 /\ Len(plane[d].cache) > 0 /\ plane[d].cache[Len(plane[d].cache)] = req[d]
      <3> DEFINE c == plane[d].cache
      <3>1. ~plane[d].blank /\ Len(c) > 0 /\ c[Len(c)] = req[d]
        BY <1>2, <2>5 DEF PlaneInv, OnScreen
      <3>2. Len(c) \in 1 .. Len(c) /\ DOMAIN c = 1 .. Len(c)
        BY <1>2, <3>1, PlaneOf, LenProperties DEF PlaneState
      <3>3. req[d] \in ToSet(c)
        BY <3>1, <3>2 DEF ToSet
      <3> QED BY <2>5, <3>1, <3>3 DEF Held, DrmConstants
    <2>6. Owned'
      BY <1>2, <1>3, <1>10, <1>12, <2>2, <2>3, <2>5
    <2>7. OnScreen'
      <3>1. OnScreen!(d)'
        <4>1. req[d] = None => OnScreen!(d)'
          BY <1>1, <1>2, <1>4, <1>12, <2>2, <2>3 DEF PlaneInv, OnScreen
        <4>2. req[d] = Off => OnScreen!(d)'
          BY <1>1, <1>2, <1>4, <1>12, <2>2, <2>3 DEF PlaneInv, OnScreen
        <4>3. ASSUME req[d] \in FbId
              PROVE  OnScreen!(d)'
          <5>1. Len(plane[d].cache) - 0 = Len(plane[d].cache)
            BY <1>2, PlaneOf, LenProperties DEF PlaneState
          <5> QED BY <1>1, <1>4, <1>12, <2>2, <2>3, <2>5, <4>3, <5>1
        <4> QED BY <1>2, <1>3, <4>1, <4>2, <4>3
      <3>2. ASSUME NEW e \in Display, e # d
            PROVE  OnScreen!(e)'
        BY <1>1, <1>4, <1>12, <2>3, <3>2 DEF PlaneInv, OnScreen
      <3> QED BY <1>2, <3>1, <3>2 DEF OnScreen
    <2> QED BY <1>1, <1>2, <1>7, <1>11, <2>4, <2>6, <2>7, GivenKept DEF PlaneInv
  <1>14. CASE FlipRefused
    <2>1. /\ unseen' = [unseen EXCEPT ![d] = IF req[d] = Off THEN CacheDepth ELSE @]
          /\ shown' = shown /\ req[d] # None
      BY <1>0, <1>14 DEF FlipRefused
    <2>2. /\ unseen' \in [Display -> 0 .. CacheDepth]
          /\ unseen'[d] = IF req[d] = Off THEN CacheDepth ELSE unseen[d]
          /\ \A e \in Display \ {d} : unseen'[e] = unseen[e]
      BY <1>2, <1>3, <2>1 DEF CacheDepth
    <2>3. PlaneTypes'
      BY <1>1, <1>2, <1>4, <1>5, <2>1, <2>2 DEF PlaneInv, PlaneTypes
    <2>4. Owned'
      BY <1>3, <1>10, <2>1
    <2>5. OnScreen'
      <3>1. OnScreen!(d)'
        <4>1. req[d] = Off => OnScreen!(d)'
          BY <1>1, <1>2, <1>4, <1>12, <2>1, <2>2 DEF PlaneInv, OnScreen, CacheDepth
        <4>2. req[d] \in FbId => OnScreen!(d)'
          BY <1>1, <1>2, <1>4, <1>12, <2>1, <2>2 DEF PlaneInv, OnScreen
        <4> QED BY <1>2, <1>3, <2>1, <4>1, <4>2
      <3>2. ASSUME NEW e \in Display, e # d
            PROVE  OnScreen!(e)'
        BY <1>1, <1>4, <1>12, <2>1, <2>2, <3>2 DEF PlaneInv, OnScreen
      <3> QED BY <1>2, <3>1, <3>2 DEF OnScreen
    <2> QED BY <1>1, <1>2, <1>7, <1>11, <2>3, <2>4, <2>5, GivenKept DEF PlaneInv
  <1> QED BY <1>13, <1>14

\* The event thread blanks the plane of a display that is unplugged.
LEMMA UnplugKeeps ==
  ASSUME DrmConstants, BoInv, PlaneInv, NEW d \in Display, Unplug(d)
  PROVE  PlaneInv' /\ KeepsShown
  <1> DEFINE s == BlankPlane(plane[d])
             lost == LetGo(d, s)
  <1>1. /\ ev.at = "idle" /\ plugged[d] /\ Changes(d, s)
        /\ plugged' = [plugged EXCEPT ![d] = FALSE]
        /\ req' = [req EXCEPT ![d] = None]
        /\ ev' = [at |-> "told", d |-> d, drop |-> lost]
        /\ UNCHANGED <<boVars, sf, faulty>>
    BY DEF Unplug
  <1>2. sf.at # "idle" => sf.d # d
    BY DEF Unplug, Free
  <1>3. \/ shown' = [shown EXCEPT ![d] = IF plane[d].blank THEN @ ELSE None] /\ UNCHANGED unseen
        \/ UNCHANGED shown /\ unseen' = [unseen EXCEPT ![d] = CacheDepth]
    BY DEF Unplug
  <1>4. plane[d] \in PlaneState
    BY PlaneOf
  <1>5. /\ s \in PlaneState /\ Len(s.cache) <= CacheDepth
        /\ s.blank = TRUE /\ s.bo \in {None, Unmade} /\ Held(s) \subseteq Held(plane[d])
    BY PlaneOf, BlankedPlane
  <1>6. lost = Held(plane[d]) \ Held(s) /\ lost \subseteq FbId
    BY <1>4, HeldFbs DEF LetGo
  <1> HIDE DEF s, lost
  <1>7. /\ Display' = Display /\ plane' \in [Display -> PlaneState] /\ plane'[d] = s
        /\ \A e \in Display \ {d} : plane'[e] = plane[e]
        /\ \A e \in Display : Len(plane'[e].cache) <= CacheDepth
    BY <1>1, <1>5, Changed DEF PlaneInv
  <1>8. fbs' = fbs /\ call' = call
    BY <1>1 DEF boVars
  <1>9. /\ shown \in [Display -> FbId \cup {None}] /\ unseen \in [Display -> 0 .. CacheDepth]
        /\ req \in [Display -> FbId \cup {None, Off}] /\ plugged \in [Display -> BOOLEAN]
    BY DEF PlaneInv, PlaneTypes
  <1>10. /\ shown' \in [Display -> FbId \cup {None}] /\ unseen' \in [Display -> 0 .. CacheDepth]
         /\ \A e \in Display \ {d} : shown'[e] = shown[e] /\ unseen'[e] = unseen[e]
         /\ shown'[d] \in {shown[d], None}
         /\ unseen'[d] = CacheDepth \/ (unseen'[d] = unseen[d] /\ (~plane[d].blank => shown'[d] = None))
    BY <1>3, <1>9 DEF CacheDepth
  <1>11. /\ req' \in [Display -> FbId \cup {None, Off}] /\ req'[d] = None
         /\ \A e \in Display \ {d} : req'[e] = req[e]
         /\ plugged' \in [Display -> BOOLEAN] /\ plugged'[d] = FALSE
         /\ \A e \in Display \ {d} : plugged'[e] = plugged[e]
    BY <1>1, <1>9
  <1>12. PlaneTypes'
    <2>1. ev' \in [at : {"idle", "told", "clean"}, d : Display \cup {None}, drop : SUBSET FbId]
      BY <1>1, <1>6
    <2> QED BY <1>1, <1>7, <1>10, <1>11, <2>1 DEF PlaneInv, PlaneTypes
  <1>13. Cleared'
    <2>1. ev'.at = "told" /\ ev'.d = d
      BY <1>1
    <2>2. None \notin FbId /\ Unmade \notin FbId
      BY DEF DrmConstants
    <2>3. sf.at = "import" => sf.d \in Display /\ sf.d # d /\ plugged[sf.d]
      BY <1>2 DEF PlaneInv, Cleared
    <2>4. ASSUME NEW e \in Display
          PROVE  /\ plane'[e].bo \in FbId => plane'[e].bo \in ToSet(plane'[e].cache)
                 /\ plane'[e].blank => plane'[e].bo \in {None, Unmade}
                 /\ ~plugged'[e] => plane'[e].blank
                 /\ ~plugged'[e] /\ ~(ev'.at = "told" /\ ev'.d = e) => Held(plane'[e]) = {}
      <3>1. CASE e = d
        BY <1>5, <1>7, <2>1, <2>2, <3>1
      <3>2. CASE e # d
        BY <1>1, <1>7, <1>11, <3>2 DEF PlaneInv, Cleared
      <3> QED BY <3>1, <3>2
    <2>5. sf.at # "idle" => sf.d \in Display
      BY DEF PlaneInv, Cleared
    <2> QED BY <1>1, <1>7, <1>11, <2>1, <2>3, <2>4, <2>5 DEF Cleared
  <1>14. Owned'
    <2>1. ASSUME NEW e \in Display, NEW g \in FbId
          PROVE  /\ Keeps(e, "held", g)' <=> IF e = d THEN g \in Held(s) ELSE Keeps(e, "held", g)
                 /\ Keeps(e, "sf", g)' <=> Keeps(e, "sf", g)
                 /\ Keeps(e, "ev", g)' <=> e = d /\ g \in Held(plane[d]) /\ g \notin Held(s)
                 /\ Keeps(e, "new", g)' <=> Keeps(e, "new", g)
                 /\ ~Keeps(e, "ev", g) /\ ~Keeps(d, "sf", g) /\ ~Keeps(d, "new", g)
                 /\ Keeps(d, "held", g) <=> g \in Held(plane[d])
      BY <1>1, <1>2, <1>6, <1>7, <1>8 DEF Keeps
    <2>2. ASSUME NEW e \in Display, NEW r \in Spots, NEW g \in FbId, Keeps(e, r, g)'
          PROVE  \E q \in Spots : Keeps(e, q, g)
      BY <1>5, <2>1, <2>2 DEF Spots
    <2>3. ASSUME NEW e \in Display, NEW r \in Spots, NEW q \in Spots, NEW g \in FbId,
                 Keeps(e, r, g)', Keeps(e, q, g)'
          PROVE  r = q
      <3>1. CASE e = d
        BY <1>5, <2>1, <2>3, <3>1 DEF Spots
      <3>2. CASE e # d
        <4>1. Keeps(e, r, g) /\ Keeps(e, q, g)
          BY <2>1, <2>3, <3>2 DEF Spots
        <4> QED BY <4>1 DEF PlaneInv, Owned
      <3> QED BY <3>1, <3>2
    <2>4. ASSUME NEW e \in Display, shown'[e] # None
          PROVE  \E r \in Spots : Keeps(e, r, shown[e])'
      <3>1. PICK g \in FbId : g = shown[e] /\ g = shown'[e]
        BY <1>9, <1>10, <2>4
      <3>2. PICK r \in Spots : Keeps(e, r, g)
        BY <2>4, <1>10, <3>1 DEF PlaneInv, Owned
      <3>3. \E q \in Spots : Keeps(e, q, g)'
        BY <2>1, <3>2 DEF Spots
      <3> QED BY <3>1, <3>3
    <2> QED BY <1>7, <1>8, <2>2, <2>3, <2>4, OwnedMoved DEF PlaneInv
  <1>15. OnScreen'
    <2>1. None \notin FbId /\ Off \notin FbId /\ Off # None
      BY DEF DrmConstants
    <2>2. req[d] = None
      BY <1>2 DEF PlaneInv, OnScreen
    <2>3. plane[d].blank => shown[d] = None \/ unseen[d] >= CacheDepth
      BY <2>1, <2>2 DEF PlaneInv, OnScreen
    <2>4. shown'[d] = None \/ unseen'[d] >= CacheDepth
      BY <1>9, <1>10, <2>3 DEF CacheDepth
    <2>5. OnScreen!(d)'
      BY <1>5, <1>7, <1>11, <2>1, <2>4
    <2>6. ASSUME NEW e \in Display, e # d
          PROVE  OnScreen!(e)'
      BY <1>1, <1>7, <1>10, <1>11, <2>6 DEF PlaneInv, OnScreen
    <2> QED BY <1>7, <2>5, <2>6 DEF OnScreen
  <1>16. KeepsShown
    BY <1>8 DEF KeepsShown
  <1> QED BY <1>1, <1>7, <1>12, <1>13, <1>14, <1>15, <1>16, GivenKept DEF PlaneInv

LEMMA clearPlaneResourcesKeeps ==
  ASSUME DrmConstants, BoInv, PlaneInv, clearPlaneResources
  PROVE  PlaneInv' /\ KeepsShown
  <1>0. PICK d : d = ev.d
    OBVIOUS
  <1> DEFINE s == [plane[d] EXCEPT !.cache = <<>>]
             lost == LetGo(d, s)
  <1>1. /\ ev.at = "told" /\ Changes(d, s) /\ ev' = [ev EXCEPT !.at = "clean", !.drop = @ \cup lost]
        /\ UNCHANGED <<boVars, req, shown, unseen, sf, plugged, faulty>>
    BY <1>0 DEF clearPlaneResources
  <1>2. d \in Display /\ ~plugged[d] /\ plane[d].blank
    BY <1>0, <1>1 DEF PlaneInv, Cleared
  <1>3. plane[d] \in PlaneState /\ plane[d].bo \in {None, Unmade}
    BY <1>2, PlaneOf
  <1>4. /\ s \in PlaneState /\ s.bo = plane[d].bo /\ s.blank = TRUE /\ s.cache = <<>>
        /\ Len(s.cache) <= CacheDepth
    <2>1. <<>> \in Seq(FbId \cup {Unmade}) /\ Len(<<>>) <= CacheDepth
      BY DEF CacheDepth
    <2>2. s \in PlaneState /\ s.bo = plane[d].bo /\ s.blank = TRUE /\ s.cache = <<>>
      BY <1>2, <1>3, <2>1 DEF PlaneState
    <2> QED BY <2>1, <2>2
  <1> HIDE DEF s
  <1>5. Held(s) = {} /\ lost = Held(plane[d]) /\ lost \subseteq FbId
    <2>1. Held(s) = {}
      BY <1>3, <1>4 DEF Held, ToSet
    <2> QED BY <1>3, <2>1, HeldFbs DEF LetGo
  <1> HIDE DEF lost
  <1>6. /\ Display' = Display /\ plane' \in [Display -> PlaneState] /\ plane'[d] = s
        /\ \A e \in Display \ {d} : plane'[e] = plane[e]
        /\ \A e \in Display : Len(plane'[e].cache) <= CacheDepth
    BY <1>1, <1>2, <1>4, Changed DEF PlaneInv
  <1>7. /\ ev'.at = "clean" /\ ev'.d = d /\ ev'.drop = ev.drop \cup lost
        /\ ev' \in [at : {"idle", "told", "clean"}, d : Display \cup {None}, drop : SUBSET FbId]
    BY <1>0, <1>1, <1>5 DEF PlaneInv, PlaneTypes
  <1>8. fbs' = fbs /\ call' = call
    BY <1>1 DEF boVars
  <1>9. PlaneTypes'
    BY <1>1, <1>6, <1>7 DEF PlaneInv, PlaneTypes
  <1>10. None \notin FbId /\ Unmade \notin FbId /\ Off \notin FbId /\ Off # None
    BY DEF DrmConstants
  <1>11. Cleared'
    <2>1. ASSUME NEW e \in Display
          PROVE  /\ plane'[e].bo \in FbId => plane'[e].bo \in ToSet(plane'[e].cache)
                 /\ plane'[e].blank => plane'[e].bo \in {None, Unmade}
                 /\ ~plugged[e] => plane'[e].blank
                 /\ ~plugged[e] => Held(plane'[e]) = {}
      <3>1. CASE e = d
        BY <1>3, <1>4, <1>5, <1>6, <1>10, <3>1
      <3>2. CASE e # d
        BY <1>0, <1>1, <1>6, <3>2 DEF PlaneInv, Cleared
      <3> QED BY <3>1, <3>2
    <2> QED BY <1>1, <1>2, <1>6, <1>7, <2>1 DEF PlaneInv, Cleared
  <1>12. Owned'
    <2>1. ASSUME NEW e \in Display, NEW g \in FbId
          PROVE  /\ Keeps(e, "held", g)' <=> e # d /\ Keeps(e, "held", g)
                 /\ Keeps(e, "sf", g)' <=> Keeps(e, "sf", g)
                 /\ Keeps(e, "ev", g)' <=> Keeps(e, "ev", g) \/ (e = d /\ Keeps(e, "held", g))
                 /\ Keeps(e, "new", g)' <=> Keeps(e, "new", g)
      BY <1>0, <1>1, <1>5, <1>6, <1>7, <1>8 DEF Keeps
    <2>2. ASSUME NEW e \in Display, NEW r \in Spots, NEW g \in FbId, Keeps(e, r, g)'
          PROVE  \E q \in Spots : Keeps(e, q, g)
      BY <2>1, <2>2 DEF Spots
    <2>3. ASSUME NEW e \in Display, NEW r \in Spots, NEW q \in Spots, NEW g \in FbId,
                 Keeps(e, r, g)', Keeps(e, q, g)'
          PROVE  r = q
      <3>1. \A p, k \in Spots : Keeps(e, p, g) /\ Keeps(e, k, g) => p = k
        BY DEF PlaneInv, Owned
      <3>2. /\ Keeps(e, "held", g) => ~Keeps(e, "sf", g) /\ ~Keeps(e, "ev", g) /\ ~Keeps(e, "new", g)
            /\ Keeps(e, "ev", g) => ~Keeps(e, "sf", g) /\ ~Keeps(e, "new", g)
            /\ Keeps(e, "sf", g) => ~Keeps(e, "new", g)
        BY <3>1 DEF Spots
      <3> QED BY <2>1, <2>3, <3>2 DEF Spots
    <2>4. ASSUME NEW e \in Display, shown'[e] # None
          PROVE  \E r \in Spots : Keeps(e, r, shown[e])'
      <3>1. PICK g \in FbId : g = shown[e] /\ g = shown'[e]
        BY <1>1, <2>4 DEF PlaneInv, PlaneTypes
      <3>2. PICK r \in Spots : Keeps(e, r, g)
        BY <1>1, <2>4, <3>1 DEF PlaneInv, Owned
      <3>3. \E q \in Spots : Keeps(e, q, g)'
        BY <2>1, <3>2 DEF Spots
      <3> QED BY <3>1, <3>3
    <2> QED BY <1>6, <1>8, <2>2, <2>3, <2>4, OwnedMoved DEF PlaneInv
  <1>13. OnScreen'
    <2>1. OnScreen!(d)'
      BY <1>1, <1>2, <1>4, <1>6 DEF PlaneInv, OnScreen
    <2>2. ASSUME NEW e \in Display, e # d
          PROVE  OnScreen!(e)'
      BY <1>1, <1>6, <2>2 DEF PlaneInv, OnScreen
    <2> QED BY <1>6, <2>1, <2>2 DEF OnScreen
  <1>14. KeepsShown
    BY <1>8 DEF KeepsShown
  <1> QED BY <1>1, <1>6, <1>9, <1>11, <1>12, <1>13, <1>14, GivenKept DEF PlaneInv

\* The display is reported, or comes back.
LEMMA EventEndsKeeps ==
  ASSUME DrmConstants, BoInv, PlaneInv, Gone \/ \E d \in Display : PlugIn(d)
  PROVE  PlaneInv' /\ KeepsShown
  <1>1. UNCHANGED <<boVars, plane, req, shown, unseen, sf, faulty>>
    BY DEF Gone, PlugIn
  <1>2. Display' = Display /\ fbs' = fbs /\ call' = call
    BY <1>1 DEF Display, boVars
  <1>3. /\ ev' \in [at : {"idle", "told", "clean"}, d : Display \cup {None}, drop : SUBSET FbId]
        /\ plugged' \in [Display -> BOOLEAN]
        /\ ev'.at = "idle" /\ (ev.at = "idle" \/ ev.drop = {}) /\ ev.at # "told"
        /\ \A d \in Display : plugged[d] => plugged'[d]
    <2>1. CASE Gone
      BY <2>1 DEF Gone, PlaneInv, PlaneTypes
    <2>2. CASE \E d \in Display : PlugIn(d)
      <3>1. PICK d \in Display : ev.at = "idle" /\ plugged' = [plugged EXCEPT ![d] = TRUE] /\ ev' = ev
        BY <2>2 DEF PlugIn
      <3> QED BY <3>1 DEF PlaneInv, PlaneTypes
    <2> QED BY <2>1, <2>2
  <1>4. PlaneTypes'
    BY <1>1, <1>2, <1>3 DEF PlaneInv, PlaneTypes
  <1>5. Cleared'
    BY <1>1, <1>2, <1>3 DEF PlaneInv, Cleared
  <1>6. ASSUME NEW e \in Display, NEW r \in Spots, NEW g \in FbId
        PROVE  Keeps(e, r, g)' <=> Keeps(e, r, g)
    BY <1>1, <1>2, <1>3 DEF Keeps, Spots
  <1>7. Owned'
    <2>1. \A e \in Display : shown[e] \in FbId \cup {None}
      BY DEF PlaneInv, PlaneTypes
    <2> QED BY <1>1, <1>2, <1>6, <2>1 DEF PlaneInv, Owned
  <1>8. OnScreen' /\ KeepsShown
    BY <1>1, <1>2 DEF PlaneInv, OnScreen, KeepsShown
  <1> QED BY <1>1, <1>2, <1>4, <1>5, <1>7, <1>8, GivenKept DEF PlaneInv

LEMMA ReleaseKeeps ==
  ASSUME DrmConstants, BoInv, PlaneInv, NEW t \in Thread, Release(t)
  PROVE  PlaneInv' /\ KeepsShown
  <1>1. UNCHANGED planeVars /\ fbs' = fbs
    BY DEF Release, unrefHandle, GemClose
  <1>2. /\ UNCHANGED <<plane, req, shown, unseen, sf, ev, plugged, faulty>>
        /\ Display' = Display
    BY <1>1 DEF planeVars, Display
  <1>3. \/ call'[SF] = call[SF]
        \/ call[SF].at # "ref" /\ call'[SF].at # "ref"
    BY DEF Release, unrefHandle, GemClose, BoInv, BoTypes, DrmConstants, Idle
  <1>4. ASSUME NEW e \in Display, NEW r \in Spots, NEW g \in FbId
        PROVE  Keeps(e, r, g)' <=> Keeps(e, r, g)
    BY <1>2, <1>3 DEF Keeps, Spots
  <1>5. PlaneTypes' /\ Cleared' /\ OnScreen' /\ KeepsShown
    BY <1>1, <1>2 DEF PlaneInv, PlaneTypes, Cleared, OnScreen, KeepsShown
  <1>6. Owned'
    <2>1. \A e \in Display : shown[e] \in FbId \cup {None}
      BY DEF PlaneInv, PlaneTypes
    <2> QED BY <1>1, <1>2, <1>4, <2>1 DEF PlaneInv, Owned
  <1> QED BY <1>2, <1>5, <1>6, GivenKept DEF PlaneInv

----------------------------------------------------------------------------
(* The specification *)

DrmInv == BoInv /\ PlaneInv

\* The kernel takes framebuffer ids, and what a display is given to show is a buffer.
Kernel(displays, failing) ==
    /\ \A d \in displays, c \in Seq(FbId \cup {Unmade}) : NewFbs(d, c) \subseteq FbId
    /\ \A d \in displays : Brings(d, failing) \subseteq Buffer

LEMMA InitHolds ==
  ASSUME DrmConstants, NEW displays, NEW failing, Kernel(displays, failing),
         Init(displays, failing)
  PROVE  DrmInv
  <1> DEFINE s == [bo |-> Unmade, blank |-> TRUE, cache |-> <<>>]
  <1>1. /\ BoInit /\ plane = [d \in displays |-> s] /\ req = [d \in displays |-> None]
        /\ shown = [d \in displays |-> None] /\ unseen = [d \in displays |-> 0]
        /\ sf = [at |-> "idle", d |-> None, drop |-> {}] /\ ev = sf
        /\ plugged = [d \in displays |-> TRUE] /\ faulty = failing
    BY DEF Init
  <1>2. Display = displays
    BY <1>1 DEF Display
  <1>3. s \in PlaneState /\ Len(s.cache) <= CacheDepth /\ s.bo = Unmade /\ s.blank = TRUE
        /\ Held(s) = {}
    <2>1. <<>> \in Seq(FbId \cup {Unmade}) /\ Len(<<>>) <= CacheDepth
      BY DEF CacheDepth
    <2>2. ToSet(<<>>) = {}
      BY DEF ToSet
    <2> QED BY <2>1, <2>2 DEF PlaneState, Held
  <1> HIDE DEF s
  <1>4. \A d \in Display : plane[d] = s /\ req[d] = None /\ shown[d] = None
    BY <1>1, <1>2
  <1>5. PlaneTypes
    BY <1>1, <1>2, <1>3 DEF PlaneTypes, CacheDepth
  <1>6. Given
    BY <1>1, <1>2 DEF Given, Kernel
  <1>7. Cleared
    BY <1>1, <1>2, <1>3, <1>4 DEF Cleared, DrmConstants
  <1>8. Owned
    <2>1. ASSUME NEW d \in Display, NEW r \in Spots, NEW f \in FbId
          PROVE  ~Keeps(d, r, f)
      BY <1>1, <1>3, <1>4 DEF Keeps, Spots
    <2> QED BY <1>4, <2>1 DEF Owned
  <1>9. OnScreen
    BY <1>3, <1>4 DEF OnScreen, DrmConstants
  <1> QED BY <1>1, <1>5, <1>6, <1>7, <1>8, <1>9, BoInitKeeps DEF DrmInv, PlaneInv

\* A step of the planes is one call of import or release, or none.
LEMMA BoCalls ==
  ASSUME DrmConstants, PlaneInv, Next
  PROVE  [BoNext]_boVars
  <1>1. ASSUME NEW d \in Display, NEW b \in Brings(d, faulty), setPlane(d, b)
        PROVE  BoNext
    BY <1>1 DEF setPlane, BoNext, PlaneInv, Given, DrmConstants
  <1>2. ASSUME NEW d \in Display, ImportFails(d) \/ BlankFrame(d) \/ Unplug(d) \/ PlugIn(d)
        PROVE  UNCHANGED boVars
    BY <1>2 DEF ImportFails, BlankFrame, Unplug, PlugIn
  <1>3. ASSUME AddFramebuffer
        PROVE  BoNext
    <2>1. sf.d \in Display /\ plane[sf.d].cache \in Seq(FbId \cup {Unmade})
      BY <1>3, PlaneOf DEF AddFramebuffer, PlaneInv, Cleared, PlaneState
    <2>2. PICK f \in FbId : AddFb(SF, f)
      BY <1>3, <2>1 DEF AddFramebuffer, PlaneInv, Given
    <2> QED BY <2>2 DEF BoNext, DrmConstants
  <1>4. ASSUME Set
        PROVE  BoNext
    BY <1>4 DEF Set, BoNext, DrmConstants
  <1>5. ASSUME pageFlip \/ FlipRefused \/ clearPlaneResources \/ Gone
        PROVE  UNCHANGED boVars
    BY <1>5 DEF pageFlip, FlipRefused, clearPlaneResources, Gone
  <1>6. ASSUME NEW f \in FbId, PopBo(f) \/ DropBo(f)
        PROVE  BoNext
    BY <1>6 DEF PopBo, DropBo, BoNext, DrmConstants
  <1>7. ASSUME NEW t \in Thread, Release(t)
        PROVE  BoNext
    BY <1>7 DEF Release, BoNext
  <1> QED BY <1>1, <1>2, <1>3, <1>4, <1>5, <1>6, <1>7 DEF Next

LEMMA NextKeeps ==
  ASSUME DrmConstants, DrmInv, [Next]_drmVars
  PROVE  DrmInv' /\ (KeepsShown \/ UNCHANGED drmVars)
  <1>1. CASE Next
    <2>1. BoInv'
      BY <1>1, BoCalls, BoNextKeeps DEF DrmInv
    <2>2. PlaneInv' /\ KeepsShown
      BY <1>1, setPlaneKeeps, ImportFailsKeeps, BlankFrameKeeps, UnplugKeeps, EventEndsKeeps,
         AddFramebufferKeeps, SetKeeps, FlipKeeps, PopBoKeeps, DropBoKeeps, ReleaseKeeps,
         clearPlaneResourcesKeeps DEF DrmInv, Next
    <2> QED BY <2>1, <2>2 DEF DrmInv
  <1>2. CASE UNCHANGED drmVars
    <2>1. BoInv'
      BY <1>2, BoNextKeeps DEF DrmInv, drmVars
    <2>2. PlaneInv'
      <3>1. UNCHANGED <<plane, req, shown, unseen, sf, ev, plugged, faulty>> /\ fbs' = fbs
            /\ call' = call /\ Display' = Display
        BY <1>2 DEF drmVars, planeVars, boVars, Display
      <3>2. ASSUME NEW e \in Display, NEW r \in Spots, NEW g \in FbId
            PROVE  Keeps(e, r, g)' <=> Keeps(e, r, g)
        BY <3>1 DEF Keeps, Spots
      <3>3. PlaneTypes' /\ Given' /\ Cleared' /\ OnScreen'
        BY <3>1 DEF DrmInv, PlaneInv, PlaneTypes, Given, Cleared, OnScreen
      <3>4. Owned'
        <4>1. \A e \in Display : shown[e] \in FbId \cup {None}
          BY DEF DrmInv, PlaneInv, PlaneTypes
        <4> QED BY <3>1, <3>2, <4>1 DEF DrmInv, PlaneInv, Owned
      <3> QED BY <3>3, <3>4 DEF PlaneInv
    <2> QED BY <1>2, <2>1, <2>2 DEF DrmInv
  <1> QED BY <1>1, <1>2

LEMMA Invariance ==
  ASSUME NEW displays, NEW failing, Kernel(displays, failing)
  PROVE  Init(displays, failing) /\ [][Next]_drmVars => []DrmInv
  <1>1. Init(displays, failing) => DrmInv
    BY InitHolds, DrmAssumption
  <1>2. DrmInv /\ [Next]_drmVars => DrmInv'
    BY NextKeeps, DrmAssumption
  <1> QED BY <1>1, <1>2, PTL

\* For any number of displays, buffers and handles, any choice of the ids by the kernel
\* and any refusals of the driver: a handle is open as long as a plane uses it and no
\* longer, unless two threads count at once, and an unplugged display holds nothing
\* once it is reported (DrmBo.cpp:83-103, DrmPlane.cpp:495-500, Hwc2Display.cpp:485-488).
THEOREM HandlesStayOpen ==
  ASSUME NEW displays, NEW failing, Kernel(displays, failing)
  PROVE  Init(displays, failing) /\ [][Next]_drmVars => []HandlesOpen
  <1>1. DrmInv => HandlesOpen
    <2>1. DrmInv => NothingHeld
      BY DEF DrmInv, PlaneInv, Cleared, NothingHeld
    <2> QED BY <2>1, BoKept, DrmAssumption DEF DrmInv, HandlesOpen
  <1> QED BY <1>1, Invariance, PTL

\* The framebuffer on the screen of a plane in use is not removed, up to two refused
\* commits in a row: the plane keeps the buffer objects of its last three frames.
THEOREM ShownStaysAlive ==
  ASSUME NEW displays, NEW failing, Kernel(displays, failing)
  PROVE  Init(displays, failing) /\ [][Next]_drmVars => ShownAlive
  <1>1. DrmInv /\ [Next]_drmVars => [KeepsShown]_drmVars
    BY NextKeeps, DrmAssumption
  <1> QED BY <1>1, Invariance, PTL DEF ShownAlive

\* The planes use the buffer objects as any threads may: what holds of import and
\* release by themselves holds of the planes.
THEOREM PlanesImplementBo ==
  ASSUME NEW displays, NEW failing, Kernel(displays, failing)
  PROVE  Init(displays, failing) /\ [][Next]_drmVars => BoSpec
  <1>1. Init(displays, failing) => BoInit
    BY DEF Init
  <1>2. DrmInv /\ [Next]_drmVars => [BoNext]_boVars
    BY BoCalls, DrmAssumption DEF DrmInv, drmVars
  <1> QED BY <1>1, <1>2, Invariance, PTL DEF BoSpec

-----------------------------------------------------------------------------
(* The planes of the frame buffer drivers: the types of what they remember   *)

Pictures == UiBuffers \cup Targets \cup {Nothing}

Cursors == {s.cursor : s \in Scenes} \ {Nothing}
Videos == {s.video : s \in Scenes} \ {Nothing}
Hdrs == {s.hdr : s \in Scenes}

Rots == {0} \cup {c.rot : c \in Cursors}
Sizes == {256} \cup {c.size : c \in Cursors}
Sites == {Nothing} \cup {c.at : c \in Cursors}
Images == {Nothing} \cup {c.image : c \in Cursors}
Axes == {[win |-> v.win, rot |-> v.rot] : v \in Videos}

CursorState == [blank : BOOLEAN, rot : Rots, size : Sizes]
VideoState == [mute : BOOLEAN, type : {"undefined"} \cup {v.type : v \in Videos},
               axis : {NoAxis} \cup Axes]
Drivers == [next : Pictures, queue : Seq(Pictures), shown : Pictures, made : Nat, done : Nat,
            fence : Nat, at : Sites, rot : Rots, image : Images, cursor : BOOLEAN,
            muted : BOOLEAN, disable : 0 .. 2,
            axis : {[win |-> Nothing, rot |-> 0]} \cup Axes, hdr : {Nothing} \cup Hdrs]

Planes == [ui : [buffer : UiBuffers \cup {Nothing}, fence : Nat],
           target : [buffer : Targets \cup {Nothing}],
           osd : [blank : BOOLEAN, fb : {Nothing, "ui", "target"}],
           cursor : CursorState, video : VideoState, hdr : {"zero", "junk"} \cup Hdrs,
           drv : Drivers]

Scene == [osd : Pictures, cursor : {Nothing} \cup Cursors, video : {Nothing} \cup Videos,
          hidden : BOOLEAN, hdr : {Nothing} \cup Hdrs]

FbTypeOK ==
    /\ m \in Planes /\ asked \in Scene
    /\ DOMAIN released \subseteq UiBuffers \cup Targets
    /\ released \in [DOMAIN released -> Nat]
    /\ early \subseteq UiBuffers \cup Targets
    /\ afbc \in BOOLEAN /\ keep \in BOOLEAN /\ skip \in BOOLEAN
    /\ played \in BOOLEAN /\ refused \in BOOLEAN /\ frames \in Nat

-----------------------------------------------------------------------------
(* What a plane remembers is what its driver was told.                       *)

OsdTold(s) == s.osd.blank => s.drv.next = Nothing
CursorTold(s) == s.drv.cursor = ~s.cursor.blank /\ s.drv.rot = s.cursor.rot
VideoTold(s) ==
    /\ s.video.mute = s.drv.muted
    /\ s.video.axis # NoAxis => s.drv.axis = s.video.axis
HdrTold(s) == s.hdr \notin {"zero", "junk"} => s.drv.hdr = s.hdr
Told(s) == OsdTold(s) /\ CursorTold(s) /\ VideoTold(s) /\ HdrTold(s)

(* Each step of a frame leaves the rest alone.                               *)
SameBuffers(r, s) == r.ui.buffer = s.ui.buffer /\ r.target = s.target
SameFlips(r, s) ==
    /\ r.drv.queue = s.drv.queue /\ r.drv.shown = s.drv.shown
    /\ r.drv.made = s.drv.made /\ r.drv.done = s.drv.done
SameOsd(r, s) == r.osd = s.osd /\ r.drv.next = s.drv.next /\ r.ui.fence = s.ui.fence
SameCursor(r, s) ==
    /\ r.cursor = s.cursor /\ r.drv.cursor = s.drv.cursor
    /\ r.drv.at = s.drv.at /\ r.drv.rot = s.drv.rot
SameVideo(r, s) ==
    /\ r.video = s.video /\ r.drv.muted = s.drv.muted
    /\ r.drv.disable = s.drv.disable /\ r.drv.axis = s.drv.axis
SameHdr(r, s) == r.hdr = s.hdr /\ r.drv.hdr = s.drv.hdr

LEMMA OsdSet ==
    ASSUME NEW s \in Planes, NEW fb \in {Nothing, "ui", "target"}, NEW op, NEW no, NEW r,
           fb = Nothing => op # "unblank", r = OsdSetPlane(s, fb, op, no)
    PROVE  /\ r \in Planes
           /\ SameBuffers(r, s) /\ SameFlips(r, s) /\ SameCursor(r, s) /\ SameVideo(r, s)
           /\ SameHdr(r, s) /\ r.ui.fence \in {s.ui.fence, s.drv.made + 1}
           /\ no = {} /\ OsdTold(s) =>
                  /\ OsdTold(r)
                  /\ r.drv.next = IF op = "unblank" THEN s[fb].buffer ELSE Nothing
<1>. DEFINE blank == op # "unblank"
            told == [s EXCEPT !.osd.blank = blank]
            pass == PrevRelease(told)
            done == [pass EXCEPT !.osd.fb = IF blank THEN Nothing ELSE fb,
                                 !.drv.next = IF blank THEN Nothing ELSE s[fb].buffer]
<1>1. /\ told \in Planes /\ told.osd.blank = blank /\ told.drv = s.drv /\ told.ui = s.ui
      /\ told.target = s.target /\ told.cursor = s.cursor /\ told.video = s.video
      /\ told.hdr = s.hdr
  BY DEF Planes
<1>2. /\ pass \in Planes /\ pass.osd = told.osd /\ pass.drv = s.drv
      /\ pass.ui.buffer = s.ui.buffer /\ pass.ui.fence \in {s.ui.fence, s.drv.made + 1}
      /\ pass.target = s.target /\ pass.cursor = s.cursor /\ pass.video = s.video
      /\ pass.hdr = s.hdr
  <2>1. s.drv.made + 1 \in Nat
    BY DEF Planes, Drivers
  <2>2. told.ui \in [buffer : UiBuffers \cup {Nothing}, fence : Nat]
    BY <1>1 DEF Planes
  <2>3. CASE told.osd.fb = "ui"
    <3>. HIDE DEF told
    <3>1. pass = [told EXCEPT !.ui = [told.ui EXCEPT !.fence = s.drv.made + 1]]
      BY <1>1, <2>2, <2>3 DEF PrevRelease, Planes
    <3>. HIDE DEF pass
    <3>2. pass.ui = [told.ui EXCEPT !.fence = s.drv.made + 1] /\ pass \in Planes
      BY <1>1, <2>1, <2>2, <3>1 DEF Planes
    <3>. QED
      BY <1>1, <2>2, <3>1, <3>2 DEF Planes
  <2>4. CASE told.osd.fb # "ui"
    <3>. HIDE DEF told
    <3>. QED
      BY <1>1, <2>4 DEF PrevRelease
  <2>. QED
    BY <2>3, <2>4
<1>3. op = "unblank" => s[fb].buffer \in Pictures
  BY DEF Planes, Pictures
<1>. DEFINE n == IF blank THEN Nothing ELSE s[fb].buffer
            f == IF blank THEN Nothing ELSE fb
<1>10. n \in Pictures /\ f \in {Nothing, "ui", "target"} /\ (blank => n = Nothing)
       /\ n = (IF op = "unblank" THEN s[fb].buffer ELSE Nothing)
  BY <1>3 DEF Pictures
<1>11. done = [pass EXCEPT !.osd.fb = f, !.drv.next = n]
  OBVIOUS
<1>4. /\ done \in Planes /\ done.osd.blank = blank /\ done.ui = pass.ui /\ done.target = s.target
      /\ done.cursor = s.cursor /\ done.video = s.video /\ done.hdr = s.hdr
      /\ done.drv = [s.drv EXCEPT !.next = n]
  <2>1. pass.osd.blank = blank
    BY <1>1, <1>2
  <2>2. pass.drv \in Drivers /\ pass.osd \in [blank : BOOLEAN, fb : {Nothing, "ui", "target"}]
    BY <1>2 DEF Planes
  <2>. HIDE DEF n, f, pass, done
  <2>3. done = [pass EXCEPT !.osd = [pass.osd EXCEPT !.fb = f], !.drv = [pass.drv EXCEPT !.next = n]]
    BY <1>2, <1>11 DEF Planes
  <2>4. [pass.osd EXCEPT !.fb = f] \in [blank : BOOLEAN, fb : {Nothing, "ui", "target"}]
        /\ [pass.osd EXCEPT !.fb = f].blank = pass.osd.blank
        /\ [pass.drv EXCEPT !.next = n] \in Drivers
    BY <1>10, <2>2 DEF Drivers
  <2>. HIDE DEF blank
  <2>. QED
    BY <1>2, <2>1, <2>3, <2>4 DEF Planes
<1>5. s.drv \in Drivers
  BY DEF Planes
<1>6. /\ SameBuffers(done, s) /\ SameFlips(done, s) /\ SameCursor(done, s) /\ SameVideo(done, s)
      /\ SameHdr(done, s) /\ done.ui.fence \in {s.ui.fence, s.drv.made + 1} /\ OsdTold(done)
      /\ done.drv.next = IF op = "unblank" THEN s[fb].buffer ELSE Nothing
  <2>. HIDE DEF done, n, pass, blank
  <2>. QED
    BY <1>2, <1>4, <1>5, <1>10
       DEF SameBuffers, SameFlips, SameCursor, SameVideo, SameHdr, OsdTold, Drivers
<1>7. CASE blank /\ s.osd.blank
  <2>1. r = s
    BY <1>7 DEF OsdSetPlane
  <2>. QED
    BY <1>7, <2>1 DEF SameBuffers, SameFlips, SameCursor, SameVideo, SameHdr, OsdTold
<1>8. CASE ~(blank /\ s.osd.blank) /\ "osd" \in no
  <2>1. r = told
    BY <1>8 DEF OsdSetPlane
  <2>. QED
    BY <1>1, <1>8, <2>1 DEF SameBuffers, SameFlips, SameCursor, SameVideo, SameHdr, OsdTold
<1>9. CASE ~(blank /\ s.osd.blank) /\ "osd" \notin no
  <2>1. r = done
    BY <1>9 DEF OsdSetPlane
  <2>. QED
    BY <1>4, <1>6, <2>1
<1>. QED
  BY <1>7, <1>8, <1>9

LEMMA CursorSet ==
    ASSUME NEW s \in Planes, NEW c \in {Nothing} \cup Cursors, NEW op, NEW no, NEW r,
           r = CursorSetPlane(s, c, op, no)
    PROVE  /\ r \in Planes
           /\ SameBuffers(r, s) /\ SameFlips(r, s) /\ SameOsd(r, s) /\ SameVideo(r, s)
           /\ SameHdr(r, s)
           /\ no = {} /\ CursorTold(s) =>
                  /\ CursorTold(r) /\ r.drv.cursor = (op = "unblank")
                  /\ c # Nothing => r.drv.at = c.at /\ r.drv.rot = c.rot
<1>. DEFINE copied == updateCursorBuffer(s, c)
            placed == IF c = Nothing THEN s ELSE setCursorPosition(copied, c, no)
            blank == op # "unblank"
            done == [placed EXCEPT !.cursor.blank = blank, !.drv.cursor = ~blank]
<1>1. c # Nothing => c.at \in Sites /\ c.rot \in Rots /\ c.size \in Sizes /\ c.image \in Images
  BY DEF Sites, Rots, Sizes, Images
<1>2. s.drv \in Drivers /\ s.cursor \in CursorState
  BY DEF Planes
<1>3. ASSUME c # Nothing
      PROVE  /\ copied \in Planes
             /\ copied.drv = [s.drv EXCEPT !.image = copied.drv.image]
             /\ copied.cursor = [s.cursor EXCEPT !.size = copied.cursor.size]
             /\ copied.ui = s.ui /\ copied.target = s.target /\ copied.osd = s.osd
             /\ copied.video = s.video /\ copied.hdr = s.hdr
  <2>. DEFINE cursor == [s.cursor EXCEPT !.size = c.size]
              drv == [s.drv EXCEPT !.image = c.image]
  <2>1. cursor \in CursorState /\ drv \in Drivers /\ cursor.size = c.size /\ drv.image = c.image
    BY <1>1, <1>2, <1>3 DEF CursorState, Drivers
  <2>2. CASE s.cursor.size = c.size
    <3>1. copied = s
      BY <2>2 DEF updateCursorBuffer
    <3>2. [s.drv EXCEPT !.image = s.drv.image] = s.drv
          /\ [s.cursor EXCEPT !.size = s.cursor.size] = s.cursor
      BY <1>2 DEF Drivers, CursorState
    <3>. QED
      BY <3>1, <3>2
  <2>3. CASE s.cursor.size # c.size
    <3>1. copied = [s EXCEPT !.cursor = cursor, !.drv = drv]
      BY <2>3 DEF updateCursorBuffer, Planes
    <3>. HIDE DEF copied
    <3>2. /\ copied \in Planes /\ copied.drv = drv /\ copied.cursor = cursor
          /\ copied.ui = s.ui /\ copied.target = s.target /\ copied.osd = s.osd
          /\ copied.video = s.video /\ copied.hdr = s.hdr
      <4>. HIDE DEF cursor, drv
      <4>. QED
        BY <2>1, <3>1 DEF Planes
    <3>. QED
      BY <2>1, <3>2
  <2>. QED
    BY <2>2, <2>3
<1>4. ASSUME c # Nothing
      PROVE  /\ placed \in Planes
             /\ placed.ui = s.ui /\ placed.target = s.target /\ placed.osd = s.osd
             /\ placed.video = s.video /\ placed.hdr = s.hdr
             /\ placed.cursor.rot = c.rot /\ placed.cursor.blank = s.cursor.blank
             /\ placed.drv = [copied.drv EXCEPT !.at = placed.drv.at, !.rot = placed.drv.rot]
             /\ no = {} /\ s.drv.rot = s.cursor.rot =>
                    placed.drv.at = c.at /\ placed.drv.rot = c.rot
  <2>1. copied.drv \in Drivers /\ copied.cursor \in CursorState
    BY <1>3, <1>4 DEF Planes
  <2>2. copied.drv.rot = s.drv.rot /\ copied.cursor.rot = s.cursor.rot
        /\ copied.cursor.blank = s.cursor.blank
    BY <1>2, <1>3, <1>4 DEF Drivers, CursorState
  <2>. DEFINE at == IF "cursor" \in no THEN copied.drv.at ELSE c.at
              rot == IF copied.cursor.rot = c.rot \/ "cursor" \in no THEN copied.drv.rot
                     ELSE c.rot
              drv == [copied.drv EXCEPT !.at = at, !.rot = rot]
              cursor == [copied.cursor EXCEPT !.rot = c.rot]
  <2>3. at \in Sites /\ rot \in Rots
    BY <1>1, <1>4, <2>1 DEF Drivers
  <2>4. no = {} /\ s.drv.rot = s.cursor.rot => at = c.at /\ rot = c.rot
    BY <2>2
  <2>5. placed = [copied EXCEPT !.drv = drv, !.cursor = cursor]
    BY <1>3, <1>4 DEF setCursorPosition, Planes
  <2>. HIDE DEF at, rot, placed, copied
  <2>6. drv \in Drivers /\ drv.at = at /\ drv.rot = rot
    BY <2>1, <2>3 DEF Drivers
  <2>7. cursor \in CursorState /\ cursor.rot = c.rot /\ cursor.blank = copied.cursor.blank
    BY <1>1, <1>4, <2>1 DEF CursorState
  <2>8. /\ placed \in Planes /\ placed.drv = drv /\ placed.cursor = cursor
        /\ placed.ui = copied.ui /\ placed.target = copied.target /\ placed.osd = copied.osd
        /\ placed.video = copied.video /\ placed.hdr = copied.hdr
    <3>. HIDE DEF drv, cursor
    <3>. QED
      BY <1>3, <1>4, <2>5, <2>6, <2>7 DEF Planes
  <2>. QED
    BY <1>3, <1>4, <2>2, <2>4, <2>6, <2>7, <2>8
<1>5. /\ placed \in Planes
      /\ SameBuffers(placed, s) /\ SameFlips(placed, s) /\ SameOsd(placed, s)
      /\ SameVideo(placed, s) /\ SameHdr(placed, s)
      /\ placed.cursor.blank = s.cursor.blank /\ placed.drv.cursor = s.drv.cursor
      /\ no = {} /\ CursorTold(s) =>
             /\ placed.drv.rot = placed.cursor.rot
             /\ c # Nothing => placed.drv.at = c.at /\ placed.drv.rot = c.rot
  <2>1. CASE c = Nothing
    BY <2>1 DEF SameBuffers, SameFlips, SameOsd, SameVideo, SameHdr, CursorTold
  <2>2. CASE c # Nothing
    <3>1. copied.drv \in Drivers
      BY <1>3, <2>2 DEF Planes
    <3>2. /\ SameFlips(placed, s) /\ placed.drv.next = s.drv.next
          /\ placed.drv.muted = s.drv.muted /\ placed.drv.disable = s.drv.disable
          /\ placed.drv.axis = s.drv.axis /\ placed.drv.hdr = s.drv.hdr
          /\ placed.drv.cursor = s.drv.cursor
      <4>. DEFINE a == placed.drv.at
                  b == placed.drv.rot
                  i == copied.drv.image
      <4>1. placed.drv = [copied.drv EXCEPT !.at = a, !.rot = b]
        BY <1>4, <2>2
      <4>2. copied.drv = [s.drv EXCEPT !.image = i]
        BY <1>3, <2>2
      <4>. HIDE DEF placed, copied, a, b, i
      <4>. QED
        BY <1>2, <3>1, <4>1, <4>2 DEF Drivers, SameFlips
    <3>. HIDE DEF placed, copied
    <3>. QED
      BY <1>4, <2>2, <3>2 DEF SameBuffers, SameOsd, SameVideo, SameHdr, CursorTold
  <2>. QED
    BY <2>1, <2>2
<1>6. CASE placed.cursor.blank = blank \/ "cursor" \in no
  <2>1. r = placed
    BY <1>6 DEF CursorSetPlane
  <2>. HIDE DEF placed
  <2>. QED
    BY <1>5, <1>6, <2>1 DEF CursorTold
<1>7. CASE ~(placed.cursor.blank = blank \/ "cursor" \in no)
  <2>1. r = done
    BY <1>7 DEF CursorSetPlane
  <2>. HIDE DEF placed
  <2>2. placed.drv \in Drivers /\ placed.cursor \in CursorState
    BY <1>5 DEF Planes
  <2>3. /\ done \in Planes /\ done.ui = placed.ui /\ done.target = placed.target
        /\ done.osd = placed.osd /\ done.video = placed.video /\ done.hdr = placed.hdr
        /\ done.cursor = [placed.cursor EXCEPT !.blank = blank]
        /\ done.drv = [placed.drv EXCEPT !.cursor = ~blank]
    <3>. DEFINE cursor == [placed.cursor EXCEPT !.blank = blank]
                drv == [placed.drv EXCEPT !.cursor = ~blank]
    <3>1. cursor \in CursorState /\ drv \in Drivers
      <4>. DEFINE shows == ~blank
      <4>1. blank \in BOOLEAN /\ shows \in BOOLEAN
        OBVIOUS
      <4>. HIDE DEF blank, shows
      <4>2. [placed.drv EXCEPT !.cursor = shows] \in Drivers
        BY <2>2, <4>1 DEF Drivers
      <4>3. [placed.cursor EXCEPT !.blank = blank] \in CursorState
        BY <2>2, <4>1 DEF CursorState
      <4>. QED
        BY <4>2, <4>3 DEF shows
    <3>2. done = [placed EXCEPT !.cursor = cursor, !.drv = drv]
      BY <1>5 DEF Planes
    <3>. HIDE DEF cursor, drv, done
    <3>3. /\ done \in Planes /\ done.ui = placed.ui /\ done.target = placed.target
          /\ done.osd = placed.osd /\ done.video = placed.video /\ done.hdr = placed.hdr
          /\ done.cursor = cursor /\ done.drv = drv
      BY <1>5, <3>1, <3>2 DEF Planes
    <3>. QED
      BY <3>3 DEF cursor, drv
  <2>4. /\ done.cursor.blank = blank /\ done.cursor.rot = placed.cursor.rot
        /\ done.drv.cursor = ~blank /\ SameFlips(done, placed) /\ SameOsd(done, placed)
        /\ SameVideo(done, placed) /\ SameHdr(done, placed) /\ SameBuffers(done, placed)
        /\ done.drv.at = placed.drv.at /\ done.drv.rot = placed.drv.rot
    <3>. HIDE DEF done
    <3>. QED
      BY <2>2, <2>3 DEF SameFlips, SameOsd, SameVideo, SameHdr, SameBuffers, Drivers, CursorState
  <2>5. blank \in BOOLEAN /\ blank = (op # "unblank")
    OBVIOUS
  <2>. HIDE DEF done, blank
  <2>6. /\ SameBuffers(done, s) /\ SameFlips(done, s) /\ SameOsd(done, s) /\ SameVideo(done, s)
        /\ SameHdr(done, s)
    BY <1>5, <2>4 DEF SameFlips, SameOsd, SameVideo, SameHdr, SameBuffers
  <2>7. no = {} /\ CursorTold(s) => CursorTold(done) /\ done.drv.cursor = (op = "unblank")
    BY <1>5, <2>4, <2>5 DEF CursorTold
  <2>8. no = {} /\ CursorTold(s) /\ c # Nothing => done.drv.at = c.at /\ done.drv.rot = c.rot
    BY <1>5, <2>4
  <2>. QED
    BY <2>1, <2>3, <2>6, <2>7, <2>8
<1>. QED
  BY <1>6, <1>7

-----------------------------------------------------------------------------
(* The video plane and its driver change, in one or two of their fields each.  *)

Elsewhere(r, s) ==
    /\ SameBuffers(r, s) /\ SameFlips(r, s) /\ SameOsd(r, s) /\ SameCursor(r, s)
    /\ SameHdr(r, s)

AxisOf(v) == [win |-> v.win, rot |-> v.rot]

(* Of the drivers, the video's may have changed.                             *)
VideoDrivers(d, e) ==
    /\ d.next = e.next /\ d.queue = e.queue /\ d.shown = e.shown /\ d.made = e.made
    /\ d.done = e.done /\ d.cursor = e.cursor /\ d.at = e.at /\ d.rot = e.rot /\ d.hdr = e.hdr

VideoOnly(r, s) ==
    /\ r.ui = s.ui /\ r.target = s.target /\ r.osd = s.osd /\ r.cursor = s.cursor
    /\ r.hdr = s.hdr /\ VideoDrivers(r.drv, s.drv)

LEMMA VideoChanges == ASSUME NEW r, NEW s, VideoOnly(r, s) PROVE Elsewhere(r, s)
  BY DEF Elsewhere, SameBuffers, SameFlips, SameOsd, SameCursor, SameHdr, VideoDrivers, VideoOnly

LEMMA VideoFields ==
    ASSUME NEW s \in Planes
    PROVE  /\ s.video \in VideoState /\ s.drv \in Drivers /\ s.drv.muted \in BOOLEAN
           /\ s.drv.disable \in 0 .. 2 /\ s.drv.axis \in {[win |-> Nothing, rot |-> 0]} \cup Axes
           /\ s.video.mute \in BOOLEAN /\ s.video.axis \in {NoAxis} \cup Axes
           /\ s.video.type \in {"undefined"} \cup {v.type : v \in Videos}
<1>1. s.video \in VideoState /\ s.drv \in Drivers
  BY DEF Planes
<1>. QED
  BY <1>1 DEF VideoState, Drivers

LEMMA VideoInput ==
    ASSUME NEW v \in Videos
    PROVE  /\ v.type # "undefined" /\ v.type \in {"undefined"} \cup {w.type : w \in Videos}
           /\ AxisOf(v) \in Axes /\ AxisOf(v) # NoAxis
<1>1. PICK scene \in Scenes : v = scene.video /\ scene.video # Nothing
  BY DEF Videos
<1>2. v.type # "undefined" /\ v.rot # 255
  BY <1>1, FbAssumption
<1>3. AxisOf(v).rot = v.rot /\ NoAxis.rot = 255
  BY DEF AxisOf, NoAxis
<1>4. AxisOf(v) \in Axes
  BY DEF AxisOf, Axes
<1>5. v.type \in {"undefined"} \cup {w.type : w \in Videos}
  OBVIOUS
<1>. QED
  BY <1>2, <1>3, <1>4, <1>5

LEMMA NewVideo ==
    ASSUME NEW s \in Planes, NEW v \in Videos, NEW r, r = newVideo(s, v)
    PROVE  /\ r \in Planes /\ Elsewhere(r, s) /\ r.video.type = v.type
           /\ r.video.mute = s.video.mute /\ r.video.axis = s.video.axis
           /\ r.drv.muted = s.drv.muted /\ r.drv.axis = s.drv.axis
<1>. DEFINE disable == IF s.video.type = "omx" /\ v.type # "omx" THEN 2 ELSE s.drv.disable
            video == [s.video EXCEPT !.type = v.type]
<1>1. disable \in 0 .. 2
  BY VideoFields
<1>2. /\ video \in VideoState /\ video.type = v.type /\ video.mute = s.video.mute
      /\ video.axis = s.video.axis
  BY VideoFields, VideoInput DEF VideoState
<1>3. r = [s EXCEPT !.video = video, !.drv = [s.drv EXCEPT !.disable = disable]]
  BY DEF newVideo, Planes
<1>. HIDE DEF disable, video
<1>4. PICK video1, drv : video1 = video /\ drv = [s.drv EXCEPT !.disable = disable]
  OBVIOUS
<1>5. /\ drv \in Drivers /\ VideoDrivers(drv, s.drv) /\ drv.muted = s.drv.muted
      /\ drv.axis = s.drv.axis
  BY <1>1, <1>4, VideoFields DEF Drivers, VideoDrivers
<1>6. r = [s EXCEPT !.video = video1, !.drv = drv] /\ video1 \in VideoState
  BY <1>2, <1>3, <1>4
<1>7. r \in Planes /\ Elsewhere(r, s) /\ r.video = video1 /\ r.drv = drv
  <2>1. r \in Planes /\ r.video = video1 /\ r.drv = drv /\ VideoOnly(r, s)
    BY <1>5, <1>6 DEF Planes, VideoOnly
  <2>. QED
    BY <2>1, VideoChanges
<1>. QED
  BY <1>2, <1>4, <1>5, <1>7

LEMMA SetAxis ==
    ASSUME NEW s \in Planes, NEW v \in Videos, NEW no, NEW r, r = setAxis(s, v, no)
    PROVE  /\ r \in Planes /\ Elsewhere(r, s) /\ r.video.type = s.video.type
           /\ r.video.mute = s.video.mute /\ r.drv.muted = s.drv.muted
           /\ r.drv.disable = s.drv.disable
           /\ no = {} /\ (s.video.axis # NoAxis => s.drv.axis = s.video.axis) =>
                  r.video.axis = AxisOf(v) /\ r.drv.axis = AxisOf(v)
<1>1. CASE s.video.axis = AxisOf(v)
  <2>1. r = s
    BY <1>1 DEF setAxis, shouldUpdateAxis, AxisOf
  <2>. QED
    BY <1>1, <2>1, VideoInput DEF Elsewhere, SameBuffers, SameFlips, SameOsd, SameCursor, SameHdr
<1>2. CASE s.video.axis # AxisOf(v)
  <2>. DEFINE axis == IF "axis" \in no THEN s.drv.axis ELSE AxisOf(v)
              video == [s.video EXCEPT !.axis = AxisOf(v)]
  <2>1. axis \in {[win |-> Nothing, rot |-> 0]} \cup Axes /\ (no = {} => axis = AxisOf(v))
    BY VideoFields, VideoInput
  <2>2. /\ video \in VideoState /\ video.type = s.video.type /\ video.mute = s.video.mute
        /\ video.axis = AxisOf(v)
    BY VideoFields, VideoInput DEF VideoState
  <2>3. r = [s EXCEPT !.video = video, !.drv = [s.drv EXCEPT !.axis = axis]]
    BY <1>2 DEF setAxis, shouldUpdateAxis, AxisOf, Planes
  <2>. HIDE DEF axis, video
  <2>4. PICK video1, drv : video1 = video /\ drv = [s.drv EXCEPT !.axis = axis]
    OBVIOUS
  <2>5. /\ drv \in Drivers /\ VideoDrivers(drv, s.drv) /\ drv.muted = s.drv.muted
        /\ drv.disable = s.drv.disable /\ drv.axis = axis
    BY <2>1, <2>4, VideoFields DEF Drivers, VideoDrivers
  <2>6. r = [s EXCEPT !.video = video1, !.drv = drv] /\ video1 \in VideoState
    BY <2>2, <2>3, <2>4
  <2>7. r \in Planes /\ Elsewhere(r, s) /\ r.video = video1 /\ r.drv = drv
    <3>1. r \in Planes /\ r.video = video1 /\ r.drv = drv /\ VideoOnly(r, s)
      BY <2>5, <2>6 DEF Planes, VideoOnly
    <3>. QED
      BY <3>1, VideoChanges
  <2>. QED
    BY <2>1, <2>2, <2>4, <2>5, <2>7
<1>. QED
  BY <1>1, <1>2

LEMMA SetMute ==
    ASSUME NEW s \in Planes, NEW status \in BOOLEAN, NEW no, NEW r, r = setMute(s, status, no)
    PROVE  /\ r \in Planes /\ Elsewhere(r, s) /\ r.video.type = s.video.type
           /\ r.video.axis = s.video.axis /\ r.drv.axis = s.drv.axis
           /\ r.drv.disable = s.drv.disable
           /\ no = {} /\ s.video.mute = s.drv.muted => r.video.mute = status /\ r.drv.muted = status
<1>1. CASE s.video.mute = status \/ "mute" \in no
  <2>1. r = s
    BY <1>1 DEF setMute
  <2>. QED
    BY <1>1, <2>1 DEF Elsewhere, SameBuffers, SameFlips, SameOsd, SameCursor, SameHdr
<1>2. CASE ~(s.video.mute = status \/ "mute" \in no)
  <2>. DEFINE video == [s.video EXCEPT !.mute = status]
  <2>1. /\ video \in VideoState /\ video.type = s.video.type /\ video.mute = status
        /\ video.axis = s.video.axis
    BY VideoFields DEF VideoState
  <2>2. r = [s EXCEPT !.video = video, !.drv = [s.drv EXCEPT !.muted = status]]
    BY <1>2 DEF setMute, Planes
  <2>. HIDE DEF video
  <2>3. PICK video1, drv : video1 = video /\ drv = [s.drv EXCEPT !.muted = status]
    OBVIOUS
  <2>4. /\ drv \in Drivers /\ VideoDrivers(drv, s.drv) /\ drv.muted = status
        /\ drv.disable = s.drv.disable /\ drv.axis = s.drv.axis
    BY <2>3, VideoFields DEF Drivers, VideoDrivers
  <2>5. r = [s EXCEPT !.video = video1, !.drv = drv] /\ video1 \in VideoState
    BY <2>1, <2>2, <2>3
  <2>6. r \in Planes /\ Elsewhere(r, s) /\ r.video = video1 /\ r.drv = drv
    <3>1. r \in Planes /\ r.video = video1 /\ r.drv = drv /\ VideoOnly(r, s)
      BY <2>4, <2>5 DEF Planes, VideoOnly
    <3>. QED
      BY <3>1, VideoChanges
  <2>. QED
    BY <2>1, <2>3, <2>4, <2>6
<1>. QED
  BY <1>1, <1>2

LEMMA SetDisable ==
    ASSUME NEW s \in Planes, NEW op, NEW keeps \in BOOLEAN, NEW r, r = setDisable(s, op, keeps)
    PROVE  /\ r \in Planes /\ Elsewhere(r, s) /\ r.video = s.video
           /\ r.drv.axis = s.drv.axis /\ r.drv.muted = s.drv.muted
           /\ op = "unblank" /\ (s.video.type = "overlay" \/ keeps) => r.drv.disable # 1
<1>. DEFINE disable == s.drv.disable
            next == CASE op = "none" /\ disable \in {0, 2} -> 1
                      [] op = "unblank" /\ s.video.type = "overlay" -> 0
                      [] op = "unblank" /\ s.video.type # "overlay" /\ disable = 1 -> 2
                      [] OTHER -> disable
<1>1. next \in 0 .. 2 /\ (op = "unblank" => next # 1)
  BY VideoFields
<1>2. CASE s.video.type = "overlay" \/ keeps
  <2>1. r = [s EXCEPT !.drv.disable = next]
    BY <1>2 DEF setDisable
  <2>. HIDE DEF next
  <2>2. r = [s EXCEPT !.video = s.video, !.drv = [s.drv EXCEPT !.disable = next]]
    BY <2>1 DEF Planes
  <2>3. PICK video, drv : video = s.video /\ drv = [s.drv EXCEPT !.disable = next]
    OBVIOUS
  <2>4. /\ drv \in Drivers /\ VideoDrivers(drv, s.drv) /\ drv.muted = s.drv.muted
        /\ drv.disable = next /\ drv.axis = s.drv.axis
    BY <1>1, <2>3, VideoFields DEF Drivers, VideoDrivers
  <2>5. r = [s EXCEPT !.video = video, !.drv = drv] /\ video \in VideoState
    BY <2>2, <2>3, VideoFields
  <2>6. r \in Planes /\ Elsewhere(r, s) /\ r.video = video /\ r.drv = drv
    <3>1. r \in Planes /\ r.video = video /\ r.drv = drv /\ VideoOnly(r, s)
      BY <2>4, <2>5 DEF Planes, VideoOnly
    <3>. QED
      BY <3>1, VideoChanges
  <2>. QED
    BY <1>1, <2>3, <2>4, <2>6
<1>3. CASE ~(s.video.type = "overlay" \/ keeps)
  <2>1. r = s
    BY <1>3 DEF setDisable
  <2>. QED
    BY <1>3, <2>1 DEF Elsewhere, SameBuffers, SameFlips, SameOsd, SameCursor, SameHdr
<1>. QED
  BY <1>2, <1>3

LEMMA ElsewhereOn ==
    ASSUME NEW a, NEW b, NEW c, Elsewhere(b, a), Elsewhere(c, b)
    PROVE  Elsewhere(c, a)
  BY DEF Elsewhere, SameBuffers, SameFlips, SameOsd, SameCursor, SameHdr

LEMMA VideoSet ==
    ASSUME keep \in BOOLEAN, NEW s \in Planes, NEW v \in {Nothing} \cup Videos,
           NEW op \in {"none", "secure", "unblank"}, (v = Nothing) = (op = "none"), NEW no, NEW r,
           r = VideoSetPlane(s, v, op, no)
    PROVE  /\ r \in Planes /\ Elsewhere(r, s)
           /\ no = {} /\ VideoTold(s) =>
                  /\ VideoTold(r)
                  /\ v = Nothing => /\ r.video.type = "undefined"
                                    /\ s.video.type = "undefined" => r.drv.muted = s.drv.muted
                                    /\ s.video.type # "undefined" => r.drv.muted
                  /\ v # Nothing => /\ r.video.type # "undefined"
                                    /\ r.drv.muted = (op # "unblank") /\ r.drv.axis = AxisOf(v)
                                    /\ op = "unblank" /\ (v.type = "overlay" \/ keep) =>
                                           r.drv.disable # 1
<1>1. PICK fb : fb = IF v = Nothing THEN s ELSE setAxis(newVideo(s, v), v, no)
  OBVIOUS
<1>2. /\ fb \in Planes /\ Elsewhere(fb, s)
      /\ v = Nothing => fb = s
      /\ v # Nothing => fb.video.type = v.type /\ v.type # "undefined"
      /\ no = {} /\ VideoTold(s) =>
             /\ VideoTold(fb)
             /\ v # Nothing => fb.video.axis = AxisOf(v) /\ fb.drv.axis = AxisOf(v)
  <2>1. CASE v = Nothing
    BY <1>1, <2>1 DEF Elsewhere, SameBuffers, SameFlips, SameOsd, SameCursor, SameHdr
  <2>2. CASE v # Nothing
    <3>1. v \in Videos
      BY <2>2
    <3>2. PICK a : a = newVideo(s, v)
      OBVIOUS
    <3>3. /\ a \in Planes /\ Elsewhere(a, s) /\ a.video.type = v.type
          /\ a.video.mute = s.video.mute /\ a.video.axis = s.video.axis
          /\ a.drv.muted = s.drv.muted /\ a.drv.axis = s.drv.axis
      BY <3>1, <3>2, NewVideo
    <3>4. fb = setAxis(a, v, no)
      BY <1>1, <2>2, <3>2
    <3>5. /\ fb \in Planes /\ Elsewhere(fb, a) /\ fb.video.type = a.video.type
          /\ fb.video.mute = a.video.mute /\ fb.drv.muted = a.drv.muted
          /\ no = {} /\ (a.video.axis # NoAxis => a.drv.axis = a.video.axis) =>
                 fb.video.axis = AxisOf(v) /\ fb.drv.axis = AxisOf(v)
      BY <3>1, <3>3, <3>4, SetAxis
    <3>. QED
      BY <2>2, <3>1, <3>3, <3>5, ElsewhereOn, VideoInput DEF VideoTold
  <2>. QED
    BY <2>1, <2>2
<1>3. PICK status \in BOOLEAN : status = (op # "unblank")
  OBVIOUS
<1>4. PICK muted : muted = setMute(fb, status, no)
  OBVIOUS
<1>5. /\ muted \in Planes /\ Elsewhere(muted, fb) /\ muted.video.type = fb.video.type
      /\ muted.video.axis = fb.video.axis /\ muted.drv.axis = fb.drv.axis
      /\ no = {} /\ fb.video.mute = fb.drv.muted =>
             muted.video.mute = status /\ muted.drv.muted = status
  BY <1>2, <1>4, SetMute
<1>6. PICK done : done = setDisable(muted, op, keep)
  OBVIOUS
<1>7. /\ done \in Planes /\ Elsewhere(done, muted) /\ done.video = muted.video
      /\ done.drv.axis = muted.drv.axis /\ done.drv.muted = muted.drv.muted
      /\ op = "unblank" /\ (muted.video.type = "overlay" \/ keep) => done.drv.disable # 1
  BY <1>5, <1>6, SetDisable
<1>8. PICK last : last = [done EXCEPT !.video.type = "undefined", !.video.axis = NoAxis]
  OBVIOUS
<1>9. /\ last \in Planes /\ Elsewhere(last, done) /\ last.video.type = "undefined"
      /\ last.video.axis = NoAxis /\ last.video.mute = done.video.mute
      /\ last.drv.muted = done.drv.muted
  <2>. DEFINE video == [done.video EXCEPT !.type = "undefined", !.axis = NoAxis]
  <2>1. done \in Planes
    BY <1>7
  <2>2. /\ video \in VideoState /\ video.type = "undefined" /\ video.mute = done.video.mute
        /\ video.axis = NoAxis
    BY <2>1, VideoFields DEF VideoState
  <2>3. last = [done EXCEPT !.video = video, !.drv = done.drv]
    BY <1>8, <2>1 DEF Planes
  <2>. HIDE DEF video
  <2>4. PICK video1, drv : video1 = video /\ drv = done.drv
    OBVIOUS
  <2>5. drv \in Drivers /\ VideoDrivers(drv, done.drv)
    BY <2>1, <2>4, VideoFields DEF VideoDrivers
  <2>6. last = [done EXCEPT !.video = video1, !.drv = drv] /\ video1 \in VideoState
    BY <2>2, <2>3, <2>4
  <2>7. last \in Planes /\ Elsewhere(last, done) /\ last.video = video1 /\ last.drv = drv
    <3>1. last \in Planes /\ last.video = video1 /\ last.drv = drv /\ VideoOnly(last, done)
      BY <2>1, <2>5, <2>6 DEF Planes, VideoOnly
    <3>. QED
      BY <3>1, VideoChanges
  <2>. QED
    BY <2>2, <2>4, <2>7
<1>10. CASE fb.video.type = "undefined"
  <2>1. r = fb /\ v = Nothing
    BY <1>1, <1>2, <1>10 DEF VideoSetPlane
  <2>. QED
    BY <1>2, <1>10, <2>1
<1>11. CASE fb.video.type # "undefined" /\ op = "secure"
  <2>1. r = muted
    BY <1>1, <1>3, <1>4, <1>11 DEF VideoSetPlane
  <2>. QED
    BY <1>2, <1>3, <1>5, <1>11, <2>1, ElsewhereOn DEF VideoTold
<1>12. CASE fb.video.type # "undefined" /\ op = "unblank"
  <2>1. r = done
    BY <1>1, <1>3, <1>4, <1>6, <1>12 DEF VideoSetPlane
  <2>2. Elsewhere(done, s)
    BY <1>2, <1>5, <1>7, ElsewhereOn
  <2>. QED
    BY <1>2, <1>3, <1>5, <1>7, <1>12, <2>1, <2>2 DEF VideoTold
<1>13. CASE fb.video.type # "undefined" /\ op = "none"
  <2>1. r = last
    BY <1>1, <1>3, <1>4, <1>6, <1>8, <1>13 DEF VideoSetPlane
  <2>2. Elsewhere(last, s)
    BY <1>2, <1>5, <1>7, <1>9, ElsewhereOn
  <2>. QED
    BY <1>2, <1>3, <1>5, <1>7, <1>9, <1>13, <2>1, <2>2 DEF VideoTold
<1>. QED
  BY <1>10, <1>11, <1>12, <1>13

-----------------------------------------------------------------------------
(* The crtc                                                                  *)

LEMMA HdrSet ==
    ASSUME NEW s \in Planes, NEW hdr \in {Nothing} \cup Hdrs, NEW r, r = setHdrMetadata(s, hdr)
    PROVE  /\ r \in Planes
           /\ SameBuffers(r, s) /\ SameFlips(r, s) /\ SameOsd(r, s) /\ SameCursor(r, s)
           /\ SameVideo(r, s)
           /\ HdrTold(s) => HdrTold(r) /\ (hdr # Nothing /\ r.hdr # "zero" => r.drv.hdr = hdr)
<1>1. hdr # Nothing => hdr \in Hdrs /\ hdr \notin {"zero", "junk"}
  BY FbAssumption DEF Hdrs
<1>2. CASE hdr = Nothing \/ s.hdr \in {"zero", hdr}
  <2>1. r = s
    BY <1>2 DEF setHdrMetadata
  <2>. QED
    BY <1>1, <1>2, <2>1
       DEF SameBuffers, SameFlips, SameOsd, SameCursor, SameVideo, HdrTold
<1>3. CASE ~(hdr = Nothing \/ s.hdr \in {"zero", hdr})
  <2>1. PICK drv : drv = [s.drv EXCEPT !.hdr = hdr]
    OBVIOUS
  <2>2. s.drv \in Drivers
    BY DEF Planes
  <2>3. /\ drv \in Drivers /\ drv.hdr = hdr /\ drv.next = s.drv.next /\ drv.queue = s.drv.queue
        /\ drv.shown = s.drv.shown /\ drv.made = s.drv.made /\ drv.done = s.drv.done
        /\ drv.cursor = s.drv.cursor /\ drv.at = s.drv.at /\ drv.rot = s.drv.rot
        /\ drv.muted = s.drv.muted /\ drv.disable = s.drv.disable /\ drv.axis = s.drv.axis
    BY <1>1, <1>3, <2>1, <2>2 DEF Drivers
  <2>4. r = [s EXCEPT !.hdr = hdr, !.drv = drv]
    BY <1>3, <2>1 DEF setHdrMetadata, Planes
  <2>5. /\ r \in Planes /\ r.hdr = hdr /\ r.drv = drv /\ r.ui = s.ui /\ r.target = s.target
        /\ r.osd = s.osd /\ r.cursor = s.cursor /\ r.video = s.video
    BY <1>1, <1>3, <2>3, <2>4 DEF Planes
  <2>. QED
    BY <2>3, <2>5 DEF SameBuffers, SameFlips, SameOsd, SameCursor, SameVideo, HdrTold
<1>. QED
  BY <1>2, <1>3

(* The flips not yet shown are in the queue.                                 *)
FlipsCounted(s) == s.drv.made = s.drv.done + Len(s.drv.queue)

LEMMA Flipped ==
    ASSUME NEW s \in Planes, NEW no, NEW r, r = fbPageFlip(s, no)
    PROVE  /\ r \in Planes
           /\ SameBuffers(r, s) /\ SameOsd(r, s) /\ SameCursor(r, s) /\ SameVideo(r, s)
           /\ SameHdr(r, s) /\ r.drv.shown = s.drv.shown /\ r.drv.done = s.drv.done
           /\ FlipsCounted(s) => FlipsCounted(r)
           /\ no = {} => /\ r.drv.made = s.drv.made + 1 /\ r.drv.fence = s.drv.made + 1
                         /\ r.drv.queue = Append(s.drv.queue, s.drv.next)
<1>1. s.drv \in Drivers
  BY DEF Planes
<1>2. /\ s.drv.queue \in Seq(Pictures) /\ s.drv.next \in Pictures /\ s.drv.made \in Nat
      /\ s.drv.done \in Nat
  BY <1>1 DEF Drivers
<1>3. PICK drv : drv = IF "flip" \in no THEN [s.drv EXCEPT !.fence = NoFence]
                       ELSE [s.drv EXCEPT !.made = s.drv.made + 1,
                                          !.queue = Append(s.drv.queue, s.drv.next),
                                          !.fence = s.drv.made + 1]
  OBVIOUS
<1>4. /\ Append(s.drv.queue, s.drv.next) \in Seq(Pictures) /\ s.drv.made + 1 \in Nat
      /\ Len(Append(s.drv.queue, s.drv.next)) = Len(s.drv.queue) + 1
      /\ Len(s.drv.queue) \in Nat
  BY <1>2
<1>5. /\ drv \in Drivers /\ drv.next = s.drv.next /\ drv.shown = s.drv.shown
      /\ drv.done = s.drv.done /\ drv.cursor = s.drv.cursor /\ drv.at = s.drv.at
      /\ drv.rot = s.drv.rot /\ drv.muted = s.drv.muted /\ drv.disable = s.drv.disable
      /\ drv.axis = s.drv.axis /\ drv.hdr = s.drv.hdr
      /\ \/ "flip" \in no /\ drv.made = s.drv.made /\ drv.queue = s.drv.queue
         \/ /\ "flip" \notin no /\ drv.made = s.drv.made + 1 /\ drv.fence = s.drv.made + 1
            /\ drv.queue = Append(s.drv.queue, s.drv.next)
  <2>1. CASE "flip" \in no
    BY <1>1, <1>3, <2>1 DEF Drivers, NoFence
  <2>2. CASE "flip" \notin no
    <3>. DEFINE queue == Append(s.drv.queue, s.drv.next)
    <3>1. drv = [s.drv EXCEPT !.made = s.drv.made + 1, !.queue = queue, !.fence = s.drv.made + 1]
      BY <1>3, <2>2
    <3>2. queue \in Seq(Pictures)
      BY <1>4
    <3>. HIDE DEF queue
    <3>3. /\ drv \in Drivers /\ drv.next = s.drv.next /\ drv.shown = s.drv.shown
          /\ drv.done = s.drv.done /\ drv.cursor = s.drv.cursor /\ drv.at = s.drv.at
          /\ drv.rot = s.drv.rot /\ drv.muted = s.drv.muted /\ drv.disable = s.drv.disable
          /\ drv.axis = s.drv.axis /\ drv.hdr = s.drv.hdr
          /\ drv.made = s.drv.made + 1 /\ drv.fence = s.drv.made + 1 /\ drv.queue = queue
      BY <1>1, <1>4, <3>1, <3>2 DEF Drivers
    <3>. QED
      BY <2>2, <3>3 DEF queue
  <2>. QED
    BY <2>1, <2>2
<1>6. r = [s EXCEPT !.drv = drv]
  BY <1>3 DEF fbPageFlip, Planes
<1>7. /\ r \in Planes /\ r.drv = drv /\ r.ui = s.ui /\ r.target = s.target /\ r.osd = s.osd
      /\ r.cursor = s.cursor /\ r.video = s.video /\ r.hdr = s.hdr
  <2>1. drv \in Drivers
    BY <1>5
  <2>. QED
    BY <1>6, <2>1 DEF Planes
<1>8. FlipsCounted(s) => FlipsCounted(r)
  <2>1. PICK made, done, len, len1 : /\ made = s.drv.made /\ done = s.drv.done
                                     /\ len = Len(s.drv.queue) /\ len1 = Len(r.drv.queue)
    OBVIOUS
  <2>2. /\ made \in Nat /\ done \in Nat /\ len \in Nat /\ r.drv.done = done
        /\ (r.drv.made = made /\ len1 = len) \/ (r.drv.made = made + 1 /\ len1 = len + 1)
    BY <1>2, <1>4, <1>5, <1>7, <2>1
  <2>3. made = done + len => r.drv.made = r.drv.done + len1
    BY <2>2
  <2>. QED
    BY <2>1, <2>3 DEF FlipsCounted
<1>. QED
  BY <1>5, <1>7, <1>8 DEF SameBuffers, SameOsd, SameCursor, SameVideo, SameHdr

-----------------------------------------------------------------------------
(* What a frame asked for, and how it comes to be.                           *)

Follows(s, a, everPlayed) ==
    /\ s.drv.next = a.osd
    /\ s.drv.cursor = (a.cursor # Nothing)
    /\ a.cursor # Nothing => s.drv.at = a.cursor.at /\ s.drv.rot = a.cursor.rot
    /\ everPlayed => s.drv.muted = (a.video = Nothing \/ a.hidden)
    /\ a.video # Nothing => s.drv.axis = AxisOf(a.video)
    /\ a.video # Nothing /\ ~a.hidden /\ (a.video.type = "overlay" \/ keep) => s.drv.disable # 1
    /\ a.hdr # Nothing /\ s.hdr # "zero" => s.drv.hdr = a.hdr

(* Once a video was shown, the plane without one is muted.                   *)
Silent(s, everPlayed) == everPlayed /\ s.video.type = "undefined" => s.drv.muted

(* Buffers SurfaceFlinger has back and may use once their fence has signalled: *)
(* no flip from that one on shows them.                                      *)
Away(s, b, fence) ==
    /\ b # s.drv.next
    /\ b = s.drv.shown => fence > s.drv.done
    /\ \A i \in 1 .. Len(s.drv.queue) : s.drv.queue[i] = b => fence > s.drv.done + i

Returned ==
    /\ m.ui.buffer \notin DOMAIN released /\ m.target.buffer \notin DOMAIN released
    /\ ~refused => \A b \in DOMAIN released \ early : Away(m, b, released[b])

FbInv ==
    /\ FbTypeOK /\ FlipsCounted(m) /\ Returned
    /\ ~refused => Told(m) /\ Silent(m, played) /\ Follows(m, asked, played)

(* The planes set and flipped, from s, by a frame of scene.                  *)
VideoOpOf(scene) ==
    CASE scene.video = Nothing -> "none"
      [] scene.video # Nothing /\ scene.hidden -> "secure"
      [] OTHER -> "unblank"
FrameOf(s, scene, osd, no) ==
    LET onCursor == CursorSetPlane(s, scene.cursor,
                        IF scene.cursor = Nothing THEN "none" ELSE "unblank", no)
        onVideo == VideoSetPlane(onCursor, scene.video, VideoOpOf(scene), no)
        onOsd == OsdSetPlane(onVideo, osd, IF osd = Nothing THEN "none" ELSE "unblank", no)
    IN fbPageFlip(setHdrMetadata(onOsd, scene.hdr), no)
AskedOf(s, scene, osd) ==
    [scene EXCEPT !.osd = IF osd = Nothing THEN Nothing ELSE s[osd].buffer]

LEMMA SceneFields ==
    ASSUME NEW s \in Planes, NEW scene \in Scenes, NEW osd \in {Nothing, "ui", "target"}
    PROVE  /\ scene.cursor \in {Nothing} \cup Cursors /\ scene.video \in {Nothing} \cup Videos
           /\ scene.hdr \in {Nothing} \cup Hdrs /\ scene.hidden \in BOOLEAN
           /\ AskedOf(s, scene, osd) \in Scene
           /\ AskedOf(s, scene, osd).osd = (IF osd = Nothing THEN Nothing ELSE s[osd].buffer)
           /\ AskedOf(s, scene, osd).cursor = scene.cursor
           /\ AskedOf(s, scene, osd).video = scene.video
           /\ AskedOf(s, scene, osd).hidden = scene.hidden
           /\ AskedOf(s, scene, osd).hdr = scene.hdr
<1>1. /\ scene.cursor \in {Nothing} \cup Cursors /\ scene.video \in {Nothing} \cup Videos
      /\ scene.hdr \in {Nothing} \cup Hdrs /\ scene.hidden \in BOOLEAN
  BY FbAssumption DEF Cursors, Videos, Hdrs
<1>2. PICK picture : picture = IF osd = Nothing THEN Nothing ELSE s[osd].buffer
  OBVIOUS
<1>3. picture \in Pictures
  BY <1>2 DEF Planes, Pictures
<1>4. PICK c, v, h, d : c = scene.cursor /\ v = scene.video /\ h = scene.hidden /\ d = scene.hdr
  OBVIOUS
<1>5. scene = [osd |-> Nothing, cursor |-> c, video |-> v, hidden |-> h, hdr |-> d]
  BY <1>4, FbAssumption
<1>6. AskedOf(s, scene, osd) = [osd |-> picture, cursor |-> c, video |-> v, hidden |-> h, hdr |-> d]
  <2>1. AskedOf(s, scene, osd) = [scene EXCEPT !.osd = picture]
    BY <1>2 DEF AskedOf
  <2>. QED
    BY <1>5, <2>1
<1>7. AskedOf(s, scene, osd) \in Scene
  BY <1>1, <1>3, <1>4, <1>6 DEF Scene
<1>. QED
  BY <1>1, <1>2, <1>4, <1>6, <1>7

(* A frame the drivers take: what was asked, at every plane, and a fence for  *)
(* the buffer it replaces.                                                   *)
LEMMA FrameSet ==
    ASSUME keep \in BOOLEAN, NEW s \in Planes, NEW scene \in Scenes,
           NEW osd \in {Nothing, "ui", "target"}, NEW no, NEW r, r = FrameOf(s, scene, osd, no),
           NEW before \in BOOLEAN
    PROVE  /\ r \in Planes /\ SameBuffers(r, s)
           /\ r.drv.shown = s.drv.shown /\ r.drv.done = s.drv.done
           /\ FlipsCounted(s) => FlipsCounted(r)
           /\ no = {} =>
                  /\ r.ui.fence \in {s.ui.fence, s.drv.made + 1}
                  /\ r.drv.made = s.drv.made + 1 /\ r.drv.fence = s.drv.made + 1
                  /\ r.drv.queue = Append(s.drv.queue, r.drv.next)
           /\ no = {} /\ Told(s) =>
                  /\ r.drv.next = (IF osd = Nothing THEN Nothing ELSE s[osd].buffer)
                  /\ Told(r)
           /\ no = {} /\ Told(s) /\ Silent(s, before) =>
                  /\ Silent(r, before \/ scene.video # Nothing)
                  /\ Follows(r, AskedOf(s, scene, osd), before \/ scene.video # Nothing)
<1>. DEFINE cursorOp == IF scene.cursor = Nothing THEN "none" ELSE "unblank"
            osdOp == IF osd = Nothing THEN "none" ELSE "unblank"
            videoOp == VideoOpOf(scene)
<1>1. PICK a : a = CursorSetPlane(s, scene.cursor, cursorOp, no)
  OBVIOUS
<1>2. PICK b : b = VideoSetPlane(a, scene.video, videoOp, no)
  OBVIOUS
<1>3. PICK c : c = OsdSetPlane(b, osd, osdOp, no)
  OBVIOUS
<1>4. PICK d : d = setHdrMetadata(c, scene.hdr)
  OBVIOUS
<1>5. r = fbPageFlip(d, no)
  BY <1>1, <1>2, <1>3, <1>4 DEF FrameOf
<1>6. /\ scene.cursor \in {Nothing} \cup Cursors /\ scene.video \in {Nothing} \cup Videos
      /\ scene.hdr \in {Nothing} \cup Hdrs /\ scene.hidden \in BOOLEAN
  BY SceneFields
<1>7. /\ a \in Planes
      /\ SameBuffers(a, s) /\ SameFlips(a, s) /\ SameOsd(a, s) /\ SameVideo(a, s)
      /\ SameHdr(a, s)
      /\ no = {} /\ CursorTold(s) =>
             /\ CursorTold(a) /\ a.drv.cursor = (cursorOp = "unblank")
             /\ scene.cursor # Nothing => a.drv.at = scene.cursor.at /\ a.drv.rot = scene.cursor.rot
  BY <1>1, <1>6, CursorSet
<1>8. /\ videoOp \in {"none", "secure", "unblank"} /\ (scene.video = Nothing) = (videoOp = "none")
      /\ scene.video # Nothing => (videoOp # "unblank") = scene.hidden
  <2>1. CASE scene.video = Nothing
    <3>1. videoOp = "none"
      BY <2>1 DEF VideoOpOf
    <3>. QED
      BY <2>1, <3>1
  <2>2. CASE scene.video # Nothing /\ scene.hidden
    <3>1. videoOp = "secure"
      BY <2>2 DEF VideoOpOf
    <3>. QED
      BY <2>2, <3>1
  <2>3. CASE scene.video # Nothing /\ ~scene.hidden
    <3>1. videoOp = "unblank"
      BY <2>3 DEF VideoOpOf
    <3>. QED
      BY <1>6, <2>3, <3>1
  <2>. QED
    BY <2>1, <2>2, <2>3
<1>9. /\ b \in Planes /\ Elsewhere(b, a)
      /\ no = {} /\ VideoTold(a) =>
             /\ VideoTold(b)
             /\ scene.video = Nothing => /\ b.video.type = "undefined"
                                         /\ a.video.type = "undefined" => b.drv.muted = a.drv.muted
                                         /\ a.video.type # "undefined" => b.drv.muted
             /\ scene.video # Nothing =>
                    /\ b.video.type # "undefined"
                    /\ b.drv.muted = (videoOp # "unblank") /\ b.drv.axis = AxisOf(scene.video)
                    /\ videoOp = "unblank" /\ (scene.video.type = "overlay" \/ keep) =>
                           b.drv.disable # 1
  BY <1>2, <1>6, <1>7, <1>8, VideoSet
<1>10. /\ c \in Planes
       /\ SameBuffers(c, b) /\ SameFlips(c, b) /\ SameCursor(c, b) /\ SameVideo(c, b)
       /\ SameHdr(c, b) /\ c.ui.fence \in {b.ui.fence, b.drv.made + 1}
       /\ no = {} /\ OsdTold(b) =>
              /\ OsdTold(c)
              /\ c.drv.next = IF osdOp = "unblank" THEN b[osd].buffer ELSE Nothing
  BY <1>3, <1>9, OsdSet
<1>11. /\ d \in Planes
       /\ SameBuffers(d, c) /\ SameFlips(d, c) /\ SameOsd(d, c) /\ SameCursor(d, c)
       /\ SameVideo(d, c)
       /\ HdrTold(c) => /\ HdrTold(d)
                        /\ scene.hdr # Nothing /\ d.hdr # "zero" => d.drv.hdr = scene.hdr
  BY <1>4, <1>6, <1>10, HdrSet
<1>12. /\ r \in Planes
       /\ SameBuffers(r, d) /\ SameOsd(r, d) /\ SameCursor(r, d) /\ SameVideo(r, d)
       /\ SameHdr(r, d) /\ r.drv.shown = d.drv.shown /\ r.drv.done = d.drv.done
       /\ FlipsCounted(d) => FlipsCounted(r)
       /\ no = {} => /\ r.drv.made = d.drv.made + 1 /\ r.drv.fence = d.drv.made + 1
                     /\ r.drv.queue = Append(d.drv.queue, d.drv.next)
  BY <1>5, <1>11, Flipped
<1>. HIDE DEF cursorOp, osdOp, videoOp
<1>13. SameBuffers(r, s) /\ SameFlips(d, s)
  BY <1>7, <1>9, <1>10, <1>11, <1>12 DEF SameBuffers, SameFlips, Elsewhere
<1>14. r.drv.shown = s.drv.shown /\ r.drv.done = s.drv.done /\ (FlipsCounted(s) => FlipsCounted(r))
  BY <1>12, <1>13 DEF SameFlips, FlipsCounted
<1>15. ASSUME no = {}
       PROVE  /\ r.ui.fence \in {s.ui.fence, s.drv.made + 1}
              /\ r.drv.made = s.drv.made + 1 /\ r.drv.fence = s.drv.made + 1
              /\ r.drv.queue = Append(s.drv.queue, r.drv.next)
  BY <1>7, <1>9, <1>10, <1>11, <1>12, <1>13, <1>15
     DEF SameBuffers, SameFlips, Elsewhere, SameOsd
<1>16. ASSUME no = {}, Told(s)
       PROVE  /\ r.drv.next = (IF osd = Nothing THEN Nothing ELSE s[osd].buffer)
              /\ Told(r)
  <2>1. OsdTold(b) /\ CursorTold(a) /\ VideoTold(a) /\ HdrTold(c)
    BY <1>7, <1>9, <1>10, <1>16
       DEF Told, OsdTold, CursorTold, VideoTold, HdrTold, Elsewhere, SameOsd, SameVideo, SameHdr
  <2>2. CursorTold(r) /\ HdrTold(r)
    BY <1>7, <1>9, <1>10, <1>11, <1>12, <1>16, <2>1
       DEF CursorTold, HdrTold, Elsewhere, SameCursor, SameHdr
  <2>3. OsdTold(r) /\ VideoTold(r)
    BY <1>9, <1>10, <1>11, <1>12, <1>16, <2>1 DEF OsdTold, VideoTold, SameOsd, SameVideo
  <2>4. r.drv.next = (IF osd = Nothing THEN Nothing ELSE b[osd].buffer)
    BY <1>10, <1>11, <1>12, <1>16, <2>1 DEF SameOsd, osdOp
  <2>5. osd # Nothing => b[osd].buffer = s[osd].buffer
    BY <1>7, <1>9 DEF SameBuffers, Elsewhere
  <2>. QED
    BY <2>2, <2>3, <2>4, <2>5 DEF Told
<1>17. ASSUME no = {}, Told(s), Silent(s, before)
       PROVE  /\ Silent(r, before \/ scene.video # Nothing)
              /\ Follows(r, AskedOf(s, scene, osd), before \/ scene.video # Nothing)
  <2>1. CursorTold(a) /\ VideoTold(a) /\ HdrTold(c)
    BY <1>7, <1>9, <1>10, <1>17
       DEF Told, CursorTold, VideoTold, HdrTold, Elsewhere, SameVideo, SameHdr
  <2>2. SameVideo(r, b) /\ SameHdr(r, d) /\ SameCursor(r, a)
    BY <1>9, <1>10, <1>11, <1>12 DEF SameVideo, SameHdr, SameCursor, Elsewhere
  <2>3. scene.video = Nothing =>
            /\ r.video.type = "undefined"
            /\ s.video.type = "undefined" => r.drv.muted = s.drv.muted
            /\ s.video.type # "undefined" => r.drv.muted
    BY <1>7, <1>9, <1>17, <2>1, <2>2 DEF SameVideo
  <2>4. scene.video # Nothing =>
            /\ r.video.type # "undefined" /\ r.drv.muted = scene.hidden
            /\ r.drv.axis = AxisOf(scene.video)
            /\ ~scene.hidden /\ (scene.video.type = "overlay" \/ keep) => r.drv.disable # 1
    BY <1>6, <1>8, <1>9, <1>17, <2>1, <2>2 DEF SameVideo
  <2>5. scene.video = Nothing /\ before => r.drv.muted
    BY <1>17, <2>3 DEF Silent
  <2>6. Silent(r, before \/ scene.video # Nothing)
    BY <2>4, <2>5 DEF Silent
  <2>7. /\ r.drv.cursor = (scene.cursor # Nothing)
        /\ scene.cursor # Nothing => r.drv.at = scene.cursor.at /\ r.drv.rot = scene.cursor.rot
    <3>1. (cursorOp = "unblank") = (scene.cursor # Nothing)
      BY DEF cursorOp
    <3>. QED
      BY <1>7, <1>17, <2>1, <2>2, <3>1 DEF SameCursor, Told
  <2>8. scene.hdr # Nothing /\ r.hdr # "zero" => r.drv.hdr = scene.hdr
    BY <1>11, <2>1, <2>2 DEF SameHdr
  <2>9. before \/ scene.video # Nothing => r.drv.muted = (scene.video = Nothing \/ scene.hidden)
    <3>1. r.drv.muted \in BOOLEAN
      BY <1>12, VideoFields
    <3>2. CASE scene.video = Nothing
      BY <2>5, <3>1, <3>2
    <3>3. CASE scene.video # Nothing
      BY <1>6, <2>4, <3>3
    <3>. QED
      BY <3>2, <3>3
  <2>10. PICK asks : asks = AskedOf(s, scene, osd)
    OBVIOUS
  <2>11. /\ asks.osd = (IF osd = Nothing THEN Nothing ELSE s[osd].buffer)
         /\ asks.cursor = scene.cursor /\ asks.video = scene.video
         /\ asks.hidden = scene.hidden /\ asks.hdr = scene.hdr
    BY <2>10, SceneFields
  <2>12. Follows(r, asks, before \/ scene.video # Nothing)
    <3>1. r.drv.next = asks.osd
      BY <1>16, <1>17, <2>11
    <3>2. asks.video # Nothing => r.drv.axis = AxisOf(asks.video)
      BY <2>4, <2>11
    <3>. QED
      BY <2>4, <2>7, <2>8, <2>9, <2>11, <3>1, <3>2 DEF Follows
  <2>. QED
    BY <2>6, <2>10, <2>12
<1>. QED
  BY <1>12, <1>13, <1>14, <1>15, <1>16, <1>17

(* Every plane dark, and a flip.                                             *)
DarkOf(s) ==
    fbPageFlip(VideoSetPlane(CursorSetPlane(OsdSetPlane(s, Nothing, "none", {}),
        Nothing, "none", {}), Nothing, "none", {}), {})

LEMMA DarkSet ==
    ASSUME keep \in BOOLEAN, NEW s \in Planes, NEW r, r = DarkOf(s), NEW before \in BOOLEAN
    PROVE  /\ r \in Planes /\ SameBuffers(r, s)
           /\ r.drv.shown = s.drv.shown /\ r.drv.done = s.drv.done
           /\ FlipsCounted(s) => FlipsCounted(r)
           /\ r.drv.queue = Append(s.drv.queue, r.drv.next)
           /\ Told(s) => r.drv.next = Nothing /\ Told(r)
           /\ Told(s) /\ Silent(s, before) => Silent(r, before) /\ Follows(r, Dark, before)
<1>1. PICK a : a = OsdSetPlane(s, Nothing, "none", {})
  OBVIOUS
<1>2. PICK b : b = CursorSetPlane(a, Nothing, "none", {})
  OBVIOUS
<1>3. PICK c : c = VideoSetPlane(b, Nothing, "none", {})
  OBVIOUS
<1>4. r = fbPageFlip(c, {})
  BY <1>1, <1>2, <1>3 DEF DarkOf
<1>5. /\ a \in Planes
      /\ SameBuffers(a, s) /\ SameFlips(a, s) /\ SameCursor(a, s) /\ SameVideo(a, s)
      /\ SameHdr(a, s)
      /\ OsdTold(s) => OsdTold(a) /\ a.drv.next = Nothing
  <2>1. "none" # "unblank"
    OBVIOUS
  <2>. QED
    BY <1>1, <2>1, OsdSet
<1>6. /\ b \in Planes
      /\ SameBuffers(b, a) /\ SameFlips(b, a) /\ SameOsd(b, a) /\ SameVideo(b, a)
      /\ SameHdr(b, a)
      /\ CursorTold(a) => CursorTold(b) /\ b.drv.cursor = FALSE
  <2>1. PICK op, no : op = "none" /\ no = {}
    OBVIOUS
  <2>2. b = CursorSetPlane(a, Nothing, op, no) /\ Nothing \in {Nothing} \cup Cursors
    BY <1>2, <2>1
  <2>3. /\ b \in Planes
        /\ SameBuffers(b, a) /\ SameFlips(b, a) /\ SameOsd(b, a) /\ SameVideo(b, a)
        /\ SameHdr(b, a)
        /\ no = {} /\ CursorTold(a) => CursorTold(b) /\ b.drv.cursor = (op = "unblank")
    BY <1>5, <2>2, CursorSet
  <2>. QED
    BY <2>1, <2>3
<1>7. /\ c \in Planes /\ Elsewhere(c, b)
      /\ VideoTold(b) => /\ VideoTold(c) /\ c.video.type = "undefined"
                         /\ b.video.type = "undefined" => c.drv.muted = b.drv.muted
                         /\ b.video.type # "undefined" => c.drv.muted
  BY <1>3, <1>6, VideoSet
<1>8. /\ r \in Planes
      /\ SameBuffers(r, c) /\ SameOsd(r, c) /\ SameCursor(r, c) /\ SameVideo(r, c)
      /\ SameHdr(r, c) /\ r.drv.shown = c.drv.shown /\ r.drv.done = c.drv.done
      /\ FlipsCounted(c) => FlipsCounted(r)
      /\ r.drv.queue = Append(c.drv.queue, c.drv.next)
  BY <1>4, <1>7, Flipped
<1>9. SameBuffers(r, s) /\ SameFlips(c, s)
  BY <1>5, <1>6, <1>7, <1>8 DEF SameBuffers, SameFlips, Elsewhere
<1>10. /\ r.drv.shown = s.drv.shown /\ r.drv.done = s.drv.done /\ (FlipsCounted(s) => FlipsCounted(r))
       /\ r.drv.queue = Append(s.drv.queue, r.drv.next)
  BY <1>8, <1>9 DEF SameFlips, SameOsd, FlipsCounted
<1>11. ASSUME Told(s)
       PROVE  r.drv.next = Nothing /\ Told(r)
  <2>1. CursorTold(a) /\ VideoTold(b) /\ OsdTold(a) /\ a.drv.next = Nothing
    BY <1>5, <1>6, <1>11 DEF Told, CursorTold, VideoTold, SameCursor, SameVideo
  <2>2. CursorTold(b) /\ VideoTold(c)
    BY <1>6, <1>7, <2>1
  <2>3. OsdTold(r) /\ r.drv.next = Nothing
    BY <1>6, <1>7, <1>8, <2>1 DEF OsdTold, Elsewhere, SameOsd
  <2>4. CursorTold(r) /\ VideoTold(r)
    BY <1>7, <1>8, <2>2 DEF CursorTold, VideoTold, Elsewhere, SameCursor, SameVideo
  <2>5. HdrTold(r)
    BY <1>5, <1>6, <1>7, <1>8, <1>11 DEF Told, HdrTold, Elsewhere, SameHdr
  <2>. QED
    BY <2>3, <2>4, <2>5 DEF Told
<1>12. ASSUME Told(s), Silent(s, before)
       PROVE  Silent(r, before) /\ Follows(r, Dark, before)
  <2>1. CursorTold(a) /\ VideoTold(b)
    BY <1>5, <1>6, <1>12 DEF Told, CursorTold, VideoTold, SameCursor, SameVideo
  <2>2. r.drv.cursor = FALSE
    BY <1>6, <1>7, <1>8, <2>1 DEF Elsewhere, SameCursor
  <2>3. before => r.drv.muted
    BY <1>5, <1>6, <1>7, <1>8, <1>12, <2>1 DEF Silent, SameVideo
  <2>4. r.drv.next = Nothing
    BY <1>11, <1>12
  <2>5. r.drv.muted \in BOOLEAN
    BY <1>8, VideoFields
  <2>6. /\ Dark.osd = Nothing /\ Dark.cursor = Nothing /\ Dark.video = Nothing
        /\ Dark.hidden = FALSE /\ Dark.hdr = Nothing
    BY DEF Dark
  <2>. QED
    BY <2>2, <2>3, <2>4, <2>5, <2>6 DEF Silent, Follows
<1>. QED
  BY <1>8, <1>9, <1>10, <1>11, <1>12

-----------------------------------------------------------------------------
(* The buffers that go back.                                                 *)

LEMMA GivenBack ==
    ASSUME FbTypeOK, NEW s \in Planes, NEW present \in Nat, NEW g,
           g = getReleaseFences(s, present)
    PROVE  /\ DOMAIN g \subseteq UiBuffers \cup Targets /\ g \in [DOMAIN g -> Nat]
           /\ s.ui.buffer \notin DOMAIN g /\ s.target.buffer \notin DOMAIN g
           /\ \A b \in DOMAIN g :
                  \/ b \in DOMAIN released /\ b # m.ui.buffer /\ b # m.target.buffer
                     /\ g[b] = released[b]
                  \/ /\ b = m.ui.buffer /\ s.ui.buffer # m.ui.buffer
                     /\ g[b] = IF s.ui.fence # NoFence THEN s.ui.fence ELSE present
                  \/ /\ b = m.target.buffer /\ s.target.buffer # m.target.buffer
                     /\ g[b] = present
                  \/ b \in DOMAIN released /\ b \in {m.ui.buffer, m.target.buffer}
<1>. DEFINE ui == Replaced(m.ui.buffer, s.ui.buffer)
            target == Replaced(m.target.buffer, s.target.buffer)
            kept == DOMAIN released \ {s.ui.buffer, s.target.buffer}
            Fence(b) == CASE b \in ui /\ s.ui.fence # NoFence -> s.ui.fence
                          [] b \in ui /\ s.ui.fence = NoFence -> present
                          [] b \in target -> present
                          [] OTHER -> released[b]
<1>1. g = [b \in kept \cup ui \cup target |-> Fence(b)]
  BY DEF getReleaseFences
<1>2. /\ m.ui.buffer \in UiBuffers \cup {Nothing} /\ m.target.buffer \in Targets \cup {Nothing}
      /\ s.ui.buffer \in UiBuffers \cup {Nothing} /\ s.target.buffer \in Targets \cup {Nothing}
      /\ s.ui.fence \in Nat
  <2>1. m \in Planes
    BY DEF FbTypeOK
  <2>. QED
    BY <2>1 DEF Planes
<1>3. /\ \A b \in ui : b = m.ui.buffer /\ s.ui.buffer # m.ui.buffer /\ b \in UiBuffers
      /\ \A b \in target : b = m.target.buffer /\ s.target.buffer # m.target.buffer /\ b \in Targets
  BY <1>2 DEF Replaced
<1>4. UiBuffers \cap Targets = {} /\ Nothing \notin UiBuffers \cup Targets
  BY FbAssumption
<1>5. /\ \A b \in ui : Fence(b) = IF s.ui.fence # NoFence THEN s.ui.fence ELSE present
      /\ \A b \in target : Fence(b) = present
      /\ \A b \in kept \ (ui \cup target) : Fence(b) = released[b]
  <2>. HIDE DEF ui, target, kept
  <2>. QED
    BY <1>3, <1>4
<1>6. DOMAIN g = kept \cup ui \cup target /\ \A b \in DOMAIN g : g[b] = Fence(b)
  <2>. HIDE DEF Fence, ui, target, kept
  <2>. QED
    BY <1>1
<1>7. kept \subseteq UiBuffers \cup Targets /\ \A b \in kept : released[b] \in Nat
  BY DEF FbTypeOK
<1>8. \A b \in DOMAIN g : g[b] \in Nat
  <2>. HIDE DEF Fence, ui, target, kept
  <2>. QED
    BY <1>2, <1>5, <1>6, <1>7
<1>9. DOMAIN g \subseteq UiBuffers \cup Targets /\ g \in [DOMAIN g -> Nat]
  <2>1. g = [b \in DOMAIN g |-> g[b]]
    BY <1>1
  <2>. HIDE DEF Fence, ui, target, kept
  <2>. QED
    BY <1>3, <1>6, <1>7, <1>8, <2>1
<1>10. s.ui.buffer \notin DOMAIN g /\ s.target.buffer \notin DOMAIN g
  <2>1. s.ui.buffer \notin kept /\ s.target.buffer \notin kept
    OBVIOUS
  <2>. HIDE DEF Fence, ui, target, kept
  <2>. QED
    BY <1>2, <1>3, <1>4, <1>6, <2>1
<1>11. ASSUME NEW b \in DOMAIN g
       PROVE  \/ b \in DOMAIN released /\ b # m.ui.buffer /\ b # m.target.buffer
                 /\ g[b] = released[b]
              \/ /\ b = m.ui.buffer /\ s.ui.buffer # m.ui.buffer
                 /\ g[b] = IF s.ui.fence # NoFence THEN s.ui.fence ELSE present
              \/ /\ b = m.target.buffer /\ s.target.buffer # m.target.buffer
                 /\ g[b] = present
              \/ b \in DOMAIN released /\ b \in {m.ui.buffer, m.target.buffer}
  <2>1. CASE b \in ui
    BY <1>3, <1>5, <1>6, <2>1
  <2>2. CASE b \in target
    BY <1>3, <1>5, <1>6, <2>2
  <2>3. CASE b \in kept \ (ui \cup target)
    <3>1. b \in DOMAIN released
      BY <2>3
    <3>. HIDE DEF Fence, ui, target, kept
    <3>. QED
      BY <1>5, <1>6, <2>3, <3>1
  <2>. HIDE DEF Fence, ui, target, kept
  <2>. QED
    BY <1>6, <2>1, <2>2, <2>3
<1>. QED
  BY <1>9, <1>10, <1>11

(* A flip of another buffer leaves those that went back away, and gives the   *)
(* one it replaces a fence it is away with.                                  *)
LEMMA AwayOnFlip ==
    ASSUME NEW s \in Planes, NEW r \in Planes, FlipsCounted(s), NEW b, NEW fence \in Nat,
           r.drv.shown = s.drv.shown, r.drv.done = s.drv.done,
           r.drv.queue = Append(s.drv.queue, r.drv.next), b # r.drv.next
    PROVE  /\ Away(s, b, fence) => Away(r, b, fence)
           /\ Away(r, b, s.drv.made + 1)
<1>1. PICK q, n, done : q = s.drv.queue /\ n = Len(q) /\ done = s.drv.done
  OBVIOUS
<1>2. s.drv \in Drivers /\ r.drv \in Drivers
  BY DEF Planes
<1>3. q \in Seq(Pictures) /\ n \in Nat /\ done \in Nat /\ r.drv.next \in Pictures
  BY <1>1, <1>2 DEF Drivers
<1>4. s.drv.made = done + n
  BY <1>1 DEF FlipsCounted
<1>5. /\ Len(r.drv.queue) = n + 1
      /\ \A i \in 1 .. n : r.drv.queue[i] = q[i]
      /\ r.drv.queue[n + 1] = r.drv.next
  BY <1>1, <1>3
<1>6. ASSUME Away(s, b, fence)
      PROVE  Away(r, b, fence)
  <2>1. ASSUME NEW i \in 1 .. n + 1, r.drv.queue[i] = b
        PROVE  fence > done + i
    <3>1. i \in 1 .. n
      BY <1>3, <1>5, <2>1
    <3>. QED
      BY <1>1, <1>5, <1>6, <2>1, <3>1 DEF Away
  <2>. QED
    BY <1>1, <1>5, <1>6, <2>1 DEF Away
<1>7. Away(r, b, s.drv.made + 1)
  <2>1. ASSUME NEW i \in 1 .. n + 1, r.drv.queue[i] = b
        PROVE  done + n + 1 > done + i
    <3>1. i \in 1 .. n
      BY <1>3, <1>5, <2>1
    <3>. QED
      BY <1>3, <3>1
  <2>2. done + n + 1 > done
    BY <1>3
  <2>. QED
    BY <1>1, <1>4, <1>5, <2>1, <2>2 DEF Away
<1>. QED
  BY <1>6, <1>7

LEMMA AwayOnVsync ==
    ASSUME NEW s \in Planes, NEW r, NEW b, NEW fence \in Nat, Away(s, b, fence),
           s.drv.queue # <<>>, r.drv.next = s.drv.next, r.drv.shown = Head(s.drv.queue),
           r.drv.queue = Tail(s.drv.queue), r.drv.done = s.drv.done + 1
    PROVE  Away(r, b, fence)
<1>1. PICK q, n, done : q = s.drv.queue /\ n = Len(q) /\ done = s.drv.done
  OBVIOUS
<1>2. s.drv \in Drivers
  BY DEF Planes
<1>3. q \in Seq(Pictures) /\ n \in Nat \ {0} /\ done \in Nat
  BY <1>1, <1>2 DEF Drivers
<1>4. /\ Head(q) = q[1] /\ Len(Tail(q)) = n - 1
      /\ \A i \in 1 .. n - 1 : Tail(q)[i] = q[i + 1]
  BY <1>1, <1>3
<1>5. \A i \in 1 .. n : q[i] = b => fence > done + i
  BY <1>1 DEF Away
<1>6. b = r.drv.shown => fence > r.drv.done
  BY <1>1, <1>3, <1>4, <1>5
<1>7. ASSUME NEW i \in 1 .. n - 1, Tail(q)[i] = b
      PROVE  fence > r.drv.done + i
  <2>1. i + 1 \in 1 .. n /\ q[i + 1] = b
    BY <1>3, <1>4, <1>7
  <2>2. fence > done + (i + 1)
    BY <1>5, <2>1
  <2>. QED
    BY <1>1, <1>3, <2>2
<1>. QED
  BY <1>1, <1>4, <1>6, <1>7 DEF Away

-----------------------------------------------------------------------------
(* The steps                                                                 *)

(* What SurfaceFlinger brings changes buffers only; a new one has no fence.   *)
Bringing(s) ==
    /\ s.osd = m.osd /\ s.cursor = m.cursor /\ s.video = m.video /\ s.hdr = m.hdr
    /\ s.drv = m.drv
    /\ s.ui.buffer # m.ui.buffer => s.ui.fence = NoFence

LEMMA BuffersBrought ==
    ASSUME FbTypeOK, NEW s \in Brought \cup {m}
    PROVE  /\ s \in Planes /\ Bringing(s)
           /\ \A t \in Signalled(Targets) :
                  setClientTarget(s, t) \in Planes /\ Bringing(setClientTarget(s, t))
<1>1. m \in Planes
  BY DEF FbTypeOK
<1>2. s \in Planes /\ Bringing(s)
  <2>1. CASE s = m
    BY <1>1, <2>1 DEF Bringing
  <2>2. CASE s \in {SetBuffer(m, b) : b \in Signalled(UiBuffers)}
    <3>1. PICK b \in Signalled(UiBuffers) : s = SetBuffer(m, b)
      BY <2>2
    <3>2. PICK ui : ui = [[m.ui EXCEPT !.fence = NoFence] EXCEPT !.buffer = b]
      OBVIOUS
    <3>3. b \in UiBuffers /\ m.ui \in [buffer : UiBuffers \cup {Nothing}, fence : Nat]
      BY <1>1 DEF Signalled, Planes
    <3>4. ui \in [buffer : UiBuffers \cup {Nothing}, fence : Nat] /\ ui.fence = NoFence
      BY <3>2, <3>3 DEF NoFence
    <3>5. s = [m EXCEPT !.ui = ui]
      BY <1>1, <3>1, <3>2 DEF SetBuffer, clearBufferInfo, Planes
    <3>. QED
      BY <1>1, <3>4, <3>5 DEF Planes, Bringing
  <2>. QED
    BY <2>1, <2>2 DEF Brought
<1>3. ASSUME NEW t \in Signalled(Targets), NEW r, r = setClientTarget(s, t)
      PROVE  r \in Planes /\ Bringing(r)
  <2>1. t \in Targets
    BY DEF Signalled
  <2>2. s.target \in [buffer : Targets \cup {Nothing}]
    BY <1>2 DEF Planes
  <2>3. PICK target : target = [s.target EXCEPT !.buffer = t]
    OBVIOUS
  <2>4. target \in [buffer : Targets \cup {Nothing}]
    BY <2>1, <2>2, <2>3
  <2>5. r = [s EXCEPT !.target = target]
    BY <1>2, <1>3, <2>3 DEF setClientTarget, Planes
  <2>6. r \in Planes /\ r.ui = s.ui /\ r.osd = s.osd /\ r.cursor = s.cursor
        /\ r.video = s.video /\ r.hdr = s.hdr /\ r.drv = s.drv
    BY <1>2, <2>4, <2>5 DEF Planes
  <2>. QED
    BY <1>2, <2>6 DEF Bringing
<1>. QED
  BY <1>2, <1>3

(* Returned, of the members s and the buffers g with their fences.           *)
ReturnedOf(s, g, less, lost) ==
    /\ s.ui.buffer \notin DOMAIN g /\ s.target.buffer \notin DOMAIN g
    /\ ~lost => \A b \in DOMAIN g \ less : Away(s, b, g[b])

LEMMA ReturnedNext ==
    Returned' = ReturnedOf(m', released', early', refused')
  BY DEF Returned, ReturnedOf, Away

LEMMA FrameKeeps == ASSUME FbInv, Frame PROVE FbInv'
<1>1. FbTypeOK /\ FlipsCounted(m) /\ Returned /\ m \in Planes
  BY DEF FbInv, FbTypeOK
<1>2. PICK brought \in Brought \cup {m}, kinds \in Kinds, scene \in Scenes, no \in Refusals :
        LET direct == OsdFbSupport(kinds, afbc)
            cursor == scene.cursor
            video == scene.video
        IN
        \E s \in IF brought.ui.buffer = Nothing \/ direct THEN {brought}
                 ELSE {setClientTarget(brought, t) : t \in Signalled(Targets)} :
          LET osd == CASE brought.ui.buffer = Nothing -> Nothing
                       [] brought.ui.buffer # Nothing /\ direct -> "ui"
                       [] OTHER -> "target"
              videoOp == CASE video = Nothing -> "none"
                           [] video # Nothing /\ scene.hidden -> "secure"
                           [] OTHER -> "unblank"
              onCursor == CursorSetPlane(s, cursor,
                              IF cursor = Nothing THEN "none" ELSE "unblank", no)
              onVideo == VideoSetPlane(onCursor, video, videoOp, no)
              onOsd == OsdSetPlane(onVideo, osd, IF osd = Nothing THEN "none" ELSE "unblank", no)
              flipped == fbPageFlip(setHdrMetadata(onOsd, scene.hdr), no)
          IN /\ m' = flipped
             /\ released' = getReleaseFences(flipped, flipped.drv.fence)
             /\ asked' = [scene EXCEPT !.osd = IF osd = Nothing THEN Nothing
                                               ELSE s[osd].buffer]
             /\ played' = (played \/ video # Nothing)
             /\ refused' = (refused \/ no # {})
  BY DEF Frame
<1>3. PICK direct, osd : /\ direct = OsdFbSupport(kinds, afbc)
                         /\ osd = CASE brought.ui.buffer = Nothing -> Nothing
                                     [] brought.ui.buffer # Nothing /\ direct -> "ui"
                                     [] OTHER -> "target"
  OBVIOUS
<1>4. PICK s \in IF brought.ui.buffer = Nothing \/ direct THEN {brought}
                 ELSE {setClientTarget(brought, t) : t \in Signalled(Targets)} :
         /\ m' = FrameOf(s, scene, osd, no)
         /\ released' = getReleaseFences(m', m'.drv.fence)
         /\ asked' = AskedOf(s, scene, osd)
         /\ played' = (played \/ scene.video # Nothing)
         /\ refused' = (refused \/ no # {})
  BY <1>2, <1>3 DEF FrameOf, AskedOf, VideoOpOf
<1>5. s \in Planes /\ Bringing(s)
  BY <1>1, BuffersBrought
<1>6. osd \in {Nothing, "ui", "target"}
  BY <1>3
<1>7. /\ keep \in BOOLEAN /\ played \in BOOLEAN /\ refused \in BOOLEAN /\ frames \in Nat
      /\ early \subseteq UiBuffers \cup Targets
  BY <1>1 DEF FbTypeOK
<1>8. PICK r, ask : r = m' /\ ask = AskedOf(s, scene, osd)
  OBVIOUS
<1>9. /\ r \in Planes /\ SameBuffers(r, s)
      /\ r.drv.shown = s.drv.shown /\ r.drv.done = s.drv.done
      /\ FlipsCounted(s) => FlipsCounted(r)
      /\ no = {} =>
             /\ r.ui.fence \in {s.ui.fence, s.drv.made + 1}
             /\ r.drv.made = s.drv.made + 1 /\ r.drv.fence = s.drv.made + 1
             /\ r.drv.queue = Append(s.drv.queue, r.drv.next)
      /\ no = {} /\ Told(s) =>
             /\ r.drv.next = (IF osd = Nothing THEN Nothing ELSE s[osd].buffer)
             /\ Told(r)
      /\ no = {} /\ Told(s) /\ Silent(s, played) =>
             /\ Silent(r, played \/ scene.video # Nothing)
             /\ Follows(r, ask, played \/ scene.video # Nothing)
  <2>1. r = FrameOf(s, scene, osd, no) /\ ask = AskedOf(s, scene, osd)
    BY <1>4, <1>8
  <2>2. keep \in BOOLEAN /\ played \in BOOLEAN
    BY <1>7
  <2>. QED
    BY <1>5, <1>6, <2>1, <2>2, FrameSet, SMTT(40)
<1>10. FlipsCounted(s) /\ FlipsCounted(r)
  BY <1>1, <1>5, <1>9 DEF Bringing, FlipsCounted
<1>11. ~refused => Told(s) /\ Silent(s, played)
  BY <1>5 DEF FbInv, Bringing, Told, OsdTold, CursorTold, VideoTold, HdrTold, Silent
<1>12. r.drv.fence \in Nat
  BY <1>9 DEF Planes, Drivers
<1>13. PICK g : g = released'
  OBVIOUS
<1>14. /\ DOMAIN g \subseteq UiBuffers \cup Targets /\ g \in [DOMAIN g -> Nat]
       /\ r.ui.buffer \notin DOMAIN g /\ r.target.buffer \notin DOMAIN g
       /\ \A b \in DOMAIN g :
              \/ b \in DOMAIN released /\ b # m.ui.buffer /\ b # m.target.buffer
                 /\ g[b] = released[b]
              \/ /\ b = m.ui.buffer /\ r.ui.buffer # m.ui.buffer
                 /\ g[b] = IF r.ui.fence # NoFence THEN r.ui.fence ELSE r.drv.fence
              \/ /\ b = m.target.buffer /\ r.target.buffer # m.target.buffer
                 /\ g[b] = r.drv.fence
              \/ b \in DOMAIN released /\ b \in {m.ui.buffer, m.target.buffer}
  <2>1. g = getReleaseFences(r, r.drv.fence)
    BY <1>4, <1>8, <1>13
  <2>. QED
    BY <1>1, <1>9, <1>12, <2>1, GivenBack
<1>15. ASSUME ~refused, no = {}, NEW b \in DOMAIN g \ early
       PROVE  Away(r, b, g[b])
  <2>1. Told(s) /\ r.drv.next = (IF osd = Nothing THEN Nothing ELSE s[osd].buffer)
        /\ r.drv.queue = Append(s.drv.queue, r.drv.next)
        /\ r.ui.fence \in {s.ui.fence, s.drv.made + 1} /\ r.drv.fence = s.drv.made + 1
    BY <1>9, <1>11, <1>15
  <2>2. b \in UiBuffers \cup Targets /\ b # r.ui.buffer /\ b # r.target.buffer
    BY <1>14, <1>15
  <2>3. b # r.drv.next
    <3>1. b # Nothing
      BY <2>2, FbAssumption
    <3>2. osd = "ui" => s[osd].buffer = s.ui.buffer
      OBVIOUS
    <3>3. osd = "target" => s[osd].buffer = s.target.buffer
      OBVIOUS
    <3>4. b # s.ui.buffer /\ b # s.target.buffer
      BY <1>9, <2>2 DEF SameBuffers
    <3>. QED
      BY <1>6, <2>1, <3>1, <3>2, <3>3, <3>4
  <2>4. Away(r, b, s.drv.made + 1)
    BY <1>5, <1>9, <1>10, <2>1, <2>3, AwayOnFlip, 0 \in Nat
  <2>5. ASSUME b \in DOMAIN released, g[b] = released[b]
        PROVE  Away(r, b, g[b])
    <3>1. Away(m, b, released[b]) /\ released[b] \in Nat
      BY <1>1, <1>15, <2>5 DEF Returned, FbTypeOK
    <3>2. Away(s, b, released[b])
      BY <1>5, <3>1 DEF Bringing, Away
    <3>. QED
      BY <1>5, <1>9, <1>10, <2>1, <2>3, <2>5, <3>1, <3>2, AwayOnFlip
  <2>6. ASSUME b = m.ui.buffer, r.ui.buffer # m.ui.buffer,
               g[b] = IF r.ui.fence # NoFence THEN r.ui.fence ELSE r.drv.fence
        PROVE  g[b] = s.drv.made + 1
    <3>1. s.ui.fence = NoFence
      BY <1>5, <1>9, <2>6 DEF SameBuffers, Bringing
    <3>. QED
      BY <2>1, <2>6, <3>1
  <2>7. b \notin DOMAIN released \/ b \notin {m.ui.buffer, m.target.buffer}
    BY <1>1 DEF Returned
  <2>. QED
    BY <1>14, <1>15, <2>1, <2>4, <2>5, <2>6, <2>7
<1>16. Returned'
  <2>1. ASSUME ~refused', NEW b \in DOMAIN g \ early'
        PROVE  Away(r, b, g[b])
    <3>1. ~refused /\ no = {}
      BY <1>4, <2>1
    <3>2. early' = early \cap DOMAIN g
      BY <1>13 DEF Frame
    <3>. QED
      BY <1>15, <2>1, <3>1, <3>2
  <2>2. ReturnedOf(r, g, early', refused')
    BY <1>14, <2>1 DEF ReturnedOf
  <2>. QED
    BY <1>8, <1>13, <2>2, ReturnedNext
<1>17. ~refused' => /\ Told(r) /\ Silent(r, played \/ scene.video # Nothing)
                   /\ Follows(r, ask, played \/ scene.video # Nothing)
  BY <1>4, <1>9, <1>11
<1>18. ask \in Scene
  BY <1>5, <1>6, <1>8, SceneFields
<1>19. FbTypeOK'
  <2>1. m' \in Planes /\ asked' \in Scene
    BY <1>4, <1>8, <1>9, <1>18
  <2>2. DOMAIN released' \subseteq UiBuffers \cup Targets /\ released' \in [DOMAIN released' -> Nat]
    BY <1>13, <1>14
  <2>3. played' \in BOOLEAN /\ refused' \in BOOLEAN
    BY <1>4, <1>7
  <2>4. /\ early' \subseteq UiBuffers \cup Targets /\ frames' \in Nat
        /\ afbc' = afbc /\ keep' = keep /\ skip' = skip
    <3>1. early' = early \cap DOMAIN released'
      BY DEF Frame
    <3>2. frames' = frames + 1 /\ afbc' = afbc /\ keep' = keep /\ skip' = skip
      BY DEF Frame
    <3>. QED
      BY <1>7, <3>1, <3>2
  <2>. QED
    BY <1>1, <2>1, <2>2, <2>3, <2>4 DEF FbTypeOK
<1>20. (~refused => Told(m) /\ Silent(m, played) /\ Follows(m, asked, played))'
  <2>1. keep' = keep
    BY DEF Frame
  <2>2. Told(m)' = Told(m') /\ Silent(m, played)' = Silent(m', played')
    BY DEF Told, OsdTold, CursorTold, VideoTold, HdrTold, Silent
  <2>3. Follows(m, asked, played)' = Follows(m', asked', played')
    BY <2>1 DEF Follows
  <2>. QED
    BY <1>4, <1>8, <1>17, <2>2, <2>3
<1>21. FlipsCounted(m)'
  BY <1>8, <1>10 DEF FlipsCounted
<1>. QED
  BY <1>16, <1>19, <1>20, <1>21 DEF FbInv

LEMMA SkipFrameKeeps == ASSUME FbInv, SkipFrame PROVE FbInv'
<1>1. FbTypeOK /\ FlipsCounted(m) /\ Returned
  BY DEF FbInv
<1>2. PICK s \in Brought \cup {m} :
         /\ m' = s
         /\ released' = getReleaseFences(s, NoFence)
         /\ early' = (early \cap DOMAIN released') \cup (DOMAIN released' \ DOMAIN released)
  BY DEF SkipFrame
<1>3. s \in Planes /\ Bringing(s)
  BY <1>1, BuffersBrought
<1>4. PICK g : g = released'
  OBVIOUS
<1>5. /\ DOMAIN g \subseteq UiBuffers \cup Targets /\ g \in [DOMAIN g -> Nat]
      /\ s.ui.buffer \notin DOMAIN g /\ s.target.buffer \notin DOMAIN g
      /\ \A b \in DOMAIN g :
             \/ b \in DOMAIN released /\ b # m.ui.buffer /\ b # m.target.buffer
                /\ g[b] = released[b]
             \/ /\ b = m.ui.buffer /\ s.ui.buffer # m.ui.buffer
                /\ g[b] = IF s.ui.fence # NoFence THEN s.ui.fence ELSE NoFence
             \/ /\ b = m.target.buffer /\ s.target.buffer # m.target.buffer
                /\ g[b] = NoFence
             \/ b \in DOMAIN released /\ b \in {m.ui.buffer, m.target.buffer}
  <2>1. g = getReleaseFences(s, NoFence) /\ NoFence \in Nat
    BY <1>2, <1>4 DEF NoFence
  <2>. QED
    BY <1>1, <1>3, <2>1, GivenBack
<1>6. ASSUME ~refused, NEW b \in DOMAIN g \ early'
      PROVE  Away(s, b, g[b])
  <2>1. b \in DOMAIN released \ early
    BY <1>2, <1>4, <1>6
  <2>2. g[b] = released[b] /\ Away(m, b, released[b])
    BY <1>1, <1>5, <1>6, <2>1 DEF Returned
  <2>. QED
    BY <1>3, <2>2 DEF Bringing, Away
<1>7. refused' = refused /\ asked' = asked /\ played' = played /\ keep' = keep /\ afbc' = afbc
      /\ skip' = skip /\ frames' = frames + 1
  BY DEF SkipFrame
<1>8. Returned'
  <2>1. ReturnedOf(s, g, early', refused')
    BY <1>5, <1>6, <1>7 DEF ReturnedOf
  <2>. QED
    BY <1>2, <1>4, <2>1, ReturnedNext
<1>9. early' \subseteq UiBuffers \cup Targets
  BY <1>1, <1>2, <1>4, <1>5 DEF FbTypeOK
<1>10. FbTypeOK'
  BY <1>1, <1>2, <1>3, <1>4, <1>5, <1>7, <1>9 DEF FbTypeOK
<1>11. (~refused => Told(m) /\ Silent(m, played) /\ Follows(m, asked, played))'
  BY <1>2, <1>3, <1>7 DEF FbInv, Bringing, Told, OsdTold, CursorTold, VideoTold, HdrTold, Silent,
                          Follows
<1>12. FlipsCounted(m)'
  BY <1>1, <1>2, <1>3 DEF FlipsCounted, Bringing
<1>. QED
  BY <1>8, <1>10, <1>11, <1>12 DEF FbInv

LEMMA blankDisplayKeeps == ASSUME FbInv, blankDisplay PROVE FbInv'
<1>1. FbTypeOK /\ FlipsCounted(m) /\ Returned /\ m \in Planes
  BY DEF FbInv, FbTypeOK
<1>2. /\ m' = DarkOf(m) /\ skip' = TRUE /\ asked' = Dark /\ frames' = frames + 1
      /\ afbc' = afbc /\ keep' = keep /\ released' = released /\ early' = early
      /\ played' = played /\ refused' = refused
  BY DEF blankDisplay, DarkOf
<1>3. PICK r : r = DarkOf(m)
  OBVIOUS
<1>4. keep \in BOOLEAN /\ played \in BOOLEAN
  BY <1>1 DEF FbTypeOK
<1>5. /\ r \in Planes /\ SameBuffers(r, m)
      /\ r.drv.shown = m.drv.shown /\ r.drv.done = m.drv.done
      /\ FlipsCounted(m) => FlipsCounted(r)
      /\ r.drv.queue = Append(m.drv.queue, r.drv.next)
      /\ Told(m) => r.drv.next = Nothing /\ Told(r)
      /\ Told(m) /\ Silent(m, played) => Silent(r, played) /\ Follows(r, Dark, played)
  BY <1>1, <1>3, <1>4, DarkSet, SMTT(40)
<1>6. ~refused => Told(m) /\ Silent(m, played)
  BY DEF FbInv
<1>7. ASSUME ~refused, NEW b \in DOMAIN released \ early
      PROVE  Away(r, b, released[b])
  <2>1. Away(m, b, released[b]) /\ released[b] \in Nat /\ b \in UiBuffers \cup Targets
    BY <1>1, <1>7 DEF Returned, FbTypeOK
  <2>2. b # r.drv.next
    BY <1>5, <1>6, <1>7, <2>1, FbAssumption
  <2>. QED
    BY <1>1, <1>5, <2>1, <2>2, AwayOnFlip
<1>8. Returned'
  <2>1. r.ui.buffer \notin DOMAIN released /\ r.target.buffer \notin DOMAIN released
    BY <1>1, <1>5 DEF Returned, SameBuffers
  <2>2. ReturnedOf(r, released, early, refused)
    BY <1>7, <2>1 DEF ReturnedOf
  <2>. QED
    BY <1>2, <1>3, <2>2, ReturnedNext
<1>9. Dark \in Scene
  BY DEF Dark, Scene, Pictures
<1>10. FbTypeOK'
  BY <1>1, <1>2, <1>3, <1>5, <1>9 DEF FbTypeOK
<1>11. (~refused => Told(m) /\ Silent(m, played) /\ Follows(m, asked, played))'
  <2>1. ~refused => Told(r) /\ Silent(r, played) /\ Follows(r, Dark, played)
    BY <1>5, <1>6
  <2>2. Told(m)' = Told(m') /\ Silent(m, played)' = Silent(m', played')
    BY DEF Told, OsdTold, CursorTold, VideoTold, HdrTold, Silent
  <2>3. Follows(m, asked, played)' = Follows(m', asked', played')
    BY <1>2 DEF Follows
  <2>. QED
    BY <1>2, <1>3, <2>1, <2>2, <2>3
<1>12. FlipsCounted(m)'
  BY <1>1, <1>2, <1>3, <1>5 DEF FlipsCounted
<1>. QED
  BY <1>8, <1>10, <1>11, <1>12 DEF FbInv

LEMMA VsyncKeeps == ASSUME FbInv, Vsync PROVE FbInv'
<1>1. FbTypeOK /\ FlipsCounted(m) /\ Returned /\ m \in Planes /\ m.drv \in Drivers
  BY DEF FbInv, FbTypeOK, Planes
<1>2. PICK head, tail, done : /\ head = Head(m.drv.queue) /\ tail = Tail(m.drv.queue)
                              /\ done = m.drv.done + 1
  OBVIOUS
<1>3. PICK drv : drv = [m.drv EXCEPT !.shown = head, !.queue = tail, !.done = done]
  OBVIOUS
<1>4. /\ m.drv.queue # <<>> /\ m.drv.queue \in Seq(Pictures) /\ m.drv.done \in Nat
      /\ m.drv.made \in Nat
  BY <1>1 DEF Vsync, Drivers
<1>5. head \in Pictures /\ tail \in Seq(Pictures) /\ done \in Nat
      /\ Len(tail) = Len(m.drv.queue) - 1 /\ Len(m.drv.queue) \in Nat
  BY <1>2, <1>4
<1>6. /\ drv \in Drivers /\ drv.next = m.drv.next /\ drv.shown = head /\ drv.queue = tail
      /\ drv.done = done /\ drv.made = m.drv.made /\ drv.cursor = m.drv.cursor
      /\ drv.at = m.drv.at /\ drv.rot = m.drv.rot /\ drv.muted = m.drv.muted
      /\ drv.disable = m.drv.disable /\ drv.axis = m.drv.axis /\ drv.hdr = m.drv.hdr
  BY <1>1, <1>3, <1>5 DEF Drivers
<1>7. PICK r : r = m'
  OBVIOUS
<1>8. r = [m EXCEPT !.drv = drv]
  BY <1>1, <1>2, <1>3, <1>7 DEF Vsync, Planes
<1>9. /\ r \in Planes /\ r.drv = drv /\ r.ui = m.ui /\ r.target = m.target /\ r.osd = m.osd
      /\ r.cursor = m.cursor /\ r.video = m.video /\ r.hdr = m.hdr
  <2>1. drv \in Drivers
    BY <1>6
  <2>. QED
    BY <1>1, <1>8, <2>1 DEF Planes
<1>10. /\ afbc' = afbc /\ keep' = keep /\ released' = released /\ early' = early
       /\ played' = played /\ refused' = refused /\ skip' = skip /\ asked' = asked
       /\ frames' = frames
  BY DEF Vsync
<1>11. ASSUME ~refused, NEW b \in DOMAIN released \ early
       PROVE  Away(r, b, released[b])
  <2>1. Away(m, b, released[b]) /\ released[b] \in Nat
    BY <1>1, <1>11 DEF Returned, FbTypeOK
  <2>. QED
    BY <1>1, <1>2, <1>4, <1>6, <1>9, <2>1, AwayOnVsync
<1>12. Returned'
  <2>1. ReturnedOf(r, released, early, refused)
    BY <1>1, <1>9, <1>11 DEF ReturnedOf, Returned
  <2>. QED
    BY <1>7, <1>10, <2>1, ReturnedNext
<1>13. FbTypeOK'
  BY <1>1, <1>7, <1>9, <1>10 DEF FbTypeOK
<1>14. (~refused => Told(m) /\ Silent(m, played) /\ Follows(m, asked, played))'
  <2>1. ~refused => Told(r) /\ Silent(r, played) /\ Follows(r, asked, played)
    BY <1>6, <1>9 DEF FbInv, Told, OsdTold, CursorTold, VideoTold, HdrTold, Silent, Follows
  <2>2. Told(m)' = Told(m') /\ Silent(m, played)' = Silent(m', played')
    BY DEF Told, OsdTold, CursorTold, VideoTold, HdrTold, Silent
  <2>3. Follows(m, asked, played)' = Follows(m', asked', played')
    BY <1>10 DEF Follows
  <2>. QED
    BY <1>7, <1>10, <2>1, <2>2, <2>3
<1>15. FlipsCounted(m)'
  <2>1. PICK n, n1 : n = Len(m.drv.queue) /\ n1 = Len(tail)
    OBVIOUS
  <2>2. m.drv.made = m.drv.done + n /\ n \in Nat /\ n1 = n - 1
    BY <1>1, <1>5, <2>1 DEF FlipsCounted
  <2>3. PICK before : before = m.drv.done
    OBVIOUS
  <2>4. m.drv.made = before + n /\ before \in Nat /\ n \in Nat /\ n1 = n - 1 /\ done = before + 1
    BY <1>2, <1>4, <2>2, <2>3
  <2>5. m.drv.made = done + n1
    BY <2>4
  <2>. QED
    BY <1>6, <1>7, <1>9, <2>1, <2>5 DEF FlipsCounted
<1>. QED
  BY <1>12, <1>13, <1>14, <1>15 DEF FbInv

LEMMA ModeCompleteKeeps == ASSUME FbInv, ModeComplete \/ UNCHANGED fbVars PROVE FbInv'
<1>1. /\ m' = m /\ afbc' = afbc /\ keep' = keep /\ released' = released /\ early' = early
      /\ asked' = asked /\ played' = played /\ refused' = refused /\ frames' = frames
      /\ skip' \in {skip, FALSE}
  BY DEF ModeComplete, fbVars
<1>2. FbTypeOK'
  BY <1>1 DEF FbInv, FbTypeOK
<1>3. Returned' /\ FlipsCounted(m)'
  BY <1>1 DEF FbInv, Returned, FlipsCounted, Away
<1>4. (~refused => Told(m) /\ Silent(m, played) /\ Follows(m, asked, played))'
  BY <1>1 DEF FbInv, Told, OsdTold, CursorTold, VideoTold, HdrTold, Silent, Follows
<1>. QED
  BY <1>2, <1>3, <1>4 DEF FbInv

LEMMA FbInvStep == ASSUME FbInv, [FbNext]_fbVars PROVE FbInv'
  BY FrameKeeps, SkipFrameKeeps, blankDisplayKeeps, VsyncKeeps, ModeCompleteKeeps DEF FbNext

LEMMA FbInvInit == ASSUME FbInit PROVE FbInv
<1>1. PICK muted \in BOOLEAN, hdr \in {"zero", "junk"} :
         m = [ui |-> [buffer |-> Nothing, fence |-> NoFence],
              target |-> [buffer |-> Nothing],
              osd |-> [blank |-> FALSE, fb |-> Nothing],
              cursor |-> [blank |-> TRUE, rot |-> 0, size |-> 256],
              video |-> [mute |-> muted, type |-> "undefined",
                         axis |-> NoAxis],
              hdr |-> hdr,
              drv |-> [next |-> Nothing, queue |-> <<>>, shown |-> Nothing, made |-> 0,
                       done |-> 0, fence |-> NoFence, at |-> Nothing, rot |-> 0,
                       image |-> Nothing, cursor |-> FALSE, muted |-> muted, disable |-> 0,
                       axis |-> [win |-> Nothing, rot |-> 0], hdr |-> Nothing]]
  BY DEF FbInit
<1>2. /\ released = [b \in UiBuffers \cup Targets |-> NoFence] /\ early = {} /\ asked = Dark
      /\ played = FALSE /\ refused = FALSE /\ frames = 0 /\ skip = FALSE
      /\ afbc \in BOOLEAN /\ keep \in BOOLEAN
  BY DEF FbInit
<1>3. <<>> \in Seq(Pictures) /\ Len(<<>>) = 0
  OBVIOUS
<1>4. m.drv \in Drivers
  BY <1>1, <1>3 DEF Drivers, Pictures, Sites, Rots, Images, NoFence
<1>5. m.video \in VideoState /\ m.cursor \in CursorState
  BY <1>1 DEF VideoState, CursorState, Rots, Sizes
<1>6. m \in Planes
  BY <1>1, <1>4, <1>5 DEF Planes, NoFence
<1>7. Dark \in Scene
  BY DEF Dark, Scene, Pictures
<1>8. FbTypeOK
  BY <1>2, <1>6, <1>7 DEF FbTypeOK, NoFence
<1>9. FlipsCounted(m)
  BY <1>1, <1>3 DEF FlipsCounted
<1>10. \A b \in DOMAIN released : b # Nothing
  BY <1>2, FbAssumption
<1>11. m.ui.buffer = Nothing /\ m.target.buffer = Nothing /\ m.drv.next = Nothing
       /\ m.drv.shown = Nothing /\ m.drv.queue = <<>>
  BY <1>1
<1>12. Returned
  <2>1. ASSUME NEW b \in DOMAIN released
        PROVE  Away(m, b, released[b])
    BY <1>3, <1>10, <1>11 DEF Away
  <2>. QED
    BY <1>10, <1>11, <2>1 DEF Returned
<1>13. Told(m) /\ Silent(m, played)
  BY <1>1, <1>2 DEF Told, OsdTold, CursorTold, VideoTold, HdrTold, Silent
<1>14. Follows(m, asked, played)
  BY <1>1, <1>2 DEF Follows, Dark
<1>. QED
  BY <1>8, <1>9, <1>12, <1>13, <1>14 DEF FbInv

(* Every member of the display, and every value its drivers were told, stays  *)
(* of its kind, through any order of frames, blanks, refusals and vsyncs.     *)
THEOREM FbTypeCorrect == FbSpec => []FbTypeOK
<1>1. FbInv => FbTypeOK
  BY DEF FbInv
<1>. QED
  BY FbInvInit, FbInvStep, <1>1, PTL DEF FbSpec

(* SurfaceFlinger never draws into a buffer the display reads, whatever the    *)
(* layers and the order of frames, skipped frames, blanks and vsyncs: the     *)
(* fence a buffer goes back with is that of a flip no later flip shows it     *)
(* after (OsdPlane::setPlane, Hwc2Display::getReleaseFences, CrtcFbdev::pageFlip). *)
THEOREM BuffersNotOverwritten == FbSpec => []NotOverwritten
<1>1. ASSUME FbInv
      PROVE  NotOverwritten
  <2>1. m \in Planes /\ m.drv \in Drivers /\ released \in [DOMAIN released -> Nat]
    BY <1>1 DEF FbInv, FbTypeOK, Planes
  <2>2. m.drv.done \in Nat /\ m.drv.queue \in Seq(Pictures)
    BY <2>1 DEF Drivers
  <2>3. ASSUME ~refused, NEW b \in Signalled(DOMAIN released), b \notin early
        PROVE  b \notin {m.drv.shown, m.drv.next} \cup ToSet(m.drv.queue)
    <3>1. b \in DOMAIN released /\ released[b] <= m.drv.done /\ released[b] \in Nat
      BY <2>1, <2>3 DEF Signalled
    <3>2. Away(m, b, released[b])
      BY <1>1, <2>3, <3>1 DEF FbInv, Returned
    <3>3. b # m.drv.next /\ b # m.drv.shown
      BY <2>2, <3>1, <3>2 DEF Away
    <3>4. ASSUME NEW i \in 1 .. Len(m.drv.queue), m.drv.queue[i] = b
          PROVE  FALSE
      <4>1. released[b] > m.drv.done + i
        BY <3>2, <3>4 DEF Away
      <4>. QED
        BY <2>2, <3>1, <4>1
    <3>5. b \notin ToSet(m.drv.queue)
      BY <2>2, <3>4 DEF ToSet
    <3>. QED
      BY <3>3, <3>5
  <2>. QED
    BY <2>3 DEF NotOverwritten
<1>. QED
  BY FbInvInit, FbInvStep, <1>1, PTL DEF FbSpec

(* Every plane is as the last frame asked, though it only tells its driver    *)
(* what it believes has changed: what OsdPlane, CursorPlane, LegacyVideoPlane *)
(* and the crtc's hdr data remember is what their drivers were told.          *)
THEOREM PlanesStayFollowing == FbSpec => []PlanesFollow
<1>1. ASSUME FbInv
      PROVE  PlanesFollow
  <2>1. ~refused => Follows(m, asked, played)
    BY <1>1 DEF FbInv
  <2>. QED
    BY <2>1 DEF Follows, AxisOf, PlanesFollow
<1>. QED
  BY FbInvInit, FbInvStep, <1>1, PTL DEF FbSpec
=============================================================================
