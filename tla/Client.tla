------------------------------- MODULE Client -------------------------------
(***************************************************************************)
(* The composer service of one display: a client's calls, each under the      *)
(* client's mStateMutex, the buffer handles it imports for SurfaceFlinger      *)
(* (ComposerResources), the layers of Hwc2Display they are for, the hotplug    *)
(* events that renew or remove both without that mutex, and a client's death   *)
(* while the next one is already made.  Displays are in one layer table each, *)
(* so one display is enough; virtual displays are compiled out.               *)
(***************************************************************************)
EXTENDS Naturals, FiniteSets, Functions

CONSTANTS Clients,            \* clients, one after the other
          Handles,            \* handles an import may return
          Null,               \* no handle
          BufferSlots,        \* buffer slots of a layer and of the client target
          LayerSlots,         \* MAX_HWC_LAYERS, slots of the layer bitmap
          Seqs,               \* MAX_HWC_LAYERS, sequence numbers
          MaxOps, MaxPlugs    \* bounds: calls of SurfaceFlinger, plug events

ASSUME ClientAssumption ==
    /\ Null \notin Handles /\ "none" \notin Clients
    /\ Cardinality(BufferSlots) \in Nat /\ BufferSlots = 1..Cardinality(BufferSlots)
    /\ LayerSlots \subseteq Nat /\ Seqs \in Nat \ {0}

VARIABLES layers,     \* Hwc2Display::mLayers: ids to the number of the layer
          bitmap,     \* mLayersBitmap
          made,       \* layers made so far; mLayerSeq is made % Seqs
          presented,  \* ~mFirstPresent
          primary,    \* HWC_DISPLAY_PRIMARY, with hotplug enabled
          plug,       \* the connector
          mEventCallback, \* the client the HAL calls, or "none"
          stage,      \* each client's life
          res,        \* each client's ComposerResources
          op,         \* the call a client is in
          event,      \* hotplug callbacks under way, by thread
          known,      \* the layers SurfaceFlinger knows, ids to numbers
          live,       \* imported handles that were not freed
          ops, plugs

hal == <<layers, bitmap, made>>
cvars == <<layers, bitmap, made, presented, primary, plug, mEventCallback, stage, res,
           op, event, known, live, ops, plugs>>

NoFun == [x \in {} |-> 0]
NoDisplay == [has |-> FALSE, sized |-> FALSE, target |-> NoFun, layers |-> NoFun]
NewDisplay == [NoDisplay EXCEPT !.has = TRUE]
NewLayer(n) == [number |-> n, buffers |-> [s \in BufferSlots |-> Null],
                stream |-> [s \in {0} |-> Null]]
Idle == [pc |-> "idle"]
Callbacks == {"register", "hotplug"}

ClientInit ==
    /\ layers = NoFun /\ bitmap = {} /\ made = 0 /\ presented = FALSE
    /\ primary \in BOOLEAN /\ plug = primary
    /\ mEventCallback = "none"
    /\ stage = [c \in Clients |-> "none"]
    /\ res = [c \in Clients |-> NoDisplay]
    /\ op = [c \in Clients |-> Idle]
    /\ event = [t \in Callbacks |-> Idle]
    /\ known = [c \in Clients |-> NoFun]
    /\ live = {} /\ ops = 0 /\ plugs = 0

-----------------------------------------------------------------------------
(* Handles: what a display or a layer of the resources owns                   *)

In(f) == Range(f) \ {Null}
OfLayer(l) == In(l.buffers) \cup In(l.stream)
OfDisplay(d) == In(d.target) \cup UNION {OfLayer(d.layers[i]) : i \in DOMAIN d.layers}

Without(f, x) == Restrict(f, DOMAIN f \ {x})
With(f, x, y) == [z \in DOMAIN f \cup {x} |-> IF z = x THEN y ELSE f[z]]

-----------------------------------------------------------------------------
(* The layers of Hwc2Display                                                 *)

Slot(id) == id[1]

(* getZeroBit takes the lowest slot.                                          *)
FreeSlot == CHOOSE s \in LayerSlots \ bitmap : \A r \in LayerSlots \ bitmap : s <= r

(* Mutant: an id is its slot.                                                 *)
SlotOnly == <<FreeSlot, 0>>

(* A layer under the id it gets; emplace keeps a layer that has it already.   *)
createLayerId == <<FreeSlot, (made + 1) % Seqs>>
halCreateLayer ==
    /\ LayerSlots \ bitmap # {}
    /\ made' = made + 1 /\ bitmap' = bitmap \cup {FreeSlot}
    /\ layers' = IF createLayerId \in DOMAIN layers THEN layers
                 ELSE With(layers, createLayerId, made + 1)

halDestroyLayer(id) ==
    /\ id \in DOMAIN layers
    /\ layers' = Without(layers, id) /\ bitmap' = bitmap \ {Slot(id)}
    /\ UNCHANGED made

(* All layers go and the bitmap is cleared; the sequence goes on.             *)
cleanupBeforeDestroy == layers' = NoFun /\ bitmap' = {} /\ UNCHANGED made

-----------------------------------------------------------------------------
(* A client and its calls                                                    *)

Calls(c) == stage[c] = "live" /\ op[c] = Idle /\ ops < MaxOps /\ ops' = ops + 1
Ends(c) == op' = [op EXCEPT ![c] = Idle]
OpAt(c, pc) == op[c].pc = pc

(* Composer::createClient: the previous client has to be expired, which it is *)
(* before its destructor has run.                                             *)
createClient(c) ==
    /\ stage[c] = "none" /\ \A d \in Clients : stage[d] \notin {"made", "live"}
    /\ stage' = [stage EXCEPT ![c] = "made"]
    /\ UNCHANGED <<hal, presented, primary, plug, mEventCallback, res, op, event, known,
                   live, ops, plugs>>

(* registerEventCallback, once: the HAL calls hotplug at once for a display   *)
(* that is connected, and for the primary one always.                        *)
registerCallback(c) ==
    /\ stage[c] = "made" /\ stage' = [stage EXCEPT ![c] = "live"]
    /\ mEventCallback' = c
    /\ event' = [event EXCEPT !["register"] =
                    IF primary \/ plug THEN [pc |-> "look", client |-> c, connected |-> TRUE]
                    ELSE Idle]
    /\ UNCHANGED <<hal, presented, primary, plug, res, op, known, live, ops, plugs>>

(* SurfaceFlinger gives the client up: from here it is expired.               *)
expire(c) ==
    /\ stage[c] = "live" /\ op[c] = Idle /\ event["register"] = Idle
    /\ stage' = [stage EXCEPT ![c] = "expired"] /\ known' = [known EXCEPT ![c] = NoFun]
    /\ UNCHANGED <<hal, presented, primary, plug, mEventCallback, res, op, event, live,
                   ops, plugs>>

(* ~ComposerClient, first the callbacks, whoever registered them.             *)
unregisterEventCallback(c) ==
    /\ stage[c] = "expired"
    /\ mEventCallback' = "none" /\ stage' = [stage EXCEPT ![c] = "silent"]
    /\ UNCHANGED <<hal, presented, primary, plug, res, op, event, known, live, ops, plugs>>

(* destroyResources: the layers the client knows are destroyed in the HAL, a  *)
(* frame is presented, and every cache goes.  An event under way for the      *)
(* client is waited for here; the code only hopes that there is none.         *)
destroyResources(c) ==
    /\ stage[c] = "silent"
    /\ \A t \in Callbacks : event[t] # Idle => event[t].client # c
    /\ LET ids == DOMAIN res[c].layers \cap DOMAIN layers
       IN /\ layers' = Restrict(layers, DOMAIN layers \ ids)
          /\ bitmap' = bitmap \ {Slot(i) : i \in ids}
    /\ presented' = (presented \/ res[c].has)
    /\ live' = live \ OfDisplay(res[c])
    /\ res' = [res EXCEPT ![c] = NoDisplay] /\ stage' = [stage EXCEPT ![c] = "dead"]
    /\ UNCHANGED <<made, primary, plug, mEventCallback, op, event, known, ops, plugs>>

presentDisplay(c) ==
    /\ Calls(c) /\ res[c].has
    /\ presented' = TRUE
    /\ UNCHANGED <<hal, primary, plug, mEventCallback, stage, res, op, event, known, live, plugs>>

(* initCache does nothing the second time.                                   *)
Sized(d, n) == IF d.has /\ ~d.sized
               THEN [d EXCEPT !.sized = TRUE, !.target = [s \in 1..n |-> Null]] ELSE d
setClientTargetSlotCount(c) ==
    /\ Calls(c)
    /\ res' = [res EXCEPT ![c] = Sized(@, Cardinality(BufferSlots))]
    /\ UNCHANGED <<hal, presented, primary, plug, mEventCallback, stage, op, event, known,
                   live, plugs>>

-----------------------------------------------------------------------------
(* createLayer, destroyLayer                                                 *)

createLayer(c) ==
    /\ Calls(c) /\ halCreateLayer
    /\ op' = [op EXCEPT ![c] = [pc |-> "add", id |-> createLayerId, number |-> made + 1]]
    /\ UNCHANGED <<presented, primary, plug, mEventCallback, stage, res, event, known, live, plugs>>

(* The resources may have been renewed, or removed, since.                   *)
addLayer(c) ==
    /\ OpAt(c, "add")
    /\ LET id == op[c].id IN
       IF res[c].has /\ id \notin DOMAIN res[c].layers
       THEN /\ res' = [res EXCEPT ![c].layers = With(@, id, NewLayer(op[c].number))]
            /\ known' = [known EXCEPT ![c] = With(@, id, op[c].number)]
            /\ Ends(c)
       ELSE op' = [op EXCEPT ![c].pc = "undo"] /\ UNCHANGED <<res, known>>
    /\ UNCHANGED <<hal, presented, primary, plug, mEventCallback, stage, event, live, ops, plugs>>

destroyLayer(c) ==
    /\ Calls(c)
    /\ \E id \in DOMAIN known[c] :
          /\ op' = [op EXCEPT ![c] = [pc |-> "undo", id |-> id]]
          /\ known' = [known EXCEPT ![c] = Without(@, id)]
    /\ UNCHANGED <<hal, presented, primary, plug, mEventCallback, stage, res, event, live, plugs>>

(* A layer the HAL does not know leaves the resources as they are.           *)
undoLayer(c) ==
    /\ OpAt(c, "undo")
    /\ IF op[c].id \in DOMAIN layers
       THEN halDestroyLayer(op[c].id) /\ op' = [op EXCEPT ![c].pc = "remove"]
       ELSE Ends(c) /\ UNCHANGED hal
    /\ UNCHANGED <<presented, primary, plug, mEventCallback, stage, res, event, known, live,
                   ops, plugs>>

removeLayer(c) ==
    /\ OpAt(c, "remove")
    /\ LET id == op[c].id IN
       IF id \in DOMAIN res[c].layers
       THEN /\ live' = live \ OfLayer(res[c].layers[id])
            /\ res' = [res EXCEPT ![c].layers = Without(@, id)]
       ELSE UNCHANGED <<res, live>>
    /\ Ends(c)
    /\ UNCHANGED <<hal, presented, primary, plug, mEventCallback, stage, event, known, ops, plugs>>

-----------------------------------------------------------------------------
(* setLayerBuffer, setLayerSidebandStream, setClientTarget                   *)

(* The import comes first, without a lock; from the cache nothing is imported.*)
(* slot 0 is the stream's.                                                    *)
import(c, cache, id, slot, handle, fromCache) ==
    /\ Calls(c)
    /\ handle \in (Handles \ live) \cup {Null} /\ (fromCache => handle = Null)
    /\ live' = live \cup ({handle} \ {Null})
    /\ op' = [op EXCEPT ![c] = [pc |-> "look", cache |-> cache, id |-> id, slot |-> slot,
                                    fromCache |-> fromCache, handle |-> handle]]
    /\ UNCHANGED <<hal, presented, primary, plug, mEventCallback, stage, res, event, known, plugs>>

setLayerBuffer(c) ==
    \E id \in DOMAIN known[c], s \in BufferSlots, h \in Handles \cup {Null}, b \in BOOLEAN :
        import(c, "buffers", id, s, h, b)
setLayerSidebandStream(c) ==
    \E id \in DOMAIN known[c], h \in Handles : import(c, "stream", id, 0, h, FALSE)
setClientTarget(c) ==
    \E s \in BufferSlots, h \in Handles \cup {Null}, b \in BOOLEAN :
        import(c, "target", 0, s, h, b)

(* The cache of the resources a call is about; without one, or without the    *)
(* slot, the call is in error.                                                *)
CacheOf(c) ==
    IF op[c].cache = "target" THEN res[c].target
    ELSE IF op[c].id \in DOMAIN res[c].layers THEN res[c].layers[op[c].id][op[c].cache]
    ELSE NoFun
Bad(c) == op[c].slot \notin DOMAIN CacheOf(c)
(* Mutant: no clean-up on errors.                                             *)
KeepsImport(c) == live' = live
FreesImport(c) == live' = live \ {op[c].handle}

(* A stream releases every buffer of the layer first.                         *)
Updated(c, handle) ==
    LET k == op[c] IN
    CASE k.cache = "target" -> [res[c] EXCEPT !.target[k.slot] = handle]
      [] k.cache = "buffers" -> [res[c] EXCEPT !.layers[k.id].buffers[k.slot] = handle]
      [] OTHER -> [res[c] EXCEPT !.layers[k.id].stream[0] = handle,
                                 !.layers[k.id].buffers = [s \in BufferSlots |-> Null]]
Released(c) == IF op[c].cache = "stream" THEN In(res[c].layers[op[c].id].buffers) ELSE {}

(* getHandle, under mDisplayResourcesMutex: on an error the import is freed,  *)
(* else the handle it replaces waits until the HAL has the new one.           *)
getHandle(c) ==
    /\ OpAt(c, "look")
    /\ LET k == op[c] IN
       IF Bad(c) THEN FreesImport(c) /\ Ends(c) /\ UNCHANGED res
       ELSE IF k.fromCache THEN
            op' = [op EXCEPT ![c] = [pc |-> "set", replaced |-> Null]] /\ UNCHANGED <<res, live>>
       ELSE /\ op' = [op EXCEPT ![c] = [pc |-> "set", replaced |-> CacheOf(c)[k.slot]]]
            /\ res' = [res EXCEPT ![c] = Updated(c, k.handle)]
            /\ live' = live \ Released(c)
    /\ UNCHANGED <<hal, presented, primary, plug, mEventCallback, stage, event, known, ops, plugs>>

(* The HAL takes a reference of its own to the buffer, and the releaser frees *)
(* what was replaced.                                                         *)
setInHal(c) ==
    /\ OpAt(c, "set")
    /\ live' = live \ {op[c].replaced} /\ Ends(c)
    /\ UNCHANGED <<hal, presented, primary, plug, mEventCallback, stage, res, event, known, ops,
                   plugs>>

(* setLayerBufferSlotsToClear: one releaser for all slots frees each handle   *)
(* when the next one is put in it.                                            *)
clearSlots(c) ==
    /\ Calls(c)
    /\ \E id \in DOMAIN known[c], todo \in SUBSET BufferSlots :
          /\ todo # {}
          /\ op' = [op EXCEPT ![c] = [pc |-> "clear", id |-> id, todo |-> todo,
                                          replaced |-> Null]]
    /\ UNCHANGED <<hal, presented, primary, plug, mEventCallback, stage, res, event, known, live,
                   plugs>>
clearSlot(c) ==
    /\ OpAt(c, "clear")
    /\ LET k == op[c] IN
       /\ live' = live \ {k.replaced}
       /\ IF k.todo = {} \/ k.id \notin DOMAIN res[c].layers THEN Ends(c) /\ UNCHANGED res
          ELSE \E s \in k.todo :
               /\ op' = [op EXCEPT ![c].todo = @ \ {s},
                                       ![c].replaced = res[c].layers[k.id].buffers[s]]
               /\ res' = [res EXCEPT ![c].layers[k.id].buffers[s] = Null]
    /\ UNCHANGED <<hal, presented, primary, plug, mEventCallback, stage, event, known, ops, plugs>>

-----------------------------------------------------------------------------
(* Hotplug                                                                   *)

(* onHotplug(false) of Hwc2Display, and onModeChanged after a plug-in: the    *)
(* layers go, and the HAL tells.  On a plug-in layers stay if no frame was    *)
(* presented yet, or the primary display has no hotplug.                      *)
Notify == event' = [event EXCEPT !["hotplug"] = [pc |-> "notify", client |-> "none"]]
onPlugOut ==
    /\ plug /\ event["hotplug"] = Idle /\ plugs < MaxPlugs /\ plugs' = plugs + 1
    /\ plug' = FALSE /\ cleanupBeforeDestroy /\ Notify
    /\ UNCHANGED <<presented, primary, mEventCallback, stage, res, op, known, live, ops>>
onModeChanged ==
    /\ ~plug /\ event["hotplug"] = Idle /\ plugs < MaxPlugs /\ plugs' = plugs + 1
    /\ plug' = TRUE /\ Notify
    /\ IF presented THEN cleanupBeforeDestroy ELSE UNCHANGED hal
    /\ UNCHANGED <<presented, primary, mEventCallback, stage, res, op, known, live, ops>>

(* MesonHwc2::onHotplug: for the primary display a plug-out is one more       *)
(* connect; another display is cleaned up once more.                          *)
onHotplug ==
    /\ event["hotplug"].pc = "notify"
    /\ IF primary \/ plug THEN UNCHANGED hal ELSE cleanupBeforeDestroy
    /\ event' = [event EXCEPT !["hotplug"] =
                    IF mEventCallback = "none" THEN Idle
                    ELSE [pc |-> "look", client |-> mEventCallback,
                          connected |-> primary \/ plug]]
    /\ UNCHANGED <<presented, primary, plug, mEventCallback, stage, res, op, known, live,
                   ops, plugs>>

(* HalEventCallback::onHotplug, without mStateMutex.  A display known before  *)
(* is removed and added again with the size its target cache had.             *)
Told(t) == event' = [event EXCEPT ![t] = Idle]
EventAt(t, pc) == event[t].pc = pc
callbackLook(t) ==
    /\ EventAt(t, "look")
    /\ LET e == event[t]
           d == res[e.client]
       IN event' = [event EXCEPT ![t] =
              [pc |-> IF ~e.connected \/ d.has THEN "remove" ELSE "add", client |-> e.client,
               connected |-> e.connected, again |-> e.connected /\ d.has,
               size |-> Cardinality(DOMAIN d.target)]]
    /\ UNCHANGED <<hal, presented, primary, plug, mEventCallback, stage, res, op, known, live,
                   ops, plugs>>
(* cleanDisplayResources gives the cached targets to the HAL once more, which *)
(* changes neither cache nor handles.                                         *)
callbackRemove(t) ==
    /\ EventAt(t, "remove")
    /\ LET c == event[t].client IN
       /\ live' = live \ OfDisplay(res[c])
       /\ res' = [res EXCEPT ![c] = NoDisplay]
    /\ IF event[t].connected THEN event' = [event EXCEPT ![t].pc = "add"] ELSE Told(t)
    /\ UNCHANGED <<hal, presented, primary, plug, mEventCallback, stage, op, known, ops, plugs>>
callbackAdd(t) ==
    /\ EventAt(t, "add")
    /\ res' = [res EXCEPT ![event[t].client] = IF @.has THEN @ ELSE NewDisplay]
    /\ IF event[t].again THEN event' = [event EXCEPT ![t].pc = "size"] ELSE Told(t)
    /\ UNCHANGED <<hal, presented, primary, plug, mEventCallback, stage, op, known, live, ops,
                   plugs>>
callbackSize(t) ==
    /\ EventAt(t, "size")
    /\ res' = [res EXCEPT ![event[t].client] = Sized(@, event[t].size)]
    /\ Told(t)
    /\ UNCHANGED <<hal, presented, primary, plug, mEventCallback, stage, op, known, live, ops,
                   plugs>>

-----------------------------------------------------------------------------
ClientLife(c) ==
    \/ createClient(c) \/ registerCallback(c) \/ expire(c)
    \/ unregisterEventCallback(c) \/ destroyResources(c)
LayerCall(c) ==
    \/ createLayer(c) \/ addLayer(c) \/ destroyLayer(c) \/ undoLayer(c) \/ removeLayer(c)
BufferCall(c) ==
    \/ setClientTargetSlotCount(c) \/ setLayerBuffer(c) \/ setLayerSidebandStream(c)
    \/ setClientTarget(c) \/ getHandle(c) \/ setInHal(c) \/ clearSlots(c) \/ clearSlot(c)
    \/ presentDisplay(c)
Callback(t) == callbackLook(t) \/ callbackRemove(t) \/ callbackAdd(t) \/ callbackSize(t)

ClientNext ==
    \/ \E c \in Clients : ClientLife(c) \/ LayerCall(c) \/ BufferCall(c)
    \/ \E t \in Callbacks : Callback(t)
    \/ onPlugOut \/ onModeChanged \/ onHotplug

ClientSpec == ClientInit /\ [][ClientNext]_cvars

-----------------------------------------------------------------------------
(* How many places own a handle: a slot of a cache, or a call that has        *)
(* imported it, or replaced it and will free it.                              *)
Owners(h) ==
    Cardinality({o \in Clients \X BufferSlots :
        o[2] \in DOMAIN res[o[1]].target /\ res[o[1]].target[o[2]] = h})
    + Cardinality({o \in Clients \X LayerSlots \X (0..Seqs - 1) \X (BufferSlots \cup {0}) :
        LET of == res[o[1]].layers
            id == <<o[2], o[3]>>
        IN id \in DOMAIN of /\ (IF o[4] = 0 THEN of[id].stream ELSE of[id].buffers)[o[4]] = h})
    + Cardinality({o \in Clients \X {"handle", "replaced"} :
        o[2] \in DOMAIN op[o[1]] /\ op[o[1]][o[2]] = h})

(* No imported handle is lost and none is freed twice, or while a cache still  *)
(* has it: it has exactly one owner, however the calls of SurfaceFlinger, the  *)
(* hotplug thread that renews the display's resources in the middle of one,   *)
(* and a dying client interleave.                                             *)
HandlesOwned == \A h \in Handles : Owners(h) = (IF h \in live THEN 1 ELSE 0)

(* An id that SurfaceFlinger or a client's resources keep never names another *)
(* layer, not even after a hotplug has cleared the layers and the bitmap, or   *)
(* for a client that dies after the next one has made layers: unless Seqs      *)
(* layers were made in between.                                               *)
SameLayer(id, number) ==
    id \in DOMAIN layers => layers[id] = number \/ layers[id] >= number + Seqs
IdsNameOneLayer ==
    \A c \in Clients :
        /\ \A id \in DOMAIN known[c] : SameLayer(id, known[c][id])
        /\ \A id \in DOMAIN res[c].layers : SameLayer(id, res[c].layers[id].number)
=============================================================================
