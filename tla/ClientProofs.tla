---------------------------- MODULE ClientProofs ----------------------------
(***************************************************************************)
(* Proofs about the two services.  Client: every imported handle has exactly  *)
(* one owner, and an id that anybody keeps never names another layer.         *)
(* DisplayIpc, for any number of calling threads, any limit of the record,    *)
(* any number of tries and of deaths of the server: no client stays ready for *)
(* a dead server without hearing of it, calls are answered in full, and the   *)
(* record fits the calls in progress.                                         *)
(***************************************************************************)
EXTENDS Client, DisplayIpc, FiniteSetTheorems, WellFoundedInduction, TLAPS

(* Functions on a part of S.                                                  *)
Partial(S, T) == UNION {[D -> T] : D \in SUBSET S}

Ids == LayerSlots \X (0..Seqs - 1)
Import == Handles \cup {Null}
Layer == [number : Nat, buffers : [BufferSlots -> Import], stream : [{0} -> Import]]
Display == [has : BOOLEAN, sized : BOOLEAN,
            target : [{} -> Import] \cup [BufferSlots -> Import], layers : Partial(Ids, Layer)]

(* A display that SurfaceFlinger has not heard of is empty, and so is a target *)
(* cache without a size.                                                      *)
DisplayOK(d) == (~d.has => d = NoDisplay) /\ (~d.sized => d.target = NoFun)

Adding == [pc : {"add", "undo", "remove"}, id : Ids, number : Nat]
Undoing == [pc : {"undo", "remove"}, id : Ids]
Looks(cache, ids, slots) ==
    {o \in [pc : {"look"}, cache : {cache}, id : ids, slot : slots, fromCache : BOOLEAN,
            handle : Import] : o.fromCache => o.handle = Null}
Looking == Looks("target", {0}, BufferSlots) \cup Looks("buffers", Ids, BufferSlots)
           \cup Looks("stream", Ids, {0})
SettingOp == [pc : {"set"}, replaced : Import]
Clearing == [pc : {"clear"}, id : Ids, todo : SUBSET BufferSlots, replaced : Import]
Op == {Idle} \cup Adding \cup Undoing \cup Looking \cup SettingOp \cup Clearing

Notifying == [pc : {"notify"}, client : {"none"}]
Telling == [pc : {"look"}, client : Clients, connected : BOOLEAN]
Renewing == [pc : {"remove", "add", "size"}, client : Clients, connected : BOOLEAN,
             again : BOOLEAN, size : {0, Cardinality(BufferSlots)}]
Event == {Idle} \cup Notifying \cup Telling \cup Renewing

TypeOK ==
    /\ layers \in Partial(Ids, Nat) /\ bitmap \subseteq LayerSlots /\ made \in Nat
    /\ presented \in BOOLEAN /\ primary \in BOOLEAN /\ plug \in BOOLEAN
    /\ mEventCallback \in Clients \cup {"none"}
    /\ stage \in [Clients -> {"none", "made", "live", "expired", "silent", "dead"}]
    /\ res \in [Clients -> Display] /\ \A c \in Clients : DisplayOK(res[c])
    /\ op \in [Clients -> Op]
    /\ event \in [Callbacks -> Event]
    /\ known \in [Clients -> Partial(Ids, Nat)]
    /\ live \subseteq Handles /\ ops \in Nat /\ plugs \in Nat

-----------------------------------------------------------------------------
(* Functions on a part of a set                                              *)

LEMMA PartialDef ==
    ASSUME NEW S, NEW T, NEW f
    PROVE  f \in Partial(S, T)
           <=> /\ DOMAIN f \subseteq S /\ f = [x \in DOMAIN f |-> f[x]]
               /\ \A x \in DOMAIN f : f[x] \in T
BY DEF Partial

LEMMA WithoutPartial ==
    ASSUME NEW S, NEW T, NEW f \in Partial(S, T), NEW x
    PROVE  Without(f, x) \in Partial(S, T)
<1>1. DOMAIN f \subseteq S /\ \A y \in DOMAIN f : f[y] \in T
  BY PartialDef
<1>. DEFINE g == Without(f, x)
<1>2. DOMAIN g \subseteq S /\ g = [y \in DOMAIN g |-> g[y]] /\ \A y \in DOMAIN g : g[y] \in T
  BY <1>1 DEF Without, With, Restrict
<1>. HIDE DEF g
<1>3. g \in Partial(S, T)
  BY <1>2, PartialDef
<1>. QED
  BY <1>3 DEF g

LEMMA WithPartial ==
    ASSUME NEW S, NEW T, NEW f \in Partial(S, T), NEW x \in S, NEW v \in T
    PROVE  With(f, x, v) \in Partial(S, T)
<1>1. DOMAIN f \subseteq S /\ \A y \in DOMAIN f : f[y] \in T
  BY PartialDef
<1>. DEFINE g == With(f, x, v)
<1>2. DOMAIN g \subseteq S /\ g = [y \in DOMAIN g |-> g[y]] /\ \A y \in DOMAIN g : g[y] \in T
  BY <1>1 DEF Without, With, Restrict
<1>. HIDE DEF g
<1>3. g \in Partial(S, T)
  BY <1>2, PartialDef
<1>. QED
  BY <1>3 DEF g

LEMMA NoFunPartial ==
    ASSUME NEW S, NEW T
    PROVE  NoFun \in Partial(S, T) /\ DOMAIN NoFun = {} /\ NoFun \in [{} -> T]
BY DEF Partial, NoFun

LEMMA PartialUpdate ==
    ASSUME NEW S, NEW T, NEW f \in Partial(S, T), NEW x \in DOMAIN f, NEW v \in T
    PROVE  /\ [f EXCEPT ![x] = v] \in Partial(S, T)
           /\ DOMAIN [f EXCEPT ![x] = v] = DOMAIN f
           /\ [f EXCEPT ![x] = v][x] = v
           /\ \A y \in DOMAIN f \ {x} : [f EXCEPT ![x] = v][y] = f[y]
BY DEF Partial

-----------------------------------------------------------------------------
(* What is known of a call by the place it is at                             *)

LEMMA OpShape ==
    ASSUME NEW o \in Op
    PROVE  /\ o.pc = "add" => o \in Adding
           /\ o.pc \in {"undo", "remove"} => o \in Adding \cup Undoing
           /\ o.pc = "look" => o \in Looking
           /\ o.pc = "set" => o \in SettingOp
           /\ o.pc = "clear" => o \in Clearing
BY DEF Op, Idle, Adding, Undoing, Looking, Looks, SettingOp, Clearing

LEMMA EventShape ==
    ASSUME NEW e \in Event
    PROVE  /\ e.pc = "look" => e \in Telling
           /\ e.pc \in {"remove", "add", "size"} => e \in Renewing
BY DEF Event, Idle, Notifying, Telling, Renewing

-----------------------------------------------------------------------------
(* The ids of layers                                                         *)

LessThan == {p \in Nat \X Nat : p[1] < p[2]}

LEMMA LeastNat ==
    ASSUME NEW T, T \subseteq Nat, T # {}
    PROVE  \E s \in T : \A r \in T : s <= r
<1>1. IsWellFoundedOn(LessThan, Nat)
  BY NatLessThanWellFounded DEF OpToRel, LessThan
<1>2. PICK s \in T : \A r \in T : ~(<<r, s>> \in LessThan)
  BY <1>1, WFMin
<1>3. ASSUME NEW r \in T PROVE s <= r
  <2>1. <<r, s>> \in Nat \X Nat /\ <<r, s>>[1] = r /\ <<r, s>>[2] = s
    OBVIOUS
  <2>2. ~(r < s)
    BY <2>1, <1>2 DEF LessThan
  <2>. QED
    BY <2>2
<1>. QED
  BY <1>3

(* A layer is made in a slot that is free.                                    *)
LEMMA FreeSlotIsFree ==
    ASSUME LayerSlots \ bitmap # {}
    PROVE  FreeSlot \in LayerSlots \ bitmap
<1>1. \E s \in LayerSlots \ bitmap : \A r \in LayerSlots \ bitmap : s <= r
  BY LeastNat, ClientAssumption
<1>. QED
  BY <1>1 DEF FreeSlot

(* Numbers of one remainder are equal or apart.                               *)
LEMMA SameRemainder ==
    ASSUME NEW k \in Nat \ {0}, NEW m \in Nat, NEW n \in Nat, m % k = n % k, n <= m
    PROVE  m = n \/ m >= n + k
BY SMTT(30)

(* Of layers table L with m layers made: an id and a number that belong       *)
(* together, of which nobody can have an older layer under the id.            *)
Fits(m, id, number) == number <= m /\ number % Seqs = id[2]
Newest(L, m, id, number) == Fits(m, id, number) /\ (id \in DOMAIN L => number <= L[id])

TableOK(L, m, bits) ==
    /\ \A id \in DOMAIN L : Slot(id) \in bits /\ Fits(m, id, L[id])
    /\ \A i, j \in DOMAIN L : Slot(i) = Slot(j) => i = j

KnownOK(L, m, k) == \A id \in DOMAIN k : Newest(L, m, id, k[id])
CacheOK(L, m, d) == \A id \in DOMAIN d.layers : Newest(L, m, id, d.layers[id].number)
OpOK(L, m, o) == o.pc = "add" => Newest(L, m, o.id, o.number)

IdInv ==
    /\ TableOK(layers, made, bitmap)
    /\ \A c \in Clients : /\ KnownOK(layers, made, known[c])
                          /\ CacheOK(layers, made, res[c])
                          /\ OpOK(layers, made, op[c])

LEMMA NewestIsSame ==
    ASSUME NEW id \in Ids, NEW number \in Nat, layers \in Partial(Ids, Nat),
           TableOK(layers, made, bitmap), Newest(layers, made, id, number)
    PROVE  SameLayer(id, number)
<1>. SUFFICES ASSUME id \in DOMAIN layers
              PROVE  layers[id] = number \/ layers[id] >= number + Seqs
  BY DEF SameLayer
<1>1. layers[id] \in Nat /\ Seqs \in Nat \ {0}
  BY PartialDef, ClientAssumption
<1>2. layers[id] % Seqs = number % Seqs /\ number <= layers[id]
  BY DEF TableOK, Newest, Fits
<1>. QED
  BY <1>1, <1>2, SameRemainder

LEMMA IdInvSuffices == TypeOK /\ IdInv => IdsNameOneLayer
<1>. SUFFICES ASSUME TypeOK, IdInv, NEW c \in Clients
              PROVE  /\ \A id \in DOMAIN known[c] : SameLayer(id, known[c][id])
                     /\ \A id \in DOMAIN res[c].layers : SameLayer(id, res[c].layers[id].number)
  BY DEF IdsNameOneLayer
<1>1. /\ layers \in Partial(Ids, Nat) /\ TableOK(layers, made, bitmap)
      /\ known[c] \in Partial(Ids, Nat) /\ res[c].layers \in Partial(Ids, Layer)
      /\ KnownOK(layers, made, known[c]) /\ CacheOK(layers, made, res[c])
  BY DEF TypeOK, Display, IdInv
<1>2. ASSUME NEW id \in DOMAIN known[c] PROVE SameLayer(id, known[c][id])
  <2>1. id \in Ids /\ known[c][id] \in Nat
    BY <1>1, PartialDef
  <2>. QED
    BY <2>1, <1>1, NewestIsSame DEF KnownOK
<1>3. ASSUME NEW id \in DOMAIN res[c].layers PROVE SameLayer(id, res[c].layers[id].number)
  <2>1. id \in Ids /\ res[c].layers[id] \in Layer
    BY <1>1, PartialDef
  <2>2. res[c].layers[id].number \in Nat
    BY <2>1 DEF Layer
  <2>. QED
    BY <2>1, <2>2, <1>1, NewestIsSame DEF CacheOK
<1>. QED
  BY <1>2, <1>3

-----------------------------------------------------------------------------
(* What the operations make of a display of the resources                    *)

SameNumbers(d, e) ==
    \A id \in DOMAIN e.layers : id \in DOMAIN d.layers /\ e.layers[id].number = d.layers[id].number

HeldT(d, s) == IF s \in DOMAIN d.target THEN d.target[s] ELSE Null
OfSlot(l, s) == IF s = 0 THEN l.stream[s] ELSE l.buffers[s]
HeldL(d, id, s) == IF id \in DOMAIN d.layers THEN OfSlot(d.layers[id], s) ELSE Null

Slots == BufferSlots \cup {0}
SameTarget(d, e) == \A s \in BufferSlots : HeldT(e, s) = HeldT(d, s)
SameLayers(d, e) == \A id \in Ids, s \in Slots : HeldL(e, id, s) = HeldL(d, id, s)

GoodDisplay(d) == d \in Display /\ DisplayOK(d)

LEMMA DisplayFields ==
    ASSUME NEW d \in Display
    PROVE  /\ d.has \in BOOLEAN /\ d.sized \in BOOLEAN
           /\ d.target \in [{} -> Import] \cup [BufferSlots -> Import]
           /\ d.layers \in Partial(Ids, Layer)
           /\ DOMAIN d.layers \subseteq Ids /\ \A id \in DOMAIN d.layers : d.layers[id] \in Layer
           /\ DOMAIN d.target \subseteq BufferSlots
           /\ \A s \in DOMAIN d.target : d.target[s] \in Import
<1>1. d.layers \in Partial(Ids, Layer)
  BY DEF Display
<1>2. DOMAIN d.layers \subseteq Ids /\ \A id \in DOMAIN d.layers : d.layers[id] \in Layer
  BY <1>1, PartialDef
<1>3. /\ d.has \in BOOLEAN /\ d.sized \in BOOLEAN
      /\ d.target \in [{} -> Import] \cup [BufferSlots -> Import]
  BY DEF Display
<1>. QED
  BY <1>1, <1>2, <1>3

LEMMA BufferSlotsNotZero == 0 \notin BufferSlots
<1>1. /\ Cardinality(BufferSlots) \in Nat
      /\ \A s : s \in BufferSlots <=> s \in 1..Cardinality(BufferSlots)
  BY ClientAssumption
<1>. QED
  BY <1>1

LEMMA SlotRange == 1..Cardinality(BufferSlots) = BufferSlots /\ 1..0 = {}
<1>1. 1..Cardinality(BufferSlots) = BufferSlots
  BY ClientAssumption
<1>. QED
  BY <1>1

LEMMA NoDisplayGood ==
    /\ GoodDisplay(NoDisplay) /\ GoodDisplay(NewDisplay) /\ NewDisplay.has
    /\ DOMAIN NoDisplay.layers = {} /\ DOMAIN NewDisplay.layers = {}
    /\ DOMAIN NoDisplay.target = {} /\ DOMAIN NewDisplay.target = {}
<1>1. NoFun \in Partial(Ids, Layer) /\ NoFun \in [{} -> Import] /\ DOMAIN NoFun = {}
  BY NoFunPartial
<1>. QED
  BY <1>1 DEF GoodDisplay, DisplayOK, NoDisplay, NewDisplay, Display

LEMMA SizedGood ==
    ASSUME NEW d, GoodDisplay(d), NEW n \in {0, Cardinality(BufferSlots)}
    PROVE  /\ GoodDisplay(Sized(d, n)) /\ SameNumbers(d, Sized(d, n))
           /\ SameTarget(d, Sized(d, n)) /\ SameLayers(d, Sized(d, n))
<1>1. CASE d.has /\ ~d.sized
  <2>. DEFINE f == [s \in 1..n |-> Null]
              e == [d EXCEPT !.sized = TRUE, !.target = f]
  <2>1. 1..n \in {{}, BufferSlots}
    BY SlotRange
  <2>2. f \in [{} -> Import] \cup [BufferSlots -> Import] /\ \A s \in DOMAIN f : f[s] = Null
    BY <2>1 DEF Import
  <2>3. d.target = NoFun /\ d \in Display
    BY <1>1 DEF GoodDisplay, DisplayOK
  <2>. HIDE DEF f
  <2>4. /\ e \in Display /\ e.has /\ e.sized /\ e.target = f /\ e.layers = d.layers
    BY <1>1, <2>2, <2>3 DEF Display
  <2>5. Sized(d, n) = e
    BY <1>1 DEF Sized, f
  <2>. HIDE DEF e
  <2>6. GoodDisplay(e) /\ SameNumbers(d, e) /\ SameLayers(d, e)
    BY <2>4 DEF GoodDisplay, DisplayOK, SameNumbers, SameLayers, HeldL
  <2>7. SameTarget(d, e)
    BY <2>2, <2>3, <2>4, NoFunPartial DEF SameTarget, HeldT
  <2>. QED
    BY <2>5, <2>6, <2>7
<1>2. CASE ~(d.has /\ ~d.sized)
  <2>1. Sized(d, n) = d
    BY <1>2 DEF Sized
  <2>. QED
    BY <2>1 DEF SameNumbers, SameTarget, SameLayers, GoodDisplay
<1>. QED
  BY <1>1, <1>2

LEMMA NewLayerGood ==
    ASSUME NEW n \in Nat, NEW s \in Slots
    PROVE  NewLayer(n) \in Layer /\ NewLayer(n).number = n /\ OfSlot(NewLayer(n), s) = Null
BY BufferSlotsNotZero DEF NewLayer, Layer, OfSlot, Slots, Import

(* A display with other layers.                                              *)
LEMMA OtherLayers ==
    ASSUME NEW d, GoodDisplay(d), d.has, NEW f \in Partial(Ids, Layer),
           NEW e \in Display, e.layers = f, e.target = d.target, e.sized = d.sized, e.has = d.has
    PROVE  GoodDisplay(e) /\ SameTarget(d, e)
BY DEF GoodDisplay, DisplayOK, SameTarget, HeldT

Adds(d, id, n, e) == e = [d EXCEPT !.layers = With(d.layers, id, NewLayer(n))]
LEMMA AddLayerGood ==
    ASSUME NEW d, GoodDisplay(d), d.has, NEW id \in Ids, id \notin DOMAIN d.layers, NEW n \in Nat,
           NEW e, Adds(d, id, n, e)
    PROVE  /\ GoodDisplay(e) /\ SameTarget(d, e) /\ SameLayers(d, e)
           /\ DOMAIN e.layers = DOMAIN d.layers \cup {id}
           /\ e.layers[id].number = n
           /\ \A i \in DOMAIN d.layers : e.layers[i] = d.layers[i]
<1>1. d \in Display
  BY DEF GoodDisplay
<1>2. PICK ls \in Partial(Ids, Layer) : ls = d.layers
  BY <1>1, DisplayFields
<1>3. PICK l \in Layer : l = NewLayer(n) /\ l.number = n
  BY NewLayerGood DEF Slots
<1>4. With(ls, id, l) \in Partial(Ids, Layer)
  BY WithPartial
<1>10. /\ DOMAIN With(ls, id, l) = DOMAIN ls \cup {id}
       /\ With(ls, id, l)[id] = l
       /\ \A y \in DOMAIN ls \ {id} : With(ls, id, l)[y] = ls[y]
  BY DEF With
<1>5. PICK f \in Partial(Ids, Layer) :
         /\ f = With(d.layers, id, NewLayer(n))
         /\ DOMAIN f = DOMAIN d.layers \cup {id} /\ f[id] = l
         /\ \A y \in DOMAIN d.layers \ {id} : f[y] = d.layers[y]
  BY <1>2, <1>3, <1>4, <1>10
<1>6. e = [d EXCEPT !.layers = f]
  BY <1>5 DEF Adds
<1>7. /\ e \in Display /\ e.layers = f
      /\ e.target = d.target /\ e.sized = d.sized /\ e.has = d.has
  BY <1>1, <1>6 DEF Display
<1>8. GoodDisplay(e) /\ e.layers = f /\ SameTarget(d, e)
  BY <1>7, OtherLayers
<1>9. ASSUME NEW i \in Ids, NEW s \in Slots PROVE HeldL(e, i, s) = HeldL(d, i, s)
  <2>1. OfSlot(l, s) = Null
    BY <1>3, NewLayerGood
  <2>. QED
    BY <2>1, <1>5, <1>8 DEF HeldL
<1>. QED
  BY <1>3, <1>5, <1>8, <1>9 DEF SameLayers

LEMMA RemoveLayerGood ==
    ASSUME NEW d, GoodDisplay(d), d.has, NEW id \in DOMAIN d.layers,
           NEW e, e = [d EXCEPT !.layers = Without(@, id)]
    PROVE  /\ GoodDisplay(e) /\ SameTarget(d, e) /\ SameNumbers(d, e)
           /\ \A i \in Ids, s \in Slots : HeldL(e, i, s) = IF i = id THEN Null ELSE HeldL(d, i, s)
<1>. DEFINE ls == d.layers
            f == Without(ls, id)
<1>1. d \in Display
  BY DEF GoodDisplay
<1>2. ls \in Partial(Ids, Layer) /\ id \in Ids
  BY <1>1, DisplayFields
<1>3. /\ f \in Partial(Ids, Layer) /\ DOMAIN f = DOMAIN d.layers \ {id}
      /\ \A y \in DOMAIN d.layers \ {id} : f[y] = d.layers[y]
  BY <1>2, WithoutPartial DEF Without, Restrict
<1>4. e = [d EXCEPT !.layers = f]
  OBVIOUS
<1>. HIDE DEF f
<1>5. /\ e \in Display /\ e.layers = f
      /\ e.target = d.target /\ e.sized = d.sized /\ e.has = d.has
  BY <1>1, <1>3, <1>4 DEF Display
<1>6. GoodDisplay(e) /\ e.layers = f /\ SameTarget(d, e)
  BY <1>3, <1>5, OtherLayers
<1>. QED
  BY <1>3, <1>6 DEF SameNumbers, HeldL

(* One layer of a display replaced by another of the same number.             *)
LEMMA ReplaceLayerGood ==
    ASSUME NEW d, GoodDisplay(d), d.has, NEW id \in DOMAIN d.layers,
           NEW l \in Layer, l.number = d.layers[id].number,
           NEW e, e = [d EXCEPT !.layers[id] = l]
    PROVE  /\ GoodDisplay(e) /\ SameTarget(d, e) /\ SameNumbers(d, e)
           /\ DOMAIN e.layers = DOMAIN d.layers
           /\ \A i \in Ids, s \in Slots :
                 HeldL(e, i, s) = IF i = id THEN OfSlot(l, s) ELSE HeldL(d, i, s)
<1>. DEFINE f == [d.layers EXCEPT ![id] = l]
<1>1. d \in Display
  BY DEF GoodDisplay
<1>2. d.layers \in Partial(Ids, Layer)
  BY <1>1, DisplayFields
<1>3. /\ f \in Partial(Ids, Layer) /\ DOMAIN f = DOMAIN d.layers /\ f[id] = l
      /\ \A y \in DOMAIN d.layers \ {id} : f[y] = d.layers[y]
  BY <1>2, PartialUpdate
<1>4. e = [d EXCEPT !.layers = f]
  OBVIOUS
<1>. HIDE DEF f
<1>5. /\ e \in Display /\ e.layers = f
      /\ e.target = d.target /\ e.sized = d.sized /\ e.has = d.has
  BY <1>1, <1>3, <1>4 DEF Display
<1>6. GoodDisplay(e) /\ e.layers = f /\ SameTarget(d, e)
  BY <1>3, <1>5, OtherLayers
<1>. QED
  BY <1>3, <1>6 DEF SameNumbers, HeldL

LEMMA TargetSlotGood ==
    ASSUME NEW d, GoodDisplay(d), NEW s \in DOMAIN d.target, NEW h \in Import,
           NEW e, e = [d EXCEPT !.target[s] = h]
    PROVE  /\ GoodDisplay(e) /\ SameLayers(d, e) /\ SameNumbers(d, e)
           /\ \A r \in BufferSlots : HeldT(e, r) = IF r = s THEN h ELSE HeldT(d, r)
<1>. DEFINE f == [d.target EXCEPT ![s] = h]
<1>1. d \in Display
  BY DEF GoodDisplay
<1>2. /\ d.target \in [{} -> Import] \cup [BufferSlots -> Import] /\ DOMAIN d.target \subseteq BufferSlots
  BY <1>1, DisplayFields
<1>3. /\ f \in [{} -> Import] \cup [BufferSlots -> Import] /\ DOMAIN f = DOMAIN d.target
      /\ f[s] = h /\ \A y \in DOMAIN d.target \ {s} : f[y] = d.target[y]
  BY <1>2
<1>4. e = [d EXCEPT !.target = f]
  OBVIOUS
<1>. HIDE DEF f
<1>5. e \in Display /\ e.layers = d.layers /\ e.target = f /\ e.sized = d.sized /\ e.has = d.has
  BY <1>1, <1>3, <1>4 DEF Display
<1>6. d.sized /\ d.has
  BY NoFunPartial, NoDisplayGood DEF GoodDisplay, DisplayOK
<1>. QED
  BY <1>3, <1>5, <1>6 DEF GoodDisplay, DisplayOK, SameLayers, SameNumbers, HeldL, HeldT

-----------------------------------------------------------------------------
(* What the operations make of the layers of the HAL                          *)

HalTyped == layers \in Partial(Ids, Nat) /\ made \in Nat /\ bitmap \subseteq LayerSlots

(* The table stays in order and no id that anybody keeps gets older.          *)
HalStep ==
    /\ HalTyped' /\ TableOK(layers, made, bitmap)'
    /\ \A id \in Ids, n \in Nat :
          Newest(layers, made, id, n) => Newest(layers', made', id, n)

LEMMA HalStays ==
    ASSUME HalTyped, TableOK(layers, made, bitmap), UNCHANGED hal
    PROVE  HalStep
BY DEF HalStep, HalTyped, TableOK, hal

LEMMA HalCleans ==
    ASSUME HalTyped, TableOK(layers, made, bitmap), cleanupBeforeDestroy
    PROVE  HalStep
<1>1. layers' = NoFun /\ bitmap' = {} /\ made' = made
  BY DEF cleanupBeforeDestroy
<1>2. NoFun \in Partial(Ids, Nat) /\ DOMAIN NoFun = {}
  BY NoFunPartial
<1>. QED
  BY <1>1, <1>2 DEF HalStep, HalTyped, TableOK, Newest, Fits

(* Layers are taken away and their slots are free.                            *)
LEMMA HalRemoves ==
    ASSUME HalTyped, TableOK(layers, made, bitmap), NEW gone, gone \subseteq DOMAIN layers,
           layers' = Restrict(layers, DOMAIN layers \ gone),
           bitmap' = bitmap \ {Slot(i) : i \in gone}, made' = made
    PROVE  HalStep
<1>1. layers \in Partial(Ids, Nat)
  BY DEF HalTyped
<1>2. DOMAIN layers \subseteq Ids /\ \A id \in DOMAIN layers : layers[id] \in Nat
  BY <1>1, PartialDef
<1>3. layers' = [y \in DOMAIN layers \ gone |-> layers[y]]
  BY DEF Restrict
<1>4. /\ DOMAIN layers' = DOMAIN layers \ gone
      /\ \A y \in DOMAIN layers \ gone : (layers')[y] = layers[y]
  BY <1>3
<1>5. layers' \in Partial(Ids, Nat)
  <2>1. [y \in DOMAIN layers \ gone |-> layers[y]] \in [DOMAIN layers \ gone -> Nat]
    BY <1>2
  <2>. QED
    BY <2>1, <1>2, <1>3 DEF Partial
<1>6. ASSUME NEW id \in DOMAIN layers \ gone PROVE Slot(id) \in bitmap'
  BY DEF TableOK
<1>7. TableOK(layers, made, bitmap)'
  BY <1>4, <1>6 DEF TableOK, Fits
<1>8. ASSUME NEW id \in Ids, NEW n \in Nat, Newest(layers, made, id, n)
      PROVE  Newest(layers', made', id, n)
  BY <1>4, <1>8 DEF Newest, Fits
<1>. QED
  BY <1>5, <1>7, <1>8 DEF HalStep, HalTyped

LEMMA HalDestroys ==
    ASSUME HalTyped, TableOK(layers, made, bitmap), NEW id, halDestroyLayer(id)
    PROVE  HalStep
<1>1. /\ id \in DOMAIN layers /\ layers' = Restrict(layers, DOMAIN layers \ {id})
      /\ bitmap' = bitmap \ {Slot(id)} /\ made' = made
  BY DEF halDestroyLayer, Without
<1>2. {Slot(i) : i \in {id}} = {Slot(id)} /\ {id} \subseteq DOMAIN layers
  BY <1>1
<1>. QED
  BY <1>1, <1>2, HalRemoves

LEMMA HalCreates ==
    ASSUME HalTyped, TableOK(layers, made, bitmap), halCreateLayer
    PROVE  /\ HalStep /\ createLayerId \in Ids
           /\ Newest(layers', made', createLayerId, made + 1)
<1>. DEFINE n == made + 1
<1>1. FreeSlot \in LayerSlots /\ FreeSlot \notin bitmap
  BY FreeSlotIsFree DEF halCreateLayer
<1>2. n \in Nat /\ n % Seqs \in 0..Seqs - 1 /\ made \in Nat
  BY ClientAssumption DEF HalTyped
<1>3. PICK id \in Ids : createLayerId = id /\ Slot(id) = FreeSlot /\ id[2] = n % Seqs
  <2>1. /\ <<FreeSlot, n % Seqs>> \in Ids /\ Slot(<<FreeSlot, n % Seqs>>) = FreeSlot
        /\ <<FreeSlot, n % Seqs>>[2] = n % Seqs
    BY <1>1, <1>2 DEF Ids, Slot
  <2>. QED
    BY <2>1 DEF createLayerId
<1>4. createLayerId = id
  BY <1>3
<1>5. layers \in Partial(Ids, Nat)
  BY DEF HalTyped
<1>6. DOMAIN layers \subseteq Ids /\ \A i \in DOMAIN layers : layers[i] \in Nat
  BY <1>5, PartialDef
<1>7. id \notin DOMAIN layers
  BY <1>1, <1>3 DEF TableOK
<1>8. layers' = With(layers, id, n) /\ made' = n /\ bitmap' = bitmap \cup {FreeSlot}
  BY <1>4, <1>7 DEF halCreateLayer
<1>. HIDE DEF n
<1>9. /\ With(layers, id, n) \in Partial(Ids, Nat)
      /\ DOMAIN With(layers, id, n) = DOMAIN layers \cup {id}
      /\ With(layers, id, n)[id] = n
      /\ \A y \in DOMAIN layers \ {id} : With(layers, id, n)[y] = layers[y]
  <2>1. With(layers, id, n) \in Partial(Ids, Nat)
    BY <1>2, <1>3, <1>5, WithPartial
  <2>. QED
    BY <2>1 DEF With
<1>10. /\ layers' \in Partial(Ids, Nat) /\ DOMAIN layers' = DOMAIN layers \cup {id}
       /\ (layers')[id] = n /\ \A y \in DOMAIN layers : (layers')[y] = layers[y]
  BY <1>7, <1>8, <1>9
<1>11. \A k \in Nat : k <= made => k <= n
  BY <1>2 DEF n
<1>12. TableOK(layers, made, bitmap)'
  <2>1. ASSUME NEW i \in DOMAIN layers'
        PROVE  Slot(i) \in bitmap' /\ Fits(made', i, (layers')[i])
    <3>1. CASE i = id
      BY <3>1, <1>2, <1>3, <1>8, <1>10 DEF Fits
    <3>2. CASE i # id
      <4>1. i \in DOMAIN layers /\ (layers')[i] = layers[i] /\ layers[i] \in Nat
        BY <3>2, <1>6, <1>10
      <4>. QED
        BY <4>1, <1>8, <1>11 DEF Fits, TableOK
    <3>. QED
      BY <3>1, <3>2
  <2>2. ASSUME NEW i \in DOMAIN layers', NEW j \in DOMAIN layers', Slot(i) = Slot(j)
        PROVE  i = j
    <3>1. \A k \in DOMAIN layers : Slot(k) # FreeSlot
      BY <1>1 DEF TableOK
    <3>. QED
      BY <2>2, <3>1, <1>3, <1>10 DEF TableOK
  <2>. QED
    BY <2>1, <2>2 DEF TableOK
<1>13. ASSUME NEW i \in Ids, NEW k \in Nat, Newest(layers, made, i, k)
       PROVE  Newest(layers', made', i, k)
  <2>1. k <= made /\ k % Seqs = i[2] /\ (i \in DOMAIN layers => k <= layers[i])
    BY <1>13 DEF Newest, Fits
  <2>2. k <= n
    BY <2>1, <1>11
  <2>. QED
    BY <2>1, <2>2, <1>8, <1>10 DEF Newest, Fits
<1>14. Newest(layers', made', id, n)
  BY <1>2, <1>3, <1>8, <1>10 DEF Newest, Fits
<1>15. bitmap' \subseteq LayerSlots
  BY <1>1, <1>8 DEF HalTyped
<1>. QED
  BY <1>2, <1>3, <1>4, <1>8, <1>10, <1>12, <1>13, <1>14, <1>15 DEF HalStep, HalTyped, n

-----------------------------------------------------------------------------
(* The ledger: which handle is at which place                                 *)

(* The places of one client: the slots of its caches, and the call it is in.  *)
TargetPart(s) == <<"target", 0, s>>
LayerPart(id, s) == <<"layer", id, s>>
OpPart(f) == <<f, 0, 0>>
Parts == {TargetPart(s) : s \in BufferSlots} \cup {LayerPart(p[1], p[2]) : p \in Ids \X Slots}
         \cup {OpPart("handle"), OpPart("replaced")}
Places == Clients \X Parts

HeldO(o, f) == IF f \in DOMAIN o THEN o[f] ELSE Null
Held(d, o, q) ==
    IF q[1] = "target" THEN HeldT(d, q[3])
    ELSE IF q[1] = "layer" THEN HeldL(d, q[2], q[3])
    ELSE HeldO(o, q[1])

Holdings == [p \in Places |-> Held(res[p[1]], op[p[1]], p[2])]

(* Every imported handle is at exactly one place.                             *)
Owned(H, L) ==
    /\ \A p, q \in Places : H[p] = H[q] /\ H[p] # Null => p = q
    /\ \A h : h \in L <=> h # Null /\ \E p \in Places : H[p] = h

Ledger == Owned(Holdings, live)

LEMMA PartCases ==
    ASSUME NEW q \in Parts
    PROVE  \/ \E s \in BufferSlots : q = TargetPart(s)
           \/ \E id \in Ids, s \in Slots : q = LayerPart(id, s)
           \/ q \in {OpPart("handle"), OpPart("replaced")}
BY DEF Parts

LEMMA PartIn ==
    /\ \A s \in BufferSlots : TargetPart(s) \in Parts
    /\ \A id \in Ids, s \in Slots : LayerPart(id, s) \in Parts
    /\ OpPart("handle") \in Parts /\ OpPart("replaced") \in Parts
<1>1. ASSUME NEW id \in Ids, NEW s \in Slots PROVE LayerPart(id, s) \in Parts
  <2>1. <<id, s>> \in Ids \X Slots /\ <<id, s>>[1] = id /\ <<id, s>>[2] = s
    OBVIOUS
  <2>. QED
    BY <2>1 DEF Parts
<1>. QED
  BY <1>1 DEF Parts

LEMMA HeldAt ==
    ASSUME NEW d, NEW o
    PROVE  /\ \A s : Held(d, o, TargetPart(s)) = HeldT(d, s)
           /\ \A id, s : Held(d, o, LayerPart(id, s)) = HeldL(d, id, s)
           /\ Held(d, o, OpPart("handle")) = HeldO(o, "handle")
           /\ Held(d, o, OpPart("replaced")) = HeldO(o, "replaced")
BY DEF Held, TargetPart, LayerPart, OpPart

LEMMA PartsApart ==
    /\ \A r, s : TargetPart(r) = TargetPart(s) => r = s
    /\ \A i, j, r, s : LayerPart(i, r) = LayerPart(j, s) => i = j /\ r = s
    /\ \A i, r, s : LayerPart(i, r) # TargetPart(s)
    /\ \A s : TargetPart(s) \notin {OpPart("handle"), OpPart("replaced")}
    /\ \A i, s : LayerPart(i, s) \notin {OpPart("handle"), OpPart("replaced")}
    /\ OpPart("handle") # OpPart("replaced")
BY DEF TargetPart, LayerPart, OpPart

(* Handles that move from place to place, some freed, are owned as before.    *)
Moves(H, K, S, m) ==
    /\ m \in [Places -> Places]
    /\ \A p, q \in Places : m[p] = m[q] => p = q
    /\ \A q \in Places : \E p \in Places : m[p] = q
    /\ \A p \in Places : K[p] = IF m[p] \in S THEN Null ELSE H[m[p]]
Frees(H, S, L, M) == \A h : h \in M <=> h \in L /\ \A p \in S : H[p] # h

LEMMA OwnedMoves ==
    ASSUME NEW H, NEW K, NEW L, NEW M, NEW S, S \subseteq Places, NEW m,
           Owned(H, L), Moves(H, K, S, m), Frees(H, S, L, M)
    PROVE  Owned(K, M)
<1>1. ASSUME NEW p \in Places, NEW q \in Places, K[p] = K[q], K[p] # Null
      PROVE  p = q
  <2>1. /\ m[p] \in Places /\ m[q] \in Places
        /\ H[m[p]] = K[p] /\ H[m[q]] = K[q]
    BY <1>1 DEF Moves
  <2>2. m[p] = m[q]
    BY <2>1, <1>1 DEF Owned
  <2>. QED
    BY <2>2 DEF Moves
<1>2. ASSUME NEW h \in M PROVE h # Null /\ \E p \in Places : K[p] = h
  <2>1. h \in L /\ \A p \in S : H[p] # h
    BY DEF Frees
  <2>2. h # Null /\ \E q \in Places : H[q] = h
    BY <2>1 DEF Owned
  <2>3. PICK q \in Places : H[q] = h
    BY <2>2
  <2>4. PICK p \in Places : m[p] = q
    BY DEF Moves
  <2>5. K[p] = h
    BY <2>1, <2>3, <2>4 DEF Moves
  <2>. QED
    BY <2>2, <2>5
<1>3. ASSUME NEW h, h # Null, NEW p \in Places, K[p] = h PROVE h \in M
  <2>1. m[p] \in Places /\ m[p] \notin S /\ H[m[p]] = h
    BY <1>3 DEF Moves
  <2>2. h \in L
    BY <1>3, <2>1 DEF Owned
  <2>3. \A q \in S : H[q] # h
    BY <2>1, <1>3 DEF Owned
  <2>. QED
    BY <2>2, <2>3 DEF Frees
<1>. QED
  BY <1>1, <1>2, <1>3 DEF Owned

(* A handle that nobody has comes to an empty place.                          *)
LEMMA OwnedTakes ==
    ASSUME NEW H, NEW K, NEW L, NEW M, NEW p \in Places, NEW h,
           Owned(H, L), h \notin L, h # Null, H[p] = Null, K[p] = h,
           \A q \in Places \ {p} : K[q] = H[q], M = L \cup {h}
    PROVE  Owned(K, M)
BY DEF Owned

-----------------------------------------------------------------------------
(* The inductive invariant, client by client                                  *)

FlagsOK ==
    /\ presented \in BOOLEAN /\ primary \in BOOLEAN /\ plug \in BOOLEAN
    /\ mEventCallback \in Clients \cup {"none"}
    /\ stage \in [Clients -> {"none", "made", "live", "expired", "silent", "dead"}]
    /\ live \subseteq Handles /\ ops \in Nat /\ plugs \in Nat
EventsOK == event \in [Callbacks -> Event]

(* A client with display d of its resources, in call o, whose SurfaceFlinger   *)
(* knows layers k.                                                            *)
ClientOK(L, m, d, o, k) ==
    /\ GoodDisplay(d) /\ o \in Op /\ k \in Partial(Ids, Nat)
    /\ KnownOK(L, m, k) /\ CacheOK(L, m, d) /\ OpOK(L, m, o)
ClientFuns == \E T : res \in [Clients -> T] /\ op \in [Clients -> T] /\ known \in [Clients -> T]
ClientsOK == \A c \in Clients : ClientOK(layers, made, res[c], op[c], known[c])

Inv ==
    /\ HalTyped /\ TableOK(layers, made, bitmap) /\ FlagsOK /\ EventsOK
    /\ ClientFuns /\ ClientsOK /\ Ledger

LEMMA InvSuffices == Inv => TypeOK /\ IdInv
<1>. SUFFICES ASSUME Inv PROVE TypeOK /\ IdInv
  OBVIOUS
<1>1. PICK T : res \in [Clients -> T] /\ op \in [Clients -> T] /\ known \in [Clients -> T]
  BY DEF Inv, ClientFuns
<1>2. \A c \in Clients : ClientOK(layers, made, res[c], op[c], known[c])
  BY DEF Inv, ClientsOK
<1>3. /\ res \in [Clients -> Display] /\ op \in [Clients -> Op]
      /\ known \in [Clients -> Partial(Ids, Nat)] /\ \A c \in Clients : DisplayOK(res[c])
  BY <1>1, <1>2 DEF ClientOK, GoodDisplay
<1>4. TypeOK
  BY <1>3 DEF Inv, HalTyped, FlagsOK, EventsOK, TypeOK
<1>5. IdInv
  BY <1>2 DEF Inv, IdInv, ClientOK
<1>. QED
  BY <1>4, <1>5

(* A step leaves all clients but one alone.                                   *)
Only(c) ==
    /\ res' = [res EXCEPT ![c] = (res')[c]] /\ op' = [op EXCEPT ![c] = (op')[c]]
    /\ known' = [known EXCEPT ![c] = (known')[c]]

LEMMA ClientKept ==
    ASSUME HalStep, NEW d, NEW o, NEW k, ClientOK(layers, made, d, o, k)
    PROVE  ClientOK(layers', made', d, o, k)
<1>1. GoodDisplay(d) /\ o \in Op /\ k \in Partial(Ids, Nat) /\ d.layers \in Partial(Ids, Layer)
  BY DEF ClientOK, GoodDisplay, Display
<1>2. /\ DOMAIN k \subseteq Ids /\ \A i \in DOMAIN k : k[i] \in Nat
      /\ DOMAIN d.layers \subseteq Ids /\ \A i \in DOMAIN d.layers : d.layers[i] \in Layer
  BY <1>1, PartialDef
<1>3. \A i \in Ids, n \in Nat : Newest(layers, made, i, n) => Newest(layers', made', i, n)
  BY DEF HalStep
<1>4. KnownOK(layers', made', k)
  BY <1>2, <1>3 DEF ClientOK, KnownOK
<1>5. CacheOK(layers', made', d)
  <2>1. ASSUME NEW i \in DOMAIN d.layers PROVE d.layers[i].number \in Nat
    BY <1>2 DEF Layer
  <2>. QED
    BY <2>1, <1>2, <1>3 DEF ClientOK, CacheOK
<1>6. OpOK(layers', made', o)
  <2>1. o.pc = "add" => o.id \in Ids /\ o.number \in Nat
    BY <1>1, OpShape DEF Adding
  <2>. QED
    BY <2>1, <1>3 DEF ClientOK, OpOK
<1>. QED
  BY <1>1, <1>4, <1>5, <1>6 DEF ClientOK

LEMMA OnlyOthers ==
    ASSUME ClientFuns, NEW c \in Clients, Only(c)
    PROVE  /\ ClientFuns'
           /\ \A x \in Clients \ {c} :
                 (res')[x] = res[x] /\ (op')[x] = op[x] /\ (known')[x] = known[x]
<1>1. PICK T : res \in [Clients -> T] /\ op \in [Clients -> T] /\ known \in [Clients -> T]
  BY DEF ClientFuns
<1>. DEFINE U == T \cup {(res')[c], (op')[c], (known')[c]}
<1>2. res' \in [Clients -> U] /\ op' \in [Clients -> U] /\ known' \in [Clients -> U]
  BY <1>1 DEF Only
<1>. HIDE DEF U
<1>3. ClientFuns'
  BY <1>2 DEF ClientFuns
<1>. QED
  BY <1>1, <1>3 DEF Only

LEMMA InvStep ==
    ASSUME Inv, HalStep, NEW c \in Clients, Only(c), FlagsOK', EventsOK', Ledger',
           ClientOK(layers', made', (res')[c], (op')[c], (known')[c])
    PROVE  Inv'
<1>1. /\ ClientFuns'
      /\ \A x \in Clients \ {c} :
            (res')[x] = res[x] /\ (op')[x] = op[x] /\ (known')[x] = known[x]
  BY OnlyOthers DEF Inv
<1>2. ASSUME NEW x \in Clients
      PROVE  ClientOK(layers', made', (res')[x], (op')[x], (known')[x])
  <2>1. CASE x = c
    BY <2>1
  <2>2. CASE x # c
    <3>1. ClientOK(layers, made, res[x], op[x], known[x])
      BY DEF Inv, ClientsOK
    <3>2. ClientOK(layers', made', res[x], op[x], known[x])
      BY <3>1, ClientKept
    <3>. QED
      BY <2>2, <3>2, <1>1
  <2>. QED
    BY <2>1, <2>2
<1>. QED
  BY <1>1, <1>2 DEF Inv, HalStep, ClientsOK

LEMMA InvKept ==
    ASSUME Inv, HalStep, FlagsOK', EventsOK', UNCHANGED <<res, op, known, live>>
    PROVE  Inv'
<1>1. ASSUME NEW c \in Clients
      PROVE  ClientOK(layers', made', (res')[c], (op')[c], (known')[c])
  <2>1. ClientOK(layers, made, res[c], op[c], known[c])
    BY DEF Inv, ClientsOK
  <2>2. ClientOK(layers', made', res[c], op[c], known[c])
    BY <2>1, ClientKept
  <2>. QED
    BY <2>2
<1>2. Ledger' /\ ClientFuns'
  BY DEF Inv, Ledger, Holdings, ClientFuns
<1>. QED
  BY <1>1, <1>2 DEF Inv, HalStep, ClientsOK

-----------------------------------------------------------------------------
(* The ledger in a step of one client                                         *)

(* Part q of the client gets what part m[q] had, unless that was freed.       *)
PartsMove(c, S, m) ==
    /\ m \in [Parts -> Parts]
    /\ \A p, q \in Parts : m[p] = m[q] => p = q
    /\ \A q \in Parts : \E p \in Parts : m[p] = q
    /\ \A q \in Parts : Held((res')[c], (op')[c], q)
                        = IF m[q] \in S THEN Null ELSE Held(res[c], op[c], m[q])
PartsFree(c, S) == \A h : h \in live' <=> h \in live /\ \A q \in S : Held(res[c], op[c], q) # h

LEMMA HoldingsAt ==
    /\ \A c \in Clients, q \in Parts :
          <<c, q>> \in Places /\ Holdings[<<c, q>>] = Held(res[c], op[c], q)
    /\ \A c \in Clients, q \in Parts : (Holdings')[<<c, q>>] = Held((res')[c], (op')[c], q)
BY DEF Holdings, Places

LEMMA LedgerMoves ==
    ASSUME Inv, NEW c \in Clients, Only(c), NEW S, S \subseteq Parts, NEW m,
           PartsMove(c, S, m), PartsFree(c, S)
    PROVE  Ledger'
<1>. DEFINE F == {p \in Places : p[1] = c /\ p[2] \in S}
            n == [p \in Places |-> IF p[1] = c THEN <<c, m[p[2]]>> ELSE p]
            H == Holdings
            K == Holdings'
<1>1. \A p \in Places : p[1] \in Clients /\ p[2] \in Parts /\ p = <<p[1], p[2]>>
  BY DEF Places
<1>2. \A x \in Clients \ {c} :
         (res')[x] = res[x] /\ (op')[x] = op[x] /\ (known')[x] = known[x]
  BY OnlyOthers DEF Inv
<1>3. \A q \in Parts : m[q] \in Parts
  BY DEF PartsMove
<1>4. /\ n \in [Places -> Places]
      /\ \A q \in Parts : n[<<c, q>>] = <<c, m[q]>>
      /\ \A x \in Clients \ {c}, q \in Parts : n[<<x, q>>] = <<x, q>>
  BY <1>1, <1>3 DEF Places
<1>. HIDE DEF n
<1>5. ASSUME NEW x \in Clients, NEW q \in Parts, NEW y \in Clients, NEW r \in Parts,
             n[<<x, q>>] = n[<<y, r>>]
      PROVE  x = y /\ q = r
  BY <1>3, <1>4, <1>5 DEF PartsMove
<1>6. ASSUME NEW x \in Clients, NEW q \in Parts
      PROVE  \E y \in Clients, r \in Parts : n[<<y, r>>] = <<x, q>>
  <2>1. CASE x = c
    <3>1. PICK r \in Parts : m[r] = q
      BY DEF PartsMove
    <3>. QED
      BY <2>1, <3>1, <1>4
  <2>2. CASE x # c
    BY <2>2, <1>4
  <2>. QED
    BY <2>1, <2>2
<1>7. ASSUME NEW x \in Clients, NEW q \in Parts
      PROVE  K[<<x, q>>] = IF n[<<x, q>>] \in F THEN Null ELSE H[n[<<x, q>>]]
  <2>. HIDE DEF K, H
  <2>1. CASE x = c
    <3>1. n[<<x, q>>] = <<c, m[q]>> /\ (<<c, m[q]>> \in F <=> m[q] \in S)
      BY <2>1, <1>3, <1>4 DEF Places
    <3>2. K[<<x, q>>] = IF m[q] \in S THEN Null ELSE Held(res[c], op[c], m[q])
      BY <2>1, HoldingsAt DEF PartsMove, K
    <3>3. H[<<c, m[q]>>] = Held(res[c], op[c], m[q])
      BY <1>3, HoldingsAt DEF H
    <3>. QED
      BY <3>1, <3>2, <3>3
  <2>2. CASE x # c
    <3>1. n[<<x, q>>] = <<x, q>> /\ <<x, q>> \notin F
      BY <2>2, <1>4
    <3>2. K[<<x, q>>] = Held(res[x], op[x], q)
      BY <2>2, <1>2, HoldingsAt DEF K
    <3>3. H[<<x, q>>] = Held(res[x], op[x], q)
      BY HoldingsAt DEF H
    <3>. QED
      BY <3>1, <3>2, <3>3
  <2>. QED
    BY <2>1, <2>2
<1>. HIDE DEF F
<1>8. Moves(H, K, F, n)
  <2>. HIDE DEF H, K
  <2>1. ASSUME NEW p \in Places, NEW q \in Places, n[p] = n[q] PROVE p = q
    <3>1. /\ p[1] \in Clients /\ p[2] \in Parts /\ p = <<p[1], p[2]>>
          /\ q[1] \in Clients /\ q[2] \in Parts /\ q = <<q[1], q[2]>>
      BY <1>1
    <3>2. n[<<p[1], p[2]>>] = n[<<q[1], q[2]>>]
      BY <3>1, <2>1
    <3>. QED
      BY <3>1, <3>2, <1>5
  <2>2. ASSUME NEW q \in Places PROVE \E p \in Places : n[p] = q
    <3>1. q[1] \in Clients /\ q[2] \in Parts /\ q = <<q[1], q[2]>>
      BY <1>1
    <3>2. PICK y \in Clients, r \in Parts : n[<<y, r>>] = <<q[1], q[2]>>
      BY <3>1, <1>6
    <3>3. <<y, r>> \in Places
      BY DEF Places
    <3>. QED
      BY <3>1, <3>2, <3>3
  <2>3. ASSUME NEW p \in Places
        PROVE  K[p] = IF n[p] \in F THEN Null ELSE H[n[p]]
    <3>1. p[1] \in Clients /\ p[2] \in Parts /\ p = <<p[1], p[2]>>
      BY <1>1
    <3>2. K[<<p[1], p[2]>>] = IF n[<<p[1], p[2]>>] \in F THEN Null ELSE H[n[<<p[1], p[2]>>]]
      BY <3>1, <1>7
    <3>. QED
      BY <3>1, <3>2
  <2>. QED
    BY <1>4, <2>1, <2>2, <2>3 DEF Moves
<1>9. Frees(H, F, live, live')
  <2>1. ASSUME NEW h PROVE (\A p \in F : H[p] # h) <=> \A q \in S : Held(res[c], op[c], q) # h
    <3>1. \A q \in S : <<c, q>> \in F /\ H[<<c, q>>] = Held(res[c], op[c], q)
      BY HoldingsAt DEF F
    <3>2. \A p \in F : p[2] \in S /\ H[p] = Held(res[c], op[c], p[2])
      BY <1>1, HoldingsAt DEF F
    <3>. HIDE DEF H
    <3>3. ASSUME \A p \in F : H[p] # h, NEW q \in S PROVE Held(res[c], op[c], q) # h
      BY <3>1, <3>3
    <3>4. ASSUME \A q \in S : Held(res[c], op[c], q) # h, NEW p \in F PROVE H[p] # h
      BY <3>2, <3>4
    <3>. QED
      BY <3>3, <3>4
  <2>. HIDE DEF H
  <2>. QED
    BY <2>1 DEF Frees, PartsFree
<1>10. Owned(H, live) /\ F \subseteq Places
  BY DEF Inv, Ledger, F
<1>11. Owned(K, live')
  <2>. HIDE DEF H, K
  <2>. QED
    BY <1>8, <1>9, <1>10, OwnedMoves
<1>. QED
  BY <1>11 DEF Ledger

(* No handle moves; those of some parts are freed.                            *)
LEMMA LedgerFrees ==
    ASSUME Inv, NEW c \in Clients, Only(c), NEW S, S \subseteq Parts, PartsFree(c, S),
           \A q \in Parts : Held((res')[c], (op')[c], q)
                            = IF q \in S THEN Null ELSE Held(res[c], op[c], q)
    PROVE  Ledger'
<1>. DEFINE m == [q \in Parts |-> q]
<1>1. PartsMove(c, S, m)
  BY DEF PartsMove
<1>. HIDE DEF m
<1>. QED
  BY <1>1, LedgerMoves

LEMMA LedgerStays ==
    ASSUME Inv, NEW c \in Clients, Only(c), live' = live,
           \A q \in Parts : Held((res')[c], (op')[c], q) = Held(res[c], op[c], q)
    PROVE  Ledger'
<1>1. PartsFree(c, {})
  BY DEF PartsFree
<1>. QED
  BY <1>1, LedgerFrees

LEMMA LedgerTakes ==
    ASSUME Inv, NEW c \in Clients, Only(c), NEW r \in Parts, NEW h, h \notin live,
           h # Null, Held(res[c], op[c], r) = Null, Held((res')[c], (op')[c], r) = h,
           \A q \in Parts \ {r} : Held((res')[c], (op')[c], q) = Held(res[c], op[c], q),
           live' = live \cup {h}
    PROVE  Ledger'
<1>1. \A x \in Clients \ {c} :
         (res')[x] = res[x] /\ (op')[x] = op[x] /\ (known')[x] = known[x]
  BY OnlyOthers DEF Inv
<1>2. <<c, r>> \in Places /\ Holdings[<<c, r>>] = Null /\ (Holdings')[<<c, r>>] = h
  BY HoldingsAt
<1>3. ASSUME NEW x \in Clients, NEW q \in Parts, <<x, q>> # <<c, r>>
      PROVE  (Holdings')[<<x, q>>] = Holdings[<<x, q>>]
  BY <1>1, <1>3, HoldingsAt
<1>4. \A p \in Places \ {<<c, r>>} : (Holdings')[p] = Holdings[p]
  BY <1>3 DEF Places
<1>5. Owned(Holdings, live)
  BY DEF Inv, Ledger
<1>6. Owned(Holdings', live')
  BY <1>2, <1>4, <1>5, OwnedTakes
<1>. QED
  BY <1>6 DEF Ledger

-----------------------------------------------------------------------------
(* Facts the steps share                                                     *)

LEMMA ClientFacts ==
    ASSUME Inv, NEW c \in Clients
    PROVE  /\ GoodDisplay(res[c]) /\ op[c] \in Op /\ known[c] \in Partial(Ids, Nat)
           /\ KnownOK(layers, made, known[c]) /\ CacheOK(layers, made, res[c])
           /\ OpOK(layers, made, op[c]) /\ ClientOK(layers, made, res[c], op[c], known[c])
BY DEF Inv, ClientsOK, ClientOK

LEMMA Domains ==
    ASSUME Inv
    PROVE  /\ DOMAIN res = Clients /\ res = [x \in Clients |-> res[x]]
           /\ DOMAIN op = Clients /\ op = [x \in Clients |-> op[x]]
           /\ DOMAIN known = Clients /\ known = [x \in Clients |-> known[x]]
BY DEF Inv, ClientFuns

LEMMA HalUnchanged == Inv /\ UNCHANGED hal => HalStep
BY HalStays DEF Inv

LEMMA HalCleaned == Inv /\ cleanupBeforeDestroy => HalStep
BY HalCleans DEF Inv

LEMMA OpHolds ==
    ASSUME NEW o \in Op
    PROVE  /\ o \in Looking =>
                HeldO(o, "handle") = o.handle /\ HeldO(o, "replaced") = Null
           /\ o \in SettingOp \cup Clearing =>
                HeldO(o, "handle") = Null /\ HeldO(o, "replaced") = o.replaced
           /\ o \notin Looking \cup SettingOp \cup Clearing =>
                HeldO(o, "handle") = Null /\ HeldO(o, "replaced") = Null
<1>1. CASE o \in Looking
  <2>1. DOMAIN o = {"pc", "cache", "id", "slot", "fromCache", "handle"} /\ o.pc = "look"
    BY <1>1 DEF Looking, Looks
  <2>. QED
    BY <2>1, <1>1 DEF HeldO, SettingOp, Clearing
<1>2. CASE o \in SettingOp \cup Clearing
  <2>1. DOMAIN o \in {{"pc", "replaced"}, {"pc", "id", "todo", "replaced"}} /\ o.pc # "look"
    BY <1>2 DEF SettingOp, Clearing
  <2>. QED
    BY <2>1, <1>2 DEF HeldO, Looking, Looks
<1>3. CASE o \notin Looking \cup SettingOp \cup Clearing
  <2>1. DOMAIN o \in {{"pc"}, {"pc", "id"}, {"pc", "id", "number"}}
    BY <1>3 DEF Op, Idle, Adding, Undoing
  <2>. QED
    BY <2>1, <1>3 DEF HeldO
<1>. QED
  BY <1>1, <1>2, <1>3

SameOp(o, p) ==
    HeldO(p, "handle") = HeldO(o, "handle") /\ HeldO(p, "replaced") = HeldO(o, "replaced")

LEMMA HeldSame ==
    ASSUME NEW d, NEW e, NEW o, NEW p, SameTarget(d, e), SameLayers(d, e), SameOp(o, p)
    PROVE  \A q \in Parts : Held(e, p, q) = Held(d, o, q)
<1>. SUFFICES ASSUME NEW q \in Parts PROVE Held(e, p, q) = Held(d, o, q)
  OBVIOUS
<1>1. CASE \E s \in BufferSlots : q = TargetPart(s)
  <2>1. PICK s \in BufferSlots : q = TargetPart(s)
    BY <1>1
  <2>2. Held(e, p, TargetPart(s)) = HeldT(e, s) /\ Held(d, o, TargetPart(s)) = HeldT(d, s)
    BY HeldAt
  <2>. QED
    BY <2>1, <2>2 DEF SameTarget
<1>2. CASE \E id \in Ids, s \in Slots : q = LayerPart(id, s)
  <2>1. PICK id \in Ids, s \in Slots : q = LayerPart(id, s)
    BY <1>2
  <2>2. /\ Held(e, p, LayerPart(id, s)) = HeldL(e, id, s)
        /\ Held(d, o, LayerPart(id, s)) = HeldL(d, id, s)
    BY DEF Held, LayerPart
  <2>. QED
    BY <2>1, <2>2 DEF SameLayers
<1>3. CASE q \in {OpPart("handle"), OpPart("replaced")}
  BY <1>3, HeldAt DEF SameOp
<1>. QED
  BY <1>1, <1>2, <1>3, PartCases

LEMMA SameSelf ==
    ASSUME NEW d
    PROVE  SameTarget(d, d) /\ SameLayers(d, d) /\ SameNumbers(d, d) /\ SameOp(d, d)
BY DEF SameTarget, SameLayers, SameNumbers, SameOp

-----------------------------------------------------------------------------
(* A client's life                                                           *)

LEMMA CreateClientInv == ASSUME Inv, NEW c \in Clients, createClient(c) PROVE Inv'
<1>1. HalStep
  BY HalUnchanged DEF createClient
<1>2. FlagsOK' /\ EventsOK'
  BY DEF Inv, FlagsOK, EventsOK, createClient
<1>3. UNCHANGED <<res, op, known, live>>
  BY DEF createClient
<1>. QED
  BY <1>1, <1>2, <1>3, InvKept

LEMMA RegisterInv == ASSUME Inv, NEW c \in Clients, registerCallback(c) PROVE Inv'
<1>1. HalStep
  BY HalUnchanged DEF registerCallback
<1>2. FlagsOK'
  BY DEF Inv, FlagsOK, registerCallback
<1>3. UNCHANGED <<res, op, known, live>>
  BY DEF registerCallback
<1>4. EventsOK'
  <2>1. [pc |-> "look", client |-> c, connected |-> TRUE] \in Event /\ Idle \in Event
    BY DEF Event, Telling
  <2>. QED
    BY <2>1 DEF Inv, EventsOK, registerCallback
<1>. QED
  BY <1>1, <1>2, <1>3, <1>4, InvKept

LEMMA ExpireInv == ASSUME Inv, NEW c \in Clients, expire(c) PROVE Inv'
<1>1. HalStep
  BY HalUnchanged DEF expire
<1>2. FlagsOK' /\ EventsOK'
  BY DEF Inv, FlagsOK, EventsOK, expire
<1>3. /\ Only(c) /\ live' = live
      /\ (res')[c] = res[c] /\ (op')[c] = op[c] /\ (known')[c] = NoFun
  BY Domains DEF Only, expire
<1>4. Ledger'
  BY <1>3, LedgerStays
<1>5. ClientOK(layers', made', res[c], op[c], known[c])
  BY <1>1, ClientFacts, ClientKept
<1>6. ClientOK(layers', made', (res')[c], (op')[c], (known')[c])
  BY <1>3, <1>5, NoFunPartial DEF ClientOK, KnownOK
<1>. QED
  BY <1>1, <1>2, <1>3, <1>4, <1>6, InvStep

LEMMA UnregisterInv == ASSUME Inv, NEW c \in Clients, unregisterEventCallback(c) PROVE Inv'
<1>1. HalStep
  BY HalUnchanged DEF unregisterEventCallback
<1>2. FlagsOK' /\ EventsOK'
  BY DEF Inv, FlagsOK, EventsOK, unregisterEventCallback
<1>3. UNCHANGED <<res, op, known, live>>
  BY DEF unregisterEventCallback
<1>. QED
  BY <1>1, <1>2, <1>3, InvKept

LEMMA PresentInv == ASSUME Inv, NEW c \in Clients, presentDisplay(c) PROVE Inv'
<1>1. HalStep
  BY HalUnchanged DEF presentDisplay
<1>2. FlagsOK' /\ EventsOK'
  BY DEF Inv, FlagsOK, EventsOK, presentDisplay, Calls
<1>3. UNCHANGED <<res, op, known, live>>
  BY DEF presentDisplay
<1>. QED
  BY <1>1, <1>2, <1>3, InvKept

(* A display given another size of its target cache keeps all it holds.       *)
LEMMA SizedInv ==
    ASSUME Inv, HalStep, FlagsOK', EventsOK', NEW c \in Clients,
           NEW n \in {0, Cardinality(BufferSlots)},
           res' = [res EXCEPT ![c] = Sized(res[c], n)], UNCHANGED <<op, known, live>>
    PROVE  Inv'
<1>. DEFINE e == Sized(res[c], n)
<1>1. /\ GoodDisplay(e) /\ SameNumbers(res[c], e)
      /\ SameTarget(res[c], e) /\ SameLayers(res[c], e)
  BY ClientFacts, SizedGood
<1>2. /\ Only(c) /\ (res')[c] = e /\ (op')[c] = op[c] /\ (known')[c] = known[c]
  BY Domains DEF Only
<1>. HIDE DEF e
<1>3. Ledger'
  <2>1. \A q \in Parts : Held(e, op[c], q) = Held(res[c], op[c], q)
    BY <1>1, HeldSame, SameSelf
  <2>. QED
    BY <1>2, <2>1, LedgerStays
<1>4. ClientOK(layers', made', res[c], op[c], known[c])
  BY ClientFacts, ClientKept
<1>5. ClientOK(layers', made', e, op[c], known[c])
  BY <1>1, <1>4 DEF ClientOK, CacheOK, SameNumbers
<1>. QED
  BY <1>2, <1>3, <1>5, InvStep

LEMMA SlotCountInv == ASSUME Inv, NEW c \in Clients, setClientTargetSlotCount(c) PROVE Inv'
<1>1. HalStep
  BY HalUnchanged DEF setClientTargetSlotCount
<1>2. FlagsOK' /\ EventsOK'
  BY DEF Inv, FlagsOK, EventsOK, setClientTargetSlotCount, Calls
<1>3. /\ res' = [res EXCEPT ![c] = Sized(res[c], Cardinality(BufferSlots))]
      /\ UNCHANGED <<op, known, live>>
  BY DEF setClientTargetSlotCount
<1>. QED
  BY <1>1, <1>2, <1>3, SizedInv

-----------------------------------------------------------------------------
(* Hotplug                                                                   *)

LEMMA PlugOutInv == ASSUME Inv, onPlugOut PROVE Inv'
<1>1. HalStep
  BY HalCleaned DEF onPlugOut
<1>2. FlagsOK'
  <2>1. /\ plug' = FALSE /\ plugs' = plugs + 1
        /\ UNCHANGED <<presented, primary, mEventCallback, stage, live, ops>>
    BY DEF onPlugOut
  <2>2. FlagsOK
    BY DEF Inv
  <2>3. plugs' \in Nat
    BY <2>1, <2>2 DEF FlagsOK
  <2>. QED
    BY <2>1, <2>2, <2>3, ZenonT(60) DEF FlagsOK
<1>3. UNCHANGED <<res, op, known, live>>
  BY DEF onPlugOut
<1>4. EventsOK'
  BY DEF Inv, EventsOK, onPlugOut, Notify, Event, Notifying
<1>. QED
  BY <1>1, <1>2, <1>3, <1>4, InvKept

LEMMA ModeChangedInv == ASSUME Inv, onModeChanged PROVE Inv'
<1>1. HalStep
  BY HalCleaned, HalUnchanged DEF onModeChanged
<1>2. FlagsOK'
  BY DEF Inv, FlagsOK, onModeChanged
<1>3. UNCHANGED <<res, op, known, live>>
  BY DEF onModeChanged
<1>4. EventsOK'
  BY DEF Inv, EventsOK, onModeChanged, Notify, Event, Notifying
<1>. QED
  BY <1>1, <1>2, <1>3, <1>4, InvKept

LEMMA OnHotplugInv == ASSUME Inv, onHotplug PROVE Inv'
<1>1. HalStep
  BY HalCleaned, HalUnchanged DEF onHotplug
<1>2. FlagsOK'
  BY DEF Inv, FlagsOK, onHotplug
<1>3. UNCHANGED <<res, op, known, live>>
  BY DEF onHotplug
<1>4. EventsOK'
  <2>1. (primary \/ plug) \in BOOLEAN /\ mEventCallback \in Clients \cup {"none"}
    BY DEF Inv, FlagsOK
  <2>2. /\ mEventCallback # "none" => [pc |-> "look", client |-> mEventCallback,
                                        connected |-> primary \/ plug] \in Event
        /\ Idle \in Event
    BY <2>1 DEF Event, Telling
  <2>. QED
    BY <2>2 DEF Inv, EventsOK, onHotplug
<1>. QED
  BY <1>1, <1>2, <1>3, <1>4, InvKept

LEMMA LookInv == ASSUME Inv, NEW t \in Callbacks, callbackLook(t) PROVE Inv'
<1>1. HalStep
  BY HalUnchanged DEF callbackLook
<1>2. FlagsOK'
  BY DEF Inv, FlagsOK, callbackLook
<1>3. UNCHANGED <<res, op, known, live>>
  BY DEF callbackLook
<1>4. EventsOK'
  <2>. DEFINE e == event[t]
              d == res[e.client]
              u == [pc |-> IF ~e.connected \/ d.has THEN "remove" ELSE "add",
                    client |-> e.client, connected |-> e.connected,
                    again |-> e.connected /\ d.has, size |-> Cardinality(DOMAIN d.target)]
  <2>1. e \in Telling
    BY EventShape DEF Inv, EventsOK, callbackLook, EventAt
  <2>2. e.client \in Clients /\ e.connected \in BOOLEAN
    BY <2>1 DEF Telling
  <2>3. d \in Display
    BY <2>2, ClientFacts DEF GoodDisplay
  <2>4. DOMAIN d.target \in {{}, BufferSlots} /\ d.has \in BOOLEAN
    BY <2>3 DEF Display
  <2>5. Cardinality(DOMAIN d.target) \in {0, Cardinality(BufferSlots)}
    BY <2>4, FS_EmptySet
  <2>6. u \in Event
    BY <2>2, <2>4, <2>5 DEF Event, Renewing
  <2>. HIDE DEF u
  <2>7. event' = [event EXCEPT ![t] = u]
    BY DEF callbackLook, u
  <2>. QED
    BY <2>6, <2>7 DEF Inv, EventsOK
<1>. QED
  BY <1>1, <1>2, <1>3, <1>4, InvKept

LEMMA AddInv == ASSUME Inv, NEW t \in Callbacks, callbackAdd(t) PROVE Inv'
<1>. DEFINE c == event[t].client
            e == IF res[c].has THEN res[c] ELSE NewDisplay
<1>1. event[t] \in Renewing
  BY EventShape DEF Inv, EventsOK, callbackAdd, EventAt
<1>2. c \in Clients
  BY <1>1 DEF Renewing
<1>3. HalStep
  BY HalUnchanged DEF callbackAdd
<1>4. FlagsOK'
  BY DEF Inv, FlagsOK, callbackAdd
<1>5. EventsOK'
  <2>1. [event[t] EXCEPT !.pc = "size"] \in Event /\ Idle \in Event
    BY <1>1 DEF Event, Renewing
  <2>. QED
    BY <2>1 DEF Inv, EventsOK, callbackAdd, Told
<1>6. /\ Only(c) /\ (res')[c] = e /\ (op')[c] = op[c] /\ (known')[c] = known[c]
      /\ live' = live
  BY <1>2, Domains DEF Only, callbackAdd
<1>. HIDE DEF c
<1>7. GoodDisplay(res[c]) /\ ClientOK(layers', made', res[c], op[c], known[c])
  BY <1>2, <1>3, ClientFacts, ClientKept
<1>8. GoodDisplay(e) /\ SameTarget(res[c], e) /\ SameLayers(res[c], e) /\ SameNumbers(res[c], e)
  <2>1. CASE res[c].has
    BY <2>1, <1>7, SameSelf
  <2>2. CASE ~res[c].has
    <3>1. res[c] = NoDisplay /\ e = NewDisplay
      BY <2>2, <1>7 DEF GoodDisplay, DisplayOK
    <3>2. SameNumbers(NoDisplay, NewDisplay)
      BY NoDisplayGood DEF SameNumbers
    <3>3. SameTarget(NoDisplay, NewDisplay) /\ SameLayers(NoDisplay, NewDisplay)
      BY NoDisplayGood DEF SameTarget, SameLayers, HeldT, HeldL
    <3>. QED
      BY <3>1, <3>2, <3>3, NoDisplayGood
  <2>. QED
    BY <2>1, <2>2
<1>. HIDE DEF e
<1>9. Ledger'
  <2>1. \A q \in Parts : Held(e, op[c], q) = Held(res[c], op[c], q)
    BY <1>8, HeldSame, SameSelf
  <2>. QED
    BY <1>2, <1>6, <2>1, LedgerStays
<1>10. ClientOK(layers', made', e, op[c], known[c])
  BY <1>7, <1>8 DEF ClientOK, CacheOK, SameNumbers
<1>. QED
  BY <1>2, <1>3, <1>4, <1>5, <1>6, <1>9, <1>10, InvStep

LEMMA SizeInv == ASSUME Inv, NEW t \in Callbacks, callbackSize(t) PROVE Inv'
<1>1. event[t] \in Renewing
  BY EventShape DEF Inv, EventsOK, callbackSize, EventAt
<1>2. PICK c \in Clients, n \in {0, Cardinality(BufferSlots)} :
         c = event[t].client /\ n = event[t].size
  BY <1>1 DEF Renewing
<1>3. HalStep
  BY HalUnchanged DEF callbackSize
<1>4. FlagsOK'
  BY DEF Inv, FlagsOK, callbackSize
<1>5. EventsOK'
  BY DEF Inv, EventsOK, callbackSize, Told, Event
<1>6. res' = [res EXCEPT ![c] = Sized(res[c], n)] /\ UNCHANGED <<op, known, live>>
  BY <1>2 DEF callbackSize
<1>. QED
  BY <1>3, <1>4, <1>5, <1>6, SizedInv

-----------------------------------------------------------------------------
(* createLayer, destroyLayer                                                 *)

LEMMA NoHandle ==
    ASSUME NEW o \in {Idle} \cup Adding \cup Undoing
    PROVE  o \in Op /\ HeldO(o, "handle") = Null /\ HeldO(o, "replaced") = Null
<1>1. o \in Op /\ o \notin Looking \cup SettingOp \cup Clearing
  BY DEF Op, Idle, Adding, Undoing, Looking, Looks, SettingOp, Clearing
<1>. QED
  BY <1>1, OpHolds

LEMMA HasLayers ==
    ASSUME NEW d, GoodDisplay(d), NEW id \in DOMAIN d.layers
    PROVE  d.has
BY NoDisplayGood DEF GoodDisplay, DisplayOK

(* A call that holds nothing goes on to hold nothing, with the caches kept.   *)
LEMMA CallInv ==
    ASSUME Inv, HalStep, FlagsOK', EventsOK', NEW c \in Clients, NEW p \in Op,
           SameOp(op[c], p), OpOK(layers', made', p),
           op' = [op EXCEPT ![c] = p], UNCHANGED <<res, known, live>>
    PROVE  Inv'
<1>1. Only(c) /\ (res')[c] = res[c] /\ (op')[c] = p /\ (known')[c] = known[c]
  BY Domains DEF Only
<1>2. \A q \in Parts : Held(res[c], p, q) = Held(res[c], op[c], q)
  BY HeldSame, SameSelf
<1>3. Ledger'
  BY <1>1, <1>2, LedgerStays
<1>4. ClientOK(layers', made', res[c], op[c], known[c])
  BY ClientFacts, ClientKept
<1>5. ClientOK(layers', made', res[c], p, known[c])
  BY <1>4 DEF ClientOK
<1>. QED
  BY <1>1, <1>3, <1>5, InvStep

LEMMA CreateLayerInv == ASSUME Inv, NEW c \in Clients, createLayer(c) PROVE Inv'
<1>1. /\ HalStep /\ createLayerId \in Ids
      /\ Newest(layers', made', createLayerId, made + 1)
  BY HalCreates DEF Inv, createLayer
<1>2. FlagsOK' /\ EventsOK'
  BY DEF Inv, FlagsOK, EventsOK, createLayer, Calls
<1>3. PICK p : p = [pc |-> "add", id |-> createLayerId, number |-> made + 1]
  OBVIOUS
<1>4. made + 1 \in Nat
  BY DEF Inv, HalTyped
<1>5. p \in Adding
  BY <1>1, <1>3, <1>4 DEF Adding
<1>6. SameOp(op[c], p)
  BY <1>5, NoHandle DEF createLayer, Calls, SameOp
<1>7. p \in Op /\ OpOK(layers', made', p)
  BY <1>1, <1>3, <1>5, NoHandle DEF OpOK
<1>8. op' = [op EXCEPT ![c] = p] /\ UNCHANGED <<res, known, live>>
  BY <1>3 DEF createLayer
<1>. QED
  BY <1>1, <1>2, <1>6, <1>7, <1>8, CallInv

LEMMA AddLayerInv == ASSUME Inv, NEW c \in Clients, addLayer(c) PROVE Inv'
<1>. DEFINE o == op[c]
            d == res[c]
            k == known[c]
<1>1. o \in Adding /\ o.pc = "add" /\ o.id \in Ids /\ o.number \in Nat
  BY OpShape, ClientFacts DEF addLayer, OpAt, Adding
<1>2. HalStep
  BY HalUnchanged DEF addLayer
<1>3. FlagsOK' /\ EventsOK'
  BY DEF Inv, FlagsOK, EventsOK, addLayer
<1>4. /\ GoodDisplay(d) /\ ClientOK(layers', made', d, o, k)
      /\ k \in Partial(Ids, Nat) /\ Newest(layers', made', o.id, o.number)
  BY <1>1, <1>2, ClientFacts, ClientKept DEF ClientOK, OpOK
<1>5. CASE d.has /\ o.id \notin DOMAIN d.layers
  <2>1. PICK id \in Ids, n \in Nat : id = o.id /\ n = o.number
    BY <1>1
  <2>2. PICK e : Adds(d, id, n, e)
    BY DEF Adds
  <2>3. PICK u : u = With(k, id, n)
    OBVIOUS
  <2>4. /\ Only(c) /\ (res')[c] = e /\ (op')[c] = Idle /\ (known')[c] = u /\ live' = live
    <3>1. /\ res' = [res EXCEPT ![c] = e] /\ known' = [known EXCEPT ![c] = u]
          /\ op' = [op EXCEPT ![c] = Idle] /\ live' = live
      BY <1>5, <2>1, <2>2, <2>3 DEF addLayer, Ends, Adds
    <3>. QED
      BY <3>1, Domains DEF Only
  <2>. HIDE DEF o, d, k
  <2>5. /\ GoodDisplay(e) /\ SameTarget(d, e) /\ SameLayers(d, e)
        /\ DOMAIN e.layers = DOMAIN d.layers \cup {id}
        /\ e.layers[id].number = n
        /\ \A i \in DOMAIN d.layers : e.layers[i] = d.layers[i]
    <3>1. GoodDisplay(d) /\ d.has /\ id \notin DOMAIN d.layers
      BY <1>4, <1>5, <2>1
    <3>. QED
      BY <3>1, <2>2, AddLayerGood
  <2>6. /\ With(k, id, n) \in Partial(Ids, Nat)
        /\ DOMAIN With(k, id, n) = DOMAIN k \cup {id}
        /\ With(k, id, n)[id] = n
        /\ \A y \in DOMAIN k \ {id} : With(k, id, n)[y] = k[y]
    <3>1. With(k, id, n) \in Partial(Ids, Nat)
      BY <1>4, WithPartial
    <3>. QED
      BY <3>1 DEF With
  <2>7. ClientOK(layers', made', e, Idle, u)
    <3>1. Newest(layers', made', id, n)
      BY <1>4, <2>1
    <3>2. KnownOK(layers', made', u)
      BY <1>4, <2>3, <2>6, <3>1 DEF ClientOK, KnownOK
    <3>3. CacheOK(layers', made', e)
      BY <1>4, <2>5, <3>1 DEF ClientOK, CacheOK
    <3>4. Idle \in Op /\ OpOK(layers', made', Idle)
      BY DEF Op, Idle, OpOK
    <3>. QED
      BY <2>3, <2>5, <2>6, <3>2, <3>3, <3>4 DEF ClientOK
  <2>8. SameOp(o, Idle)
    BY <1>1, NoHandle DEF SameOp
  <2>9. \A q \in Parts : Held(e, Idle, q) = Held(d, o, q)
    BY <2>5, <2>8, HeldSame
  <2>10. Ledger'
    BY <2>4, <2>9, LedgerStays DEF d, o
  <2>. QED
    BY <1>2, <1>3, <2>4, <2>7, <2>10, InvStep
<1>6. CASE ~(d.has /\ o.id \notin DOMAIN d.layers)
  <2>1. PICK p : p = [o EXCEPT !.pc = "undo"]
    OBVIOUS
  <2>2. p \in Adding /\ p.pc = "undo"
    BY <1>1, <2>1 DEF Adding
  <2>3. op' = [op EXCEPT ![c] = p] /\ UNCHANGED <<res, known, live>>
    BY <1>6, <2>1 DEF addLayer
  <2>4. SameOp(o, p) /\ p \in Op /\ OpOK(layers', made', p)
    BY <1>1, <2>2, NoHandle DEF SameOp, OpOK
  <2>. QED
    BY <1>2, <1>3, <2>3, <2>4, CallInv
<1>. QED
  BY <1>5, <1>6

LEMMA DestroyLayerInv == ASSUME Inv, NEW c \in Clients, destroyLayer(c) PROVE Inv'
<1>. DEFINE d == res[c]
            k == known[c]
<1>1. HalStep
  BY HalUnchanged DEF destroyLayer
<1>2. FlagsOK' /\ EventsOK'
  BY DEF Inv, FlagsOK, EventsOK, destroyLayer, Calls
<1>3. PICK id \in DOMAIN k : /\ op' = [op EXCEPT ![c] = [pc |-> "undo", id |-> id]]
                             /\ known' = [known EXCEPT ![c] = Without(@, id)]
  BY DEF destroyLayer
<1>4. PICK p, u : p = [pc |-> "undo", id |-> id] /\ u = Without(k, id)
  OBVIOUS
<1>5. /\ Only(c) /\ (res')[c] = d /\ (op')[c] = p /\ (known')[c] = u /\ live' = live
  BY <1>3, <1>4, Domains DEF Only, destroyLayer
<1>6. ClientOK(layers', made', d, op[c], k) /\ k \in Partial(Ids, Nat)
  BY <1>1, ClientFacts, ClientKept
<1>. HIDE DEF k
<1>7. id \in Ids
  BY <1>6, PartialDef
<1>8. /\ u \in Partial(Ids, Nat) /\ DOMAIN u = DOMAIN k \ {id}
      /\ \A y \in DOMAIN k \ {id} : u[y] = k[y]
  BY <1>4, <1>6, WithoutPartial DEF Without, Restrict
<1>9. p \in Undoing /\ p.pc = "undo"
  BY <1>4, <1>7 DEF Undoing
<1>10. SameOp(op[c], p) /\ p \in Op /\ OpOK(layers', made', p)
  BY <1>9, NoHandle DEF destroyLayer, Calls, SameOp, OpOK
<1>11. KnownOK(layers', made', u)
  BY <1>6, <1>8 DEF ClientOK, KnownOK
<1>12. ClientOK(layers', made', d, p, u)
  BY <1>6, <1>8, <1>10, <1>11 DEF ClientOK
<1>13. Ledger'
  <2>1. \A q \in Parts : Held(d, p, q) = Held(d, op[c], q)
    BY <1>10, HeldSame, SameSelf
  <2>. QED
    BY <1>5, <2>1, LedgerStays
<1>. QED
  BY <1>1, <1>2, <1>5, <1>12, <1>13, InvStep

LEMMA UndoLayerInv == ASSUME Inv, NEW c \in Clients, undoLayer(c) PROVE Inv'
<1>. DEFINE o == op[c]
<1>1. o \in Adding \cup Undoing
  BY OpShape, ClientFacts DEF undoLayer, OpAt
<1>2. HalStep
  BY HalUnchanged, HalDestroys DEF undoLayer, Inv
<1>3. FlagsOK' /\ EventsOK'
  BY DEF Inv, FlagsOK, EventsOK, undoLayer
<1>4. PICK p \in {Idle, [o EXCEPT !.pc = "remove"]} : op' = [op EXCEPT ![c] = p]
  BY DEF undoLayer, Ends
<1>5. p \in {Idle} \cup Adding \cup Undoing /\ p.pc # "add"
  BY <1>1, <1>4 DEF Adding, Undoing, Idle
<1>6. SameOp(o, p) /\ p \in Op /\ OpOK(layers', made', p)
  BY <1>1, <1>5, NoHandle DEF SameOp, OpOK
<1>7. UNCHANGED <<res, known, live>>
  BY DEF undoLayer
<1>. QED
  BY <1>2, <1>3, <1>4, <1>6, <1>7, CallInv

-----------------------------------------------------------------------------
(* What a display or a layer frees is what it holds                           *)

LEMMA OfLayerHeld ==
    ASSUME NEW l \in Layer, NEW h
    PROVE  h \in OfLayer(l) <=> h # Null /\ \E s \in Slots : OfSlot(l, s) = h
<1>1. DOMAIN l.buffers = BufferSlots /\ DOMAIN l.stream = {0}
  BY DEF Layer
<1>2. /\ In(l.buffers) = {l.buffers[s] : s \in BufferSlots} \ {Null}
      /\ In(l.stream) = {l.stream[0]} \ {Null}
  BY <1>1 DEF In, Range
<1>3. /\ \A s \in BufferSlots : OfSlot(l, s) = l.buffers[s] /\ s \in Slots
      /\ OfSlot(l, 0) = l.stream[0] /\ 0 \in Slots
  BY BufferSlotsNotZero DEF OfSlot, Slots
<1>. QED
  BY <1>2, <1>3 DEF OfLayer, Slots

LEMMA OfDisplayHeld ==
    ASSUME NEW d \in Display, NEW h
    PROVE  h \in OfDisplay(d)
           <=> /\ h # Null
               /\ \/ \E s \in BufferSlots : HeldT(d, s) = h
                  \/ \E id \in Ids, s \in Slots : HeldL(d, id, s) = h
<1>1. /\ DOMAIN d.target \subseteq BufferSlots /\ DOMAIN d.layers \subseteq Ids
      /\ \A id \in DOMAIN d.layers : d.layers[id] \in Layer
  BY DisplayFields
<1>2. h \in In(d.target) <=> h # Null /\ \E s \in BufferSlots : HeldT(d, s) = h
  BY <1>1 DEF In, Range, HeldT
<1>3. (\E id \in DOMAIN d.layers : h \in OfLayer(d.layers[id]))
      <=> h # Null /\ \E id \in Ids, s \in Slots : HeldL(d, id, s) = h
  <2>1. ASSUME NEW id \in DOMAIN d.layers
        PROVE  h \in OfLayer(d.layers[id]) <=> h # Null /\ \E s \in Slots : HeldL(d, id, s) = h
    <3>1. h \in OfLayer(d.layers[id]) <=> h # Null /\ \E s \in Slots : OfSlot(d.layers[id], s) = h
      BY <1>1, OfLayerHeld
    <3>2. \A s \in Slots : HeldL(d, id, s) = OfSlot(d.layers[id], s)
      BY DEF HeldL
    <3>. QED
      BY <3>1, <3>2
  <2>2. ASSUME NEW id \in Ids \ DOMAIN d.layers, NEW s PROVE HeldL(d, id, s) = Null
    BY DEF HeldL
  <2>. QED
    BY <1>1, <2>1, <2>2
<1>4. h \in OfDisplay(d)
      <=> h \in In(d.target) \/ \E id \in DOMAIN d.layers : h \in OfLayer(d.layers[id])
  BY DEF OfDisplay
<1>. QED
  BY <1>2, <1>3, <1>4

(* A display's resources go with all they hold.                               *)
LEMMA ClearedInv ==
    ASSUME Inv, HalStep, FlagsOK', EventsOK', NEW c \in Clients,
           res' = [res EXCEPT ![c] = NoDisplay], live' = live \ OfDisplay(res[c]),
           UNCHANGED <<op, known>>
    PROVE  Inv'
<1>. DEFINE d == res[c]
            o == op[c]
            S == Parts \ {OpPart("handle"), OpPart("replaced")}
<1>1. /\ Only(c) /\ (res')[c] = NoDisplay /\ (op')[c] = o /\ (known')[c] = known[c]
  BY Domains DEF Only
<1>2. ClientOK(layers', made', d, o, known[c]) /\ d \in Display
  BY ClientFacts, ClientKept DEF GoodDisplay
<1>3. ClientOK(layers', made', NoDisplay, o, known[c])
  BY <1>2, NoDisplayGood DEF ClientOK, CacheOK
<1>4. live' = live \ OfDisplay(d)
  OBVIOUS
<1>. HIDE DEF d, o
<1>5. ASSUME NEW q \in S
      PROVE  \/ \E s \in BufferSlots : q = TargetPart(s)
             \/ \E id \in Ids, s \in Slots : q = LayerPart(id, s)
  BY PartCases
<1>6. PartsFree(c, S)
  <2>1. ASSUME NEW h \in live PROVE h \in OfDisplay(d) <=> \E q \in S : Held(d, o, q) = h
    <3>1. h # Null
      BY DEF Inv, Ledger, Owned
    <3>2. /\ \A s \in BufferSlots : TargetPart(s) \in S /\ Held(d, o, TargetPart(s)) = HeldT(d, s)
          /\ \A id \in Ids, s \in Slots :
                LayerPart(id, s) \in S /\ Held(d, o, LayerPart(id, s)) = HeldL(d, id, s)
      BY PartIn, PartsApart DEF Held, TargetPart, LayerPart
    <3>3. ASSUME NEW q \in S
          PROVE  \/ \E s \in BufferSlots : HeldT(d, s) = Held(d, o, q)
                 \/ \E id \in Ids, s \in Slots : HeldL(d, id, s) = Held(d, o, q)
      BY <1>5, <3>2
    <3>4. h \in OfDisplay(d)
          <=> \/ \E s \in BufferSlots : HeldT(d, s) = h
              \/ \E id \in Ids, s \in Slots : HeldL(d, id, s) = h
      BY <1>2, <3>1, OfDisplayHeld
    <3>. QED
      BY <3>2, <3>3, <3>4
  <2>. HIDE DEF S
  <2>2. \A h : h \in live' <=> h \in live /\ \A q \in S : Held(d, o, q) # h
    BY <1>4, <2>1
  <2>. QED
    BY <2>2 DEF PartsFree, d, o
<1>7. ASSUME NEW q \in Parts
      PROVE  Held(NoDisplay, o, q) = IF q \in S THEN Null ELSE Held(d, o, q)
  <2>1. CASE q \in S
    <3>1. \A id, s : HeldT(NoDisplay, s) = Null /\ HeldL(NoDisplay, id, s) = Null
      BY NoDisplayGood DEF HeldT, HeldL
    <3>2. \/ \E s \in BufferSlots : q = TargetPart(s)
          \/ \E id \in Ids, s \in Slots : q = LayerPart(id, s)
      BY <2>1, <1>5
    <3>. QED
      BY <2>1, <3>1, <3>2 DEF Held, TargetPart, LayerPart
  <2>2. CASE q \notin S
    BY <2>2, HeldAt
  <2>. QED
    BY <2>1, <2>2
<1>8. S \subseteq Parts
  OBVIOUS
<1>. HIDE DEF S
<1>9. Ledger'
  BY <1>1, <1>6, <1>7, <1>8, LedgerFrees DEF d, o
<1>. QED
  BY <1>1, <1>3, <1>9, InvStep

LEMMA RemoveInv == ASSUME Inv, NEW t \in Callbacks, callbackRemove(t) PROVE Inv'
<1>1. event[t] \in Renewing
  BY EventShape DEF Inv, EventsOK, callbackRemove, EventAt
<1>2. PICK c \in Clients : c = event[t].client
  BY <1>1 DEF Renewing
<1>3. HalStep
  BY HalUnchanged DEF callbackRemove
<1>4. FlagsOK'
  BY DEF Inv, FlagsOK, callbackRemove
<1>5. EventsOK'
  <2>1. [event[t] EXCEPT !.pc = "add"] \in Event /\ Idle \in Event
    BY <1>1 DEF Event, Renewing
  <2>. QED
    BY <2>1 DEF Inv, EventsOK, callbackRemove, Told
<1>6. /\ res' = [res EXCEPT ![c] = NoDisplay] /\ live' = live \ OfDisplay(res[c])
      /\ UNCHANGED <<op, known>>
  BY <1>2 DEF callbackRemove
<1>. QED
  BY <1>3, <1>4, <1>5, <1>6, ClearedInv

LEMMA DestroyInv == ASSUME Inv, NEW c \in Clients, destroyResources(c) PROVE Inv'
<1>1. HalStep
  <2>1. PICK gone : gone = DOMAIN res[c].layers \cap DOMAIN layers
    OBVIOUS
  <2>2. /\ gone \subseteq DOMAIN layers /\ layers' = Restrict(layers, DOMAIN layers \ gone)
        /\ bitmap' = bitmap \ {Slot(i) : i \in gone} /\ made' = made
    BY <2>1 DEF destroyResources
  <2>. QED
    BY <2>2, HalRemoves DEF Inv
<1>2. FlagsOK'
  <2>1. (presented \/ res[c].has) \in BOOLEAN
    OBVIOUS
  <2>2. /\ presented' = (presented \/ res[c].has) /\ live' \subseteq live
        /\ stage' = [stage EXCEPT ![c] = "dead"]
        /\ UNCHANGED <<primary, plug, mEventCallback, ops, plugs>>
    BY DEF destroyResources
  <2>. QED
    BY <2>1, <2>2 DEF Inv, FlagsOK
<1>3. EventsOK'
  BY DEF Inv, EventsOK, destroyResources
<1>4. /\ res' = [res EXCEPT ![c] = NoDisplay] /\ live' = live \ OfDisplay(res[c])
      /\ UNCHANGED <<op, known>>
  BY DEF destroyResources
<1>. QED
  BY <1>1, <1>2, <1>3, <1>4, ClearedInv

LEMMA RemoveLayerInv == ASSUME Inv, NEW c \in Clients, removeLayer(c) PROVE Inv'
<1>. DEFINE o == op[c]
            d == res[c]
            id == o.id
<1>1. o \in Adding \cup Undoing /\ id \in Ids
  BY OpShape, ClientFacts DEF removeLayer, OpAt, Adding, Undoing
<1>2. HalStep
  BY HalUnchanged DEF removeLayer
<1>3. FlagsOK' /\ EventsOK'
  BY DEF Inv, FlagsOK, EventsOK, removeLayer
<1>4. SameOp(o, Idle) /\ Idle \in Op /\ OpOK(layers', made', Idle)
  BY <1>1, NoHandle DEF SameOp, OpOK, Idle
<1>5. CASE id \notin DOMAIN d.layers
  <2>1. op' = [op EXCEPT ![c] = Idle] /\ UNCHANGED <<res, known, live>>
    BY <1>5 DEF removeLayer, Ends
  <2>. QED
    BY <1>2, <1>3, <1>4, <2>1, CallInv
<1>6. CASE id \in DOMAIN d.layers
  <2>1. PICK i \in DOMAIN d.layers : i = id
    BY <1>6
  <2>2. PICK e : e = [d EXCEPT !.layers = Without(@, i)]
    OBVIOUS
  <2>3. PICK l : l = d.layers[i]
    OBVIOUS
  <2>4. /\ res' = [res EXCEPT ![c] = e] /\ live' = live \ OfLayer(l)
        /\ op' = [op EXCEPT ![c] = Idle] /\ known' = known
    BY <1>6, <2>1, <2>2, <2>3 DEF removeLayer, Ends
  <2>5. Only(c) /\ (res')[c] = e /\ (op')[c] = Idle /\ (known')[c] = known[c]
    BY <2>4, Domains DEF Only
  <2>6. ClientOK(layers', made', d, o, known[c]) /\ GoodDisplay(d)
    BY <1>2, ClientFacts, ClientKept
  <2>7. i \in Ids
    BY <1>1, <2>1
  <2>. HIDE DEF d, o
  <2>8. d.has
    BY <2>6, HasLayers
  <2>9. /\ GoodDisplay(e) /\ SameTarget(d, e) /\ SameNumbers(d, e)
        /\ \A j \in Ids, s \in Slots : HeldL(e, j, s) = IF j = i THEN Null ELSE HeldL(d, j, s)
    BY <2>2, <2>6, <2>8, RemoveLayerGood
  <2>10. ClientOK(layers', made', e, Idle, known[c])
    BY <2>6, <2>9, <1>4 DEF ClientOK, CacheOK, SameNumbers
  <2>. DEFINE S == {LayerPart(i, s) : s \in Slots}
  <2>11. l \in Layer /\ \A s : HeldL(d, i, s) = OfSlot(l, s)
    <3>1. d \in Display
      BY <2>6 DEF GoodDisplay
    <3>. QED
      BY <3>1, <2>3, DisplayFields DEF HeldL
  <2>12. \A s : Held(d, o, LayerPart(i, s)) = OfSlot(l, s)
    BY <2>11 DEF Held, LayerPart
  <2>13. S \subseteq Parts
    BY <2>7, PartIn
  <2>14. PartsFree(c, S)
    <3>1. ASSUME NEW h \in live PROVE h \in OfLayer(l) <=> \E q \in S : Held(d, o, q) = h
      <4>1. h # Null
        BY DEF Inv, Ledger, Owned
      <4>2. h \in OfLayer(l) <=> \E s \in Slots : OfSlot(l, s) = h
        BY <4>1, <2>11, OfLayerHeld
      <4>. QED
        BY <4>2, <2>12
    <3>. HIDE DEF S
    <3>2. \A h : h \in live' <=> h \in live /\ \A q \in S : Held(d, o, q) # h
      BY <2>4, <3>1
    <3>. QED
      BY <3>2 DEF PartsFree, d, o
  <2>15. ASSUME NEW q \in Parts
         PROVE  Held(e, Idle, q) = IF q \in S THEN Null ELSE Held(d, o, q)
    <3>1. CASE \E s \in BufferSlots : q = TargetPart(s)
      <4>1. PICK s \in BufferSlots : q = TargetPart(s)
        BY <3>1
      <4>2. Held(e, Idle, q) = HeldT(e, s) /\ Held(d, o, q) = HeldT(d, s) /\ q \notin S
        BY <4>1, PartsApart DEF Held, TargetPart, LayerPart
      <4>. QED
        BY <4>2, <2>9 DEF SameTarget
    <3>2. CASE \E j \in Ids, s \in Slots : q = LayerPart(j, s)
      <4>1. PICK j \in Ids, s \in Slots : q = LayerPart(j, s)
        BY <3>2
      <4>2. Held(e, Idle, q) = HeldL(e, j, s) /\ Held(d, o, q) = HeldL(d, j, s)
        BY <4>1 DEF Held, LayerPart
      <4>3. q \in S <=> j = i
        BY <4>1, PartsApart
      <4>. QED
        BY <4>2, <4>3, <2>9
    <3>3. CASE q \in {OpPart("handle"), OpPart("replaced")}
      <4>1. Held(e, Idle, q) = Held(d, o, q)
        BY <3>3, <1>4, HeldAt DEF SameOp
      <4>2. q \notin S
        BY <3>3, PartsApart
      <4>. QED
        BY <4>1, <4>2
    <3>. QED
      BY <3>1, <3>2, <3>3, PartCases
  <2>. HIDE DEF S
  <2>16. Ledger'
    BY <2>5, <2>13, <2>14, <2>15, LedgerFrees DEF d, o
  <2>. QED
    BY <1>2, <1>3, <2>5, <2>10, <2>16, InvStep
<1>. QED
  BY <1>5, <1>6

-----------------------------------------------------------------------------
(* Imports and releases                                                      *)

(* A client whose caches stay is as it was but for the call.                  *)
LEMMA OpStep ==
    ASSUME Inv, HalStep, NEW c \in Clients, NEW p \in Op, p.pc # "add",
           op' = [op EXCEPT ![c] = p], UNCHANGED <<res, known>>
    PROVE  /\ Only(c) /\ (res')[c] = res[c] /\ (op')[c] = p /\ (known')[c] = known[c]
           /\ ClientOK(layers', made', (res')[c], (op')[c], (known')[c])
<1>1. Only(c) /\ (res')[c] = res[c] /\ (op')[c] = p /\ (known')[c] = known[c]
  BY Domains DEF Only
<1>2. ClientOK(layers', made', res[c], op[c], known[c])
  BY ClientFacts, ClientKept
<1>3. ClientOK(layers', made', res[c], p, known[c])
  BY <1>2 DEF ClientOK, OpOK
<1>. QED
  BY <1>1, <1>3

(* A call that ends, or goes on with nothing, frees what it held at f.        *)
LEMMA FreesInv ==
    ASSUME Inv, HalStep, FlagsOK', EventsOK', NEW c \in Clients, NEW p \in Op, p.pc # "add",
           NEW f \in {"handle", "replaced"}, HeldO(p, "handle") = Null, HeldO(p, "replaced") = Null,
           \A g \in {"handle", "replaced"} : g # f => HeldO(op[c], g) = Null,
           live' = live \ {HeldO(op[c], f)},
           op' = [op EXCEPT ![c] = p], UNCHANGED <<res, known>>
    PROVE  Inv'
<1>1. /\ Only(c) /\ (res')[c] = res[c] /\ (op')[c] = p /\ (known')[c] = known[c]
      /\ ClientOK(layers', made', (res')[c], (op')[c], (known')[c])
  BY OpStep
<1>. DEFINE S == {OpPart(f)}
<1>2. Held(res[c], op[c], OpPart(f)) = HeldO(op[c], f)
  BY HeldAt
<1>3. PartsFree(c, S)
  BY <1>2 DEF PartsFree
<1>4. ASSUME NEW q \in Parts
      PROVE  Held(res[c], p, q) = IF q \in S THEN Null ELSE Held(res[c], op[c], q)
  <2>1. CASE q \in {OpPart("handle"), OpPart("replaced")}
    BY <2>1, HeldAt
  <2>2. CASE q \notin {OpPart("handle"), OpPart("replaced")}
    <3>1. \/ \E s \in BufferSlots : q = TargetPart(s)
          \/ \E id \in Ids, s \in Slots : q = LayerPart(id, s)
      BY <2>2, PartCases
    <3>2. q \notin S
      BY <2>2
    <3>3. Held(res[c], p, q) = Held(res[c], op[c], q)
      BY <3>1 DEF Held, TargetPart, LayerPart
    <3>. QED
      BY <3>2, <3>3
  <2>. QED
    BY <2>1, <2>2
<1>5. S \subseteq Parts
  BY PartIn
<1>. HIDE DEF S
<1>6. Ledger'
  BY <1>1, <1>3, <1>4, <1>5, LedgerFrees
<1>. QED
  BY <1>1, <1>6, InvStep

LEMMA ImportInv ==
    ASSUME Inv, NEW c \in Clients, NEW cache, NEW id, NEW slot, NEW handle, NEW fromCache \in BOOLEAN,
           \/ cache = "target" /\ id = 0 /\ slot \in BufferSlots
           \/ cache = "buffers" /\ id \in Ids /\ slot \in BufferSlots
           \/ cache = "stream" /\ id \in Ids /\ slot = 0,
           import(c, cache, id, slot, handle, fromCache)
    PROVE  Inv'
<1>1. /\ handle \in (Handles \ live) \cup {Null} /\ (fromCache => handle = Null)
      /\ live' = live \cup ({handle} \ {Null}) /\ op[c] = Idle
      /\ UNCHANGED <<res, known>>
  BY DEF import, Calls
<1>2. PICK p : p = [pc |-> "look", cache |-> cache, id |-> id, slot |-> slot,
                    fromCache |-> fromCache, handle |-> handle]
  OBVIOUS
<1>3. op' = [op EXCEPT ![c] = p]
  BY <1>2 DEF import
<1>4. HalStep
  BY HalUnchanged DEF import
<1>5. live' \subseteq Handles
  BY <1>1 DEF Inv, FlagsOK
<1>6. FlagsOK' /\ EventsOK'
  BY <1>5 DEF Inv, FlagsOK, EventsOK, import, Calls
<1>7. p \in Looking /\ p.pc = "look" /\ p.handle = handle
  BY <1>1, <1>2 DEF Looking, Looks, Import
<1>8. p \in Op /\ HeldO(p, "handle") = handle /\ HeldO(p, "replaced") = Null
  BY <1>7, OpHolds DEF Op
<1>9. HeldO(op[c], "handle") = Null /\ HeldO(op[c], "replaced") = Null
  BY <1>1, NoHandle
<1>10. /\ Only(c) /\ (res')[c] = res[c] /\ (op')[c] = p /\ (known')[c] = known[c]
       /\ ClientOK(layers', made', (res')[c], (op')[c], (known')[c])
  BY <1>1, <1>3, <1>4, <1>7, <1>8, OpStep
<1>11. Ledger'
  <2>1. CASE handle = Null
    <3>1. SameOp(op[c], p)
      BY <2>1, <1>8, <1>9 DEF SameOp
    <3>2. \A q \in Parts : Held(res[c], p, q) = Held(res[c], op[c], q)
      BY <3>1, HeldSame, SameSelf
    <3>3. live' = live
      BY <2>1, <1>1
    <3>. QED
      BY <1>10, <3>2, <3>3, LedgerStays
  <2>2. CASE handle # Null
    <3>1. ASSUME NEW q \in Parts \ {OpPart("handle")}
          PROVE  Held(res[c], p, q) = Held(res[c], op[c], q)
      <4>1. CASE q = OpPart("replaced")
        BY <4>1, <1>8, <1>9, HeldAt
      <4>2. CASE q # OpPart("replaced")
        <5>1. \/ \E s \in BufferSlots : q = TargetPart(s)
              \/ \E j \in Ids, s \in Slots : q = LayerPart(j, s)
          BY <4>2, PartCases
        <5>. QED
          BY <5>1 DEF Held, TargetPart, LayerPart
      <4>. QED
        BY <4>1, <4>2
    <3>2. /\ OpPart("handle") \in Parts
          /\ Held(res[c], op[c], OpPart("handle")) = Null
          /\ Held(res[c], p, OpPart("handle")) = handle
      BY <1>8, <1>9, PartIn, HeldAt
    <3>3. handle \notin live /\ live' = live \cup {handle}
      BY <1>1, <2>2
    <3>. QED
      BY <1>10, <2>2, <3>1, <3>2, <3>3, LedgerTakes
  <2>. QED
    BY <2>1, <2>2
<1>. QED
  BY <1>4, <1>6, <1>10, <1>11, InvStep

LEMMA KnownIds == ASSUME Inv, NEW c \in Clients PROVE DOMAIN known[c] \subseteq Ids
<1>1. known[c] \in Partial(Ids, Nat)
  BY ClientFacts
<1>. QED
  BY <1>1, PartialDef

LEMMA SetLayerBufferInv == ASSUME Inv, NEW c \in Clients, setLayerBuffer(c) PROVE Inv'
<1>1. PICK id \in DOMAIN known[c], s \in BufferSlots, h \in Handles \cup {Null}, b \in BOOLEAN :
         import(c, "buffers", id, s, h, b)
  BY DEF setLayerBuffer
<1>2. id \in Ids
  BY KnownIds
<1>. QED
  BY <1>1, <1>2, ImportInv

LEMMA SetStreamInv == ASSUME Inv, NEW c \in Clients, setLayerSidebandStream(c) PROVE Inv'
<1>1. PICK id \in DOMAIN known[c], h \in Handles : import(c, "stream", id, 0, h, FALSE)
  BY DEF setLayerSidebandStream
<1>2. id \in Ids
  BY KnownIds
<1>. QED
  BY <1>1, <1>2, ImportInv

LEMMA SetClientTargetInv == ASSUME Inv, NEW c \in Clients, setClientTarget(c) PROVE Inv'
<1>1. PICK s \in BufferSlots, h \in Handles \cup {Null}, b \in BOOLEAN :
         import(c, "target", 0, s, h, b)
  BY DEF setClientTarget
<1>. QED
  BY <1>1, ImportInv

LEMMA SetInHalInv == ASSUME Inv, NEW c \in Clients, setInHal(c) PROVE Inv'
<1>1. op[c] \in SettingOp
  BY OpShape, ClientFacts DEF setInHal, OpAt
<1>2. HeldO(op[c], "handle") = Null /\ HeldO(op[c], "replaced") = op[c].replaced
  BY <1>1, OpHolds, ClientFacts
<1>3. Idle \in Op /\ Idle.pc # "add" /\ HeldO(Idle, "handle") = Null /\ HeldO(Idle, "replaced") = Null
  BY NoHandle DEF Idle
<1>4. HalStep
  BY HalUnchanged DEF setInHal
<1>5. FlagsOK' /\ EventsOK'
  BY DEF Inv, FlagsOK, EventsOK, setInHal
<1>6. /\ live' = live \ {HeldO(op[c], "replaced")} /\ op' = [op EXCEPT ![c] = Idle]
      /\ UNCHANGED <<res, known>>
  BY <1>2 DEF setInHal, Ends
<1>. QED
  BY <1>2, <1>3, <1>4, <1>5, <1>6, FreesInv

LEMMA ClearSlotsInv == ASSUME Inv, NEW c \in Clients, clearSlots(c) PROVE Inv'
<1>1. PICK id \in DOMAIN known[c], todo \in SUBSET BufferSlots :
         op' = [op EXCEPT ![c] = [pc |-> "clear", id |-> id, todo |-> todo, replaced |-> Null]]
  BY DEF clearSlots
<1>2. PICK p : p = [pc |-> "clear", id |-> id, todo |-> todo, replaced |-> Null]
  OBVIOUS
<1>3. p \in Clearing /\ p.replaced = Null /\ p.pc = "clear"
  BY <1>2, KnownIds DEF Clearing, Import
<1>4. p \in Op /\ HeldO(p, "handle") = Null /\ HeldO(p, "replaced") = Null
  BY <1>3, OpHolds DEF Op
<1>5. SameOp(op[c], p) /\ OpOK(layers', made', p)
  BY <1>3, <1>4, NoHandle DEF clearSlots, Calls, SameOp, OpOK
<1>6. HalStep
  BY HalUnchanged DEF clearSlots
<1>7. FlagsOK' /\ EventsOK'
  BY DEF Inv, FlagsOK, EventsOK, clearSlots, Calls
<1>8. op' = [op EXCEPT ![c] = p] /\ UNCHANGED <<res, known, live>>
  BY <1>1, <1>2 DEF clearSlots
<1>. QED
  BY <1>4, <1>5, <1>6, <1>7, <1>8, CallInv

-----------------------------------------------------------------------------
(* Handles that change places                                                *)

(* The import goes to slot r, what it replaces to the call; S is freed.       *)
LEMMA RotateInv ==
    ASSUME Inv, HalStep, FlagsOK', EventsOK', NEW c \in Clients,
           NEW r \in Parts \ {OpPart("handle"), OpPart("replaced")},
           NEW S, S \subseteq Parts \ {r, OpPart("handle"), OpPart("replaced")},
           NEW e, GoodDisplay(e), SameNumbers(res[c], e), op[c] \in Looking,
           NEW p \in SettingOp, p.replaced = Held(res[c], op[c], r), Held(e, p, r) = op[c].handle,
           \A q \in Parts \ {r, OpPart("handle"), OpPart("replaced")} :
              Held(e, p, q) = IF q \in S THEN Null ELSE Held(res[c], op[c], q),
           PartsFree(c, S),
           res' = [res EXCEPT ![c] = e], op' = [op EXCEPT ![c] = p], known' = known
    PROVE  Inv'
<1>1. Only(c) /\ (res')[c] = e /\ (op')[c] = p /\ (known')[c] = known[c]
  BY Domains DEF Only
<1>2. p \in Op /\ p.pc = "set"
  BY DEF Op, SettingOp
<1>3. ClientOK(layers', made', e, p, known[c])
  <2>1. ClientOK(layers', made', res[c], op[c], known[c])
    BY ClientFacts, ClientKept
  <2>. QED
    BY <2>1, <1>2 DEF ClientOK, CacheOK, OpOK, SameNumbers
<1>4. PICK a, b : a = OpPart("handle") /\ b = OpPart("replaced")
  OBVIOUS
<1>5. a \in Parts /\ b \in Parts /\ a # b /\ r # a /\ r # b /\ a \notin S /\ b \notin S /\ r \notin S
  BY <1>4, PartIn, PartsApart
<1>. DEFINE m == [q \in Parts |-> IF q = a THEN b ELSE IF q = r THEN a ELSE IF q = b THEN r ELSE q]
<1>6. /\ Held(res[c], op[c], a) = op[c].handle /\ Held(res[c], op[c], b) = Null
      /\ Held(e, p, a) = Null /\ Held(e, p, b) = Held(res[c], op[c], r)
  BY <1>2, <1>4, HeldAt, OpHolds, ClientFacts
<1>7. PartsMove(c, S, m)
  <2>1. m \in [Parts -> Parts] /\ m[a] = b /\ m[r] = a /\ m[b] = r
        /\ \A q \in Parts : q \notin {a, b, r} => m[q] = q
    BY <1>5
  <2>. HIDE DEF m
  <2>2. \A q, s \in Parts : m[q] = m[s] => q = s
    BY <2>1, <1>5
  <2>3. \A q \in Parts : \E s \in Parts : m[s] = q
    BY <2>1, <1>5
  <2>4. ASSUME NEW q \in Parts
        PROVE  Held(e, p, q) = IF m[q] \in S THEN Null ELSE Held(res[c], op[c], m[q])
    <3>1. CASE q \in {a, b, r}
      BY <3>1, <2>1, <1>5, <1>6
    <3>2. CASE q \notin {a, b, r}
      BY <3>2, <2>1, <1>4
    <3>. QED
      BY <3>1, <3>2
  <2>. QED
    BY <1>1, <2>1, <2>2, <2>3, <2>4 DEF PartsMove
<1>. HIDE DEF m
<1>8. Ledger'
  BY <1>1, <1>7, LedgerMoves
<1>. QED
  BY <1>1, <1>3, <1>8, InvStep

(* What a call replaced is freed, and what slot r has is replaced next.       *)
LEMMA SwapInv ==
    ASSUME Inv, HalStep, FlagsOK', EventsOK', NEW c \in Clients,
           NEW r \in Parts \ {OpPart("handle"), OpPart("replaced")},
           NEW e, GoodDisplay(e), SameNumbers(res[c], e), op[c] \in Clearing,
           NEW p \in Clearing, p.replaced = Held(res[c], op[c], r), Held(e, p, r) = Null,
           \A q \in Parts \ {r, OpPart("handle"), OpPart("replaced")} :
              Held(e, p, q) = Held(res[c], op[c], q),
           live' = live \ {op[c].replaced},
           res' = [res EXCEPT ![c] = e], op' = [op EXCEPT ![c] = p], known' = known
    PROVE  Inv'
<1>1. Only(c) /\ (res')[c] = e /\ (op')[c] = p /\ (known')[c] = known[c]
  BY Domains DEF Only
<1>2. p \in Op /\ p.pc = "clear"
  BY DEF Op, Clearing
<1>3. ClientOK(layers', made', e, p, known[c])
  <2>1. ClientOK(layers', made', res[c], op[c], known[c])
    BY ClientFacts, ClientKept
  <2>. QED
    BY <2>1, <1>2 DEF ClientOK, CacheOK, OpOK, SameNumbers
<1>4. PICK a, b : a = OpPart("handle") /\ b = OpPart("replaced")
  OBVIOUS
<1>5. a \in Parts /\ b \in Parts /\ a # b /\ r # a /\ r # b
  BY <1>4, PartIn, PartsApart
<1>. DEFINE m == [q \in Parts |-> IF q = r THEN b ELSE IF q = b THEN r ELSE q]
            S == {b}
<1>6. /\ Held(res[c], op[c], a) = Null /\ Held(res[c], op[c], b) = op[c].replaced
      /\ Held(e, p, a) = Null /\ Held(e, p, b) = Held(res[c], op[c], r)
  BY <1>2, <1>4, HeldAt, OpHolds, ClientFacts
<1>7. PartsMove(c, S, m)
  <2>1. m \in [Parts -> Parts] /\ m[r] = b /\ m[b] = r
        /\ \A q \in Parts : q \notin {b, r} => m[q] = q
    BY <1>5
  <2>. HIDE DEF m
  <2>2. \A q, s \in Parts : m[q] = m[s] => q = s
    BY <2>1, <1>5
  <2>3. \A q \in Parts : \E s \in Parts : m[s] = q
    BY <2>1, <1>5
  <2>4. ASSUME NEW q \in Parts
        PROVE  Held(e, p, q) = IF m[q] \in S THEN Null ELSE Held(res[c], op[c], m[q])
    <3>1. CASE q \in {a, b, r}
      BY <3>1, <2>1, <1>5, <1>6
    <3>2. CASE q \notin {a, b, r}
      BY <3>2, <2>1, <1>4
    <3>. QED
      BY <3>1, <3>2
  <2>. QED
    BY <1>1, <2>1, <2>2, <2>3, <2>4 DEF PartsMove
<1>8. PartsFree(c, S)
  BY <1>6 DEF PartsFree
<1>9. S \subseteq Parts
  BY <1>5
<1>. HIDE DEF m, S
<1>10. Ledger'
  BY <1>1, <1>7, <1>8, <1>9, LedgerMoves
<1>. QED
  BY <1>1, <1>3, <1>10, InvStep

-----------------------------------------------------------------------------
(* getHandle and clearSlot                                                   *)

LEMMA LayerFields ==
    ASSUME NEW l \in Layer
    PROVE  /\ l.number \in Nat /\ l.buffers \in [BufferSlots -> Import]
           /\ l.stream \in [{0} -> Import]
           /\ \A s \in BufferSlots : OfSlot(l, s) = l.buffers[s] /\ l.buffers[s] \in Import
           /\ OfSlot(l, 0) = l.stream[0]
<1>1. /\ l.number \in Nat /\ l.buffers \in [BufferSlots -> Import]
      /\ l.stream \in [{0} -> Import]
  BY DEF Layer
<1>. QED
  BY <1>1, BufferSlotsNotZero DEF OfSlot

(* A layer whose slot s has h, with its other buffers or without them.        *)
LEMMA LayerSlotGood ==
    ASSUME NEW l \in Layer, NEW s \in BufferSlots, NEW h \in Import,
           NEW u, u = [l EXCEPT !.buffers[s] = h]
    PROVE  /\ u \in Layer /\ u.number = l.number
           /\ \A r \in Slots : OfSlot(u, r) = IF r = s THEN h ELSE OfSlot(l, r)
<1>. DEFINE b == [l.buffers EXCEPT ![s] = h]
<1>1. /\ b \in [BufferSlots -> Import] /\ b[s] = h
      /\ \A r \in BufferSlots \ {s} : b[r] = l.buffers[r]
  BY LayerFields
<1>2. u = [l EXCEPT !.buffers = b]
  OBVIOUS
<1>. HIDE DEF b
<1>3. u \in Layer /\ u.number = l.number /\ u.buffers = b /\ u.stream = l.stream
  BY <1>1, <1>2 DEF Layer
<1>. QED
  BY <1>1, <1>3, BufferSlotsNotZero DEF OfSlot, Slots

Streams(l, h, u) == u = [l EXCEPT !.stream[0] = h, !.buffers = [s \in BufferSlots |-> Null]]
LEMMA LayerStreamGood ==
    ASSUME NEW l \in Layer, NEW h \in Import, NEW u, Streams(l, h, u)
    PROVE  /\ u \in Layer /\ u.number = l.number
           /\ \A r \in Slots : OfSlot(u, r) = IF r = 0 THEN h ELSE Null
<1>. DEFINE b == [s \in BufferSlots |-> Null]
            t == [l.stream EXCEPT ![0] = h]
<1>1. /\ b \in [BufferSlots -> Import] /\ \A r \in BufferSlots : b[r] = Null
      /\ t \in [{0} -> Import] /\ t[0] = h
  BY LayerFields DEF Import
<1>2. u = [l EXCEPT !.stream = t, !.buffers = b]
  BY DEF Streams
<1>. HIDE DEF b, t
<1>3. u \in Layer /\ u.number = l.number /\ u.buffers = b /\ u.stream = t
  BY <1>1, <1>2 DEF Layer
<1>. QED
  BY <1>1, <1>3, BufferSlotsNotZero DEF OfSlot, Slots

(* An import on error is freed.                                              *)
LEMMA BadInv ==
    ASSUME Inv, NEW c \in Clients, getHandle(c), Bad(c), HalStep, FlagsOK', EventsOK'
    PROVE  Inv'
<1>1. op[c] \in Looking
  BY OpShape, ClientFacts DEF getHandle, OpAt
<1>2. HeldO(op[c], "handle") = op[c].handle /\ HeldO(op[c], "replaced") = Null
  BY <1>1, OpHolds, ClientFacts
<1>3. Idle \in Op /\ Idle.pc # "add" /\ HeldO(Idle, "handle") = Null /\ HeldO(Idle, "replaced") = Null
  BY NoHandle DEF Idle
<1>4. /\ live' = live \ {HeldO(op[c], "handle")} /\ op' = [op EXCEPT ![c] = Idle]
      /\ UNCHANGED <<res, known>>
  BY <1>2 DEF getHandle, Ends, FreesImport
<1>. QED
  BY <1>2, <1>3, <1>4, FreesInv

LEMMA FromCacheInv ==
    ASSUME Inv, NEW c \in Clients, getHandle(c), ~Bad(c), op[c].fromCache,
           HalStep, FlagsOK', EventsOK'
    PROVE  Inv'
<1>1. op[c] \in Looking
  BY OpShape, ClientFacts DEF getHandle, OpAt
<1>2. op[c].handle = Null
  BY <1>1 DEF Looking, Looks
<1>3. PICK p : p = [pc |-> "set", replaced |-> Null]
  OBVIOUS
<1>4. p \in SettingOp /\ p.replaced = Null /\ p.pc = "set"
  BY <1>3 DEF SettingOp, Import
<1>5. p \in Op
  BY <1>4 DEF Op
<1>6. SameOp(op[c], p) /\ OpOK(layers', made', p)
  BY <1>1, <1>2, <1>4, <1>5, OpHolds, ClientFacts DEF SameOp, OpOK
<1>7. op' = [op EXCEPT ![c] = p] /\ UNCHANGED <<res, known, live>>
  BY <1>3 DEF getHandle
<1>. QED
  BY <1>5, <1>6, <1>7, CallInv

(* The cache of the target: nothing is freed.                                *)
LEMMA TargetInv ==
    ASSUME Inv, NEW c \in Clients, getHandle(c), ~Bad(c), ~op[c].fromCache,
           op[c].cache = "target", HalStep, FlagsOK', EventsOK'
    PROVE  Inv'
<1>. DEFINE d == res[c]
            o == op[c]
<1>1. o \in Looking /\ o.handle \in Import /\ o.slot \in DOMAIN d.target
  BY OpShape, ClientFacts DEF getHandle, OpAt, Looking, Looks, Bad, CacheOf
<1>2. PICK s, h : s = o.slot /\ h = o.handle
  OBVIOUS
<1>3. PICK e : e = [d EXCEPT !.target[s] = h]
  OBVIOUS
<1>4. PICK p : p = [pc |-> "set", replaced |-> d.target[s]]
  OBVIOUS
<1>5. /\ res' = [res EXCEPT ![c] = e] /\ op' = [op EXCEPT ![c] = p] /\ known' = known
      /\ live' = live
  BY <1>2, <1>3, <1>4 DEF getHandle, Updated, Released, CacheOf
<1>6. GoodDisplay(d) /\ d \in Display
  BY ClientFacts DEF GoodDisplay
<1>. HIDE DEF d
<1>7. s \in DOMAIN d.target /\ s \in BufferSlots /\ d.target[s] \in Import /\ h \in Import
  BY <1>1, <1>2, <1>6, DisplayFields
<1>8. /\ GoodDisplay(e) /\ SameLayers(d, e) /\ SameNumbers(d, e)
      /\ \A r \in BufferSlots : HeldT(e, r) = IF r = s THEN h ELSE HeldT(d, r)
  BY <1>3, <1>6, <1>7, TargetSlotGood
<1>9. PICK r \in Parts \ {OpPart("handle"), OpPart("replaced")} : r = TargetPart(s)
  BY <1>7, PartIn, PartsApart
<1>10. p \in SettingOp /\ p.replaced = Held(d, o, r) /\ Held(e, p, r) = h
  BY <1>4, <1>7, <1>8, <1>9 DEF SettingOp, Held, TargetPart, HeldT
<1>11. ASSUME NEW q \in Parts \ {r, OpPart("handle"), OpPart("replaced")}
       PROVE  Held(e, p, q) = IF q \in {} THEN Null ELSE Held(d, o, q)
  <2>1. CASE \E u \in BufferSlots : q = TargetPart(u)
    <3>1. PICK u \in BufferSlots : q = TargetPart(u)
      BY <2>1
    <3>2. u # s
      BY <3>1, <1>9
    <3>3. Held(e, p, q) = HeldT(e, u) /\ Held(d, o, q) = HeldT(d, u)
      BY <3>1 DEF Held, TargetPart
    <3>. QED
      BY <3>2, <3>3, <1>8
  <2>2. CASE \E j \in Ids, u \in Slots : q = LayerPart(j, u)
    <3>1. PICK j \in Ids, u \in Slots : q = LayerPart(j, u)
      BY <2>2
    <3>2. Held(e, p, q) = HeldL(e, j, u) /\ Held(d, o, q) = HeldL(d, j, u)
      BY <3>1 DEF Held, LayerPart
    <3>. QED
      BY <3>2, <1>8 DEF SameLayers
  <2>. QED
    BY <2>1, <2>2, PartCases
<1>12. PartsFree(c, {})
  BY <1>5 DEF PartsFree
<1>. QED
  BY <1>1, <1>2, <1>5, <1>8, <1>10, <1>11, <1>12, RotateInv DEF d

(* A slot of a layer; the stream frees the buffers.                           *)
LEMMA LayerSlotInv ==
    ASSUME Inv, NEW c \in Clients, getHandle(c), ~Bad(c), ~op[c].fromCache,
           op[c].cache # "target", HalStep, FlagsOK', EventsOK'
    PROVE  Inv'
<1>. DEFINE d == res[c]
            o == op[c]
<1>1. /\ o \in Looking /\ o.handle \in Import /\ o.id \in DOMAIN d.layers
      /\ o.cache \in {"buffers", "stream"}
      /\ o.cache = "buffers" => o.slot \in BufferSlots
      /\ o.cache = "stream" => o.slot = 0
  BY OpShape, ClientFacts DEF getHandle, OpAt, Looking, Looks, Bad, CacheOf, NoFun
<1>2. GoodDisplay(d) /\ d \in Display
  BY ClientFacts DEF GoodDisplay
<1>3. PICK i \in DOMAIN d.layers, s \in Slots, h \in Import : i = o.id /\ s = o.slot /\ h = o.handle
  BY <1>1 DEF Slots
<1>4. PICK l \in Layer : l = d.layers[i]
  BY <1>2, DisplayFields
<1>5. PICK u \in Layer :
         /\ u.number = l.number
         /\ \A t \in Slots : OfSlot(u, t) = IF t = s THEN h
                                            ELSE IF o.cache = "stream" THEN Null ELSE OfSlot(l, t)
         /\ Updated(c, h) = [d EXCEPT !.layers[i] = u]
  <2>1. CASE o.cache = "buffers"
    <3>1. PICK v : v = [l EXCEPT !.buffers[s] = h]
      OBVIOUS
    <3>2. s \in BufferSlots
      BY <2>1, <1>1, <1>3
    <3>3. /\ v \in Layer /\ v.number = l.number
          /\ \A t \in Slots : OfSlot(v, t) = IF t = s THEN h ELSE OfSlot(l, t)
      BY <3>1, <3>2, LayerSlotGood
    <3>4. Updated(c, h) = [d EXCEPT !.layers[i] = v]
      BY <2>1, <3>1, <1>3, <1>4 DEF Updated
    <3>. QED
      BY <2>1, <3>3, <3>4
  <2>2. CASE o.cache = "stream"
    <3>1. PICK v : Streams(l, h, v)
      BY DEF Streams
    <3>2. /\ v \in Layer /\ v.number = l.number
          /\ \A t \in Slots : OfSlot(v, t) = IF t = 0 THEN h ELSE Null
      BY <3>1, LayerStreamGood
    <3>3. Updated(c, h) = [d EXCEPT !.layers[i] = v]
      BY <2>2, <3>1, <1>3, <1>4 DEF Updated, Streams
    <3>. QED
      BY <2>2, <3>2, <3>3, <1>1, <1>3
  <2>. QED
    BY <1>1, <2>1, <2>2
<1>6. PICK e : e = [d EXCEPT !.layers[i] = u]
  OBVIOUS
<1>7. PICK g : g = CacheOf(c)[s]
  OBVIOUS
<1>8. g = OfSlot(l, s) /\ g \in Import
  <2>1. CacheOf(c) = l[o.cache]
    BY <1>1, <1>3, <1>4 DEF CacheOf
  <2>2. o.cache = "buffers" => CacheOf(c) = l.buffers /\ s \in BufferSlots
    BY <2>1, <1>1, <1>3
  <2>3. o.cache = "stream" => CacheOf(c) = l.stream /\ s = 0
    BY <2>1, <1>1, <1>3
  <2>4. l.stream[0] \in Import
    BY LayerFields
  <2>. QED
    BY <1>1, <1>7, <2>2, <2>3, <2>4, LayerFields
<1>9. PICK p : p = [pc |-> "set", replaced |-> g]
  OBVIOUS
<1>10. /\ res' = [res EXCEPT ![c] = e] /\ op' = [op EXCEPT ![c] = p] /\ known' = known
       /\ live' = live \ Released(c)
  <2>1. Updated(c, o.handle) = e /\ CacheOf(c)[o.slot] = g
    BY <1>3, <1>5, <1>6, <1>7
  <2>2. /\ op' = [op EXCEPT ![c] = [pc |-> "set", replaced |-> CacheOf(c)[o.slot]]]
        /\ res' = [res EXCEPT ![c] = Updated(c, o.handle)]
        /\ live' = live \ Released(c) /\ known' = known
    BY DEF getHandle
  <2>. QED
    BY <2>1, <2>2, <1>9
<1>11. i \in Ids
  BY <1>2, DisplayFields
<1>12. Released(c) = IF o.cache = "stream" THEN In(l.buffers) ELSE {}
  BY <1>3, <1>4 DEF Released
<1>. HIDE DEF d, o
<1>13. /\ GoodDisplay(e) /\ SameTarget(d, e) /\ SameNumbers(d, e)
       /\ \A j \in Ids, t \in Slots :
             HeldL(e, j, t) = IF j = i THEN OfSlot(u, t) ELSE HeldL(d, j, t)
  <2>1. d.has /\ u.number = d.layers[i].number
    BY <1>2, <1>4, <1>5, HasLayers
  <2>. QED
    BY <1>2, <1>6, <2>1, ReplaceLayerGood
<1>14. PICK r \in Parts \ {OpPart("handle"), OpPart("replaced")} : r = LayerPart(i, s)
  BY <1>11, PartIn, PartsApart
<1>15. \A t \in Slots : Held(d, o, LayerPart(i, t)) = OfSlot(l, t)
  BY <1>4 DEF Held, LayerPart, HeldL
<1>16. Held(e, p, r) = h
  <2>1. Held(e, p, r) = HeldL(e, i, s)
    BY <1>14 DEF Held, LayerPart
  <2>. QED
    BY <2>1, <1>5, <1>11, <1>13
<1>17. p \in SettingOp /\ p.replaced = Held(d, o, r)
  BY <1>8, <1>9, <1>14, <1>15 DEF SettingOp
<1>. DEFINE S == IF o.cache = "stream" THEN {LayerPart(i, t) : t \in BufferSlots} ELSE {}
<1>18. ASSUME NEW j, NEW t \in Slots
       PROVE  LayerPart(j, t) \in S <=> o.cache = "stream" /\ j = i /\ t \in BufferSlots
  BY PartsApart
<1>19. S \subseteq Parts \ {r, OpPart("handle"), OpPart("replaced")}
  <2>1. o.cache = "stream" => s \notin BufferSlots
    BY <1>1, <1>3, BufferSlotsNotZero DEF o
  <2>2. \A t \in BufferSlots : LayerPart(i, t) \in Parts
    BY <1>11, PartIn DEF Slots
  <2>. QED
    BY <2>1, <2>2, <1>14, PartsApart
<1>20. ASSUME NEW q \in Parts \ {r, OpPart("handle"), OpPart("replaced")}
       PROVE  Held(e, p, q) = IF q \in S THEN Null ELSE Held(d, o, q)
  <2>1. CASE \E t \in BufferSlots : q = TargetPart(t)
    <3>1. PICK t \in BufferSlots : q = TargetPart(t)
      BY <2>1
    <3>2. q \notin S
      BY <3>1, PartsApart
    <3>3. Held(e, p, q) = HeldT(e, t) /\ Held(d, o, q) = HeldT(d, t)
      BY <3>1 DEF Held, TargetPart
    <3>. QED
      BY <3>2, <3>3, <1>13 DEF SameTarget
  <2>2. CASE \E j \in Ids, t \in Slots : q = LayerPart(j, t)
    <3>1. PICK j \in Ids, t \in Slots : q = LayerPart(j, t)
      BY <2>2
    <3>2. Held(e, p, q) = HeldL(e, j, t) /\ Held(d, o, q) = HeldL(d, j, t)
      BY <3>1 DEF Held, LayerPart
    <3>3. j = i => t # s
      BY <3>1, <1>14
    <3>4. q \in S <=> o.cache = "stream" /\ j = i /\ t \in BufferSlots
      BY <3>1, <1>18
    <3>5. CASE j # i
      BY <3>2, <3>4, <3>5, <1>13
    <3>6. CASE j = i
      <4>1. Held(e, p, q) = OfSlot(u, t) /\ Held(d, o, q) = OfSlot(l, t)
        BY <3>1, <3>2, <3>6, <1>13, <1>15
      <4>2. o.cache = "stream" => t \in BufferSlots
        BY <3>3, <3>6, <1>1, <1>3 DEF Slots, o
      <4>. QED
        BY <4>1, <4>2, <3>3, <3>4, <3>6, <1>5
    <3>. QED
      BY <3>5, <3>6
  <2>. QED
    BY <2>1, <2>2, PartCases
<1>21. PartsFree(c, S)
  <2>1. CASE o.cache # "stream"
    <3>1. live' = live /\ S = {}
      BY <2>1, <1>10, <1>12
    <3>. HIDE DEF S
    <3>. QED
      BY <3>1 DEF PartsFree
  <2>2. CASE o.cache = "stream"
    <3>1. /\ \A t \in BufferSlots : Held(d, o, LayerPart(i, t)) = l.buffers[t]
          /\ S = {LayerPart(i, t) : t \in BufferSlots}
      BY <2>2, <1>15, LayerFields DEF Slots
    <3>2. In(l.buffers) = {l.buffers[t] : t \in BufferSlots} \ {Null}
      BY LayerFields DEF In, Range
    <3>3. live' = live \ In(l.buffers) /\ Null \notin live
      BY <2>2, <1>10, <1>12 DEF Inv, Ledger, Owned
    <3>4. \A x : x \in live' <=> x \in live /\ \A q \in S : Held(d, o, q) # x
      BY <3>1, <3>2, <3>3
    <3>. QED
      BY <3>4 DEF PartsFree, d, o
  <2>. QED
    BY <2>1, <2>2
<1>. HIDE DEF S
<1>22. o \in Looking /\ o.handle = h
  BY <1>1, <1>3 DEF o
<1>. QED
  BY <1>10, <1>13, <1>16, <1>17, <1>19, <1>20, <1>21, <1>22, RotateInv DEF d, o

LEMMA GetHandleInv == ASSUME Inv, NEW c \in Clients, getHandle(c) PROVE Inv'
<1>1. HalStep
  BY HalUnchanged DEF getHandle
<1>2. live' \subseteq live
  BY DEF getHandle, FreesImport
<1>3. FlagsOK' /\ EventsOK'
  BY <1>2 DEF Inv, FlagsOK, EventsOK, getHandle
<1>. QED
  BY <1>1, <1>3, BadInv, FromCacheInv, TargetInv, LayerSlotInv

LEMMA ClearSlotInv == ASSUME Inv, NEW c \in Clients, clearSlot(c) PROVE Inv'
<1>. DEFINE d == res[c]
            o == op[c]
<1>1. o \in Clearing /\ o.id \in Ids /\ o.todo \subseteq BufferSlots
  BY OpShape, ClientFacts DEF clearSlot, OpAt, Clearing
<1>2. HalStep
  BY HalUnchanged DEF clearSlot
<1>3. live' = live \ {o.replaced} /\ known' = known
  BY DEF clearSlot
<1>4. FlagsOK' /\ EventsOK'
  BY <1>3 DEF Inv, FlagsOK, EventsOK, clearSlot
<1>5. CASE o.todo = {} \/ o.id \notin DOMAIN d.layers
  <2>1. HeldO(o, "handle") = Null /\ HeldO(o, "replaced") = o.replaced
    BY <1>1, OpHolds, ClientFacts
  <2>2. /\ Idle \in Op /\ Idle.pc # "add"
        /\ HeldO(Idle, "handle") = Null /\ HeldO(Idle, "replaced") = Null
    BY NoHandle DEF Idle
  <2>3. /\ live' = live \ {HeldO(o, "replaced")} /\ op' = [op EXCEPT ![c] = Idle]
        /\ UNCHANGED <<res, known>>
    BY <1>3, <1>5, <2>1 DEF clearSlot, Ends
  <2>. QED
    BY <1>2, <1>4, <2>1, <2>2, <2>3, FreesInv
<1>6. CASE ~(o.todo = {} \/ o.id \notin DOMAIN d.layers)
  <2>1. PICK s \in o.todo :
           /\ op' = [op EXCEPT ![c].todo = @ \ {s},
                               ![c].replaced = res[c].layers[o.id].buffers[s]]
           /\ res' = [res EXCEPT ![c].layers[o.id].buffers[s] = Null]
    BY <1>6 DEF clearSlot
  <2>2. PICK i \in DOMAIN d.layers : i = o.id
    BY <1>6
  <2>3. GoodDisplay(d) /\ d \in Display /\ s \in BufferSlots /\ i \in Ids
    BY <1>1, <2>2, ClientFacts DEF GoodDisplay
  <2>4. PICK l \in Layer : l = d.layers[i]
    BY <2>3, DisplayFields
  <2>5. PICK u : u = [l EXCEPT !.buffers[s] = Null]
    OBVIOUS
  <2>6. /\ u \in Layer /\ u.number = l.number
        /\ \A r \in Slots : OfSlot(u, r) = IF r = s THEN Null ELSE OfSlot(l, r)
    BY <2>3, <2>5, LayerSlotGood DEF Import
  <2>7. PICK e : e = [d EXCEPT !.layers[i] = u]
    OBVIOUS
  <2>8. PICK g : g = l.buffers[s]
    OBVIOUS
  <2>9. PICK p : p = [o EXCEPT !.todo = o.todo \ {s}, !.replaced = g]
    OBVIOUS
  <2>10. /\ res' = [res EXCEPT ![c] = e] /\ op' = [op EXCEPT ![c] = p]
    <3>1. res' = [res EXCEPT ![c] = [d EXCEPT !.layers[i].buffers[s] = Null]]
      BY <2>1, <2>2
    <3>2. [d EXCEPT !.layers[i].buffers[s] = Null] = e
      BY <2>4, <2>5, <2>7
    <3>3. op' = [op EXCEPT ![c] = p]
      BY <2>1, <2>2, <2>4, <2>8, <2>9
    <3>. QED
      BY <3>1, <3>2, <3>3
  <2>. HIDE DEF d, o
  <2>11. /\ GoodDisplay(e) /\ SameTarget(d, e) /\ SameNumbers(d, e)
         /\ \A j \in Ids, t \in Slots :
               HeldL(e, j, t) = IF j = i THEN OfSlot(u, t) ELSE HeldL(d, j, t)
    <3>1. d.has /\ u.number = d.layers[i].number
      BY <2>3, <2>4, <2>6, HasLayers
    <3>. QED
      BY <2>3, <2>6, <2>7, <3>1, ReplaceLayerGood
  <2>12. s \in Slots /\ OfSlot(l, s) = g /\ g \in Import
    BY <2>3, <2>8, LayerFields DEF Slots
  <2>13. PICK r \in Parts \ {OpPart("handle"), OpPart("replaced")} : r = LayerPart(i, s)
    BY <2>3, <2>12, PartIn, PartsApart
  <2>14. p \in Clearing /\ p.replaced = g
    BY <1>1, <2>9, <2>12 DEF Clearing
  <2>15. p.replaced = Held(d, o, r) /\ Held(e, p, r) = Null
    <3>1. Held(d, o, r) = HeldL(d, i, s) /\ Held(e, p, r) = HeldL(e, i, s)
      BY <2>13 DEF Held, LayerPart
    <3>2. HeldL(d, i, s) = g
      BY <2>4, <2>12 DEF HeldL
    <3>. QED
      BY <3>1, <3>2, <2>3, <2>6, <2>11, <2>12, <2>14
  <2>16. ASSUME NEW q \in Parts \ {r, OpPart("handle"), OpPart("replaced")}
         PROVE  Held(e, p, q) = Held(d, o, q)
    <3>1. CASE \E t \in BufferSlots : q = TargetPart(t)
      <4>1. PICK t \in BufferSlots : q = TargetPart(t)
        BY <3>1
      <4>2. Held(e, p, q) = HeldT(e, t) /\ Held(d, o, q) = HeldT(d, t)
        BY <4>1 DEF Held, TargetPart
      <4>. QED
        BY <4>2, <2>11 DEF SameTarget
    <3>2. CASE \E j \in Ids, t \in Slots : q = LayerPart(j, t)
      <4>1. PICK j \in Ids, t \in Slots : q = LayerPart(j, t)
        BY <3>2
      <4>2. Held(e, p, q) = HeldL(e, j, t) /\ Held(d, o, q) = HeldL(d, j, t)
        BY <4>1 DEF Held, LayerPart
      <4>3. j = i => t # s
        BY <4>1, <2>13
      <4>4. HeldL(d, i, t) = OfSlot(l, t)
        BY <2>4 DEF HeldL
      <4>. QED
        BY <4>2, <4>3, <4>4, <2>6, <2>11
    <3>. QED
      BY <3>1, <3>2, PartCases
  <2>. QED
    BY <1>1, <1>2, <1>3, <1>4, <2>10, <2>11, <2>14, <2>15, <2>16, SwapInv DEF d, o
<1>. QED
  BY <1>5, <1>6

-----------------------------------------------------------------------------
(* The theorems                                                              *)

LEMMA InitInv == ClientInit => Inv
<1>. SUFFICES ASSUME ClientInit PROVE Inv
  OBVIOUS
<1>1. /\ NoFun \in Partial(Ids, Nat) /\ DOMAIN NoFun = {}
      /\ GoodDisplay(NoDisplay) /\ DOMAIN NoDisplay.layers = {} /\ DOMAIN NoDisplay.target = {}
  BY NoFunPartial, NoDisplayGood
<1>2. Idle \in Op /\ HeldO(Idle, "handle") = Null /\ HeldO(Idle, "replaced") = Null
  BY NoHandle
<1>3. HalTyped /\ TableOK(layers, made, bitmap)
  BY <1>1 DEF ClientInit, HalTyped, TableOK
<1>4. FlagsOK
  BY DEF ClientInit, FlagsOK
<1>5. EventsOK
  BY DEF ClientInit, EventsOK, Event
<1>6. ClientFuns
  <2>. DEFINE T == {NoDisplay, Idle, NoFun}
  <2>1. res \in [Clients -> T] /\ op \in [Clients -> T] /\ known \in [Clients -> T]
    BY DEF ClientInit
  <2>. HIDE DEF T
  <2>. QED
    BY <2>1 DEF ClientFuns
<1>7. \A c \in Clients : res[c] = NoDisplay /\ op[c] = Idle /\ known[c] = NoFun
  BY DEF ClientInit
<1>8. ClientsOK
  <2>1. ClientOK(layers, made, NoDisplay, Idle, NoFun)
    BY <1>1, <1>2 DEF ClientOK, KnownOK, CacheOK, OpOK, Idle
  <2>. QED
    BY <1>7, <2>1 DEF ClientsOK
<1>9. \A p \in Places : Holdings[p] = Null
  <2>1. ASSUME NEW p \in Places PROVE Holdings[p] = Null
    <3>1. p[1] \in Clients /\ p[2] \in Parts
      BY DEF Places
    <3>2. Holdings[p] = Held(NoDisplay, Idle, p[2])
      BY <3>1, <1>7 DEF Holdings
    <3>3. \A id, s : HeldT(NoDisplay, s) = Null /\ HeldL(NoDisplay, id, s) = Null
      BY <1>1 DEF HeldT, HeldL
    <3>4. HeldO(Idle, p[2][1]) = Null \/ p[2][1] \in {"target", "layer"}
      BY <3>1, <1>2, PartCases DEF TargetPart, LayerPart, OpPart
    <3>. QED
      BY <3>2, <3>3, <3>4 DEF Held
  <2>. QED
    BY <2>1
<1>10. Ledger
  BY <1>9 DEF Ledger, Owned, ClientInit
<1>. QED
  BY <1>3, <1>4, <1>5, <1>6, <1>8, <1>10 DEF Inv

LEMMA LifeInv == ASSUME Inv, NEW c \in Clients, ClientLife(c) PROVE Inv'
BY CreateClientInv, RegisterInv, ExpireInv, UnregisterInv, DestroyInv DEF ClientLife

LEMMA LayerCallInv == ASSUME Inv, NEW c \in Clients, LayerCall(c) PROVE Inv'
BY CreateLayerInv, AddLayerInv, DestroyLayerInv, UndoLayerInv, RemoveLayerInv DEF LayerCall

LEMMA BufferCallInv == ASSUME Inv, NEW c \in Clients, BufferCall(c) PROVE Inv'
BY SlotCountInv, SetLayerBufferInv, SetStreamInv, SetClientTargetInv, GetHandleInv, SetInHalInv,
   ClearSlotsInv, ClearSlotInv, PresentInv DEF BufferCall

LEMMA CallbackInv == ASSUME Inv, NEW t \in Callbacks, Callback(t) PROVE Inv'
BY LookInv, RemoveInv, AddInv, SizeInv DEF Callback

LEMMA NextInv == Inv /\ [ClientNext]_cvars => Inv'
<1>. SUFFICES ASSUME Inv, [ClientNext]_cvars PROVE Inv'
  OBVIOUS
<1>1. CASE UNCHANGED cvars
  <2>1. HalStep
    BY <1>1, HalUnchanged DEF cvars, hal
  <2>2. FlagsOK' /\ EventsOK' /\ UNCHANGED <<res, op, known, live>>
    BY <1>1 DEF cvars, Inv, FlagsOK, EventsOK
  <2>. QED
    BY <2>1, <2>2, InvKept
<1>2. CASE ClientNext
  BY <1>2, LifeInv, LayerCallInv, BufferCallInv, CallbackInv, PlugOutInv, ModeChangedInv,
     OnHotplugInv DEF ClientNext
<1>. QED
  BY <1>1, <1>2

LEMMA SpecInv == ClientSpec => []Inv
BY InitInv, NextInv, PTL DEF ClientSpec

(* The display's resources, the layers of the HAL, the calls and the events    *)
(* have their types.                                                          *)
THEOREM TypeCorrect == ClientSpec => []TypeOK
<1>1. Inv => TypeOK
  BY InvSuffices
<1>. QED
  BY <1>1, SpecInv, PTL

(* An id that SurfaceFlinger or a client's resources keep never names another *)
(* layer, whatever hotplug has cleared.                                       *)
THEOREM IdsStay == ClientSpec => []IdsNameOneLayer
<1>1. Inv => IdsNameOneLayer
  BY InvSuffices, IdInvSuffices
<1>. QED
  BY <1>1, SpecInv, PTL

-----------------------------------------------------------------------------
(* The owners of a handle are the places it is at                             *)

TargetOwners(h) ==
    {o \in Clients \X BufferSlots :
        o[2] \in DOMAIN res[o[1]].target /\ res[o[1]].target[o[2]] = h}
LayerOwners(h) ==
    {o \in Clients \X LayerSlots \X (0..Seqs - 1) \X (BufferSlots \cup {0}) :
        LET of == res[o[1]].layers
            id == <<o[2], o[3]>>
        IN id \in DOMAIN of /\ (IF o[4] = 0 THEN of[id].stream ELSE of[id].buffers)[o[4]] = h}
OpOwners(h) ==
    {o \in Clients \X {"handle", "replaced"} :
        o[2] \in DOMAIN op[o[1]] /\ op[o[1]][o[2]] = h}

InPlace(c, q) == Held(res[c], op[c], q)

LEMMA OwnersAt ==
    ASSUME Inv, NEW h, h # Null
    PROVE  /\ \A c \in Clients, s \in BufferSlots :
                 <<c, s>> \in TargetOwners(h) <=> InPlace(c, TargetPart(s)) = h
           /\ \A c \in Clients, x \in LayerSlots, y \in 0..Seqs - 1, s \in Slots :
                 <<c, x, y, s>> \in LayerOwners(h) <=> InPlace(c, LayerPart(<<x, y>>, s)) = h
           /\ \A c \in Clients, f \in {"handle", "replaced"} :
                 <<c, f>> \in OpOwners(h) <=> InPlace(c, OpPart(f)) = h
<1>1. ASSUME NEW c \in Clients, NEW s \in BufferSlots
      PROVE  <<c, s>> \in TargetOwners(h) <=> InPlace(c, TargetPart(s)) = h
  <2>1. InPlace(c, TargetPart(s)) = HeldT(res[c], s)
    BY DEF InPlace, Held, TargetPart
  <2>. QED
    BY <2>1 DEF TargetOwners, HeldT
<1>2. ASSUME NEW c \in Clients, NEW x \in LayerSlots, NEW y \in 0..Seqs - 1, NEW s \in Slots
      PROVE  <<c, x, y, s>> \in LayerOwners(h) <=> InPlace(c, LayerPart(<<x, y>>, s)) = h
  <2>1. InPlace(c, LayerPart(<<x, y>>, s)) = HeldL(res[c], <<x, y>>, s)
    BY DEF InPlace, Held, LayerPart
  <2>2. <<c, x, y, s>> \in LayerOwners(h)
        <=> /\ <<x, y>> \in DOMAIN res[c].layers
            /\ (IF s = 0 THEN res[c].layers[<<x, y>>].stream
                ELSE res[c].layers[<<x, y>>].buffers)[s] = h
    BY DEF LayerOwners, Slots
  <2>3. OfSlot(res[c].layers[<<x, y>>], s)
        = (IF s = 0 THEN res[c].layers[<<x, y>>].stream
           ELSE res[c].layers[<<x, y>>].buffers)[s]
    BY DEF OfSlot
  <2>. QED
    BY <2>1, <2>2, <2>3 DEF HeldL
<1>3. ASSUME NEW c \in Clients, NEW f \in {"handle", "replaced"}
      PROVE  <<c, f>> \in OpOwners(h) <=> InPlace(c, OpPart(f)) = h
  <2>1. InPlace(c, OpPart(f)) = HeldO(op[c], f)
    BY DEF InPlace, Held, OpPart
  <2>. QED
    BY <2>1 DEF OpOwners, HeldO
<1>. QED
  BY <1>1, <1>2, <1>3

LEMMA OwnersIn ==
    ASSUME NEW h
    PROVE  /\ \A o \in TargetOwners(h) : \E c \in Clients, s \in BufferSlots : o = <<c, s>>
           /\ \A o \in LayerOwners(h) :
                 \E c \in Clients, x \in LayerSlots, y \in 0..Seqs - 1, s \in Slots :
                    o = <<c, x, y, s>>
           /\ \A o \in OpOwners(h) :
                 \E c \in Clients, f \in {"handle", "replaced"} : o = <<c, f>>
BY DEF TargetOwners, LayerOwners, OpOwners, Slots

LEMMA OneOwner ==
    ASSUME Inv, NEW h \in Handles
    PROVE  Owners(h) = IF h \in live THEN 1 ELSE 0
<1>. DEFINE A == TargetOwners(h)
            B == LayerOwners(h)
            C == OpOwners(h)
<1>1. Owners(h) = Cardinality(A) + Cardinality(B) + Cardinality(C)
  BY DEF Owners, TargetOwners, LayerOwners, OpOwners
<1>2. Cardinality({}) = 0 /\ \A x : Cardinality({x}) = 1
  BY FS_EmptySet, FS_Singleton
<1>3. h # Null
  BY ClientAssumption
<1>4. /\ h \in live <=> \E c \in Clients, q \in Parts : InPlace(c, q) = h
      /\ \A c, d \in Clients, q, r \in Parts : InPlace(c, q) = h /\ InPlace(d, r) = h => c = d /\ q = r
  <2>1. Owned(Holdings, live)
    BY DEF Inv, Ledger
  <2>2. \A c \in Clients, q \in Parts : <<c, q>> \in Places /\ Holdings[<<c, q>>] = InPlace(c, q)
    BY HoldingsAt DEF InPlace
  <2>3. \A p \in Places : p[1] \in Clients /\ p[2] \in Parts /\ p = <<p[1], p[2]>>
    BY DEF Places
  <2>4. ASSUME NEW c \in Clients, NEW d \in Clients, NEW q \in Parts, NEW r \in Parts,
               InPlace(c, q) = h, InPlace(d, r) = h
        PROVE  c = d /\ q = r
    <3>1. /\ <<c, q>> \in Places /\ <<d, r>> \in Places
          /\ Holdings[<<c, q>>] = Holdings[<<d, r>>] /\ Holdings[<<c, q>>] # Null
      BY <2>2, <2>4, <1>3
    <3>2. <<c, q>> = <<d, r>>
      BY <2>1, <3>1 DEF Owned
    <3>. QED
      BY <3>2
  <2>5. h \in live <=> \E p \in Places : Holdings[p] = h
    BY <2>1, <1>3 DEF Owned
  <2>6. (\E p \in Places : Holdings[p] = h) <=> \E c \in Clients, q \in Parts : InPlace(c, q) = h
    <3>1. ASSUME NEW p \in Places, Holdings[p] = h
          PROVE  \E c \in Clients, q \in Parts : InPlace(c, q) = h
      <4>1. Holdings[<<p[1], p[2]>>] = InPlace(p[1], p[2]) /\ p[1] \in Clients /\ p[2] \in Parts
        BY <2>2, <2>3
      <4>2. InPlace(p[1], p[2]) = h
        BY <4>1, <3>1, <2>3
      <4>. QED
        BY <4>1, <4>2
    <3>. QED
      BY <2>2, <3>1
  <2>. QED
    BY <2>4, <2>5, <2>6
<1>5. \A x \in LayerSlots, y \in 0..Seqs - 1 : <<x, y>> \in Ids
  BY DEF Ids
<1>6. ASSUME NEW o \in A
      PROVE  \E c \in Clients, s \in BufferSlots : o = <<c, s>> /\ InPlace(c, TargetPart(s)) = h
  BY <1>3, OwnersIn, OwnersAt
<1>7. ASSUME NEW o \in B
      PROVE  \E c \in Clients, x \in LayerSlots, y \in 0..Seqs - 1, s \in Slots :
                o = <<c, x, y, s>> /\ InPlace(c, LayerPart(<<x, y>>, s)) = h
  BY <1>3, OwnersIn, OwnersAt
<1>8. ASSUME NEW o \in C
      PROVE  \E c \in Clients, f \in {"handle", "replaced"} : o = <<c, f>> /\ InPlace(c, OpPart(f)) = h
  <2>1. PICK c \in Clients, f \in {"handle", "replaced"} : o = <<c, f>>
    BY OwnersIn
  <2>2. InPlace(c, OpPart(f)) = h
    BY <2>1, <1>3, OwnersAt
  <2>. QED
    BY <2>1, <2>2
<1>. HIDE DEF A, B, C
<1>9. CASE h \notin live
  <2>1. A = {} /\ B = {} /\ C = {}
    BY <1>4, <1>5, <1>6, <1>7, <1>8, <1>9, PartIn
  <2>. QED
    BY <2>1, <1>1, <1>2, <1>9
<1>10. CASE h \in live
  <2>1. PICK c \in Clients, q \in Parts : InPlace(c, q) = h
    BY <1>4, <1>10
  <2>2. CASE \E s \in BufferSlots : q = TargetPart(s)
    <3>1. PICK s \in BufferSlots : q = TargetPart(s)
      BY <2>2
    <3>2. A = {<<c, s>>}
      <4>1. <<c, s>> \in A
        BY <2>1, <3>1, <1>3, OwnersAt DEF A
      <4>2. ASSUME NEW o \in A PROVE o = <<c, s>>
        <5>1. PICK d \in Clients, r \in BufferSlots : o = <<d, r>> /\ InPlace(d, TargetPart(r)) = h
          BY <1>6
        <5>2. d = c /\ TargetPart(r) = TargetPart(s)
          BY <5>1, <2>1, <3>1, <1>4, PartIn
        <5>. QED
          BY <5>1, <5>2, PartsApart
      <4>. QED
        BY <4>1, <4>2
    <3>3. B = {}
      <4>1. ASSUME NEW o \in B PROVE FALSE
        <5>1. PICK d \in Clients, x \in LayerSlots, y \in 0..Seqs - 1, r \in Slots :
                 InPlace(d, LayerPart(<<x, y>>, r)) = h
          BY <1>7
        <5>2. LayerPart(<<x, y>>, r) \in Parts
          BY <1>5, PartIn
        <5>. QED
          BY <5>1, <5>2, <2>1, <3>1, <1>4, PartsApart
      <4>. QED
        BY <4>1
    <3>4. C = {}
      <4>1. ASSUME NEW o \in C PROVE FALSE
        <5>1. PICK d \in Clients, f \in {"handle", "replaced"} : InPlace(d, OpPart(f)) = h
          BY <1>8
        <5>. QED
          BY <5>1, <2>1, <3>1, <1>4, PartIn, PartsApart
      <4>. QED
        BY <4>1
    <3>. QED
      <4>1. Cardinality(A) = 1 /\ Cardinality(B) = 0 /\ Cardinality(C) = 0
        BY <3>2, <3>3, <3>4, <1>2
      <4>. QED
        BY <4>1, <1>1, <1>10
  <2>3. CASE \E id \in Ids, s \in Slots : q = LayerPart(id, s)
    <3>1. PICK id \in Ids, s \in Slots : q = LayerPart(id, s)
      BY <2>3
    <3>2. PICK x \in LayerSlots, y \in 0..Seqs - 1 : id = <<x, y>>
      BY DEF Ids
    <3>3. B = {<<c, x, y, s>>}
      <4>1. <<c, x, y, s>> \in B
        BY <2>1, <3>1, <3>2, <1>3, OwnersAt DEF B
      <4>2. ASSUME NEW o \in B PROVE o = <<c, x, y, s>>
        <5>1. PICK d \in Clients, v \in LayerSlots, w \in 0..Seqs - 1, r \in Slots :
                 o = <<d, v, w, r>> /\ InPlace(d, LayerPart(<<v, w>>, r)) = h
          BY <1>7
        <5>2. d = c /\ LayerPart(<<v, w>>, r) = LayerPart(<<x, y>>, s)
          <6>1. LayerPart(<<v, w>>, r) \in Parts
            BY <1>5, PartIn
          <6>. QED
            BY <5>1, <6>1, <2>1, <3>1, <3>2, <1>4
        <5>3. <<v, w>> = <<x, y>> /\ r = s
          BY <5>2, PartsApart
        <5>. QED
          BY <5>1, <5>2, <5>3
      <4>. QED
        BY <4>1, <4>2
    <3>4. A = {}
      <4>1. ASSUME NEW o \in A PROVE FALSE
        <5>1. PICK d \in Clients, r \in BufferSlots : InPlace(d, TargetPart(r)) = h
          BY <1>6
        <5>. QED
          BY <5>1, <2>1, <3>1, <1>4, PartIn, PartsApart
      <4>. QED
        BY <4>1
    <3>5. C = {}
      <4>1. ASSUME NEW o \in C PROVE FALSE
        <5>1. PICK d \in Clients, f \in {"handle", "replaced"} : InPlace(d, OpPart(f)) = h
          BY <1>8
        <5>. QED
          BY <5>1, <2>1, <3>1, <1>4, PartIn, PartsApart
      <4>. QED
        BY <4>1
    <3>. QED
      <4>1. Cardinality(B) = 1 /\ Cardinality(A) = 0 /\ Cardinality(C) = 0
        BY <3>3, <3>4, <3>5, <1>2
      <4>. QED
        BY <4>1, <1>1, <1>10
  <2>4. CASE q \in {OpPart("handle"), OpPart("replaced")}
    <3>1. PICK f \in {"handle", "replaced"} : q = OpPart(f)
      BY <2>4
    <3>2. C = {<<c, f>>}
      <4>1. <<c, f>> \in C
        BY <2>1, <3>1, <1>3, OwnersAt DEF C
      <4>2. ASSUME NEW o \in C PROVE o = <<c, f>>
        <5>1. PICK d \in Clients, g \in {"handle", "replaced"} : o = <<d, g>> /\ InPlace(d, OpPart(g)) = h
          BY <1>8
        <5>2. d = c /\ OpPart(g) = OpPart(f)
          BY <5>1, <2>1, <3>1, <1>4, PartIn
        <5>. QED
          BY <5>1, <5>2, PartsApart
      <4>. QED
        BY <4>1, <4>2
    <3>3. A = {}
      <4>1. ASSUME NEW o \in A PROVE FALSE
        <5>1. PICK d \in Clients, r \in BufferSlots : InPlace(d, TargetPart(r)) = h
          BY <1>6
        <5>. QED
          BY <5>1, <2>1, <2>4, <1>4, PartIn, PartsApart
      <4>. QED
        BY <4>1
    <3>4. B = {}
      <4>1. ASSUME NEW o \in B PROVE FALSE
        <5>1. PICK d \in Clients, x \in LayerSlots, y \in 0..Seqs - 1, r \in Slots :
                 InPlace(d, LayerPart(<<x, y>>, r)) = h
          BY <1>7
        <5>2. LayerPart(<<x, y>>, r) \in Parts
          BY <1>5, PartIn
        <5>. QED
          BY <5>1, <5>2, <2>1, <2>4, <1>4, PartsApart
      <4>. QED
        BY <4>1
    <3>. QED
      <4>1. Cardinality(C) = 1 /\ Cardinality(A) = 0 /\ Cardinality(B) = 0
        BY <3>2, <3>3, <3>4, <1>2
      <4>. QED
        BY <4>1, <1>1, <1>10
  <2>. QED
    BY <2>2, <2>3, <2>4, PartCases
<1>. QED
  BY <1>9, <1>10

(* No imported handle is lost, freed twice or freed under a cache that has it: *)
(* it has one owner, however calls, hotplug and a client's death interleave.  *)
THEOREM HandlesStayOwned == ClientSpec => []HandlesOwned
<1>1. Inv => HandlesOwned
  BY OneOwner DEF HandlesOwned
<1>. QED
  BY <1>1, SpecInv, PTL

-----------------------------------------------------------------------------
(* The display service                                                       *)

IpcPlaces == {"idle", "try", "unready", "get", "judge", "mark", "watch", "link", "back", "send",
              "invoke", "enter", "push", "flush", "top", "drop", "handle", "pop", "pass"}
Done == {"a buffer", "a value", "a getter", "a setter", "unsent"}

\* What a call of kind k that has returned may say, s, when the server has carried
\* it out, d, or has not.
Truthful(k, s, d) ==
    /\ k = "a getter" => s = d
    /\ k = "a value" /\ s => d
    /\ k = "a setter" /\ d => s

\* The types of the client's shared fields, the server's and those of the threads.
IpcTypeOK ==
    /\ ready \in BOOLEAN /\ proxy \in Nat /\ linked \subseteq Nat /\ due \in BOOLEAN
    /\ life \in Nat \ {0} /\ up \in BOOLEAN /\ record \in Nat /\ leaving \in Nat
    /\ store \in [Lasting \cup {"rect", "board"} -> Apps \cup {"none", "junk"}]
    /\ pc \in [Threads -> IpcPlaces]
    /\ call \in [Apps -> Every \cup Done \cup {""}]
    /\ tries \in [Threads -> Nat] /\ found \in [Threads -> BOOLEAN]
    /\ said \in [Apps -> BOOLEAN] /\ served \in [Apps -> BOOLEAN]
    /\ crashed \in BOOLEAN /\ unwatched \in BOOLEAN /\ raced \in BOOLEAN
    /\ deaths \in Nat /\ calls \in Nat

\* Until two threads look for the server at once, at most one looks for it.
Searching == {"unready", "get", "judge", "mark", "watch", "link", "back"}
Alone == ~raced => \A t, u \in Threads : pc[t] \in Searching /\ pc[u] \in Searching => t = u

\* A ready client is linked to the death of the live server it calls, or is told of
\* the death, or the one thread that looks for the server is not through.
Heard ==
    ~raced /\ ~unwatched /\ ~crashed =>
        /\ ready /\ ~(up /\ proxy = life /\ life \in linked) =>
               due \/ \E t \in Threads : pc[t] \in {"unready", "watch", "link"}
        /\ \A t \in Threads :
               /\ pc[t] \in {"get", "judge", "mark"} => ~ready
               /\ pc[t] = "mark" => (found[t] <=> proxy # 0)
               /\ pc[t] = "watch" => (ready <=> proxy # 0)
               /\ pc[t] = "link" => ready /\ proxy # 0

\* A call that is on its way is one of the interface and has not been served; one
\* that has returned says what the server did.
IpcCalls ==
    \A t \in Apps :
        /\ pc[t] \in {"invoke", "enter", "push", "flush", "top", "drop", "handle", "pop", "pass"}
               => call[t] \in Every
        /\ pc[t] \in {"enter", "push", "flush", "top", "drop", "handle", "pop"}
               => call[t] \notin Buffers
        /\ pc[t] = "pass" => call[t] \in Buffers
        /\ pc[t] # "idle" => ~served[t] /\ call[t] \notin Done
        /\ Truthful(call[t], said[t], served[t])

IInv == IpcTypeOK /\ Alone /\ Heard /\ IpcCalls /\ RecordFits

\* The client's threads whose call the server has recorded.
Serving == {t \in Apps : pc[t] \in {"handle", "pop"}}

----------------------------------------------------------------------------
(* The messages *)

\* The message of c has the members S and waits for w, its handler needs and gives
\* the same.
FitsServing(c, S, w) == Sent(c) = Message(S, w) /\ Handled(c) = Handler(S, w)

LEMMA FitMeans ==
  ASSUME NEW c, NEW S, NEW w, FitsServing(c, S, w)
  PROVE  Complete(c) /\ Handled(c).gives = Sent(c).wants
  BY DEF FitsServing, Message, Handler, Complete

LEMMA ModesFit ==
  ASSUME NEW c \in DOMAIN ModeMessages
  PROVE  \E S, w : FitsServing(c, S, w)
  <1> USE DEF FitsServing, Sent, Handled, ModeMessages, PictureMessages, SettingMessages,
              FirstHandlers, LastHandlers
  <1>1. c = "displayType" => FitsServing(c, {}, "ret")
    OBVIOUS
  <1>2. c = "getConnectorType" => FitsServing(c, {"p_displayId"}, "connectorType")
    OBVIOUS
  <1>3. c = "getSupportDisplayModes" => FitsServing(c, Typed, "displayModeList")
    OBVIOUS
  <1>4. c = "getDisplayMode" => FitsServing(c, Typed, "mode")
    OBVIOUS
  <1>5. c = "setDisplayMode" => FitsServing(c, {"p_mode"} \cup Typed, "")
    OBVIOUS
  <1>6. c = "setPerferredMode" => FitsServing(c, {"p_mode"} \cup Typed, "")
    OBVIOUS
  <1>7. c = "getCurrentSupportDeepColor" => FitsServing(c, Typed, "deepColor")
    OBVIOUS
  <1>8. c = "setColorSpace" => FitsServing(c, {"p_colorspace"} \cup Typed, "")
    OBVIOUS
  <1>9. c = "clearUserDisplayConfig" => FitsServing(c, Typed, "")
    OBVIOUS
  <1>10. c = "setDvMode" => FitsServing(c, {"p_dv_mode"} \cup Typed, "")
    OBVIOUS
  <1> HIDE DEF FitsServing
  <1> QED
    BY <1>1, <1>2, <1>3, <1>4, <1>5, <1>6, <1>7, <1>8, <1>9, <1>10

LEMMA PicturesFit ==
  ASSUME NEW c \in DOMAIN PictureMessages
  PROVE  \E S, w : FitsServing(c, S, w)
  <1> USE DEF FitsServing, Sent, Handled, ModeMessages, PictureMessages, SettingMessages,
              FirstHandlers, LastHandlers
  <1>1. c = "setWhiteBoardMode" => FitsServing(c, {"value", "callingPid"}, "")
    OBVIOUS
  <1>2. c = "getWhiteBoardMode" => FitsServing(c, {}, "mode")
    OBVIOUS
  <1>3. c = "setWBDisplayFrame" => FitsServing(c, {"posX", "posY"}, "")
    OBVIOUS
  <1>4. c = "hideVideoLayer" => FitsServing(c, {"value"}, "")
    OBVIOUS
  <1>5. c = "setHdrConversionStrategy" => FitsServing(c, {"passThrough", "forceMode"}, "")
    OBVIOUS
  <1>6. c = "getHdrSdrRatio" => FitsServing(c, Typed, "ratio")
    OBVIOUS
  <1>7. c = "setDisplayViewPort" => FitsServing(c, {"rect"} \cup Typed, "")
    OBVIOUS
  <1>8. c = "getDisplayViewPort" => FitsServing(c, Typed, "rect")
    OBVIOUS
  <1> HIDE DEF FitsServing
  <1> QED
    BY <1>1, <1>2, <1>3, <1>4, <1>5, <1>6, <1>7, <1>8

LEMMA SettingsFit ==
  ASSUME NEW c \in DOMAIN SettingMessages
  PROVE  \E S, w : FitsServing(c, S, w)
  <1> USE DEF FitsServing, Sent, Handled, ModeMessages, PictureMessages, SettingMessages,
              FirstHandlers, LastHandlers
  <1>1. c = "setFrameRate" => FitsServing(c, {"frameRate_value"}, "value")
    OBVIOUS
  <1>2. c = "setUbootenv" => FitsServing(c, {"key", "value"}, "")
    OBVIOUS
  <1>3. c = "getUbootenv" => FitsServing(c, {"key"}, "value")
    OBVIOUS
  <1>4. c = "setDisplayAttribute" => FitsServing(c, {"name", "value"} \cup Typed, "")
    OBVIOUS
  <1>5. c = "getDisplayAttribute" => FitsServing(c, {"name"} \cup Typed, "value")
    OBVIOUS
  <1>6. c = "getDisplayVsyncAndPeriod" => FitsServing(c, {}, "value")
    OBVIOUS
  <1>7. c = "dumpDisplayAttribute" => FitsServing(c, Typed, "ret")
    OBVIOUS
  <1>8. c = "disableSidebandStream" => FitsServing(c, {"value"}, "")
    OBVIOUS
  <1>9. c = "enableSyncProtection" => FitsServing(c, {"value"}, "")
    OBVIOUS
  <1>10. c = "setKeystoneCorrection" => FitsServing(c, {"params"}, "")
    OBVIOUS
  <1>11. c = "setReverseMode" => FitsServing(c, {"value"}, "")
    OBVIOUS
  <1>12. c = "disableQms" => FitsServing(c, {"value"}, "")
    OBVIOUS
  <1>13. c = "getQmsVrrCap" => FitsServing(c, {}, "value")
    OBVIOUS
  <1> HIDE DEF FitsServing
  <1> QED
    BY <1>1, <1>2, <1>3, <1>4, <1>5, <1>6, <1>7, <1>8, <1>9, <1>10, <1>11, <1>12, <1>13

\* The message of every call has the members its handler needs, and the handler of
\* every getter answers with the member the client looks for.
LEMMA MessagesFit ==
  ASSUME NEW c \in Every, c \notin Buffers
  PROVE  Complete(c) /\ Handled(c).gives = Sent(c).wants
  <1>1. \E S, w : FitsServing(c, S, w)
    BY ModesFit, PicturesFit, SettingsFit DEF Every
  <1> QED BY <1>1, FitMeans

LEMMA Names ==
  /\ Every \cap Done = {} /\ "" \notin Every /\ Buffers \subseteq Every
  BY DEF Every, Done, Buffers, ModeMessages, PictureMessages, SettingMessages

\* A call that nobody has served returns false unless it does not wait.
LEMMA Kinds ==
  ASSUME NEW c
  PROVE  /\ Kind(c) \in Done /\ (~Waits(c)) \in BOOLEAN
         /\ \A v \in BOOLEAN : (c \notin Buffers /\ Waits(c) => v = FALSE) =>
                                  Truthful(Kind(c), v, FALSE)
  <1>1. Kind(c) \in Done
    BY DEF Kind, Done
  <1>2. (~Waits(c)) \in BOOLEAN
    OBVIOUS
  <1>3. Kind(c) = "a buffer" \/ c \notin Buffers
    BY DEF Kind
  <1>4. ASSUME c \in Values
        PROVE  c \notin Buffers /\ Waits(c)
    <2> USE DEF Buffers, Waits, Sent, Message, ModeMessages, PictureMessages, SettingMessages
    <2>1. CASE c = "setFrameRate"
      BY <2>1
    <2>2. CASE c = "getQmsVrrCap"
      BY <2>2
    <2> QED BY <1>4, <2>1, <2>2 DEF Values
  <1>5. Kind(c) \in {"a getter", "a value"} => c \notin Buffers /\ Waits(c)
    BY <1>4 DEF Kind
  <1> QED BY <1>1, <1>2, <1>5 DEF Truthful

\* A call that a server has answered in full says so unless it returns the answer.
LEMMA Answers ==
  ASSUME NEW c, NEW v \in BOOLEAN, c \notin Values => v = TRUE
  PROVE  Truthful(Kind(c), v, TRUE)
  <1>1. Kind(c) \in {"a getter", "a setter"} => c \notin Values
    BY DEF Kind
  <1> QED BY <1>1 DEF Truthful
----------------------------------------------------------------------------
(* One thread moves *)

LEMMA Moved ==
  ASSUME IpcTypeOK, NEW t \in Threads, NEW p \in IpcPlaces, Go(t, p)
  PROVE  /\ pc' \in [Threads -> IpcPlaces]
         /\ pc'[t] = p
         /\ \A u \in Threads \ {t} : pc'[u] = pc[u]
  BY DEF IpcTypeOK, Go

LEMMA Returned ==
  ASSUME IpcTypeOK, NEW t \in Apps, NEW c, NEW v \in BOOLEAN, Return(t, c, v)
  PROVE  /\ pc' \in [Threads -> IpcPlaces]
         /\ pc'[t] = "idle"
         /\ \A u \in Threads \ {t} : pc'[u] = pc[u]
         /\ said' \in [Apps -> BOOLEAN] /\ said'[t] = v
         /\ \A u \in Apps \ {t} : said'[u] = said[u] /\ call'[u] = call[u]
         /\ call' \in [Apps -> Every \cup Done \cup {""}] /\ call'[t] = Kind(c)
  <1>1. Kind(c) \in Done
    BY Kinds
  <1>2. t \in Threads /\ "idle" \in IpcPlaces
    BY DEF Threads, IpcPlaces
  <1> QED BY <1>1, <1>2, Moved DEF Return, IpcTypeOK

\* A thread that does not look for the server before a step nor after it, in a step
\* that leaves the client's fields alone, disturbs neither Alone nor Heard.
LEMMA ElsewhereKeeps ==
  ASSUME IpcTypeOK, Alone, Heard, NEW t \in Threads,
         pc[t] \notin Searching, pc'[t] \notin Searching,
         \A u \in Threads \ {t} : pc'[u] = pc[u],
         UNCHANGED <<client, life, up, found>>, crashed => crashed'
  PROVE  Alone' /\ Heard'
  <1>1. Alone'
    BY DEF Alone, client
  <1>2. ASSUME NEW u \in Threads
        PROVE  (pc[u] \in Searching => pc'[u] = pc[u]) /\ (pc'[u] \in Searching => pc[u] = pc'[u])
    BY DEF Searching
  <1>3. Heard'
    BY <1>2 DEF Heard, client, Searching
  <1> QED BY <1>1, <1>3

\* What a thread asks for while no other call moves.
LEMMA CallsKept ==
  ASSUME IpcCalls, NEW t \in Apps,
         \A u \in Apps \ {t} : pc'[u] = pc[u] /\ call'[u] = call[u] /\ said'[u] = said[u]
                               /\ served'[u] = served[u],
         /\ pc'[t] \in {"invoke", "enter", "push", "flush", "top", "drop", "handle", "pop", "pass"}
                => call'[t] \in Every
         /\ pc'[t] \in {"enter", "push", "flush", "top", "drop", "handle", "pop"}
                => call'[t] \notin Buffers
         /\ pc'[t] = "pass" => call'[t] \in Buffers
         /\ pc'[t] # "idle" => ~served'[t] /\ call'[t] \notin Done
         /\ Truthful(call'[t], said'[t], served'[t])
  PROVE  IpcCalls'
  BY DEF IpcCalls

\* A thread that enters neither a handler nor its end leaves the record to fit.
LEMMA RecordKept ==
  ASSUME RecordFits, UNCHANGED <<record, leaving>>, Serving' = Serving
  PROVE  RecordFits'
  BY DEF RecordFits, Serving

----------------------------------------------------------------------------
(* The calls *)

LEMMA CallKeeps ==
  ASSUME IInv, NEW t \in Apps, Call(t)
  PROVE  IInv'
  <1>1. t \in Threads /\ pc[t] = "idle" /\ Go(t, "try") /\ "try" \in IpcPlaces
    BY DEF Threads, Call, IpcPlaces
  <1>2. /\ pc' \in [Threads -> IpcPlaces] /\ pc'[t] = "try"
        /\ \A u \in Threads \ {t} : pc'[u] = pc[u]
    BY <1>1, Moved DEF IInv
  <1>3. IpcTypeOK'
    <2>1. calls' \in Nat
      <3>1. calls' = calls + 1
        BY DEF Call
      <3>2. calls \in Nat
        BY DEF IInv, IpcTypeOK
      <3> QED BY <3>1, <3>2
    <2>2. /\ call' \in [Apps -> Every \cup Done \cup {""}]
          /\ said' \in [Apps -> BOOLEAN] /\ served' \in [Apps -> BOOLEAN]
      BY DEF Call, IInv, IpcTypeOK
    <2> QED BY <1>2, <2>1, <2>2 DEF Call, IInv, IpcTypeOK, client, server
  <1>4. Alone' /\ Heard'
    BY <1>1, <1>2, ElsewhereKeeps DEF Call, IInv, client, server, Searching
  <1>5. IpcCalls'
    <2>1. call'[t] = "" /\ ~said'[t] /\ ~served'[t]
      BY DEF Call, IInv, IpcTypeOK
    <2>2. \A u \in Apps \ {t} : pc'[u] = pc[u] /\ call'[u] = call[u] /\ said'[u] = said[u]
                                /\ served'[u] = served[u]
      BY <1>2 DEF Call, IInv, IpcTypeOK, Threads
    <2>3. call'[t] \notin Done /\ Truthful(call'[t], said'[t], served'[t])
      BY <2>1 DEF Done, Truthful
    <2> QED BY <1>2, <2>1, <2>2, <2>3, CallsKept DEF IInv
  <1>6. RecordFits'
    BY <1>1, <1>2, RecordKept DEF Call, IInv, server, Serving, Threads
  <1> QED BY <1>3, <1>4, <1>5, <1>6 DEF IInv

LEMMA SendKeeps ==
  ASSUME IInv, NEW t \in Apps, NEW c \in Every, Send(t, c)
  PROVE  IInv'
  <1>1. /\ t \in Threads /\ pc[t] = "send" /\ "invoke" \in IpcPlaces
        /\ UNCHANGED <<client, server, tries, found, served, crashed, bounds>>
    BY DEF Threads, Send, At, IpcPlaces
  <1>2. ~served[t]
    BY <1>1 DEF IInv, IpcCalls
  <1>3. CASE ready
    <2>1. Go(t, "invoke") /\ call' = [call EXCEPT ![t] = c] /\ said' = said
      BY <1>3 DEF Send
    <2>2. /\ pc' \in [Threads -> IpcPlaces] /\ pc'[t] = "invoke"
          /\ \A u \in Threads \ {t} : pc'[u] = pc[u]
      BY <1>1, <2>1, Moved DEF IInv
    <2>3. IpcTypeOK'
      BY <1>1, <2>1, <2>2 DEF IInv, IpcTypeOK, client, server, bounds
    <2>4. Alone' /\ Heard'
      BY <1>1, <2>2, ElsewhereKeeps DEF IInv, client, server, Searching
    <2>5. IpcCalls'
      <3>1. call'[t] = c /\ ~served'[t]
        BY <1>1, <1>2, <2>1 DEF IInv, IpcTypeOK
      <3>2. \A u \in Apps \ {t} : pc'[u] = pc[u] /\ call'[u] = call[u] /\ said'[u] = said[u]
                                  /\ served'[u] = served[u]
        BY <1>1, <2>1, <2>2 DEF IInv, IpcTypeOK, Threads
      <3>3. c \notin Done /\ Truthful(call'[t], said'[t], served'[t])
        BY <3>1, Names DEF Done, Truthful
      <3> QED BY <2>2, <3>1, <3>2, <3>3, CallsKept DEF IInv
    <2>6. RecordFits'
      BY <1>1, <2>2, RecordKept DEF IInv, server, Serving, Threads
    <2> QED BY <2>3, <2>4, <2>5, <2>6 DEF IInv
  <1>4. CASE ~ready
    <2>0. (~Waits(c)) \in BOOLEAN
      BY Kinds
    <2>1. Return(t, c, ~Waits(c))
      BY <1>4 DEF Send
    <2>2. /\ pc' \in [Threads -> IpcPlaces] /\ pc'[t] = "idle"
          /\ \A u \in Threads \ {t} : pc'[u] = pc[u]
          /\ said' \in [Apps -> BOOLEAN] /\ said'[t] = ~Waits(c)
          /\ \A u \in Apps \ {t} : said'[u] = said[u] /\ call'[u] = call[u]
          /\ call' \in [Apps -> Every \cup Done \cup {""}] /\ call'[t] = Kind(c)
      BY <2>0, <2>1, Returned DEF IInv
    <2>3. IpcTypeOK'
      BY <1>1, <2>2 DEF IInv, IpcTypeOK, client, server, bounds
    <2>4. Alone' /\ Heard'
      BY <1>1, <2>2, ElsewhereKeeps DEF IInv, client, server, Searching
    <2>5. IpcCalls'
      <3>0. /\ served'[t] = FALSE /\ said'[t] \in BOOLEAN
            /\ c \notin Buffers /\ Waits(c) => said'[t] = FALSE
        BY <1>1, <1>2, <2>2 DEF IInv, IpcTypeOK
      <3>1. Truthful(call'[t], said'[t], served'[t])
        BY <2>2, <3>0, Kinds
      <3>2. \A u \in Apps \ {t} : pc'[u] = pc[u] /\ call'[u] = call[u] /\ said'[u] = said[u]
                                  /\ served'[u] = served[u]
        BY <1>1, <2>2 DEF IInv, Threads
      <3> QED BY <2>2, <3>1, <3>2, CallsKept DEF IInv
    <2>6. RecordFits'
      BY <1>1, <2>2, RecordKept DEF IInv, server, Serving, Threads
    <2> QED BY <2>3, <2>4, <2>5, <2>6 DEF IInv
  <1> QED BY <1>3, <1>4

\* A thread that goes on with its call.
LEMMA StepOn ==
  ASSUME IInv, NEW t \in Apps, NEW p \in IpcPlaces, Go(t, p),
         pc[t] \notin Searching, p \notin Searching, p # "idle", pc[t] # "idle",
         UNCHANGED <<client, life, up, found, call, said, served>>, crashed => crashed',
         p \in {"invoke", "enter", "push", "flush", "top", "drop", "handle", "pop", "pass"}
             => call[t] \in Every,
         p \in {"enter", "push", "flush", "top", "drop", "handle", "pop"}
             => call[t] \notin Buffers,
         p = "pass" => call[t] \in Buffers
  PROVE  /\ pc' \in [Threads -> IpcPlaces] /\ pc'[t] = p
         /\ \A u \in Threads \ {t} : pc'[u] = pc[u]
         /\ Alone' /\ Heard' /\ IpcCalls'
  <1>1. t \in Threads
    BY DEF Threads
  <1>2. /\ pc' \in [Threads -> IpcPlaces] /\ pc'[t] = p
        /\ \A u \in Threads \ {t} : pc'[u] = pc[u]
    BY <1>1, Moved DEF IInv
  <1>3. Alone' /\ Heard'
    BY <1>1, <1>2, ElsewhereKeeps DEF IInv
  <1>4. ~served[t] /\ call[t] \notin Done /\ Truthful(call[t], said[t], served[t])
    BY DEF IInv, IpcCalls
  <1>5. IpcCalls'
    BY <1>1, <1>2, <1>4, CallsKept DEF IInv, Threads
  <1> QED BY <1>2, <1>3, <1>5

\* A call that returns a value, having been served or not.
LEMMA StepOut ==
  ASSUME IInv, NEW t \in Apps, NEW v \in BOOLEAN, Return(t, call[t], v),
         pc[t] \notin Searching, crashed => crashed',
         UNCHANGED <<client, life, up, found>>,
         served' \in [Apps -> BOOLEAN], \A u \in Apps \ {t} : served'[u] = served[u],
         Truthful(Kind(call[t]), v, served'[t])
  PROVE  /\ pc' \in [Threads -> IpcPlaces] /\ pc'[t] = "idle"
         /\ \A u \in Threads \ {t} : pc'[u] = pc[u]
         /\ call' \in [Apps -> Every \cup Done \cup {""}]
         /\ said' \in [Apps -> BOOLEAN]
         /\ Alone' /\ Heard' /\ IpcCalls'
  <1>1. t \in Threads
    BY DEF Threads
  <1>2. /\ pc' \in [Threads -> IpcPlaces] /\ pc'[t] = "idle"
        /\ \A u \in Threads \ {t} : pc'[u] = pc[u]
        /\ said' \in [Apps -> BOOLEAN] /\ said'[t] = v
        /\ \A u \in Apps \ {t} : said'[u] = said[u] /\ call'[u] = call[u]
        /\ call' \in [Apps -> Every \cup Done \cup {""}] /\ call'[t] = Kind(call[t])
    <2>1. IpcTypeOK
      BY DEF IInv
    <2>2. PICK c : c = call[t]
      OBVIOUS
    <2>3. Return(t, c, v)
      BY <2>2
    <2>4. /\ pc' \in [Threads -> IpcPlaces] /\ pc'[t] = "idle"
          /\ \A u \in Threads \ {t} : pc'[u] = pc[u]
      BY <2>1, <2>3, Returned
    <2>5. said' \in [Apps -> BOOLEAN] /\ said'[t] = v
      BY <2>1, <2>3, Returned
    <2>6. \A u \in Apps \ {t} : said'[u] = said[u] /\ call'[u] = call[u]
      BY <2>1, <2>3, Returned
    <2>7. call' \in [Apps -> Every \cup Done \cup {""}]
      BY <2>1, <2>3, Returned
    <2>8. call'[t] = Kind(c)
      BY <2>1, <2>3, Returned
    <2> QED BY <2>2, <2>4, <2>5, <2>6, <2>7, <2>8
  <1>3. Alone' /\ Heard'
    BY <1>1, <1>2, ElsewhereKeeps DEF IInv, Searching
  <1>4. Truthful(call'[t], said'[t], served'[t])
    BY <1>2
  <1>5. IpcCalls'
    BY <1>1, <1>2, <1>4, CallsKept DEF IInv, Threads
  <1> QED BY <1>2, <1>3, <1>5

LEMMA InvokeKeeps ==
  ASSUME IInv, NEW t \in Apps, Invoke(t)
  PROVE  IInv'
  <1>1. /\ pc[t] = "invoke" /\ pc[t] \notin Searching
        /\ UNCHANGED <<client, server, tries, found, served, bounds>>
    BY DEF Invoke, At, Searching
  <1>2. /\ {"pass", "enter"} \subseteq IpcPlaces /\ {"pass", "enter"} \cap Searching = {}
        /\ t \in Threads
    BY DEF IpcPlaces, Searching, Threads
  <1>3. call[t] \in Every /\ ~served[t]
    BY <1>1 DEF IInv, IpcCalls
  <1>4. ~crashed
    BY DEF Invoke, At
  <1>5. CASE proxy = 0
    <2>1. crashed' = TRUE /\ UNCHANGED <<pc, said, call>>
      BY <1>5 DEF Invoke
    <2>2. IpcTypeOK'
      BY <1>1, <2>1 DEF IInv, IpcTypeOK, client, server, bounds
    <2>3. Alone' /\ Heard' /\ IpcCalls'
      BY <1>1, <2>1 DEF IInv, Alone, Heard, IpcCalls, client
    <2>4. RecordFits'
      BY <1>1, <2>1, RecordKept DEF IInv, Serving, server
    <2> QED BY <2>2, <2>3, <2>4 DEF IInv
  <1>6. CASE proxy # 0 /\ up /\ proxy = life
    <2> DEFINE p == IF call[t] \in Buffers THEN "pass" ELSE "enter"
    <2>1. Go(t, p) /\ crashed' = crashed /\ UNCHANGED <<said, call>> /\ p \in {"pass", "enter"}
      BY <1>6 DEF Invoke
    <2>2. /\ pc' \in [Threads -> IpcPlaces] /\ pc'[t] = p
          /\ \A u \in Threads \ {t} : pc'[u] = pc[u]
          /\ Alone' /\ Heard' /\ IpcCalls'
      <3>1. /\ p \in IpcPlaces /\ p \notin Searching /\ p # "idle" /\ pc[t] # "idle"
            /\ UNCHANGED <<client, life, up, found, call, said, served>>
            /\ crashed => crashed'
            /\ (p = "pass" => call[t] \in Buffers) /\ (p # "pass" => call[t] \notin Buffers)
        BY <1>1, <1>2, <2>1 DEF server
      <3> HIDE DEF p
      <3> QED BY <1>1, <1>3, <2>1, <3>1, StepOn
    <2>3. IpcTypeOK'
      BY <1>1, <2>1, <2>2 DEF IInv, IpcTypeOK, client, server, bounds
    <2>4. RecordFits'
      BY <1>1, <1>2, <2>2, RecordKept DEF IInv, server, Serving, Threads
    <2> QED BY <2>2, <2>3, <2>4 DEF IInv
  <1>7. CASE proxy # 0 /\ ~(up /\ proxy = life)
    <2>1. Unanswered(t) /\ crashed' = crashed
      BY <1>7 DEF Invoke
    <2>2. /\ served' \in [Apps -> BOOLEAN] /\ \A u \in Apps \ {t} : served'[u] = served[u]
          /\ served'[t] = FALSE
      BY <1>1, <1>3 DEF IInv, IpcTypeOK
    <2>3. /\ UNCHANGED <<client, life, up, found>> /\ (crashed => crashed')
          /\ pc[t] \notin Searching
      BY <1>1, <2>1 DEF server
    <2>4. ASSUME NEW v \in BOOLEAN, Return(t, call[t], v),
                 call[t] \notin Buffers /\ Waits(call[t]) => v = FALSE
          PROVE  IInv'
      <3>1. Truthful(Kind(call[t]), v, served'[t])
        BY <2>2, <2>4, Kinds
      <3>2. /\ pc' \in [Threads -> IpcPlaces] /\ pc'[t] = "idle"
            /\ \A u \in Threads \ {t} : pc'[u] = pc[u]
            /\ call' \in [Apps -> Every \cup Done \cup {""}]
            /\ said' \in [Apps -> BOOLEAN]
            /\ Alone' /\ Heard' /\ IpcCalls'
        BY <2>2, <2>3, <2>4, <3>1, StepOut
      <3>3. IpcTypeOK'
        BY <1>1, <2>1, <2>2, <3>2 DEF IInv, IpcTypeOK, client, server, bounds
      <3>4. RecordFits'
        BY <1>1, <1>2, <3>2, RecordKept DEF IInv, server, Serving, Threads
      <3> QED BY <3>2, <3>3, <3>4 DEF IInv
    <2>5. CASE call[t] \notin Buffers /\ Return(t, call[t], ~Waits(call[t]))
      <3> DEFINE v == ~Waits(call[t])
      <3>1. v \in BOOLEAN /\ (Waits(call[t]) => v = FALSE) /\ Return(t, call[t], v)
        BY <2>5, Kinds
      <3> HIDE DEF v
      <3> QED BY <2>4, <3>1
    <2>6. CASE \E v \in BOOLEAN : call[t] \in Buffers /\ Return(t, call[t], v)
      BY <2>4, <2>6
    <2> QED BY <2>1, <2>5, <2>6 DEF Unanswered
  <1> QED BY <1>5, <1>6, <1>7

----------------------------------------------------------------------------
(* The server thread of a call *)

\* A server thread that moves on without counting a call.
LEMMA ServeKeeps ==
  ASSUME IInv, NEW t \in Apps, NEW p \in {"flush", "push", "top", "drop", "handle", "pop"},
         Go(t, p), pc[t] \in {"enter", "push", "flush", "top", "drop", "handle"},
         UNCHANGED <<client, life, up, leaving, local, bounds>>,
         record' \in Nat,
         \/ record' <= record /\ pc[t] # "push"
         \/ record' = record + 1 /\ pc[t] = "push",
         p \in {"handle", "pop"} <=> pc[t] \in {"push", "handle"},
         store' \in [Lasting \cup {"rect", "board"} -> Apps \cup {"none", "junk"}],
         crashed' \in BOOLEAN, crashed => crashed'
  PROVE  IInv'
  <1>1. /\ t \in Threads /\ p \in IpcPlaces /\ p \notin Searching /\ p # "idle" /\ p # "pass"
        /\ pc[t] \notin Searching /\ pc[t] # "idle"
    BY DEF Threads, IpcPlaces, Searching
  <1>2. call[t] \in Every /\ call[t] \notin Buffers
    BY DEF IInv, IpcCalls
  <1>3. /\ pc' \in [Threads -> IpcPlaces] /\ pc'[t] = p
        /\ \A u \in Threads \ {t} : pc'[u] = pc[u]
        /\ Alone' /\ Heard' /\ IpcCalls'
    BY <1>1, <1>2, StepOn DEF local
  <1>4. IpcTypeOK'
    BY <1>3 DEF IInv, IpcTypeOK, client, local, bounds
  <1>5. /\ record \in Nat /\ leaving \in Nat /\ leaving' = leaving
        /\ record <= leaving + Cardinality(Serving)
    BY DEF IInv, IpcTypeOK, RecordFits, Serving
  <1>6. RecordFits'
    <2>0. IsFiniteSet(Serving) /\ Cardinality(Serving) \in Nat
      BY IpcAssumption, FS_Subset, FS_CardinalityType DEF Serving
    <2>1. CASE pc[t] = "push"
      <3>1. t \notin Serving /\ Serving' = Serving \cup {t}
        BY <1>1, <1>3, <2>1 DEF Serving, Threads
      <3>2. Cardinality(Serving') = Cardinality(Serving) + 1
        BY <2>0, <3>1, FS_AddElement
      <3>3. record' = record + 1
        BY <2>1
      <3>4. record' <= leaving + Cardinality(Serving')
        BY <1>5, <2>0, <3>2, <3>3
      <3> QED BY <1>5, <3>4 DEF RecordFits, Serving
    <2>2. CASE pc[t] # "push"
      <3>1. Serving' = Serving
        BY <1>1, <1>3, <2>2 DEF Serving, Threads
      <3>2. record' <= record
        BY <2>2
      <3>3. record' <= leaving + Cardinality(Serving')
        BY <1>5, <2>0, <3>1, <3>2
      <3> QED BY <1>5, <3>3 DEF RecordFits, Serving
    <2> QED BY <2>1, <2>2
  <1> QED BY <1>3, <1>4, <1>6 DEF IInv

LEMMA EnterKeeps ==
  ASSUME IInv, NEW t \in Apps, Enter(t)
  PROVE  IInv'
  <1> DEFINE p == IF record >= RECURSION_LIMIT THEN "flush" ELSE "push"
  <1>1. /\ pc[t] = "enter" /\ Go(t, p) /\ p \in {"flush", "push"}
        /\ UNCHANGED <<client, server, local, crashed, bounds>>
    BY DEF Enter, At
  <1> HIDE DEF p
  <1>2. record' = record /\ store' = store /\ crashed' = crashed
        /\ UNCHANGED <<client, life, up, leaving, local, bounds>>
    BY <1>1 DEF server
  <1>3. /\ record \in Nat /\ crashed \in BOOLEAN
        /\ store \in [Lasting \cup {"rect", "board"} -> Apps \cup {"none", "junk"}]
    BY DEF IInv, IpcTypeOK
  <1> QED BY <1>1, <1>2, <1>3, ServeKeeps

LEMMA PushKeeps ==
  ASSUME IInv, NEW t \in Apps, Push(t)
  PROVE  IInv'
  <1>1. /\ pc[t] = "push" /\ Go(t, "handle") /\ record' = record + 1 /\ store' = store
        /\ crashed' = crashed /\ UNCHANGED <<client, life, up, leaving, local, bounds>>
    BY DEF Push, At
  <1>2. /\ record \in Nat /\ crashed \in BOOLEAN
        /\ store \in [Lasting \cup {"rect", "board"} -> Apps \cup {"none", "junk"}]
    BY DEF IInv, IpcTypeOK
  <1> QED BY <1>1, <1>2, ServeKeeps

LEMMA FlushKeeps ==
  ASSUME IInv, NEW t \in Apps, Flush(t)
  PROVE  IInv'
  <1>1. /\ pc[t] = "flush" /\ t \in Threads
        /\ UNCHANGED <<client, server, tries, found, served, crashed, bounds>>
    BY DEF Flush, At, Threads
  <1>2. /\ record \in Nat /\ crashed \in BOOLEAN
        /\ store \in [Lasting \cup {"rect", "board"} -> Apps \cup {"none", "junk"}]
    BY DEF IInv, IpcTypeOK
  <1>3. CASE record > 0
    <2>1. Go(t, "top") /\ UNCHANGED <<said, call>>
      BY <1>3 DEF Flush
    <2>2. record' = record /\ store' = store /\ crashed' = crashed
          /\ UNCHANGED <<client, life, up, leaving, local, bounds>>
      BY <1>1, <2>1 DEF server, local
    <2> QED BY <1>1, <1>2, <2>1, <2>2, ServeKeeps
  <1>4. CASE ~(record > 0)
    <2> DEFINE v == ~Waits(call[t])
    <2>1. v \in BOOLEAN /\ (Waits(call[t]) => v = FALSE) /\ Return(t, call[t], v)
      BY <1>4, Kinds DEF Flush
    <2> HIDE DEF v
    <2>2. ~served[t] /\ served' \in [Apps -> BOOLEAN] /\ served' = served
      BY <1>1 DEF IInv, IpcCalls, IpcTypeOK
    <2>3. Truthful(Kind(call[t]), v, served'[t])
      <3>1. served'[t] = FALSE
        BY <2>2
      <3> QED BY <2>1, <3>1, Kinds
    <2>4. /\ UNCHANGED <<client, life, up, found>> /\ (crashed => crashed')
          /\ pc[t] \notin Searching
      BY <1>1 DEF server, Searching
    <2>5. /\ pc' \in [Threads -> IpcPlaces] /\ pc'[t] = "idle"
          /\ \A u \in Threads \ {t} : pc'[u] = pc[u]
          /\ call' \in [Apps -> Every \cup Done \cup {""}]
          /\ said' \in [Apps -> BOOLEAN]
          /\ Alone' /\ Heard' /\ IpcCalls'
      BY <2>1, <2>2, <2>3, <2>4, StepOut
    <2>6. IpcTypeOK'
      BY <1>1, <2>5 DEF IInv, IpcTypeOK, client, server, bounds
    <2>7. RecordFits'
      BY <1>1, <2>5, RecordKept DEF IInv, server, Serving, Threads
    <2> QED BY <2>5, <2>6, <2>7 DEF IInv
  <1> QED BY <1>3, <1>4

LEMMA TopKeeps ==
  ASSUME IInv, NEW t \in Apps, Top(t)
  PROVE  IInv'
  <1>1. /\ pc[t] = "top" /\ ~crashed /\ Go(t, "drop") /\ crashed' \in BOOLEAN
        /\ UNCHANGED <<client, server, local, bounds>>
    BY DEF Top, At
  <1>2. record' = record /\ store' = store /\ UNCHANGED <<client, life, up, leaving, local, bounds>>
    BY <1>1 DEF server
  <1>3. /\ record \in Nat
        /\ store \in [Lasting \cup {"rect", "board"} -> Apps \cup {"none", "junk"}]
    BY DEF IInv, IpcTypeOK
  <1> QED BY <1>1, <1>2, <1>3, ServeKeeps

LEMMA DropKeeps ==
  ASSUME IInv, NEW t \in Apps, Drop(t)
  PROVE  IInv'
  <1>1. /\ pc[t] = "drop" /\ Go(t, "flush") /\ record' = Popped /\ store' = store
        /\ crashed' = crashed /\ UNCHANGED <<client, life, up, leaving, local, bounds>>
    BY DEF Drop, At
  <1>2. /\ record \in Nat /\ crashed \in BOOLEAN
        /\ store \in [Lasting \cup {"rect", "board"} -> Apps \cup {"none", "junk"}]
    BY DEF IInv, IpcTypeOK
  <1>3. Popped \in Nat /\ Popped <= record
    BY <1>2 DEF Popped
  <1> QED BY <1>1, <1>2, <1>3, ServeKeeps

LEMMA HandleKeeps ==
  ASSUME IInv, NEW t \in Apps, Handle(t)
  PROVE  IInv'
  <1>1. /\ pc[t] = "handle" /\ Go(t, "pop") /\ record' = record
        /\ store' \in {store, Adapted(t, call[t])}
        /\ crashed' = crashed /\ UNCHANGED <<client, life, up, leaving, local, bounds>>
    BY DEF Handle, At
  <1>2. /\ record \in Nat /\ crashed \in BOOLEAN
        /\ store \in [Lasting \cup {"rect", "board"} -> Apps \cup {"none", "junk"}]
    BY DEF IInv, IpcTypeOK
  <1>3. Adapted(t, call[t]) \in [Lasting \cup {"rect", "board"} -> Apps \cup {"none", "junk"}]
    BY <1>2 DEF Adapted
  <1> QED BY <1>1, <1>2, <1>3, ServeKeeps

LEMMA AnswerKeeps ==
  ASSUME IInv, NEW t \in Apps, Answer(t)
  PROVE  IInv'
  <1>1. /\ pc[t] = "pop" /\ t \in Threads /\ leaving' = leaving + 1
        /\ served' = [served EXCEPT ![t] = TRUE]
        /\ UNCHANGED <<client, life, up, record, store, tries, found, crashed, bounds>>
    BY DEF Answer, At, Threads
  <1>2. call[t] \in Every /\ call[t] \notin Buffers
    BY <1>1 DEF IInv, IpcCalls
  <1>3. PICK v \in BOOLEAN : Return(t, call[t], v) /\ (call[t] \notin Values => v = TRUE)
    <2>1. PICK told \in Verdicts(call[t]) :
              Return(t, call[t], \/ ~Waits(call[t])
                                 \/ /\ Complete(call[t])
                                    /\ Handled(call[t]).gives = Sent(call[t]).wants
                                    /\ told)
      BY DEF Answer
    <2> DEFINE v == \/ ~Waits(call[t])
                    \/ /\ Complete(call[t])
                       /\ Handled(call[t]).gives = Sent(call[t]).wants
                       /\ told
    <2>2. v \in BOOLEAN /\ (call[t] \notin Values => v = TRUE)
      BY <1>2, MessagesFit DEF Verdicts
    <2>3. Return(t, call[t], v)
      BY <2>1
    <2> HIDE DEF v
    <2> QED BY <2>2, <2>3
  <1>4. /\ served' \in [Apps -> BOOLEAN] /\ served'[t] = TRUE
        /\ \A u \in Apps \ {t} : served'[u] = served[u]
    BY <1>1 DEF IInv, IpcTypeOK
  <1>5. Truthful(Kind(call[t]), v, served'[t])
    BY <1>3, <1>4, Answers
  <1>6. /\ pc' \in [Threads -> IpcPlaces] /\ pc'[t] = "idle"
        /\ \A u \in Threads \ {t} : pc'[u] = pc[u]
        /\ call' \in [Apps -> Every \cup Done \cup {""}]
        /\ said' \in [Apps -> BOOLEAN]
        /\ Alone' /\ Heard' /\ IpcCalls'
    <2>1. /\ pc[t] \notin Searching /\ (crashed => crashed')
          /\ UNCHANGED <<client, life, up, found>>
      BY <1>1 DEF Searching
    <2> QED BY <1>3, <1>4, <1>5, <2>1, StepOut
  <1>7. IpcTypeOK'
    <2>1. leaving' \in Nat
      <3>1. leaving \in Nat
        BY DEF IInv, IpcTypeOK
      <3> QED BY <1>1, <3>1
    <2> QED BY <1>1, <1>4, <1>6, <2>1 DEF IInv, IpcTypeOK, client, bounds
  <1>8. RecordFits'
    <2>1. IsFiniteSet(Serving) /\ Cardinality(Serving) \in Nat
      BY IpcAssumption, FS_Subset, FS_CardinalityType DEF Serving
    <2>2. t \in Serving /\ Serving' = Serving \ {t}
      BY <1>1, <1>6 DEF Serving, Threads
    <2>3. Cardinality(Serving') = Cardinality(Serving) - 1
      BY <2>1, <2>2, FS_RemoveElement
    <2>4. record \in Nat /\ leaving \in Nat /\ record <= leaving + Cardinality(Serving)
      BY DEF IInv, IpcTypeOK, RecordFits, Serving
    <2>5. record' <= leaving' + Cardinality(Serving')
      BY <1>1, <2>1, <2>3, <2>4
    <2> QED BY <2>5 DEF RecordFits, Serving
  <1> QED BY <1>6, <1>7, <1>8 DEF IInv

LEMMA LeaveKeeps ==
  ASSUME IInv, Leave
  PROVE  IInv'
  <1>1. /\ leaving > 0 /\ leaving' = leaving - 1 /\ record' = Popped /\ crashed' = crashed
        /\ UNCHANGED <<client, life, up, store, pc, local, bounds>>
    BY DEF Leave
  <1>2. record \in Nat /\ leaving \in Nat /\ Popped \in Nat
    <2>1. record \in Nat /\ leaving \in Nat
      BY DEF IInv, IpcTypeOK
    <2> QED BY <2>1 DEF Popped
  <1>3. leaving' \in Nat /\ record' \in Nat
    BY <1>1, <1>2
  <1>4. IpcTypeOK'
    BY <1>1, <1>3 DEF IInv, IpcTypeOK, client, local, bounds
  <1>5. Alone' /\ Heard' /\ IpcCalls'
    BY <1>1 DEF IInv, Alone, Heard, IpcCalls, client, local
  <1>6. RecordFits'
    <2>1. IsFiniteSet(Serving) /\ Cardinality(Serving) \in Nat
      BY IpcAssumption, FS_Subset, FS_CardinalityType DEF Serving
    <2>2. Serving' = Serving
      BY <1>1 DEF Serving
    <2>3. record <= leaving + Cardinality(Serving)
      BY DEF IInv, RecordFits, Serving
    <2>4. record' <= leaving' + Cardinality(Serving')
      BY <1>1, <1>2, <2>1, <2>2, <2>3 DEF Popped
    <2> QED BY <2>4 DEF RecordFits, Serving
  <1> QED BY <1>4, <1>5, <1>6 DEF IInv

LEMMA PassKeeps ==
  ASSUME IInv, NEW t \in Apps, Pass(t)
  PROVE  IInv'
  <1>1. /\ pc[t] = "pass" /\ t \in Threads
        /\ UNCHANGED <<client, server, tries, found, crashed, bounds>>
    BY DEF Pass, At, Threads
  <1>2. call[t] \in Buffers
    BY <1>1 DEF IInv, IpcCalls
  <1>3. PICK ok \in Passes(call[t]) : /\ Return(t, call[t], ok)
                                     /\ served' = [served EXCEPT ![t] = ok]
    BY DEF Pass
  <1>4. ok \in BOOLEAN
    BY DEF Passes
  <1>5. /\ served' \in [Apps -> BOOLEAN] /\ \A u \in Apps \ {t} : served'[u] = served[u]
    BY <1>3, <1>4 DEF IInv, IpcTypeOK
  <1>6. /\ pc' \in [Threads -> IpcPlaces] /\ pc'[t] = "idle"
        /\ \A u \in Threads \ {t} : pc'[u] = pc[u]
        /\ call' \in [Apps -> Every \cup Done \cup {""}]
        /\ said' \in [Apps -> BOOLEAN]
        /\ Alone' /\ Heard' /\ IpcCalls'
    <2>1. /\ pc[t] \notin Searching /\ (crashed => crashed')
          /\ UNCHANGED <<client, life, up, found>>
      BY <1>1 DEF Searching, server
    <2>2. Truthful(Kind(call[t]), ok, served'[t])
      BY <1>2 DEF Kind, Truthful
    <2> QED BY <1>3, <1>4, <1>5, <2>1, <2>2, StepOut
  <1>7. IpcTypeOK'
    BY <1>1, <1>5, <1>6 DEF IInv, IpcTypeOK, client, server, bounds
  <1>8. RecordFits'
    BY <1>1, <1>6, RecordKept DEF IInv, server, Serving, Threads
  <1> QED BY <1>6, <1>7, <1>8 DEF IInv

----------------------------------------------------------------------------
(* Searching for the server *)

\* A thread that moves without a call being made, served or returned.
LEMMA LookOn ==
  ASSUME IInv, NEW t \in Threads, NEW p \in IpcPlaces, Go(t, p),
         pc[t] \in Searching \cup {"try"}, p \in Searching \cup {"idle", "try", "send"},
         UNCHANGED <<record, leaving, call, said, served>>
  PROVE  /\ pc' \in [Threads -> IpcPlaces] /\ pc'[t] = p
         /\ \A u \in Threads \ {t} : pc'[u] = pc[u]
         /\ IpcCalls' /\ RecordFits'
  <1>1. /\ pc' \in [Threads -> IpcPlaces] /\ pc'[t] = p
        /\ \A u \in Threads \ {t} : pc'[u] = pc[u]
    BY Moved DEF IInv
  <1>2. IpcCalls'
    <2> SUFFICES ASSUME NEW u \in Apps
                 PROVE  IpcCalls!(u)'
      BY DEF IpcCalls
    <2>1. u \in Threads
      BY DEF Threads
    <2>2. CASE u = t
      <3>1. pc'[u] = p /\ ~served[u] /\ call[u] \notin Done
        BY <1>1, <2>2 DEF IInv, IpcCalls, Searching
      <3> QED BY <3>1 DEF IInv, IpcCalls, Searching
    <2>3. CASE u # t
      BY <1>1, <2>1, <2>3 DEF IInv, IpcCalls
    <2> QED BY <2>2, <2>3
  <1>3. Serving' = Serving
    BY <1>1 DEF Serving, Threads, Searching
  <1>4. RecordFits'
    BY <1>3, RecordKept DEF IInv
  <1> QED BY <1>1, <1>2, <1>4

\* The thread that already looks for the server stays the only one.
LEMMA AloneKept ==
  ASSUME Alone, NEW t \in Threads, pc[t] \in Searching, raced' = raced,
         \A u \in Threads \ {t} : pc'[u] = pc[u]
  PROVE  Alone'
  BY DEF Alone

\* One more thread looks for the server, alone unless that is noted.
LEMMA AloneEntered ==
  ASSUME Alone, NEW t \in Threads, raced' = (raced \/ Beside(t)),
         \A u \in Threads \ {t} : pc'[u] = pc[u]
  PROVE  Alone'
  <1>1. ASSUME NEW u \in Threads \ {t}, pc[u] \in Searching
        PROVE  raced'
    BY <1>1 DEF Beside, Connecting, Searching
  <1> QED BY <1>1 DEF Alone

LEMMA TryKeeps ==
  ASSUME IInv, NEW t \in Threads, Try(t)
  PROVE  IInv'
  <1>1. /\ pc[t] = "try" /\ pc[t] \notin Searching
        /\ UNCHANGED <<ready, proxy, linked, due, unwatched, server, found, served, crashed,
                       bounds>>
        /\ UNCHANGED <<call, said>>
    BY DEF Try, At, Searching, Connected, returns
  <1>2. {"idle", "send", "get"} \subseteq IpcPlaces
    BY DEF IpcPlaces
  <1>3. CASE ready
    <2> DEFINE p == IF t = Binder THEN "idle" ELSE "send"
    <2>1. Go(t, p) /\ p \in {"idle", "send"} /\ UNCHANGED <<tries, raced>>
      BY <1>3 DEF Try, Connected
    <2> HIDE DEF p
    <2>2. /\ pc' \in [Threads -> IpcPlaces] /\ pc'[t] = p
          /\ \A u \in Threads \ {t} : pc'[u] = pc[u]
          /\ IpcCalls' /\ RecordFits'
      BY <1>1, <1>2, <2>1, LookOn DEF server
    <2>3. IpcTypeOK'
      BY <1>1, <2>1, <2>2 DEF IInv, IpcTypeOK, server, bounds
    <2>4. Alone' /\ Heard'
      <3>1. pc'[t] \notin Searching /\ UNCHANGED <<client, life, up, found>>
        BY <1>1, <2>1, <2>2 DEF Searching, client, server
      <3> QED BY <1>1, <2>2, <3>1, ElsewhereKeeps DEF IInv
    <2> QED BY <2>2, <2>3, <2>4 DEF IInv
  <1>4. CASE ~ready
    <2>1. /\ Go(t, "get") /\ tries' = [tries EXCEPT ![t] = 0]
          /\ raced' = (raced \/ Beside(t))
      BY <1>4 DEF Try
    <2>2. /\ pc' \in [Threads -> IpcPlaces] /\ pc'[t] = "get"
          /\ \A u \in Threads \ {t} : pc'[u] = pc[u]
          /\ IpcCalls' /\ RecordFits'
      BY <1>1, <1>2, <2>1, LookOn DEF server, Searching
    <2>3. IpcTypeOK'
      <3>1. raced' \in BOOLEAN /\ tries' \in [Threads -> Nat]
        BY <2>1 DEF IInv, IpcTypeOK
      <3> QED BY <1>1, <2>2, <3>1 DEF IInv, IpcTypeOK, server, bounds
    <2>4. Alone'
      BY <2>1, <2>2, AloneEntered DEF IInv
    <2>5. Heard'
      BY <1>1, <1>4, <2>1, <2>2 DEF IInv, Heard, server
    <2> QED BY <2>2, <2>3, <2>4, <2>5 DEF IInv
  <1> QED BY <1>3, <1>4

LEMMA GetKeeps ==
  ASSUME IInv, NEW t \in Threads, Get(t)
  PROVE  IInv'
  <1> DEFINE p == IF up \/ tries[t] = MAX_GET_SERVICE_COUNT THEN "judge" ELSE "get"
  <1>1. /\ pc[t] = "get" /\ pc[t] \in Searching /\ Go(t, p) /\ p \in {"judge", "get"}
        /\ proxy' = IF up THEN life ELSE 0
        /\ tries' = [tries EXCEPT ![t] = @ + 1]
        /\ UNCHANGED <<ready, linked, due, unwatched, raced, server, call, found, said, served,
                       crashed, bounds>>
    BY DEF Get, At, Searching
  <1> HIDE DEF p
  <1>2. p \in IpcPlaces /\ p \in Searching
    BY <1>1 DEF IpcPlaces, Searching
  <1>3. /\ pc' \in [Threads -> IpcPlaces] /\ pc'[t] = p
        /\ \A u \in Threads \ {t} : pc'[u] = pc[u]
        /\ IpcCalls' /\ RecordFits'
    BY <1>1, <1>2, LookOn DEF server
  <1>4. IpcTypeOK'
    <2>1. life \in Nat /\ tries \in [Threads -> Nat]
      BY DEF IInv, IpcTypeOK
    <2>2. proxy' \in Nat /\ tries' \in [Threads -> Nat]
      BY <1>1, <2>1
    <2> QED BY <1>1, <1>3, <2>2 DEF IInv, IpcTypeOK, server, bounds
  <1>5. Alone'
    BY <1>1, <1>3, AloneKept DEF IInv
  <1>6. Heard'
    <2>1. SUFFICES ASSUME ~raced, ~unwatched, ~crashed
                   PROVE  Heard'
      BY <1>1 DEF Heard
    <2>2. ~ready
      BY <1>1, <2>1 DEF IInv, Heard
    <2>3. \A u \in Threads \ {t} : pc'[u] \notin Searching
      BY <1>1, <1>3, <2>1 DEF IInv, Alone
    <2> QED BY <1>1, <1>3, <2>2, <2>3 DEF Heard, Searching
  <1> QED BY <1>3, <1>4, <1>5, <1>6 DEF IInv

LEMMA JudgeKeeps ==
  ASSUME IInv, NEW t \in Threads, Judge(t)
  PROVE  IInv'
  <1>1. /\ pc[t] = "judge" /\ pc[t] \in Searching /\ Go(t, "mark")
        /\ found' = [found EXCEPT ![t] = proxy # 0]
        /\ UNCHANGED <<client, server, call, tries, said, served, crashed, bounds>>
        /\ "mark" \in IpcPlaces /\ "mark" \in Searching
    BY DEF Judge, At, Searching, IpcPlaces
  <1>2. /\ pc' \in [Threads -> IpcPlaces] /\ pc'[t] = "mark"
        /\ \A u \in Threads \ {t} : pc'[u] = pc[u]
        /\ IpcCalls' /\ RecordFits'
    BY <1>1, LookOn DEF server
  <1>3. /\ found' \in [Threads -> BOOLEAN] /\ (found'[t] <=> proxy # 0)
        /\ \A u \in Threads \ {t} : found'[u] = found[u]
    BY <1>1 DEF IInv, IpcTypeOK
  <1>4. IpcTypeOK'
    BY <1>1, <1>2, <1>3 DEF IInv, IpcTypeOK, client, server, bounds
  <1>5. Alone'
    BY <1>1, <1>2, AloneKept DEF IInv, client
  <1>6. Heard'
    BY <1>1, <1>2, <1>3 DEF IInv, Heard, client, server
  <1> QED BY <1>2, <1>4, <1>5, <1>6 DEF IInv

LEMMA MarkKeeps ==
  ASSUME IInv, NEW t \in Threads, Mark(t)
  PROVE  IInv'
  <1>1. /\ pc[t] = "mark" /\ pc[t] \in Searching /\ Go(t, "watch") /\ ready' = found[t]
        /\ UNCHANGED <<proxy, linked, due, unwatched, raced, server, local, crashed, bounds>>
        /\ "watch" \in IpcPlaces /\ "watch" \in Searching
    BY DEF Mark, At, Searching, IpcPlaces
  <1>2. /\ pc' \in [Threads -> IpcPlaces] /\ pc'[t] = "watch"
        /\ \A u \in Threads \ {t} : pc'[u] = pc[u]
        /\ IpcCalls' /\ RecordFits'
    BY <1>1, LookOn DEF server, local
  <1>3. IpcTypeOK'
    <2>1. ready' \in BOOLEAN
      BY <1>1 DEF IInv, IpcTypeOK
    <2> QED BY <1>1, <1>2, <2>1 DEF IInv, IpcTypeOK, server, local, bounds
  <1>4. Alone'
    BY <1>1, <1>2, AloneKept DEF IInv
  <1>5. Heard'
    <2>1. SUFFICES ASSUME ~raced, ~unwatched, ~crashed
                   PROVE  Heard'
      BY <1>1 DEF Heard
    <2>2. found[t] <=> proxy # 0
      BY <1>1, <2>1 DEF IInv, Heard
    <2>3. \A u \in Threads \ {t} : pc'[u] \notin Searching
      BY <1>1, <1>2, <2>1 DEF IInv, Alone
    <2> QED BY <1>1, <1>2, <2>2, <2>3 DEF Heard, Searching
  <1> QED BY <1>2, <1>3, <1>4, <1>5 DEF IInv

LEMMA WatchKeeps ==
  ASSUME IInv, NEW t \in Threads, Watch(t)
  PROVE  IInv'
  <1>1. /\ pc[t] = "watch" /\ pc[t] \in Searching
        /\ UNCHANGED <<ready, proxy, unwatched, raced, server, local, crashed, bounds>>
        /\ {"back", "link"} \subseteq IpcPlaces /\ {"back", "link"} \subseteq Searching
    BY DEF Watch, At, Searching, IpcPlaces
  <1>2. PICK p \in {"back", "link"} : /\ Go(t, p) /\ (p = "back" <=> proxy = 0)
                                     /\ \/ proxy = 0 /\ UNCHANGED <<linked, due>>
                                        \/ linked' = {} /\ due' = FALSE /\ proxy # 0
    BY DEF Watch
  <1>3. /\ pc' \in [Threads -> IpcPlaces] /\ pc'[t] = p
        /\ \A u \in Threads \ {t} : pc'[u] = pc[u]
        /\ IpcCalls' /\ RecordFits'
    BY <1>1, <1>2, LookOn DEF server, local
  <1>4. IpcTypeOK'
    <2>1. linked' \subseteq Nat /\ due' \in BOOLEAN
      BY <1>2 DEF IInv, IpcTypeOK
    <2> QED BY <1>1, <1>3, <2>1 DEF IInv, IpcTypeOK, server, local, bounds
  <1>5. Alone'
    BY <1>1, <1>3, AloneKept DEF IInv
  <1>6. Heard'
    <2>1. SUFFICES ASSUME ~raced, ~unwatched, ~crashed
                   PROVE  Heard'
      BY <1>1 DEF Heard
    <2>2. ready <=> proxy # 0
      BY <1>1, <2>1 DEF IInv, Heard
    <2>3. \A u \in Threads \ {t} : pc'[u] \notin Searching
      BY <1>1, <1>3, <2>1 DEF IInv, Alone
    <2> QED BY <1>1, <1>2, <1>3, <2>2, <2>3 DEF Heard, Searching
  <1> QED BY <1>3, <1>4, <1>5, <1>6 DEF IInv

LEMMA LinkKeeps ==
  ASSUME IInv, NEW t \in Threads, Link(t)
  PROVE  IInv'
  <1>1. /\ pc[t] = "link" /\ pc[t] \in Searching /\ Go(t, "back") /\ crashed' = (proxy = 0)
        /\ UNCHANGED <<ready, proxy, due, raced, server, local, bounds>>
        /\ "back" \in IpcPlaces /\ "back" \in Searching /\ ~crashed
        /\ \/ up /\ proxy = life /\ linked' = linked \cup {life} /\ unwatched' = unwatched
           \/ unwatched' = TRUE /\ linked' = linked
    BY DEF Link, At, Searching, IpcPlaces
  <1>2. /\ pc' \in [Threads -> IpcPlaces] /\ pc'[t] = "back"
        /\ \A u \in Threads \ {t} : pc'[u] = pc[u]
        /\ IpcCalls' /\ RecordFits'
    BY <1>1, LookOn DEF server, local
  <1>3. IpcTypeOK'
    <2>1. linked' \subseteq Nat /\ unwatched' \in BOOLEAN /\ crashed' \in BOOLEAN
      BY <1>1 DEF IInv, IpcTypeOK
    <2> QED BY <1>1, <1>2, <2>1 DEF IInv, IpcTypeOK, server, local, bounds
  <1>4. Alone'
    BY <1>1, <1>2, AloneKept DEF IInv
  <1>5. Heard'
    <2>1. SUFFICES ASSUME ~raced, ~unwatched', ~crashed
                   PROVE  Heard'
      BY <1>1 DEF Heard
    <2>2. /\ up' = up /\ life' = life /\ up /\ proxy = life /\ life \in linked'
          /\ ~unwatched
      BY <1>1, <2>1 DEF server
    <2>3. \A u \in Threads \ {t} : pc'[u] \notin Searching
      BY <1>1, <1>2, <2>1 DEF IInv, Alone
    <2> QED BY <1>1, <1>2, <2>2, <2>3 DEF Heard, Searching
  <1> QED BY <1>2, <1>3, <1>4, <1>5 DEF IInv

\* A thread that has not found the server, and whose call, if it makes one, returns.
LEMMA GaveUp ==
  ASSUME IInv, NEW t \in Threads, pc[t] = "back", Go(t, "idle"),
         UNCHANGED <<record, leaving, served>>,
         \A u \in Apps \ {t} : call'[u] = call[u] /\ said'[u] = said[u],
         t \in Apps => Truthful(call'[t], said'[t], FALSE)
  PROVE  IpcCalls' /\ RecordFits'
  <1>1. /\ pc' \in [Threads -> IpcPlaces] /\ pc'[t] = "idle"
        /\ \A u \in Threads \ {t} : pc'[u] = pc[u]
    BY Moved DEF IInv, IpcPlaces
  <1>2. IpcCalls'
    <2> SUFFICES ASSUME NEW u \in Apps
                 PROVE  IpcCalls!(u)'
      BY DEF IpcCalls
    <2>1. u \in Threads
      BY DEF Threads
    <2>2. CASE u = t
      <3>1. served'[u] = FALSE
        BY <2>2 DEF IInv, IpcCalls, IpcTypeOK
      <3> QED BY <1>1, <2>2, <3>1
    <2>3. CASE u # t
      BY <1>1, <2>1, <2>3 DEF IInv, IpcCalls
    <2> QED BY <2>2, <2>3
  <1>3. Serving' = Serving
    BY <1>1 DEF Serving, Threads
  <1> QED BY <1>2, <1>3, RecordKept DEF IInv

LEMMA BackKeeps ==
  ASSUME IInv, NEW t \in Threads, Back(t)
  PROVE  IInv'
  <1>1. /\ pc[t] = "back" /\ pc[t] \in Searching
        /\ UNCHANGED <<client, server, tries, found, served, crashed, bounds>>
        /\ {"idle", "send"} \subseteq IpcPlaces /\ {"idle", "send"} \cap Searching = {}
    BY DEF Back, At, Searching, IpcPlaces
  <1>2. PICK p \in {"idle", "send"} : Go(t, p)
    BY DEF Back, Connected, Unconnected
  <1>3. /\ pc' \in [Threads -> IpcPlaces] /\ pc'[t] = p
        /\ \A u \in Threads \ {t} : pc'[u] = pc[u]
    BY <1>1, <1>2, Moved DEF IInv
  <1>4. /\ call' \in [Apps -> Every \cup Done \cup {""}] /\ said' \in [Apps -> BOOLEAN]
        /\ IpcCalls' /\ RecordFits'
    <2>1. call \in [Apps -> Every \cup Done \cup {""}] /\ said \in [Apps -> BOOLEAN]
      BY DEF IInv, IpcTypeOK
    <2>2. CASE UNCHANGED <<call, said>>
      BY <1>1, <1>2, <2>1, <2>2, LookOn DEF server
    <2>3. CASE Go(t, "idle") /\ t # Binder /\ \E c \in CallsOf(t) : NoServer(t, c)
      <3>1. PICK c \in CallsOf(t) : NoServer(t, c)
        BY <2>3
      <3>2. t \in Apps
        BY <2>3 DEF Threads
      <3> DEFINE k == IF c = "setFrameRate" THEN "unsent" ELSE Kind(c)
                 v == c = "setFrameRate"
      <3>3. k \in Done /\ v \in BOOLEAN /\ Truthful(k, v, FALSE)
        BY Kinds DEF Done, Truthful
      <3>4. said' = [said EXCEPT ![t] = v] /\ call' = [call EXCEPT ![t] = k]
        BY <3>1 DEF NoServer
      <3> HIDE DEF k, v
      <3>5. /\ call' \in [Apps -> Every \cup Done \cup {""}] /\ said' \in [Apps -> BOOLEAN]
            /\ call'[t] = k /\ said'[t] = v
            /\ \A u \in Apps \ {t} : call'[u] = call[u] /\ said'[u] = said[u]
        BY <2>1, <3>2, <3>3, <3>4
      <3> QED BY <1>1, <2>3, <3>3, <3>5, GaveUp DEF server
    <2> QED BY <2>2, <2>3 DEF Back, Connected, Unconnected, returns
  <1>5. IpcTypeOK'
    BY <1>1, <1>3, <1>4 DEF IInv, IpcTypeOK, client, server, bounds
  <1>6. Alone'
    BY <1>1, <1>3, AloneKept DEF IInv, client
  <1>7. Heard'
    BY <1>1, <1>2, <1>3 DEF IInv, Heard, client, server
  <1> QED BY <1>4, <1>5, <1>6, <1>7 DEF IInv

----------------------------------------------------------------------------
(* The server dies and comes back *)

LEMMA ServiceDiedKeeps ==
  ASSUME IInv, ServiceDied
  PROVE  IInv'
  <1>1. /\ Binder \in Threads /\ pc[Binder] = "idle" /\ due' = FALSE /\ proxy' = 0
        /\ raced' = (raced \/ Beside(Binder)) /\ Go(Binder, "unready") /\ "unready" \in IpcPlaces
        /\ UNCHANGED <<ready, linked, unwatched, server, local, crashed, bounds>>
    BY DEF ServiceDied, At, Threads, IpcPlaces
  <1>2. /\ pc' \in [Threads -> IpcPlaces] /\ pc'[Binder] = "unready"
        /\ \A u \in Threads \ {Binder} : pc'[u] = pc[u]
    BY <1>1, Moved DEF IInv
  <1>3. IpcTypeOK'
    <2>1. raced' \in BOOLEAN
      BY <1>1 DEF IInv, IpcTypeOK
    <2> QED BY <1>1, <1>2, <2>1 DEF IInv, IpcTypeOK, server, local, bounds
  <1>4. Alone'
    BY <1>1, <1>2, AloneEntered DEF IInv
  <1>5. Heard'
    <2>1. SUFFICES ASSUME ~raced'
                   PROVE  Heard'
      BY DEF Heard
    <2>2. \A u \in Threads \ {Binder} : pc'[u] \notin Searching
      BY <1>2, <1>1, <2>1 DEF Beside, Connecting, Searching
    <2> QED BY <1>2, <2>2, <1>1 DEF Heard, Searching
  <1>6. IpcCalls' /\ RecordFits'
    <2>1. \A u \in Apps : u # Binder /\ pc'[u] = pc[u]
      BY <1>2, IpcAssumption DEF Threads
    <2>2. IpcCalls'
      BY <1>1, <2>1 DEF IInv, IpcCalls, local
    <2>3. Serving' = Serving
      BY <2>1 DEF Serving
    <2> QED BY <1>1, <2>2, <2>3, RecordKept DEF IInv, server
  <1> QED BY <1>2, <1>3, <1>4, <1>5, <1>6 DEF IInv

LEMMA ReconnectKeeps ==
  ASSUME IInv, Reconnect
  PROVE  IInv'
  <1>1. /\ Binder \in Threads /\ pc[Binder] = "unready" /\ pc[Binder] \in Searching
        /\ ready' = FALSE /\ Go(Binder, "try") /\ "try" \in IpcPlaces
        /\ UNCHANGED <<proxy, linked, due, unwatched, raced, server, local, crashed, bounds>>
    BY DEF Reconnect, At, Threads, IpcPlaces, Searching
  <1>2. /\ pc' \in [Threads -> IpcPlaces] /\ pc'[Binder] = "try"
        /\ \A u \in Threads \ {Binder} : pc'[u] = pc[u]
        /\ IpcCalls' /\ RecordFits'
    BY <1>1, LookOn DEF server, local
  <1>3. IpcTypeOK'
    BY <1>1, <1>2 DEF IInv, IpcTypeOK, server, local, bounds
  <1>4. Alone'
    BY <1>1, <1>2, AloneKept DEF IInv
  <1>5. Heard'
    <2>1. SUFFICES ASSUME ~raced
                   PROVE  Heard'
      BY <1>1 DEF Heard
    <2>2. \A u \in Threads : pc'[u] \notin Searching
      BY <1>1, <1>2, <2>1 DEF IInv, Alone, Searching
    <2> QED BY <1>1, <2>2 DEF Heard, Searching
  <1> QED BY <1>2, <1>3, <1>4, <1>5 DEF IInv

LEMMA DieKeeps ==
  ASSUME IInv, Die
  PROVE  IInv'
  <1>1. /\ up' = FALSE /\ record' = 0 /\ leaving' = 0 /\ deaths' = deaths + 1 /\ up
        /\ due' = (due \/ life \in linked) /\ linked' = linked \ {life}
        /\ pc' = [t \in Threads |-> IF t \in Inside THEN "idle" ELSE pc[t]]
        /\ call' = [t \in Apps |-> IF t \in Inside THEN Kind(call[t]) ELSE call[t]]
        /\ UNCHANGED <<ready, proxy, unwatched, raced, life, tries, found, served, crashed, calls>>
    BY DEF Die
  <1>2. PICK error \in BOOLEAN :
            said' = [t \in Apps |-> IF t \notin Inside THEN said[t]
                                    ELSE IF call[t] \in Buffers THEN ~error ELSE ~Waits(call[t])]
    BY DEF Die
  <1>3. pc' \in [Threads -> IpcPlaces] /\ call' \in [Apps -> Every \cup Done \cup {""}]
    <2>1. pc \in [Threads -> IpcPlaces] /\ call \in [Apps -> Every \cup Done \cup {""}]
      BY DEF IInv, IpcTypeOK
    <2> QED BY <1>1, <2>1, Kinds DEF IpcPlaces
  <1>4. said' \in [Apps -> BOOLEAN]
    <2>1. said \in [Apps -> BOOLEAN]
      BY DEF IInv, IpcTypeOK
    <2> QED BY <1>2, <2>1, Kinds
  <1>5. store' \in [Lasting \cup {"rect", "board"} -> Apps \cup {"none", "junk"}]
    <2>1. store' = [k \in DOMAIN store |-> IF k \in Lasting THEN store[k] ELSE "none"]
      BY DEF Die
    <2> QED BY <2>1 DEF IInv, IpcTypeOK
  <1>6. IpcTypeOK'
    <2>1. deaths' \in Nat
      <3>1. deaths \in Nat
        BY DEF IInv, IpcTypeOK
      <3> QED BY <1>1, <3>1
    <2>2. linked' \subseteq Nat /\ due' \in BOOLEAN
      BY <1>1 DEF IInv, IpcTypeOK
    <2> QED BY <1>1, <1>3, <1>4, <1>5, <2>1, <2>2 DEF IInv, IpcTypeOK
  <1>7. \A t \in Threads : pc[t] \in Searching \cup {"try"} \/ pc'[t] \in Searching => pc'[t] = pc[t]
    BY <1>1 DEF Inside, Searching
  <1>8. Alone'
    BY <1>1, <1>7 DEF IInv, Alone
  <1>9. Heard'
    <2>1. SUFFICES ASSUME ~raced, ~unwatched, ~crashed
                   PROVE  Heard'
      BY <1>1 DEF Heard
    <2>2. ready' => due' \/ \E t \in Threads : pc'[t] \in {"unready", "watch", "link"}
      <3>1. ready => \/ life \in linked \/ due
                     \/ \E t \in Threads : pc[t] \in {"unready", "watch", "link"}
        BY <2>1 DEF IInv, Heard
      <3> QED BY <1>1, <1>7, <3>1 DEF Searching
    <2>3. ASSUME NEW t \in Threads
          PROVE  /\ pc'[t] \in {"get", "judge", "mark"} => ~ready
                 /\ pc'[t] = "mark" => (found[t] <=> proxy # 0)
                 /\ pc'[t] = "watch" => (ready <=> proxy # 0)
                 /\ pc'[t] = "link" => ready /\ proxy # 0
      BY <1>7, <2>1 DEF IInv, Heard, Searching
    <2> QED BY <1>1, <2>2, <2>3 DEF Heard
  <1>10. IpcCalls'
    <2> SUFFICES ASSUME NEW t \in Apps
                 PROVE  IpcCalls!(t)'
      BY DEF IpcCalls
    <2>1. t \in Threads
      BY DEF Threads
    <2>2. CASE t \in Inside
      <3>1. pc'[t] = "idle" /\ call'[t] = Kind(call[t]) /\ served'[t] = served[t] /\ ~served[t]
        BY <1>1, <2>1, <2>2 DEF IInv, IpcCalls, Inside
      <3>2. call[t] \notin Buffers /\ Waits(call[t]) => said'[t] = FALSE
        BY <1>2, <2>2
      <3>3. served'[t] = FALSE /\ said'[t] \in BOOLEAN
        BY <1>4, <3>1 DEF IInv, IpcTypeOK
      <3>4. Truthful(call'[t], said'[t], served'[t])
        BY <3>1, <3>2, <3>3, Kinds
      <3> QED BY <3>1, <3>4
    <2>3. CASE t \notin Inside
      BY <1>1, <1>2, <2>1, <2>3 DEF IInv, IpcCalls
    <2> QED BY <2>2, <2>3
  <1>11. RecordFits'
    <2>1. Serving' \subseteq Apps
      BY DEF Serving
    <2>2. Cardinality(Serving') \in Nat
      BY <2>1, IpcAssumption, FS_Subset, FS_CardinalityType
    <2>3. record' <= leaving' + Cardinality(Serving')
      BY <1>1, <2>2
    <2> QED BY <2>3 DEF RecordFits, Serving
  <1> QED BY <1>6, <1>8, <1>9, <1>10, <1>11 DEF IInv

LEMMA RestartKeeps ==
  ASSUME IInv, Restart
  PROVE  IInv'
  <1>1. /\ ~up /\ up' = TRUE /\ life' = life + 1
        /\ UNCHANGED <<client, record, leaving, store, pc, local, crashed, bounds>>
    BY DEF Restart
  <1>2. IpcTypeOK'
    <2>1. life \in Nat
      BY DEF IInv, IpcTypeOK
    <2>2. life' \in Nat \ {0}
      BY <1>1, <2>1
    <2> QED BY <1>1, <2>2 DEF IInv, IpcTypeOK, client, local, bounds
  <1>3. Alone' /\ Heard' /\ IpcCalls'
    BY <1>1 DEF IInv, Alone, Heard, IpcCalls, client, local
  <1>4. RecordFits'
    BY <1>1, RecordKept DEF IInv, Serving
  <1> QED BY <1>2, <1>3, <1>4 DEF IInv

----------------------------------------------------------------------------
(* The theorems *)

LEMMA InitKeeps == Init => IInv
  <1> SUFFICES ASSUME Init
               PROVE  IInv
    OBVIOUS
  <1>1. IpcTypeOK
    <2>1. store \in [Lasting \cup {"rect", "board"} -> Apps \cup {"none", "junk"}]
      BY DEF Init
    <2>2. /\ proxy \in Nat /\ life \in Nat \ {0} /\ record \in Nat /\ leaving \in Nat
          /\ deaths \in Nat /\ calls \in Nat
      <3>1. proxy = 0 /\ life = 1 /\ record = 0 /\ leaving = 0 /\ deaths = 0 /\ calls = 0
        BY DEF Init
      <3> QED BY <3>1
    <2>3. pc \in [Threads -> IpcPlaces] /\ tries \in [Threads -> Nat]
      BY DEF Init, IpcPlaces
    <2> QED BY <2>1, <2>2, <2>3 DEF Init, IpcTypeOK
  <1>2. \A t \in Threads : pc[t] = "idle"
    BY DEF Init
  <1>3. Alone /\ Heard
    BY <1>2 DEF Init, Alone, Heard, Searching
  <1>4. IpcCalls
    BY <1>2 DEF Init, IpcCalls, Threads, Truthful
  <1>5. RecordFits
    <2>1. Cardinality(Serving) \in Nat
      BY IpcAssumption, FS_Subset, FS_CardinalityType DEF Serving
    <2>2. record = 0 /\ leaving = 0
      BY DEF Init
    <2>3. record <= leaving + Cardinality(Serving)
      BY <2>1, <2>2
    <2> QED BY <2>3 DEF RecordFits, Serving
  <1> QED BY <1>1, <1>3, <1>4, <1>5 DEF IInv

LEMMA NextKeeps == IInv /\ [Next]_ipc => IInv'
  <1> SUFFICES ASSUME IInv, [Next]_ipc
               PROVE  IInv'
    OBVIOUS
  <1>1. ASSUME NEW t \in Apps, NEW c \in CallsOf(t), Send(t, c)
        PROVE  IInv'
    BY <1>1, IpcAssumption, SendKeeps DEF CallsOf
  <1>2. CASE UNCHANGED ipc
    <2>1. IpcTypeOK' /\ Alone' /\ Heard' /\ IpcCalls'
      BY <1>2 DEF ipc, IInv, IpcTypeOK, Alone, Heard, IpcCalls
    <2>2. RecordFits'
      BY <1>2, RecordKept DEF ipc, IInv, Serving
    <2> QED BY <2>1, <2>2 DEF IInv
  <1>3. CASE Next
    BY <1>1, <1>3, CallKeeps, InvokeKeeps, EnterKeeps, PushKeeps, FlushKeeps, TopKeeps, DropKeeps,
       HandleKeeps, AnswerKeeps, PassKeeps, TryKeeps, GetKeeps, JudgeKeeps, MarkKeeps,
       WatchKeeps, LinkKeeps, BackKeeps, ServiceDiedKeeps, ReconnectKeeps, LeaveKeeps, DieKeeps,
       RestartKeeps DEF Next
  <1> QED BY <1>2, <1>3

LEMMA Invariance == Spec => []IInv
  BY InitKeeps, NextKeeps, PTL DEF Spec

\* For any number of threads and of deaths of the server, the fields of the client,
\* of the server and of the threads keep their types.
THEOREM IpcTypeCorrect == Spec => []IpcTypeOK
  BY Invariance, PTL DEF IInv

\* A client that takes a dead server for ready hears of the death or is looking for
\* the server, unless two threads looked at once or the server was dead before it
\* could be watched; and the server's record counts no call that is not being
\* served (DisplayClient.cpp, DisplayServer.cpp).
THEOREM AlwaysReachable == Spec => []Reachable
  <1>1. IInv => Reachable
    BY DEF IInv, Heard, Reachable, NotDeaf, Connecting
  <1> QED BY <1>1, Invariance, PTL

\* Every message carries what its handler needs.  Through deaths, lost messages and
\* records that overflow, a getter says true exactly when a server answered it, a
\* call that returns its answer tells of success only if there was one, and a setter
\* that says false was not carried out; setFrameRate without a server to be found,
\* which returns 0, and the calls that pass a buffer are not judged
\* (DisplayAdapterRemote.cpp).
THEOREM AlwaysAnswered == Spec => []Answered
  <1>1. IInv => Answered
    <2> SUFFICES ASSUME IInv, NEW t \in Apps
                 PROVE  /\ pc[t] = "handle" => Complete(call[t])
                        /\ Truthful(call[t], said[t], served[t])
      BY DEF Answered, Truthful
    <2> QED BY MessagesFit DEF IInv, IpcCalls
  <1> QED BY <1>1, Invariance, PTL
=============================================================================
