-------------------------- MODULE ProcessorsProofs --------------------------
(***************************************************************************)
(* Proofs about Processors: every descriptor is in one place that closes    *)
(* it.  What is open equals what the slots, the line of DI and the queue    *)
(* hold, and every step adds to one side what it adds to the other.  For    *)
(* that no slot may be written over while it holds something.  The slots    *)
(* of NnProcessor are used in turn, so the queue is the last of them in     *)
(* turn and the next one is free; those DiProcessor has in its queue are    *)
(* used and distinct, and it takes an unused one.                           *)
(***************************************************************************)
EXTENDS Processors, Integers, FiniteSetTheorems, WellFoundedInduction, TLAPS

Places == {"idle", "wait", "show", "slot", "leave", "renew", "setup", "again", "resetup", "retry"}
Statuses == {"none", "wait", "start", "done", "invalid"}
Slot == [frame : Frame \cup {0}, fd : BOOLEAN, fence : BOOLEAN, last : BOOLEAN, input : BOOLEAN,
         used : BOOLEAN]
DiKeeps == [fd : BOOLEAN, fence : BOOLEAN, out : BOOLEAN, interlaced : BOOLEAN, first : BOOLEAN,
            layer : BOOLEAN]

PoolOK ==
    /\ queue \in Seq(1 .. SlotCount) /\ buf \in [1 .. SlotCount -> Slot] /\ cur \in 0 .. SlotCount

FlagsOK ==
    /\ has \in BOOLEAN /\ mInited \in BOOLEAN /\ mExitThread \in BOOLEAN /\ reset \in BOOLEAN
    /\ odd \in BOOLEAN /\ mNeed_fence \in BOOLEAN /\ backend \in BOOLEAN /\ loaded \in BOOLEAN
    /\ refused \in BOOLEAN

StatesOK ==
    /\ FlagsOK
    /\ kind \in {"sr", "pq", "color", "di"}
    /\ thread \in {"none", "idle", "busy", "answered", "popped"}
    /\ dma \in {"none", "run", "full", "partial"} /\ vinfo \in Sizes \cup {0}
    /\ nn \in [Frame -> Statuses] /\ di \in DiKeeps
    /\ composer \in Places /\ open \in Int

TypeOK == StatesOK /\ PoolOK

-----------------------------------------------------------------------------
LessThan == {p \in Nat \X Nat : p[1] < p[2]}

LEMMA LeastNat ==
    ASSUME NEW T, T \subseteq Nat, T # {}
    PROVE  \E s \in T : \A r \in T : s <= r
<1>1. IsWellFoundedOn(LessThan, Nat)
  BY NatLessThanWellFounded DEF OpToRel, LessThan
<1>2. PICK s \in T : \A r \in T : ~(<<r, s>> \in LessThan)
  BY <1>1, WFMin
<1>3. ASSUME NEW r \in T PROVE s <= r
  <2>1. <<r, s>> \in Nat \X Nat /\ <<r, s>>[1] = r /\ <<r, s>>[2] = s
    OBVIOUS
  <2>2. ~(r < s)
    BY <2>1, <1>2 DEF LessThan
  <2>. QED
    BY <2>2
<1>. QED
  BY <1>3

-----------------------------------------------------------------------------
(* Counting                                                                  *)

One(b) == IF b THEN 1 ELSE 0

LEMMA OneElement ==
    ASSUME NEW S, IsFiniteSet(S), NEW T, NEW x, T \ {x} = S \ {x}
    PROVE  /\ IsFiniteSet(T) /\ Cardinality(S) \in Nat /\ Cardinality(T) \in Nat
           /\ Cardinality(T) = Cardinality(S) + One(x \in T) - One(x \in S)
<1>. DEFINE R == S \ {x}
<1>1. /\ IsFiniteSet(R) /\ Cardinality(S) \in Nat
      /\ Cardinality(R) = IF x \in S THEN Cardinality(S) - 1 ELSE Cardinality(S)
  BY FS_RemoveElement, FS_CardinalityType
<1>2. Cardinality(R) \in Nat
  BY <1>1, FS_CardinalityType
<1>3. /\ IsFiniteSet(R \cup {x})
      /\ Cardinality(R \cup {x}) = Cardinality(R) + 1
  BY <1>1, FS_AddElement
<1>4. CASE x \in T
  <2>1. T = R \cup {x}
    BY <1>4
  <2>. QED
    BY <1>1, <1>2, <1>3, <1>4, <2>1 DEF One
<1>5. CASE x \notin T
  <2>1. T = R
    BY <1>5
  <2>. QED
    BY <1>1, <1>2, <1>5, <2>1 DEF One
<1>. QED
  BY <1>4, <1>5

(* Held of one descriptor, two, three or four.                                *)
LEMMA HeldFew ==
    ASSUME NEW a \in BOOLEAN, NEW b \in BOOLEAN, NEW c \in BOOLEAN, NEW d \in BOOLEAN
    PROVE  /\ Held(<<a>>) = One(a) /\ Held(<<a, b>>) = One(a) + One(b)
           /\ Held(<<a, b, c>>) = One(a) + One(b) + One(c)
           /\ Held(<<a, b, c, d>>) = One(a) + One(b) + One(c) + One(d)
<1>. DEFINE q == <<a, b, c, d>>
            A(k) == {i \in 1 .. k : q[i]}
<1>1. /\ q[1] = a /\ q[2] = b /\ q[3] = c /\ q[4] = d
  OBVIOUS
<1>2. IsFiniteSet(A(0)) /\ Cardinality(A(0)) = 0
  <2>1. A(0) = {}
    OBVIOUS
  <2>. QED
    BY <2>1, FS_EmptySet
<1>3. ASSUME NEW k \in 0 .. 3, IsFiniteSet(A(k))
      PROVE  /\ IsFiniteSet(A(k + 1))
             /\ Cardinality(A(k + 1)) = Cardinality(A(k)) + One(q[k + 1])
  <2>1. A(k + 1) \ {k + 1} = A(k) \ {k + 1} /\ k + 1 \notin A(k)
        /\ One(k + 1 \in A(k + 1)) = One(q[k + 1]) /\ One(q[k + 1]) \in Nat
    <3>1. q[k + 1] \in BOOLEAN
      BY <1>1
    <3>. QED
      BY <3>1 DEF One
  <2>. HIDE DEF A, q
  <2>2. Cardinality(A(k + 1)) = Cardinality(A(k)) + One(k + 1 \in A(k + 1)) - One(k + 1 \in A(k))
        /\ IsFiniteSet(A(k + 1)) /\ Cardinality(A(k)) \in Nat
    BY <1>3, <2>1, OneElement
  <2>. QED
    BY <2>1, <2>2 DEF One
<1>. HIDE DEF q, A
<1>4. /\ Cardinality(A(1)) = One(q[1]) /\ Cardinality(A(2)) = One(q[1]) + One(q[2])
      /\ Cardinality(A(3)) = One(q[1]) + One(q[2]) + One(q[3])
      /\ Cardinality(A(4)) = One(q[1]) + One(q[2]) + One(q[3]) + One(q[4])
  <2>1. IsFiniteSet(A(1)) /\ Cardinality(A(1)) = One(q[1])
    BY <1>2, <1>3 DEF One
  <2>2. IsFiniteSet(A(2)) /\ Cardinality(A(2)) = One(q[1]) + One(q[2])
    BY <2>1, <1>3 DEF One
  <2>3. IsFiniteSet(A(3)) /\ Cardinality(A(3)) = One(q[1]) + One(q[2]) + One(q[3])
    BY <2>2, <1>3 DEF One
  <2>4. IsFiniteSet(A(4)) /\ Cardinality(A(4)) = One(q[1]) + One(q[2]) + One(q[3]) + One(q[4])
    BY <2>3, <1>3 DEF One
  <2>. QED
    BY <2>1, <2>2, <2>3, <2>4
<1>5. /\ {i \in DOMAIN <<a>> : <<a>>[i]} = A(1)
      /\ {i \in DOMAIN <<a, b>> : <<a, b>>[i]} = A(2)
      /\ {i \in DOMAIN <<a, b, c>> : <<a, b, c>>[i]} = A(3)
      /\ {i \in DOMAIN <<a, b, c, d>> : <<a, b, c, d>>[i]} = A(4)
  BY <1>1 DEF A
<1>. QED
  BY <1>1, <1>4, <1>5 DEF Held

(* What the slots hold, all of them and one alone.                            *)
Of(s, flag) == One(s[flag])
Flags(s) == Of(s, "fence") + Of(s, "last") + Of(s, "fd") + Of(s, "input")
InSlots(b) ==
    Held([i \in DOMAIN b |-> b[i].fence]) + Held([i \in DOMAIN b |-> b[i].last])
    + Held([i \in DOMAIN b |-> b[i].fd]) + Held([i \in DOMAIN b |-> b[i].input])

LEMMA HeldFinite ==
    ASSUME NEW n \in Nat, NEW bits, DOMAIN bits = 1 .. n
    PROVE  Held(bits) \in Nat /\ IsFiniteSet({i \in DOMAIN bits : bits[i]})
<1>1. IsFiniteSet(1 .. n) /\ {i \in DOMAIN bits : bits[i]} \subseteq 1 .. n
  BY FS_Interval
<1>. QED
  BY <1>1, FS_Subset, FS_CardinalityType DEF Held

LEMMA HeldChanges ==
    ASSUME NEW n \in Nat, NEW f, NEW g, DOMAIN f = 1 .. n, DOMAIN g = 1 .. n, NEW i \in 1 .. n,
           \A j \in 1 .. n \ {i} : g[j] = f[j], f[i] \in BOOLEAN, g[i] \in BOOLEAN
    PROVE  Held(g) = Held(f) + One(g[i]) - One(f[i]) /\ Held(f) \in Nat /\ Held(g) \in Nat
<1>. DEFINE S == {j \in DOMAIN f : f[j]}
            T == {j \in DOMAIN g : g[j]}
<1>1. IsFiniteSet(S) /\ T \ {i} = S \ {i} /\ (i \in S) = f[i] /\ (i \in T) = g[i]
  BY HeldFinite
<1>. HIDE DEF S, T
<1>2. Cardinality(T) = Cardinality(S) + One(i \in T) - One(i \in S)
  BY <1>1, OneElement
<1>3. Held(f) = Cardinality(S) /\ Held(g) = Cardinality(T)
  BY DEF Held, S, T
<1>. QED
  BY <1>1, <1>2, <1>3, HeldFinite

(* One of the flags of the slots.                                             *)
Names == {"fence", "last", "fd", "input"}
Flagged(b, flag) == Held([i \in DOMAIN b |-> b[i][flag]])

LEMMA FlagChanges ==
    ASSUME NEW n \in Nat, NEW b \in [1 .. n -> Slot], NEW c \in [1 .. n -> Slot],
           NEW i \in 1 .. n, \A j \in 1 .. n \ {i} : c[j] = b[j], NEW flag \in Names
    PROVE  /\ Flagged(c, flag) = Flagged(b, flag) + Of(c[i], flag) - Of(b[i], flag)
           /\ Flagged(b, flag) \in Nat /\ Flagged(c, flag) \in Nat
<1>. DEFINE f == [j \in DOMAIN b |-> b[j][flag]]
            g == [j \in DOMAIN c |-> c[j][flag]]
<1>1. /\ DOMAIN f = 1 .. n /\ DOMAIN g = 1 .. n /\ \A j \in 1 .. n \ {i} : g[j] = f[j]
      /\ f[i] = b[i][flag] /\ g[i] = c[i][flag]
  OBVIOUS
<1>2. \A s \in Slot : s[flag] \in BOOLEAN
  BY DEF Slot, Names
<1>3. f[i] \in BOOLEAN /\ g[i] \in BOOLEAN
  BY <1>1, <1>2
<1>. HIDE DEF f, g
<1>4. Held(g) = Held(f) + One(g[i]) - One(f[i]) /\ Held(f) \in Nat /\ Held(g) \in Nat
  BY <1>1, <1>3, HeldChanges
<1>. QED
  BY <1>1, <1>4 DEF f, g, Flagged, Of, One

LEMMA InSlotsFlagged ==
    ASSUME NEW b
    PROVE  InSlots(b) = Flagged(b, "fence") + Flagged(b, "last") + Flagged(b, "fd")
                        + Flagged(b, "input")
  BY DEF InSlots, Flagged

LEMMA SlotChanges ==
    ASSUME NEW n \in Nat, NEW b \in [1 .. n -> Slot], NEW c \in [1 .. n -> Slot],
           NEW i \in 1 .. n, \A j \in 1 .. n \ {i} : c[j] = b[j]
    PROVE  /\ InSlots(c) = InSlots(b) + Flags(c[i]) - Flags(b[i])
           /\ InSlots(b) \in Nat /\ InSlots(c) \in Nat
<1>1. \A flag \in Names :
          /\ Flagged(c, flag) = Flagged(b, flag) + Of(c[i], flag) - Of(b[i], flag)
          /\ Flagged(b, flag) \in Nat /\ Flagged(c, flag) \in Nat
  BY FlagChanges
<1>2. /\ Flagged(c, "fence") = Flagged(b, "fence") + Of(c[i], "fence") - Of(b[i], "fence")
      /\ Flagged(c, "last") = Flagged(b, "last") + Of(c[i], "last") - Of(b[i], "last")
      /\ Flagged(c, "fd") = Flagged(b, "fd") + Of(c[i], "fd") - Of(b[i], "fd")
      /\ Flagged(c, "input") = Flagged(b, "input") + Of(c[i], "input") - Of(b[i], "input")
  BY <1>1 DEF Names
<1>3. /\ Flagged(b, "fence") \in Nat /\ Flagged(b, "last") \in Nat
      /\ Flagged(b, "fd") \in Nat /\ Flagged(b, "input") \in Nat
      /\ Flagged(c, "fence") \in Nat /\ Flagged(c, "last") \in Nat
      /\ Flagged(c, "fd") \in Nat /\ Flagged(c, "input") \in Nat
  BY <1>1 DEF Names
<1>4. \A flag : Of(b[i], flag) \in Nat /\ Of(c[i], flag) \in Nat
  BY DEF Of, One
<1>5. InSlots(b) \in Nat /\ InSlots(c) \in Nat
  BY <1>3, InSlotsFlagged
<1>6. InSlots(c) = InSlots(b) + Flags(c[i]) - Flags(b[i])
  <2>1. /\ InSlots(c) = Flagged(c, "fence") + Flagged(c, "last") + Flagged(c, "fd")
                         + Flagged(c, "input")
        /\ InSlots(b) = Flagged(b, "fence") + Flagged(b, "last") + Flagged(b, "fd")
                         + Flagged(b, "input")
    BY InSlotsFlagged
  <2>2. PICK p \in Nat, q \in Nat, r \in Nat, s \in Nat :
            p = Of(b[i], "fence") /\ q = Of(b[i], "last") /\ r = Of(b[i], "fd") /\ s = Of(b[i], "input")
    BY <1>4
  <2>3. PICK t \in Nat, u \in Nat, v \in Nat, w \in Nat :
            t = Of(c[i], "fence") /\ u = Of(c[i], "last") /\ v = Of(c[i], "fd") /\ w = Of(c[i], "input")
    BY <1>4
  <2>4. Flags(b[i]) = p + q + r + s
    BY <2>2 DEF Flags
  <2>5. Flags(c[i]) = t + u + v + w
    BY <2>3 DEF Flags
  <2>6. InSlots(c) = Flagged(b, "fence") + t - p + (Flagged(b, "last") + u - q)
                         + (Flagged(b, "fd") + v - r) + (Flagged(b, "input") + w - s)
    BY <2>1, <2>2, <2>3, <1>2
  <2>7. PICK j \in Nat, k \in Nat, l \in Nat, m \in Nat :
            /\ j = Flagged(b, "fence") /\ k = Flagged(b, "last") /\ l = Flagged(b, "fd")
            /\ m = Flagged(b, "input")
    BY <1>3
  <2>8. InSlots(b) = j + k + l + m
    BY <2>1, <2>7
  <2>9. InSlots(c) = j + t - p + (k + u - q) + (l + v - r) + (m + w - s)
    BY <2>6, <2>7
  <2>10. j + t - p + (k + u - q) + (l + v - r) + (m + w - s)
             = (j + k + l + m) + (t + u + v + w) - (p + q + r + s)
    OBVIOUS
  <2>. QED
    BY <2>4, <2>5, <2>8, <2>9, <2>10
<1>. QED
  BY <1>5, <1>6

(* Slots that hold nothing.                                                   *)
LEMMA NothingInSlots ==
    ASSUME NEW n \in Nat, NEW b \in [1 .. n -> Slot],
           \A i \in 1 .. n : ~b[i].fence /\ ~b[i].last /\ ~b[i].fd /\ ~b[i].input
    PROVE  InSlots(b) = 0
<1>1. ASSUME NEW f, DOMAIN f = 1 .. n, \A i \in 1 .. n : ~f[i] PROVE Held(f) = 0
  <2>1. {i \in DOMAIN f : f[i]} = {}
    BY <1>1
  <2>. QED
    BY <2>1, FS_EmptySet DEF Held
<1>2. /\ Held([i \in DOMAIN b |-> b[i].fence]) = 0 /\ Held([i \in DOMAIN b |-> b[i].last]) = 0
      /\ Held([i \in DOMAIN b |-> b[i].fd]) = 0 /\ Held([i \in DOMAIN b |-> b[i].input]) = 0
  BY <1>1
<1>. QED
  BY <1>2 DEF InSlots

-----------------------------------------------------------------------------
(* The inductive invariant                                                   *)

(* The processor is set up.                                                   *)
Live == has /\ composer \notin {"setup", "resetup"}

(* The slot in front is the thread's, or no longer queued for it.             *)
AtWork == thread \in {"busy", "answered"}

NoFlags(s) == ~s.fence /\ ~s.last /\ ~s.fd /\ ~s.input

(* A processor that is not set up has no thread and nothing to close.         *)
Rests ==
    /\ ~has => composer = "idle"
    /\ ~Live => /\ thread = "none" /\ \A i \in 1 .. SlotCount : NoFlags(buf[i])
                /\ ~di.fd /\ ~di.fence /\ ~di.out
                /\ kind # "di" => queue = <<>>

(* The thread works on the front of the queue; only di has a line and a slot  *)
(* to ask for.                                                                *)
Kinds ==
    /\ AtWork => queue # <<>>
    /\ thread = "busy" => kind = "sr"
    /\ thread = "popped" => kind # "di"
    /\ kind # "di" => di = NoDi /\ composer \notin {"slot", "again", "resetup", "retry"}

(* The slot that was the current one k frames ago.                            *)
Back(k) == IF cur > k THEN cur - k ELSE cur - k + Slots

(* The queue of sr is the slots used last, oldest first, and what is kept for *)
(* the next frame is in a queued one.                                         *)
SrInv ==
    /\ \A i \in 1 .. Slots : ~buf[i].fd
    /\ Len(queue) <= Slots /\ (composer # "wait" => Len(queue) < Slots)
    /\ cur = 0 => queue = <<>>
    /\ \A j \in DOMAIN queue : queue[j] = Back(Len(queue) - j)
    /\ \A i \in 1 .. Slots : buf[i].last \/ buf[i].input =>
           \E j \in DOMAIN queue : queue[j] = i /\ (AtWork => j # 1)
    /\ mNeed_fence /\ composer \in {"wait", "show"} => cur # 0 /\ ~buf[cur].fence

(* The slots that wait for the thread of di.                                  *)
Line == {p \in DOMAIN queue : AtWork => p # 1}

(* An unused slot of di holds nothing, and those in its queue are different.  *)
DiInv ==
    /\ \A i \in 1 .. DiSlots : ~buf[i].last /\ ~buf[i].input
    /\ \A i \in 1 .. DiSlots : ~buf[i].used => NoFlags(buf[i])
    /\ ~di.interlaced => ~di.fd /\ ~di.fence
    /\ Live => /\ \A p \in Line : buf[queue[p]].used
               /\ \A p, q \in Line : queue[p] = queue[q] => p = q
               /\ mNeed_fence /\ composer = "show" =>
                      /\ cur # 0 /\ buf[cur].used /\ ~buf[cur].fence
                      /\ \A p \in Line : queue[p] # cur

(* What is in the queue of sr, pq and color is open too.                      *)
QueuedOpen == IF kind = "di" THEN 0 ELSE Len(queue) + Held(<<thread = "popped">>)

(* The inductive invariant.                                                   *)
IInv ==
    /\ TypeOK /\ Rests /\ Kinds
    /\ kind = "sr" => SrInv
    /\ kind \in {"pq", "color"} => cur < Slots /\ \A i \in 1 .. Slots : NoFlags(buf[i])
    /\ kind = "di" => DiInv
    /\ ~refused => open = InSlots(buf) + Kept(di) + QueuedOpen

-----------------------------------------------------------------------------
(* Facts about the slots and the queue                                       *)

LEMMA SlotCounts ==
    ASSUME TypeOK
    PROVE  /\ SlotCount \in Nat \ {0} /\ Slots \in Nat \ {0} /\ DiSlots \in Nat \ {0}
           /\ SlotCount = IF kind = "di" THEN DiSlots ELSE Slots
  BY SlotsAssumption DEF SlotCount

LEMMA UnusedType == Unused \in Slot /\ NoFlags(Unused) /\ NoDi \in DiKeeps
  BY DEF Unused, Slot, NoFlags, NoDi, DiKeeps

LEMMA NextSlot ==
    ASSUME NEW n \in Nat \ {0}, NEW c \in 0 .. n
    PROVE  (c % n) + 1 = (IF c = n THEN 1 ELSE c + 1) /\ (c + 1) % n \in 0 .. n
  OBVIOUS

LEMMA FrontType ==
    ASSUME TypeOK, queue # <<>>
    PROVE  /\ Head(queue) \in 1 .. SlotCount /\ Head(queue) = queue[1]
           /\ Front \in Slot /\ Front = buf[Head(queue)]
           /\ Tail(queue) \in Seq(1 .. SlotCount) /\ Len(Tail(queue)) = Len(queue) - 1
           /\ \A j \in 1 .. Len(queue) - 1 : Tail(queue)[j] = queue[j + 1]
<1>. DEFINE T == 1 .. SlotCount
<1>1. queue \in Seq(T) /\ buf \in [T -> Slot]
  BY DEF TypeOK, PoolOK, StatesOK, FlagsOK
<1>. HIDE DEF T
<1>2. /\ Head(queue) \in T /\ Head(queue) = queue[1]
      /\ Tail(queue) \in Seq(T) /\ Len(Tail(queue)) = Len(queue) - 1
      /\ \A j \in 1 .. Len(queue) - 1 : Tail(queue)[j] = queue[j + 1]
  BY <1>1
<1>3. Front = buf[Head(queue)] /\ Front \in Slot
  BY <1>1, <1>2 DEF Front
<1>. QED
  BY <1>2, <1>3 DEF T

LEMMA FreeSlotType ==
    ASSUME TypeOK, FreeSlots # {}
    PROVE  LET i == CHOOSE j \in FreeSlots : \A k \in FreeSlots : j <= k
           IN  i \in 1 .. SlotCount /\ ~buf[i].used
<1>1. FreeSlots \subseteq 1 .. SlotCount /\ \A i \in FreeSlots : ~buf[i].used
  BY DEF FreeSlots, TypeOK, PoolOK
<1>2. FreeSlots \subseteq Nat
  BY <1>1
<1>3. \E j \in FreeSlots : \A k \in FreeSlots : j <= k
  BY <1>2, LeastNat
<1>. QED
  BY <1>1, <1>3

LEMMA FewType ==
    ASSUME NEW a \in BOOLEAN, NEW b \in BOOLEAN, NEW c \in BOOLEAN, NEW d \in BOOLEAN
    PROVE  /\ Held(<<a>>) \in Nat /\ Held(<<a, b>>) \in Nat /\ Held(<<a, b, c>>) \in Nat
           /\ Held(<<a, b, c, d>>) \in Nat
<1>1. One(a) \in Nat /\ One(b) \in Nat /\ One(c) \in Nat /\ One(d) \in Nat
  BY DEF One
<1>. QED
  BY <1>1, HeldFew

LEMMA QueueType ==
    ASSUME TypeOK
    PROVE  /\ Len(queue) \in Nat /\ DOMAIN queue = 1 .. Len(queue) /\ DOMAIN buf = 1 .. SlotCount
           /\ \A j \in DOMAIN queue : queue[j] \in 1 .. SlotCount
           /\ \A i \in 1 .. SlotCount : Append(queue, i) \in Seq(1 .. SlotCount)
           /\ <<>> \in Seq(1 .. SlotCount)
<1>. DEFINE T == 1 .. SlotCount
<1>1. queue \in Seq(T) /\ buf \in [T -> Slot]
  BY DEF TypeOK, PoolOK, StatesOK, FlagsOK
<1>. HIDE DEF T
<1>2. /\ Len(queue) \in Nat /\ DOMAIN queue = 1 .. Len(queue) /\ DOMAIN buf = T
      /\ \A j \in DOMAIN queue : queue[j] \in T
      /\ \A i \in T : Append(queue, i) \in Seq(T)
      /\ <<>> \in Seq(T)
  BY <1>1
<1>. QED
  BY <1>2 DEF T

(* What the teardown counts.                                                  *)
LEMMA TeardownCounts ==
    ASSUME TypeOK
    PROVE  /\ Held([i \in DOMAIN queue |-> buf[queue[i]].input]) \in Nat
           /\ Held([i \in DOMAIN buf |-> buf[i].fence]) \in Nat
           /\ Held([i \in DOMAIN buf |-> buf[i].last]) \in Nat
           /\ Held([i \in DOMAIN buf |-> buf[i].used /\ buf[i].fd]) \in Nat
           /\ Held([i \in DOMAIN buf |-> buf[i].used /\ buf[i].fence]) \in Nat
           /\ InSlots(buf) \in Nat
<1>1. SlotCount \in Nat /\ Len(queue) \in Nat
      /\ DOMAIN queue = 1 .. Len(queue) /\ DOMAIN buf = 1 .. SlotCount
  BY SlotCounts, QueueType
<1>2. /\ Held([i \in DOMAIN queue |-> buf[queue[i]].input]) \in Nat
      /\ Held([i \in DOMAIN buf |-> buf[i].fence]) \in Nat
      /\ Held([i \in DOMAIN buf |-> buf[i].last]) \in Nat
      /\ Held([i \in DOMAIN buf |-> buf[i].fd]) \in Nat
      /\ Held([i \in DOMAIN buf |-> buf[i].input]) \in Nat
      /\ Held([i \in DOMAIN buf |-> buf[i].used /\ buf[i].fd]) \in Nat
      /\ Held([i \in DOMAIN buf |-> buf[i].used /\ buf[i].fence]) \in Nat
  BY <1>1, HeldFinite
<1>. QED
  BY <1>2 DEF InSlots

LEMMA KeptType ==
    ASSUME NEW d \in DiKeeps
    PROVE  /\ Kept(d) = One(d.fd) + One(d.fence) + One(d.out) + One(d.layer) /\ Kept(d) \in Nat
           /\ Held(<<d.fd, d.fence, d.out>>) = One(d.fd) + One(d.fence) + One(d.out)
           /\ Held(<<d.fd, d.fence>>) = One(d.fd) + One(d.fence) /\ Held(<<d.layer>>) = One(d.layer)
           /\ One(d.fd) \in Nat /\ One(d.fence) \in Nat /\ One(d.out) \in Nat /\ One(d.layer) \in Nat
<1>1. d.fd \in BOOLEAN /\ d.fence \in BOOLEAN /\ d.out \in BOOLEAN /\ d.layer \in BOOLEAN
  BY DEF DiKeeps
<1>2. /\ One(d.fd) \in Nat /\ One(d.fence) \in Nat /\ One(d.out) \in Nat /\ One(d.layer) \in Nat
  BY DEF One
<1>3. /\ Kept(d) = One(d.fd) + One(d.fence) + One(d.out) + One(d.layer)
      /\ Held(<<d.fd, d.fence, d.out>>) = One(d.fd) + One(d.fence) + One(d.out)
      /\ Held(<<d.fd, d.fence>>) = One(d.fd) + One(d.fence) /\ Held(<<d.layer>>) = One(d.layer)
  BY <1>1, HeldFew DEF Kept
<1>. QED
  BY <1>2, <1>3

LEMMA OpenTypes ==
    ASSUME TypeOK
    PROVE  InSlots(buf) \in Nat /\ Kept(di) \in Nat /\ QueuedOpen \in Nat /\ open \in Int
<1>1. InSlots(buf) \in Nat /\ Len(queue) \in Nat /\ di \in DiKeeps /\ open \in Int
  BY TeardownCounts, QueueType DEF TypeOK, StatesOK
<1>2. Kept(di) \in Nat
  BY <1>1, KeptType
<1>3. Held(<<thread = "popped">>) \in Nat
  BY FewType
<1>4. QueuedOpen \in Nat
  BY <1>1, <1>3 DEF QueuedOpen
<1>. QED
  BY <1>1, <1>2, <1>4

LEMMA SameSlots == ASSUME kind' = kind PROVE SlotCount' = SlotCount
  BY DEF SlotCount

LEMMA PoolFits ==
    ASSUME kind' = kind, queue' \in Seq(1 .. SlotCount), buf' \in [1 .. SlotCount -> Slot],
           cur' \in 0 .. SlotCount
    PROVE  PoolOK'
<1>1. SlotCount' = SlotCount
  BY SameSlots
<1>2. 1 .. SlotCount' = 1 .. SlotCount /\ 0 .. SlotCount' = 0 .. SlotCount
  BY <1>1
<1>. QED
  BY <1>2 DEF PoolOK

-----------------------------------------------------------------------------
(* Types                                                                     *)

(* The actions that leave the queue, the slots and what is open alone.        *)
Quiet ==
    \/ tearDownProcessors \/ resetProcessors
    \/ (\E f \in Frame : srBypass(f) \/ srUnsized(f) \/ srRefuse(f) \/ PqBypass(f) \/ PqSkip(f)
                          \/ ColorBypass(f) \/ ColorSkip(f) \/ Decode(f))
    \/ waitForRoom \/ threadExit \/ allocThreadProcess \/ LoadNNModel
    \/ ai_sr_process \/ ai_pq_process \/ ai_color_process

LEMMA QuietType == IInv /\ Quiet => TypeOK'
<1>. SUFFICES ASSUME TypeOK, Quiet PROVE TypeOK'
  BY DEF IInv
<1>1. /\ kind' = kind /\ queue' = queue /\ buf' = buf /\ cur' = cur /\ open' = open /\ di' = di
      /\ refused' = refused
  BY DEF Quiet, tearDownProcessors, resetProcessors, StartTeardown, srBypass, srUnsized, srRefuse,
         PqBypass, PqSkip, ColorBypass, ColorSkip, Decode, waitForRoom, threadExit,
         allocThreadProcess,
         LoadNNModel, ai_sr_process, ai_pq_process, ai_color_process, ThreadOnly, pool, life, env,
         runProcessors
<1>2. nn' \in [Frame -> Statuses]
  BY DEF TypeOK, PoolOK, StatesOK, FlagsOK, Statuses, Quiet, tearDownProcessors, resetProcessors,
         StartTeardown, srBypass, srUnsized, srRefuse,
         PqBypass, PqSkip, ColorBypass, ColorSkip, Decode, waitForRoom, threadExit,
         allocThreadProcess,
         LoadNNModel, ai_sr_process, ai_pq_process, ai_color_process, ThreadOnly, pool, life, env,
         runProcessors
<1>3. /\ has' \in BOOLEAN /\ mInited' \in BOOLEAN /\ mExitThread' \in BOOLEAN /\ reset' \in BOOLEAN
      /\ thread' \in {"none", "idle", "busy", "answered", "popped"}
      /\ odd' \in BOOLEAN /\ mNeed_fence' \in BOOLEAN
      /\ backend' \in BOOLEAN /\ loaded' \in BOOLEAN /\ composer' \in Places
  <2>1. CASE tearDownProcessors \/ resetProcessors
    BY <2>1 DEF TypeOK, PoolOK, StatesOK, FlagsOK, Places, tearDownProcessors, resetProcessors,
                StartTeardown, pool, env
  <2>2. CASE \E f \in Frame : srBypass(f) \/ srUnsized(f) \/ srRefuse(f)
    BY <2>2 DEF TypeOK, PoolOK, StatesOK, FlagsOK, Places, srBypass, srUnsized, srRefuse,
                runProcessors, env
  <2>3. CASE \E f \in Frame : PqBypass(f) \/ PqSkip(f) \/ ColorBypass(f) \/ ColorSkip(f) \/ Decode(f)
    BY <2>3 DEF TypeOK, PoolOK, StatesOK, FlagsOK, Places, PqBypass, PqSkip, ColorBypass,
                ColorSkip, Decode, runProcessors, env,
                pool, life
  <2>4. CASE waitForRoom \/ threadExit \/ allocThreadProcess \/ LoadNNModel
    <3>1. CASE waitForRoom
      BY <3>1 DEF TypeOK, PoolOK, StatesOK, FlagsOK, Places, waitForRoom, pool, life, env
    <3>2. CASE threadExit
      BY <3>2 DEF TypeOK, PoolOK, StatesOK, FlagsOK, Places, threadExit, pool, life, env
    <3>3. CASE allocThreadProcess
      BY <3>3 DEF TypeOK, PoolOK, StatesOK, FlagsOK, Places, allocThreadProcess, pool, life
    <3>4. CASE LoadNNModel
      BY <3>4 DEF TypeOK, PoolOK, StatesOK, FlagsOK, Places, LoadNNModel, pool, life
    <3>. QED
      BY <2>4, <3>1, <3>2, <3>3, <3>4
  <2>5. CASE ai_sr_process \/ ai_pq_process \/ ai_color_process
    BY <2>5 DEF TypeOK, PoolOK, StatesOK, FlagsOK, Places, ai_sr_process, ai_pq_process,
                ai_color_process, ThreadOnly, pool, life, env
  <2>. QED
    BY <2>1, <2>2, <2>3, <2>4, <2>5 DEF Quiet
<1>4. dma' \in {"none", "run", "full", "partial"} /\ vinfo' \in Sizes \cup {0}
  <2>1. CASE \E f \in Frame : srRefuse(f)
    BY <2>1 DEF TypeOK, PoolOK, StatesOK, FlagsOK, srRefuse
  <2>2. CASE \E f \in Frame : srBypass(f) \/ srUnsized(f)
    BY <2>2 DEF TypeOK, PoolOK, StatesOK, FlagsOK, srBypass, srUnsized, env
  <2>3. CASE \E f \in Frame : PqBypass(f) \/ PqSkip(f) \/ ColorBypass(f) \/ ColorSkip(f) \/ Decode(f)
    BY <2>3 DEF TypeOK, PoolOK, StatesOK, FlagsOK, PqBypass, PqSkip, ColorBypass, ColorSkip,
                Decode, env
  <2>4. CASE \/ tearDownProcessors \/ resetProcessors \/ waitForRoom \/ threadExit
             \/ allocThreadProcess \/ LoadNNModel \/ ai_sr_process \/ ai_pq_process \/ ai_color_process
    BY <2>4 DEF TypeOK, PoolOK, StatesOK, FlagsOK, tearDownProcessors, resetProcessors,
                StartTeardown, waitForRoom, threadExit,
                allocThreadProcess, LoadNNModel, ai_sr_process, ai_pq_process, ai_color_process, ThreadOnly, env
  <2>. QED
    BY <2>1, <2>2, <2>3, <2>4 DEF Quiet
<1>5. SlotCount' = SlotCount
  BY <1>1, SameSlots
<1>. QED
  BY <1>1, <1>2, <1>3, <1>4, <1>5 DEF TypeOK, PoolOK, StatesOK, FlagsOK

LEMMA SetupType ==
    ASSUME IInv,
           \/ setUpAiSrProcessor \/ setUpAiPqProcessor \/ setUpAiColorProcessor \/ setUpDiProcessor
           \/ setUpAgain
    PROVE  TypeOK'
<1>1. /\ kind' = kind /\ open' = open /\ nn' = nn /\ refused' = refused /\ dma' = dma
      /\ vinfo' \in {vinfo, 0} /\ backend' = backend /\ loaded' = loaded
      /\ has' \in {TRUE, has} /\ reset' \in {TRUE, reset} /\ composer' \in {composer, "idle", "retry"}
      /\ setupSr \/ setupPq \/ setupDi
  BY DEF setUpAiSrProcessor, setUpAiPqProcessor, setUpAiColorProcessor, setUpDiProcessor,
         setUpAgain,
         NewProcessor, setup, env
<1>2. TypeOK /\ SlotCount' = SlotCount
  BY <1>1, SameSlots DEF IInv
<1>3. /\ queue' \in {queue, <<>>} /\ buf' \in {buf, [i \in DOMAIN buf |-> Unused]}
      /\ cur' \in {cur, 0}
      /\ di' \in {di, [di EXCEPT !.interlaced = FALSE, !.out = FALSE]}
  BY <1>1 DEF setupSr, setupPq, setupDi, pool
<1>4. queue' \in Seq(1 .. SlotCount) /\ buf' \in [1 .. SlotCount -> Slot] /\ cur' \in 0 .. SlotCount
  <2>1. cur \in 0 .. SlotCount /\ 0 \in 0 .. SlotCount /\ queue \in Seq(1 .. SlotCount)
        /\ buf \in [1 .. SlotCount -> Slot]
    BY <1>2, SlotCounts DEF TypeOK, PoolOK, StatesOK
  <2>2. <<>> \in Seq(1 .. SlotCount) /\ [i \in DOMAIN buf |-> Unused] \in [1 .. SlotCount -> Slot]
    BY <1>2, <2>1, QueueType, UnusedType
  <2>. QED
    BY <1>3, <2>1, <2>2
<1>5. di' \in DiKeeps
  BY <1>2, <1>3 DEF TypeOK, PoolOK, StatesOK, DiKeeps
<1>6. PoolOK'
  BY <1>1, <1>4, PoolFits
<1>7. /\ odd' = odd /\ mNeed_fence' \in {FALSE, mNeed_fence}
      /\ mInited' = TRUE /\ mExitThread' = FALSE /\ thread' = "idle"
  BY <1>1 DEF setupSr, setupPq, setupDi, pool
<1>8. StatesOK'
  <2>1. StatesOK
    BY <1>2 DEF TypeOK
  <2>2. has' \in BOOLEAN /\ reset' \in BOOLEAN /\ odd' \in BOOLEAN /\ mNeed_fence' \in BOOLEAN
    BY <1>1, <1>7, <2>1 DEF StatesOK, FlagsOK
  <2>3. vinfo' \in Sizes \cup {0}
    BY <1>1, <2>1 DEF StatesOK
  <2>4. composer' \in Places
    BY <1>1, <2>1 DEF StatesOK, Places
  <2>5. FlagsOK'
    BY <1>1, <1>7, <2>1, <2>2 DEF StatesOK, FlagsOK
  <2>. QED
    BY <1>1, <1>5, <1>7, <2>1, <2>3, <2>4, <2>5 DEF StatesOK
<1>. QED
  BY <1>6, <1>8 DEF TypeOK

LEMMA TeardownType ==
    ASSUME IInv, leave \/ renew
    PROVE  TypeOK'
<1>1. /\ kind' = kind /\ thread' = thread /\ refused' = refused /\ reset' = reset
      /\ has' \in {FALSE, has} /\ mInited' = FALSE /\ mExitThread' = mExitThread
      /\ composer' \in Places
      /\ teardownSr \/ teardownPq \/ teardownDi
  BY DEF leave, renew, teardown, Places
<1>2. TypeOK /\ SlotCount' = SlotCount
  BY <1>1, SameSlots DEF IInv
<1>3. /\ queue' \in {queue, <<>>}
      /\ buf' \in {[i \in DOMAIN buf |-> Unused], [i \in DOMAIN buf |-> IF buf[i].used THEN Unused ELSE buf[i]]}
      /\ cur' = cur
      /\ di' \in {di, [di EXCEPT !.fd = FALSE, !.fence = FALSE, !.out = FALSE]}
  BY <1>1 DEF teardownSr, teardownPq, teardownDi, env
<1>4. queue' \in Seq(1 .. SlotCount) /\ buf' \in [1 .. SlotCount -> Slot] /\ cur' \in 0 .. SlotCount
  <2>1. cur \in 0 .. SlotCount /\ queue \in Seq(1 .. SlotCount) /\ buf \in [1 .. SlotCount -> Slot]
    BY <1>2 DEF TypeOK, PoolOK, StatesOK
  <2>2. /\ <<>> \in Seq(1 .. SlotCount) /\ [i \in DOMAIN buf |-> Unused] \in [1 .. SlotCount -> Slot]
        /\ [i \in DOMAIN buf |-> IF buf[i].used THEN Unused ELSE buf[i]] \in [1 .. SlotCount -> Slot]
    BY <1>2, <2>1, QueueType, UnusedType
  <2>. QED
    BY <1>3, <2>1, <2>2
<1>5. di' \in DiKeeps
  BY <1>2, <1>3 DEF TypeOK, PoolOK, StatesOK, DiKeeps
<1>6. nn' \in [Frame -> Statuses]
  BY <1>1, <1>2 DEF teardownSr, teardownPq, teardownDi, TypeOK, PoolOK, StatesOK, Statuses
<1>7. open' \in Int
  <2>1. di \in DiKeeps /\ open \in Int /\ Len(queue) \in Nat
    BY <1>2, QueueType DEF TypeOK, PoolOK, StatesOK
  <2>2. Held(<<di.fd, di.fence, di.out>>) \in Nat
    BY <2>1, FewType DEF DiKeeps
  <2>. QED
    BY <1>1, <1>2, <2>1, <2>2, TeardownCounts DEF teardownSr, teardownPq, teardownDi
<1>8. PoolOK'
  BY <1>1, <1>4, PoolFits
<1>9. /\ odd' = odd /\ mNeed_fence' = mNeed_fence /\ dma' \in {"none", dma}
      /\ vinfo' = vinfo /\ backend' = backend /\ loaded' = loaded
  BY <1>1 DEF teardownSr, teardownPq, teardownDi, env
<1>10. StatesOK'
  <2>1. StatesOK
    BY <1>2 DEF TypeOK
  <2>2. FlagsOK' /\ dma' \in {"none", "run", "full", "partial"}
    BY <1>1, <1>9, <2>1 DEF StatesOK, FlagsOK
  <2>. QED
    BY <1>1, <1>5, <1>6, <1>7, <1>9, <2>1, <2>2 DEF StatesOK
<1>. QED
  BY <1>8, <1>10 DEF TypeOK

LEMMA SrQueueType ==
    ASSUME IInv, NEW f \in Frame, srQueue(f)
    PROVE  TypeOK' /\ cur' = (IF cur = Slots THEN 1 ELSE cur + 1) /\ cur' \in 1 .. SlotCount
           /\ \E fence \in BOOLEAN :
                  /\ buf' = [buf EXCEPT ![cur'] = [@ EXCEPT !.frame = f, !.last = buf[cur'].fence,
                                                           !.fence = FALSE, !.input = fence]]
                  /\ open' = open + 1 + One(fence)
<1>1. /\ kind = "sr" /\ kind' = kind /\ thread' = thread /\ refused' = refused /\ reset' = FALSE
      /\ has' = has /\ mInited' = mInited /\ mExitThread' = mExitThread /\ odd' = odd
      /\ mNeed_fence' = TRUE /\ dma' = dma /\ backend' = backend /\ loaded' = loaded
      /\ composer' = "wait" /\ di' = di /\ nn' = [nn EXCEPT ![f] = "wait"]
      /\ queue' = Append(queue, cur')
  BY DEF srQueue, runProcessors
<1>2. PICK in \in Admitted(f), v \in IF vinfo = 0 THEN Sizes \ {1920} ELSE {vinfo} :
          /\ (in.fence => backend \/ Astray < MaxLost) /\ in.need
          /\ vinfo' = v
          /\ cur' = (cur % Slots) + 1
          /\ buf' = [buf EXCEPT ![cur'] = [@ EXCEPT !.frame = f, !.last = buf[cur'].fence, !.fence = FALSE, !.input = in.fence]]
          /\ open' = open + 1 + Held(<<in.fence>>)
  BY DEF srQueue
<1>3. TypeOK /\ StatesOK /\ PoolOK /\ in.fence \in BOOLEAN /\ SlotCount = Slots /\ Slots \in Nat \ {0}
  BY <1>1, SlotCounts DEF IInv, TypeOK, Inputs, Admitted
<1>4. cur' = (IF cur = Slots THEN 1 ELSE cur + 1) /\ cur' \in 1 .. SlotCount
  <2>1. cur \in 0 .. Slots
    BY <1>3 DEF PoolOK
  <2>2. cur' = (IF cur = Slots THEN 1 ELSE cur + 1)
    BY <1>2, <1>3, <2>1, NextSlot
  <2>. QED
    BY <1>3, <2>1, <2>2
<1>5. Held(<<in.fence>>) = One(in.fence) /\ One(in.fence) \in Nat
  BY <1>3, HeldFew DEF One
<1>6. PoolOK'
  <2>1. queue' \in Seq(1 .. SlotCount)
    BY <1>1, <1>3, <1>4, QueueType
  <2>2. buf[cur'] \in Slot /\ buf[cur'].fence \in BOOLEAN
    BY <1>3, <1>4 DEF PoolOK, Slot
  <2>3. [buf[cur'] EXCEPT !.frame = f, !.last = buf[cur'].fence, !.fence = FALSE, !.input = in.fence] \in Slot
    BY <1>3, <2>2 DEF Slot
  <2>4. buf' \in [1 .. SlotCount -> Slot]
    BY <1>2, <1>3, <1>4, <2>3 DEF PoolOK
  <2>5. cur' \in 0 .. SlotCount
    BY <1>3, <1>4
  <2>. QED
    BY <1>1, <2>1, <2>4, <2>5, PoolFits
<1>7. nn' \in [Frame -> Statuses] /\ vinfo' \in Sizes \cup {0} /\ open' \in Int
  BY <1>1, <1>2, <1>3, <1>5 DEF StatesOK, Statuses
<1>8. StatesOK'
  <2>1. FlagsOK'
    BY <1>1, <1>3 DEF StatesOK, FlagsOK
  <2>. QED
    BY <1>1, <1>3, <1>7, <2>1 DEF StatesOK, Places
<1>. QED
  BY <1>2, <1>3, <1>4, <1>5, <1>6, <1>8 DEF TypeOK

LEMMA CacheType ==
    ASSUME IInv, NEW f \in Frame, PqQueue(f) \/ ColorQueue(f)
    PROVE  TypeOK' /\ cur' \in 0 .. Slots - 1 /\ cur + 1 \in 1 .. Slots
<1>1. /\ kind \in {"pq", "color"} /\ kind' = kind /\ thread' = thread /\ refused' = refused /\ reset' = FALSE
      /\ has' = has /\ mInited' = mInited /\ mExitThread' = mExitThread /\ odd' = ~odd
      /\ mNeed_fence' = mNeed_fence /\ dma' = "full" /\ backend' = backend /\ loaded' = loaded
      /\ vinfo' = vinfo /\ composer' = "wait" /\ di' = di
      /\ queue' = Append(queue, cur + 1) /\ open' = open + 1 /\ cur' = (cur + 1) % Slots
  BY DEF PqQueue, ColorQueue, CacheFrame, runProcessors
<1>2. nn' = nn \/ nn' = [nn EXCEPT ![f] = "wait"]
  BY DEF PqQueue, ColorQueue
<1>3. buf' = [buf EXCEPT ![cur + 1].frame = f]
  BY DEF PqQueue, ColorQueue, CacheFrame
<1>4. TypeOK /\ StatesOK /\ PoolOK /\ SlotCount = Slots /\ Slots \in Nat \ {0} /\ cur < Slots
  BY <1>1, SlotCounts DEF IInv, TypeOK
<1>5. cur \in 0 .. Slots - 1 /\ cur + 1 \in 1 .. SlotCount /\ cur' \in 0 .. Slots - 1
  BY <1>1, <1>4 DEF PoolOK
<1>6. PoolOK'
  <2>1. queue' \in Seq(1 .. SlotCount)
    BY <1>1, <1>4, <1>5, QueueType
  <2>2. [buf[cur + 1] EXCEPT !.frame = f] \in Slot
    BY <1>4, <1>5 DEF PoolOK, Slot
  <2>3. buf' \in [1 .. SlotCount -> Slot]
    BY <1>3, <1>4, <1>5, <2>2 DEF PoolOK
  <2>4. cur' \in 0 .. SlotCount
    BY <1>4, <1>5
  <2>. QED
    BY <1>1, <2>1, <2>3, <2>4, PoolFits
<1>7. nn' \in [Frame -> Statuses]
  BY <1>2, <1>4 DEF StatesOK, Statuses
<1>8. StatesOK'
  <2>1. FlagsOK'
    BY <1>1, <1>4 DEF StatesOK, FlagsOK
  <2>. QED
    BY <1>1, <1>4, <1>7, <2>1 DEF StatesOK, Places
<1>. QED
  BY <1>4, <1>5, <1>6, <1>8 DEF TypeOK

LEMMA DisplayedType ==
    ASSUME IInv, onBufferDisplayed
    PROVE  /\ TypeOK'
           /\ kind = "sr" /\ mNeed_fence =>
                 /\ cur \in 1 .. SlotCount
                 /\ \E release \in BOOLEAN : buf' = [buf EXCEPT ![cur].fence = release]
                                            /\ open' = open + One(release)
           /\ ~(kind = "sr" /\ mNeed_fence) => UNCHANGED <<buf, open>>
<1>1. TypeOK /\ StatesOK /\ PoolOK /\ SlotCount \in Nat
  BY SlotCounts DEF IInv, TypeOK
<1>2. /\ kind' = kind /\ has' = has /\ mInited' = mInited /\ mExitThread' = mExitThread /\ reset' = reset
      /\ queue' = queue /\ cur' = cur /\ odd' = odd /\ mNeed_fence' = mNeed_fence /\ dma' = dma
      /\ vinfo' = vinfo /\ backend' = backend /\ loaded' = loaded /\ thread' = thread /\ nn' = nn
      /\ di' = di /\ refused' = refused /\ composer' = "idle" /\ composer = "show"
  BY DEF onBufferDisplayed, life, env
<1>3. CASE kind = "sr" /\ mNeed_fence
  <2>1. PICK release \in BOOLEAN : buf' = [buf EXCEPT ![cur].fence = release] /\ open' = open + Held(<<release>>)
    BY <1>3 DEF onBufferDisplayed
  <2>2. cur \in 1 .. SlotCount
    BY <1>1, <1>2, <1>3 DEF IInv, SrInv, PoolOK
  <2>3. [buf[cur] EXCEPT !.fence = release] \in Slot
    BY <1>1, <2>2 DEF PoolOK, Slot
  <2>4. buf' \in [1 .. SlotCount -> Slot]
    BY <1>1, <2>1, <2>2, <2>3 DEF PoolOK
  <2>5. PoolOK'
    BY <1>1, <1>2, <2>4, PoolFits DEF PoolOK
  <2>6. Held(<<release>>) = One(release) /\ One(release) \in Nat
    BY HeldFew DEF One
  <2>7. open' \in Int
    BY <1>1, <2>1, <2>6 DEF StatesOK
  <2>8. StatesOK'
    BY <1>1, <1>2, <2>7 DEF StatesOK, FlagsOK, Places
  <2>. QED
    BY <1>3, <2>1, <2>2, <2>5, <2>6, <2>8 DEF TypeOK
<1>4. CASE ~(kind = "sr" /\ mNeed_fence)
  <2>1. buf' = buf /\ open' = open
    BY <1>4 DEF onBufferDisplayed
  <2>2. PoolOK'
    BY <1>1, <1>2, <2>1, PoolFits DEF PoolOK
  <2>3. StatesOK'
    BY <1>1, <1>2, <2>1 DEF StatesOK, FlagsOK, Places
  <2>. QED
    BY <1>4, <2>1, <2>2, <2>3 DEF TypeOK
<1>. QED
  BY <1>3, <1>4

LEMMA StartType ==
    ASSUME IInv, srStart
    PROVE  /\ TypeOK' /\ Head(queue) \in 1 .. SlotCount
           /\ buf' = [buf EXCEPT ![Head(queue)] = [@ EXCEPT !.input = FALSE, !.last = FALSE]]
           /\ open' = open - One(Front.input) - One(Front.last)
           /\ thread' \in {"busy", "answered"}
<1>1. TypeOK /\ StatesOK /\ PoolOK
  BY DEF IInv, TypeOK
<1>2. /\ kind' = kind /\ has' = has /\ mInited' = mInited /\ mExitThread' = mExitThread /\ reset' = reset
      /\ queue' = queue /\ cur' = cur /\ odd' = odd /\ mNeed_fence' = mNeed_fence /\ dma' = dma
      /\ vinfo' = vinfo /\ backend' = backend /\ loaded' = loaded
      /\ di' = di /\ refused' = refused /\ composer' = composer /\ queue # <<>>
  BY DEF srStart, ThreadOnly, life, env
<1>3. /\ open' = open - Held(<<Front.input, Front.last>>)
      /\ buf' = [buf EXCEPT ![Head(queue)] = [@ EXCEPT !.input = FALSE, !.last = FALSE]]
  BY DEF srStart
<1>4. /\ thread' \in {"busy", "answered"}
      /\ nn' = [nn EXCEPT ![Front.frame] = "start"] \/ nn' = [nn EXCEPT ![Front.frame] = "invalid"]
  BY DEF srStart
<1>5. /\ Head(queue) \in 1 .. SlotCount /\ Front \in Slot /\ Front = buf[Head(queue)]
      /\ Front.input \in BOOLEAN /\ Front.last \in BOOLEAN
  BY <1>1, <1>2, FrontType DEF Slot
<1>6. /\ Held(<<Front.input, Front.last>>) = One(Front.input) + One(Front.last)
      /\ One(Front.input) \in Nat /\ One(Front.last) \in Nat
  BY <1>5, HeldFew DEF One
<1>7. [buf[Head(queue)] EXCEPT !.input = FALSE, !.last = FALSE] \in Slot
  BY <1>5 DEF Slot
<1>8. buf' \in [1 .. SlotCount -> Slot]
  BY <1>1, <1>3, <1>5, <1>7 DEF PoolOK
<1>9. PoolOK'
  BY <1>1, <1>2, <1>8, PoolFits DEF PoolOK
<1>10. nn' \in [Frame -> Statuses] /\ open' \in Int
  BY <1>1, <1>3, <1>4, <1>6 DEF StatesOK, Statuses
<1>11. StatesOK'
  <2>1. FlagsOK'
    BY <1>1, <1>2 DEF StatesOK, FlagsOK
  <2>. QED
    BY <1>1, <1>2, <1>4, <1>10, <2>1 DEF StatesOK
<1>12. open' = open - One(Front.input) - One(Front.last)
  BY <1>1, <1>3, <1>6 DEF StatesOK
<1>. QED
  BY <1>3, <1>4, <1>5, <1>9, <1>11, <1>12 DEF TypeOK

LEMMA PopType ==
    ASSUME IInv, threadPop \/ threadClose
    PROVE  TypeOK'
<1>1. TypeOK /\ StatesOK /\ PoolOK
  BY DEF IInv, TypeOK
<1>2. /\ kind' = kind /\ has' = has /\ mInited' = mInited /\ mExitThread' = mExitThread /\ reset' = reset
      /\ buf' = buf /\ cur' = cur /\ odd' = odd /\ mNeed_fence' = mNeed_fence /\ dma' = dma
      /\ vinfo' = vinfo /\ backend' = backend /\ loaded' = loaded /\ nn' = nn
      /\ di' = di /\ refused' = refused /\ composer' = composer
  BY DEF threadPop, threadClose, ThreadOnly, life, env
<1>3. open' \in Int /\ thread' \in {"idle", "popped"}
  BY <1>1 DEF threadPop, threadClose, StatesOK
<1>4. queue' \in Seq(1 .. SlotCount)
  <2>1. CASE threadPop
    <3>1. thread = "answered" /\ queue' = Tail(queue)
      BY <2>1 DEF threadPop
    <3>2. queue # <<>>
      BY <3>1 DEF IInv, Kinds, AtWork
    <3>. QED
      BY <1>1, <3>1, <3>2, FrontType
  <2>2. CASE threadClose
    BY <1>1, <2>2 DEF threadClose, PoolOK
  <2>. QED
    BY <2>1, <2>2
<1>5. PoolOK'
  BY <1>1, <1>2, <1>4, PoolFits DEF PoolOK
<1>6. StatesOK'
  <2>1. FlagsOK'
    BY <1>1, <1>2 DEF StatesOK, FlagsOK
  <2>. QED
    BY <1>1, <1>2, <1>3, <2>1 DEF StatesOK
<1>. QED
  BY <1>5, <1>6 DEF TypeOK

LEMMA RecycleType ==
    ASSUME IInv, NEW ok \in BOOLEAN, diRecycle(ok)
    PROVE  /\ TypeOK' /\ Head(queue) \in 1 .. SlotCount /\ queue # <<>>
           /\ ok => /\ buf' = [buf EXCEPT ![Head(queue)] = Unused]
                    /\ open' = open - One(Front.fence) - One(Front.fd)
                    /\ thread' = "answered" /\ refused' = refused
           /\ ~ok => UNCHANGED <<buf, open, thread>> /\ refused' = (refused \/ Front.fence)
<1>1. TypeOK /\ StatesOK /\ PoolOK
  BY DEF IInv, TypeOK
<1>2. /\ kind' = kind /\ has' = has /\ mInited' = mInited /\ mExitThread' = mExitThread /\ reset' = reset
      /\ queue' = queue /\ cur' = cur /\ odd' = odd /\ mNeed_fence' = mNeed_fence /\ dma' = dma
      /\ vinfo' = vinfo /\ backend' = backend /\ loaded' = loaded /\ nn' = nn
      /\ di' = di /\ composer' = composer
  BY DEF diRecycle, life, env
<1>3. queue # <<>>
  BY <1>1 DEF diRecycle, PoolOK
<1>4. /\ Head(queue) \in 1 .. SlotCount /\ Front \in Slot
      /\ Front.fence \in BOOLEAN /\ Front.fd \in BOOLEAN
  BY <1>1, <1>3, FrontType DEF Slot
<1>5. /\ Held(<<Front.fence, Front.fd>>) = One(Front.fence) + One(Front.fd)
      /\ One(Front.fence) \in Nat /\ One(Front.fd) \in Nat
  BY <1>4, HeldFew DEF One
<1>6. CASE ok
  <2>1. /\ open' = open - Held(<<Front.fence, Front.fd>>) /\ buf' = [buf EXCEPT ![Head(queue)] = Unused]
        /\ thread' = "answered" /\ refused' = refused
    BY <1>6 DEF diRecycle
  <2>2. buf' \in [1 .. SlotCount -> Slot]
    BY <1>1, <1>4, <2>1, UnusedType DEF PoolOK
  <2>3. open' = open - One(Front.fence) - One(Front.fd) /\ open' \in Int
    BY <1>1, <1>5, <2>1 DEF StatesOK
  <2>4. PoolOK'
    BY <1>1, <1>2, <2>2, PoolFits DEF PoolOK
  <2>5. FlagsOK'
    BY <1>1, <1>2, <2>1 DEF StatesOK, FlagsOK
  <2>6. StatesOK'
    BY <1>1, <1>2, <2>1, <2>3, <2>5 DEF StatesOK
  <2>. QED
    BY <1>3, <1>4, <1>6, <2>1, <2>3, <2>4, <2>6 DEF TypeOK
<1>7. CASE ~ok
  <2>1. buf' = buf /\ open' = open /\ thread' = thread /\ refused' = (refused \/ Front.fence)
    BY <1>7 DEF diRecycle
  <2>2. PoolOK'
    BY <1>1, <1>2, <2>1, PoolFits DEF PoolOK
  <2>3. FlagsOK'
    BY <1>1, <1>2, <1>4, <2>1 DEF StatesOK, FlagsOK
  <2>4. StatesOK'
    BY <1>1, <1>2, <2>1, <2>3 DEF StatesOK
  <2>. QED
    BY <1>3, <1>4, <1>7, <2>1, <2>2, <2>4 DEF TypeOK
<1>. QED
  BY <1>6, <1>7

-----------------------------------------------------------------------------
(* Each action keeps the invariant                                           *)

LEMMA QuietKeeps == IInv /\ Quiet => IInv'
<1>. SUFFICES ASSUME IInv, Quiet PROVE IInv'
  OBVIOUS
<1>1. TypeOK' /\ StatesOK /\ TypeOK /\ SlotCount' = SlotCount
  <2>1. kind' = kind
    BY DEF Quiet, tearDownProcessors, resetProcessors, StartTeardown, srBypass, srUnsized, srRefuse,
         PqBypass, PqSkip, ColorBypass, ColorSkip, Decode, waitForRoom, threadExit,
         allocThreadProcess,
         LoadNNModel, ai_sr_process, ai_pq_process, ai_color_process, ThreadOnly, pool, life, env,
         runProcessors
  <2>. QED
    BY <2>1, QuietType, SameSlots DEF IInv, TypeOK
<1>2. /\ kind' = kind /\ queue' = queue /\ buf' = buf /\ cur' = cur /\ open' = open /\ di' = di
      /\ refused' = refused /\ has' = has
  BY DEF Quiet, tearDownProcessors, resetProcessors, StartTeardown, srBypass, srUnsized, srRefuse,
         PqBypass, PqSkip, ColorBypass, ColorSkip, Decode, waitForRoom, threadExit,
         allocThreadProcess,
         LoadNNModel, ai_sr_process, ai_pq_process, ai_color_process, ThreadOnly, pool, life, env,
         runProcessors, Composing
<1>3. \/ thread' = thread
      \/ thread = "idle" /\ thread' = "none"
      \/ kind = "sr" /\ thread = "busy" /\ thread' = "answered"
      \/ kind \in {"pq", "color"} /\ thread = "idle" /\ queue # <<>> /\ thread' = "answered"
  BY DEF Quiet, tearDownProcessors, resetProcessors, StartTeardown, srBypass, srUnsized, srRefuse,
         PqBypass, PqSkip, ColorBypass, ColorSkip, Decode, waitForRoom, threadExit,
         allocThreadProcess,
         LoadNNModel, ai_sr_process, ai_pq_process, ai_color_process, ThreadOnly, pool, life, env,
         runProcessors, Composing, Idle
<1>4. \/ composer' = composer /\ mNeed_fence' = mNeed_fence
      \/ has /\ composer = "idle" /\ composer' \in {"leave", "renew"}
      \/ kind = "sr" /\ has /\ composer = "idle" /\ composer' = "show" /\ mNeed_fence' = FALSE
      \/ kind \in {"pq", "color"} /\ has /\ composer = "idle" /\ composer' = "show"
      \/ kind # "di" /\ composer = "wait" /\ composer' = "show" /\ mNeed_fence' = mNeed_fence /\ Len(queue) <= Slots - 1
      \/ kind = "di" /\ composer = "wait" /\ composer' = "idle"
  <2>1. CASE tearDownProcessors \/ resetProcessors
    BY <2>1 DEF tearDownProcessors, resetProcessors, StartTeardown, Composing
  <2>2. CASE \E f \in Frame : srBypass(f) \/ srUnsized(f) \/ srRefuse(f)
    BY <2>2 DEF srBypass, srUnsized, srRefuse, runProcessors, Composing
  <2>3. CASE \E f \in Frame : PqBypass(f) \/ PqSkip(f) \/ ColorBypass(f) \/ ColorSkip(f)
    BY <2>3 DEF PqBypass, PqSkip, ColorBypass, ColorSkip, runProcessors, Composing
  <2>4. CASE waitForRoom
    BY <2>4 DEF waitForRoom, HasRoom, pool
  <2>5. CASE threadExit \/ allocThreadProcess \/ LoadNNModel \/ \E f \in Frame : Decode(f)
    BY <2>5 DEF threadExit, allocThreadProcess, LoadNNModel, Decode, pool
  <2>6. CASE ai_sr_process \/ ai_pq_process \/ ai_color_process
    BY <2>6 DEF ai_sr_process, ai_pq_process, ai_color_process, ThreadOnly, pool
  <2>. QED
    BY <2>1, <2>2, <2>3, <2>4, <2>5, <2>6 DEF Quiet
<1>5. /\ kind \in {"sr", "di"} => AtWork' = AtWork
      /\ Live' = Live /\ (thread' = "popped") = (thread = "popped")
      /\ AtWork' => queue # <<>>
  BY <1>1, <1>2, <1>3, <1>4 DEF AtWork, Live, IInv, Rests, Kinds
<1>6. Rests'
  BY <1>2, <1>3, <1>4, <1>5, <1>1 DEF IInv, Rests
<1>7. Kinds'
  BY <1>2, <1>3, <1>4, <1>5 DEF IInv, Kinds
<1>8. ASSUME kind = "sr" PROVE SrInv'
  <2>1. SrInv /\ Back(1)' = Back(1) /\ \A k : Back(k)' = Back(k)
    BY <1>2, <1>8 DEF IInv, Back
  <2>2. mNeed_fence' /\ composer' \in {"wait", "show"} => cur # 0 /\ ~buf[cur].fence
    BY <1>4, <1>8, <2>1 DEF SrInv
  <2>3. Len(queue) <= Slots /\ (composer' # "wait" => Len(queue) < Slots)
    <3>1. Len(queue) \in Nat /\ Slots \in Nat
      BY <1>1, QueueType, SlotCounts
    <3>. QED
      BY <1>4, <1>8, <2>1, <3>1 DEF SrInv
  <2>. QED
    BY <1>2, <1>5, <1>8, <2>1, <2>2, <2>3 DEF SrInv
<1>9. ASSUME kind = "di" PROVE DiInv'
  <2>1. DiInv /\ Line' = Line
    BY <1>2, <1>5, <1>9 DEF IInv, Line
  <2>2. mNeed_fence' /\ composer' = "show" => mNeed_fence /\ composer = "show"
    BY <1>4, <1>9
  <2>. QED
    BY <1>2, <1>5, <2>1, <2>2 DEF DiInv
<1>10. InSlots(buf)' = InSlots(buf) /\ Kept(di)' = Kept(di) /\ QueuedOpen' = QueuedOpen
  BY <1>2, <1>5 DEF QueuedOpen
<1>. QED
  BY <1>1, <1>2, <1>6, <1>7, <1>8, <1>9, <1>10 DEF IInv

LEMMA SetupKeeps ==
    ASSUME IInv,
           \/ setUpAiSrProcessor \/ setUpAiPqProcessor \/ setUpAiColorProcessor \/ setUpDiProcessor
           \/ setUpAgain
    PROVE  IInv'
<1>1. /\ kind' = kind /\ open' = open /\ refused' = refused
      /\ has' = TRUE /\ composer' \in {"idle", "retry"} /\ (composer' = "retry" => composer = "resetup")
      /\ ~Live
      /\ (kind = "sr" => setupSr) /\ (kind = "di" => setupDi) /\ (kind \in {"pq", "color"} => setupPq)
  <2>1. CASE setUpAiSrProcessor \/ setUpAiPqProcessor \/ setUpAiColorProcessor \/ setUpDiProcessor
    BY <2>1 DEF setUpAiSrProcessor, setUpAiPqProcessor, setUpAiColorProcessor, setUpDiProcessor,
                NewProcessor, Live
  <2>2. CASE setUpAgain
    <3>1. has
      BY <2>2 DEF setUpAgain, IInv, Rests
    <3>. QED
      BY <2>2, <3>1 DEF setUpAgain, setup, Live
  <2>. QED
    BY <2>1, <2>2
<1>2. TypeOK' /\ TypeOK /\ SlotCount' = SlotCount /\ kind \in {"sr", "pq", "color", "di"}
  BY <1>1, SetupType, SameSlots DEF IInv, TypeOK, StatesOK
<1>3. /\ thread = "none" /\ \A i \in 1 .. SlotCount : NoFlags(buf[i])
      /\ ~di.fd /\ ~di.fence /\ ~di.out
      /\ kind # "di" => queue = <<>>
  BY <1>1 DEF IInv, Rests
<1>4. /\ buf' \in {buf, [i \in DOMAIN buf |-> Unused]} /\ thread' = "idle"
      /\ queue' \in {queue, <<>>}
      /\ di' \in {di, [di EXCEPT !.interlaced = FALSE, !.out = FALSE]}
  BY <1>1, <1>2 DEF setupSr, setupPq, setupDi, pool
<1>5. /\ SlotCount \in Nat /\ buf \in [1 .. SlotCount -> Slot] /\ buf' \in [1 .. SlotCount -> Slot]
      /\ di \in DiKeeps /\ di' \in DiKeeps
  BY <1>2, SlotCounts DEF TypeOK, PoolOK, StatesOK
<1>6. \A i \in 1 .. SlotCount : NoFlags(buf'[i])
  BY <1>3, <1>4, <1>5, UnusedType
<1>7. InSlots(buf) = 0 /\ InSlots(buf') = 0
  BY <1>3, <1>5, <1>6, NothingInSlots DEF NoFlags
<1>8. Kept(di') = Kept(di) /\ ~di'.fd /\ ~di'.fence
  <2>1. di'.fd = di.fd /\ di'.fence = di.fence /\ di'.out = di.out /\ di'.layer = di.layer
    BY <1>3, <1>4, <1>5 DEF DiKeeps
  <2>. QED
    BY <1>3, <2>1 DEF Kept
<1>9. QueuedOpen' = QueuedOpen
  BY <1>1, <1>3, <1>4 DEF QueuedOpen
<1>10. ~AtWork' /\ Live'
  BY <1>1, <1>4 DEF AtWork, Live
<1>11. Rests' /\ Kinds'
  BY <1>1, <1>2, <1>4, <1>10, <1>3 DEF Rests, Kinds, IInv, setupSr, setupPq, pool
<1>12. ASSUME kind = "sr" PROVE SrInv'
  <2>1. /\ queue' = <<>> /\ queue = <<>> /\ cur' = 0 /\ mNeed_fence' = FALSE /\ buf' = buf
        /\ SlotCount = Slots /\ Slots \in Nat \ {0}
    BY <1>1, <1>2, <1>3, <1>12, SlotCounts DEF setupSr
  <2>. QED
    BY <2>1, <1>3, <1>12 DEF SrInv, NoFlags
<1>13. kind \in {"pq", "color"} => cur' < Slots
  BY <1>1 DEF setupPq, pool, IInv
<1>14. ASSUME kind = "di" PROVE DiInv'
  <2>1. /\ queue' = <<>> /\ buf' = [i \in DOMAIN buf |-> Unused] /\ mNeed_fence' = FALSE
        /\ SlotCount = DiSlots
    BY <1>1, <1>14, <1>2, SlotCounts DEF setupDi
  <2>2. \A i \in 1 .. DiSlots : NoFlags(buf'[i])
    BY <1>6, <2>1
  <2>3. Line' = {}
    BY <2>1 DEF Line
  <2>. QED
    BY <1>8, <2>1, <2>2, <2>3 DEF DiInv, NoFlags
<1>15. SlotCount = IF kind = "di" THEN DiSlots ELSE Slots
  BY DEF SlotCount
<1>. QED
  BY <1>1, <1>2, <1>6, <1>7, <1>8, <1>9, <1>11, <1>12, <1>13, <1>14, <1>15 DEF IInv

LEMMA Correspond ==
    ASSUME NEW S, NEW T, IsFiniteSet(S), NEW g \in [S -> T],
           \A a, b \in S : g[a] = g[b] => a = b, \A t \in T : \E a \in S : g[a] = t
    PROVE  Cardinality(S) = Cardinality(T)
<1>1. g \in Bijection(S, T)
  BY DEF Bijection, Injection, Surjection, IsInjective
<1>2. ExistsBijection(S, T)
  BY <1>1 DEF ExistsBijection
<1>. QED
  BY <1>2, FS_Bijection

LEMMA RingDistinct ==
    ASSUME NEW n \in Nat, NEW m \in Nat, NEW c \in Nat, NEW j \in 1 .. n, NEW k \in 1 .. n, n <= m, c <= m,
           (IF c > n - j THEN c - (n - j) ELSE c - (n - j) + m)
           = (IF c > n - k THEN c - (n - k) ELSE c - (n - k) + m)
    PROVE  j = k
  OBVIOUS

(* The slots that wait for sr's thread are distinct.                          *)
LEMMA SrDistinct ==
    ASSUME IInv, kind = "sr", NEW j \in DOMAIN queue, NEW k \in DOMAIN queue, queue[j] = queue[k]
    PROVE  j = k
<1>1. TypeOK /\ PoolOK /\ SrInv /\ SlotCount = Slots /\ Slots \in Nat \ {0}
  BY SlotCounts DEF IInv, TypeOK
<1>2. Len(queue) \in Nat /\ DOMAIN queue = 1 .. Len(queue) /\ cur \in 0 .. Slots
  BY <1>1, QueueType DEF PoolOK
<1>3. /\ queue[j] = Back(Len(queue) - j) /\ queue[k] = Back(Len(queue) - k)
      /\ Len(queue) <= Slots
  BY <1>1 DEF SrInv
<1>4. /\ j \in 1 .. Len(queue) /\ k \in 1 .. Len(queue) /\ cur \in Nat /\ cur <= Slots
  BY <1>1, <1>2
<1>5. (IF cur > Len(queue) - j THEN cur - (Len(queue) - j) ELSE cur - (Len(queue) - j) + Slots)
      = (IF cur > Len(queue) - k THEN cur - (Len(queue) - k) ELSE cur - (Len(queue) - k) + Slots)
  BY <1>3 DEF Back
<1>. QED
  BY <1>1, <1>2, <1>3, <1>4, <1>5, RingDistinct

(* Each descriptor of a DI fence that sr holds is in a slot that waits.       *)
LEMMA SrQueued ==
    ASSUME IInv, kind = "sr", thread = "none"
    PROVE  Held([i \in DOMAIN queue |-> buf[queue[i]].input]) = Held([i \in DOMAIN buf |-> buf[i].input])
<1>. DEFINE S == {j \in DOMAIN queue : buf[queue[j]].input}
            T == {i \in DOMAIN buf : buf[i].input}
            g == [j \in S |-> queue[j]]
<1>1. TypeOK /\ SrInv /\ SlotCount = Slots /\ Slots \in Nat
  BY SlotCounts DEF IInv
<1>2. /\ DOMAIN queue = 1 .. Len(queue) /\ Len(queue) \in Nat /\ DOMAIN buf = 1 .. Slots
      /\ \A j \in DOMAIN queue : queue[j] \in 1 .. Slots
  BY <1>1, QueueType
<1>3. IsFiniteSet(S)
  <2>1. IsFiniteSet(1 .. Len(queue)) /\ S \subseteq 1 .. Len(queue)
    BY <1>2, FS_Interval
  <2>. QED
    BY <2>1, FS_Subset
<1>4. g \in [S -> T] /\ \A a, b \in S : g[a] = g[b] => a = b
  BY <1>2, SrDistinct
<1>5. \A t \in T : \E a \in S : g[a] = t
  <2>1. \A t \in T : \E a \in DOMAIN queue : queue[a] = t
    BY <1>1, <1>2 DEF SrInv
  <2>. QED
    BY <2>1
<1>6. Cardinality(S) = Cardinality(T)
  <2>. HIDE DEF S, T, g
  <2>. QED
    BY <1>3, <1>4, <1>5, Correspond
<1>7. Held([i \in DOMAIN queue |-> buf[queue[i]].input]) = Cardinality(S)
      /\ Held([i \in DOMAIN buf |-> buf[i].input]) = Cardinality(T)
  <2>1. /\ {i \in DOMAIN [k \in DOMAIN queue |-> buf[queue[k]].input] : [k \in DOMAIN queue |-> buf[queue[k]].input][i]} = S
        /\ {i \in DOMAIN [k \in DOMAIN buf |-> buf[k].input] : [k \in DOMAIN buf |-> buf[k].input][i]} = T
    OBVIOUS
  <2>. HIDE DEF S, T
  <2>. QED
    BY <2>1 DEF Held
<1>. QED
  BY <1>6, <1>7

LEMMA TeardownKeeps ==
    ASSUME IInv, leave \/ renew
    PROVE  IInv'
<1>1. /\ kind' = kind /\ thread' = thread /\ refused' = refused /\ thread = "none"
      /\ \/ has' = FALSE /\ composer' = "idle"
         \/ has' = has /\ has /\ composer' \in {"setup", "resetup"} /\ (composer' = "resetup" => composer = "again")
      /\ (kind = "sr" => teardownSr) /\ (kind = "di" => teardownDi) /\ (kind \in {"pq", "color"} => teardownPq)
  <2>1. CASE leave
    BY <2>1 DEF leave, Joined, teardown
  <2>2. CASE renew
    <3>1. has
      BY <2>2 DEF renew, IInv, Rests
    <3>. QED
      BY <2>2, <3>1 DEF renew, Joined, teardown
  <2>. QED
    BY <2>1, <2>2
<1>2. TypeOK' /\ TypeOK /\ SlotCount' = SlotCount /\ kind \in {"sr", "pq", "color", "di"}
      /\ SlotCount = IF kind = "di" THEN DiSlots ELSE Slots
  BY <1>1, TeardownType, SameSlots DEF IInv, TypeOK, StatesOK, SlotCount
<1>3. /\ SlotCount \in Nat /\ buf \in [1 .. SlotCount -> Slot] /\ buf' \in [1 .. SlotCount -> Slot]
      /\ di \in DiKeeps /\ di' \in DiKeeps /\ open \in Int
      /\ Len(queue) \in Nat /\ Slots \in Nat \ {0}
  BY <1>2, SlotCounts, QueueType DEF TypeOK, PoolOK, StatesOK
<1>4. ~Live' /\ ~AtWork' /\ ~AtWork
  BY <1>1 DEF Live, AtWork
<1>5. \A i \in 1 .. SlotCount : NoFlags(buf'[i])
  <2>1. CASE kind # "di"
    <3>1. buf' = [i \in DOMAIN buf |-> Unused]
      BY <1>1, <1>2, <2>1 DEF teardownSr, teardownPq
    <3>. QED
      BY <1>3, <3>1, UnusedType
  <2>2. CASE kind = "di"
    <3>1. buf' = [i \in DOMAIN buf |-> IF buf[i].used THEN Unused ELSE buf[i]]
      BY <1>1, <2>2 DEF teardownDi
    <3>2. \A i \in 1 .. SlotCount : ~buf[i].used => NoFlags(buf[i])
      BY <1>2, <2>2 DEF IInv, DiInv
    <3>. QED
      BY <1>3, <3>1, <3>2, UnusedType
  <2>. QED
    BY <2>1, <2>2
<1>6. InSlots(buf') = 0
  BY <1>3, <1>5, NothingInSlots DEF NoFlags
<1>7. kind # "di" => queue' = <<>> /\ di' = di /\ di = NoDi /\ cur' = cur /\ mNeed_fence' = mNeed_fence
  BY <1>1, <1>2 DEF teardownSr, teardownPq, IInv, Kinds
<1>8. kind = "di" => di' = [di EXCEPT !.fd = FALSE, !.fence = FALSE, !.out = FALSE]
  BY <1>1 DEF teardownDi
<1>9. ~di'.fd /\ ~di'.fence /\ ~di'.out
  <2>1. CASE kind # "di"
    BY <1>7, <2>1 DEF NoDi
  <2>2. CASE kind = "di"
    BY <1>3, <1>8, <2>2 DEF DiKeeps
  <2>. QED
    BY <2>1, <2>2
<1>10. Rests' /\ Kinds'
  BY <1>1, <1>2, <1>4, <1>5, <1>7, <1>9 DEF Rests, Kinds, IInv
<1>11. kind = "sr" => SrInv'
  BY <1>1, <1>2, <1>3, <1>5, <1>7 DEF SrInv, NoFlags
<1>12. kind = "di" => DiInv'
  BY <1>1, <1>2, <1>4, <1>5, <1>9 DEF DiInv, NoFlags
<1>13. kind \in {"pq", "color"} => cur' < Slots /\ \A i \in 1 .. Slots : NoFlags(buf'[i])
  BY <1>2, <1>5, <1>7 DEF IInv
<1>14. ASSUME ~refused PROVE open' = InSlots(buf') + Kept(di') + QueuedOpen'
  <2>1. open = InSlots(buf) + Kept(di) + QueuedOpen
    BY <1>14 DEF IInv
  <2>2. QueuedOpen = (IF kind = "di" THEN 0 ELSE Len(queue)) /\ QueuedOpen' = 0
    <3>1. Held(<<FALSE>>) = 0
      BY HeldFew DEF One
    <3>2. <<thread = "popped">> = <<FALSE>> /\ <<thread' = "popped">> = <<FALSE>>
      BY <1>1
    <3>3. Held(<<thread = "popped">>) = 0 /\ Held(<<thread' = "popped">>) = 0
      BY <3>1, <3>2
    <3>4. kind # "di" => Len(queue') = 0
      BY <1>7
    <3>. QED
      BY <1>1, <1>3, <3>3, <3>4 DEF QueuedOpen
  <2>3. /\ Kept(di) = One(di.fd) + One(di.fence) + One(di.out) + One(di.layer)
        /\ Kept(di') = One(di.layer) /\ One(di.layer) \in Nat /\ One(di.fd) \in Nat /\ One(di.fence) \in Nat
        /\ One(di.out) \in Nat
    <3>1. di'.layer = di.layer
      BY <1>2, <1>3, <1>7, <1>8 DEF DiKeeps
    <3>2. One(di'.fd) = 0 /\ One(di'.fence) = 0 /\ One(di'.out) = 0 /\ One(di'.layer) = One(di.layer)
      BY <1>9, <3>1 DEF One
    <3>3. Kept(di') = One(di'.fd) + One(di'.fence) + One(di'.out) + One(di'.layer)
      BY <1>3, KeptType
    <3>4. One(di.layer) \in Nat /\ One(di.fd) \in Nat /\ One(di.fence) \in Nat /\ One(di.out) \in Nat
          /\ Kept(di) = One(di.fd) + One(di.fence) + One(di.out) + One(di.layer)
      BY <1>3, KeptType
    <3>5. Kept(di') = One(di.layer)
      BY <3>2, <3>3, <3>4
    <3>. QED
      BY <3>4, <3>5
  <2>4. CASE kind = "sr"
    <3>1. open' = open - Len(queue)
                    - Held([i \in DOMAIN queue |-> buf[queue[i]].input])
                    - Held([i \in DOMAIN buf |-> buf[i].fence])
                    - Held([i \in DOMAIN buf |-> buf[i].last])
      BY <1>1, <2>4 DEF teardownSr
    <3>2. Held([i \in DOMAIN queue |-> buf[queue[i]].input]) = Held([i \in DOMAIN buf |-> buf[i].input])
      BY <1>1, <2>4, SrQueued
    <3>3. Held([i \in DOMAIN buf |-> buf[i].fd]) = 0
      <4>1. \A i \in 1 .. Slots : ~buf[i].fd
        BY <2>4 DEF IInv, SrInv
      <4>2. {i \in DOMAIN [k \in DOMAIN buf |-> buf[k].fd] : [k \in DOMAIN buf |-> buf[k].fd][i]} = {}
        BY <1>2, <1>3, <2>4, <4>1
      <4>. QED
        BY <4>2, FS_EmptySet DEF Held
    <3>4. Kept(di) = 0 /\ Kept(di') = 0
      BY <1>3, <1>7, <2>3, <2>4 DEF One, NoDi
    <3>5. PICK p \in Nat, q \in Nat, r \in Nat :
              /\ p = Held([i \in DOMAIN buf |-> buf[i].fence]) /\ q = Held([i \in DOMAIN buf |-> buf[i].last])
              /\ r = Held([i \in DOMAIN buf |-> buf[i].input])
      <4>1. /\ Held([i \in DOMAIN buf |-> buf[i].fence]) \in Nat
            /\ Held([i \in DOMAIN buf |-> buf[i].last]) \in Nat
            /\ Held([i \in DOMAIN buf |-> buf[i].input]) \in Nat
        BY <1>2, <3>2, TeardownCounts
      <4>. QED
        BY <4>1
    <3>6. InSlots(buf) = p + q + 0 + r
      BY <3>3, <3>5 DEF InSlots
    <3>7. open' = open - Len(queue) - r - p - q
      BY <3>1, <3>2, <3>5
    <3>. QED
      BY <1>3, <1>6, <2>1, <2>2, <2>4, <3>4, <3>6, <3>7
  <2>5. CASE kind \in {"pq", "color"}
    <3>1. open' = open - Len(queue)
      BY <1>1, <2>5 DEF teardownPq
    <3>2. \A i \in 1 .. SlotCount : NoFlags(buf[i])
      BY <1>2, <2>5 DEF IInv
    <3>3. InSlots(buf) = 0
      BY <1>3, <3>2, NothingInSlots DEF NoFlags
    <3>4. Kept(di) = 0 /\ Kept(di') = 0
      BY <1>3, <1>7, <2>3, <2>5 DEF One, NoDi
    <3>. QED
      BY <1>3, <1>6, <2>1, <2>2, <2>5, <3>1, <3>3, <3>4
  <2>6. CASE kind = "di"
    <3>1. open' = open - Held([i \in DOMAIN buf |-> buf[i].used /\ buf[i].fd])
                    - Held([i \in DOMAIN buf |-> buf[i].used /\ buf[i].fence])
                    - Held(<<di.fd, di.fence, di.out>>)
      BY <1>1, <2>6 DEF teardownDi
    <3>2. /\ \A i \in 1 .. SlotCount : ~buf[i].last /\ ~buf[i].input
          /\ \A i \in 1 .. SlotCount : ~buf[i].used => ~buf[i].fd /\ ~buf[i].fence
      BY <1>2, <2>6 DEF IInv, DiInv, NoFlags
    <3>3. Held([i \in DOMAIN buf |-> buf[i].last]) = 0 /\ Held([i \in DOMAIN buf |-> buf[i].input]) = 0
      <4>1. {i \in DOMAIN [k \in DOMAIN buf |-> buf[k].last] : [k \in DOMAIN buf |-> buf[k].last][i]} = {}
            /\ {i \in DOMAIN [k \in DOMAIN buf |-> buf[k].input] : [k \in DOMAIN buf |-> buf[k].input][i]} = {}
        BY <1>3, <3>2
      <4>. QED
        BY <4>1, FS_EmptySet DEF Held
    <3>4. /\ Held([i \in DOMAIN buf |-> buf[i].used /\ buf[i].fd]) = Held([i \in DOMAIN buf |-> buf[i].fd])
          /\ Held([i \in DOMAIN buf |-> buf[i].used /\ buf[i].fence]) = Held([i \in DOMAIN buf |-> buf[i].fence])
      <4>1. /\ {i \in DOMAIN [k \in DOMAIN buf |-> buf[k].used /\ buf[k].fd] : [k \in DOMAIN buf |-> buf[k].used /\ buf[k].fd][i]}
               = {i \in DOMAIN [k \in DOMAIN buf |-> buf[k].fd] : [k \in DOMAIN buf |-> buf[k].fd][i]}
            /\ {i \in DOMAIN [k \in DOMAIN buf |-> buf[k].used /\ buf[k].fence] : [k \in DOMAIN buf |-> buf[k].used /\ buf[k].fence][i]}
               = {i \in DOMAIN [k \in DOMAIN buf |-> buf[k].fence] : [k \in DOMAIN buf |-> buf[k].fence][i]}
        BY <1>3, <3>2 DEF Slot
      <4>. QED
        BY <4>1 DEF Held
    <3>5. PICK p \in Nat, r \in Nat :
              /\ p = Held([i \in DOMAIN buf |-> buf[i].fence]) /\ r = Held([i \in DOMAIN buf |-> buf[i].fd])
      <4>1. Held([i \in DOMAIN buf |-> buf[i].fence]) \in Nat /\ Held([i \in DOMAIN buf |-> buf[i].fd]) \in Nat
        BY <1>2, <3>4, TeardownCounts
      <4>. QED
        BY <4>1
    <3>6. InSlots(buf) = p + 0 + r + 0
      BY <3>3, <3>5 DEF InSlots
    <3>7. Held(<<di.fd, di.fence, di.out>>) = One(di.fd) + One(di.fence) + One(di.out)
      BY <1>3, KeptType
    <3>8. open' = open - r - p - (One(di.fd) + One(di.fence) + One(di.out))
      BY <3>1, <3>4, <3>5, <3>7
    <3>9. PICK x \in Nat, y \in Nat, z \in Nat, l \in Nat :
              x = One(di.fd) /\ y = One(di.fence) /\ z = One(di.out) /\ l = One(di.layer)
      BY <2>3
    <3>10. /\ open' = open - r - p - (x + y + z) /\ open = (p + 0 + r + 0) + (x + y + z + l) + 0
           /\ Kept(di') = l
      BY <2>1, <2>2, <2>3, <2>6, <3>6, <3>8, <3>9
    <3>. QED
      BY <1>3, <1>6, <2>2, <3>10
  <2>. QED
    BY <1>2, <2>4, <2>5, <2>6
<1>. QED
  BY <1>1, <1>2, <1>10, <1>11, <1>12, <1>13, <1>14 DEF IInv

(* How far the ring turns with a frame.                                       *)
LEMMA RingTurns ==
    ASSUME NEW m \in Nat \ {0}, NEW c \in 1 .. m, NEW k \in 0 .. m - 1, NEW d,
           d = (IF c = m THEN 1 ELSE c + 1)
    PROVE  (IF c > k THEN c - k ELSE c - k + m) = (IF d > k + 1 THEN d - (k + 1) ELSE d - (k + 1) + m)
  OBVIOUS

(* What one slot holds.                                                       *)
LEMMA FlagsOf ==
    ASSUME NEW s \in Slot
    PROVE  /\ Flags(s) = One(s.fence) + One(s.last) + One(s.fd) + One(s.input)
           /\ One(s.fence) \in Nat /\ One(s.last) \in Nat /\ One(s.fd) \in Nat /\ One(s.input) \in Nat
<1>1. /\ Of(s, "fence") = One(s.fence) /\ Of(s, "last") = One(s.last) /\ Of(s, "fd") = One(s.fd)
      /\ Of(s, "input") = One(s.input)
  BY DEF Of, One
<1>. QED
  BY <1>1 DEF Flags, One

LEMMA OneSlot ==
    ASSUME TypeOK, TypeOK', SlotCount' = SlotCount, NEW i \in 1 .. SlotCount, NEW s, buf' = [buf EXCEPT ![i] = s]
    PROVE  /\ InSlots(buf') = InSlots(buf) + Flags(s) - Flags(buf[i])
           /\ InSlots(buf) \in Nat /\ buf[i] \in Slot /\ s \in Slot /\ buf'[i] = s
           /\ \A j \in 1 .. SlotCount \ {i} : buf'[j] = buf[j]
<1>1. buf \in [1 .. SlotCount -> Slot] /\ buf' \in [1 .. SlotCount -> Slot] /\ SlotCount \in Nat
  BY SlotCounts DEF TypeOK, PoolOK
<1>2. PICK n \in Nat : n = SlotCount
  BY <1>1
<1>3. PICK b \in [1 .. n -> Slot], c \in [1 .. n -> Slot], k \in 1 .. n : b = buf /\ c = buf' /\ k = i
  BY <1>1, <1>2
<1>4. c[k] = s /\ \A j \in 1 .. n \ {k} : c[j] = b[j]
  BY <1>2, <1>3
<1>5. InSlots(c) = InSlots(b) + Flags(c[k]) - Flags(b[k]) /\ InSlots(b) \in Nat
  BY <1>4, SlotChanges
<1>. QED
  BY <1>2, <1>3, <1>4, <1>5

LEMMA SrQueueKeeps ==
    ASSUME IInv, NEW f \in Frame, srQueue(f)
    PROVE  IInv'
<1>1. /\ kind = "sr" /\ kind' = kind /\ thread' = thread /\ refused' = refused /\ has' = has /\ has
      /\ mNeed_fence' = TRUE /\ composer = "idle" /\ composer' = "wait" /\ di' = di
      /\ queue' = Append(queue, cur')
  BY DEF srQueue, runProcessors, Composing
<1>2. TypeOK' /\ TypeOK /\ SrInv /\ cur' = (IF cur = Slots THEN 1 ELSE cur + 1) /\ cur' \in 1 .. SlotCount
      /\ SlotCount = Slots /\ SlotCount' = SlotCount /\ Slots \in Nat \ {0}
  BY <1>1, SrQueueType, SlotCounts, SameSlots DEF IInv
<1>3. PICK fence \in BOOLEAN :
          /\ buf' = [buf EXCEPT ![cur'] = [@ EXCEPT !.frame = f, !.last = buf[cur'].fence,
                                                  !.fence = FALSE, !.input = fence]]
          /\ open' = open + 1 + One(fence)
  BY SrQueueType
<1>4. /\ Len(queue) \in Nat /\ DOMAIN queue = 1 .. Len(queue) /\ cur \in 0 .. Slots
      /\ buf \in [1 .. Slots -> Slot] /\ buf' \in [1 .. Slots -> Slot] /\ open \in Int
      /\ Len(queue) < Slots
  BY <1>1, <1>2, QueueType DEF TypeOK, PoolOK, StatesOK, SrInv
<1>5. /\ Len(queue') = Len(queue) + 1 /\ DOMAIN queue' = 1 .. Len(queue) + 1
      /\ \A j \in 1 .. Len(queue) : queue'[j] = queue[j]
      /\ queue'[Len(queue) + 1] = cur'
  BY <1>1, <1>2, <1>4 DEF TypeOK, PoolOK
<1>6. \A j \in DOMAIN queue' : queue'[j] = (IF cur' > Len(queue') - j THEN cur' - (Len(queue') - j)
                                            ELSE cur' - (Len(queue') - j) + Slots)
  <2>. TAKE j \in DOMAIN queue'
  <2>1. CASE j = Len(queue) + 1
    BY <1>2, <1>4, <1>5, <2>1
  <2>2. CASE j \in 1 .. Len(queue)
    <3>1. cur \in 1 .. Slots
      BY <1>2, <1>4, <2>2 DEF SrInv
    <3>2. queue[j] = (IF cur > Len(queue) - j THEN cur - (Len(queue) - j) ELSE cur - (Len(queue) - j) + Slots)
      BY <1>2, <1>4, <2>2 DEF SrInv, Back
    <3>3. Len(queue) - j \in 0 .. Slots - 1 /\ (Len(queue) - j) + 1 = Len(queue') - j
      BY <1>4, <1>5, <2>2, <1>2
    <3>4. queue[j] = (IF cur' > (Len(queue) - j) + 1 THEN cur' - ((Len(queue) - j) + 1)
                                            ELSE cur' - ((Len(queue) - j) + 1) + Slots)
      <4>1. PICK c \in 1 .. Slots, k \in 0 .. Slots - 1 : c = cur' /\ k = Len(queue) - j
        BY <1>2, <3>3
      <4>2. (IF cur > k THEN cur - k ELSE cur - k + Slots)
            = (IF c > k + 1 THEN c - (k + 1) ELSE c - (k + 1) + Slots)
        BY <1>2, <3>1, <4>1, RingTurns
      <4>. QED
        BY <3>2, <4>1, <4>2
    <3>. QED
      BY <1>5, <2>2, <3>3, <3>4
  <2>. QED
    BY <1>4, <1>5, <2>1, <2>2
<1>7. \A j \in DOMAIN queue : queue[j] # cur'
  <2>. SUFFICES ASSUME NEW j \in DOMAIN queue, queue[j] = cur' PROVE FALSE
    OBVIOUS
  <2>1. /\ j \in 1 .. Len(queue) + 1 /\ Len(queue) + 1 \in 1 .. Len(queue) + 1 /\ Len(queue) + 1 \in Nat
        /\ Len(queue) + 1 <= Slots /\ cur' \in Nat /\ cur' <= Slots /\ queue'[j] = queue'[Len(queue) + 1]
    BY <1>2, <1>4, <1>5
  <2>2. (IF cur' > Len(queue) + 1 - j THEN cur' - (Len(queue) + 1 - j) ELSE cur' - (Len(queue) + 1 - j) + Slots)
        = (IF cur' > Len(queue) + 1 - (Len(queue) + 1) THEN cur' - (Len(queue) + 1 - (Len(queue) + 1))
           ELSE cur' - (Len(queue) + 1 - (Len(queue) + 1)) + Slots)
    BY <1>5, <1>6, <2>1
  <2>3. j = Len(queue) + 1
    BY <1>2, <2>1, <2>2, RingDistinct
  <2>. QED
    BY <1>4, <2>3
<1>8. ~buf[cur'].last /\ ~buf[cur'].input /\ ~buf[cur'].fd
  BY <1>2, <1>7 DEF SrInv
<1>9. /\ buf[cur'] \in Slot /\ buf'[cur'] \in Slot
      /\ buf'[cur'].last = buf[cur'].fence /\ buf'[cur'].fence = FALSE /\ buf'[cur'].input = fence
      /\ buf'[cur'].fd = FALSE
      /\ \A i \in 1 .. Slots \ {cur'} : buf'[i] = buf[i]
  BY <1>2, <1>3, <1>4, <1>8 DEF Slot
<1>10. AtWork' = AtWork /\ (AtWork => queue # <<>>) /\ Live'
  BY <1>1 DEF AtWork, Live, IInv, Kinds
<1>11. Rests' /\ Kinds'
  <2>1. queue' # <<>>
    BY <1>5, <1>4
  <2>. QED
    BY <1>1, <1>10, <2>1 DEF Rests, Kinds, IInv
<1>12. SrInv'
  <2>1. \A i \in 1 .. Slots : ~buf'[i].fd
    BY <1>2, <1>9 DEF SrInv
  <2>2. Len(queue') <= Slots /\ composer' = "wait" /\ cur' # 0
    BY <1>1, <1>2, <1>4, <1>5
  <2>3. \A j \in DOMAIN queue' : (queue[j] = Back(Len(queue) - j))'
    BY <1>2, <1>6 DEF Back
  <2>4. ASSUME NEW i \in 1 .. Slots, buf'[i].last \/ buf'[i].input
        PROVE  \E j \in DOMAIN queue' : queue'[j] = i /\ (AtWork' => j # 1)
    <3>1. CASE i = cur'
      <4>1. Len(queue) + 1 \in DOMAIN queue' /\ queue'[Len(queue) + 1] = i
        BY <1>4, <1>5, <3>1
      <4>2. AtWork => Len(queue) + 1 # 1
        BY <1>4, <1>10, <1>2 DEF TypeOK, PoolOK
      <4>. QED
        BY <1>10, <4>1, <4>2
    <3>2. CASE i # cur'
      <4>1. PICK j \in DOMAIN queue : queue[j] = i /\ (AtWork => j # 1)
        BY <1>2, <1>9, <2>4, <3>2 DEF SrInv
      <4>2. j \in DOMAIN queue' /\ queue'[j] = i
        BY <1>4, <1>5, <4>1
      <4>. QED
        BY <1>10, <4>1, <4>2
    <3>. QED
      BY <3>1, <3>2
  <2>. QED
    BY <1>9, <2>1, <2>2, <2>3, <2>4 DEF SrInv
<1>13. ASSUME ~refused PROVE open' = InSlots(buf') + Kept(di') + QueuedOpen'
  <2>1. open = InSlots(buf) + Kept(di) + QueuedOpen
    BY <1>13 DEF IInv
  <2>2. InSlots(buf') = InSlots(buf) + Flags(buf'[cur']) - Flags(buf[cur']) /\ InSlots(buf) \in Nat
    <3>1. PICK b \in [1 .. Slots -> Slot], c \in [1 .. Slots -> Slot], i \in 1 .. Slots :
              b = buf /\ c = buf' /\ i = cur'
      BY <1>2, <1>4
    <3>2. Slots \in Nat /\ \A j \in 1 .. Slots \ {i} : c[j] = b[j]
      BY <1>2, <1>9, <3>1
    <3>3. InSlots(c) = InSlots(b) + Flags(c[i]) - Flags(b[i]) /\ InSlots(b) \in Nat
      BY <3>2, SlotChanges
    <3>. QED
      BY <3>1, <3>3
  <2>3. /\ Flags(buf'[cur']) = One(FALSE) + One(buf[cur'].fence) + One(FALSE) + One(fence)
        /\ Flags(buf[cur']) = One(buf[cur'].fence) + One(FALSE) + One(FALSE) + One(FALSE)
        /\ One(FALSE) = 0 /\ One(fence) \in Nat /\ One(buf[cur'].fence) \in Nat
    <3>1. buf[cur'].last = FALSE /\ buf[cur'].input = FALSE /\ buf[cur'].fd = FALSE
      BY <1>8, <1>9 DEF Slot
    <3>. QED
      BY <1>9, <3>1, FlagsOf DEF One
  <2>4. InSlots(buf') = InSlots(buf) + One(fence)
    <3>1. PICK p \in Nat, q \in Nat, r \in Nat : p = InSlots(buf) /\ q = One(fence) /\ r = One(buf[cur'].fence)
      BY <2>2, <2>3
    <3>2. Flags(buf'[cur']) = 0 + r + 0 + q /\ Flags(buf[cur']) = r + 0 + 0 + 0
      BY <2>3, <3>1
    <3>3. InSlots(buf') = p + (0 + r + 0 + q) - (r + 0 + 0 + 0)
      BY <2>2, <3>1, <3>2
    <3>. QED
      BY <3>1, <3>3
  <2>5. QueuedOpen' = QueuedOpen + 1 /\ QueuedOpen \in Nat
    <3>1. Held(<<thread = "popped">>) \in Nat
      BY FewType
    <3>2. QueuedOpen = Len(queue) + Held(<<thread = "popped">>)
      BY <1>1 DEF QueuedOpen
    <3>3. QueuedOpen' = Len(queue') + Held(<<thread = "popped">>)
      BY <1>1 DEF QueuedOpen
    <3>. QED
      BY <1>4, <1>5, <3>1, <3>2, <3>3
  <2>6. Kept(di') = Kept(di) /\ Kept(di) \in Nat
    BY <1>1, <1>2, KeptType DEF TypeOK, StatesOK
  <2>7. PICK p \in Nat, q \in Nat, r \in Nat, k \in Nat :
            p = InSlots(buf) /\ q = One(fence) /\ r = QueuedOpen /\ k = Kept(di)
    BY <2>2, <2>3, <2>5, <2>6
  <2>8. open = p + k + r /\ open' = open + 1 + q /\ InSlots(buf') = p + q /\ QueuedOpen' = r + 1 /\ Kept(di') = k
    BY <1>3, <2>1, <2>4, <2>5, <2>6, <2>7
  <2>9. open' = p + q + k + (r + 1)
    BY <2>8
  <2>. QED
    BY <2>8, <2>9
<1>. QED
  BY <1>1, <1>2, <1>11, <1>12, <1>13 DEF IInv

LEMMA CacheKeeps ==
    ASSUME IInv, NEW f \in Frame, PqQueue(f) \/ ColorQueue(f)
    PROVE  IInv'
<1>1. /\ kind \in {"pq", "color"} /\ kind' = kind /\ thread' = thread /\ refused' = refused
      /\ has' = has /\ has /\ composer' = "wait" /\ di' = di
      /\ queue' = Append(queue, cur + 1) /\ open' = open + 1 /\ buf' = [buf EXCEPT ![cur + 1].frame = f]
  BY DEF PqQueue, ColorQueue, CacheFrame, runProcessors, Composing
<1>2. /\ TypeOK /\ TypeOK' /\ cur' \in 0 .. Slots - 1 /\ cur + 1 \in 1 .. Slots /\ SlotCount = Slots
      /\ SlotCount' = SlotCount /\ Slots \in Nat
  BY <1>1, CacheType, SlotCounts, SameSlots DEF IInv
<1>3. /\ buf \in [1 .. Slots -> Slot] /\ buf' \in [1 .. Slots -> Slot] /\ open \in Int
      /\ Len(queue) \in Nat
  BY <1>2, QueueType DEF TypeOK, PoolOK, StatesOK
<1>4. \A i \in 1 .. Slots : NoFlags(buf[i])
  BY <1>1 DEF IInv
<1>5. \A i \in 1 .. Slots : NoFlags(buf'[i])
  BY <1>1, <1>2, <1>3, <1>4 DEF NoFlags, Slot
<1>6. InSlots(buf) = 0 /\ InSlots(buf') = 0
  BY <1>2, <1>3, <1>4, <1>5, NothingInSlots DEF NoFlags
<1>7. Len(queue') = Len(queue) + 1 /\ queue' # <<>>
  BY <1>1, <1>2, <1>3 DEF TypeOK, PoolOK
<1>8. Rests' /\ Kinds'
  BY <1>1, <1>7 DEF Rests, Kinds, Live, AtWork, IInv
<1>9. ASSUME ~refused PROVE open' = InSlots(buf') + Kept(di') + QueuedOpen'
  <2>1. open = InSlots(buf) + Kept(di) + QueuedOpen
    BY <1>9 DEF IInv
  <2>2. Kept(di') = Kept(di) /\ Kept(di) \in Nat
    BY <1>1, <1>2, KeptType DEF TypeOK, StatesOK
  <2>3. QueuedOpen = Len(queue) + Held(<<thread = "popped">>)
        /\ QueuedOpen' = Len(queue') + Held(<<thread = "popped">>) /\ Held(<<thread = "popped">>) \in Nat
    BY <1>1, FewType DEF QueuedOpen
  <2>. QED
    BY <1>1, <1>3, <1>6, <1>7, <2>1, <2>2, <2>3
<1>. QED
  BY <1>1, <1>2, <1>5, <1>8, <1>9 DEF IInv

LEMMA DisplayedKeeps ==
    ASSUME IInv, onBufferDisplayed
    PROVE  IInv'
<1>1. /\ kind # "di" /\ kind' = kind /\ has' = has /\ queue' = queue /\ cur' = cur /\ mNeed_fence' = mNeed_fence
      /\ thread' = thread /\ di' = di /\ refused' = refused /\ composer' = "idle" /\ composer = "show"
  BY DEF onBufferDisplayed, life, env
<1>2. TypeOK /\ TypeOK' /\ SlotCount' = SlotCount /\ SlotCount = Slots /\ kind \in {"sr", "pq", "color"} /\ has
      /\ Slots \in Nat
  BY <1>1, DisplayedType, SlotCounts, SameSlots DEF IInv, TypeOK, StatesOK, Rests
<1>3. Live' = Live /\ Live /\ AtWork' = AtWork /\ QueuedOpen' = QueuedOpen /\ Kept(di') = Kept(di)
  BY <1>1, <1>2 DEF Live, AtWork, QueuedOpen
<1>4. Rests' /\ Kinds'
  BY <1>1, <1>2, <1>3 DEF Rests, Kinds, IInv
<1>5. CASE kind = "sr" /\ mNeed_fence
  <2>1. PICK release \in BOOLEAN : buf' = [buf EXCEPT ![cur].fence = release] /\ open' = open + One(release)
    BY <1>5, DisplayedType
  <2>2. cur \in 1 .. SlotCount /\ ~buf[cur].fence /\ SrInv
    BY <1>1, <1>5, DisplayedType DEF IInv, SrInv
  <2>3. buf' = [buf EXCEPT ![cur] = [@ EXCEPT !.fence = release]]
    BY <2>1
  <2>4. /\ InSlots(buf') = InSlots(buf) + Flags([buf[cur] EXCEPT !.fence = release]) - Flags(buf[cur])
        /\ InSlots(buf) \in Nat /\ buf[cur] \in Slot /\ [buf[cur] EXCEPT !.fence = release] \in Slot
        /\ buf'[cur] = [buf[cur] EXCEPT !.fence = release]
        /\ \A j \in 1 .. SlotCount \ {cur} : buf'[j] = buf[j]
    BY <1>2, <2>2, <2>3, OneSlot
  <2>5. /\ buf'[cur].fence = release /\ buf'[cur].last = buf[cur].last /\ buf'[cur].fd = buf[cur].fd
        /\ buf'[cur].input = buf[cur].input /\ buf[cur].fence = FALSE
    BY <2>2, <2>4 DEF Slot
  <2>6. /\ Flags([buf[cur] EXCEPT !.fence = release]) = Flags(buf[cur]) + One(release) /\ Flags(buf[cur]) \in Nat
        /\ One(release) \in Nat
    <3>1. One(buf[cur].fence) = 0
      BY <2>5 DEF One
    <3>2. Flags(buf[cur]) = One(buf[cur].fence) + One(buf[cur].last) + One(buf[cur].fd) + One(buf[cur].input)
          /\ One(buf[cur].last) \in Nat /\ One(buf[cur].fd) \in Nat /\ One(buf[cur].input) \in Nat
      BY <2>4, FlagsOf
    <3>3. Flags(buf'[cur]) = One(release) + One(buf[cur].last) + One(buf[cur].fd) + One(buf[cur].input)
      BY <2>4, <2>5, FlagsOf
    <3>4. One(release) \in Nat
      BY DEF One
    <3>5. PICK p \in Nat, q \in Nat, r \in Nat, x \in Nat :
              p = One(buf[cur].last) /\ q = One(buf[cur].fd) /\ r = One(buf[cur].input) /\ x = One(release)
      BY <3>2, <3>4
    <3>6. Flags(buf[cur]) = 0 + p + q + r /\ Flags(buf'[cur]) = x + p + q + r
      BY <3>1, <3>2, <3>3, <3>5
    <3>. QED
      BY <2>4, <3>5, <3>6
  <2>7. SrInv'
    <3>1. \A i \in 1 .. Slots : buf'[i].fd = buf[i].fd /\ buf'[i].last = buf[i].last /\ buf'[i].input = buf[i].input
      BY <1>2, <2>4, <2>5
    <3>2. \A k : Back(k)' = Back(k)
      BY <1>1 DEF Back
    <3>3. Len(queue) < Slots
      BY <1>1, <2>2 DEF SrInv
    <3>4. \A j \in DOMAIN queue : queue[j] = Back(Len(queue) - j)
      BY <2>2 DEF SrInv
    <3>5. \A i \in 1 .. Slots : buf'[i].last \/ buf'[i].input =>
              \E j \in DOMAIN queue : queue[j] = i /\ (AtWork => j # 1)
      BY <2>2, <3>1 DEF SrInv
    <3>. QED
      BY <1>1, <1>3, <2>2, <3>1, <3>2, <3>3, <3>4, <3>5 DEF SrInv
  <2>8. ASSUME ~refused PROVE open' = InSlots(buf') + Kept(di') + QueuedOpen'
    <3>1. open = InSlots(buf) + Kept(di) + QueuedOpen
      BY <2>8 DEF IInv
    <3>2. Kept(di) \in Nat /\ QueuedOpen \in Nat
      BY <1>2, OpenTypes
    <3>3. PICK p \in Nat, q \in Nat, r \in Nat, x \in Nat, y \in Nat :
              p = InSlots(buf) /\ q = Kept(di) /\ r = QueuedOpen /\ x = One(release) /\ y = Flags(buf[cur])
      BY <2>4, <2>6, <3>2
    <3>4. open = p + q + r /\ open' = open + x /\ InSlots(buf') = p + (y + x) - y
      BY <2>1, <2>4, <2>6, <3>1, <3>3
    <3>. QED
      BY <1>3, <3>3, <3>4
  <2>. QED
    BY <1>1, <1>2, <1>4, <1>5, <2>7, <2>8 DEF IInv
<1>6. CASE ~(kind = "sr" /\ mNeed_fence)
  <2>1. buf' = buf /\ open' = open
    BY <1>6, DisplayedType
  <2>2. ASSUME kind = "sr" PROVE SrInv'
    <3>1. SrInv /\ \A k : Back(k)' = Back(k)
      BY <1>1, <2>2 DEF Back, IInv
    <3>. QED
      BY <1>1, <1>3, <1>6, <2>1, <2>2, <3>1 DEF SrInv
  <2>3. InSlots(buf') = InSlots(buf)
    BY <2>1
  <2>. QED
    BY <1>1, <1>2, <1>3, <1>4, <2>1, <2>2, <2>3 DEF IInv
<1>. QED
  BY <1>5, <1>6

LEMMA StartKeeps ==
    ASSUME IInv, srStart
    PROVE  IInv'
<1>1. /\ kind = "sr" /\ kind' = kind /\ has' = has /\ queue' = queue /\ cur' = cur /\ mNeed_fence' = mNeed_fence
      /\ di' = di /\ refused' = refused /\ composer' = composer /\ queue # <<>> /\ thread = "idle"
  BY DEF srStart, ThreadOnly, life, env, Idle
<1>2. /\ TypeOK /\ TypeOK' /\ SlotCount' = SlotCount /\ SlotCount = Slots /\ SrInv
      /\ Head(queue) \in 1 .. SlotCount /\ Front = buf[Head(queue)] /\ Head(queue) = queue[1]
      /\ buf' = [buf EXCEPT ![Head(queue)] = [@ EXCEPT !.input = FALSE, !.last = FALSE]]
      /\ open' = open - One(Front.input) - One(Front.last)
      /\ thread' \in {"busy", "answered"}
  BY <1>1, StartType, FrontType, SlotCounts, SameSlots DEF IInv
<1>3. AtWork' /\ Live /\ Live' /\ thread' # "popped"
  BY <1>1, <1>2 DEF AtWork, Live, IInv, Rests
<1>4. Rests' /\ Kinds'
  BY <1>1, <1>2, <1>3 DEF Rests, Kinds, IInv
<1>5. PICK h \in 1 .. SlotCount : h = Head(queue)
  BY <1>2
<1>6. buf' = [buf EXCEPT ![h] = [buf[h] EXCEPT !.input = FALSE, !.last = FALSE]]
  BY <1>2, <1>5
<1>7. /\ InSlots(buf') = InSlots(buf) + Flags(buf'[h]) - Flags(buf[h])
      /\ buf[h] \in Slot /\ buf'[h] = [buf[h] EXCEPT !.input = FALSE, !.last = FALSE] /\ buf'[h] \in Slot
      /\ \A j \in 1 .. SlotCount \ {h} : buf'[j] = buf[j]
  <2>1. PICK s : s = [buf[h] EXCEPT !.input = FALSE, !.last = FALSE]
    OBVIOUS
  <2>2. buf' = [buf EXCEPT ![h] = s]
    BY <1>6, <2>1
  <2>3. /\ InSlots(buf') = InSlots(buf) + Flags(s) - Flags(buf[h])
        /\ buf[h] \in Slot /\ s \in Slot /\ buf'[h] = s
        /\ \A j \in 1 .. SlotCount \ {h} : buf'[j] = buf[j]
    BY <1>2, <2>2, OneSlot
  <2>. QED
    BY <2>1, <2>3
<1>8. /\ buf'[h].fence = buf[h].fence /\ buf'[h].last = FALSE /\ buf'[h].fd = buf[h].fd /\ buf'[h].input = FALSE
  BY <1>7 DEF Slot
<1>9. SrInv'
  <2>1. \A i \in 1 .. Slots : /\ buf'[i].fd = buf[i].fd /\ buf'[i].fence = buf[i].fence
                              /\ buf'[i].last \/ buf'[i].input => i # h /\ (buf[i].last \/ buf[i].input)
    BY <1>2, <1>7, <1>8
  <2>2. \A i \in 1 .. Slots : buf'[i].last \/ buf'[i].input => \E j \in DOMAIN queue : queue[j] = i /\ j # 1
    BY <1>2, <1>5, <2>1 DEF SrInv
  <2>3. mNeed_fence /\ composer \in {"wait", "show"} => cur # 0 /\ ~buf'[cur].fence
    <3>1. cur \in 0 .. Slots
      BY <1>2 DEF TypeOK, PoolOK
    <3>. QED
      BY <1>2, <2>1, <3>1 DEF SrInv
  <2>4. \A k : Back(k)' = Back(k)
    BY <1>1 DEF Back
  <2>5. \A i \in 1 .. Slots : ~buf'[i].fd
    BY <1>2, <2>1 DEF SrInv
  <2>6. \A j \in DOMAIN queue : queue[j] = Back(Len(queue) - j)
    BY <1>2 DEF SrInv
  <2>7. Len(queue) <= Slots /\ (composer # "wait" => Len(queue) < Slots) /\ (cur = 0 => queue = <<>>)
    BY <1>2 DEF SrInv
  <2>. QED
    BY <1>1, <2>2, <2>3, <2>4, <2>5, <2>6, <2>7 DEF SrInv
<1>10. ASSUME ~refused PROVE open' = InSlots(buf') + Kept(di') + QueuedOpen'
  <2>1. open = InSlots(buf) + Kept(di) + QueuedOpen
    BY <1>10 DEF IInv
  <2>2. QueuedOpen' = QueuedOpen
    <3>1. <<thread = "popped">> = <<FALSE>> /\ <<thread' = "popped">> = <<FALSE>>
      BY <1>1, <1>3
    <3>. QED
      BY <1>1, <3>1 DEF QueuedOpen
  <2>3. /\ Flags(buf[h]) = One(buf[h].fence) + One(buf[h].last) + One(buf[h].fd) + One(buf[h].input)
        /\ Flags(buf'[h]) = One(buf[h].fence) + 0 + One(buf[h].fd) + 0
        /\ One(buf[h].fence) \in Nat /\ One(buf[h].last) \in Nat /\ One(buf[h].fd) \in Nat /\ One(buf[h].input) \in Nat
    <3>1. One(FALSE) = 0
      BY DEF One
    <3>. QED
      BY <1>7, <1>8, <3>1, FlagsOf
  <2>4. PICK p \in Nat, q \in Nat, r \in Nat, x \in Nat, y \in Nat, z \in Nat, w \in Nat :
            /\ p = InSlots(buf) /\ q = Kept(di) /\ r = QueuedOpen /\ x = One(buf[h].fence)
            /\ y = One(buf[h].last) /\ z = One(buf[h].fd) /\ w = One(buf[h].input)
    BY <1>2, <2>3, OpenTypes
  <2>5. /\ open = p + q + r /\ open' = open - w - y /\ InSlots(buf') = p + (x + 0 + z + 0) - (x + y + z + w)
        /\ Kept(di') = q /\ QueuedOpen' = r
    BY <1>1, <1>2, <1>5, <1>7, <2>1, <2>2, <2>3, <2>4
  <2>6. p + q + r - w - y = (p + (x + 0 + z + 0) - (x + y + z + w)) + q + r
    OBVIOUS
  <2>. QED
    BY <2>5, <2>6
<1>. QED
  BY <1>1, <1>2, <1>4, <1>9, <1>10 DEF IInv

LEMMA PopKeeps ==
    ASSUME IInv, threadPop
    PROVE  IInv'
<1>1. /\ kind' = kind /\ has' = has /\ queue' = Tail(queue) /\ cur' = cur /\ mNeed_fence' = mNeed_fence
      /\ di' = di /\ refused' = refused /\ composer' = composer /\ thread = "answered" /\ buf' = buf /\ open' = open
      /\ thread' = IF kind = "di" THEN "idle" ELSE "popped"
  BY DEF threadPop, ThreadOnly, life, env
<1>2. AtWork /\ ~AtWork' /\ queue # <<>> /\ Live /\ Live'
  BY <1>1 DEF AtWork, IInv, Kinds, Rests, Live
<1>3. /\ TypeOK /\ TypeOK' /\ SlotCount' = SlotCount
      /\ Len(queue') = Len(queue) - 1 /\ \A j \in 1 .. Len(queue) - 1 : queue'[j] = queue[j + 1]
      /\ Len(queue) \in Nat \ {0} /\ DOMAIN queue = 1 .. Len(queue) /\ DOMAIN queue' = 1 .. Len(queue) - 1
      /\ Slots \in Nat
  <2>1. TypeOK /\ TypeOK' /\ SlotCount' = SlotCount /\ Slots \in Nat
    BY <1>1, PopType, SlotCounts, SameSlots DEF IInv
  <2>2. queue' = Tail(queue) /\ Len(queue') = Len(queue) - 1 /\ \A j \in 1 .. Len(queue) - 1 : queue'[j] = queue[j + 1]
    BY <1>1, <1>2, <2>1, FrontType
  <2>3. queue \in Seq(1 .. SlotCount) /\ queue' \in Seq(1 .. SlotCount)
    BY <1>1, <1>2, <2>1, FrontType DEF TypeOK, PoolOK
  <2>4. Len(queue) \in Nat \ {0} /\ DOMAIN queue = 1 .. Len(queue) /\ DOMAIN queue' = 1 .. Len(queue')
    BY <1>2, <2>3
  <2>. QED
    BY <2>1, <2>2, <2>4
<1>4. Rests' /\ Kinds'
  BY <1>1, <1>2 DEF Rests, Kinds, IInv
<1>5. ASSUME kind = "sr" PROVE SrInv'
  <2>1. SrInv /\ \A k : Back(k)' = Back(k)
    BY <1>1, <1>5 DEF Back, IInv
  <2>2. Len(queue') < Slots
    BY <1>3, <2>1 DEF SrInv
  <2>3. cur # 0
    BY <1>2, <2>1 DEF SrInv
  <2>4. \A j \in DOMAIN queue' : queue'[j] = Back(Len(queue') - j)
    <3>. TAKE j \in DOMAIN queue'
    <3>1. j + 1 \in DOMAIN queue /\ queue'[j] = queue[j + 1] /\ Len(queue) - (j + 1) = Len(queue') - j
      BY <1>3
    <3>2. queue[j + 1] = Back(Len(queue) - (j + 1))
      BY <2>1, <3>1 DEF SrInv
    <3>. QED
      BY <3>1, <3>2
  <2>5. ASSUME NEW i \in 1 .. Slots, buf[i].last \/ buf[i].input
        PROVE  \E j \in DOMAIN queue' : queue'[j] = i
    <3>1. PICK j \in DOMAIN queue : queue[j] = i /\ j # 1
      BY <1>2, <2>1, <2>5 DEF SrInv
    <3>2. j - 1 \in DOMAIN queue' /\ queue'[j - 1] = i
      BY <1>3, <3>1
    <3>. QED
      BY <3>2
  <2>6. /\ \A i \in 1 .. Slots : ~buf[i].fd
        /\ mNeed_fence /\ composer \in {"wait", "show"} => cur # 0 /\ ~buf[cur].fence
    BY <2>1 DEF SrInv
  <2>7. Len(queue') <= Slots
    BY <1>3, <2>2
  <2>. QED
    BY <1>1, <1>2, <2>1, <2>2, <2>3, <2>4, <2>5, <2>6, <2>7 DEF SrInv
<1>6. ASSUME kind = "di" PROVE DiInv'
  <2>1. DiInv
    BY <1>6 DEF IInv
  <2>2. \A p \in Line' : p + 1 \in Line /\ queue'[p] = queue[p + 1] /\ p \in Nat
    BY <1>2, <1>3 DEF Line
  <2>3. (\A p \in Line : buf[queue[p]].used) /\ (\A p, q \in Line : queue[p] = queue[q] => p = q)
        /\ (mNeed_fence /\ composer = "show" =>
               /\ cur # 0 /\ buf[cur].used /\ ~buf[cur].fence
               /\ \A p \in Line : queue[p] # cur)
    BY <1>2, <2>1 DEF DiInv
  <2>4. (\A p \in Line' : buf[queue'[p]].used) /\ (\A p \in Line' : queue'[p] \in {queue[q] : q \in Line})
    BY <2>2, <2>3
  <2>5. \A p, q \in Line' : queue'[p] = queue'[q] => p = q
    BY <2>2, <2>3
  <2>6. mNeed_fence /\ composer = "show" => \A p \in Line' : queue'[p] # cur
    BY <2>3, <2>4
  <2>. QED
    BY <1>1, <1>2, <2>1, <2>3, <2>4, <2>5, <2>6 DEF DiInv
<1>7. InSlots(buf') = InSlots(buf) /\ Kept(di') = Kept(di)
  BY <1>1
<1>8. QueuedOpen' = QueuedOpen
  <2>1. CASE kind = "di"
    BY <1>1, <2>1 DEF QueuedOpen
  <2>2. CASE kind # "di"
    <3>1. <<thread = "popped">> = <<FALSE>> /\ <<thread' = "popped">> = <<TRUE>>
      BY <1>1, <2>2
    <3>2. Held(<<FALSE>>) = 0 /\ Held(<<TRUE>>) = 1
      BY HeldFew DEF One
    <3>3. QueuedOpen = Len(queue) + 0 /\ QueuedOpen' = Len(queue') + 1
      BY <1>1, <2>2, <3>1, <3>2 DEF QueuedOpen
    <3>. QED
      BY <1>3, <3>3
  <2>. QED
    BY <2>1, <2>2
<1>9. kind \in {"pq", "color"} => cur' < Slots /\ \A i \in 1 .. Slots : NoFlags(buf'[i])
  BY <1>1 DEF IInv
<1>. QED
  BY <1>1, <1>3, <1>4, <1>5, <1>6, <1>7, <1>8, <1>9 DEF IInv

LEMMA CloseKeeps ==
    ASSUME IInv, threadClose
    PROVE  IInv'
<1>1. /\ kind' = kind /\ has' = has /\ queue' = queue /\ cur' = cur /\ mNeed_fence' = mNeed_fence
      /\ di' = di /\ refused' = refused /\ composer' = composer /\ thread = "popped" /\ buf' = buf
      /\ open' = open - 1 /\ thread' = "idle" /\ kind # "di"
  BY DEF threadClose, ThreadOnly, life, env, IInv, Kinds
<1>2. ~AtWork /\ ~AtWork' /\ Live /\ Live'
  BY <1>1 DEF AtWork, IInv, Rests, Live
<1>3. TypeOK /\ TypeOK' /\ SlotCount' = SlotCount
  BY <1>1, PopType, SameSlots DEF IInv
<1>4. Rests' /\ Kinds'
  BY <1>1, <1>2 DEF Rests, Kinds, IInv
<1>5. ASSUME kind = "sr" PROVE SrInv'
  <2>1. SrInv /\ \A k : Back(k)' = Back(k)
    BY <1>1, <1>5 DEF Back, IInv
  <2>. QED
    BY <1>1, <1>2, <2>1 DEF SrInv
<1>6. InSlots(buf') = InSlots(buf) /\ Kept(di') = Kept(di)
  BY <1>1
<1>7. QueuedOpen' = QueuedOpen - 1
  <2>1. <<thread = "popped">> = <<TRUE>> /\ <<thread' = "popped">> = <<FALSE>>
    BY <1>1
  <2>2. Held(<<FALSE>>) = 0 /\ Held(<<TRUE>>) = 1
    BY HeldFew DEF One
  <2>3. QueuedOpen = Len(queue) + 1 /\ QueuedOpen' = Len(queue) + 0
    BY <1>1, <2>1, <2>2 DEF QueuedOpen
  <2>. QED
    BY <1>3, <2>3, QueueType
<1>8. ASSUME ~refused PROVE open' = InSlots(buf') + Kept(di') + QueuedOpen'
  <2>1. open = InSlots(buf) + Kept(di) + QueuedOpen
    BY <1>8 DEF IInv
  <2>. QED
    BY <1>1, <1>3, <1>6, <1>7, <2>1, OpenTypes
<1>9. kind \in {"pq", "color"} => cur' < Slots /\ \A i \in 1 .. Slots : NoFlags(buf'[i])
  BY <1>1 DEF IInv
<1>. QED
  BY <1>1, <1>3, <1>4, <1>5, <1>8, <1>9 DEF IInv

(* What asyncProcess of di makes of a frame it does not queue a slot for.     *)
LEMMA DiResultKeeps ==
    ASSUME IInv, DiFrame, NEW d \in DiKeeps, NEW need \in BOOLEAN, NEW next \in {"show", "slot"},
           need => next = "slot", ~d.interlaced => ~d.fd /\ ~d.fence,
           DiResult(d, need, next), UNCHANGED <<buf, queue, cur>>
    PROVE  IInv'
<1>1. /\ kind' = kind /\ kind = "di" /\ has /\ has' = has /\ queue' = queue /\ cur' = cur /\ mNeed_fence' = need
      /\ di' = d /\ refused' = refused /\ composer' = next /\ composer \in {"idle", "retry"} /\ buf' = buf
      /\ open' = open - Kept(di) + Kept(d) /\ thread' = thread
      /\ mInited' = mInited /\ mExitThread' = mExitThread /\ reset' = FALSE /\ odd' = odd /\ nn' = nn
      /\ dma' = dma /\ vinfo' = vinfo /\ backend' = backend /\ loaded' = loaded
  BY DEF DiFrame, DiResult, env
<1>2. TypeOK /\ StatesOK /\ PoolOK /\ SlotCount' = SlotCount
  BY <1>1, SameSlots DEF IInv, TypeOK
<1>3. /\ Kept(di) \in Nat /\ Kept(d) \in Nat /\ InSlots(buf) \in Nat /\ open \in Int
  BY <1>2, OpenTypes, KeptType
<1>4. TypeOK'
  <2>1. PoolOK'
    BY <1>1, <1>2, PoolFits DEF PoolOK
  <2>2. FlagsOK'
    BY <1>1, <1>2 DEF StatesOK, FlagsOK
  <2>3. open' \in Int
    BY <1>1, <1>3
  <2>4. StatesOK'
    BY <1>1, <1>2, <2>2, <2>3 DEF StatesOK, Places
  <2>. QED
    BY <2>1, <2>4 DEF TypeOK
<1>5. Live /\ Live' /\ AtWork' = AtWork
  BY <1>1 DEF Live, AtWork
<1>6. Rests' /\ Kinds'
  BY <1>1, <1>5 DEF Rests, Kinds, IInv
<1>7. DiInv'
  <2>1. DiInv /\ Line' = Line
    BY <1>1, <1>5 DEF IInv, Line
  <2>2. ~(mNeed_fence' /\ composer' = "show")
    BY <1>1
  <2>. QED
    BY <1>1, <1>5, <2>1, <2>2 DEF DiInv
<1>8. ~refused => open' = InSlots(buf') + Kept(di') + QueuedOpen'
  <2>1. QueuedOpen = 0 /\ QueuedOpen' = 0
    BY <1>1 DEF QueuedOpen
  <2>2. ~refused => open = InSlots(buf) + Kept(di) + QueuedOpen
    BY DEF IInv
  <2>. QED
    BY <1>1, <1>3, <2>1, <2>2
<1>. QED
  BY <1>1, <1>4, <1>6, <1>7, <1>8 DEF IInv

DiQuiet == diError \/ diBypass \/ diFirstInterlaced \/ diInterlaced \/ diRepeatsFirst \/ diRepeats

LEMMA DiQuietKeeps == IInv /\ DiQuiet => IInv'
<1>. SUFFICES ASSUME IInv, DiQuiet PROVE IInv'
  OBVIOUS
<1>1. kind = "di" /\ di \in DiKeeps /\ (~di.interlaced => ~di.fd /\ ~di.fence) /\ buf \in [1 .. SlotCount -> Slot]
      /\ cur \in 0 .. SlotCount /\ SlotCount \in Nat /\ DiFrame
  <2>1. DiFrame
    BY DEF DiQuiet, diError, diBypass, diFirstInterlaced, diInterlaced, diRepeatsFirst, diRepeats
  <2>. QED
    BY <2>1, SlotCounts DEF DiFrame, IInv, DiInv, TypeOK, StatesOK, PoolOK
<1>2. CASE diError
  <2>1. PICK d : d = Emptied
    OBVIOUS
  <2>2. d \in DiKeeps /\ d.interlaced = di.interlaced /\ d.fd = di.fd /\ d.fence = di.fence
    BY <1>1, <2>1 DEF Emptied, DiKeeps
  <2>3. DiResult(d, FALSE, "show") /\ UNCHANGED <<buf, queue, cur>>
    BY <1>2, <2>1 DEF diError
  <2>. QED
    BY <1>1, <2>2, <2>3, DiResultKeeps
<1>3. CASE diBypass
  <2>1. PICK d : d = [Emptied EXCEPT !.interlaced = FALSE, !.fd = FALSE, !.fence = FALSE]
    OBVIOUS
  <2>2. d \in DiKeeps /\ ~d.fd /\ ~d.fence
    BY <1>1, <2>1 DEF Emptied, DiKeeps
  <2>3. DiResult(d, FALSE, "show") /\ UNCHANGED <<buf, queue, cur>>
    BY <1>3, <2>1 DEF diBypass
  <2>. QED
    BY <1>1, <2>2, <2>3, DiResultKeeps
<1>4. CASE diFirstInterlaced
  <2>1. PICK d : d = [Emptied EXCEPT !.interlaced = TRUE, !.first = TRUE, !.fd = TRUE, !.fence = TRUE]
    OBVIOUS
  <2>2. d \in DiKeeps /\ d.interlaced
    BY <1>1, <2>1 DEF Emptied, DiKeeps
  <2>3. DiResult(d, FALSE, "show") /\ UNCHANGED <<buf, queue, cur>>
    BY <1>4, <2>1 DEF diFirstInterlaced
  <2>. QED
    BY <1>1, <2>2, <2>3, DiResultKeeps
<1>5. CASE diInterlaced
  <2>1. PICK d : d = [di EXCEPT !.first = FALSE, !.layer = di.fd, !.fd = TRUE, !.fence = TRUE,
                               !.out = di.out \/ di.fence]
    OBVIOUS
  <2>2. d \in DiKeeps /\ d.interlaced
    BY <1>1, <1>5, <2>1 DEF diInterlaced, DiKeeps
  <2>3. DiResult(d, TRUE, "slot") /\ UNCHANGED <<buf, queue, cur>>
    BY <1>5, <2>1 DEF diInterlaced
  <2>. QED
    BY <1>1, <2>2, <2>3, DiResultKeeps
<1>6. CASE diRepeatsFirst
  <2>1. PICK d : d = [Emptied EXCEPT !.interlaced = TRUE, !.fd = TRUE, !.fence = di.interlaced /\ @]
    OBVIOUS
  <2>2. d \in DiKeeps /\ d.interlaced
    BY <1>1, <2>1 DEF Emptied, DiKeeps
  <2>3. DiResult(d, FALSE, "show") /\ UNCHANGED <<buf, queue, cur>>
    BY <1>6, <2>1 DEF diRepeatsFirst
  <2>. QED
    BY <1>1, <2>2, <2>3, DiResultKeeps
<1>7. CASE diRepeats
  <2>1. PICK d : d = [di EXCEPT !.layer = cur # 0 /\ buf[cur].fd]
    OBVIOUS
  <2>2. d \in DiKeeps /\ d.interlaced = di.interlaced /\ d.fd = di.fd /\ d.fence = di.fence
    BY <1>1, <2>1 DEF DiKeeps, Slot
  <2>3. DiResult(d, FALSE, "show") /\ UNCHANGED <<buf, queue, cur>>
    BY <1>7, <2>1 DEF diRepeats
  <2>. QED
    BY <1>1, <2>2, <2>3, DiResultKeeps
<1>. QED
  BY <1>2, <1>3, <1>4, <1>5, <1>6, <1>7 DEF DiQuiet

LEMMA DiResetKeeps ==
    ASSUME IInv, diReset
    PROVE  IInv'
<1>1. /\ kind' = kind /\ kind = "di" /\ has /\ has' = has /\ queue' = queue /\ cur' = cur /\ mNeed_fence' = FALSE
      /\ di' = Emptied /\ refused' = refused /\ composer' = "again" /\ composer = "idle" /\ buf' = buf
      /\ open' = open - Held(<<di.layer>>) /\ thread' = thread
      /\ mInited' = mInited /\ mExitThread' = TRUE /\ reset' = FALSE /\ odd' = odd /\ nn' = nn
      /\ dma' = dma /\ vinfo' = vinfo /\ backend' = backend /\ loaded' = loaded
  BY DEF diReset, DiFrame, env
<1>2. TypeOK /\ StatesOK /\ PoolOK /\ SlotCount' = SlotCount /\ DiInv
  BY <1>1, SameSlots DEF IInv, TypeOK
<1>3. /\ Emptied \in DiKeeps /\ Emptied.fd = di.fd /\ Emptied.fence = di.fence /\ Emptied.out = di.out
      /\ Emptied.layer = FALSE /\ Emptied.interlaced = di.interlaced
  BY <1>2 DEF Emptied, StatesOK, DiKeeps
<1>4. /\ Kept(di) \in Nat /\ InSlots(buf) \in Nat /\ open \in Int
      /\ Held(<<di.layer>>) \in Nat /\ Kept(Emptied) = Kept(di) - Held(<<di.layer>>)
  <2>1. Kept(di) \in Nat /\ InSlots(buf) \in Nat /\ open \in Int /\ di \in DiKeeps
    BY <1>2, OpenTypes DEF StatesOK
  <2>2. One(Emptied.layer) = 0
    BY <1>3 DEF One
  <2>3. /\ Kept(di) = One(di.fd) + One(di.fence) + One(di.out) + One(di.layer)
        /\ Kept(Emptied) = One(di.fd) + One(di.fence) + One(di.out) + One(Emptied.layer)
        /\ Held(<<di.layer>>) = One(di.layer)
        /\ One(di.fd) \in Nat /\ One(di.fence) \in Nat /\ One(di.out) \in Nat /\ One(di.layer) \in Nat
    BY <1>3, <2>1, KeptType
  <2>4. PICK x \in Nat, y \in Nat, z \in Nat, l \in Nat :
            x = One(di.fd) /\ y = One(di.fence) /\ z = One(di.out) /\ l = One(di.layer)
    BY <2>3
  <2>5. Kept(di) = x + y + z + l /\ Kept(Emptied) = x + y + z + 0 /\ Held(<<di.layer>>) = l
    BY <2>2, <2>3, <2>4
  <2>. QED
    BY <2>1, <2>5
<1>5. TypeOK'
  <2>1. PoolOK'
    BY <1>1, <1>2, PoolFits DEF PoolOK
  <2>2. FlagsOK'
    BY <1>1, <1>2 DEF StatesOK, FlagsOK
  <2>3. open' \in Int
    BY <1>1, <1>4
  <2>4. StatesOK'
    BY <1>1, <1>2, <1>3, <2>2, <2>3 DEF StatesOK, Places
  <2>. QED
    BY <2>1, <2>4 DEF TypeOK
<1>6. Live /\ Live' /\ AtWork' = AtWork
  BY <1>1 DEF Live, AtWork
<1>7. Rests' /\ Kinds'
  BY <1>1, <1>6 DEF Rests, Kinds, IInv
<1>8. DiInv'
  <2>1. Line' = Line
    BY <1>1, <1>6 DEF Line
  <2>. QED
    BY <1>1, <1>2, <1>3, <1>6, <2>1 DEF DiInv
<1>9. ~refused => open' = InSlots(buf') + Kept(di') + QueuedOpen'
  <2>1. QueuedOpen = 0 /\ QueuedOpen' = 0
    BY <1>1 DEF QueuedOpen
  <2>2. ~refused => open = InSlots(buf) + Kept(di) + QueuedOpen
    BY DEF IInv
  <2>. QED
    BY <1>1, <1>4, <2>1, <2>2
<1>. QED
  BY <1>1, <1>5, <1>7, <1>8, <1>9 DEF IInv

(* A free slot holds nothing and does not wait for the thread.                *)
LEMMA FreeSlot ==
    ASSUME IInv, kind = "di", Live, NEW i \in 1 .. SlotCount, ~buf[i].used
    PROVE  NoFlags(buf[i]) /\ \A p \in Line : queue[p] # i
<1>1. DiInv /\ SlotCount = DiSlots
  BY SlotCounts DEF IInv
<1>. QED
  BY <1>1 DEF DiInv

(* The slot taken for the last interlaced output.                             *)
LEMMA RecycleLastTakes ==
    ASSUME IInv, kind = "di", Live, kind' = kind, cur' = cur, thread' = thread, FreeSlots # {}, RecycleLast(TRUE)
    PROVE  /\ PoolOK'
           /\ \E i \in 1 .. SlotCount :
                 /\ ~buf[i].used /\ queue' = Append(queue, i)
                 /\ buf' = [buf EXCEPT ![i] = [@ EXCEPT !.fd = di.fd, !.fence = di.fence, !.used = TRUE]]
<1>1. PICK i \in 1 .. SlotCount :
          /\ ~buf[i].used /\ queue' = Append(queue, i)
          /\ buf' = [buf EXCEPT ![i] = [@ EXCEPT !.fd = di.fd, !.fence = di.fence, !.used = TRUE]]
  BY FreeSlotType DEF RecycleLast, IInv
<1>2. TypeOK /\ StatesOK /\ PoolOK
  BY DEF IInv, TypeOK
<1>3. queue' \in Seq(1 .. SlotCount)
  BY <1>1, <1>2, QueueType
<1>4. [buf[i] EXCEPT !.fd = di.fd, !.fence = di.fence, !.used = TRUE] \in Slot
  BY <1>1, <1>2 DEF PoolOK, StatesOK, Slot, DiKeeps
<1>5. buf' \in [1 .. SlotCount -> Slot] /\ cur' \in 0 .. SlotCount
  BY <1>1, <1>2, <1>4 DEF PoolOK
<1>6. PoolOK'
  BY <1>3, <1>5, PoolFits
<1>. QED
  BY <1>1, <1>6

LEMMA RecycleLastKeeps ==
    ASSUME IInv, DiFrame, RecycleLast(di.interlaced), NEW d \in DiKeeps, NEW need \in BOOLEAN,
           NEW next \in {"show", "slot"}, need => next = "slot", ~d.interlaced, ~d.fd, ~d.fence,
           di' = d, open' = open - Kept(di) + Kept(d) + RecycledOwns(di.interlaced),
           mNeed_fence' = need, reset' = FALSE, composer' = next,
           UNCHANGED <<kind, has, mInited, mExitThread, env, thread, nn, cur, odd, refused, lost>>
    PROVE  IInv'
<1>1. /\ kind' = kind /\ kind = "di" /\ has /\ has' = has /\ cur' = cur
      /\ refused' = refused /\ composer \in {"idle", "retry"} /\ thread' = thread
      /\ mInited' = mInited /\ mExitThread' = mExitThread /\ odd' = odd /\ nn' = nn
      /\ dma' = dma /\ vinfo' = vinfo /\ backend' = backend /\ loaded' = loaded
  BY DEF DiFrame, env
<1>2. TypeOK /\ StatesOK /\ PoolOK /\ SlotCount' = SlotCount /\ SlotCount = DiSlots /\ DiInv
  BY <1>1, SameSlots, SlotCounts DEF IInv, TypeOK
<1>3. /\ Kept(di) \in Nat /\ Kept(d) \in Nat /\ InSlots(buf) \in Nat /\ open \in Int
      /\ One(di.fd) \in Nat /\ One(di.fence) \in Nat
      /\ Held(<<di.fd, di.fence>>) = One(di.fd) + One(di.fence)
  BY <1>2, OpenTypes, KeptType DEF StatesOK
<1>4. Live /\ Live' /\ AtWork' = AtWork /\ QueuedOpen = 0 /\ QueuedOpen' = 0 /\ (AtWork => queue # <<>>)
  BY <1>1 DEF Live, AtWork, QueuedOpen, IInv, Kinds
<1>5. CASE di.interlaced
  <2>0. RecycleLast(TRUE) /\ FreeSlots # {}
    BY <1>5 DEF RecycleLast
  <2>1. PICK i \in 1 .. SlotCount :
            /\ ~buf[i].used /\ queue' = Append(queue, i)
            /\ buf' = [buf EXCEPT ![i] = [@ EXCEPT !.fd = di.fd, !.fence = di.fence, !.used = TRUE]]
    BY <1>1, <1>4, <2>0, RecycleLastTakes
  <2>2. PoolOK'
    BY <1>1, <1>4, <2>0, RecycleLastTakes
  <2>3. open' = open - Kept(di) + Kept(d) + (One(di.fd) + One(di.fence))
    BY <1>3, <1>5 DEF RecycledOwns
  <2>4. TypeOK'
    <3>1. FlagsOK'
      BY <1>1, <1>2 DEF StatesOK, FlagsOK
    <3>2. open' \in Int
      BY <1>3, <2>3
    <3>3. StatesOK'
      BY <1>1, <1>2, <3>1, <3>2 DEF StatesOK, Places
    <3>. QED
      BY <2>2, <3>3 DEF TypeOK
  <2>5. PICK s : s = [buf[i] EXCEPT !.fd = di.fd, !.fence = di.fence, !.used = TRUE]
    OBVIOUS
  <2>6. /\ InSlots(buf') = InSlots(buf) + Flags(s) - Flags(buf[i])
        /\ buf[i] \in Slot /\ s \in Slot /\ buf'[i] = s
        /\ \A j \in 1 .. SlotCount \ {i} : buf'[j] = buf[j]
    <3>1. buf' = [buf EXCEPT ![i] = s]
      BY <2>1, <2>5
    <3>. QED
      BY <1>2, <2>4, <3>1, OneSlot
  <2>7. NoFlags(buf[i]) /\ \A p \in Line : queue[p] # i
    BY <1>1, <1>4, <2>1, FreeSlot
  <2>8. s.fd = di.fd /\ s.fence = di.fence /\ s.used = TRUE /\ s.last = buf[i].last /\ s.input = buf[i].input
    BY <2>5, <2>6 DEF Slot
  <2>9. Flags(buf[i]) = 0 /\ Flags(s) = One(di.fd) + One(di.fence)
    <3>1. /\ One(buf[i].fence) = 0 /\ One(buf[i].last) = 0 /\ One(buf[i].fd) = 0 /\ One(buf[i].input) = 0
      BY <2>7 DEF NoFlags, One
    <3>2. One(s.last) = 0 /\ One(s.input) = 0 /\ One(s.fd) = One(di.fd) /\ One(s.fence) = One(di.fence)
      BY <2>8, <3>1
    <3>3. Flags(buf[i]) = 0 + 0 + 0 + 0
      BY <2>6, <3>1, FlagsOf
    <3>4. Flags(s) = One(di.fence) + 0 + One(di.fd) + 0
      BY <2>6, <3>2, FlagsOf
    <3>. QED
      BY <1>3, <3>3, <3>4
  <2>10. /\ Len(queue') = Len(queue) + 1 /\ \A p \in DOMAIN queue : queue'[p] = queue[p]
         /\ DOMAIN queue = 1 .. Len(queue) /\ DOMAIN queue' = 1 .. Len(queue) + 1
         /\ queue'[Len(queue) + 1] = i /\ Len(queue) \in Nat
    BY <1>2, <2>1 DEF PoolOK
  <2>11. Rests' /\ Kinds'
    BY <1>1, <1>4, <2>10 DEF Rests, Kinds, IInv
  <2>12. DiInv'
    <3>1. \A p \in Line' : \/ p \in Line /\ queue'[p] = queue[p]
                           \/ p = Len(queue) + 1 /\ queue'[p] = i
      <4>. TAKE p \in Line'
      <4>1. p \in 1 .. Len(queue) + 1 /\ (AtWork => p # 1)
        BY <1>4, <2>10 DEF Line
      <4>2. CASE p = Len(queue) + 1
        BY <2>10, <4>2
      <4>3. CASE p \in 1 .. Len(queue)
        <5>1. p \in DOMAIN queue /\ queue'[p] = queue[p]
          BY <2>10, <4>3
        <5>2. p \in Line
          BY <4>1, <5>1 DEF Line
        <5>. QED
          BY <5>1, <5>2
      <4>. QED
        BY <2>10, <4>1, <4>2, <4>3
    <3>2. (\A p \in Line : buf[queue[p]].used) /\ (\A p, q \in Line : queue[p] = queue[q] => p = q)
      BY <1>2, <1>4 DEF DiInv
    <3>3. \A p \in Line : queue[p] \in 1 .. SlotCount
      BY <1>2, QueueType DEF Line
    <3>4. \A p \in Line' : buf'[queue'[p]].used
      BY <2>6, <2>7, <2>8, <3>1, <3>2, <3>3
    <3>5. \A p, q \in Line' : queue'[p] = queue'[q] => p = q
      BY <2>7, <3>1, <3>2
    <3>6. \A j \in 1 .. DiSlots : ~buf'[j].last /\ ~buf'[j].input
      BY <1>2, <2>6, <2>7, <2>8 DEF DiInv, NoFlags
    <3>7. \A j \in 1 .. DiSlots : ~buf'[j].used => NoFlags(buf'[j])
      BY <1>2, <2>6, <2>8 DEF DiInv
    <3>. QED
      BY <3>4, <3>5, <3>6, <3>7 DEF DiInv
  <2>13. ASSUME ~refused PROVE open' = InSlots(buf') + Kept(di') + QueuedOpen'
    <3>1. open = InSlots(buf) + Kept(di) + QueuedOpen
      BY <2>13 DEF IInv
    <3>2. PICK p \in Nat, q \in Nat, r \in Nat, x \in Nat, y \in Nat :
              p = InSlots(buf) /\ q = Kept(di) /\ r = Kept(d) /\ x = One(di.fd) /\ y = One(di.fence)
      BY <1>3
    <3>3. open = p + q + 0 /\ open' = open - q + r + (x + y) /\ InSlots(buf') = p + (x + y) - 0 /\ Kept(di') = r
      BY <1>4, <2>3, <2>6, <2>9, <3>1, <3>2
    <3>. QED
      BY <1>4, <3>3
  <2>. QED
    BY <1>1, <2>4, <2>11, <2>12, <2>13 DEF IInv
<1>6. CASE ~di.interlaced
  <2>1. buf' = buf /\ queue' = queue /\ open' = open - Kept(di) + Kept(d) + 0
    BY <1>6 DEF RecycleLast, RecycledOwns
  <2>2. DiResult(d, need, next)
    BY <1>3, <2>1 DEF DiResult
  <2>. QED
    BY <1>1, <2>1, <2>2, DiResultKeeps
<1>. QED
  BY <1>5, <1>6

LEMMA DiProgressiveKeeps == IInv /\ (diProgressive \/ diRepeatsProgressive) => IInv'
<1>. SUFFICES ASSUME IInv, diProgressive \/ diRepeatsProgressive PROVE IInv'
  OBVIOUS
<1>1. DiFrame /\ kind = "di" /\ di \in DiKeeps /\ DiInv /\ open \in Int /\ RecycleLast(di.interlaced)
  BY DEF diProgressive, diRepeatsProgressive, DiFrame, IInv, TypeOK, StatesOK
<1>2. /\ RecycledOwns(di.interlaced) \in Nat /\ Kept(di) \in Nat
      /\ (IF di.interlaced THEN 0 ELSE Held(<<di.fd, di.fence>>)) = 0
  <2>1. One(di.fd) \in Nat /\ One(di.fence) \in Nat /\ Held(<<di.fd, di.fence>>) = One(di.fd) + One(di.fence)
        /\ Kept(di) \in Nat
    BY <1>1, KeptType
  <2>2. ~di.interlaced => One(di.fd) = 0 /\ One(di.fence) = 0
    BY <1>1 DEF DiInv, One
  <2>. QED
    BY <2>1, <2>2 DEF RecycledOwns
<1>3. CASE diProgressive
  <2>1. PICK d : d = [di EXCEPT !.interlaced = FALSE, !.fd = FALSE, !.fence = FALSE, !.out = TRUE, !.layer = TRUE]
    OBVIOUS
  <2>2. d \in DiKeeps /\ ~d.interlaced /\ ~d.fd /\ ~d.fence
    BY <1>1, <2>1 DEF DiKeeps
  <2>3. di' = d /\ open' = open - Kept(di) + Kept(di') + RecycledOwns(di.interlaced)
                    + IF di.interlaced THEN 0 ELSE Held(<<di.fd, di.fence>>)
    BY <1>3, <2>1 DEF diProgressive
  <2>4. open' = open - Kept(di) + Kept(d) + RecycledOwns(di.interlaced)
    <3>1. open' = open - Kept(di) + Kept(d) + RecycledOwns(di.interlaced) + 0
      BY <1>2, <2>3
    <3>2. Kept(d) \in Nat
      BY <2>2, KeptType
    <3>. QED
      BY <1>1, <1>2, <3>1, <3>2
  <2>5. /\ mNeed_fence' = TRUE /\ reset' = FALSE /\ composer' = "slot"
        /\ UNCHANGED <<kind, has, mInited, mExitThread, env, thread, nn, cur, odd, refused, lost>>
    BY <1>3 DEF diProgressive
  <2>. QED
    BY <1>1, <2>2, <2>3, <2>4, <2>5, RecycleLastKeeps
<1>4. CASE diRepeatsProgressive
  <2>1. PICK d : d = [di EXCEPT !.interlaced = FALSE, !.fd = FALSE, !.fence = FALSE, !.layer = TRUE]
    OBVIOUS
  <2>2. d \in DiKeeps /\ ~d.interlaced /\ ~d.fd /\ ~d.fence
    BY <1>1, <2>1 DEF DiKeeps
  <2>3. di' = d /\ open' = open - Kept(di) + Kept(d) + RecycledOwns(di.interlaced)
    BY <1>4, <2>1 DEF diRepeatsProgressive
  <2>4. /\ mNeed_fence' = FALSE /\ reset' = FALSE /\ composer' = "show"
        /\ UNCHANGED <<kind, has, mInited, mExitThread, env, thread, nn, cur, odd, refused, lost>>
    BY <1>4 DEF diRepeatsProgressive
  <2>. QED
    BY <1>1, <2>2, <2>3, <2>4, RecycleLastKeeps
<1>. QED
  BY <1>3, <1>4

LEMMA DiTakeSlotKeeps ==
    ASSUME IInv, diTakeSlot
    PROVE  IInv'
<1>1. /\ kind' = kind /\ has' = has /\ queue' = queue /\ mNeed_fence' = mNeed_fence
      /\ di' = di /\ refused' = refused /\ composer' = "show" /\ composer = "slot"
      /\ open' = open + Held(<<di.layer>>) /\ thread' = thread
      /\ mInited' = mInited /\ mExitThread' = mExitThread /\ reset' = reset /\ odd' = odd /\ nn' = nn
      /\ dma' = dma /\ vinfo' = vinfo /\ backend' = backend /\ loaded' = loaded
  BY DEF diTakeSlot, life, env
<1>2. kind = "di" /\ has /\ Live /\ Live' /\ AtWork' = AtWork /\ Line' = Line
  BY <1>1 DEF IInv, Kinds, Rests, Live, AtWork, Line
<1>3. TypeOK /\ StatesOK /\ PoolOK /\ SlotCount' = SlotCount /\ SlotCount = DiSlots /\ SlotCount \in Nat /\ DiInv
  BY <1>1, <1>2, SameSlots, SlotCounts DEF IInv, TypeOK
<1>4. PICK i \in 1 .. SlotCount :
          cur' = i /\ ~buf[i].used /\ buf' = [buf EXCEPT ![i] = [@ EXCEPT !.fd = di.layer, !.used = TRUE]]
  BY <1>3, FreeSlotType DEF diTakeSlot
<1>5. NoFlags(buf[i]) /\ \A p \in Line : queue[p] # i
  BY <1>2, <1>4, FreeSlot
<1>6. /\ One(di.layer) \in Nat /\ Held(<<di.layer>>) = One(di.layer) /\ di.layer \in BOOLEAN
      /\ Kept(di) \in Nat /\ InSlots(buf) \in Nat /\ open \in Int
  BY <1>3, OpenTypes, KeptType DEF StatesOK, DiKeeps
<1>7. PICK s : s = [buf[i] EXCEPT !.fd = di.layer, !.used = TRUE]
  OBVIOUS
<1>8. TypeOK'
  <2>1. s \in Slot
    BY <1>3, <1>4, <1>6, <1>7 DEF PoolOK, Slot
  <2>2. buf' \in [1 .. SlotCount -> Slot] /\ cur' \in 0 .. SlotCount
    BY <1>3, <1>4, <1>7, <2>1 DEF PoolOK
  <2>3. PoolOK'
    BY <1>1, <1>3, <2>2, PoolFits DEF PoolOK
  <2>4. FlagsOK'
    BY <1>1, <1>3 DEF StatesOK, FlagsOK
  <2>5. open' \in Int
    BY <1>1, <1>6
  <2>6. StatesOK'
    BY <1>1, <1>3, <2>4, <2>5 DEF StatesOK, Places
  <2>. QED
    BY <2>3, <2>6 DEF TypeOK
<1>9. /\ InSlots(buf') = InSlots(buf) + Flags(s) - Flags(buf[i])
      /\ buf[i] \in Slot /\ s \in Slot /\ buf'[i] = s
      /\ \A j \in 1 .. SlotCount \ {i} : buf'[j] = buf[j]
  <2>1. buf' = [buf EXCEPT ![i] = s]
    BY <1>4, <1>7
  <2>. QED
    BY <1>3, <1>8, <2>1, OneSlot
<1>10. s.fd = di.layer /\ s.fence = FALSE /\ s.used = TRUE /\ s.last = FALSE /\ s.input = FALSE
  BY <1>5, <1>7, <1>9 DEF Slot, NoFlags
<1>11. Flags(buf[i]) = 0 /\ Flags(s) = One(di.layer)
  <2>1. One(FALSE) = 0 /\ One(buf[i].fence) = 0 /\ One(buf[i].last) = 0 /\ One(buf[i].fd) = 0 /\ One(buf[i].input) = 0
    BY <1>5 DEF NoFlags, One
  <2>2. Flags(buf[i]) = 0 + 0 + 0 + 0
    BY <1>9, <2>1, FlagsOf
  <2>3. Flags(s) = 0 + 0 + One(di.layer) + 0
    BY <1>9, <1>10, <2>1, FlagsOf
  <2>. QED
    BY <1>6, <2>2, <2>3
<1>12. Rests' /\ Kinds'
  BY <1>1, <1>2 DEF Rests, Kinds, IInv
<1>13. DiInv'
  <2>1. \A p \in Line : queue[p] \in 1 .. SlotCount
    BY <1>3, QueueType DEF Line
  <2>2. \A p \in Line : buf'[queue[p]].used
    BY <1>2, <1>3, <1>5, <1>9, <2>1 DEF DiInv
  <2>3. \A j \in 1 .. DiSlots : ~buf'[j].last /\ ~buf'[j].input
    BY <1>3, <1>9, <1>10 DEF DiInv
  <2>4. \A j \in 1 .. DiSlots : ~buf'[j].used => NoFlags(buf'[j])
    BY <1>3, <1>9, <1>10 DEF DiInv
  <2>5. cur' # 0 /\ buf'[cur'].used /\ ~buf'[cur'].fence /\ \A p \in Line : queue[p] # cur'
    <3>1. i # 0 /\ buf'[i].used /\ ~buf'[i].fence
      BY <1>3, <1>9, <1>10
    <3>. QED
      BY <1>4, <1>5, <3>1
  <2>. QED
    BY <1>1, <1>2, <1>3, <2>2, <2>3, <2>4, <2>5 DEF DiInv
<1>14. ~refused => open' = InSlots(buf') + Kept(di') + QueuedOpen'
  <2>1. QueuedOpen = 0 /\ QueuedOpen' = 0
    BY <1>1, <1>2 DEF QueuedOpen
  <2>2. ~refused => open = InSlots(buf) + Kept(di) + QueuedOpen
    BY DEF IInv
  <2>. QED
    BY <1>1, <1>6, <1>9, <1>11, <2>1, <2>2
<1>. QED
  BY <1>1, <1>2, <1>8, <1>12, <1>13, <1>14 DEF IInv

LEMMA DiDisplayedKeeps ==
    ASSUME IInv, diDisplayed
    PROVE  IInv'
<1>1. /\ kind' = kind /\ kind = "di" /\ has' = has /\ mNeed_fence' = mNeed_fence /\ cur' = cur
      /\ refused' = refused /\ composer = "show" /\ thread' = thread
      /\ mInited' = mInited /\ mExitThread' = mExitThread /\ reset' = reset /\ odd' = odd /\ nn' = nn
      /\ dma' = dma /\ vinfo' = vinfo /\ backend' = backend /\ loaded' = loaded
  BY DEF diDisplayed, life, env
<1>2. has /\ Live /\ AtWork' = AtWork /\ (AtWork => queue # <<>>)
  BY <1>1 DEF IInv, Kinds, Rests, Live, AtWork
<1>3. TypeOK /\ StatesOK /\ PoolOK /\ SlotCount' = SlotCount /\ SlotCount = DiSlots /\ SlotCount \in Nat /\ DiInv
  BY <1>1, <1>2, SameSlots, SlotCounts DEF IInv, TypeOK
<1>4. PICK took \in BOOLEAN, release \in BOOLEAN :
          /\ di' = [di EXCEPT !.layer = @ /\ ~took]
          /\ IF mNeed_fence
               THEN /\ buf' = [buf EXCEPT ![cur].fence = release]
                    /\ queue' = Append(queue, cur) /\ composer' = "wait"
               ELSE UNCHANGED <<buf, queue>> /\ composer' = "idle"
          /\ open' = open - Held(<<di.layer /\ took>>) + Held(<<mNeed_fence /\ release>>)
  BY DEF diDisplayed
<1>5. /\ di' \in DiKeeps /\ di \in DiKeeps /\ di'.fd = di.fd /\ di'.fence = di.fence /\ di'.out = di.out
      /\ di'.interlaced = di.interlaced /\ di'.layer = (di.layer /\ ~took) /\ di.layer \in BOOLEAN
  BY <1>3, <1>4 DEF StatesOK, DiKeeps
<1>6. /\ Kept(di') = Kept(di) - Held(<<di.layer /\ took>>) /\ Held(<<di.layer /\ took>>) \in Nat
      /\ Kept(di) \in Nat /\ InSlots(buf) \in Nat /\ open \in Int
  <2>1. /\ Kept(di) = One(di.fd) + One(di.fence) + One(di.out) + One(di.layer)
        /\ Kept(di') = One(di.fd) + One(di.fence) + One(di.out) + One(di'.layer)
        /\ One(di.fd) \in Nat /\ One(di.fence) \in Nat /\ One(di.out) \in Nat /\ One(di.layer) \in Nat
        /\ One(di'.layer) \in Nat
    BY <1>5, KeptType
  <2>2. Held(<<di.layer /\ took>>) = One(di.layer /\ took)
    <3>1. PICK b \in BOOLEAN : b = (di.layer /\ took)
      OBVIOUS
    <3>. QED
      BY <3>1, HeldFew
  <2>3. One(di'.layer) = One(di.layer) - One(di.layer /\ took) /\ One(di.layer /\ took) \in Nat
    <3>1. CASE took
      <4>1. (di.layer /\ took) = di.layer /\ di'.layer = FALSE
        BY <1>5, <3>1
      <4>. QED
        BY <2>1, <4>1 DEF One
    <3>2. CASE ~took
      <4>1. (di.layer /\ took) = FALSE /\ di'.layer = di.layer
        BY <1>5, <3>2
      <4>. QED
        BY <2>1, <4>1 DEF One
    <3>. QED
      BY <3>1, <3>2
  <2>4. PICK x \in Nat, y \in Nat, z \in Nat, l \in Nat, m \in Nat :
            /\ x = One(di.fd) /\ y = One(di.fence) /\ z = One(di.out) /\ l = One(di.layer)
            /\ m = One(di.layer /\ took)
    BY <2>1, <2>3
  <2>5. Kept(di) = x + y + z + l /\ Kept(di') = x + y + z + (l - m) /\ Held(<<di.layer /\ took>>) = m
    BY <2>1, <2>2, <2>3, <2>4
  <2>. QED
    BY <1>3, <2>5, OpenTypes
<1>7. QueuedOpen = 0 /\ QueuedOpen' = 0
  BY <1>1 DEF QueuedOpen
<1>8. CASE mNeed_fence
  <2>1. /\ buf' = [buf EXCEPT ![cur].fence = release] /\ queue' = Append(queue, cur) /\ composer' = "wait"
        /\ open' = open - Held(<<di.layer /\ took>>) + Held(<<release>>)
    <3>1. <<mNeed_fence /\ release>> = <<release>>
      BY <1>8
    <3>. QED
      BY <1>4, <1>8, <3>1
  <2>2. cur \in 1 .. SlotCount /\ buf[cur].used /\ ~buf[cur].fence /\ \A p \in Line : queue[p] # cur
    BY <1>1, <1>2, <1>3, <1>8 DEF DiInv, PoolOK
  <2>3. PICK s : s = [buf[cur] EXCEPT !.fence = release]
    OBVIOUS
  <2>4. Held(<<release>>) = One(release) /\ One(release) \in Nat
    BY HeldFew DEF One
  <2>5. TypeOK'
    <3>1. s \in Slot
      BY <1>3, <2>2, <2>3 DEF PoolOK, Slot
    <3>2. buf' \in [1 .. SlotCount -> Slot] /\ cur' \in 0 .. SlotCount
      BY <1>1, <1>3, <2>1, <2>2, <2>3, <3>1 DEF PoolOK
    <3>3. queue' \in Seq(1 .. SlotCount)
      BY <1>3, <2>1, <2>2, QueueType
    <3>4. PoolOK'
      BY <1>1, <3>2, <3>3, PoolFits
    <3>5. FlagsOK'
      BY <1>1, <1>3 DEF StatesOK, FlagsOK
    <3>6. open' \in Int
      BY <1>6, <2>1, <2>4
    <3>7. StatesOK'
      BY <1>1, <1>3, <1>5, <2>1, <3>5, <3>6 DEF StatesOK, Places
    <3>. QED
      BY <3>4, <3>7 DEF TypeOK
  <2>6. /\ InSlots(buf') = InSlots(buf) + Flags(s) - Flags(buf[cur])
        /\ buf[cur] \in Slot /\ s \in Slot /\ buf'[cur] = s
        /\ \A j \in 1 .. SlotCount \ {cur} : buf'[j] = buf[j]
    <3>1. buf' = [buf EXCEPT ![cur] = s]
      BY <2>1, <2>3
    <3>. QED
      BY <1>3, <2>2, <2>5, <3>1, OneSlot
  <2>7. s.fd = buf[cur].fd /\ s.fence = release /\ s.used = TRUE /\ s.last = buf[cur].last /\ s.input = buf[cur].input
    BY <2>2, <2>3, <2>6 DEF Slot
  <2>8. Flags(s) = Flags(buf[cur]) + One(release) /\ Flags(buf[cur]) \in Nat
    <3>1. One(buf[cur].fence) = 0
      BY <2>2 DEF One
    <3>2. /\ Flags(buf[cur]) = One(buf[cur].fence) + One(buf[cur].last) + One(buf[cur].fd) + One(buf[cur].input)
          /\ One(buf[cur].last) \in Nat /\ One(buf[cur].fd) \in Nat /\ One(buf[cur].input) \in Nat
      BY <2>6, FlagsOf
    <3>3. Flags(s) = One(release) + One(buf[cur].last) + One(buf[cur].fd) + One(buf[cur].input)
      BY <2>6, <2>7, FlagsOf
    <3>4. PICK p \in Nat, q \in Nat, r \in Nat, x \in Nat :
              p = One(buf[cur].last) /\ q = One(buf[cur].fd) /\ r = One(buf[cur].input) /\ x = One(release)
      BY <2>4, <3>2
    <3>5. Flags(buf[cur]) = 0 + p + q + r /\ Flags(s) = x + p + q + r
      BY <3>1, <3>2, <3>3, <3>4
    <3>. QED
      BY <3>4, <3>5
  <2>9. /\ \A p \in DOMAIN queue : queue'[p] = queue[p]
        /\ DOMAIN queue = 1 .. Len(queue) /\ DOMAIN queue' = 1 .. Len(queue) + 1
        /\ queue'[Len(queue) + 1] = cur /\ Len(queue) \in Nat
    BY <1>3, <2>1, <2>2 DEF PoolOK
  <2>10. Live'
    BY <1>1, <1>2, <2>1 DEF Live
  <2>11. Rests' /\ Kinds'
    BY <1>1, <1>2, <2>1, <2>9, <2>10 DEF Rests, Kinds, IInv
  <2>12. DiInv'
    <3>1. \A p \in Line' : (p \in Line /\ queue'[p] = queue[p]) \/ (p = Len(queue) + 1 /\ queue'[p] = cur)
      <4>. TAKE p \in Line'
      <4>1. p \in 1 .. Len(queue) + 1 /\ (AtWork => p # 1)
        BY <1>2, <2>9 DEF Line
      <4>2. CASE p = Len(queue) + 1
        BY <2>9, <4>2
      <4>3. CASE p \in 1 .. Len(queue)
        <5>1. p \in DOMAIN queue /\ queue'[p] = queue[p]
          BY <2>9, <4>3
        <5>2. p \in Line
          BY <4>1, <5>1 DEF Line
        <5>. QED
          BY <5>1, <5>2
      <4>. QED
        BY <2>9, <4>1, <4>2, <4>3
    <3>2. (\A p \in Line : buf[queue[p]].used) /\ (\A p, q \in Line : queue[p] = queue[q] => p = q)
      BY <1>2, <1>3 DEF DiInv
    <3>3. \A p \in Line : queue[p] \in 1 .. SlotCount
      BY <1>3, QueueType DEF Line
    <3>4. \A p \in Line' : buf'[queue'[p]].used
      BY <2>2, <2>6, <2>7, <3>1, <3>2, <3>3
    <3>5. \A p, q \in Line' : queue'[p] = queue'[q] => p = q
      BY <2>2, <3>1, <3>2
    <3>6. \A j \in 1 .. DiSlots : ~buf'[j].last /\ ~buf'[j].input
      BY <1>3, <2>2, <2>6, <2>7 DEF DiInv
    <3>7. \A j \in 1 .. DiSlots : ~buf'[j].used => NoFlags(buf'[j])
      BY <1>3, <2>6, <2>7 DEF DiInv
    <3>8. ~(composer' = "show") /\ (~di'.interlaced => ~di'.fd /\ ~di'.fence)
      BY <1>3, <1>5, <2>1 DEF DiInv
    <3>. QED
      BY <3>4, <3>5, <3>6, <3>7, <3>8 DEF DiInv
  <2>13. ASSUME ~refused PROVE open' = InSlots(buf') + Kept(di') + QueuedOpen'
    <3>1. open = InSlots(buf) + Kept(di) + QueuedOpen
      BY <2>13 DEF IInv
    <3>2. PICK p \in Nat, q \in Nat, r \in Nat, x \in Nat, y \in Nat :
              /\ p = InSlots(buf) /\ q = Kept(di) /\ r = Held(<<di.layer /\ took>>) /\ x = One(release)
              /\ y = Flags(buf[cur])
      BY <1>6, <2>4, <2>8
    <3>3. open = p + q + 0 /\ open' = open - r + x /\ InSlots(buf') = p + (y + x) - y /\ Kept(di') = q - r
      BY <1>6, <1>7, <2>1, <2>4, <2>6, <2>8, <3>1, <3>2
    <3>. QED
      BY <1>7, <3>3
  <2>. QED
    BY <1>1, <2>5, <2>11, <2>12, <2>13 DEF IInv
<1>9. CASE ~mNeed_fence
  <2>1. buf' = buf /\ queue' = queue /\ composer' = "idle" /\ open' = open - Held(<<di.layer /\ took>>) + 0
    <3>1. <<mNeed_fence /\ release>> = <<FALSE>> /\ Held(<<FALSE>>) = 0
      BY <1>9, HeldFew DEF One
    <3>. QED
      BY <1>4, <1>9, <3>1
  <2>2. TypeOK'
    <3>1. PoolOK'
      BY <1>1, <1>3, <2>1, PoolFits DEF PoolOK
    <3>2. FlagsOK'
      BY <1>1, <1>3 DEF StatesOK, FlagsOK
    <3>3. open' \in Int
      BY <1>6, <2>1
    <3>4. StatesOK'
      BY <1>1, <1>3, <1>5, <2>1, <3>2, <3>3 DEF StatesOK, Places
    <3>. QED
      BY <3>1, <3>4 DEF TypeOK
  <2>3. Live' /\ Line' = Line
    BY <1>1, <1>2, <2>1 DEF Live, Line
  <2>4. Rests' /\ Kinds'
    BY <1>1, <1>2, <2>1, <2>3 DEF Rests, Kinds, IInv
  <2>5. DiInv'
    <3>1. ~(composer' = "show") /\ (~di'.interlaced => ~di'.fd /\ ~di'.fence)
      BY <1>3, <1>5, <2>1 DEF DiInv
    <3>. QED
      BY <1>1, <1>2, <1>3, <2>1, <2>3, <3>1 DEF DiInv
  <2>6. ~refused => open' = InSlots(buf') + Kept(di') + QueuedOpen'
    <3>1. ~refused => open = InSlots(buf) + Kept(di) + QueuedOpen
      BY DEF IInv
    <3>. QED
      BY <1>6, <1>7, <2>1, <3>1
  <2>. QED
    BY <1>1, <2>2, <2>4, <2>5, <2>6 DEF IInv
<1>. QED
  BY <1>3, <1>8, <1>9 DEF StatesOK, FlagsOK

LEMMA DiRecycleKeeps ==
    ASSUME IInv, NEW ok \in BOOLEAN, diRecycle(ok)
    PROVE  IInv'
<1>1. /\ kind' = kind /\ kind = "di" /\ has' = has /\ mNeed_fence' = mNeed_fence /\ cur' = cur /\ di' = di
      /\ queue' = queue /\ composer' = composer /\ thread = "idle"
  BY DEF diRecycle, life, env, Idle
<1>2. has /\ Live /\ Live' /\ ~AtWork /\ QueuedOpen = 0 /\ QueuedOpen' = 0
  BY <1>1 DEF IInv, Rests, Live, AtWork, QueuedOpen
<1>3. /\ TypeOK /\ StatesOK /\ PoolOK /\ SlotCount' = SlotCount /\ SlotCount = DiSlots /\ SlotCount \in Nat /\ DiInv
      /\ TypeOK' /\ queue # <<>>
  BY <1>1, RecycleType, SameSlots, SlotCounts DEF IInv, TypeOK
<1>4. CASE ok
  <2>1. PICK h \in 1 .. SlotCount : h = Head(queue)
    BY RecycleType
  <2>2. buf' = [buf EXCEPT ![h] = Unused] /\ open' = open - One(buf[h].fence) - One(buf[h].fd) /\ thread' = "answered"
        /\ refused' = refused
    BY <1>4, <2>1, RecycleType DEF Front
  <2>3. h = queue[1] /\ 1 \in DOMAIN queue /\ DOMAIN queue = 1 .. Len(queue) /\ Len(queue) \in Nat
    BY <1>3, <2>1, FrontType, QueueType DEF PoolOK
  <2>4. /\ InSlots(buf') = InSlots(buf) + Flags(Unused) - Flags(buf[h])
        /\ buf[h] \in Slot /\ buf'[h] = Unused
        /\ \A j \in 1 .. SlotCount \ {h} : buf'[j] = buf[j]
    BY <1>3, <2>2, OneSlot
  <2>5. /\ Flags(Unused) = 0 /\ Flags(buf[h]) = One(buf[h].fence) + One(buf[h].fd)
        /\ One(buf[h].fence) \in Nat /\ One(buf[h].fd) \in Nat
    <3>1. One(FALSE) = 0 /\ One(buf[h].last) = 0 /\ One(buf[h].input) = 0
      BY <1>3 DEF DiInv, One
    <3>2. Flags(Unused) = 0 + 0 + 0 + 0
      BY <3>1, UnusedType, FlagsOf DEF Unused
    <3>3. Flags(buf[h]) = One(buf[h].fence) + 0 + One(buf[h].fd) + 0 /\ One(buf[h].fence) \in Nat /\ One(buf[h].fd) \in Nat
      BY <2>4, <3>1, FlagsOf
    <3>. QED
      BY <3>2, <3>3
  <2>6. AtWork' /\ \A p \in Line' : p \in Line /\ p # 1
    BY <1>1, <1>2, <2>2 DEF AtWork, Line
  <2>7. 1 \in Line /\ \A p \in Line : queue[p] \in 1 .. SlotCount
    BY <1>2, <1>3, <2>3, QueueType DEF Line
  <2>8. /\ \A p \in Line : buf[queue[p]].used
        /\ \A p, q \in Line : queue[p] = queue[q] => p = q
        /\ mNeed_fence /\ composer = "show" =>
               cur # 0 /\ buf[cur].used /\ ~buf[cur].fence /\ \A p \in Line : queue[p] # cur
    BY <1>2, <1>3 DEF DiInv
  <2>9. \A p \in Line' : buf'[queue[p]].used
    <3>1. \A p \in Line' : queue[p] # h
      BY <2>3, <2>6, <2>7, <2>8
    <3>. QED
      BY <2>4, <2>6, <2>7, <2>8, <3>1
  <2>10. mNeed_fence /\ composer = "show" =>
               cur # 0 /\ buf'[cur].used /\ ~buf'[cur].fence /\ \A p \in Line' : queue[p] # cur
    <3>. SUFFICES ASSUME mNeed_fence, composer = "show"
                  PROVE  cur # 0 /\ buf'[cur].used /\ ~buf'[cur].fence /\ \A p \in Line' : queue[p] # cur
      OBVIOUS
    <3>1. cur # h /\ cur \in 1 .. SlotCount
      BY <1>3, <2>3, <2>7, <2>8 DEF PoolOK
    <3>. QED
      BY <2>4, <2>6, <2>8, <3>1
  <2>11. \A j \in 1 .. DiSlots : ~buf'[j].last /\ ~buf'[j].input /\ (~buf'[j].used => NoFlags(buf'[j]))
    BY <1>3, <2>4, UnusedType DEF DiInv, NoFlags
  <2>12. DiInv'
    BY <1>1, <1>3, <2>6, <2>8, <2>9, <2>10, <2>11 DEF DiInv
  <2>13. Rests' /\ Kinds'
    BY <1>1, <1>2, <1>3, <2>2 DEF Rests, Kinds, IInv
  <2>14. ASSUME ~refused PROVE open' = InSlots(buf') + Kept(di') + QueuedOpen'
    <3>1. open = InSlots(buf) + Kept(di) + QueuedOpen
      BY <2>14 DEF IInv
    <3>2. PICK p \in Nat, q \in Nat, x \in Nat, y \in Nat :
              p = InSlots(buf) /\ q = Kept(di) /\ x = One(buf[h].fence) /\ y = One(buf[h].fd)
      BY <1>3, <2>5, OpenTypes
    <3>3. open = p + q + 0 /\ open' = open - x - y /\ InSlots(buf') = p + 0 - (x + y) /\ Kept(di') = q
      BY <1>1, <1>2, <2>2, <2>4, <2>5, <3>1, <3>2
    <3>. QED
      BY <1>2, <3>3
  <2>. QED
    BY <1>1, <1>3, <2>2, <2>12, <2>13, <2>14 DEF IInv
<1>5. CASE ~ok
  <2>1. buf' = buf /\ open' = open /\ thread' = thread /\ refused' = (refused \/ Front.fence)
    BY <1>5, RecycleType
  <2>2. Line' = Line /\ AtWork' = AtWork
    BY <1>1, <2>1 DEF Line, AtWork
  <2>3. DiInv'
    BY <1>1, <1>2, <1>3, <2>1, <2>2 DEF DiInv
  <2>4. Rests' /\ Kinds'
    BY <1>1, <1>2, <1>3, <2>1, <2>2 DEF Rests, Kinds, IInv
  <2>5. ~refused' => open' = InSlots(buf') + Kept(di') + QueuedOpen'
    BY <1>1, <1>2, <2>1 DEF IInv
  <2>. QED
    BY <1>1, <1>3, <2>3, <2>4, <2>5 DEF IInv
<1>. QED
  BY <1>4, <1>5

-----------------------------------------------------------------------------
LEMMA InitKeeps == Init => IInv
<1>. SUFFICES ASSUME Init PROVE IInv
  OBVIOUS
<1>1. /\ has = FALSE /\ composer = "idle" /\ thread = "none" /\ queue = <<>> /\ buf = [i \in 1 .. SlotCount |-> Unused]
      /\ cur = 0 /\ mNeed_fence = FALSE /\ di = NoDi /\ open = 0 /\ kind \in {"sr", "pq", "color", "di"}
  BY DEF Init
<1>2. SlotCount \in Nat \ {0} /\ Slots \in Nat \ {0} /\ SlotCount = IF kind = "di" THEN DiSlots ELSE Slots
  BY SlotsAssumption, <1>1 DEF SlotCount
<1>3. buf \in [1 .. SlotCount -> Slot] /\ \A i \in 1 .. SlotCount : NoFlags(buf[i])
  BY <1>1, UnusedType
<1>4. TypeOK
  <2>1. <<>> \in Seq(1 .. SlotCount) /\ 0 \in 0 .. SlotCount
    BY <1>2
  <2>2. PoolOK
    BY <1>1, <1>3, <2>1 DEF PoolOK
  <2>3. FlagsOK
    BY DEF Init, FlagsOK
  <2>4. nn \in [Frame -> Statuses]
    BY DEF Init, Statuses
  <2>5. dma = "none" /\ vinfo = 0
    BY DEF Init
  <2>6. StatesOK
    BY <1>1, <2>3, <2>4, <2>5, UnusedType DEF StatesOK, Places
  <2>. QED
    BY <2>2, <2>6 DEF TypeOK
<1>5. ~Live /\ ~AtWork
  BY <1>1 DEF Live, AtWork
<1>6. ~di.fd /\ ~di.fence /\ ~di.out /\ ~di.layer
  BY <1>1 DEF NoDi
<1>7. Rests /\ Kinds
  BY <1>1, <1>3, <1>5, <1>6 DEF Rests, Kinds
<1>8. kind = "sr" => SrInv
  BY <1>1, <1>2, <1>3 DEF SrInv, NoFlags
<1>9. kind = "di" => DiInv
  BY <1>1, <1>2, <1>3, <1>5, <1>6 DEF DiInv, NoFlags
<1>10. InSlots(buf) = 0
  BY <1>2, <1>3, NothingInSlots DEF NoFlags
<1>11. Kept(di) = 0
  <2>1. Kept(di) = One(di.fd) + One(di.fence) + One(di.out) + One(di.layer)
    BY <1>1, UnusedType, KeptType
  <2>. QED
    BY <1>6, <2>1 DEF One
<1>12. QueuedOpen = 0
  <2>1. <<thread = "popped">> = <<FALSE>> /\ Held(<<FALSE>>) = 0 /\ Len(queue) = 0
    BY <1>1, HeldFew DEF One
  <2>2. Held(<<thread = "popped">>) = 0
    BY <2>1
  <2>3. QueuedOpen = 0 \/ QueuedOpen = 0 + 0
    BY <2>1, <2>2 DEF QueuedOpen
  <2>. QED
    BY <2>3
<1>13. kind \in {"pq", "color"} => cur < Slots /\ \A i \in 1 .. Slots : NoFlags(buf[i])
  BY <1>1, <1>2, <1>3
<1>14. open = InSlots(buf) + Kept(di) + QueuedOpen
  <2>1. open = 0 + 0 + 0
    BY <1>1
  <2>. QED
    BY <1>10, <1>11, <1>12, <2>1
<1>. QED
  BY <1>4, <1>7, <1>8, <1>9, <1>13, <1>14 DEF IInv

LEMMA NextKeeps == IInv /\ [Next]_vars => IInv'
<1>. SUFFICES ASSUME IInv, [Next]_vars PROVE IInv'
  OBVIOUS
<1>1. CASE Manager
  BY <1>1, QuietKeeps, SetupKeeps DEF Manager, Quiet
<1>2. CASE Rebuild
  BY <1>2, TeardownKeeps, SetupKeeps DEF Rebuild
<1>3. CASE Async
  BY <1>3, QuietKeeps, SrQueueKeeps, CacheKeeps DEF Async, Quiet
<1>4. CASE DiAsync
  BY <1>4, DiQuietKeeps, DiResetKeeps, DiProgressiveKeeps DEF DiAsync, DiQuiet
<1>5. CASE Shows
  BY <1>5, QuietKeeps, DisplayedKeeps, DiTakeSlotKeeps, DiDisplayedKeeps DEF Shows, Quiet
<1>6. CASE Works
  BY <1>6, QuietKeeps, StartKeeps, PopKeeps, CloseKeeps, DiRecycleKeeps DEF Works, Quiet
<1>7. CASE diRecycle(FALSE)
  BY <1>7, DiRecycleKeeps
<1>8. CASE threadExit \/ allocThreadProcess \/ LoadNNModel \/ \E f \in Frame : Decode(f)
  BY <1>8, QuietKeeps DEF Quiet
<1>9. CASE UNCHANGED vars
  <2>1. /\ kind' = kind /\ has' = has /\ mInited' = mInited /\ mExitThread' = mExitThread /\ reset' = reset
        /\ queue' = queue /\ buf' = buf /\ cur' = cur /\ odd' = odd /\ mNeed_fence' = mNeed_fence /\ dma' = dma
        /\ vinfo' = vinfo /\ backend' = backend /\ loaded' = loaded /\ thread' = thread /\ nn' = nn
        /\ di' = di /\ composer' = composer /\ open' = open /\ refused' = refused
    BY <1>9 DEF vars, life, pool, env
  <2>. QED
    BY <2>1 DEF IInv, TypeOK, StatesOK, FlagsOK, PoolOK, SlotCount, Rests, Kinds, SrInv, DiInv,
                Live, AtWork, Line,
                Back, QueuedOpen
<1>. QED
  BY <1>1, <1>2, <1>3, <1>4, <1>5, <1>6, <1>7, <1>8, <1>9 DEF Next

(* A DI fence is left open for good only while the DI back end is off: only    *)
(* NnProcessor's thread leaves one.                                          *)
LostOK == lost \in Nat /\ (backend => lost = 0)

LEMMA LostKeeps ==
    ASSUME IInv, LostOK, [Next]_vars
    PROVE  LostOK'
<1>1. SUFFICES \/ lost' = lost /\ backend' = backend
               \/ srStart
  <2>1. ASSUME srStart PROVE LostOK'
    <3>1. /\ lost' = lost + Held(<<Front.input /\ ~backend>>) /\ backend' = backend
          /\ queue # <<>>
      BY <2>1 DEF srStart, ThreadOnly, env
    <3>2. Front \in Slot
      BY <3>1, FrontType DEF IInv
    <3>3. PICK b \in BOOLEAN : b = (Front.input /\ ~backend)
      BY <3>2 DEF Slot
    <3>4. lost' = lost + One(b)
      BY <3>1, <3>3, HeldFew
    <3>5. One(b) \in Nat /\ (backend => One(b) = 0)
      BY <3>3 DEF One
    <3>. QED
      BY <3>1, <3>4, <3>5 DEF LostOK
  <2>. QED
    BY <2>1 DEF LostOK
<1>2. CASE Manager
  BY <1>2 DEF Manager, setUpAiSrProcessor, setUpAiPqProcessor, setUpAiColorProcessor,
              setUpDiProcessor, NewProcessor, tearDownProcessors, resetProcessors, StartTeardown, env
<1>3. CASE Rebuild
  BY <1>3 DEF Rebuild, leave, renew, setUpAgain, teardown, teardownSr, teardownPq, teardownDi, env
<1>4. CASE Async
  BY <1>4 DEF Async, srBypass, srUnsized, srRefuse, srQueue, PqBypass, PqSkip, PqQueue,
              ColorBypass, ColorSkip, ColorQueue, CacheFrame, env
<1>5. CASE DiAsync
  BY <1>5 DEF DiAsync, diError, diReset, diBypass, diFirstInterlaced, diInterlaced, diProgressive,
              diRepeatsFirst, diRepeats, diRepeatsProgressive, DiResult, env
<1>6. CASE Shows
  BY <1>6 DEF Shows, waitForRoom, onBufferDisplayed, diTakeSlot, diDisplayed, env
<1>7. CASE Works \/ diRecycle(FALSE)
  BY <1>7 DEF Works, ai_sr_process, ai_pq_process, ai_color_process, threadPop, threadClose,
              diRecycle, ThreadOnly, env
<1>8. CASE threadExit \/ allocThreadProcess \/ LoadNNModel \/ \E f \in Frame : Decode(f)
  BY <1>8 DEF threadExit, allocThreadProcess, LoadNNModel, Decode, env
<1>9. CASE UNCHANGED vars
  BY <1>9 DEF vars, env
<1>. QED
  BY <1>2, <1>3, <1>4, <1>5, <1>6, <1>7, <1>8, <1>9 DEF Next

(* Whatever the buffers are and however many slots there are, the state of a  *)
(* processor is one its code can name: the queue holds indices of slots, the  *)
(* current slot is a slot, the threads are where threadMain, threadProcess    *)
(* and the composing thread can be.                                          *)
THEOREM TypeCorrect == Spec => [](TypeOK /\ lost \in Nat)
<1>1. Init => LostOK
  BY DEF Init, LostOK
<1>2. IInv /\ LostOK => TypeOK /\ lost \in Nat
  BY DEF IInv, LostOK
<1>. QED
  BY <1>1, <1>2, InitKeeps, NextKeeps, LostKeeps, PTL DEF Spec

(* A descriptor NnProcessor, AipqProcessor, AiColorProcessor and DiProcessor  *)
(* dup'ed or were given is in one place that closes it, for any number of     *)
(* slots and any length of DI's queue; DI fences that come while the DI back   *)
(* end is off are the ones left open.                                        *)
THEOREM DescriptorsStay == Spec => []DescriptorsKept
<1>1. Init => LostOK
  BY DEF Init, LostOK
<1>2. IInv /\ LostOK => DescriptorsKept
  BY DEF IInv, LostOK, DescriptorsKept, InSlots, QueuedOpen
<1>. QED
  BY <1>1, <1>2, InitKeeps, NextKeeps, LostKeeps, PTL DEF Spec
=============================================================================
