------------------------- MODULE VideoTunnelProofs -------------------------
(***************************************************************************)
(* What holds of VideoTunnel for every set of layers, tunnels, descriptors *)
(* and requests, and whether or not layers share a tunnel: the types of    *)
(* the state, what ties the frame a layer is about to show to its queue    *)
(* and to its consumer, and that a layer holds every frame once.           *)
(* Then that the lease of the frames is kept (LeaseKept), under hypotheses *)
(* on the requests.                                                        *)
(***************************************************************************)
EXTENDS VideoTunnel, FiniteSetTheorems, SequenceTheorems, TLAPS

\* What CurrentIsHead and TunedHasConsumer say of one layer.
HeadOK(L) == L.cur # NoFd => L.queue # <<>> /\ L.queue[1].fd = L.cur

TunedOK(L) == IF L.tunnel # NoTunnel THEN L.consumer
              ELSE L.queue = <<>> /\ L.cur = NoFd

Good(L) == L \in LayerState /\ HeadOK(L) /\ TunedOK(L)

----------------------------------------------------------------------------
(* One field of a layer at a time *)

\* A field that neither CurrentIsHead nor TunedHasConsumer reads.
LEMMA FieldGood ==
  ASSUME NEW L, Good(L)
  PROVE  /\ \A v \in {"none", "live", "dying", "dead"} : Good([L EXCEPT !.life = v])
         /\ \A v \in BOOLEAN : Good([L EXCEPT !.vt = v])
         /\ \A v \in BOOLEAN : Good([L EXCEPT !.needRelease = v])
         /\ \A v \in {"none", "live", "dangling"} : Good([L EXCEPT !.listener = v])
         /\ \A v \in MaybeFd : Good([L EXCEPT !.pre = v])
         /\ \A v \in Times \cup {-1} : Good([L EXCEPT !.ts = v])
         /\ \A v \in 0..MaxNow : Good([L EXCEPT !.now = v])
         /\ \A v \in BOOLEAN : Good([L EXCEPT !.update = v])
         /\ \A v \in BOOLEAN : Good([L EXCEPT !.refreshed = v])
         /\ \A v \in BOOLEAN : Good([L EXCEPT !.retuned = v])
         /\ \A v \in BOOLEAN : Good([L EXCEPT !.game = v])
         /\ \A v \in AllStatuses : Good([L EXCEPT !.status = v])
         /\ \A v \in BOOLEAN : Good([L EXCEPT !.solid = v])
         /\ \A v \in BOOLEAN : Good([L EXCEPT !.solidHandle = v])
         /\ \A v \in Fences : Good([L EXCEPT !.curFence = v])
         /\ \A v \in Fences : Good([L EXCEPT !.prevFence = v])
  <1>1. \A v \in {"none", "live", "dying", "dead"} : Good([L EXCEPT !.life = v])
    BY DEF Good, LayerState, HeadOK, TunedOK
  <1>2. \A v \in BOOLEAN : Good([L EXCEPT !.vt = v])
    BY DEF Good, LayerState, HeadOK, TunedOK
  <1>3. \A v \in BOOLEAN : Good([L EXCEPT !.needRelease = v])
    BY DEF Good, LayerState, HeadOK, TunedOK
  <1>4. \A v \in {"none", "live", "dangling"} : Good([L EXCEPT !.listener = v])
    BY DEF Good, LayerState, HeadOK, TunedOK
  <1>5. \A v \in MaybeFd : Good([L EXCEPT !.pre = v])
    BY DEF Good, LayerState, HeadOK, TunedOK
  <1>6. \A v \in Times \cup {-1} : Good([L EXCEPT !.ts = v])
    BY DEF Good, LayerState, HeadOK, TunedOK
  <1>7. \A v \in 0..MaxNow : Good([L EXCEPT !.now = v])
    BY DEF Good, LayerState, HeadOK, TunedOK
  <1>8. \A v \in BOOLEAN : Good([L EXCEPT !.update = v])
    BY DEF Good, LayerState, HeadOK, TunedOK
  <1>9. \A v \in BOOLEAN : Good([L EXCEPT !.refreshed = v])
    BY DEF Good, LayerState, HeadOK, TunedOK
  <1>10. \A v \in BOOLEAN : Good([L EXCEPT !.retuned = v])
    BY DEF Good, LayerState, HeadOK, TunedOK
  <1>11. \A v \in BOOLEAN : Good([L EXCEPT !.game = v])
    BY DEF Good, LayerState, HeadOK, TunedOK
  <1>12. \A v \in AllStatuses : Good([L EXCEPT !.status = v])
    BY DEF Good, LayerState, HeadOK, TunedOK
  <1>13. \A v \in BOOLEAN : Good([L EXCEPT !.solid = v])
    BY DEF Good, LayerState, HeadOK, TunedOK
  <1>14. \A v \in BOOLEAN : Good([L EXCEPT !.solidHandle = v])
    BY DEF Good, LayerState, HeadOK, TunedOK
  <1>15. \A v \in Fences : Good([L EXCEPT !.curFence = v])
    BY DEF Good, LayerState, HeadOK, TunedOK
  <1>16. \A v \in Fences : Good([L EXCEPT !.prevFence = v])
    BY DEF Good, LayerState, HeadOK, TunedOK
  <1> QED
    BY <1>1, <1>2, <1>3, <1>4, <1>5, <1>6, <1>7, <1>8, <1>9, <1>10, <1>11, <1>12, <1>13, <1>14, <1>15, <1>16

LEMMA CurrentGood ==
  ASSUME NEW L, Good(L)
  PROVE  /\ Good([L EXCEPT !.cur = NoFd])
         /\ [L EXCEPT !.cur = NoFd].cur = NoFd
         /\ [L EXCEPT !.cur = NoFd].queue = L.queue
         /\ [L EXCEPT !.cur = NoFd].tunnel = L.tunnel
  BY DEF Good, LayerState, HeadOK, TunedOK, MaybeFd

LEMMA QueueGood ==
  ASSUME NEW L, Good(L), L.cur = NoFd, NEW q \in Seq(Item),
         q = <<>> \/ L.tunnel # NoTunnel
  PROVE  /\ Good([L EXCEPT !.queue = q])
         /\ [L EXCEPT !.queue = q].queue = q
         /\ [L EXCEPT !.queue = q].cur = NoFd
  BY DEF Good, LayerState, HeadOK, TunedOK

LEMMA UntunedGood ==
  ASSUME NEW L, Good(L), L.cur = NoFd, L.queue = <<>>
  PROVE  /\ Good([L EXCEPT !.tunnel = NoTunnel])
         /\ [L EXCEPT !.tunnel = NoTunnel].queue = <<>>
         /\ [L EXCEPT !.tunnel = NoTunnel].cur = NoFd
  BY DEF Good, LayerState, HeadOK, TunedOK

\* A layer that holds no frame it would still show may be tuned and untuned,
\* and given a consumer, in any order.
Bare(L) == L \in LayerState /\ L.cur = NoFd /\ L.queue = <<>>

LEMMA GoodBare ==
  ASSUME NEW L
  PROVE  /\ Bare(L) /\ (L.tunnel = NoTunnel \/ L.consumer) => Good(L)
         /\ Good(L) /\ L.tunnel = NoTunnel => Bare(L)
         /\ Good(L) /\ L.cur = NoFd /\ L.queue = <<>> => Bare(L)
  BY DEF Good, LayerState, HeadOK, TunedOK, Bare

LEMMA FieldBare ==
  ASSUME NEW L, Bare(L)
  PROVE  /\ \A v \in BOOLEAN : /\ Bare([L EXCEPT !.consumer = v])
                              /\ [L EXCEPT !.consumer = v].tunnel = L.tunnel
                              /\ [L EXCEPT !.consumer = v].consumer = v
         /\ \A v \in {"none", "live", "dangling"} :
               /\ Bare([L EXCEPT !.listener = v])
               /\ [L EXCEPT !.listener = v].tunnel = L.tunnel
               /\ [L EXCEPT !.listener = v].consumer = L.consumer
         /\ \A v \in BOOLEAN : /\ Bare([L EXCEPT !.retuned = v])
                              /\ [L EXCEPT !.retuned = v].tunnel = L.tunnel
                              /\ [L EXCEPT !.retuned = v].consumer = L.consumer
         /\ [L EXCEPT !.queue = <<>>] = L
  <1>1. \A v \in BOOLEAN : /\ Bare([L EXCEPT !.consumer = v])
                          /\ [L EXCEPT !.consumer = v].tunnel = L.tunnel
                          /\ [L EXCEPT !.consumer = v].consumer = v
    BY DEF Bare, LayerState
  <1>2. \A v \in {"none", "live", "dangling"} :
            /\ Bare([L EXCEPT !.listener = v])
            /\ [L EXCEPT !.listener = v].tunnel = L.tunnel
            /\ [L EXCEPT !.listener = v].consumer = L.consumer
    BY DEF Bare, LayerState
  <1>3. \A v \in BOOLEAN : /\ Bare([L EXCEPT !.retuned = v])
                          /\ [L EXCEPT !.retuned = v].tunnel = L.tunnel
                          /\ [L EXCEPT !.retuned = v].consumer = L.consumer
    BY DEF Bare, LayerState
  <1>4. [L EXCEPT !.queue = <<>>] = L
    BY DEF Bare, LayerState
  <1> QED
    BY <1>1, <1>2, <1>3, <1>4

LEMMA TunnelBare ==
  ASSUME NEW L, Bare(L), NEW v \in Tunnels \cup {NoTunnel}
  PROVE  /\ Bare([L EXCEPT !.tunnel = v])
         /\ [L EXCEPT !.tunnel = v].tunnel = v
         /\ [L EXCEPT !.tunnel = v].consumer = L.consumer
  BY DEF Bare, LayerState

LEMMA NewLayerBare == Bare(NewLayer) /\ NewLayer.tunnel = NoTunnel
  <1>1. NewLayer \in LayerState
    <2>1. /\ <<>> \in Seq(Item) /\ NoFd \in MaybeFd /\ NoFd \in Fences
          /\ -1 \in Times \cup {-1} /\ 0 \in 0..MaxNow
          /\ "show" \in AllStatuses
      BY TimeAssumption DEF MaybeFd, Fences, AllStatuses
    <2> QED
      BY <2>1 DEF NewLayer, LayerState
  <1> QED
    BY <1>1 DEF NewLayer, Bare

----------------------------------------------------------------------------
(* What the functions of Hwc2Layer return *)

\* clearBufferInfo, with the fence and the type it sets.
LEMMA ClearBufferInfoGood ==
  ASSUME NEW L, Good(L)
  PROVE  Good(ClearBufferInfo(L))
  <1> DEFINE v == IF L.vt THEN L.prevFence ELSE L.curFence
             M == [L EXCEPT !.prevFence = v]
  <1>1. v \in Fences
    BY DEF Good, LayerState
  <1>2. Good(M)
    BY <1>1, FieldGood
  <1>3. Good([M EXCEPT !.vt = FALSE])
    <2> HIDE DEF M
    <2> QED
      BY <1>2, FieldGood
  <1> QED
    BY <1>3 DEF ClearBufferInfo

LEMMA MoveFenceGood ==
  ASSUME NEW L, Good(L)
  PROVE  Good(MoveFence(L))
  <1> DEFINE v == IF L.curFence = NoFd THEN L.prevFence ELSE L.curFence
             M == [L EXCEPT !.prevFence = v]
  <1>1. v \in Fences
    BY DEF Good, LayerState
  <1>2. Good(M)
    BY <1>1, FieldGood
  <1>3. Good([M EXCEPT !.curFence = NoFd])
    <2> HIDE DEF M
    <2> QED
      BY <1>2, FieldGood DEF Fences, MaybeFd
  <1> QED
    BY <1>3 DEF MoveFence

LEMMA FreeSolidGood ==
  ASSUME NEW L, Good(L)
  PROVE  Good(FreeSolid(L))
  <1> DEFINE A == [L EXCEPT !.solid = FALSE]
             B == [A EXCEPT !.update = FALSE]
             C == [B EXCEPT !.refreshed = FALSE]
             D == [C EXCEPT !.curFence = OtherFence]
  <1>1. Good(A)
    BY FieldGood
  <1> HIDE DEF A
  <1>2. Good(B)
    BY <1>1, FieldGood
  <1> HIDE DEF B
  <1>3. Good(C)
    BY <1>2, FieldGood
  <1> HIDE DEF C
  <1>4. Good(D)
    BY <1>3, FieldGood DEF Fences
  <1>5. D = [L EXCEPT !.solid = FALSE, !.update = FALSE, !.refreshed = FALSE,
                      !.curFence = OtherFence]
    BY DEF A, B, C
  <1> HIDE DEF D
  <1> QED
    BY <1>4, <1>5 DEF FreeSolid

LEMMA PostSolidGood ==
  ASSUME NEW L, Good(L)
  PROVE  Good(PostSolid(L))
  <1> DEFINE again == L.solidHandle /\ L.refreshed /\ L.status \in {"once", "always"}
             v     == L.solid \/ again
             A     == [L EXCEPT !.solid = v]
             B     == [A EXCEPT !.curFence = OtherFence]
  <1>1. v \in BOOLEAN
    BY DEF Good, LayerState
  <1>2. Good(A)
    BY <1>1, FieldGood
  <1>3. B = [L EXCEPT !.solid = v, !.curFence = OtherFence]
    OBVIOUS
  <1> HIDE DEF A
  <1>4. Good(B)
    BY <1>2, FieldGood DEF Fences
  <1>5. Good(FreeSolid(B)) /\ Good(FreeSolid(L))
    BY <1>4, FreeSolidGood
  <1> QED
    BY <1>3, <1>5 DEF PostSolid

LEMMA ReleaseHeldGood ==
  ASSUME NEW L, Good(L), NEW keepLast
  PROVE  /\ Good(ReleaseHeld(L, keepLast))
         /\ Bare(ReleaseHeld(L, keepLast))
         /\ ReleaseHeld(L, keepLast).tunnel = L.tunnel
         /\ ReleaseHeld(L, keepLast).consumer = L.consumer
  <1> DEFINE v == IF keepLast THEN L.pre ELSE NoFd
             A == [L EXCEPT !.pre = v]
             B == [A EXCEPT !.cur = NoFd]
             C == [B EXCEPT !.queue = <<>>]
             D == [C EXCEPT !.update = FALSE]
             E == [D EXCEPT !.ts = -1]
             F == [E EXCEPT !.needRelease = FALSE]
  <1>1. v \in MaybeFd
    BY DEF Good, LayerState, MaybeFd
  <1>2. F = ReleaseHeld(L, keepLast)
    BY DEF ReleaseHeld
  <1>3. F.tunnel = L.tunnel /\ F.consumer = L.consumer
    OBVIOUS
  <1> HIDE DEF v
  <1>4. Good(A)
    BY <1>1, FieldGood
  <1> HIDE DEF A
  <1>5. Good(B) /\ B.cur = NoFd
    BY <1>4, CurrentGood
  <1> HIDE DEF B
  <1>6. Good(C) /\ C.queue = <<>> /\ C.cur = NoFd
    <2>1. <<>> \in Seq(Item)
      OBVIOUS
    <2> QED
      BY <1>5, <2>1, QueueGood
  <1> HIDE DEF C
  <1>7. Good(D) /\ D.queue = <<>> /\ D.cur = NoFd
    <2>1. Good(D)
      BY <1>6, FieldGood
    <2>2. D.queue = C.queue /\ D.cur = C.cur
      OBVIOUS
    <2> QED
      BY <1>6, <2>1, <2>2
  <1> HIDE DEF D
  <1>8. Good(E) /\ E.queue = <<>> /\ E.cur = NoFd
    <2>1. Good(E)
      BY <1>7, FieldGood
    <2>2. E.queue = D.queue /\ E.cur = D.cur
      OBVIOUS
    <2> QED
      BY <1>7, <2>1, <2>2
  <1> HIDE DEF E
  <1>9. Good(F) /\ F.queue = <<>> /\ F.cur = NoFd
    <2>1. Good(F)
      BY <1>8, FieldGood
    <2>2. F.queue = E.queue /\ F.cur = E.cur
      OBVIOUS
    <2> QED
      BY <1>8, <2>1, <2>2
  <1> HIDE DEF F
  <1> QED
    BY <1>2, <1>3, <1>9, GoodBare

LEMMA UnregisteredBare ==
  ASSUME NEW L, Bare(L)
  PROVE  Bare(Unregistered(L)) /\ Unregistered(L).tunnel = NoTunnel
  <1> DEFINE A == [L EXCEPT !.consumer = FALSE]
             B == [A EXCEPT !.listener = "none"]
             C == [B EXCEPT !.tunnel = NoTunnel]
  <1>1. C = Unregistered(L)
    BY DEF Unregistered
  <1>2. Bare(A)
    BY FieldBare
  <1> HIDE DEF A
  <1>3. Bare(B)
    BY <1>2, FieldBare
  <1> HIDE DEF B
  <1>4. Bare(C) /\ C.tunnel = NoTunnel
    BY <1>3, TunnelBare
  <1> HIDE DEF C
  <1> QED
    BY <1>1, <1>4

LEMMA AfterStatusGood ==
  ASSUME NEW L, Good(L)
  PROVE  Good(AfterStatus(L))
  <1> DEFINE R == IF StatusReleases(L) /\ ReleaseApplies(L)
                  THEN ReleaseHeld(L, L.status = "hold") ELSE L
  <1>1. Good(R)
    BY ReleaseHeldGood
  <1> HIDE DEF R
  <1>2. \A v \in AllStatuses : Good([R EXCEPT !.status = v])
    BY <1>1, FieldGood
  <1>3. Good([R EXCEPT !.status = "show"])
    BY <1>2 DEF AllStatuses
  <1>4. Good([R EXCEPT !.curFence = OtherFence])
    BY <1>1, FieldGood DEF Fences
  <1>5. Good(FreeSolid([R EXCEPT !.status = "show"]))
    BY <1>3, FreeSolidGood
  <1> QED
    BY <1>1, <1>3, <1>4, <1>5 DEF AfterStatus, R

\* A tuned layer whose queue is being changed need not keep cur at its head.
Loose(L) == L \in LayerState /\ TunedOK(L) /\ L.tunnel # NoTunnel

LEMMA FieldLoose ==
  ASSUME NEW L, Loose(L)
  PROVE  /\ \A q \in Seq(Item) : /\ Loose([L EXCEPT !.queue = q])
                                 /\ [L EXCEPT !.queue = q].queue = q
         /\ \A v \in MaybeFd : Loose([L EXCEPT !.pre = v])
         /\ Good([L EXCEPT !.cur = NoFd])
         /\ \A v \in Fds : L.queue # <<>> /\ L.queue[1].fd = v
                             => Good([L EXCEPT !.cur = v])
  <1>1. \A q \in Seq(Item) : Loose([L EXCEPT !.queue = q])
                             /\ [L EXCEPT !.queue = q].queue = q
    BY DEF Loose, LayerState, TunedOK
  <1>2. \A v \in MaybeFd : Loose([L EXCEPT !.pre = v])
    BY DEF Loose, LayerState, TunedOK
  <1>3. Good([L EXCEPT !.cur = NoFd])
    BY DEF Loose, LayerState, TunedOK, Good, HeadOK, MaybeFd
  <1>4. \A v \in Fds : L.queue # <<>> /\ L.queue[1].fd = v
                         => Good([L EXCEPT !.cur = v])
    BY DEF Loose, LayerState, TunedOK, Good, HeadOK, MaybeFd
  <1> QED
    BY <1>1, <1>2, <1>3, <1>4

\* updateVtBuffer never drops the whole queue.
LEMMA DropCountBound ==
  ASSUME NEW L, L.queue \in Seq(Item), L.queue # <<>>
  PROVE  DropCount(L) \in 0..Len(L.queue) - 1
  <1>1. Len(L.queue) \in Nat \ {0} /\ DOMAIN L.queue = 1..Len(L.queue)
    BY EmptySeq, LenProperties
  <1>2. IsFiniteSet(1..Len(L.queue)) /\ Cardinality(1..Len(L.queue)) = Len(L.queue)
    BY <1>1, FS_Interval
  <1>3. Expired(L) \in SUBSET (1..Len(L.queue))
    BY <1>1 DEF Expired
  <1>4. /\ IsFiniteSet(Expired(L))
        /\ Cardinality(Expired(L)) <= Len(L.queue)
    BY <1>2, <1>3, FS_Subset
  <1>5. /\ Cardinality(Expired(L)) \in Nat
        /\ Expired(L) # {} => Cardinality(Expired(L)) # 0
    BY <1>4, FS_CardinalityType, FS_EmptySet
  <1> QED
    BY <1>1, <1>4, <1>5 DEF DropCount

LEMMA UpdatedGood ==
  ASSUME NEW L, Good(L), L.queue # <<>>
  PROVE  Good(Updated(L))
  <1> DEFINE q == SubSeq(L.queue, DropCount(L) + 1, Len(L.queue))
             r == L.retuned /\ ~Due(L, q[1].ts)
             A == [L EXCEPT !.queue = q]
             B == [A EXCEPT !.cur = q[1].fd]
             C == [B EXCEPT !.ts = q[1].ts]
             D == [C EXCEPT !.update = TRUE]
             E == [D EXCEPT !.retuned = r]
  <1>1. L.queue \in Seq(Item) /\ L.tunnel # NoTunnel /\ Loose(L)
    BY DEF Good, LayerState, TunedOK, Loose
  <1>2. DropCount(L) \in 0..Len(L.queue) - 1
    BY <1>1, DropCountBound
  <1>3. Len(L.queue) \in Nat /\ \A i \in 1..Len(L.queue) : L.queue[i] \in Item
    BY <1>1, LenProperties, ElementOfSeq
  <1>4. /\ q \in Seq(Item)
        /\ Len(q) = Len(L.queue) - DropCount(L)
        /\ q # <<>>
    <2> DEFINE m == DropCount(L) + 1
               n == Len(L.queue)
               s == SubSeq(L.queue, m, n)
    <2>1. m \in Int /\ n \in Int /\ m <= n
      BY <1>2, <1>3
    <2>2. \A i \in m..n : L.queue[i] \in Item
      BY <1>2, <1>3
    <2>3. s \in Seq(Item) /\ Len(s) = n - m + 1
      <3> HIDE DEF m, n
      <3>1. /\ s \in Seq(Item)
            /\ Len(s) = IF m <= n THEN n - m + 1 ELSE 0
        BY <2>1, <2>2, SubSeqProperties
      <3> QED
        BY <2>1, <3>1
    <2>4. n - m + 1 = n - DropCount(L) /\ n - m + 1 # 0
      BY <1>2, <1>3
    <2> QED
      BY <2>3, <2>4, EmptySeq
  <1>5. q[1] \in Item
    BY <1>2, <1>3, <1>4, ElementOfSeq
  <1>6. E = Updated(L)
    BY DEF Updated
  <1> HIDE DEF q
  <1>7. Loose(A) /\ A.queue = q
    BY <1>1, <1>4, FieldLoose
  <1> HIDE DEF A
  <1>8. Good(B)
    BY <1>4, <1>5, <1>7, FieldLoose DEF Item
  <1> HIDE DEF B
  <1>9. Good(C)
    BY <1>5, <1>8, FieldGood DEF Item
  <1> HIDE DEF C
  <1>10. Good(D)
    BY <1>9, FieldGood
  <1> HIDE DEF D
  <1>11. r \in BOOLEAN
    BY DEF Good, LayerState
  <1> HIDE DEF r
  <1>12. Good(E)
    BY <1>10, <1>11, FieldGood
  <1> QED
    BY <1>6, <1>12

LEMMA AfterReleaseGood ==
  ASSUME NEW L, Good(L)
  PROVE  Good(AfterRelease(L))
  <1>1. Good([L EXCEPT !.refreshed = FALSE])
    BY FieldGood
  <1>2. Good(MoveFence([L EXCEPT !.refreshed = FALSE]))
    BY <1>1, MoveFenceGood
  <1>3. ASSUME L.queue # <<>>, L.pre = NoFd, L.cur = NoFd
        PROVE  Good(Popped(L))
    <2> DEFINE A == [L EXCEPT !.refreshed = FALSE]
               q == IF L.cur = NoFd THEN L.queue ELSE Tail(L.queue)
               B == [A EXCEPT !.queue = q]
    <2>1. B = Popped(L)
      BY DEF Popped
    <2>2. L.queue \in Seq(Item) /\ L.tunnel # NoTunnel
      BY <1>3 DEF Good, LayerState, TunedOK
    <2>3. A.cur = NoFd /\ A.tunnel # NoTunnel
      BY <1>3, <2>2
    <2> QED
      BY <1>1, <1>3, <2>1, <2>2, <2>3, QueueGood
  <1>4. ASSUME L.queue # <<>>
        PROVE  Good(Shifted(L))
    <2> DEFINE A == [L EXCEPT !.refreshed = FALSE]
               q == IF L.cur = NoFd THEN L.queue ELSE Tail(L.queue)
               B == [A EXCEPT !.queue = q]
               C == [B EXCEPT !.pre = L.cur]
               D == [C EXCEPT !.cur = NoFd]
               E == [D EXCEPT !.update = FALSE]
    <2>1. MoveFence(E) = Shifted(L)
      <3>1. B = Popped(L)
        BY DEF Popped
      <3>2. E = [Popped(L) EXCEPT !.pre = L.cur, !.cur = NoFd, !.update = FALSE]
        BY <3>1
      <3> QED
        BY <3>2 DEF Shifted
    <2>2. L.queue \in Seq(Item) /\ L.tunnel # NoTunnel /\ L.cur \in MaybeFd
      BY <1>4 DEF Good, LayerState, TunedOK
    <2>3. q \in Seq(Item)
      BY <1>4, <2>2, HeadTailProperties
    <2> HIDE DEF q
    <2>4. Loose(A)
      <3>1. Good(A) /\ A.tunnel # NoTunnel
        BY <1>1, <2>2
      <3> QED
        BY <3>1 DEF Good, Loose
    <2> HIDE DEF A
    <2>5. Loose(B)
      BY <2>3, <2>4, FieldLoose
    <2> HIDE DEF B
    <2>6. Loose(C)
      BY <2>2, <2>5, FieldLoose
    <2> HIDE DEF C
    <2>7. Good(D)
      BY <2>6, FieldLoose
    <2> HIDE DEF D
    <2>8. Good(E)
      BY <2>7, FieldGood
    <2> HIDE DEF E
    <2> QED
      BY <2>1, <2>8, MoveFenceGood
  <1>5. CASE RefreshOnly(L)
    <2>1. ~Consumes(L)
      BY <1>5 DEF RefreshOnly, Consumes
    <2> QED
      BY <1>2, <1>5, <2>1 DEF AfterRelease
  <1>6. CASE ~RefreshOnly(L) /\ ~Consumes(L)
    BY <1>1, <1>6 DEF AfterRelease
  <1>7. CASE ~RefreshOnly(L) /\ Consumes(L) /\ L.pre = NoFd /\ L.cur = NoFd
    <2>1. L.queue # <<>>
      BY <1>7 DEF Consumes
    <2>2. AfterRelease(L) = Popped(L)
      BY <1>7 DEF AfterRelease
    <2> QED
      BY <1>3, <1>7, <2>1, <2>2
  <1>8. CASE ~RefreshOnly(L) /\ Consumes(L) /\ ~(L.pre = NoFd /\ L.cur = NoFd)
    <2>1. L.queue # <<>>
      BY <1>8 DEF Consumes
    <2>2. AfterRelease(L) = Shifted(L)
      BY <1>8 DEF AfterRelease
    <2> QED
      BY <1>4, <2>1, <2>2
  <1> QED
    BY <1>5, <1>6, <1>7, <1>8

LEMMA AfterCmdGood ==
  ASSUME NEW L, Good(L), NEW c \in Cmds
  PROVE  Good(AfterCmd(L, c))
  <1>1. CASE c \in AllStatuses
    <2>1. AfterCmd(L, c) = [L EXCEPT !.status = c]
      BY <1>1 DEF AfterCmd, AllStatuses
    <2>2. \A v \in AllStatuses : Good([L EXCEPT !.status = v])
      BY FieldGood
    <2> QED
      BY <1>1, <2>1, <2>2
  <1>2. CASE c = "game"
    <2>1. AfterCmd(L, c) = [L EXCEPT !.game = ~L.game]
      BY <1>2 DEF AfterCmd, AllStatuses
    <2>2. (~L.game) \in BOOLEAN
      OBVIOUS
    <2> QED
      BY <2>1, <2>2, FieldGood
  <1>3. CASE c = "refresh"
    <2>1. AfterCmd(L, c) = [L EXCEPT !.refreshed = TRUE]
      BY <1>3 DEF AfterCmd, AllStatuses
    <2> QED
      BY <2>1, FieldGood
  <1>4. CASE c = "temp"
    <2> DEFINE A == [L EXCEPT !.solid = TRUE]
               B == [A EXCEPT !.solidHandle = TRUE]
               C == [B EXCEPT !.update = TRUE]
    <2>1. AfterCmd(L, c) = C
      BY <1>4 DEF AfterCmd, AllStatuses
    <2>2. Good(A)
      BY FieldGood
    <2> HIDE DEF A
    <2>3. Good(B)
      BY <2>2, FieldGood
    <2> HIDE DEF B
    <2>4. Good(C)
      BY <2>3, FieldGood
    <2> QED
      BY <2>1, <2>4
  <1> QED
    BY <1>1, <1>2, <1>3, <1>4 DEF Cmds

----------------------------------------------------------------------------
(* What happens to the buffer queues of the instances *)

Call == [fd : Fds, fence : Fences]

Back == [fd : Fds, fences : SUBSET Fds]

GoodLayers == {L \in LayerState : HeadOK(L) /\ TunedOK(L)}

LEMMA GoodLayersDef == \A L : L \in GoodLayers <=> Good(L)
  BY DEF GoodLayers, Good

LEMMA FencedType ==
  ASSUME NEW rel \in Seq(Call), NEW b \in BufferItem
  PROVE  Fenced(b, rel) \in BufferItem
  <1>1. DOMAIN rel = 1..Len(rel) /\ Len(rel) \in Nat
    BY LenProperties
  <1>2. IsFiniteSet(1..Len(rel)) /\ Calls(b, rel) \in SUBSET (1..Len(rel))
    BY <1>1, FS_Interval DEF Calls
  <1>3. Cardinality(Calls(b, rel)) \in Nat
    BY <1>2, FS_Subset, FS_CardinalityType
  <1> DEFINE f == b.fences \cup ({rel[i].fence : i \in Calls(b, rel)} \cap Fds)
             r == b.ref - Cardinality(Calls(b, rel))
  <1>4. r \in Int /\ f \in SUBSET Fds
    BY <1>3 DEF BufferItem
  <1>5. Fenced(b, rel) = [b EXCEPT !.ref = r, !.fences = f]
    BY DEF Fenced
  <1> HIDE DEF f, r
  <1> QED
    BY <1>4, <1>5 DEF BufferItem

LEMMA KeptFreedType ==
  ASSUME NEW rel \in Seq(Call), NEW bufs \in SUBSET BufferItem
  PROVE  /\ Kept(bufs, rel) \in SUBSET BufferItem
         /\ Freed(bufs, rel) \in SUBSET Back
  <1>1. \A b \in bufs : Fenced(b, rel) \in BufferItem
    BY FencedType
  <1>2. \A b \in bufs : b.fd \in Fds /\ Fenced(b, rel).fences \in SUBSET Fds
    BY <1>1 DEF BufferItem
  <1>3. Kept(bufs, rel) \in SUBSET BufferItem
    BY <1>1 DEF Kept
  <1>4. Freed(bufs, rel) \in SUBSET Back
    BY <1>2 DEF Freed, Back
  <1> QED
    BY <1>3, <1>4

LEMMA AfterCallsType ==
  ASSUME inst \in [Tunnels -> InstState], NEW L, L \in LayerState,
         NEW rel \in Seq(Call)
  PROVE  /\ AfterCalls(L, rel).insts \in [Tunnels -> InstState]
         /\ AfterCalls(L, rel).freed \in SUBSET Back
  <1>1. CASE L.consumer /\ L.listener = "live" /\ L.tunnel # NoTunnel
    <2> DEFINE t == L.tunnel
               i == [inst[t] EXCEPT !.bufs = Kept(inst[t].bufs, rel)]
    <2>1. t \in Tunnels
      BY <1>1 DEF LayerState
    <2>2. inst[t] \in InstState /\ inst[t].bufs \in SUBSET BufferItem
      BY <2>1 DEF InstState
    <2>3. /\ Kept(inst[t].bufs, rel) \in SUBSET BufferItem
          /\ Freed(inst[t].bufs, rel) \in SUBSET Back
      BY <2>2, KeptFreedType
    <2>4. i \in InstState
      BY <2>2, <2>3 DEF InstState
    <2>5. AfterCalls(L, rel) = [insts |-> [inst EXCEPT ![t] = i],
                                freed |-> Freed(inst[t].bufs, rel)]
      BY <1>1 DEF AfterCalls
    <2> HIDE DEF t, i
    <2> QED
      BY <2>1, <2>3, <2>4, <2>5
  <1>2. CASE ~(L.consumer /\ L.listener = "live" /\ L.tunnel # NoTunnel)
    BY <1>2 DEF AfterCalls
  <1> QED
    BY <1>1, <1>2

LEMMA OneType ==
  ASSUME NEW fd \in MaybeFd, NEW fence \in Fences
  PROVE  One(fd, fence) \in Seq(Call)
  <1>1. CASE fd = NoFd
    BY <1>1 DEF One
  <1>2. CASE fd # NoFd
    <2>1. [fd |-> fd, fence |-> fence] \in Call
      BY <1>2 DEF Call, MaybeFd
    <2> QED
      BY <1>2, <2>1 DEF One
  <1> QED
    BY <1>1, <1>2

LEMMA UnfencedType ==
  ASSUME NEW q \in Seq(Item)
  PROVE  Unfenced(q) \in Seq(Call)
  <1>1. Len(q) \in Nat /\ DOMAIN q = 1..Len(q)
    BY LenProperties
  <1>2. \A i \in 1..Len(q) : q[i].fd \in Fds
    <2>1. \A i \in 1..Len(q) : q[i] \in Item
      BY ElementOfSeq
    <2> QED
      BY <2>1 DEF Item
  <1>3. \A i \in 1..Len(q) : [fd |-> q[i].fd, fence |-> NoFd] \in Call
    BY <1>2 DEF Call, Fences, MaybeFd
  <1>4. Unfenced(q) \in [1..Len(q) -> Call]
    BY <1>1, <1>3 DEF Unfenced
  <1> QED
    BY <1>1, <1>4, SeqDef

LEMMA ReleaseCallsType ==
  ASSUME NEW L \in LayerState, NEW keepLast
  PROVE  ReleaseCalls(L, keepLast) \in Seq(Call)
  <1> DEFINE q == IF L.cur # NoFd /\ L.queue # <<>> THEN Tail(L.queue) ELSE L.queue
             a == IF keepLast THEN <<>> ELSE One(L.pre, L.prevFence)
             b == One(L.cur, L.curFence)
             c == Unfenced(q)
  <1>1. /\ L.queue \in Seq(Item) /\ L.cur \in MaybeFd /\ L.pre \in MaybeFd
        /\ L.curFence \in Fences /\ L.prevFence \in Fences
    BY DEF LayerState
  <1>2. q \in Seq(Item)
    BY <1>1, HeadTailProperties
  <1>3. a \in Seq(Call) /\ b \in Seq(Call)
    BY <1>1, OneType, EmptySeq
  <1>4. c \in Seq(Call)
    BY <1>2, UnfencedType
  <1>5. ReleaseCalls(L, keepLast) = a \o b \o c
    BY DEF ReleaseCalls
  <1> HIDE DEF a, b, c
  <1> QED
    BY <1>3, <1>4, <1>5, ConcatProperties

LEMMA ClearUpType ==
  ASSUME NEW insts \in [Tunnels -> InstState]
  PROVE  /\ ClearUp(insts) \in [Tunnels -> InstState]
         /\ ClearUpFreed(insts) \in SUBSET Back
  <1>1. NoInst \in InstState
    BY DEF NoInst, NewInst, InstState
  <1>2. ClearUp(insts) \in [Tunnels -> InstState]
    BY <1>1 DEF ClearUp
  <1>3. \A t \in Unused(insts) : insts[t].bufs \in SUBSET BufferItem
    BY DEF Unused, InstState
  <1>4. \A b \in UNION {insts[t].bufs : t \in Unused(insts)} : b.fd \in Fds
    BY <1>3 DEF BufferItem
  <1>5. ClearUpFreed(insts) \in SUBSET Back
    BY <1>4 DEF ClearUpFreed, Back
  <1> QED
    BY <1>2, <1>5

LEMMA ClearUpLayersGood ==
  ASSUME NEW insts, NEW layers \in [Layers -> GoodLayers]
  PROVE  ClearUpLayers(insts, layers) \in [Layers -> GoodLayers]
  <1>1. \A l \in Layers : /\ Good(layers[l])
                          /\ Good([layers[l] EXCEPT !.listener = "dangling"])
    BY FieldGood, GoodLayersDef
  <1> QED
    BY <1>1, GoodLayersDef DEF ClearUpLayers

----------------------------------------------------------------------------
(* The inductive invariant, and the steps that reach into an instance *)

EvState == [pc : {"idle", "scan", "deliver"}, left : SUBSET Tunnels,
            at : Tunnels \cup {NoTunnel}, items : Seq(Item),
            todo : SUBSET Layers]

DispState == [pc : {"wait", "update", "present", "post", "release"}, fd : MaybeFd]

IInv == /\ layer \in [Layers -> GoodLayers]
        /\ inst \in [Tunnels -> InstState]
        /\ ev \in EvState
        /\ disp \in [Layers -> DispState]
        /\ screen \in [Layers -> MaybeFd]
        /\ returned \in SUBSET Back

\* What Becomes is given.
Outcome == [layers : [Layers -> GoodLayers], insts : [Tunnels -> InstState],
            freed : SUBSET Back]

LEMMA UnchangedType ==
  ASSUME IInv, NEW l \in Layers, NEW L \in GoodLayers
  PROVE  /\ Unchanged(l, L) \in Outcome
         /\ Unchanged(l, L).layers[l] = L
         /\ Unchanged(l, L).insts = inst
  BY DEF IInv, Unchanged, Outcome

LEMMA DisconnectedType ==
  ASSUME IInv, NEW l \in Layers, NEW L \in GoodLayers
  PROVE  /\ Disconnected(l, L) \in Outcome
         /\ L.vt /\ L.tunnel # NoTunnel => /\ Bare(Disconnected(l, L).layers[l])
                                           /\ Disconnected(l, L).layers[l].tunnel = NoTunnel
  <1> DEFINE after  == AfterCalls(L, ReleaseCalls(L, FALSE))
             left   == [after.insts EXCEPT ![L.tunnel].consumers = @ \ {l}]
             H      == ReleaseHeld(L, FALSE)
             layers == [layer EXCEPT ![l] = Unregistered(H)]
  <1>1. Good(L) /\ L \in LayerState
    BY GoodLayersDef DEF Good
  <1>2. after.insts \in [Tunnels -> InstState] /\ after.freed \in SUBSET Back
    BY <1>1, AfterCallsType, ReleaseCallsType DEF IInv
  <1>3. Good(H) /\ Bare(H)
    BY <1>1, ReleaseHeldGood
  <1>4. Bare(Unregistered(H)) /\ Unregistered(H).tunnel = NoTunnel
    BY <1>3, UnregisteredBare
  <1>5. Unregistered(H) \in GoodLayers /\ H \in GoodLayers
    BY <1>3, <1>4, GoodBare, GoodLayersDef
  <1>6. layers \in [Layers -> GoodLayers] /\ layers[l] = Unregistered(H)
    BY <1>5 DEF IInv
  <1>7. CASE ~ReleaseApplies(L)
    <2>1. L.vt /\ L.tunnel # NoTunnel => FALSE
      BY <1>1, <1>7 DEF ReleaseApplies, Good, TunedOK
    <2>2. Disconnected(l, L) = Unchanged(l, L)
      BY <1>7 DEF Disconnected
    <2> QED
      BY <2>1, <2>2, UnchangedType
  <1>8. CASE ReleaseApplies(L) /\ L.tunnel = NoTunnel
    <2>1. Disconnected(l, L) = [Unchanged(l, H) EXCEPT !.insts = after.insts,
                                                       !.freed = after.freed]
      BY <1>8 DEF Disconnected
    <2>2. Unchanged(l, H) \in Outcome
      BY <1>5, UnchangedType
    <2> HIDE DEF after, H
    <2>3. Disconnected(l, L) \in Outcome
      BY <1>2, <2>1, <2>2 DEF Outcome
    <2> QED
      BY <1>8, <2>3
  <1>9. CASE ReleaseApplies(L) /\ L.tunnel # NoTunnel
    <2>1. Disconnected(l, L) = [layers |-> ClearUpLayers(left, layers),
                                insts  |-> ClearUp(left),
                                freed  |-> after.freed \cup ClearUpFreed(left)]
      BY <1>9 DEF Disconnected
    <2>2. L.tunnel \in Tunnels
      BY <1>1, <1>9 DEF LayerState
    <2>3. left \in [Tunnels -> InstState]
      <3> DEFINE i == after.insts[L.tunnel]
                 j == [i EXCEPT !.consumers = i.consumers \ {l}]
      <3>1. j \in InstState
        BY <1>2, <2>2 DEF InstState
      <3>2. left = [after.insts EXCEPT ![L.tunnel] = j]
        OBVIOUS
      <3> HIDE DEF j
      <3> QED
        BY <1>2, <3>1, <3>2
    <2>4. ClearUpLayers(left, layers)[l] \in {layers[l],
                                 [layers[l] EXCEPT !.listener = "dangling"]}
      BY DEF ClearUpLayers
    <2>5. /\ Bare([layers[l] EXCEPT !.listener = "dangling"])
          /\ [layers[l] EXCEPT !.listener = "dangling"].tunnel = NoTunnel
      <3> HIDE DEF layers
      <3>1. Bare(layers[l]) /\ layers[l].tunnel = NoTunnel
        BY <1>4, <1>6
      <3> QED
        BY <3>1, FieldBare
    <2> HIDE DEF left, layers, after
    <2>6. Disconnected(l, L) \in Outcome
      BY <1>2, <1>6, <2>1, <2>3, ClearUpType, ClearUpLayersGood DEF Outcome
    <2>7. Disconnected(l, L).layers[l] = ClearUpLayers(left, layers)[l]
      BY <2>1
    <2> QED
      BY <1>4, <1>6, <2>4, <2>5, <2>6, <2>7
  <1> QED
    BY <1>7, <1>8, <1>9

LEMMA InterruptedType ==
  ASSUME IInv, NEW l \in Layers
  PROVE  Interrupted(l) \in Outcome
  <1> DEFINE L     == layer[l]
             A     == AfterStatus(L)
             after == IF StatusReleases(L) /\ ReleaseApplies(L)
                      THEN AfterCalls(L, ReleaseCalls(L, L.status = "hold"))
                      ELSE [insts |-> inst, freed |-> {}]
             M     == IF ShowsSolid(L) THEN PostSolid(A) ELSE A
  <1>1. Good(L) /\ L \in LayerState
    BY GoodLayersDef DEF IInv, Good
  <1>2. Good(M)
    BY <1>1, AfterStatusGood, PostSolidGood
  <1>3. after.insts \in [Tunnels -> InstState] /\ after.freed \in SUBSET Back
    BY <1>1, AfterCallsType, ReleaseCallsType DEF IInv
  <1>4. Interrupted(l) = [layers |-> [layer EXCEPT ![l] = M],
                          insts |-> after.insts, freed |-> after.freed]
    BY DEF Interrupted
  <1> HIDE DEF M, after
  <1>5. [layer EXCEPT ![l] = M] \in [Layers -> GoodLayers]
    BY <1>2, GoodLayersDef DEF IInv
  <1> QED
    BY <1>3, <1>4, <1>5 DEF Outcome

LEMMA SweptType ==
  ASSUME IInv
  PROVE  Swept \in Outcome
  BY ClearUpType, ClearUpLayersGood DEF IInv, Swept, Outcome

LEMMA BecomesInv ==
  ASSUME NEW s \in Outcome, Becomes(s), ev' \in EvState,
         disp' \in [Layers -> DispState], screen' \in [Layers -> MaybeFd]
  PROVE  IInv'
  BY DEF Outcome, Becomes, IInv

\* A step that changes one layer and nothing else of the layers and instances.
LEMMA LayerInv ==
  ASSUME IInv, NEW l \in Layers, NEW L, Good(L), layer' = [layer EXCEPT ![l] = L],
         inst' = inst, ev' \in EvState, disp' \in [Layers -> DispState],
         screen' \in [Layers -> MaybeFd], returned' = {}
  PROVE  IInv'
  <1>1. layer' \in [Layers -> GoodLayers]
    BY GoodLayersDef DEF IInv
  <1> QED
    BY <1>1 DEF IInv

LEMMA LayersGood ==
  ASSUME IInv, NEW l \in Layers
  PROVE  Good(layer[l]) /\ layer[l] \in GoodLayers
  BY GoodLayersDef DEF IInv

\* An outcome whose layer l is changed once more.
LEMMA OutcomeExcept ==
  ASSUME NEW s \in Outcome, NEW l \in Layers, NEW L, Good(L)
  PROVE  /\ [s EXCEPT !.layers[l] = L] \in Outcome
         /\ [s EXCEPT !.layers[l] = L].insts = s.insts
  <1> DEFINE f == [s.layers EXCEPT ![l] = L]
  <1>1. f \in [Layers -> GoodLayers]
    BY GoodLayersDef DEF Outcome
  <1>2. [s EXCEPT !.layers[l] = L] = [s EXCEPT !.layers = f]
    OBVIOUS
  <1> HIDE DEF f
  <1> QED
    BY <1>1, <1>2 DEF Outcome

----------------------------------------------------------------------------
(* SurfaceFlinger's steps *)

LEMMA CreateLayerInv ==
  ASSUME IInv, NEW l \in Layers, CreateLayer(l)
  PROVE  IInv'
  <1>1. Good(NewLayer)
    BY NewLayerBare, GoodBare
  <1> QED
    BY <1>1, LayerInv DEF CreateLayer, IInv

LEMMA SameSidebandStreamInv ==
  ASSUME IInv, NEW l \in Layers, SameSidebandStream(l)
  PROVE  IInv'
  <1> DEFINE A == ClearBufferInfo(layer[l])
             B == [A EXCEPT !.vt = TRUE]
  <1>1. Good(A)
    BY LayersGood, ClearBufferInfoGood
  <1>2. layer' = [layer EXCEPT ![l] = B]
    BY DEF SameSidebandStream
  <1> HIDE DEF A
  <1>3. Good(B)
    BY <1>1, FieldGood
  <1> HIDE DEF B
  <1> QED
    BY <1>2, <1>3, LayerInv DEF SameSidebandStream, IInv

LEMMA SetBufferInv ==
  ASSUME IInv, NEW l \in Layers, SetBuffer(l)
  PROVE  IInv'
  <1> DEFINE A == ClearBufferInfo(layer[l])
             v == A.needRelease \/ layer[l].vt
             B == [A EXCEPT !.needRelease = v]
  <1>1. Good(A)
    BY LayersGood, ClearBufferInfoGood
  <1>2. layer' = [layer EXCEPT ![l] = B]
    BY DEF SetBuffer
  <1>3. v \in BOOLEAN
    OBVIOUS
  <1> HIDE DEF A, v
  <1>4. Good(B)
    BY <1>1, <1>3, FieldGood
  <1> HIDE DEF B
  <1> QED
    BY <1>2, <1>4, LayerInv DEF SetBuffer, IInv

LEMMA SetColorInv ==
  ASSUME IInv, NEW l \in Layers, SetColor(l)
  PROVE  IInv'
  <1>1. Good(ClearBufferInfo(layer[l]))
    BY LayersGood, ClearBufferInfoGood
  <1> QED
    BY <1>1, LayerInv DEF SetColor, IInv

LEMMA VtRefreshInv ==
  ASSUME IInv, NEW l \in Layers, VtRefresh(l)
  PROVE  IInv'
  <1> DEFINE B == [layer[l] EXCEPT !.refreshed = TRUE]
  <1>1. Good(B)
    BY LayersGood, FieldGood
  <1>2. layer' = [layer EXCEPT ![l] = B]
    BY DEF VtRefresh
  <1> HIDE DEF B
  <1> QED
    BY <1>1, <1>2, LayerInv DEF VtRefresh, IInv

LEMMA ClearUpdateFlagInv ==
  ASSUME IInv, NEW l \in Layers, ClearUpdateFlag(l)
  PROVE  IInv'
  <1>1. Disconnected(l, layer[l]) \in Outcome
    BY LayersGood, DisconnectedType
  <1> QED
    BY <1>1, BecomesInv DEF ClearUpdateFlag, IInv

LEMMA DestroyLayerInv ==
  ASSUME IInv, NEW l \in Layers, DestroyLayer(l)
  PROVE  IInv'
  <1> DEFINE s == IF layer[l].vt THEN Disconnected(l, layer[l])
                                 ELSE Unchanged(l, layer[l])
             B == [s.layers[l] EXCEPT !.life = "dying"]
  <1>1. s \in Outcome
    BY LayersGood, DisconnectedType, UnchangedType
  <1>2. Becomes([s EXCEPT !.layers[l] = B])
    BY DEF DestroyLayer
  <1> HIDE DEF s
  <1>3. Good(s.layers[l])
    BY <1>1, GoodLayersDef DEF Outcome
  <1>4. Good(B)
    BY <1>3, FieldGood
  <1> HIDE DEF B
  <1>5. [s EXCEPT !.layers[l] = B] \in Outcome
    BY <1>1, <1>4, OutcomeExcept
  <1> QED
    BY <1>2, <1>5, BecomesInv DEF DestroyLayer, IInv

LEMMA DestructLayerInv ==
  ASSUME IInv, NEW l \in Layers, DestructLayer(l)
  PROVE  IInv'
  <1> DEFINE s == Disconnected(l, layer[l])
             B == [NewLayer EXCEPT !.life = "dead"]
  <1>1. s \in Outcome
    BY LayersGood, DisconnectedType
  <1>2. Becomes([s EXCEPT !.layers[l] = B])
    BY DEF DestructLayer
  <1>3. Good(B)
    BY NewLayerBare, GoodBare, FieldGood
  <1> HIDE DEF s, B
  <1>4. [s EXCEPT !.layers[l] = B] \in Outcome
    BY <1>1, <1>3, OutcomeExcept
  <1> QED
    BY <1>2, <1>4, BecomesInv DEF DestructLayer, IInv

\* An outcome in which layer l is being retuned, and what becomes of it.
Halfway(l) == {s \in [layers : [Layers -> LayerState],
                      insts : [Tunnels -> InstState], freed : SUBSET Back] :
                 \A m \in Layers \ {l} : Good(s.layers[m])}

LEMMA HalfwayExcept ==
  ASSUME NEW l \in Layers, NEW s \in Halfway(l), NEW L, Good(L)
  PROVE  /\ [s EXCEPT !.layers[l] = L] \in Outcome
         /\ \A t \in Tunnels : \A i \in InstState :
              [s EXCEPT !.layers[l] = L, !.insts[t] = i] \in Outcome
  <1> DEFINE f    == [s.layers EXCEPT ![l] = L]
             g(t, i) == [s.insts EXCEPT ![t] = i]
  <1>1. f \in [Layers -> GoodLayers]
    BY GoodLayersDef DEF Halfway
  <1>2. \A t \in Tunnels : \A i \in InstState : g(t, i) \in [Tunnels -> InstState]
    BY DEF Halfway
  <1>3. [s EXCEPT !.layers[l] = L] = [s EXCEPT !.layers = f]
    OBVIOUS
  <1>4. \A t \in Tunnels : \A i \in InstState :
           [s EXCEPT !.layers[l] = L, !.insts[t] = i]
             = [s EXCEPT !.layers = f, !.insts = g(t, i)]
    BY DEF Halfway
  <1> HIDE DEF f, g
  <1>5. [s EXCEPT !.layers = f] \in Outcome
    BY <1>1 DEF Outcome, Halfway
  <1>6. \A t \in Tunnels : \A i \in InstState :
           [s EXCEPT !.layers = f, !.insts = g(t, i)] \in Outcome
    BY <1>1, <1>2 DEF Outcome, Halfway
  <1> QED
    BY <1>3, <1>4, <1>5, <1>6

LEMMA RetunedType ==
  ASSUME IInv, NEW l \in Layers, NEW t \in Tunnels, layer[l].tunnel # t
  PROVE  /\ Retuned(l, t) \in Halfway(l)
         /\ Bare(Retuned(l, t).layers[l])
         /\ Retuned(l, t).layers[l].tunnel = t
  <1> DEFINE A == ClearBufferInfo(layer[l])
             L == [A EXCEPT !.vt = TRUE]
             s == IF L.tunnel = NoTunnel THEN Unchanged(l, L) ELSE Disconnected(l, L)
             M == s.layers[l]
             N == [M EXCEPT !.tunnel = t]
  <1>1. Good(A)
    BY LayersGood, ClearBufferInfoGood
  <1>2. Retuned(l, t) = [s EXCEPT !.layers[l] = N]
    BY DEF Retuned
  <1> HIDE DEF A
  <1>3. Good(L) /\ L.vt
    <2>1. Good(L)
      BY <1>1, FieldGood
    <2>2. L.vt
      BY <1>1 DEF Good, LayerState
    <2> QED
      BY <2>1, <2>2
  <1> HIDE DEF L
  <1>4. s \in Outcome /\ Bare(M)
    <2>1. CASE L.tunnel = NoTunnel
      BY <1>3, <2>1, UnchangedType, GoodBare, GoodLayersDef
    <2>2. CASE L.tunnel # NoTunnel
      BY <1>3, <2>2, DisconnectedType, GoodLayersDef
    <2> QED
      BY <2>1, <2>2
  <1> HIDE DEF s
  <1>5. Bare(N) /\ N.tunnel = t
    <2> HIDE DEF M
    <2> QED
      BY <1>4, TunnelBare
  <1> HIDE DEF N
  <1>6. [s EXCEPT !.layers[l] = N] = [s EXCEPT !.layers = [s.layers EXCEPT ![l] = N]]
    OBVIOUS
  <1>7. /\ \A m \in Layers : Good(s.layers[m]) /\ s.layers[m] \in LayerState
        /\ N \in LayerState
    BY <1>4, <1>5, GoodLayersDef DEF Outcome, Good, Bare
  <1>8. /\ [s.layers EXCEPT ![l] = N] \in [Layers -> LayerState]
        /\ [s.layers EXCEPT ![l] = N][l] = N
        /\ \A m \in Layers \ {l} : [s.layers EXCEPT ![l] = N][m] = s.layers[m]
    BY <1>4, <1>7 DEF Outcome
  <1> QED
    BY <1>2, <1>4, <1>5, <1>6, <1>7, <1>8 DEF Outcome, Halfway

LEMMA SetSidebandStreamInv ==
  ASSUME IInv, NEW l \in Layers, NEW t \in Tunnels, SetSidebandStream(l, t)
  PROVE  IInv'
  <1> DEFINE s     == Retuned(l, t)
             K     == s.layers[l]
             Q     == [K EXCEPT !.queue = <<>>]
             L     == [Q EXCEPT !.retuned = TRUE]
             M     == [L EXCEPT !.consumer = TRUE]
             N     == [M EXCEPT !.listener = "live"]
             i     == IF s.insts[t].live THEN s.insts[t] ELSE NewInst
             inst1 == [i EXCEPT !.consumers = i.consumers \cup {l}]
  <1>1. s \in Halfway(l) /\ Bare(K) /\ K.tunnel = t
    BY RetunedType DEF SetSidebandStream
  <1>2. IF L.consumer THEN Becomes([s EXCEPT !.layers[l] = L])
                      ELSE Becomes([s EXCEPT !.layers[l] = N, !.insts[t] = inst1])
    BY DEF SetSidebandStream
  <1>3. inst1 \in InstState
    <2>1. s.insts[t] \in InstState
      BY <1>1 DEF Halfway
    <2>2. i \in InstState
      BY <2>1 DEF NewInst, InstState
    <2> HIDE DEF i
    <2> QED
      BY <2>2 DEF InstState
  <1> HIDE DEF s, inst1
  <1> HIDE DEF K
  <1>4. Q = K
    BY <1>1, FieldBare
  <1> HIDE DEF Q
  <1>5. Bare(L)
    BY <1>1, <1>4, FieldBare
  <1>6. L.consumer => Good(L)
    BY <1>5, GoodBare
  <1> HIDE DEF L
  <1>7. Bare(M) /\ M.consumer
    BY <1>5, FieldBare
  <1> HIDE DEF M
  <1>8. Bare(N) /\ N.consumer
    <2>1. \A v \in {"none", "live", "dangling"} : Bare([M EXCEPT !.listener = v])
      BY <1>7, FieldBare
    <2>2. N.consumer = M.consumer
      OBVIOUS
    <2> QED
      BY <1>7, <2>1, <2>2
  <1>9. Good(N)
    BY <1>8, GoodBare
  <1> HIDE DEF N
  <1>10. CASE L.consumer
    <2>1. [s EXCEPT !.layers[l] = L] \in Outcome
      BY <1>1, <1>6, <1>10, HalfwayExcept
    <2> QED
      BY <1>2, <1>10, <2>1, BecomesInv DEF SetSidebandStream, IInv
  <1>11. CASE ~L.consumer
    <2>1. [s EXCEPT !.layers[l] = N, !.insts[t] = inst1] \in Outcome
      BY <1>1, <1>3, <1>9, HalfwayExcept
    <2> QED
      BY <1>2, <1>11, <2>1, BecomesInv DEF SetSidebandStream, IInv
  <1> QED
    BY <1>10, <1>11

LEMMA SetSidebandStreamFailsInv ==
  ASSUME IInv, NEW l \in Layers, NEW t \in Tunnels, SetSidebandStreamFails(l, t)
  PROVE  IInv'
  <1> DEFINE s == Retuned(l, t)
             K == s.layers[l]
             L == [K EXCEPT !.consumer = TRUE]
             M == [L EXCEPT !.tunnel = NoTunnel]
  <1>1. s \in Halfway(l) /\ Bare(K)
    BY RetunedType DEF SetSidebandStreamFails
  <1>2. Becomes([s EXCEPT !.layers[l].consumer = TRUE,
                          !.layers[l].tunnel = NoTunnel])
    BY DEF SetSidebandStreamFails
  <1>3. [s EXCEPT !.layers[l].consumer = TRUE, !.layers[l].tunnel = NoTunnel]
          = [s EXCEPT !.layers[l] = M]
    <2> HIDE DEF s
    <2> QED
      BY <1>1 DEF Halfway
  <1> HIDE DEF s
  <1> HIDE DEF K
  <1>4. Bare(L)
    BY <1>1, FieldBare
  <1> HIDE DEF L
  <1>5. Good(M)
    BY <1>4, TunnelBare, GoodBare
  <1> HIDE DEF M
  <1>6. [s EXCEPT !.layers[l] = M] \in Outcome
    BY <1>1, <1>5, HalfwayExcept
  <1> QED
    BY <1>2, <1>3, <1>6, BecomesInv DEF SetSidebandStreamFails, IInv

LEMMA CommitVtInv ==
  ASSUME IInv, NEW l \in Layers, CommitVt(l)
  PROVE  IInv'
  <1>1. Interrupted(l) \in Outcome
    BY InterruptedType
  <1>2. screen' \in [Layers -> MaybeFd]
    BY DEF CommitVt, IInv, MaybeFd
  <1> QED
    BY <1>1, <1>2, BecomesInv DEF CommitVt, IInv

----------------------------------------------------------------------------
(* The steps of the VtHandleEvents thread *)

LEMMA PollVtEventsInv ==
  ASSUME IInv, PollVtEvents
  PROVE  IInv'
  BY SweptType, BecomesInv DEF PollVtEvents, IInv

LEMMA HandleBuffersInv ==
  ASSUME IInv, HandleBuffers
  PROVE  IInv'
  <1> DEFINE live == {t \in Tunnels : Swept.insts[t].live}
  <1>1. ev' = [ev EXCEPT !.pc = "scan", !.left = live]
    BY DEF HandleBuffers
  <1>2. live \in SUBSET Tunnels
    OBVIOUS
  <1> HIDE DEF live
  <1>3. ev' \in EvState
    BY <1>1, <1>2 DEF EvState, IInv
  <1> QED
    BY <1>3, SweptType, BecomesInv DEF HandleBuffers, IInv

LEMMA LeaveType ==
  ASSUME ev \in EvState, NEW t
  PROVE  Leave(t) \in EvState
  <1> DEFINE p == IF ev.left = {t} THEN "idle" ELSE "scan"
             r == ev.left \ {t}
  <1>1. p \in {"idle", "scan", "deliver"} /\ r \in SUBSET Tunnels
    BY DEF EvState
  <1>2. Leave(t) = [ev EXCEPT !.left = r, !.pc = p]
    BY DEF Leave
  <1> HIDE DEF p, r
  <1> QED
    BY <1>1, <1>2 DEF EvState

LEMMA GoOnType ==
  ASSUME ev \in EvState, NEW todo \in SUBSET Layers
  PROVE  GoOn(todo) \in EvState
  <1> DEFINE E == Leave(ev.at)
  <1>1. E \in EvState
    BY LeaveType
  <1>2. [E EXCEPT !.items = <<>>, !.todo = {}, !.at = NoTunnel] \in EvState
    <2> HIDE DEF E
    <2>1. <<>> \in Seq(Item) /\ {} \in SUBSET Layers
      OBVIOUS
    <2> QED
      BY <1>1, <2>1 DEF EvState
  <1>3. [ev EXCEPT !.todo = todo] \in EvState
    BY DEF EvState
  <1> QED
    BY <1>2, <1>3 DEF GoOn

LEMMA BatchesType ==
  ASSUME NEW n \in 0..MaxBatch, NEW b \in Batches(n)
  PROVE  b \in Seq(Item) /\ Fresh(b) \in SUBSET BufferItem
  <1>1. n \in Nat
    BY TimeAssumption
  <1>2. b \in [1..n -> Item]
    BY DEF Batches, Item
  <1>3. b \in Seq(Item)
    BY <1>1, <1>2, SeqDef
  <1>4. FdsOf(b) \in SUBSET Fds
    BY <1>2 DEF FdsOf, Item
  <1>5. Fresh(b) \in SUBSET BufferItem
    BY <1>4 DEF Fresh, BufferItem
  <1> QED
    BY <1>3, <1>5

LEMMA RenumberedGood ==
  ASSUME IInv, NEW b, Renumbered(b)
  PROVE  layer' \in [Layers -> GoodLayers] /\ screen' \in [Layers -> MaybeFd]
  <1> DEFINE Old(fence) == IF fence \in FdsOf(b) THEN OtherFence ELSE fence
             cf(l) == Old(layer[l].curFence)
             pf(l) == Old(layer[l].prevFence)
             A(l)  == [layer[l] EXCEPT !.curFence = cf(l)]
             B(l)  == [A(l) EXCEPT !.prevFence = pf(l)]
  <1>1. \A l \in Layers : cf(l) \in Fences /\ pf(l) \in Fences
    BY LayersGood DEF Good, LayerState, Fences
  <1>2. layer' = [l \in Layers |-> B(l)]
    BY DEF Renumbered
  <1> HIDE DEF cf, pf
  <1>3. \A l \in Layers : Good(A(l))
    BY <1>1, LayersGood, FieldGood
  <1> HIDE DEF A
  <1>4. \A l \in Layers : Good(B(l))
    BY <1>1, <1>3, FieldGood
  <1> HIDE DEF B
  <1>5. layer' \in [Layers -> GoodLayers]
    BY <1>2, <1>4, GoodLayersDef
  <1>6. screen' \in [Layers -> MaybeFd]
    BY DEF Renumbered, IInv, MaybeFd
  <1> QED
    BY <1>5, <1>6

\* Frames are added to the queue of one instance.
LEMMA OpenedType ==
  ASSUME inst \in [Tunnels -> InstState], NEW t, NEW new \in SUBSET BufferItem
  PROVE  [inst EXCEPT ![t].bufs = @ \cup new] \in [Tunnels -> InstState]
  <1> DEFINE i == [inst[t] EXCEPT !.bufs = inst[t].bufs \cup new]
  <1>1. t \in Tunnels => i \in InstState
    BY DEF InstState
  <1>2. [inst EXCEPT ![t].bufs = @ \cup new] = [inst EXCEPT ![t] = i]
    OBVIOUS
  <1> HIDE DEF i
  <1> QED
    BY <1>1, <1>2

LEMMA AcquireBufferInv ==
  ASSUME IInv, NEW t \in Tunnels, AcquireBuffer(t)
  PROVE  IInv'
  <1>1. PICK n \in 0..MaxBatch : \E b \in Batches(n) :
            /\ inst' = [inst EXCEPT ![t].bufs = @ \cup Fresh(b)]
            /\ Renumbered(b)
            /\ ev' = IF n = 0 THEN Leave(t)
                     ELSE [ev EXCEPT !.pc = "deliver", !.at = t, !.items = b,
                                     !.todo = inst[t].consumers]
    BY DEF AcquireBuffer
  <1>2. PICK b \in Batches(n) :
            /\ inst' = [inst EXCEPT ![t].bufs = @ \cup Fresh(b)]
            /\ Renumbered(b)
            /\ ev' = IF n = 0 THEN Leave(t)
                     ELSE [ev EXCEPT !.pc = "deliver", !.at = t, !.items = b,
                                     !.todo = inst[t].consumers]
    BY <1>1
  <1>3. b \in Seq(Item) /\ Fresh(b) \in SUBSET BufferItem
    BY BatchesType
  <1>4. inst' \in [Tunnels -> InstState]
    BY <1>2, <1>3, OpenedType DEF IInv
  <1>5. ev' \in EvState
    <2>1. inst[t].consumers \in SUBSET Layers
      BY DEF IInv, InstState
    <2>2. [ev EXCEPT !.pc = "deliver", !.at = t, !.items = b,
                     !.todo = inst[t].consumers] \in EvState
      BY <1>3, <2>1 DEF IInv, EvState
    <2>3. Leave(t) \in EvState
      BY LeaveType DEF IInv
    <2> QED
      BY <1>2, <2>2, <2>3
  <1>6. layer' \in [Layers -> GoodLayers] /\ screen' \in [Layers -> MaybeFd]
    BY <1>2, RenumberedGood
  <1> QED
    BY <1>4, <1>5, <1>6 DEF AcquireBuffer, IInv

LEMMA AcquireBufferFailsInv ==
  ASSUME IInv, NEW t \in Tunnels, AcquireBufferFails(t)
  PROVE  IInv'
  <1>1. PICK n \in 0..MaxBatch : \E b \in Batches(n) :
            /\ inst' = [inst EXCEPT ![t].bufs = @ \cup Fresh(b)]
            /\ Renumbered(b)
    BY DEF AcquireBufferFails
  <1>2. PICK b \in Batches(n) :
            /\ inst' = [inst EXCEPT ![t].bufs = @ \cup Fresh(b)]
            /\ Renumbered(b)
    BY <1>1
  <1>3. inst' \in [Tunnels -> InstState]
    BY <1>2, BatchesType, OpenedType DEF IInv
  <1>4. ev' \in EvState
    BY LeaveType DEF AcquireBufferFails, IInv
  <1>5. layer' \in [Layers -> GoodLayers] /\ screen' \in [Layers -> MaybeFd]
    BY <1>2, RenumberedGood
  <1> QED
    BY <1>3, <1>4, <1>5 DEF AcquireBufferFails, IInv

LEMMA AddRefType ==
  ASSUME NEW bufs \in SUBSET BufferItem, NEW d \in Int
  PROVE  AddRef(bufs, d) \in SUBSET BufferItem
  <1> DEFINE r(b) == IF b.ref = -1 /\ d = 1 THEN 1 ELSE b.ref + d
             B(b) == [b EXCEPT !.ref = r(b)]
  <1>1. \A b \in bufs : r(b) \in Int
    BY DEF BufferItem
  <1>2. AddRef(bufs, d) = {IF b.fd \in FdsOf(ev.items) THEN B(b) ELSE b : b \in bufs}
    BY DEF AddRef
  <1> HIDE DEF r
  <1>3. \A b \in bufs : B(b) \in BufferItem
    BY <1>1 DEF BufferItem
  <1> HIDE DEF B
  <1> QED
    BY <1>2, <1>3

LEMMA DeliverFramesInv ==
  ASSUME IInv, DeliverFrames
  PROVE  IInv'
  <1>1. PICK l \in ev.todo :
          /\ Accepts(layer[l])
          /\ layer' = [layer EXCEPT ![l].queue = @ \o ev.items]
          /\ inst' = [inst EXCEPT ![ev.at].bufs = AddRef(@, 1)]
          /\ ev' = GoOn(ev.todo \ {l})
          /\ returned' = {}
          /\ UNCHANGED <<disp, screen>>
    BY DEF DeliverFrames
  <1> DEFINE q == layer[l].queue \o ev.items
             L == [layer[l] EXCEPT !.queue = q]
             i == [inst[ev.at] EXCEPT !.bufs = AddRef(inst[ev.at].bufs, 1)]
  <1>2. l \in Layers /\ ev \in EvState /\ ev.items \in Seq(Item)
    BY DEF IInv, EvState
  <1>3. Good(L)
    <2>1. /\ Good(layer[l]) /\ layer[l].queue \in Seq(Item)
          /\ layer[l].tunnel # NoTunnel
      BY <1>1, <1>2, LayersGood DEF Accepts, Good, LayerState
    <2>2. q \in Seq(Item)
      BY <1>2, <2>1, ConcatProperties
    <2>3. layer[l].queue # <<>> => q # <<>> /\ q[1] = layer[l].queue[1]
      <3>1. ASSUME layer[l].queue # <<>>
            PROVE  q # <<>> /\ q[1] = layer[l].queue[1]
        <4>1. Len(layer[l].queue) \in Nat \ {0} /\ Len(ev.items) \in Nat
          BY <1>2, <2>1, <3>1, EmptySeq, LenProperties
        <4> DEFINE a == layer[l].queue
                   b == ev.items
        <4>2. Len(q) = Len(a) + Len(b) /\ q[1] = a[1]
          <5> HIDE DEF a, b
          <5>1. /\ Len(a \o b) = Len(a) + Len(b)
                /\ \A k \in 1..Len(a) + Len(b) : (a \o b)[k] =
                       IF k <= Len(a) THEN a[k] ELSE b[k - Len(a)]
            BY <1>2, <2>1, ConcatProperties DEF a, b
          <5>2. 1 \in 1..Len(a) + Len(b) /\ 1 <= Len(a)
            <6>1. \A m \in Nat \ {0}, n \in Nat : 1 \in 1..m + n /\ 1 <= m
              OBVIOUS
            <6>2. Len(a) \in Nat \ {0} /\ Len(b) \in Nat
              BY <4>1 DEF a, b
            <6> QED
              BY <6>1, <6>2, Zenon
          <5>3. q = a \o b
            BY DEF a, b
          <5> QED
            BY <5>1, <5>2, <5>3
        <4> QED
          BY <4>1, <4>2, EmptySeq
      <3> QED
        BY <3>1
    <2> HIDE DEF q
    <2> QED
      BY <2>1, <2>2, <2>3 DEF Good, LayerState, HeadOK, TunedOK
  <1>4. layer' \in [Layers -> GoodLayers]
    <2>1. layer' = [layer EXCEPT ![l] = L]
      BY <1>1
    <2> HIDE DEF L
    <2> QED
      BY <1>2, <1>3, <2>1, GoodLayersDef DEF IInv
  <1>5. inst' \in [Tunnels -> InstState]
    <2>1. inst' = [inst EXCEPT ![ev.at] = i]
      BY <1>1
    <2>2. ev.at \in Tunnels => i \in InstState
      BY AddRefType DEF IInv, InstState
    <2> HIDE DEF i
    <2> QED
      BY <2>1, <2>2 DEF IInv
  <1>6. ev' \in EvState
    BY <1>1, <1>2, GoOnType DEF EvState
  <1> QED
    BY <1>1, <1>4, <1>5, <1>6 DEF IInv

LEMMA RefuseFramesInv ==
  ASSUME IInv, RefuseFrames
  PROVE  IInv'
  <1>1. PICK l \in ev.todo :
          /\ inst' = [inst EXCEPT ![ev.at].bufs = AddRef(AddRef(@, 1), -1),
                                  ![ev.at].consumers = @ \ {l}]
          /\ ev' = GoOn(ev.todo \ {l})
          /\ returned' = {}
          /\ UNCHANGED <<layer, disp, screen>>
    BY DEF RefuseFrames
  <1> DEFINE b == AddRef(AddRef(inst[ev.at].bufs, 1), -1)
             c == inst[ev.at].consumers \ {l}
             i == [inst[ev.at] EXCEPT !.bufs = b, !.consumers = c]
  <1>2. inst' = [inst EXCEPT ![ev.at] = i]
    BY <1>1 DEF IInv
  <1>3. ev.at \in Tunnels => i \in InstState
    <2>1. ASSUME ev.at \in Tunnels
          PROVE  /\ inst[ev.at] \in InstState
                 /\ b \in SUBSET BufferItem /\ c \in SUBSET Layers
      <3>1. inst[ev.at].bufs \in SUBSET BufferItem
        BY <2>1 DEF IInv, InstState
      <3>2. b \in SUBSET BufferItem
        BY <3>1, AddRefType
      <3> QED
        BY <2>1, <3>2 DEF IInv, InstState
    <2> HIDE DEF b, c
    <2> QED
      BY <2>1 DEF InstState
  <1> HIDE DEF i
  <1>4. inst' \in [Tunnels -> InstState]
    BY <1>2, <1>3 DEF IInv
  <1>5. ev' \in EvState
    BY <1>1, GoOnType DEF IInv, EvState
  <1> QED
    BY <1>1, <1>4, <1>5 DEF IInv

LEMMA HandleCmdsInv ==
  ASSUME IInv, NEW t \in Tunnels, NEW c \in Cmds, HandleCmds(t, c)
  PROVE  IInv'
  <1> DEFINE s == Swept
             f == [l \in Layers |->
                     IF Registered(l, t) /\ layer[l].life # "dead"
                     THEN AfterCmd(s.layers[l], c) ELSE s.layers[l]]
  <1>1. s \in Outcome
    BY SweptType
  <1>2. Becomes([s EXCEPT !.layers = f])
    BY DEF HandleCmds
  <1>3. f \in [Layers -> GoodLayers]
    BY <1>1, AfterCmdGood, GoodLayersDef DEF Outcome
  <1> HIDE DEF s, f
  <1>4. [s EXCEPT !.layers = f] \in Outcome
    BY <1>1, <1>3 DEF Outcome
  <1> QED
    BY <1>2, <1>4, BecomesInv DEF HandleCmds, IInv

----------------------------------------------------------------------------
(* The steps of the VtDisplay thread *)

\* handleVtDisplay goes on to another step of a layer.
LEMMA DispType ==
  ASSUME IInv, NEW l \in Layers,
         NEW p \in {"wait", "update", "present", "post", "release"}
  PROVE  [disp EXCEPT ![l].pc = p] \in [Layers -> DispState]
  <1> DEFINE d == [disp[l] EXCEPT !.pc = p]
  <1>1. d \in DispState
    BY DEF IInv, DispState
  <1>2. [disp EXCEPT ![l].pc = p] = [disp EXCEPT ![l] = d]
    OBVIOUS
  <1> HIDE DEF d
  <1> QED
    BY <1>1, <1>2 DEF IInv

LEMMA SetPresentTimeInv ==
  ASSUME IInv, NEW l \in Layers, SetPresentTime(l)
  PROVE  IInv'
  <1>1. PICK n \in layer[l].now..MaxNow : layer' = [layer EXCEPT ![l].now = n]
    BY DEF SetPresentTime
  <1> DEFINE L == [layer[l] EXCEPT !.now = n]
  <1>2. layer[l].now \in 0..MaxNow
    BY LayersGood DEF Good, LayerState
  <1>3. n \in 0..MaxNow
    BY <1>1, <1>2, TimeAssumption
  <1>4. Good(L)
    BY <1>3, LayersGood, FieldGood
  <1>5. layer' = [layer EXCEPT ![l] = L]
    BY <1>1
  <1> HIDE DEF L
  <1>6. disp' \in [Layers -> DispState]
    BY DispType DEF SetPresentTime
  <1> QED
    BY <1>4, <1>5, <1>6, LayerInv DEF SetPresentTime, IInv

LEMMA UpdateVtBufferInv ==
  ASSUME IInv, NEW l \in Layers, UpdateVtBuffer(l)
  PROVE  IInv'
  <1> DEFINE L       == layer[l]
             n       == DropCount(L)
             q       == SubSeq(L.queue, 1, n)
             dropped == Unfenced(q)
             after   == AfterCalls(L, dropped)
             s       == [layers |-> [layer EXCEPT ![l] = Updated(L)],
                         insts |-> after.insts, freed |-> after.freed]
  <1>1. disp' \in [Layers -> DispState]
    BY DispType DEF UpdateVtBuffer
  <1>2. CASE L.life = "live" /\ L.vt /\ L.queue # <<>>
    <2>1. Good(L) /\ L \in LayerState /\ L.queue \in Seq(Item)
      BY LayersGood DEF Good, LayerState
    <2>2. n \in 0..Len(L.queue) - 1 /\ Len(L.queue) \in Nat
      BY <1>2, <2>1, DropCountBound, LenProperties
    <2>3. q \in Seq(Item)
      <3>1. \A i \in 1..Len(L.queue) : L.queue[i] \in Item
        BY <2>1, ElementOfSeq
      <3>2. \A i \in 1..n : L.queue[i] \in Item
        BY <2>2, <3>1
      <3>3. n \in Int
        BY <2>2
      <3> HIDE DEF n
      <3> QED
        BY <3>2, <3>3, SubSeqProperties
    <2>4. dropped \in Seq(Call)
      <3> HIDE DEF q
      <3> QED
        BY <2>3, UnfencedType
    <2>5. after.insts \in [Tunnels -> InstState] /\ after.freed \in SUBSET Back
      <3> HIDE DEF dropped
      <3> QED
        BY <2>1, <2>4, AfterCallsType DEF IInv
    <2>6. Updated(L) \in GoodLayers
      BY <1>2, <2>1, UpdatedGood, GoodLayersDef
    <2>7. Becomes(s)
      BY <1>2 DEF UpdateVtBuffer
    <2>8. [layer EXCEPT ![l] = Updated(L)] \in [Layers -> GoodLayers]
      BY <2>6 DEF IInv
    <2> HIDE DEF after
    <2>9. s \in Outcome
      BY <2>5, <2>8 DEF Outcome
    <2> HIDE DEF s
    <2> QED
      BY <1>1, <2>7, <2>9, BecomesInv DEF UpdateVtBuffer, IInv
  <1>3. CASE ~(L.life = "live" /\ L.vt /\ L.queue # <<>>)
    BY <1>1, <1>3 DEF UpdateVtBuffer, IInv
  <1> QED
    BY <1>2, <1>3

LEMMA SkipPresentInv ==
  ASSUME IInv, NEW l \in Layers, SkipPresent(l)
  PROVE  IInv'
  <1>1. disp' \in [Layers -> DispState]
    BY DispType DEF SkipPresent
  <1> QED
    BY <1>1 DEF SkipPresent, IInv

LEMMA PresentVtInv ==
  ASSUME IInv, NEW l \in Layers, PresentVt(l)
  PROVE  IInv'
  <1> DEFINE A == AfterStatus(layer[l])
             d == IF Posts(layer[l]) THEN [pc |-> "post", fd |-> BufferFd(A)]
                                     ELSE [pc |-> "release", fd |-> NoFd]
  <1>1. A \in LayerState
    BY LayersGood, AfterStatusGood DEF Good
  <1>2. BufferFd(A) \in MaybeFd
    BY <1>1 DEF BufferFd, LayerState
  <1>3. d \in DispState
    BY <1>2 DEF DispState, MaybeFd
  <1>4. disp' = [disp EXCEPT ![l] = d]
    BY DEF PresentVt
  <1> HIDE DEF d
  <1>5. disp' \in [Layers -> DispState]
    BY <1>3, <1>4 DEF IInv
  <1>6. screen' \in [Layers -> MaybeFd]
    BY DEF PresentVt, IInv, MaybeFd
  <1> QED
    BY <1>5, <1>6, InterruptedType, BecomesInv DEF PresentVt, IInv

LEMMA PostFrameInv ==
  ASSUME IInv, NEW l \in Layers, PostFrame(l)
  PROVE  IInv'
  <1> DEFINE v == Shown(OtherFence, disp[l].fd)
             L == [layer[l] EXCEPT !.curFence = v]
  <1>1. disp[l].fd \in MaybeFd
    BY DEF IInv, DispState
  <1>2. v \in Fences
    BY <1>1 DEF Shown, Fences
  <1>3. layer' = [layer EXCEPT ![l] = L]
    BY DEF PostFrame
  <1>4. screen' \in [Layers -> MaybeFd]
    BY <1>1 DEF PostFrame, IInv, Shown
  <1>5. disp' \in [Layers -> DispState]
    BY DEF PostFrame, IInv, DispState, MaybeFd
  <1> HIDE DEF v
  <1>6. Good(L)
    BY <1>2, LayersGood, FieldGood
  <1> HIDE DEF L
  <1> QED
    BY <1>3, <1>4, <1>5, <1>6, LayerInv DEF PostFrame, IInv

LEMMA ReleaseVtBufferInv ==
  ASSUME IInv, NEW l \in Layers, ReleaseVtBuffer(l)
  PROVE  IInv'
  <1> DEFINE L     == layer[l]
             rel   == One(L.pre, L.prevFence)
             after == IF ~RefreshOnly(L) /\ Consumes(L)
                      THEN AfterCalls(L, rel)
                      ELSE [insts |-> inst, freed |-> {}]
             s     == [layers |-> [layer EXCEPT ![l] = AfterRelease(L)],
                       insts |-> after.insts, freed |-> after.freed]
  <1>1. disp' \in [Layers -> DispState]
    BY DispType DEF ReleaseVtBuffer
  <1>2. CASE L.life = "live" /\ L.vt
    <2>1. Good(L) /\ L \in LayerState /\ L.pre \in MaybeFd /\ L.prevFence \in Fences
      BY LayersGood DEF Good, LayerState
    <2>2. rel \in Seq(Call)
      BY <2>1, OneType
    <2>3. after.insts \in [Tunnels -> InstState] /\ after.freed \in SUBSET Back
      <3> HIDE DEF rel
      <3> QED
        BY <2>1, <2>2, AfterCallsType DEF IInv
    <2>4. AfterRelease(L) \in GoodLayers
      BY <2>1, AfterReleaseGood, GoodLayersDef
    <2>5. Becomes(s)
      BY <1>2 DEF ReleaseVtBuffer
    <2>6. [layer EXCEPT ![l] = AfterRelease(L)] \in [Layers -> GoodLayers]
      BY <2>4 DEF IInv
    <2> HIDE DEF after
    <2>7. s \in Outcome
      BY <2>3, <2>6 DEF Outcome
    <2> HIDE DEF s
    <2> QED
      BY <1>1, <2>5, <2>7, BecomesInv DEF ReleaseVtBuffer, IInv
  <1>3. CASE ~(L.life = "live" /\ L.vt)
    BY <1>1, <1>3 DEF ReleaseVtBuffer, IInv
  <1> QED
    BY <1>2, <1>3

----------------------------------------------------------------------------
(* The invariant holds, and what follows from it *)

LEMMA InitInv == Init => IInv
  <1> SUFFICES ASSUME Init PROVE IInv
    OBVIOUS
  <1>1. Good([NewLayer EXCEPT !.life = "none"])
    BY NewLayerBare, GoodBare, FieldGood
  <1> DEFINE L == [NewLayer EXCEPT !.life = "none"]
  <1>2. layer \in [Layers -> GoodLayers]
    <2>1. layer = [l \in Layers |-> L]
      BY DEF Init
    <2> HIDE DEF L
    <2>2. L \in GoodLayers
      BY <1>1, GoodLayersDef DEF L
    <2> QED
      BY <2>1, <2>2
  <1>3. NoInst \in InstState
    BY DEF NoInst, NewInst, InstState
  <1>4. ev \in EvState
    BY DEF Init, EvState
  <1> QED
    BY <1>2, <1>3, <1>4 DEF Init, IInv, DispState, MaybeFd

LEMMA NextInv == IInv /\ [Next]_vars => IInv'
  <1> SUFFICES ASSUME IInv, [Next]_vars PROVE IInv'
    OBVIOUS
  <1>1. CASE EventStep
    BY <1>1, PollVtEventsInv, HandleBuffersInv, AcquireBufferInv,
       AcquireBufferFailsInv, DeliverFramesInv, RefuseFramesInv, HandleCmdsInv
       DEF EventStep
  <1>2. ASSUME NEW l \in Layers, LayerStep(l) PROVE IInv'
    BY <1>2, CreateLayerInv, SameSidebandStreamInv, SetSidebandStreamInv,
       SetSidebandStreamFailsInv, SetBufferInv, SetColorInv, ClearUpdateFlagInv,
       CommitVtInv, VtRefreshInv, DestroyLayerInv, DestructLayerInv DEF LayerStep
  <1>3. ASSUME NEW l \in Layers, DisplayStep(l) PROVE IInv'
    BY <1>3, SetPresentTimeInv, UpdateVtBufferInv, SkipPresentInv, PresentVtInv,
       PostFrameInv, ReleaseVtBufferInv DEF DisplayStep
  <1>4. CASE UNCHANGED vars
    BY <1>4 DEF vars, IInv
  <1> QED
    BY <1>1, <1>2, <1>3, <1>4 DEF Next

LEMMA InvariantHolds == Spec => []IInv
  BY InitInv, NextInv, PTL DEF Spec

\* Every step leaves the layers, instances and threads with the values their
\* declarations allow: no step of handleVtDisplay, of the event thread or of
\* SurfaceFlinger pops an empty queue or counts a buffer that is not one.
THEOREM TypeCorrect == Spec => []TypeOK
  <1>1. IInv => TypeOK
    <2> SUFFICES ASSUME IInv PROVE TypeOK
      OBVIOUS
    <2>1. layer \in [Layers -> LayerState]
      BY DEF IInv, GoodLayers
    <2> QED
      BY <2>1 DEF IInv, TypeOK, EvState, DispState, Back
  <1> QED
    BY <1>1, InvariantHolds, PTL

\* The pops of releaseVtBuffer and releaseVtResourceLocked take the frame the
\* layer showed, for any number of layers, tunnels and frames, and also when
\* layers share a tunnel or the driver fails.
THEOREM CurrentAtHead == Spec => []CurrentIsHead
  <1>1. IInv => CurrentIsHead
    BY LayersGood DEF Good, HeadOK, CurrentIsHead
  <1> QED
    BY <1>1, InvariantHolds, PTL

\* A layer is never tuned without a consumer, and never keeps frames of a tunnel
\* it left, whatever failed or was repeated in between.
THEOREM TunedConsumes == Spec => []TunedHasConsumer
  <1>1. IInv => TunedHasConsumer
    BY LayersGood DEF Good, TunedOK, TunedHasConsumer
  <1> QED
    BY <1>1, InvariantHolds, PTL

----------------------------------------------------------------------------
(* While no two layers are tuned to one tunnel, a layer holds every frame   *)
(* once, and no frame that has gone back to the driver.                     *)
(*                                                                          *)
(* The steps of VideoTunnel go through intermediate layers and instances    *)
(* (a retuned layer is disconnected first), so the invariant is stated of   *)
(* any layers ls and instances is, and followed from one to the next.       *)

\* What HeldOnce says of one layer.
Once(L) == /\ \A i, j \in DOMAIN L.queue : L.queue[i].fd = L.queue[j].fd => i = j
           /\ \A i \in DOMAIN L.queue : L.queue[i].fd # L.pre

Alive(L) == L.life \in {"live", "dying"}

\* A layer that is not tuned holds nothing, and one that is has not ended.
Sound(L) == /\ Once(L)
            /\ IF L.tunnel = NoTunnel THEN L.pre = NoFd ELSE Alive(L)

Attached(ls, is, l, t) == ls[l].tunnel = t \/ l \in is[t].consumers

\* A tunnel has one layer, tuned to it or registered with its instance.
Alone(ls, is) ==
  \A l, m \in Layers, t \in Tunnels :
     Attached(ls, is, l, t) /\ Attached(ls, is, m, t) => l = m

\* An instance knows of no layer that has left it, except one that ended.
Tied(ls, is) ==
  \A l \in Layers, t \in Tunnels :
     l \in is[t].consumers => ls[l].tunnel = t \/ ls[l].life = "dead"

Backed(i, f) == \E b \in i.bufs : b.fd = f /\ b.ref >= 1

\* What HeldIsOpen says of the layers and the instances.
OpenHeld(ls, is) ==
  \A l \in Layers, t \in Tunnels :
     l \in is[t].consumers /\ ls[l].tunnel = t =>
        \A f \in Held(ls[l]) : Backed(is[t], f)

Safe(ls, is) == /\ \A l \in Layers : Sound(ls[l])
                /\ Alone(ls, is)
                /\ Tied(ls, is)
                /\ OpenHeld(ls, is)

\* A batch on its way to the consumers of an instance: its frames are out of
\* the driver, nobody holds them yet and no reference is counted.
Waiting(i, f) == \E b \in i.bufs : b.fd = f /\ b.ref = -1

Delivering(ls, is, e) ==
  e.pc = "deliver" =>
     /\ e.at \in Tunnels
     /\ e.todo \subseteq is[e.at].consumers
     /\ \A i, j \in DOMAIN e.items : e.items[i].fd = e.items[j].fd => i = j
     /\ \A l \in e.todo, f \in FdsOf(e.items) :
           f \notin Held(ls[l]) /\ Waiting(is[e.at], f)

HInv == Safe(layer, inst) /\ Delivering(layer, inst, ev)

----------------------------------------------------------------------------
(* Steps that leave the frames of the layers alone *)

Same(L, M) == /\ M.queue = L.queue /\ M.cur = L.cur /\ M.pre = L.pre
              /\ M.tunnel = L.tunnel
              /\ Alive(L) => Alive(M)
              /\ M.life = "dead" <=> L.life = "dead"

LEMMA SameKeeps ==
  ASSUME NEW L, NEW M, Same(L, M)
  PROVE  Held(M) = Held(L) /\ (Sound(L) => Sound(M))
  BY DEF Same, Held, FdsOf, Sound, Once

LEMMA SameTransitive ==
  ASSUME NEW L, NEW M, NEW N, Same(L, M), Same(M, N)
  PROVE  Same(L, N)
  BY DEF Same

\* The fields that are not about frames, one at a time.
LEMMA FieldSame ==
  ASSUME NEW L, Good(L)
  PROVE  /\ Same(L, L)
         /\ Alive(L) => \A v \in {"live", "dying"} : Same(L, [L EXCEPT !.life = v])
         /\ \A v : Same(L, [L EXCEPT !.vt = v])
         /\ \A v : Same(L, [L EXCEPT !.needRelease = v])
         /\ \A v : Same(L, [L EXCEPT !.listener = v])
         /\ \A v : Same(L, [L EXCEPT !.now = v])
         /\ \A v : Same(L, [L EXCEPT !.update = v])
         /\ \A v : Same(L, [L EXCEPT !.refreshed = v])
         /\ \A v : Same(L, [L EXCEPT !.game = v])
         /\ \A v : Same(L, [L EXCEPT !.status = v])
         /\ \A v : Same(L, [L EXCEPT !.solid = v])
         /\ \A v : Same(L, [L EXCEPT !.solidHandle = v])
         /\ \A v : Same(L, [L EXCEPT !.curFence = v])
         /\ \A v : Same(L, [L EXCEPT !.prevFence = v])
  <1>1. Same(L, L)
    BY DEF Same
  <1>2. Alive(L) => \A v \in {"live", "dying"} : Same(L, [L EXCEPT !.life = v])
    BY DEF Same, Alive, Good, LayerState
  <1>3. \A v : Same(L, [L EXCEPT !.vt = v])
    BY DEF Same, Alive, Good, LayerState
  <1>4. \A v : Same(L, [L EXCEPT !.needRelease = v])
    BY DEF Same, Alive, Good, LayerState
  <1>5. \A v : Same(L, [L EXCEPT !.listener = v])
    BY DEF Same, Alive, Good, LayerState
  <1>6. \A v : Same(L, [L EXCEPT !.now = v])
    BY DEF Same, Alive, Good, LayerState
  <1>7. \A v : Same(L, [L EXCEPT !.update = v])
    BY DEF Same, Alive, Good, LayerState
  <1>8. \A v : Same(L, [L EXCEPT !.refreshed = v])
    BY DEF Same, Alive, Good, LayerState
  <1>9. \A v : Same(L, [L EXCEPT !.game = v])
    BY DEF Same, Alive, Good, LayerState
  <1>10. \A v : Same(L, [L EXCEPT !.status = v])
    BY DEF Same, Alive, Good, LayerState
  <1>11. \A v : Same(L, [L EXCEPT !.solid = v])
    BY DEF Same, Alive, Good, LayerState
  <1>12. \A v : Same(L, [L EXCEPT !.solidHandle = v])
    BY DEF Same, Alive, Good, LayerState
  <1>13. \A v : Same(L, [L EXCEPT !.curFence = v])
    BY DEF Same, Alive, Good, LayerState
  <1>14. \A v : Same(L, [L EXCEPT !.prevFence = v])
    BY DEF Same, Alive, Good, LayerState
  <1> QED
    BY <1>1, <1>2, <1>3, <1>4, <1>5, <1>6, <1>7, <1>8, <1>9, <1>10, <1>11, <1>12, <1>13, <1>14

LEMMA ClearBufferInfoSame ==
  ASSUME NEW L, Good(L)
  PROVE  /\ Same(L, ClearBufferInfo(L))
         /\ Same(L, [ClearBufferInfo(L) EXCEPT !.vt = TRUE])
  BY DEF ClearBufferInfo, Same, Alive, Good, LayerState

LEMMA MoveFenceSame ==
  ASSUME NEW L, Good(L)
  PROVE  Same(L, MoveFence(L))
  BY DEF MoveFence, Same, Alive, Good, LayerState

LEMMA FreeSolidSame ==
  ASSUME NEW L, Good(L)
  PROVE  Same(L, FreeSolid(L))
  BY DEF FreeSolid, Same, Alive, Good, LayerState

LEMMA PostSolidSame ==
  ASSUME NEW L, Good(L)
  PROVE  Same(L, PostSolid(L))
  <1> DEFINE again == L.solidHandle /\ L.refreshed /\ L.status \in {"once", "always"}
             v     == L.solid \/ again
             A     == [L EXCEPT !.solid = v]
             B     == [A EXCEPT !.curFence = OtherFence]
  <1>1. v \in BOOLEAN
    BY DEF Good, LayerState
  <1>2. B = [L EXCEPT !.solid = v, !.curFence = OtherFence]
    OBVIOUS
  <1> HIDE DEF v
  <1>3. Good(A) /\ Same(L, A)
    BY <1>1, FieldGood, FieldSame
  <1> HIDE DEF A
  <1>4. Good(B) /\ Same(A, B)
    BY <1>3, FieldGood, FieldSame DEF Fences
  <1> HIDE DEF B
  <1>5. Same(L, FreeSolid(B)) /\ Same(L, FreeSolid(L))
    BY <1>3, <1>4, FreeSolidSame, SameTransitive
  <1> QED
    BY <1>2, <1>5 DEF PostSolid, v

LEMMA AfterCmdSame ==
  ASSUME NEW L, Good(L), NEW c \in Cmds
  PROVE  Same(L, AfterCmd(L, c))
  <1>1. CASE c \in AllStatuses
    <2>1. AfterCmd(L, c) = [L EXCEPT !.status = c]
      BY <1>1 DEF AfterCmd, AllStatuses
    <2> QED
      BY <2>1 DEF Same, Alive, Good, LayerState
  <1>2. CASE c = "game"
    <2>1. AfterCmd(L, c) = [L EXCEPT !.game = ~L.game]
      BY <1>2 DEF AfterCmd, AllStatuses
    <2> QED
      BY <2>1 DEF Same, Alive, Good, LayerState
  <1>3. CASE c = "refresh"
    <2>1. AfterCmd(L, c) = [L EXCEPT !.refreshed = TRUE]
      BY <1>3 DEF AfterCmd, AllStatuses
    <2> QED
      BY <2>1 DEF Same, Alive, Good, LayerState
  <1>4. CASE c = "temp"
    <2>1. AfterCmd(L, c) = [L EXCEPT !.solid = TRUE, !.solidHandle = TRUE, !.update = TRUE]
      BY <1>4 DEF AfterCmd, AllStatuses
    <2> QED
      BY <2>1 DEF Same, Alive, Good, LayerState
  <1> QED
    BY <1>1, <1>2, <1>3, <1>4 DEF Cmds

\* Instances without consumers may come and go.
LEMMA SafeSame ==
  ASSUME NEW ls, NEW is, NEW ls2, NEW is2, Safe(ls, is),
         \A l \in Layers : Same(ls[l], ls2[l]),
         \A t \in Tunnels : \/ is2[t] = is[t]
                            \/ is[t].consumers = {} /\ is2[t].consumers = {}
  PROVE  Safe(ls2, is2)
  <1>1. \A l \in Layers : /\ Held(ls2[l]) = Held(ls[l]) /\ Sound(ls2[l])
                          /\ ls2[l].tunnel = ls[l].tunnel
                          /\ ls2[l].life = "dead" <=> ls[l].life = "dead"
    BY SameKeeps DEF Safe, Same
  <1>2. \A t \in Tunnels : is2[t].consumers = is[t].consumers
    OBVIOUS
  <1>3. Alone(ls2, is2)
    BY <1>1, <1>2 DEF Safe, Alone, Attached
  <1>4. Tied(ls2, is2)
    BY <1>1, <1>2 DEF Safe, Tied
  <1>5. OpenHeld(ls2, is2)
    <2> SUFFICES ASSUME NEW l \in Layers, NEW t \in Tunnels,
                        l \in is2[t].consumers, ls2[l].tunnel = t,
                        NEW f \in Held(ls2[l])
                 PROVE  Backed(is2[t], f)
      BY DEF OpenHeld
    <2>1. is2[t] = is[t]
      OBVIOUS
    <2> QED
      BY <1>1, <2>1 DEF Safe, OpenHeld
  <1> QED
    BY <1>1, <1>3, <1>4, <1>5 DEF Safe

LEMMA DeliveringSame ==
  ASSUME NEW ls, NEW is, NEW ls2, NEW e, Delivering(ls, is, e), e.todo \in SUBSET Layers,
         \A l \in Layers : Same(ls[l], ls2[l])
  PROVE  Delivering(ls2, is, e)
  <1>1. \A l \in Layers : Held(ls2[l]) = Held(ls[l])
    BY SameKeeps
  <1> QED
    BY <1>1 DEF Delivering

LEMMA ClearUpSafe ==
  ASSUME NEW ls \in [Layers -> GoodLayers], NEW is \in [Tunnels -> InstState],
         Safe(ls, is)
  PROVE  /\ Safe(ClearUpLayers(is, ls), ClearUp(is))
         /\ \A l \in Layers : Same(ls[l], ClearUpLayers(is, ls)[l])
         /\ \A t \in Tunnels : ClearUp(is)[t].consumers = is[t].consumers
  <1>1. \A l \in Layers : Same(ls[l], ClearUpLayers(is, ls)[l])
    BY FieldSame, GoodLayersDef DEF ClearUpLayers
  <1>2. \A t \in Tunnels : \/ ClearUp(is)[t] = is[t]
                           \/ is[t].consumers = {} /\ ClearUp(is)[t].consumers = {}
    BY DEF ClearUp, Unused, NoInst, NewInst
  <1>3. Safe(ClearUpLayers(is, ls), ClearUp(is))
    BY <1>1, <1>2, SafeSame
  <1> QED
    BY <1>1, <1>2, <1>3

----------------------------------------------------------------------------
(* Steps in which a layer gives frames back *)

\* The calls name only frames of P.
Names(rel, P) == \A i \in DOMAIN rel : rel[i].fd \in P

\* The layer holds fewer frames, and rel names only those it gave up.
Shrinks(L, M, rel) == /\ M.tunnel = L.tunnel
                      /\ Alive(L) => Alive(M)
                      /\ M.life = "dead" <=> L.life = "dead"
                      /\ Sound(M)
                      /\ Held(M) \subseteq Held(L)
                      /\ Names(rel, Held(L) \ Held(M))

LEMMA NamesOne ==
  ASSUME NEW fd, NEW fence, NEW P, fd # NoFd => fd \in P
  PROVE  Names(One(fd, fence), P)
  <1>1. CASE fd = NoFd
    <2>1. DOMAIN One(fd, fence) = {}
      BY <1>1 DEF One
    <2> QED
      BY <2>1 DEF Names
  <1>2. CASE fd # NoFd
    <2>1. One(fd, fence) = <<[fd |-> fd, fence |-> fence]>>
      BY <1>2 DEF One
    <2> QED
      BY <1>2, <2>1 DEF Names
  <1> QED
    BY <1>1, <1>2

LEMMA NamesUnfenced ==
  ASSUME NEW q \in Seq(Item), NEW P, \A i \in DOMAIN q : q[i].fd \in P
  PROVE  Names(Unfenced(q), P)
  BY DEF Names, Unfenced

LEMMA NamesConcat ==
  ASSUME NEW s \in Seq(Call), NEW t \in Seq(Call), NEW P, Names(s, P), Names(t, P)
  PROVE  s \o t \in Seq(Call) /\ Names(s \o t, P)
  <1>1. /\ s \o t \in Seq(Call)
        /\ Len(s \o t) = Len(s) + Len(t)
        /\ \A i \in 1..Len(s) + Len(t) :
              (s \o t)[i] = IF i <= Len(s) THEN s[i] ELSE t[i - Len(s)]
    BY ConcatProperties
  <1>2. /\ Len(s) \in Nat /\ Len(t) \in Nat
        /\ DOMAIN s = 1..Len(s) /\ DOMAIN t = 1..Len(t)
        /\ DOMAIN (s \o t) = 1..Len(s \o t)
    BY <1>1, LenProperties
  <1>3. ASSUME NEW i \in DOMAIN (s \o t)
        PROVE  (s \o t)[i].fd \in P
    <2>1. i \in 1..Len(s) + Len(t)
      BY <1>1, <1>2
    <2>2. CASE i <= Len(s)
      BY <1>1, <1>2, <2>1, <2>2 DEF Names
    <2>3. CASE ~(i <= Len(s))
      <3>1. i - Len(s) \in DOMAIN t
        BY <1>2, <2>1, <2>3
      <3> QED
        BY <1>1, <2>1, <2>3, <3>1 DEF Names
    <2> QED
      BY <2>2, <2>3
  <1> QED
    BY <1>1, <1>3 DEF Names

\* The frame shown next is the first of the queue, and not the one before it.
LEMMA SoundFacts ==
  ASSUME NEW L, Good(L), Sound(L)
  PROVE  /\ L.queue \in Seq(Item) /\ DOMAIN L.queue = 1..Len(L.queue)
         /\ Len(L.queue) \in Nat
         /\ \A i \in DOMAIN L.queue : /\ L.queue[i].fd \in Fds
                                       /\ L.queue[i].fd # NoFd
                                       /\ L.queue[i].fd # L.pre
                                       /\ L.queue[i].fd \in Held(L)
         /\ \A i, j \in DOMAIN L.queue : L.queue[i].fd = L.queue[j].fd => i = j
         /\ L.queue # <<>> => 1 \in DOMAIN L.queue
         /\ L.cur # NoFd => /\ 1 \in DOMAIN L.queue /\ L.queue # <<>>
                            /\ L.cur = L.queue[1].fd
                            /\ L.cur # L.pre
         /\ L.cur # NoFd => L.cur \in Held(L)
         /\ L.pre # NoFd => L.pre \in Held(L)
  <1>1. L.queue \in Seq(Item)
    BY DEF Good, LayerState
  <1>2. /\ DOMAIN L.queue = 1..Len(L.queue) /\ Len(L.queue) \in Nat
        /\ \A i \in DOMAIN L.queue : L.queue[i] \in Item
    BY <1>1, LenProperties, ElementOfSeq
  <1>3. \A i \in DOMAIN L.queue : L.queue[i].fd \in Fds /\ L.queue[i].fd # NoFd
    BY <1>2, IdAssumption DEF Item
  <1>4. L.queue # <<>> => 1 \in DOMAIN L.queue
    <2>1. L.queue # <<>> => Len(L.queue) # 0
      BY <1>1, EmptySeq
    <2> QED
      BY <1>2, <2>1
  <1>5. \A i \in DOMAIN L.queue : L.queue[i].fd \in Held(L)
    BY <1>3 DEF Held, FdsOf
  <1>6. /\ L.cur # NoFd => L.cur \in Held(L)
        /\ L.pre # NoFd => L.pre \in Held(L)
    BY DEF Held
  <1> QED
    BY <1>1, <1>2, <1>3, <1>4, <1>5, <1>6 DEF Good, HeadOK, Sound, Once

LEMMA TailFacts ==
  ASSUME NEW q \in Seq(Item), q # <<>>
  PROVE  /\ Tail(q) \in Seq(Item)
         /\ \A i \in DOMAIN Tail(q) : /\ i + 1 \in DOMAIN q /\ i \in Nat
                                      /\ i + 1 # 1
                                      /\ Tail(q)[i] = q[i + 1]
  <1>1. /\ Len(q) \in Nat /\ DOMAIN q = 1..Len(q) /\ Len(q) # 0
    BY LenProperties, EmptySeq
  <1>2. /\ Tail(q) \in Seq(Item) /\ Len(Tail(q)) = Len(q) - 1
        /\ \A i \in 1..Len(Tail(q)) : Tail(q)[i] = q[i + 1]
    BY HeadTailProperties
  <1>3. DOMAIN Tail(q) = 1..Len(Tail(q))
    BY <1>2, LenProperties
  <1>4. ASSUME NEW i \in DOMAIN Tail(q)
        PROVE  i + 1 \in DOMAIN q /\ i \in Nat /\ i + 1 # 1
    <2>1. i \in 1..Len(q) - 1
      BY <1>2, <1>3
    <2> QED
      BY <1>1, <2>1
  <1> QED
    BY <1>2, <1>3, <1>4

\* releaseVtResourceLocked
LEMMA ReleaseHeldShrinks ==
  ASSUME NEW L, Good(L), Sound(L), NEW keepLast
  PROVE  Shrinks(L, ReleaseHeld(L, keepLast), ReleaseCalls(L, keepLast))
  <1> DEFINE M == ReleaseHeld(L, keepLast)
             P == Held(L) \ Held(M)
             q == IF L.cur # NoFd /\ L.queue # <<>> THEN Tail(L.queue) ELSE L.queue
             a == IF keepLast THEN <<>> ELSE One(L.pre, L.prevFence)
             b == One(L.cur, L.curFence)
             c == Unfenced(q)
  <1>1. /\ M.queue = <<>> /\ M.cur = NoFd /\ M.tunnel = L.tunnel
        /\ M.pre = (IF keepLast THEN L.pre ELSE NoFd) /\ M.life = L.life
    BY DEF ReleaseHeld, Good, LayerState
  <1>2. Held(M) = IF keepLast THEN {L.pre} \ {NoFd} ELSE {}
    BY <1>1 DEF Held, FdsOf
  <1>3. Sound(M)
    BY <1>1 DEF Sound, Once, Alive
  <1>4. \A i \in DOMAIN L.queue : L.queue[i].fd \in P
    BY <1>2, SoundFacts
  <1>5. L.cur # NoFd => L.cur \in P
    BY <1>2, SoundFacts
  <1>6. ~keepLast /\ L.pre # NoFd => L.pre \in P
    BY <1>2, SoundFacts
  <1>7. Held(M) \subseteq Held(L)
    BY <1>2, SoundFacts
  <1>8. q \in Seq(Item) /\ \A i \in DOMAIN q : q[i].fd \in P
    BY <1>4, SoundFacts, TailFacts
  <1>9. /\ a \in Seq(Call) /\ b \in Seq(Call)
        /\ c \in Seq(Call)
    <2>1. /\ L.cur \in MaybeFd /\ L.pre \in MaybeFd
          /\ L.curFence \in Fences /\ L.prevFence \in Fences
      BY DEF Good, LayerState
    <2>2. <<>> \in Seq(Call)
      OBVIOUS
    <2>3. c \in Seq(Call)
      BY <1>8, UnfencedType
    <2> QED
      BY <2>1, <2>2, <2>3, OneType
  <1>10. Names(a, P) /\ Names(b, P) /\ Names(c, P)
    <2> HIDE DEF P, q
    <2>1. Names(<<>>, P)
      BY DEF Names
    <2>2. Names(a, P)
      BY <1>6, <2>1, NamesOne
    <2>3. Names(b, P)
      BY <1>5, NamesOne
    <2>4. Names(c, P)
      BY <1>8, NamesUnfenced
    <2> QED
      BY <2>2, <2>3, <2>4
  <1>11. ReleaseCalls(L, keepLast) = a \o b \o c
    BY DEF ReleaseCalls
  <1> HIDE DEF a, b, c, P
  <1>12. Names(a \o b \o c, P)
    BY <1>9, <1>10, NamesConcat
  <1> QED
    BY <1>1, <1>3, <1>7, <1>11, <1>12 DEF Shrinks, P, Alive

\* The frames dropped from a queue, and those left.
LEMMA SplitQueue ==
  ASSUME NEW s \in Seq(Item), NEW n, n = Len(s), NEW d \in 0..n - 1
  PROVE  /\ SubSeq(s, 1, d) \in Seq(Item) /\ DOMAIN SubSeq(s, 1, d) = 1..d
         /\ \A i \in 1..d : SubSeq(s, 1, d)[i] = s[i]
         /\ SubSeq(s, d + 1, n) \in Seq(Item) /\ DOMAIN SubSeq(s, d + 1, n) = 1..n - d
         /\ \A i \in 1..n - d : SubSeq(s, d + 1, n)[i] = s[d + i]
  <1> DEFINE p == SubSeq(s, 1, d)
             q == SubSeq(s, d + 1, n)
  <1>1. /\ n \in Nat /\ d \in Nat /\ d <= n /\ d - 1 + 1 = d /\ d + 1 <= n
        /\ n - (d + 1) + 1 = n - d /\ \A i \in 1..n - d : d + 1 + i - 1 = d + i
    BY LenProperties
  <1>2. \A i \in 1..n : s[i] \in Item
    BY LenProperties, ElementOfSeq
  <1>3. p \in Seq(Item) /\ DOMAIN p = 1..d /\ \A i \in 1..d : p[i] = s[i]
    <2>1. \A i \in 1..d : s[i] \in Item
      BY <1>1, <1>2
    <2>2. /\ p \in Seq(Item)
          /\ Len(p) = IF 1 <= d THEN d - 1 + 1 ELSE 0
          /\ \A i \in 1..d - 1 + 1 : p[i] = s[1 + i - 1]
      BY <1>1, <2>1, SubSeqProperties
    <2>3. Len(p) = d
      BY <1>1, <2>2
    <2>4. DOMAIN p = 1..d
      BY <2>2, <2>3, LenProperties
    <2> QED
      BY <1>1, <2>2, <2>4
  <1>4. /\ q \in Seq(Item) /\ DOMAIN q = 1..n - d
        /\ \A i \in 1..n - d : q[i] = s[d + i]
    <2>1. \A i \in d + 1..n : s[i] \in Item
      BY <1>1, <1>2
    <2>2. /\ q \in Seq(Item)
          /\ Len(q) = IF d + 1 <= n THEN n - (d + 1) + 1 ELSE 0
          /\ \A i \in 1..n - (d + 1) + 1 : q[i] = s[d + 1 + i - 1]
      BY <1>1, <2>1, SubSeqProperties
    <2>3. Len(q) = n - d
      BY <1>1, <2>2
    <2>4. DOMAIN q = 1..n - d
      BY <2>2, <2>3, LenProperties
    <2> QED
      BY <1>1, <2>2, <2>4
  <1> QED
    BY <1>3, <1>4

\* updateVtBuffer
LEMMA UpdatedShrinks ==
  ASSUME NEW L, Good(L), Sound(L), L.queue # <<>>
  PROVE  Shrinks(L, Updated(L), Unfenced(SubSeq(L.queue, 1, DropCount(L))))
  <1> DEFINE d == DropCount(L)
             n == Len(L.queue)
             q == SubSeq(L.queue, d + 1, n)
             p == SubSeq(L.queue, 1, d)
             M == Updated(L)
             P == Held(L) \ Held(M)
  <1>1. d \in 0..n - 1 /\ n \in Nat
    BY SoundFacts, DropCountBound
  <1>3. /\ p \in Seq(Item) /\ DOMAIN p = 1..d
        /\ \A i \in 1..d : p[i] = L.queue[i]
    BY <1>1, SoundFacts, SplitQueue
  <1>4. /\ q \in Seq(Item) /\ DOMAIN q = 1..n - d
        /\ \A i \in 1..n - d : q[i] = L.queue[d + i]
    BY <1>1, SoundFacts, SplitQueue
  <1>5. /\ M.queue = q /\ M.cur = q[1].fd /\ M.pre = L.pre
        /\ M.tunnel = L.tunnel /\ M.life = L.life
    BY DEF Updated, Good, LayerState
  <1>6. \A i \in DOMAIN q : d + i \in DOMAIN L.queue /\ q[i] = L.queue[d + i]
    <2>1. DOMAIN L.queue = 1..n
      BY SoundFacts
    <2> HIDE DEF d, n, q
    <2>2. \A i \in 1..n - d : d + i \in 1..n
      BY <1>1
    <2> QED
      BY <1>4, <2>1, <2>2
  <1>7. \A i \in DOMAIN p : i \in DOMAIN L.queue /\ p[i] = L.queue[i]
    BY <1>1, <1>3, SoundFacts
  <1>8. 1 \in DOMAIN q
    BY <1>1, <1>4
  <1>9. \A i \in DOMAIN p, j \in DOMAIN q : i # d + j
    BY <1>1, <1>3, <1>4
  <1>10. \A i, j \in DOMAIN q : d + i = d + j => i = j
    BY <1>1, <1>4
  <1> HIDE DEF d, n, q, p, M
  <1>11. Sound(M)
    <2>1. \A i, j \in DOMAIN q : q[i].fd = q[j].fd => i = j
      <3> TAKE i, j \in DOMAIN q
      <3>1. d + i \in DOMAIN L.queue /\ d + j \in DOMAIN L.queue
        BY <1>6
      <3> QED
        BY <1>6, <1>10, <3>1, SoundFacts
    <2>2. \A i \in DOMAIN q : q[i].fd # L.pre
      BY <1>6, SoundFacts
    <2> QED
      BY <1>5, <2>1, <2>2 DEF Sound, Once, Alive
  <1>12. Held(M) \subseteq FdsOf(q) \cup ({L.pre} \ {NoFd})
    BY <1>5, <1>8 DEF Held, FdsOf
  <1>13. FdsOf(q) \subseteq Held(L)
    BY <1>6, SoundFacts DEF FdsOf
  <1>14. Held(M) \subseteq Held(L)
    BY <1>12, <1>13, SoundFacts
  <1>15. \A i \in DOMAIN p : p[i].fd \in P
    <2> TAKE i \in DOMAIN p
    <2>1. i \in DOMAIN L.queue /\ p[i] = L.queue[i]
      BY <1>7
    <2>2. p[i].fd # L.pre /\ p[i].fd \in Held(L)
      BY <2>1, SoundFacts
    <2>3. ASSUME NEW j \in DOMAIN q
          PROVE  p[i].fd # q[j].fd
      <3>1. d + j \in DOMAIN L.queue /\ q[j] = L.queue[d + j] /\ i # d + j
        BY <1>6, <1>9
      <3> QED
        BY <2>1, <3>1, SoundFacts
    <2>4. p[i].fd \notin FdsOf(q)
      BY <2>3 DEF FdsOf
    <2> QED
      BY <1>12, <2>2, <2>4
  <1>16. Names(Unfenced(p), P)
    <2> HIDE DEF P
    <2> QED
      BY <1>3, <1>15, NamesUnfenced
  <1> QED
    BY <1>5, <1>11, <1>14, <1>16 DEF Shrinks, Alive, d, p, M

LEMMA SameShrinks ==
  ASSUME NEW L, NEW M, Sound(L), Same(L, M)
  PROVE  Shrinks(L, M, <<>>)
  <1>1. Held(M) = Held(L) /\ Sound(M)
    BY SameKeeps
  <1>2. Names(<<>>, Held(L) \ Held(M))
    BY DEF Names
  <1> QED
    BY <1>1, <1>2 DEF Same, Shrinks

LEMMA ShrinksSame ==
  ASSUME NEW L, NEW M, NEW N, NEW rel, Shrinks(L, M, rel), Same(M, N)
  PROVE  Shrinks(L, N, rel)
  <1>1. Held(N) = Held(M) /\ Sound(N)
    BY SameKeeps DEF Shrinks
  <1> QED
    BY <1>1 DEF Same, Shrinks

\* releaseVtBuffer: the frame before the one shown goes back.
ReleaseVtCalls(L) ==
  IF ~RefreshOnly(L) /\ Consumes(L) THEN One(L.pre, L.prevFence) ELSE <<>>

LEMMA ShiftedShrinks ==
  ASSUME NEW L, Good(L), Sound(L), L.queue # <<>>
  PROVE  Shrinks(L, Shifted(L), One(L.pre, L.prevFence))
  <1> DEFINE q == IF L.cur = NoFd THEN L.queue ELSE Tail(L.queue)
             M == Shifted(L)
             P == Held(L) \ Held(M)
  <1>1. /\ M.queue = q /\ M.cur = NoFd /\ M.pre = L.cur
        /\ M.tunnel = L.tunnel /\ M.life = L.life
    BY DEF Shifted, Popped, MoveFence, Good, LayerState
  <1>2. L.tunnel # NoTunnel
    BY DEF Good, TunedOK
  <1>3. \A i \in DOMAIN q : \E k \in DOMAIN L.queue :
          /\ q[i] = L.queue[k]
          /\ L.cur # NoFd => i \in Nat /\ k = i + 1 /\ k # 1
          /\ L.cur = NoFd => k = i
    <2>1. CASE L.cur = NoFd
      BY <2>1
    <2>2. CASE L.cur # NoFd
      BY <2>2, SoundFacts, TailFacts
    <2> QED
      BY <2>1, <2>2
  <1> HIDE DEF q, M
  <1>4. ASSUME NEW i \in DOMAIN q
        PROVE  q[i].fd # L.cur /\ q[i].fd # L.pre /\ q[i].fd \in Held(L)
    <2>1. PICK k \in DOMAIN L.queue : /\ q[i] = L.queue[k]
                                      /\ L.cur # NoFd => i \in Nat /\ k = i + 1 /\ k # 1
      BY <1>3
    <2>2. CASE L.cur = NoFd
      BY <2>1, <2>2, SoundFacts
    <2>3. CASE L.cur # NoFd
      <3>1. k # 1 /\ L.cur = L.queue[1].fd /\ 1 \in DOMAIN L.queue
        BY <2>1, <2>3, SoundFacts
      <3> QED
        BY <2>1, <3>1, SoundFacts
    <2> QED
      BY <2>2, <2>3
  <1>5. ASSUME NEW i \in DOMAIN q, NEW j \in DOMAIN q, q[i].fd = q[j].fd
        PROVE  i = j
    <2>1. PICK k \in DOMAIN L.queue : /\ q[i] = L.queue[k]
                                      /\ L.cur # NoFd => i \in Nat /\ k = i + 1
                                      /\ L.cur = NoFd => k = i
      BY <1>3
    <2>2. PICK m \in DOMAIN L.queue : /\ q[j] = L.queue[m]
                                      /\ L.cur # NoFd => j \in Nat /\ m = j + 1
                                      /\ L.cur = NoFd => m = j
      BY <1>3
    <2>3. k = m
      BY <1>5, <2>1, <2>2, SoundFacts
    <2> QED
      BY <2>1, <2>2, <2>3
  <1>6. Sound(M)
    BY <1>1, <1>2, <1>4, <1>5 DEF Sound, Once, Alive
  <1>7. Held(M) \subseteq Held(L)
    BY <1>1, <1>4, SoundFacts DEF Held, FdsOf
  <1>8. L.pre # NoFd => L.pre \in P
    <2>1. L.pre # NoFd => L.pre # L.cur
      BY SoundFacts
    <2>2. L.pre # NoFd => L.pre \notin Held(M)
      BY <1>1, <1>4, <2>1 DEF Held, FdsOf
    <2> QED
      BY <2>2, SoundFacts
  <1>9. Names(One(L.pre, L.prevFence), P)
    <2> HIDE DEF P
    <2> QED
      BY <1>8, NamesOne
  <1> QED
    BY <1>1, <1>6, <1>7, <1>9 DEF Shrinks, Alive, M

LEMMA AfterReleaseShrinks ==
  ASSUME NEW L, Good(L), Sound(L)
  PROVE  /\ Shrinks(L, AfterRelease(L), ReleaseVtCalls(L))
         /\ ReleaseVtCalls(L) \in Seq(Call)
  <1> DEFINE A == [L EXCEPT !.refreshed = FALSE]
  <1>1. Good(A) /\ Same(L, A)
    BY FieldGood, FieldSame
  <1>2. ReleaseVtCalls(L) \in Seq(Call)
    <2>1. One(L.pre, L.prevFence) \in Seq(Call)
      BY OneType DEF Good, LayerState
    <2>2. <<>> \in Seq(Call)
      OBVIOUS
    <2> QED
      BY <2>1, <2>2 DEF ReleaseVtCalls
  <1>3. CASE RefreshOnly(L)
    <2>1. ~Consumes(L)
      BY <1>3 DEF RefreshOnly, Consumes
    <2>2. AfterRelease(L) = MoveFence(A) /\ ReleaseVtCalls(L) = <<>>
      BY <1>3, <2>1 DEF AfterRelease, ReleaseVtCalls
    <2> HIDE DEF A
    <2>3. Same(L, MoveFence(A))
      BY <1>1, MoveFenceSame, SameTransitive
    <2> QED
      BY <1>2, <2>2, <2>3, SameShrinks
  <1>4. CASE ~RefreshOnly(L) /\ ~Consumes(L)
    <2>1. AfterRelease(L) = A /\ ReleaseVtCalls(L) = <<>>
      BY <1>4 DEF AfterRelease, ReleaseVtCalls, RefreshOnly, Consumes
    <2> HIDE DEF A
    <2> QED
      BY <1>1, <1>2, <2>1, SameShrinks
  <1>5. CASE ~RefreshOnly(L) /\ Consumes(L) /\ L.pre = NoFd /\ L.cur = NoFd
    <2>1. AfterRelease(L) = Popped(L) /\ ReleaseVtCalls(L) = <<>>
      BY <1>5 DEF AfterRelease, ReleaseVtCalls, One
    <2>2. Same(L, Popped(L))
      BY <1>5 DEF Popped, Same, Alive, Good, LayerState
    <2> QED
      BY <1>2, <2>1, <2>2, SameShrinks
  <1>6. CASE ~RefreshOnly(L) /\ Consumes(L) /\ ~(L.pre = NoFd /\ L.cur = NoFd)
    <2>1. /\ AfterRelease(L) = Shifted(L)
          /\ ReleaseVtCalls(L) = One(L.pre, L.prevFence)
          /\ L.queue # <<>>
      BY <1>6 DEF AfterRelease, ReleaseVtCalls, Consumes
    <2> QED
      BY <1>2, <2>1, ShiftedShrinks
  <1> QED
    BY <1>3, <1>4, <1>5, <1>6

\* interruptVtProcess: the frames it gives back.
StatusCalls(L) ==
  IF StatusReleases(L) /\ ReleaseApplies(L)
  THEN ReleaseCalls(L, L.status = "hold") ELSE <<>>

LEMMA AfterStatusShrinks ==
  ASSUME NEW L, Good(L), Sound(L)
  PROVE  /\ Shrinks(L, AfterStatus(L), StatusCalls(L))
         /\ Shrinks(L, PostSolid(AfterStatus(L)), StatusCalls(L))
         /\ StatusCalls(L) \in Seq(Call)
  <1> DEFINE R == IF StatusReleases(L) /\ ReleaseApplies(L)
                  THEN ReleaseHeld(L, L.status = "hold") ELSE L
             S == [R EXCEPT !.status = "show"]
  <1>1. Good(R) /\ Shrinks(L, R, StatusCalls(L))
    <2>1. Shrinks(L, L, <<>>)
      BY FieldSame, SameShrinks
    <2> QED
      BY <2>1, ReleaseHeldGood, ReleaseHeldShrinks DEF StatusCalls
  <1>2. StatusCalls(L) \in Seq(Call)
    <2>1. <<>> \in Seq(Call)
      OBVIOUS
    <2> QED
      BY <2>1, ReleaseCallsType DEF StatusCalls, Good
  <1>3. AfterStatus(L) \in {S, [R EXCEPT !.curFence = OtherFence], FreeSolid(S), R}
    BY DEF AfterStatus
  <1> HIDE DEF R
  <1>4. Good(S) /\ Same(R, S)
    BY <1>1, FieldGood, FieldSame DEF AllStatuses
  <1>5. Same(R, [R EXCEPT !.curFence = OtherFence])
    BY <1>1, FieldSame
  <1> HIDE DEF S
  <1>6. Same(R, FreeSolid(S))
    BY <1>4, FreeSolidSame, SameTransitive
  <1>7. Same(R, R)
    BY DEF Same
  <1>8. Shrinks(L, AfterStatus(L), StatusCalls(L))
    BY <1>1, <1>3, <1>4, <1>5, <1>6, <1>7, ShrinksSame
  <1>9. Shrinks(L, PostSolid(AfterStatus(L)), StatusCalls(L))
    BY <1>8, AfterStatusGood, PostSolidSame, ShrinksSame
  <1> QED
    BY <1>2, <1>8, <1>9

\* A buffer no call is made for stays in the queue of its instance as it is.
LEMMA UncalledKept ==
  ASSUME NEW rel, NEW bufs, NEW b \in bufs, b \in BufferItem,
         \A i \in DOMAIN rel : rel[i].fd # b.fd
  PROVE  b \in Kept(bufs, rel)
  <1>1. Calls(b, rel) = {} /\ Cardinality({}) = 0
    BY FS_EmptySet DEF Calls
  <1>2. ~Dead(b, rel)
    BY <1>1 DEF Dead, BufferItem
  <1>3. Fenced(b, rel) = b
    <2> DEFINE r == b.ref - Cardinality(Calls(b, rel))
               s == b.fences \cup ({rel[i].fence : i \in Calls(b, rel)} \cap Fds)
    <2>1. r = b.ref /\ s = b.fences
      BY <1>1 DEF BufferItem
    <2>2. Fenced(b, rel) = [b EXCEPT !.ref = r, !.fences = s]
      BY DEF Fenced
    <2> HIDE DEF r, s
    <2> QED
      BY <2>1, <2>2 DEF BufferItem
  <1> QED
    BY <1>2, <1>3 DEF Kept

\* What the calls rel of a layer L leave of the instances, if it makes them.
Called(L, rel, is) == is = inst \/ is = AfterCalls(L, rel).insts

LEMMA AfterCallsKeep ==
  ASSUME inst \in [Tunnels -> InstState], NEW L \in LayerState, NEW rel, NEW is,
         Called(L, rel, is)
  PROVE  \A t \in Tunnels :
           /\ is[t].consumers = inst[t].consumers
           /\ is[t] = inst[t] \/ t = L.tunnel
           /\ \A f, P : Names(rel, P) /\ f \notin P =>
                 /\ Backed(inst[t], f) => Backed(is[t], f)
                 /\ Waiting(inst[t], f) => Waiting(is[t], f)
  <1> SUFFICES ASSUME NEW t \in Tunnels
               PROVE  /\ is[t].consumers = inst[t].consumers
                      /\ is[t] = inst[t] \/ t = L.tunnel
                      /\ \A f, P : Names(rel, P) /\ f \notin P =>
                            /\ Backed(inst[t], f) => Backed(is[t], f)
                            /\ Waiting(inst[t], f) => Waiting(is[t], f)
    OBVIOUS
  <1>1. CASE is[t] = inst[t]
    BY <1>1
  <1>2. CASE is[t] # inst[t]
    <2> DEFINE k == Kept(inst[t].bufs, rel)
               i == [inst[t] EXCEPT !.bufs = k]
    <2>1. t = L.tunnel /\ is = [inst EXCEPT ![t] = i]
      BY <1>2 DEF Called, AfterCalls
    <2>2. inst[t] \in InstState /\ inst[t].bufs \in SUBSET BufferItem
      BY DEF InstState
    <2>3. is[t] = i
      <3> HIDE DEF i
      <3> QED
        BY <2>1
    <2>4. i.consumers = inst[t].consumers /\ i.bufs = k
      <3> HIDE DEF k
      <3> QED
        BY <2>2 DEF InstState
    <2>5. ASSUME NEW P, Names(rel, P), NEW f, f \notin P,
                 NEW b \in inst[t].bufs, b.fd = f
          PROVE  b \in is[t].bufs
      <3>1. \A j \in DOMAIN rel : rel[j].fd # b.fd
        BY <2>5 DEF Names
      <3>2. b \in k
        BY <2>2, <3>1, UncalledKept
      <3> QED
        BY <2>3, <2>4, <3>2
    <2> HIDE DEF i, k
    <2> QED
      BY <2>1, <2>3, <2>4, <2>5 DEF Backed, Waiting
  <1> QED
    BY <1>1, <1>2

\* A delivery that was under way goes on undisturbed.
Undisturbed(ls, new, is) ==
  \A e : e.todo \in SUBSET Layers /\ Delivering(ls, inst, e) => Delivering(new, is, e)

SameConsumers(is) == \A t \in Tunnels : is[t].consumers = inst[t].consumers

LEMMA ShrinkSafe ==
  ASSUME inst \in [Tunnels -> InstState], NEW ls \in [Layers -> GoodLayers],
         NEW l \in Layers, NEW M, NEW rel, NEW new, NEW is, Safe(ls, inst),
         Shrinks(ls[l], M, rel), new = [ls EXCEPT ![l] = M],
         Called(ls[l], rel, is)
  PROVE  Safe(new, is) /\ Undisturbed(ls, new, is) /\ SameConsumers(is)
  <1> DEFINE P == Held(ls[l]) \ Held(M)
  <1>1. ls[l] \in LayerState
    BY DEF GoodLayers
  <1> DEFINE Stays(t) == \A f : f \notin P => /\ Backed(inst[t], f) => Backed(is[t], f)
                                              /\ Waiting(inst[t], f) => Waiting(is[t], f)
  <1>2. \A t \in Tunnels : /\ is[t].consumers = inst[t].consumers
                           /\ is[t] = inst[t] \/ t = ls[l].tunnel
                           /\ Stays(t)
    <2>1. Names(rel, P)
      BY DEF Shrinks
    <2> HIDE DEF P
    <2> QED
      BY <1>1, <2>1, AfterCallsKeep
  <1>3. new[l] = M /\ \A m \in Layers \ {l} : new[m] = ls[m]
    OBVIOUS
  <1>4. \A m \in Layers : /\ new[m].tunnel = ls[m].tunnel
                          /\ new[m].life = "dead" <=> ls[m].life = "dead"
    BY <1>3 DEF Shrinks
  <1>5. \A m \in Layers : Held(new[m]) \subseteq Held(ls[m]) /\ Sound(new[m])
    BY <1>3 DEF Shrinks, Safe
  <1> HIDE DEF Stays
  <1>6. \A m \in Layers, t \in Tunnels : Attached(new, is, m, t) = Attached(ls, inst, m, t)
    BY <1>2, <1>4 DEF Attached
  <1>7. \A m \in Layers, t \in Tunnels : Attached(ls, inst, m, t) /\ m # l => is[t] = inst[t]
    <2> SUFFICES ASSUME NEW m \in Layers, NEW t \in Tunnels, Attached(ls, inst, m, t),
                        m # l, t = ls[l].tunnel
                 PROVE  FALSE
      BY <1>2
    <2>1. Attached(ls, inst, l, t)
      BY DEF Attached
    <2> QED
      BY <2>1 DEF Safe, Alone
  <1>8. Alone(new, is)
    BY <1>6 DEF Safe, Alone
  <1>9. Tied(new, is)
    BY <1>2, <1>4 DEF Safe, Tied
  <1>10. OpenHeld(new, is)
    <2> SUFFICES ASSUME NEW m \in Layers, NEW t \in Tunnels,
                        m \in is[t].consumers, new[m].tunnel = t,
                        NEW f \in Held(new[m])
                 PROVE  Backed(is[t], f)
      BY DEF OpenHeld
    <2>1. /\ m \in inst[t].consumers /\ ls[m].tunnel = t
          /\ f \in Held(ls[m])
      BY <1>2, <1>4, <1>5
    <2>2. Backed(inst[t], f) /\ Attached(ls, inst, m, t)
      BY <2>1 DEF Safe, OpenHeld, Attached
    <2>3. CASE m = l
      <3>1. f \notin P
        BY <1>3, <2>3
      <3> QED
        BY <1>2, <2>2, <3>1 DEF Stays
    <2>4. CASE m # l
      BY <1>7, <2>2, <2>4
    <2> QED
      BY <2>3, <2>4
  <1>11. ASSUME NEW e, e.todo \in SUBSET Layers, Delivering(ls, inst, e)
         PROVE  Delivering(new, is, e)
    <2>1. ASSUME e.pc = "deliver", NEW m \in e.todo, NEW f \in FdsOf(e.items)
          PROVE  f \notin Held(new[m]) /\ Waiting(is[e.at], f)
      <3>1. /\ e.at \in Tunnels /\ m \in Layers /\ m \in inst[e.at].consumers
            /\ f \notin Held(ls[m]) /\ Waiting(inst[e.at], f)
        BY <1>11, <2>1 DEF Delivering
      <3>2. Attached(ls, inst, m, e.at)
        BY <3>1 DEF Attached
      <3>3. f \notin Held(new[m])
        BY <1>5, <3>1
      <3>4. CASE m = l
        <4>1. f \notin P
          BY <3>1, <3>4
        <4> QED
          BY <1>2, <3>1, <3>3, <4>1 DEF Stays
      <3>5. CASE m # l
        BY <1>7, <3>1, <3>2, <3>3, <3>5
      <3> QED
        BY <3>4, <3>5
    <2> QED
      BY <1>2, <1>11, <2>1 DEF Delivering
  <1>12. Safe(new, is)
    BY <1>5, <1>8, <1>9, <1>10 DEF Safe
  <1> QED
    BY <1>2, <1>11, <1>12 DEF Undisturbed, SameConsumers

----------------------------------------------------------------------------
(* Steps that tune a layer to another tunnel *)

Empty(L) == L.queue = <<>> /\ L.cur = NoFd /\ L.pre = NoFd

LEMMA EmptyFacts ==
  ASSUME NEW L, Empty(L)
  PROVE  /\ Held(L) = {} /\ Once(L)
         /\ L.tunnel = NoTunnel \/ Alive(L) => Sound(L)
  BY DEF Empty, Held, FdsOf, Once, Sound

\* A layer that is not tuned holds nothing.
LEMMA UntunedEmpty ==
  ASSUME NEW L, Good(L), Sound(L), L.tunnel = NoTunnel
  PROVE  Empty(L)
  BY DEF Good, TunedOK, Sound, Empty

Unknown(is, l) == \A t \in Tunnels : l \notin is[t].consumers

\* unregisterConsumer
LEMMA UntuneSafe ==
  ASSUME NEW ls \in [Layers -> GoodLayers], NEW is \in [Tunnels -> InstState],
         Safe(ls, is), NEW l \in Layers, ls[l].tunnel # NoTunnel,
         NEW M, Empty(M), M.tunnel = NoTunnel
  PROVE  LET left == [is EXCEPT ![ls[l].tunnel].consumers = @ \ {l}]
         IN  /\ Safe([ls EXCEPT ![l] = M], left)
             /\ Unknown(left, l)
             /\ \A t \in Tunnels : left[t].consumers \subseteq is[t].consumers
  <1> DEFINE u    == ls[l].tunnel
             c    == is[u].consumers \ {l}
             i    == [is[u] EXCEPT !.consumers = c]
             left == [is EXCEPT ![u] = i]
             new  == [ls EXCEPT ![l] = M]
  <1>1. u \in Tunnels /\ Alive(ls[l])
    <2>1. ls[l] \in LayerState
      BY DEF GoodLayers
    <2> QED
      BY <2>1 DEF LayerState, Safe, Sound
  <1>2. /\ left[u].consumers = is[u].consumers \ {l}
        /\ left[u].bufs = is[u].bufs
        /\ \A t \in Tunnels \ {u} : left[t] = is[t]
    <2>1. i.consumers = c /\ i.bufs = is[u].bufs
      BY <1>1 DEF InstState
    <2> HIDE DEF i
    <2> QED
      BY <1>1, <2>1
  <1>3. new[l] = M /\ \A m \in Layers \ {l} : new[m] = ls[m]
    OBVIOUS
  <1> HIDE DEF i, left, new
  <1>4. Unknown(left, l)
    <2> SUFFICES ASSUME NEW t \in Tunnels, l \in left[t].consumers PROVE FALSE
      BY DEF Unknown
    <2>1. t # u /\ l \in is[t].consumers
      BY <1>2
    <2> QED
      BY <1>1, <2>1 DEF Safe, Tied, Alive
  <1>5. \A t \in Tunnels : left[t].consumers \subseteq is[t].consumers
    BY <1>2
  <1>6. \A m \in Layers, t \in Tunnels :
           Attached(new, left, m, t) => m # l /\ Attached(ls, is, m, t)
    <2> SUFFICES ASSUME NEW m \in Layers, NEW t \in Tunnels, Attached(new, left, m, t)
                 PROVE  m # l /\ Attached(ls, is, m, t)
      OBVIOUS
    <2>1. m # l
      BY <1>3, <1>4, IdAssumption DEF Attached, Unknown
    <2> QED
      BY <1>3, <1>5, <2>1 DEF Attached
  <1>7. Alone(new, left)
    BY <1>6 DEF Safe, Alone
  <1>8. Tied(new, left)
    BY <1>3, <1>4, <1>5 DEF Safe, Tied, Unknown
  <1>9. OpenHeld(new, left)
    <2> SUFFICES ASSUME NEW m \in Layers, NEW t \in Tunnels,
                        m \in left[t].consumers, new[m].tunnel = t,
                        NEW f \in Held(new[m])
                 PROVE  Backed(left[t], f)
      BY DEF OpenHeld
    <2>1. m # l /\ new[m] = ls[m] /\ m \in is[t].consumers
      BY <1>3, <1>4, <1>5 DEF Unknown
    <2>2. Backed(is[t], f)
      BY <2>1 DEF Safe, OpenHeld
    <2>3. left[t].bufs = is[t].bufs
      BY <1>2
    <2> QED
      BY <2>2, <2>3 DEF Backed
  <1>10. \A m \in Layers : Sound(new[m])
    BY <1>3, EmptyFacts DEF Safe
  <1>11. Safe(new, left)
    BY <1>7, <1>8, <1>9, <1>10 DEF Safe
  <1>12. left = [is EXCEPT ![ls[l].tunnel].consumers = @ \ {l}]
    BY DEF left, i
  <1> QED
    BY <1>4, <1>5, <1>11, <1>12 DEF new

\* No layer but l has to do with the tunnel t.
Free(ls, is, l, t) == \A m \in Layers \ {l} : ~Attached(ls, is, m, t)

\* Layer l may be a new consumer of tunnel t, and nothing else is new.
Joins(is, is2, l, t) ==
  /\ \A u \in Tunnels \ {t} : is2[u] = is[u]
  /\ is2[t].consumers \subseteq is[t].consumers \cup {l}

\* A layer that nobody knows of is tuned to a tunnel that nobody uses.
LEMMA TuneSafe ==
  ASSUME NEW ls \in [Layers -> GoodLayers], NEW is, Safe(ls, is), NEW l \in Layers,
         NEW t \in Tunnels, Unknown(is, l),
         Free(ls, is, l, t),
         NEW M, Empty(M), M.tunnel = t, Alive(M),
         NEW is2, Joins(is, is2, l, t)
  PROVE  Safe([ls EXCEPT ![l] = M], is2)
  <1> DEFINE new == [ls EXCEPT ![l] = M]
  <1>1. new[l] = M /\ \A m \in Layers \ {l} : new[m] = ls[m]
    OBVIOUS
  <1> HIDE DEF new
  <1>2. \A m \in Layers \ {l} : ls[m].tunnel # t /\ m \notin is[t].consumers
    BY DEF Free, Attached
  <1>3. /\ \A u \in Tunnels \ {t} : is2[u] = is[u]
        /\ is2[t].consumers \subseteq is[t].consumers \cup {l}
    BY DEF Joins
  <1>4. \A m \in Layers \ {l} : /\ new[m].tunnel # t /\ m \notin is2[t].consumers
                                /\ ~Attached(new, is2, m, t)
    BY <1>1, <1>2, <1>3 DEF Attached
  <1>5. \A u \in Tunnels \ {t} : new[l].tunnel # u /\ l \notin is2[u].consumers
                                 /\ ~Attached(new, is2, l, u)
    BY <1>1, <1>3 DEF Unknown, Attached
  <1>6. \A m \in Layers \ {l}, u \in Tunnels \ {t} :
           Attached(new, is2, m, u) = Attached(ls, is, m, u)
    BY <1>1, <1>3 DEF Attached
  <1>7. Alone(new, is2)
    <2> SUFFICES ASSUME NEW m \in Layers, NEW n \in Layers, NEW u \in Tunnels,
                        Attached(new, is2, m, u), Attached(new, is2, n, u)
                 PROVE  m = n
      BY DEF Alone
    <2>1. CASE u = t
      BY <1>4, <2>1
    <2>2. CASE u # t
      <3>1. m # l /\ n # l
        BY <1>5, <2>2
      <3>2. Attached(ls, is, m, u) /\ Attached(ls, is, n, u)
        BY <1>6, <2>2, <3>1
      <3> QED
        BY <3>2 DEF Safe, Alone
    <2> QED
      BY <2>1, <2>2
  <1>8. Tied(new, is2)
    <2> SUFFICES ASSUME NEW m \in Layers, NEW u \in Tunnels, m \in is2[u].consumers
                 PROVE  new[m].tunnel = u \/ new[m].life = "dead"
      BY DEF Tied
    <2>1. CASE m = l
      BY <1>1, <1>5, <2>1
    <2>2. CASE m # l
      BY <1>1, <1>4, <1>3, <2>2 DEF Safe, Tied
    <2> QED
      BY <2>1, <2>2
  <1>9. OpenHeld(new, is2)
    <2> SUFFICES ASSUME NEW m \in Layers, NEW u \in Tunnels,
                        m \in is2[u].consumers, new[m].tunnel = u,
                        NEW f \in Held(new[m])
                 PROVE  Backed(is2[u], f)
      BY DEF OpenHeld
    <2>1. m # l
      BY <1>1, EmptyFacts
    <2>2. u # t /\ new[m] = ls[m] /\ is2[u] = is[u]
      BY <1>1, <1>4, <1>3, <2>1
    <2> QED
      BY <2>2 DEF Safe, OpenHeld
  <1>10. \A m \in Layers : Sound(new[m])
    BY <1>1, EmptyFacts DEF Safe
  <1> QED
    BY <1>7, <1>8, <1>9, <1>10 DEF Safe, new

\* A layer that ends may leave a consumer behind, but no frames.
LEMMA BurySafe ==
  ASSUME NEW ls \in [Layers -> GoodLayers], NEW is, Safe(ls, is), NEW l \in Layers,
         NEW M, Empty(M), M.tunnel = NoTunnel, M.life = "dead"
  PROVE  Safe([ls EXCEPT ![l] = M], is)
  <1> DEFINE new == [ls EXCEPT ![l] = M]
  <1>1. new[l] = M /\ \A m \in Layers \ {l} : new[m] = ls[m]
    OBVIOUS
  <1> HIDE DEF new
  <1>2. \A m \in Layers, t \in Tunnels : new[m].tunnel = t => m # l /\ ls[m].tunnel = t
    BY <1>1, IdAssumption
  <1>3. \A m \in Layers, t \in Tunnels : Attached(new, is, m, t) => Attached(ls, is, m, t)
    BY <1>2 DEF Attached
  <1>4. Alone(new, is)
    BY <1>3 DEF Safe, Alone
  <1>5. Tied(new, is)
    BY <1>1 DEF Safe, Tied
  <1>6. OpenHeld(new, is)
    BY <1>1, <1>2 DEF Safe, OpenHeld
  <1>7. \A m \in Layers : Sound(new[m])
    BY <1>1, EmptyFacts DEF Safe
  <1> QED
    BY <1>4, <1>5, <1>6, <1>7 DEF Safe, new

\* releaseVtResourceLocked, unregisterConsumer and the clean-up after it.
LEMMA DisconnectedSafe ==
  ASSUME IInv, Safe(layer, inst), NEW l \in Layers, NEW L \in GoodLayers,
         Same(layer[l], L)
  PROVE  LET s == Disconnected(l, L)
         IN  /\ Safe(s.layers, s.insts)
             /\ \A m \in Layers \ {l} : s.layers[m].tunnel = layer[m].tunnel
             /\ \A t \in Tunnels : s.insts[t].consumers \subseteq inst[t].consumers
             /\ Alive(L) => Alive(s.layers[l])
             /\ L.vt /\ L.tunnel # NoTunnel => /\ Empty(s.layers[l])
                                               /\ Unknown(s.insts, l)
  <1> DEFINE s      == Disconnected(l, L)
             rel    == ReleaseCalls(L, FALSE)
             after  == AfterCalls(L, rel)
             left   == [after.insts EXCEPT ![L.tunnel].consumers = @ \ {l}]
             H      == ReleaseHeld(L, FALSE)
             U      == Unregistered(H)
             ls     == [layer EXCEPT ![l] = L]
             lh     == [layer EXCEPT ![l] = H]
             layers == [layer EXCEPT ![l] = U]
  <1>1. Good(L) /\ L \in LayerState /\ layer \in [Layers -> GoodLayers]
        /\ inst \in [Tunnels -> InstState]
    BY GoodLayersDef DEF Good, IInv
  <1>2. Safe(ls, inst) /\ Sound(L)
    <2>1. \A m \in Layers : Same(layer[m], ls[m])
      BY <1>1 DEF Same
    <2>2. Safe(ls, inst)
      <3> HIDE DEF ls
      <3> QED
        BY <2>1, SafeSame
    <2> QED
      BY <2>2, <1>1 DEF Safe
  <1>3. Good(H) /\ H.tunnel = L.tunnel /\ H.life = L.life /\ Empty(H)
    <2>1. Good(H)
      BY <1>1, ReleaseHeldGood
    <2> QED
      BY <1>1, <2>1 DEF ReleaseHeld, Good, LayerState, Empty
  <1>4. Empty(U) /\ U.tunnel = NoTunnel /\ U.life = L.life /\ U \in GoodLayers
    <2>1. Empty(U) /\ U.tunnel = NoTunnel /\ U.life = L.life
      <3> HIDE DEF H
      <3> QED
        BY <1>3 DEF Unregistered, Good, LayerState, Empty
    <2>2. U \in GoodLayers
      BY <1>1, ReleaseHeldGood, UnregisteredBare, GoodBare, GoodLayersDef
    <2> QED
      BY <2>1, <2>2
  <1>5. /\ Shrinks(L, H, rel)
        /\ after.insts \in [Tunnels -> InstState]
    <2>1. Shrinks(L, H, rel)
      BY <1>1, <1>2, ReleaseHeldShrinks
    <2>2. rel \in Seq(Call)
      BY <1>1, ReleaseCallsType
    <2>3. after.insts \in [Tunnels -> InstState]
      BY <1>1, <2>2, AfterCallsType
    <2> QED
      BY <2>1, <2>3
  <1>6. /\ Safe(lh, after.insts)
        /\ \A t \in Tunnels : after.insts[t].consumers = inst[t].consumers
    <2>1. ls[l] = L /\ ls \in [Layers -> GoodLayers]
      BY <1>1
    <2>2. lh = [ls EXCEPT ![l] = H]
      OBVIOUS
    <2> HIDE DEF ls, H, rel, lh
    <2>3. after.insts = AfterCalls(ls[l], rel).insts
      BY <2>1
    <2> HIDE DEF after
    <2>4. Shrinks(ls[l], H, rel)
      BY <1>5, <2>1
    <2>5. inst \in [Tunnels -> InstState] /\ Safe(ls, inst)
      BY <1>1, <1>2
    <2> DEFINE is == after.insts
    <2>6. Called(ls[l], rel, is)
      BY <2>3 DEF Called
    <2> HIDE DEF is
    <2>7. Safe(lh, is) /\ SameConsumers(is)
      BY <2>1, <2>2, <2>4, <2>5, <2>6, ShrinkSafe
    <2> QED
      BY <2>7 DEF is, SameConsumers
  <1>7. CASE ~ReleaseApplies(L)
    <2>1. s = Unchanged(l, L)
      BY <1>7 DEF Disconnected
    <2>2. s.layers = ls /\ s.insts = inst
      BY <2>1 DEF Unchanged
    <2>3. L.vt /\ L.tunnel # NoTunnel => FALSE
      BY <1>1, <1>7 DEF ReleaseApplies, Good, TunedOK
    <2>4. ls[l] = L /\ \A m \in Layers \ {l} : ls[m] = layer[m]
      BY <1>1
    <2> HIDE DEF s, ls
    <2> QED
      BY <1>2, <2>2, <2>3, <2>4 DEF s
  <1>8. CASE ReleaseApplies(L) /\ L.tunnel = NoTunnel
    <2>1. s = [Unchanged(l, H) EXCEPT !.insts = after.insts, !.freed = after.freed]
      BY <1>8 DEF Disconnected
    <2>2. s.layers = lh /\ s.insts = after.insts
      BY <2>1 DEF Unchanged
    <2>3. lh[l] = H /\ \A m \in Layers \ {l} : lh[m] = layer[m]
      BY <1>1
    <2> HIDE DEF s, lh, after, H
    <2> QED
      BY <1>3, <1>6, <1>8, <2>2, <2>3 DEF s, Alive
  <1>9. CASE ReleaseApplies(L) /\ L.tunnel # NoTunnel
    <2>1. s.layers = ClearUpLayers(left, layers) /\ s.insts = ClearUp(left)
      BY <1>9 DEF Disconnected
    <2>2. /\ lh[l] = H /\ lh \in [Layers -> GoodLayers]
          /\ layers = [lh EXCEPT ![l] = U]
          /\ layers \in [Layers -> GoodLayers] /\ layers[l] = U
          /\ \A m \in Layers \ {l} : layers[m] = layer[m]
      BY <1>1, <1>3, <1>4, GoodLayersDef
    <2> HIDE DEF s, lh, layers, H, U
    <2>3. lh[l].tunnel = L.tunnel
      BY <1>3, <2>2
    <2>4. left = [after.insts EXCEPT ![lh[l].tunnel].consumers = @ \ {l}]
      BY <2>3
    <2>5. left \in [Tunnels -> InstState]
      <3> DEFINE i == after.insts[L.tunnel]
                 j == [i EXCEPT !.consumers = i.consumers \ {l}]
      <3>1. L.tunnel \in Tunnels
        BY <1>1, <1>9 DEF LayerState
      <3>2. j \in InstState
        BY <1>5, <3>1 DEF InstState
      <3>3. left = [after.insts EXCEPT ![L.tunnel] = j]
        OBVIOUS
      <3> HIDE DEF j
      <3> QED
        BY <1>5, <3>2, <3>3
    <2> HIDE DEF left, after
    <2>6. /\ Safe(layers, left) /\ Unknown(left, l)
          /\ \A t \in Tunnels : left[t].consumers \subseteq inst[t].consumers
      BY ZenonT(60), <1>4, <1>5, <1>6, <1>9, <2>2, <2>3, <2>4, UntuneSafe
    <2>7. /\ Safe(s.layers, s.insts)
          /\ \A m \in Layers : Same(layers[m], s.layers[m])
          /\ \A t \in Tunnels : s.insts[t].consumers = left[t].consumers
      BY ZenonT(60), <2>1, <2>2, <2>5, <2>6, ClearUpSafe
    <2>8. Empty(s.layers[l]) /\ Unknown(s.insts, l)
      BY <1>4, <2>2, <2>6, <2>7 DEF Same, Empty, Unknown
    <2>9. Alive(L) => Alive(s.layers[l])
      BY <1>4, <2>2, <2>7 DEF Same, Alive
    <2>10. \A m \in Layers \ {l} : s.layers[m].tunnel = layer[m].tunnel
      BY <2>2, <2>7 DEF Same
    <2> QED
      BY <2>6, <2>7, <2>8, <2>9, <2>10 DEF s
  <1> QED
    BY <1>7, <1>8, <1>9

\* setSidebandStream up to the new consumer: the layer has left its tunnel,
\* and nobody is attached to the new one.
LEMMA RetunedSafe ==
  ASSUME IInv, Safe(layer, inst), ~Shared, NEW l \in Layers, NEW t \in Tunnels,
         layer[l].life = "live", layer[l].tunnel # t, MayTune(l, t)
  PROVE  LET s == Retuned(l, t)
         IN  \E ls \in [Layers -> GoodLayers] :
               /\ s.layers = [ls EXCEPT ![l].tunnel = t]
               /\ Safe(ls, s.insts)
               /\ Empty(ls[l]) /\ Alive(ls[l]) /\ ls[l].tunnel = NoTunnel
               /\ Unknown(s.insts, l)
               /\ Free(ls, s.insts, l, t)
  <1> DEFINE L  == [ClearBufferInfo(layer[l]) EXCEPT !.vt = TRUE]
             r  == IF L.tunnel = NoTunnel THEN Unchanged(l, L) ELSE Disconnected(l, L)
             ls == r.layers
  <1>1. Good(layer[l]) /\ Sound(layer[l]) /\ Same(layer[l], L)
    BY LayersGood, ClearBufferInfoSame DEF Safe
  <1>2. Good(L) /\ L.vt /\ L \in GoodLayers
    <2> DEFINE A == ClearBufferInfo(layer[l])
    <2>1. Good(A)
      BY <1>1, ClearBufferInfoGood
    <2> HIDE DEF A
    <2>2. Good([A EXCEPT !.vt = TRUE])
      BY <2>1, FieldGood
    <2>3. [A EXCEPT !.vt = TRUE].vt
      BY <2>1 DEF Good, LayerState
    <2> QED
      BY <2>2, <2>3, GoodLayersDef DEF A
  <1>3. Alive(L) /\ Sound(L)
    BY <1>1, SameKeeps DEF Same, Alive
  <1>4. \A m \in Layers \ {l} : layer[m].tunnel # t /\ m \notin inst[t].consumers
    BY DEF MayTune, Registered
  <1>5. Retuned(l, t) = [r EXCEPT !.layers[l].tunnel = t]
    BY DEF Retuned
  <1> HIDE DEF L
  <1>6. r \in Outcome
    BY <1>2, UnchangedType, DisconnectedType
  <1>7. /\ Safe(ls, r.insts) /\ Empty(ls[l]) /\ Alive(ls[l]) /\ ls[l].tunnel = NoTunnel
        /\ Unknown(r.insts, l)
        /\ \A m \in Layers \ {l} : ls[m].tunnel = layer[m].tunnel
        /\ r.insts[t].consumers \subseteq inst[t].consumers
    <2>1. CASE L.tunnel = NoTunnel
      <3>1. ls = [layer EXCEPT ![l] = L] /\ r.insts = inst
        BY <2>1 DEF Unchanged
      <3>2. ls[l] = L /\ \A m \in Layers \ {l} : ls[m] = layer[m]
        BY <3>1 DEF IInv
      <3> HIDE DEF r
      <3>3. \A m \in Layers : Same(layer[m], ls[m])
        BY <1>1, <3>2 DEF Same
      <3>4. Safe(ls, inst)
        BY <3>3, SafeSame
      <3>5. Empty(L)
        BY <1>2, <1>3, <2>1, UntunedEmpty
      <3>6. Unknown(inst, l)
        <4> SUFFICES ASSUME NEW u \in Tunnels, l \in inst[u].consumers PROVE FALSE
          BY DEF Unknown
        <4>1. layer[l].tunnel = NoTunnel /\ layer[l].life # "dead"
          BY <1>1, <2>1 DEF Same
        <4> QED
          BY <4>1, IdAssumption DEF Safe, Tied
      <3> QED
        BY <1>3, <2>1, <3>1, <3>2, <3>4, <3>5, <3>6
    <2>2. CASE L.tunnel # NoTunnel
      <3>1. r = Disconnected(l, L)
        BY <2>2
      <3>2. ls[l].tunnel = NoTunnel
        BY <1>2, <2>2, <3>1, DisconnectedType
      <3> HIDE DEF r
      <3> QED
        BY <1>1, <1>2, <1>3, <2>2, <3>1, <3>2, DisconnectedSafe
    <2> QED
      BY <2>1, <2>2
  <1>8. Free(ls, r.insts, l, t)
    BY <1>4, <1>7 DEF Free, Attached
  <1>9. /\ ls \in [Layers -> GoodLayers]
        /\ Retuned(l, t).layers = [ls EXCEPT ![l].tunnel = t]
        /\ Retuned(l, t).insts = r.insts
    <2> HIDE DEF r
    <2> QED
      BY <1>5, <1>6 DEF Outcome
  <1> HIDE DEF r, ls
  <1> QED
    BY <1>7, <1>8, <1>9

----------------------------------------------------------------------------
(* SurfaceFlinger's steps *)

\* A step that leaves every frame where it is.
LEMMA SameStep ==
  ASSUME IInv, HInv, \A l \in Layers : Same(layer[l], layer'[l]),
         inst' = inst, ev' = ev
  PROVE  HInv'
  <1>1. ev.todo \in SUBSET Layers
    BY DEF IInv, EvState
  <1> DEFINE new == layer'
  <1>2. \A l \in Layers : Same(layer[l], new[l])
    OBVIOUS
  <1> HIDE DEF new
  <1>3. Safe(new, inst)
    BY <1>2, SafeSame DEF HInv
  <1>4. Delivering(new, inst, ev)
    BY <1>1, <1>2, DeliveringSame DEF HInv
  <1> QED
    BY <1>3, <1>4 DEF HInv, new

LEMMA OneSameStep ==
  ASSUME IInv, HInv, NEW l \in Layers, NEW L, Same(layer[l], L),
         layer' = [layer EXCEPT ![l] = L], inst' = inst, ev' = ev
  PROVE  HInv'
  <1>1. \A m \in Layers : Same(layer[m], layer'[m])
    BY DEF IInv, Same
  <1> QED
    BY <1>1, SameStep

\* A step outside a delivery, to the state s.
LEMMA IdleStep ==
  ASSUME NEW s, Safe(s.layers, s.insts), Becomes(s), MutexFree, ev' = ev
  PROVE  HInv'
  BY DEF HInv, Becomes, Delivering, MutexFree

\* A step that makes calls for one layer, or none.
LEMMA ShrinkStep ==
  ASSUME IInv, HInv, NEW l \in Layers, NEW M, NEW rel,
         Shrinks(layer[l], M, rel), layer' = [layer EXCEPT ![l] = M],
         Called(layer[l], rel, inst'), ev' = ev
  PROVE  HInv'
  <1> DEFINE new == layer'
             is  == inst'
  <1>1. Called(layer[l], rel, is) /\ new = [layer EXCEPT ![l] = M]
    OBVIOUS
  <1>2. inst \in [Tunnels -> InstState] /\ layer \in [Layers -> GoodLayers]
        /\ ev.todo \in SUBSET Layers
    BY DEF IInv, EvState
  <1>3. Safe(layer, inst) /\ Delivering(layer, inst, ev)
    BY DEF HInv
  <1> HIDE DEF new, is
  <1>4. Safe(new, is) /\ Undisturbed(layer, new, is)
    BY <1>1, <1>2, <1>3, ShrinkSafe
  <1>5. Delivering(new, is, ev)
    BY <1>2, <1>3, <1>4 DEF Undisturbed
  <1> QED
    BY <1>4, <1>5 DEF HInv, new, is

LEMMA SoundLayers ==
  ASSUME IInv, HInv, NEW l \in Layers
  PROVE  Good(layer[l]) /\ Sound(layer[l]) /\ layer[l] \in GoodLayers
  BY LayersGood DEF HInv, Safe

LEMMA CreateLayerHeld ==
  ASSUME IInv, HInv, NEW l \in Layers, CreateLayer(l)
  PROVE  HInv'
  <1>1. layer[l].life = "none" /\ layer[l].tunnel = NoTunnel
    BY SoundLayers DEF CreateLayer, Sound, Alive
  <1>2. Empty(layer[l])
    BY <1>1, SoundLayers, UntunedEmpty
  <1>3. Same(layer[l], NewLayer)
    BY <1>1, <1>2 DEF Same, Empty, NewLayer, Alive
  <1> QED
    BY <1>3, OneSameStep DEF CreateLayer

LEMMA SameSidebandStreamHeld ==
  ASSUME IInv, HInv, NEW l \in Layers, SameSidebandStream(l)
  PROVE  HInv'
  <1>1. Same(layer[l], [ClearBufferInfo(layer[l]) EXCEPT !.vt = TRUE])
    BY SoundLayers, ClearBufferInfoSame
  <1> QED
    BY <1>1, OneSameStep DEF SameSidebandStream

LEMMA SetBufferHeld ==
  ASSUME IInv, HInv, NEW l \in Layers, SetBuffer(l)
  PROVE  HInv'
  <1> DEFINE A == ClearBufferInfo(layer[l])
             v == A.needRelease \/ layer[l].vt
             B == [A EXCEPT !.needRelease = v]
  <1>1. Good(A) /\ Same(layer[l], A)
    BY SoundLayers, ClearBufferInfoGood, ClearBufferInfoSame
  <1>2. layer' = [layer EXCEPT ![l] = B]
    BY DEF SetBuffer
  <1> HIDE DEF A, v
  <1>3. Same(layer[l], B)
    BY <1>1, FieldSame, SameTransitive
  <1> HIDE DEF B
  <1> QED
    BY <1>2, <1>3, OneSameStep DEF SetBuffer

LEMMA SetColorHeld ==
  ASSUME IInv, HInv, NEW l \in Layers, SetColor(l)
  PROVE  HInv'
  <1>1. Same(layer[l], ClearBufferInfo(layer[l]))
    BY SoundLayers, ClearBufferInfoSame
  <1> QED
    BY <1>1, OneSameStep DEF SetColor

LEMMA VtRefreshHeld ==
  ASSUME IInv, HInv, NEW l \in Layers, VtRefresh(l)
  PROVE  HInv'
  <1> DEFINE B == [layer[l] EXCEPT !.refreshed = TRUE]
  <1>1. Same(layer[l], B)
    BY SoundLayers, FieldSame
  <1>2. layer' = [layer EXCEPT ![l] = B]
    BY DEF VtRefresh
  <1> HIDE DEF B
  <1> QED
    BY <1>1, <1>2, OneSameStep DEF VtRefresh

LEMMA ClearUpdateFlagHeld ==
  ASSUME IInv, HInv, NEW l \in Layers, ClearUpdateFlag(l)
  PROVE  HInv'
  <1> DEFINE s == Disconnected(l, layer[l])
  <1>1. Same(layer[l], layer[l])
    BY DEF Same
  <1>2. Safe(s.layers, s.insts)
    BY <1>1, SoundLayers, DisconnectedSafe DEF HInv
  <1>3. Becomes(s) /\ MutexFree /\ ev' = ev
    BY DEF ClearUpdateFlag
  <1> HIDE DEF s
  <1> QED
    BY <1>2, <1>3, IdleStep

LEMMA DestroyLayerHeld ==
  ASSUME IInv, HInv, NEW l \in Layers, DestroyLayer(l)
  PROVE  HInv'
  <1> DEFINE s == IF layer[l].vt THEN Disconnected(l, layer[l])
                                 ELSE Unchanged(l, layer[l])
             M == s.layers[l]
             B == [M EXCEPT !.life = "dying"]
             r == [s EXCEPT !.layers[l] = B]
  <1>1. Same(layer[l], layer[l]) /\ Alive(layer[l])
    BY DEF Same, DestroyLayer, Alive
  <1>2. s \in Outcome
    BY LayersGood, DisconnectedType, UnchangedType
  <1>3. Safe(s.layers, s.insts) /\ Alive(M)
    <2>1. CASE layer[l].vt
      <3>1. s = Disconnected(l, layer[l])
        BY <2>1
      <3> HIDE DEF s
      <3> QED
        BY <1>1, <3>1, SoundLayers, DisconnectedSafe DEF HInv
    <2>2. CASE ~layer[l].vt
      <3>1. s.layers = layer /\ s.insts = inst
        BY <2>2 DEF Unchanged, IInv
      <3> HIDE DEF s
      <3> QED
        BY <1>1, <3>1 DEF HInv
    <2> QED
      BY <2>1, <2>2
  <1>4. Becomes(r) /\ MutexFree /\ ev' = ev
    BY DEF DestroyLayer
  <1> HIDE DEF s
  <1>5. Good(M)
    BY <1>2, GoodLayersDef DEF Outcome
  <1> HIDE DEF M
  <1>6. Same(M, B)
    BY <1>3, <1>5, FieldSame
  <1> HIDE DEF B
  <1>7. /\ r.layers = [s.layers EXCEPT ![l] = B] /\ r.insts = s.insts
        /\ s.layers \in [Layers -> GoodLayers]
    BY <1>2 DEF Outcome
  <1>8. \A m \in Layers : Same(s.layers[m], r.layers[m])
    BY <1>6, <1>7 DEF M, Same
  <1> HIDE DEF r
  <1>9. Safe(r.layers, r.insts)
    <2>1. \A t \in Tunnels : r.insts[t] = s.insts[t]
      BY <1>7
    <2> QED
      BY <1>3, <1>8, <2>1, SafeSame
  <1> QED
    BY <1>4, <1>9, IdleStep

LEMMA DestructLayerHeld ==
  ASSUME IInv, HInv, NEW l \in Layers, DestructLayer(l)
  PROVE  HInv'
  <1> DEFINE s == Disconnected(l, layer[l])
             B == [NewLayer EXCEPT !.life = "dead"]
             r == [s EXCEPT !.layers[l] = B]
  <1>1. Same(layer[l], layer[l])
    BY DEF Same
  <1>2. s \in Outcome /\ Safe(s.layers, s.insts)
    BY <1>1, SoundLayers, DisconnectedType, DisconnectedSafe DEF HInv
  <1>3. Empty(B) /\ B.tunnel = NoTunnel /\ B.life = "dead"
    BY DEF Empty, NewLayer
  <1>4. Becomes(r) /\ MutexFree /\ ev' = ev
    BY DEF DestructLayer
  <1> HIDE DEF s, B
  <1>5. /\ r.layers = [s.layers EXCEPT ![l] = B] /\ r.insts = s.insts
        /\ s.layers \in [Layers -> GoodLayers]
    BY <1>2 DEF Outcome
  <1>6. Safe([s.layers EXCEPT ![l] = B], s.insts)
    BY <1>2, <1>3, <1>5, BurySafe
  <1> HIDE DEF r
  <1>7. Safe(r.layers, r.insts)
    BY <1>5, <1>6
  <1> QED
    BY <1>4, <1>7, IdleStep

LEMMA SetSidebandStreamHeld ==
  ASSUME IInv, HInv, ~Shared, NEW l \in Layers, NEW t \in Tunnels,
         SetSidebandStream(l, t)
  PROVE  HInv'
  <1> DEFINE s     == Retuned(l, t)
             K     == s.layers[l]
             L     == [K EXCEPT !.queue = <<>>, !.retuned = TRUE]
             N     == [L EXCEPT !.consumer = TRUE, !.listener = "live"]
             i     == IF s.insts[t].live THEN s.insts[t] ELSE NewInst
             inst1 == [i EXCEPT !.consumers = i.consumers \cup {l}]
             r1    == [s EXCEPT !.layers[l] = L]
             r2    == [s EXCEPT !.layers[l] = N, !.insts[t] = inst1]
  <1>1. /\ s \in Halfway(l) /\ Bare(K) /\ K.tunnel = t
        /\ layer[l].life = "live" /\ layer[l].tunnel # t /\ MayTune(l, t)
    BY RetunedType DEF SetSidebandStream
  <1>2. PICK ls \in [Layers -> GoodLayers] :
               /\ s.layers = [ls EXCEPT ![l].tunnel = t]
               /\ Safe(ls, s.insts)
               /\ Empty(ls[l]) /\ Alive(ls[l]) /\ ls[l].tunnel = NoTunnel
               /\ Unknown(s.insts, l)
               /\ Free(ls, s.insts, l, t)
    BY <1>1, RetunedSafe DEF HInv
  <1>3. MutexFree /\ ev' = ev /\ (Becomes(r1) \/ Becomes(r2))
    BY DEF SetSidebandStream
  <1>4. inst1.consumers \subseteq s.insts[t].consumers \cup {l}
    <2>1. s.insts[t] \in InstState
      BY <1>1 DEF Halfway
    <2>2. i \in InstState /\ i.consumers \subseteq s.insts[t].consumers
      BY <2>1 DEF NewInst, InstState
    <2> HIDE DEF i
    <2> QED
      BY <2>2 DEF InstState
  <1> HIDE DEF s, inst1
  <1>5. K = [ls[l] EXCEPT !.tunnel = t]
    BY <1>2
  <1>6. Empty(K) /\ Alive(K)
    <2>1. ls[l] \in LayerState
      BY <1>2 DEF GoodLayers
    <2> HIDE DEF K
    <2> QED
      BY <1>2, <1>5, <2>1 DEF Empty, Alive, LayerState
  <1> HIDE DEF K
  <1>7. Empty(L) /\ Alive(L) /\ L.tunnel = t
    BY <1>1, <1>6 DEF Bare, LayerState, Empty, Alive
  <1> HIDE DEF L
  <1>8. Empty(N) /\ Alive(N) /\ N.tunnel = t
    BY <1>7 DEF Empty, Alive
  <1> HIDE DEF N
  <1>9. /\ r1.layers = [ls EXCEPT ![l] = L] /\ r1.insts = s.insts
        /\ r2.layers = [ls EXCEPT ![l] = N] /\ r2.insts = [s.insts EXCEPT ![t] = inst1]
    BY <1>1, <1>2 DEF Halfway
  <1> HIDE DEF r1, r2
  <1>10. Safe(r1.layers, r1.insts)
    <2>1. Safe([ls EXCEPT ![l] = L], s.insts)
      BY <1>2, <1>7, TuneSafe DEF Joins
    <2> QED
      BY <1>9, <2>1
  <1>11. Safe(r2.layers, r2.insts)
    <2> DEFINE is2 == [s.insts EXCEPT ![t] = inst1]
    <2>1. is2[t] = inst1 /\ \A u \in Tunnels \ {t} : is2[u] = s.insts[u]
      BY <1>1 DEF Halfway
    <2> HIDE DEF is2
    <2>2. Joins(s.insts, is2, l, t)
      BY <1>4, <2>1 DEF Joins
    <2>3. Safe([ls EXCEPT ![l] = N], is2)
      BY <1>2, <1>8, <2>2, TuneSafe
    <2> QED
      BY <1>9, <2>3 DEF is2
  <1> QED
    BY <1>3, <1>10, <1>11, IdleStep

LEMMA SetSidebandStreamFailsHeld ==
  ASSUME IInv, HInv, ~Shared, NEW l \in Layers, NEW t \in Tunnels,
         SetSidebandStreamFails(l, t)
  PROVE  HInv'
  <1> DEFINE s == Retuned(l, t)
             M == [s.layers[l] EXCEPT !.consumer = TRUE, !.tunnel = NoTunnel]
             r == [s EXCEPT !.layers[l].consumer = TRUE, !.layers[l].tunnel = NoTunnel]
  <1>1. /\ s \in Halfway(l)
        /\ layer[l].life = "live" /\ layer[l].tunnel # t /\ MayTune(l, t)
    BY RetunedType DEF SetSidebandStreamFails
  <1>2. PICK ls \in [Layers -> GoodLayers] :
               /\ s.layers = [ls EXCEPT ![l].tunnel = t]
               /\ Safe(ls, s.insts)
               /\ ls[l].tunnel = NoTunnel
    BY <1>1, RetunedSafe DEF HInv
  <1>3. MutexFree /\ ev' = ev /\ Becomes(r)
    BY DEF SetSidebandStreamFails
  <1> HIDE DEF s
  <1>4. /\ r.layers = [s.layers EXCEPT ![l] = M] /\ r.insts = s.insts
    BY <1>1 DEF Halfway
  <1>5. s.layers[l] = [ls[l] EXCEPT !.tunnel = t]
    BY <1>2
  <1>6. Same(ls[l], M)
    <2>1. ls[l] \in LayerState
      BY <1>2 DEF GoodLayers
    <2>2. M = [ls[l] EXCEPT !.tunnel = t, !.consumer = TRUE, !.tunnel = NoTunnel]
      BY <1>5
    <2> HIDE DEF M
    <2> QED
      BY <1>2, <2>1, <2>2 DEF Same, Alive, LayerState
  <1> HIDE DEF M, r
  <1>7. r.layers[l] = M /\ \A m \in Layers \ {l} : r.layers[m] = ls[m]
    BY <1>1, <1>2, <1>4 DEF Halfway
  <1>8. \A m \in Layers : Same(ls[m], r.layers[m])
    BY <1>6, <1>7 DEF Same
  <1>9. Safe(r.layers, r.insts)
    BY <1>2, <1>4, <1>8, SafeSame
  <1> QED
    BY <1>3, <1>9, IdleStep

\* interruptVtProcess, in either thread.
LEMMA InterruptedHeld ==
  ASSUME IInv, HInv, NEW l \in Layers, Becomes(Interrupted(l)), ev' = ev
  PROVE  HInv'
  <1> DEFINE L     == layer[l]
             A     == AfterStatus(L)
             M     == IF ShowsSolid(L) THEN PostSolid(A) ELSE A
             calls == ReleaseCalls(L, L.status = "hold")
             after == IF StatusReleases(L) /\ ReleaseApplies(L)
                      THEN AfterCalls(L, calls) ELSE [insts |-> inst, freed |-> {}]
  <1>1. Shrinks(L, M, StatusCalls(L))
    BY SoundLayers, AfterStatusShrinks
  <1>2. Interrupted(l) = [layers |-> [layer EXCEPT ![l] = M],
                          insts |-> after.insts, freed |-> after.freed]
    BY DEF Interrupted
  <1>3. Called(L, StatusCalls(L), after.insts)
    BY DEF Called, StatusCalls
  <1> HIDE DEF M, after
  <1>4. layer' = [layer EXCEPT ![l] = M] /\ inst' = after.insts
    BY <1>2 DEF Becomes
  <1>5. Called(L, StatusCalls(L), inst')
    BY <1>3, <1>4 DEF Called
  <1> QED
    BY <1>1, <1>4, <1>5, ShrinkStep

LEMMA CommitVtHeld ==
  ASSUME IInv, HInv, NEW l \in Layers, CommitVt(l)
  PROVE  HInv'
  BY InterruptedHeld DEF CommitVt

----------------------------------------------------------------------------
(* The steps of the VtDisplay thread *)

LEMMA SetPresentTimeHeld ==
  ASSUME IInv, HInv, NEW l \in Layers, SetPresentTime(l)
  PROVE  HInv'
  <1>1. PICK n \in layer[l].now..MaxNow : layer' = [layer EXCEPT ![l].now = n]
    BY DEF SetPresentTime
  <1> DEFINE L == [layer[l] EXCEPT !.now = n]
  <1>2. Same(layer[l], L)
    BY SoundLayers, FieldSame
  <1>3. layer' = [layer EXCEPT ![l] = L]
    BY <1>1
  <1> HIDE DEF L
  <1> QED
    BY <1>2, <1>3, OneSameStep DEF SetPresentTime

LEMMA UpdateVtBufferHeld ==
  ASSUME IInv, HInv, NEW l \in Layers, UpdateVtBuffer(l)
  PROVE  HInv'
  <1> DEFINE L       == layer[l]
             M       == Updated(L)
             dropped == Unfenced(SubSeq(L.queue, 1, DropCount(L)))
  <1>1. CASE L.life = "live" /\ L.vt /\ L.queue # <<>>
    <2>1. Shrinks(L, M, dropped)
      BY <1>1, SoundLayers, UpdatedShrinks
    <2>2. /\ layer' = [layer EXCEPT ![l] = M] /\ ev' = ev
          /\ inst' = AfterCalls(L, dropped).insts
      BY <1>1 DEF UpdateVtBuffer, Becomes
    <2> HIDE DEF M, dropped
    <2>3. Called(L, dropped, inst')
      BY <2>2 DEF Called
    <2> QED
      BY <2>1, <2>2, <2>3, ShrinkStep
  <1>2. CASE ~(L.life = "live" /\ L.vt /\ L.queue # <<>>)
    <2>1. layer' = layer /\ inst' = inst /\ ev' = ev
      BY <1>2 DEF UpdateVtBuffer
    <2> QED
      BY <2>1 DEF HInv
  <1> QED
    BY <1>1, <1>2

LEMMA PostFrameHeld ==
  ASSUME IInv, HInv, NEW l \in Layers, PostFrame(l)
  PROVE  HInv'
  <1> DEFINE v == Shown(OtherFence, disp[l].fd)
             B == [layer[l] EXCEPT !.curFence = v]
  <1>1. Same(layer[l], B)
    <2> HIDE DEF v
    <2> QED
      BY SoundLayers, FieldSame
  <1>2. layer' = [layer EXCEPT ![l] = B]
    BY DEF PostFrame
  <1> HIDE DEF B
  <1> QED
    BY <1>1, <1>2, OneSameStep DEF PostFrame

LEMMA ReleaseVtBufferHeld ==
  ASSUME IInv, HInv, NEW l \in Layers, ReleaseVtBuffer(l)
  PROVE  HInv'
  <1> DEFINE L     == layer[l]
             M     == AfterRelease(L)
             rel   == ReleaseVtCalls(L)
             one   == One(L.pre, L.prevFence)
             after == IF ~RefreshOnly(L) /\ Consumes(L)
                      THEN AfterCalls(L, one) ELSE [insts |-> inst, freed |-> {}]
  <1>1. CASE L.life = "live" /\ L.vt
    <2>1. Shrinks(L, M, rel)
      BY SoundLayers, AfterReleaseShrinks
    <2>2. layer' = [layer EXCEPT ![l] = M] /\ inst' = after.insts /\ ev' = ev
      BY <1>1 DEF ReleaseVtBuffer, Becomes
    <2>3. Called(L, rel, after.insts)
      BY DEF Called, ReleaseVtCalls
    <2> HIDE DEF M, rel, after
    <2>4. Called(L, rel, inst')
      BY <2>2, <2>3 DEF Called
    <2> QED
      BY <2>1, <2>2, <2>4, ShrinkStep
  <1>2. CASE ~(L.life = "live" /\ L.vt)
    <2>1. layer' = layer /\ inst' = inst /\ ev' = ev
      BY <1>2 DEF ReleaseVtBuffer
    <2> QED
      BY <2>1 DEF HInv
  <1> QED
    BY <1>1, <1>2

----------------------------------------------------------------------------
(* The steps of the VtHandleEvents thread *)

LEMMA SweptSafe ==
  ASSUME IInv, HInv
  PROVE  /\ Safe(Swept.layers, Swept.insts)
         /\ \A l \in Layers : Same(layer[l], Swept.layers[l])
  BY ClearUpSafe DEF IInv, HInv, Swept

LEMMA PollVtEventsHeld ==
  ASSUME IInv, HInv, PollVtEvents
  PROVE  HInv'
  <1> DEFINE s == Swept
  <1>1. Safe(s.layers, s.insts) /\ Becomes(s) /\ MutexFree /\ ev' = ev
    BY SweptSafe DEF PollVtEvents
  <1> HIDE DEF s
  <1> QED
    BY <1>1, IdleStep

LEMMA HandleBuffersHeld ==
  ASSUME IInv, HInv, HandleBuffers
  PROVE  HInv'
  <1> DEFINE s == Swept
  <1>1. Safe(s.layers, s.insts) /\ layer' = s.layers /\ inst' = s.insts
    BY SweptSafe DEF HandleBuffers, Becomes
  <1>2. ev'.pc = "scan"
    BY DEF HandleBuffers, IInv, EvState
  <1> HIDE DEF s
  <1> QED
    BY <1>1, <1>2 DEF HInv, Delivering

LEMMA HandleCmdsHeld ==
  ASSUME IInv, HInv, NEW t \in Tunnels, NEW c \in Cmds, HandleCmds(t, c)
  PROVE  HInv'
  <1> DEFINE s == Swept
             f == [l \in Layers |->
                     IF Registered(l, t) /\ layer[l].life # "dead"
                     THEN AfterCmd(s.layers[l], c) ELSE s.layers[l]]
             r == [s EXCEPT !.layers = f]
  <1>1. s \in Outcome /\ Safe(s.layers, s.insts)
    BY SweptType, SweptSafe
  <1>2. Becomes(r) /\ MutexFree /\ ev' = ev
    BY DEF HandleCmds
  <1> HIDE DEF s
  <1>3. \A l \in Layers : Same(s.layers[l], AfterCmd(s.layers[l], c))
    BY <1>1, AfterCmdSame, GoodLayersDef DEF Outcome
  <1>4. \A l \in Layers : Same(s.layers[l], f[l])
    BY <1>3 DEF Same
  <1> HIDE DEF f
  <1>5. r.layers = f /\ r.insts = s.insts
    BY <1>1 DEF Outcome
  <1> HIDE DEF r
  <1>6. Safe(r.layers, r.insts)
    BY <1>1, <1>4, <1>5, SafeSame
  <1> QED
    BY <1>2, <1>6, IdleStep

\* Renumbering the fences of a layer leaves its frames alone.
LEMMA RenumberedSame ==
  ASSUME IInv, NEW b, Renumbered(b)
  PROVE  \A l \in Layers : Same(layer[l], layer'[l])
  <1> SUFFICES ASSUME NEW l \in Layers PROVE Same(layer[l], layer'[l])
    OBVIOUS
  <1> DEFINE Old(fence) == IF fence \in FdsOf(b) THEN OtherFence ELSE fence
             c == Old(layer[l].curFence)
             p == Old(layer[l].prevFence)
             A == [layer[l] EXCEPT !.curFence = c]
             B == [A EXCEPT !.prevFence = p]
  <1>1. layer'[l] = B
    BY DEF Renumbered
  <1>2. c \in Fences
    BY LayersGood DEF Good, LayerState, Fences
  <1> HIDE DEF c, p
  <1>3. Good(A) /\ Same(layer[l], A)
    BY <1>2, LayersGood, FieldGood, FieldSame
  <1> HIDE DEF A
  <1>4. Same(A, B)
    BY <1>3, FieldSame
  <1> QED
    BY <1>1, <1>3, <1>4, SameTransitive

\* New frames disturb nobody.
LEMMA OpenedSafe ==
  ASSUME IInv, HInv, NEW t \in Tunnels, NEW b, NEW ls, NEW is,
         \A l \in Layers : Same(layer[l], ls[l]),
         is = [inst EXCEPT ![t].bufs = @ \cup Fresh(b)]
  PROVE  /\ Safe(ls, is)
         /\ is[t].consumers = inst[t].consumers
         /\ is[t].bufs = inst[t].bufs \cup Fresh(b)
  <1> DEFINE u == inst[t].bufs \cup Fresh(b)
             i == [inst[t] EXCEPT !.bufs = u]
  <1>1. i.bufs = u /\ i.consumers = inst[t].consumers
    BY DEF IInv, InstState
  <1>2. is = [inst EXCEPT ![t] = i]
    OBVIOUS
  <1> HIDE DEF i
  <1>3. is[t] = i /\ \A v \in Tunnels \ {t} : is[v] = inst[v]
    BY <1>2 DEF IInv
  <1>4. \A v \in Tunnels : /\ is[v].consumers = inst[v].consumers
                           /\ inst[v].bufs \subseteq is[v].bufs
    BY <1>1, <1>3
  <1>5. Safe(ls, inst)
    BY SafeSame DEF HInv
  <1>6. OpenHeld(ls, is)
    BY <1>4, <1>5 DEF Safe, OpenHeld, Backed
  <1>7. Alone(ls, is)
    BY <1>4, <1>5 DEF Safe, Alone, Attached
  <1>8. Tied(ls, is)
    BY <1>4, <1>5 DEF Safe, Tied
  <1> QED
    BY <1>1, <1>3, <1>5, <1>6, <1>7, <1>8 DEF Safe

LEMMA LeaveIdle ==
  ASSUME IInv, NEW t
  PROVE  Leave(t).pc # "deliver"
  BY DEF Leave, IInv, EvState

LEMMA GoOnIdle ==
  ASSUME IInv
  PROVE  GoOn({}).pc # "deliver"
  <1> DEFINE E == Leave(ev.at)
  <1>1. E.pc # "deliver" /\ E \in EvState
    BY LeaveIdle, LeaveType DEF IInv
  <1>2. GoOn({}) = [E EXCEPT !.items = <<>>, !.todo = {}, !.at = NoTunnel]
    BY DEF GoOn
  <1> HIDE DEF E
  <1> QED
    BY <1>1, <1>2 DEF EvState

\* The driver hands out only descriptors that are not open, so no consumer
\* holds a frame of the batch it is about to get.
LEMMA BatchDelivering ==
  ASSUME IInv, HInv, NEW t \in Tunnels, NEW n, NEW b \in Batches(n), NEW ls, NEW is,
         NEW e, \A l \in Layers : Same(layer[l], ls[l]),
         is[t].consumers = inst[t].consumers,
         is[t].bufs = inst[t].bufs \cup Fresh(b),
         e.at = t, e.items = b, e.todo = inst[t].consumers
  PROVE  Delivering(ls, is, e)
  <1>1. \A i, j \in DOMAIN b : b[i].fd = b[j].fd => i = j
    BY DEF Batches
  <1>2. FdsOf(b) \cap OpenFds = {}
    BY DEF Batches, FdsOf
  <1>3. ASSUME NEW l \in inst[t].consumers, NEW f \in FdsOf(b)
        PROVE  f \notin Held(ls[l]) /\ Waiting(is[t], f)
    <2>1. l \in Layers
      BY DEF IInv, InstState
    <2>2. Held(ls[l]) = Held(layer[l])
      BY <2>1, SameKeeps
    <2>3. Waiting(is[t], f)
      <3>1. [fd |-> f, ref |-> -1, fences |-> {}] \in is[t].bufs
        BY DEF Fresh
      <3> QED
        BY <3>1 DEF Waiting
    <2>4. CASE layer[l].tunnel = t
      <3>1. f \in Held(layer[l]) => f \in Open(t)
        BY <2>1, <2>4 DEF HInv, Safe, OpenHeld, Backed, Open
      <3> QED
        BY <1>2, <1>3, <2>2, <2>3, <3>1 DEF OpenFds
    <2>5. CASE layer[l].tunnel # t
      <3>1. layer[l].life = "dead"
        BY <2>1, <2>5 DEF HInv, Safe, Tied
      <3>2. layer[l].tunnel = NoTunnel
        BY <2>1, <3>1, SoundLayers DEF Sound, Alive
      <3>3. Held(layer[l]) = {}
        BY <2>1, <3>2, SoundLayers, UntunedEmpty, EmptyFacts
      <3> QED
        BY <2>2, <2>3, <3>3
    <2> QED
      BY <2>4, <2>5
  <1> QED
    BY <1>1, <1>3 DEF Delivering

LEMMA AcquireBufferHeld ==
  ASSUME IInv, HInv, NEW t \in Tunnels, AcquireBuffer(t)
  PROVE  HInv'
  <1>1. PICK n \in 0..MaxBatch : \E b \in Batches(n) :
            /\ inst' = [inst EXCEPT ![t].bufs = @ \cup Fresh(b)]
            /\ Renumbered(b)
            /\ ev' = IF n = 0 THEN Leave(t)
                     ELSE [ev EXCEPT !.pc = "deliver", !.at = t, !.items = b,
                                     !.todo = inst[t].consumers]
    BY DEF AcquireBuffer
  <1>2. PICK b \in Batches(n) :
            /\ inst' = [inst EXCEPT ![t].bufs = @ \cup Fresh(b)]
            /\ Renumbered(b)
            /\ ev' = IF n = 0 THEN Leave(t)
                     ELSE [ev EXCEPT !.pc = "deliver", !.at = t, !.items = b,
                                     !.todo = inst[t].consumers]
    BY <1>1
  <1> DEFINE ls == layer'
             is == inst'
             e  == ev'
  <1>3. \A l \in Layers : Same(layer[l], ls[l])
    BY <1>2, RenumberedSame
  <1>4. is = [inst EXCEPT ![t].bufs = @ \cup Fresh(b)]
    BY <1>2
  <1>5. e.pc # "deliver" \/ (e.at = t /\ e.items = b /\ e.todo = inst[t].consumers)
    <2>1. CASE n = 0
      BY <1>2, <2>1, LeaveIdle
    <2>2. CASE n # 0
      BY <1>2, <2>2 DEF IInv, EvState
    <2> QED
      BY <2>1, <2>2
  <1> HIDE DEF ls, is, e
  <1>6. /\ Safe(ls, is)
        /\ is[t].consumers = inst[t].consumers
        /\ is[t].bufs = inst[t].bufs \cup Fresh(b)
    BY ZenonT(60), <1>3, <1>4, OpenedSafe
  <1>7. Delivering(ls, is, e)
    <2>1. CASE e.pc # "deliver"
      BY <2>1 DEF Delivering
    <2>2. CASE e.at = t /\ e.items = b /\ e.todo = inst[t].consumers
      BY <1>3, <1>6, <2>2, BatchDelivering
    <2> QED
      BY <1>5, <2>1, <2>2
  <1> QED
    BY <1>6, <1>7 DEF HInv, ls, is, e

LEMMA AcquireBufferFailsHeld ==
  ASSUME IInv, HInv, NEW t \in Tunnels, AcquireBufferFails(t)
  PROVE  HInv'
  <1>1. PICK n \in 0..MaxBatch : \E b \in Batches(n) :
            /\ inst' = [inst EXCEPT ![t].bufs = @ \cup Fresh(b)]
            /\ Renumbered(b)
    BY DEF AcquireBufferFails
  <1>2. PICK b \in Batches(n) :
            /\ inst' = [inst EXCEPT ![t].bufs = @ \cup Fresh(b)]
            /\ Renumbered(b)
    BY <1>1
  <1> DEFINE ls == layer'
             is == inst'
  <1>3. \A l \in Layers : Same(layer[l], ls[l])
    BY <1>2, RenumberedSame
  <1>4. is = [inst EXCEPT ![t].bufs = @ \cup Fresh(b)]
    BY <1>2
  <1> HIDE DEF ls, is
  <1>5. Safe(ls, is)
    BY <1>3, <1>4, OpenedSafe
  <1>6. ev'.pc # "deliver"
    BY LeaveIdle DEF AcquireBufferFails
  <1> QED
    BY <1>5, <1>6 DEF HInv, Delivering, ls, is

\* Where a batch is being delivered there is one consumer to deliver it to.
LEMMA OneConsumer ==
  ASSUME IInv, HInv, ev.pc = "deliver", NEW l \in ev.todo
  PROVE  /\ l \in Layers /\ ev.at \in Tunnels /\ l \in inst[ev.at].consumers
         /\ ev.todo \ {l} = {}
         /\ \A m \in Layers : Attached(layer, inst, m, ev.at) => m = l
  <1>1. l \in Layers /\ ev.todo \in SUBSET Layers
    BY DEF IInv, EvState
  <1>2. ev.at \in Tunnels /\ ev.todo \subseteq inst[ev.at].consumers
    BY DEF HInv, Delivering
  <1>3. \A m \in Layers : Attached(layer, inst, m, ev.at) => m = l
    BY <1>1, <1>2 DEF HInv, Safe, Alone, Attached
  <1>4. \A m \in ev.todo : m = l
    BY <1>1, <1>2, <1>3 DEF Attached
  <1> QED
    BY <1>1, <1>2, <1>3, <1>4

\* onVtFrameAvailable queues frames the layer does not hold.
LEMMA QueuedSound ==
  ASSUME NEW L, Good(L), Sound(L), L.tunnel # NoTunnel, NEW items \in Seq(Item),
         \A i, j \in DOMAIN items : items[i].fd = items[j].fd => i = j,
         \A f \in FdsOf(items) : f \notin Held(L),
         NEW M, M = [L EXCEPT !.queue = L.queue \o items]
  PROVE  Sound(M) /\ Held(M) \subseteq Held(L) \cup FdsOf(items)
  <1> DEFINE q == L.queue \o items
             n == Len(L.queue)
             k == Len(items)
  <1>1. /\ M.queue = q /\ M.pre = L.pre /\ M.cur = L.cur
        /\ M.tunnel = L.tunnel /\ M.life = L.life
    BY DEF Good, LayerState
  <1>2. L.queue \in Seq(Item) /\ n \in Nat /\ DOMAIN L.queue = 1..n
    BY SoundFacts
  <1>3. k \in Nat /\ DOMAIN items = 1..k
    BY LenProperties
  <1>4. /\ Len(q) = n + k
        /\ \A i \in 1..n + k : q[i] = IF i <= n THEN L.queue[i] ELSE items[i - n]
        /\ DOMAIN q = 1..n + k
    <2>1. /\ q \in Seq(Item) /\ Len(q) = n + k
          /\ \A i \in 1..n + k : q[i] = IF i <= n THEN L.queue[i] ELSE items[i - n]
      BY <1>2, ConcatProperties
    <2>2. DOMAIN q = 1..Len(q)
      BY <2>1, LenProperties
    <2> QED
      BY <2>1, <2>2
  <1> HIDE DEF q, n, k
  <1>5. ASSUME NEW i \in DOMAIN q
        PROVE  \/ i <= n /\ i \in DOMAIN L.queue /\ q[i] = L.queue[i]
               \/ ~(i <= n) /\ i - n \in DOMAIN items /\ q[i] = items[i - n]
    <2>1. i \in 1..n + k
      BY <1>4
    <2>2. CASE i <= n
      BY <1>2, <1>4, <2>1, <2>2
    <2>3. CASE ~(i <= n)
      <3>1. i - n \in 1..k
        BY <1>2, <1>3, <2>1, <2>3
      <3> QED
        BY <1>3, <1>4, <2>1, <2>3, <3>1
    <2> QED
      BY <2>2, <2>3
  <1>6. \A i \in DOMAIN items : items[i].fd \in FdsOf(items)
    BY DEF FdsOf
  <1>7. ASSUME NEW i \in DOMAIN q, NEW j \in DOMAIN q, q[i].fd = q[j].fd
        PROVE  i = j
    <2>1. CASE i <= n /\ j <= n
      BY <1>5, <1>7, <2>1, SoundFacts
    <2>2. CASE ~(i <= n) /\ ~(j <= n)
      <3>1. i - n = j - n
        BY <1>5, <1>7, <2>2
      <3>2. i \in Int /\ j \in Int /\ n \in Int
        BY <1>2, <1>3, <1>4
      <3> QED
        BY <3>1, <3>2
    <2>3. CASE i <= n /\ ~(j <= n)
      <3>1. q[i].fd \in Held(L)
        BY <1>5, <2>3, SoundFacts
      <3>2. q[j].fd \in FdsOf(items)
        BY <1>5, <1>6, <2>3
      <3> QED
        BY <1>7, <3>1, <3>2
    <2>4. CASE ~(i <= n) /\ j <= n
      <3>1. q[j].fd \in Held(L)
        BY <1>5, <2>4, SoundFacts
      <3>2. q[i].fd \in FdsOf(items)
        BY <1>5, <1>6, <2>4
      <3> QED
        BY <1>7, <3>1, <3>2
    <2> QED
      BY <2>1, <2>2, <2>3, <2>4
  <1>8. \A i \in DOMAIN items : items[i].fd \in Fds /\ items[i].fd # NoFd
    <2>1. \A i \in DOMAIN items : items[i] \in Item
      BY <1>3, ElementOfSeq DEF k
    <2> QED
      BY <2>1, IdAssumption DEF Item
  <1>9. ASSUME NEW i \in DOMAIN q
        PROVE  q[i].fd # L.pre /\ q[i].fd \in Held(L) \cup FdsOf(items)
    <2>1. CASE i <= n
      BY <1>5, <2>1, SoundFacts
    <2>2. CASE ~(i <= n)
      <3>1. i - n \in DOMAIN items /\ q[i] = items[i - n]
        BY <1>5, <2>2
      <3>2. q[i].fd # NoFd /\ q[i].fd \in FdsOf(items)
        BY <1>6, <1>8, <3>1
      <3> QED
        BY <3>2, SoundFacts
    <2> QED
      BY <2>1, <2>2
  <1>10. Sound(M)
    BY SMTT(60), <1>1, <1>7, <1>9 DEF Sound, Once, Alive
  <1>11. Held(M) \subseteq Held(L) \cup FdsOf(items)
    <2>1. FdsOf(q) \subseteq Held(L) \cup FdsOf(items)
      BY <1>9 DEF FdsOf
    <2>2. {L.cur, L.pre} \ {NoFd} \subseteq Held(L)
      BY DEF Held
    <2> QED
      BY <1>1, <2>1, <2>2 DEF Held
  <1> QED
    BY <1>10, <1>11

LEMMA DeliverFramesHeld ==
  ASSUME IInv, HInv, DeliverFrames
  PROVE  HInv'
  <1>1. PICK l \in ev.todo :
          /\ ev.pc = "deliver" /\ Accepts(layer[l])
          /\ layer' = [layer EXCEPT ![l].queue = @ \o ev.items]
          /\ inst' = [inst EXCEPT ![ev.at].bufs = AddRef(@, 1)]
          /\ ev' = GoOn(ev.todo \ {l})
    BY DEF DeliverFrames
  <1> DEFINE t   == ev.at
             L   == layer[l]
             M   == [L EXCEPT !.queue = L.queue \o ev.items]
             k   == AddRef(inst[t].bufs, 1)
             i   == [inst[t] EXCEPT !.bufs = k]
             new == [layer EXCEPT ![l] = M]
             is  == [inst EXCEPT ![t] = i]
  <1>2. /\ l \in Layers /\ t \in Tunnels /\ l \in inst[t].consumers
        /\ ev.todo \ {l} = {}
        /\ \A m \in Layers : Attached(layer, inst, m, t) => m = l
    BY <1>1, OneConsumer
  <1>3. layer' = new /\ inst' = is
    BY <1>1
  <1>4. ev'.pc # "deliver"
    BY <1>1, <1>2, GoOnIdle
  <1>5. /\ ev.items \in Seq(Item) /\ Good(L) /\ Sound(L) /\ L.tunnel # NoTunnel
        /\ inst[t] \in InstState
    BY <1>1, <1>2, SoundLayers DEF IInv, EvState, Accepts
  <1>6. /\ \A a, b \in DOMAIN ev.items : ev.items[a].fd = ev.items[b].fd => a = b
        /\ \A f \in FdsOf(ev.items) : f \notin Held(L) /\ Waiting(inst[t], f)
    BY <1>1 DEF HInv, Delivering
  <1>7. Sound(M) /\ Held(M) \subseteq Held(L) \cup FdsOf(ev.items)
    <2> HIDE DEF L, M
    <2>1. M = [L EXCEPT !.queue = L.queue \o ev.items]
      BY DEF M
    <2>2. \A f \in FdsOf(ev.items) : f \notin Held(L)
      BY <1>6
    <2>3. \A a, b \in DOMAIN ev.items : ev.items[a].fd = ev.items[b].fd => a = b
      BY <1>6
    <2> QED
      BY ZenonT(60), <1>5, <2>1, <2>2, <2>3, QueuedSound
  <1>8. L.tunnel = t
    BY <1>2, <1>5 DEF HInv, Safe, Tied, Sound, Alive
  <1>9. i.bufs = k /\ i.consumers = inst[t].consumers
    BY <1>5 DEF InstState
  <1>10. M.tunnel = L.tunnel /\ M.life = L.life
    BY <1>5 DEF Good, LayerState
  <1>11. /\ new[l] = M /\ \A m \in Layers \ {l} : new[m] = layer[m]
         /\ is[t] = i /\ \A u \in Tunnels \ {t} : is[u] = inst[u]
    BY <1>2 DEF IInv
  <1>12. ASSUME NEW f \in Held(M)
         PROVE  Backed(i, f)
    <2>1. CASE f \in FdsOf(ev.items)
      <3>1. PICK b \in inst[t].bufs : b.fd = f /\ b.ref = -1
        BY <1>6, <2>1 DEF Waiting
      <3>2. b \in BufferItem
        BY <1>5 DEF InstState
      <3> DEFINE d == [b EXCEPT !.ref = 1]
      <3>3. d \in k
        BY <2>1, <3>1 DEF AddRef
      <3>4. d.fd = f /\ d.ref = 1
        BY <3>1, <3>2 DEF BufferItem
      <3>5. 1 >= 1
        OBVIOUS
      <3> HIDE DEF d, i, k
      <3> QED
        BY <1>9, <3>3, <3>4, <3>5 DEF Backed
    <2>2. CASE f \notin FdsOf(ev.items)
      <3>1. f \in Held(L)
        BY <1>7, <1>12, <2>2
      <3>2. PICK b \in inst[t].bufs : b.fd = f /\ b.ref >= 1
        BY <1>2, <1>8, <3>1 DEF HInv, Safe, OpenHeld, Backed
      <3>3. b \in k
        BY <2>2, <3>2 DEF AddRef
      <3> QED
        BY <1>9, <3>2, <3>3 DEF Backed
    <2> QED
      BY <2>1, <2>2
  <1> HIDE DEF M, i, new, is, L, k
  <1>13. \A m \in Layers, u \in Tunnels : Attached(new, is, m, u) = Attached(layer, inst, m, u)
    BY <1>9, <1>10, <1>11 DEF Attached, L
  <1>14. Alone(new, is)
    BY <1>13 DEF HInv, Safe, Alone
  <1>15. Tied(new, is)
    BY <1>9, <1>10, <1>11 DEF HInv, Safe, Tied, L
  <1>16. OpenHeld(new, is)
    <2> SUFFICES ASSUME NEW m \in Layers, NEW u \in Tunnels,
                        m \in is[u].consumers, new[m].tunnel = u,
                        NEW f \in Held(new[m])
                 PROVE  Backed(is[u], f)
      BY DEF OpenHeld
    <2>1. CASE m = l
      <3>1. u = t
        BY <1>8, <1>10, <1>11, <2>1
      <3> QED
        BY <1>11, <1>12, <2>1, <3>1
    <2>2. CASE m # l
      <3>1. Attached(layer, inst, m, u)
        BY <1>13 DEF Attached
      <3>2. u # t
        BY <1>2, <2>2, <3>1
      <3> QED
        BY <1>11, <2>2, <3>2 DEF HInv, Safe, OpenHeld
    <2> QED
      BY <2>1, <2>2
  <1>17. \A m \in Layers : Sound(new[m])
    BY <1>7, <1>11 DEF HInv, Safe
  <1>18. Safe(new, is)
    BY <1>14, <1>15, <1>16, <1>17 DEF Safe
  <1> QED
    BY <1>3, <1>4, <1>18 DEF HInv, Delivering

LEMMA RefuseFramesHeld ==
  ASSUME IInv, HInv, RefuseFrames
  PROVE  HInv'
  <1>1. PICK l \in ev.todo :
          /\ ev.pc = "deliver"
          /\ inst' = [inst EXCEPT ![ev.at].bufs = AddRef(AddRef(@, 1), -1),
                                  ![ev.at].consumers = @ \ {l}]
          /\ ev' = GoOn(ev.todo \ {l})
          /\ layer' = layer
    BY DEF RefuseFrames
  <1> DEFINE t  == ev.at
             k  == AddRef(AddRef(inst[t].bufs, 1), -1)
             c  == inst[t].consumers \ {l}
             i  == [inst[t] EXCEPT !.bufs = k, !.consumers = c]
             is == [inst EXCEPT ![t] = i]
  <1>2. /\ l \in Layers /\ t \in Tunnels /\ l \in inst[t].consumers
        /\ ev.todo \ {l} = {}
        /\ \A m \in Layers : Attached(layer, inst, m, t) => m = l
    BY <1>1, OneConsumer
  <1>3. inst' = is
    BY <1>1, <1>2 DEF IInv
  <1>4. ev'.pc # "deliver"
    BY <1>1, <1>2, GoOnIdle
  <1>5. i.consumers = c
    BY <1>2 DEF IInv, InstState
  <1>6. is[t] = i /\ \A u \in Tunnels \ {t} : is[u] = inst[u]
    BY <1>2 DEF IInv
  <1> HIDE DEF i, is
  <1>7. \A u \in Tunnels : is[u].consumers \subseteq inst[u].consumers
    BY <1>5, <1>6
  <1>8. \A m \in Layers, u \in Tunnels : Attached(layer, is, m, u) => Attached(layer, inst, m, u)
    BY <1>7 DEF Attached
  <1>9. Alone(layer, is)
    BY <1>8 DEF HInv, Safe, Alone
  <1>10. Tied(layer, is)
    BY <1>7 DEF HInv, Safe, Tied
  <1>11. \A m \in Layers : m \notin is[t].consumers
    BY <1>2, <1>5, <1>6 DEF Attached
  <1>12. OpenHeld(layer, is)
    <2> SUFFICES ASSUME NEW m \in Layers, NEW u \in Tunnels,
                        m \in is[u].consumers, layer[m].tunnel = u,
                        NEW f \in Held(layer[m])
                 PROVE  Backed(is[u], f)
      BY DEF OpenHeld
    <2>1. u # t
      BY <1>11
    <2> QED
      BY <1>6, <2>1 DEF HInv, Safe, OpenHeld
  <1>13. Safe(layer, is)
    BY <1>9, <1>10, <1>12 DEF HInv, Safe
  <1> QED
    BY <1>1, <1>3, <1>4, <1>13 DEF HInv, Delivering

----------------------------------------------------------------------------
(* The invariant holds, and what follows from it *)

LEMMA InitHeld == Init => HInv
  <1> SUFFICES ASSUME Init PROVE HInv
    OBVIOUS
  <1>1. \A l \in Layers : Empty(layer[l]) /\ layer[l].tunnel = NoTunnel
    BY DEF Init, NewLayer, Empty
  <1>2. \A t \in Tunnels : inst[t].consumers = {}
    BY DEF Init, NoInst, NewInst
  <1>3. \A l \in Layers : Sound(layer[l])
    BY <1>1, EmptyFacts
  <1>4. \A l \in Layers, t \in Tunnels : ~Attached(layer, inst, l, t)
    BY <1>1, <1>2, IdAssumption DEF Attached
  <1>5. Safe(layer, inst)
    BY <1>2, <1>3, <1>4 DEF Safe, Alone, Tied, OpenHeld
  <1>6. ev.pc # "deliver"
    BY DEF Init
  <1> QED
    BY <1>5, <1>6 DEF HInv, Delivering

LEMMA NextHeld ==
  ASSUME ~Shared, IInv, HInv, [Next]_vars
  PROVE  HInv'
  <1>1. CASE EventStep
    BY <1>1, PollVtEventsHeld, HandleBuffersHeld, AcquireBufferHeld,
       AcquireBufferFailsHeld, DeliverFramesHeld, RefuseFramesHeld, HandleCmdsHeld
       DEF EventStep
  <1>2. ASSUME NEW l \in Layers, LayerStep(l) PROVE HInv'
    BY <1>2, CreateLayerHeld, SameSidebandStreamHeld, SetSidebandStreamHeld,
       SetSidebandStreamFailsHeld, SetBufferHeld, SetColorHeld,
       ClearUpdateFlagHeld, CommitVtHeld, VtRefreshHeld, DestroyLayerHeld,
       DestructLayerHeld DEF LayerStep
  <1>3. ASSUME NEW l \in Layers, DisplayStep(l) PROVE HInv'
    <2>1. CASE SkipPresent(l)
      BY <2>1 DEF SkipPresent, HInv
    <2>2. CASE PresentVt(l)
      BY <2>2, InterruptedHeld DEF PresentVt
    <2> QED
      BY <1>3, <2>1, <2>2, SetPresentTimeHeld, UpdateVtBufferHeld, PostFrameHeld,
         ReleaseVtBufferHeld DEF DisplayStep
  <1>4. CASE UNCHANGED vars
    BY <1>4 DEF vars, HInv
  <1> QED
    BY <1>1, <1>2, <1>3, <1>4 DEF Next

\* Whatever SurfaceFlinger's threads, the event thread and the display thread
\* do in between, a layer queues and shows a frame once, and holds no frame the
\* driver has back, for any number of layers, tunnels and frames and also when
\* the driver fails: a release never closes a descriptor that has come to name
\* something else.  Two layers on one tunnel are excluded, as they break it.
THEOREM HeldWhileOpen ==
  ASSUME ~Shared
  PROVE  Spec => []HeldSafe
  <1>1. HInv => HeldSafe
    BY DEF HInv, Safe, Sound, Once, OpenHeld, Backed, HeldSafe, HeldOnce,
           HeldIsOpen, Registered
  <1>2. IInv /\ HInv /\ [Next]_vars => HInv'
    BY NextHeld
  <1> QED
    BY <1>1, <1>2, InitHeld, InvariantHolds, PTL DEF Spec

----------------------------------------------------------------------------
(* VideoTunnel keeps the lease of its frames: BuffersSafe and LeaseKept,   *)
(* for every set of layers, tunnels and descriptors, as long as no call    *)
(* fails, no layer changes its type, no two layers share a tunnel and none *)
(* is retuned while a frame of it is being posted.  What a layer holds is  *)
(* above; here are the fences that go with it, what the screens show of    *)
(* it, and that the instances have nothing else.                           *)

\* The requests of VTsteady.  Each of the others lets a frame be forgotten, or
\* go back without its fence.
SteadyOps == {"refresh", "destroy", "commit", "connectError", "show", "blank",
              "hide", "once", "always", "disable"}

\* No layer is retuned between the choice of its frame and the post of it.
\* setSidebandStream does not take mVtMutex, so the code does not exclude it.
Settled == \A l \in Layers : disp[l].fd # NoFd => layer'[l].tunnel = layer[l].tunnel

\* The frame shown next is due.
Ready(L) == Due(L, L.ts) /\ L.update

\* What never happens to a layer under the steady requests.
Plain(L) == /\ ~L.solid /\ ~L.solidHandle /\ ~L.needRelease /\ ~L.game
            /\ L.status # "hold"
            /\ L.update <=> L.cur # NoFd
            /\ L.tunnel # NoTunnel => L.vt /\ L.life = "live"

\* Where the display thread is with a layer, and whose fences it has: a frame
\* that is due is posted before releaseVtBuffer shifts it, and the last frame
\* shown has its fence in prevFence, or a newer one in curFence if it was posted
\* again for a refresh.
Cycle(L, d) ==
  /\ IF d.pc = "post" THEN d.fd = BufferFd(L) /\ FbUpdated(L) ELSE d.fd = NoFd
  /\ d.pc = "wait" \/ Alive(L)
  /\ d.pc = "release" /\ Ready(L) => L.curFence = L.cur
  /\ L.pre # NoFd =>
       /\ L.prevFence = L.pre
       /\ L.curFence # NoFd => d.pc = "release"
       /\ L.curFence # NoFd /\ ~Ready(L) => L.refreshed /\ L.curFence = L.pre

Tidy(L, d) == Plain(L) /\ Cycle(L, d)

\* A layer may have this frame on its screen, with the fence at hand.
Shows(L, d, s) == s = L.pre \/ (d.pc = "release" /\ Ready(L) /\ s = L.cur)

\* The layers an instance knows of are those that are tuned to it and listen,
\* and the others hold nothing.
Linked(ls, is) ==
  \A l \in Layers :
    IF ls[l].listener = "live"
    THEN /\ ls[l].tunnel # NoTunnel
         /\ \A t \in Tunnels : l \in is[t].consumers <=> t = ls[l].tunnel
    ELSE /\ Empty(ls[l])
         /\ \A t \in Tunnels : l \notin is[t].consumers

\* Every frame out of the driver is held by a consumer of its instance, which
\* has the one reference to it, or is on its way there.
Owner(ls, is, t, f) == \E l \in is[t].consumers : f \in Held(ls[l])

Pending(e, t, f) == e.pc = "deliver" /\ e.at = t /\ f \in FdsOf(e.items)

Distinct(is) ==
  \A t, u \in Tunnels : \A b \in is[t].bufs, c \in is[u].bufs :
     b.fd = c.fd => t = u /\ b = c

Accounted(ls, is, e) ==
  \A t \in Tunnels : \A b \in is[t].bufs :
     /\ b.fences = {}
     /\ \/ b.ref = 1 /\ Owner(ls, is, t, b.fd)
        \/ b.ref = -1 /\ Pending(e, t, b.fd)

\* An instance lives as long as it has consumers.
Lively(is) == \A t \in Tunnels : IF is[t].live THEN is[t].consumers # {}
                                               ELSE is[t] = NoInst

Ledger(ls, is, e) == Distinct(is) /\ Accounted(ls, is, e) /\ Lively(is)

Scanning(is, e) ==
  /\ e.pc # "idle" => \A t \in e.left : is[t].live
  /\ e.pc = "deliver" => e.todo # {}

\* The fds of the frames the instances have out of the driver.
Out(is) == UNION {{b.fd : b \in is[t].bufs} : t \in Tunnels}

\* A frame that is out of the driver is on a screen only if its layer shows it.
Screens(ls, is, ds, scr) ==
  \A l \in Layers : scr[l] \in Out(is) => Shows(ls[l], ds[l], scr[l])

Leasing(ls, is, e, ds, scr) ==
  /\ \A l \in Layers : Tidy(ls[l], ds[l])
  /\ Linked(ls, is)
  /\ Ledger(ls, is, e)
  /\ Scanning(is, e)
  /\ Screens(ls, is, ds, scr)

SInv == Leasing(layer, inst, ev, disp, screen)

----------------------------------------------------------------------------
(* A layer and the progress of the display thread on it *)

LEMMA TidyFacts ==
  ASSUME NEW L, Good(L), Sound(L), NEW d, Tidy(L, d)
  PROVE  /\ \A f : Shows(L, d, f) /\ f # NoFd => f \in Held(L)
         /\ d.fd # NoFd => d.pc = "post" /\ d.fd \in Held(L)
         /\ BufferFd(L) # NoFd => BufferFd(L) \in Held(L)
         /\ BufferFd(L) = NoFd => ~Ready(L)
         /\ Ready(L) => BufferFd(L) = L.cur /\ L.cur # NoFd /\ L.queue # <<>>
  BY SoundFacts DEF Tidy, Plain, Cycle, Shows, BufferFd, Ready

\* New settings and refreshes change nothing about its frames.
LEMMA TidyFields ==
  ASSUME NEW L, Good(L), NEW d, Tidy(L, d)
  PROVE  /\ \A v \in AllStatuses \ {"hold"} : Tidy([L EXCEPT !.status = v], d)
         /\ Tidy([L EXCEPT !.refreshed = TRUE], d)
  <1>1. ASSUME NEW v \in AllStatuses \ {"hold"}
        PROVE  Tidy([L EXCEPT !.status = v], d)
    BY <1>1 DEF Tidy, Plain, Cycle, Ready, Due, BufferFd, FbUpdated, Alive,
                Good, LayerState
  <1>2. Tidy([L EXCEPT !.refreshed = TRUE], d)
    BY DEF Tidy, Plain, Cycle, Ready, Due, BufferFd, FbUpdated, Alive, Good, LayerState
  <1> QED
    BY <1>1, <1>2

\* setSidebandStream before it looks at the tunnel
LEMMA StreamTidy ==
  ASSUME NEW L, Good(L), Sound(L), NEW d, Tidy(L, d),
         NEW M, M = [ClearBufferInfo(L) EXCEPT !.vt = TRUE]
  PROVE  /\ Tidy(M, d) /\ M.listener = L.listener /\ M.consumer = L.consumer
         /\ M.life = L.life /\ M.tunnel = L.tunnel /\ M.vt
         /\ \A f : Shows(L, d, f) <=> Shows(M, d, f)
  <1>1. /\ M.listener = L.listener /\ M.consumer = L.consumer /\ M.life = L.life
        /\ M.tunnel = L.tunnel /\ M.vt /\ M.pre = L.pre /\ M.cur = L.cur
        /\ M.ts = L.ts /\ M.now = L.now /\ M.game = L.game /\ M.update = L.update
        /\ M.solid = L.solid /\ M.solidHandle = L.solidHandle
        /\ M.needRelease = L.needRelease /\ M.status = L.status
        /\ M.refreshed = L.refreshed /\ M.curFence = L.curFence
        /\ L.vt => M.prevFence = L.prevFence
    BY DEF ClearBufferInfo, Good, LayerState
  <1>2. ~L.vt => L.pre = NoFd
    BY DEF Tidy, Plain, Sound
  <1>3. Ready(M) <=> Ready(L)
    BY <1>1 DEF Ready, Due
  <1>4. BufferFd(M) = BufferFd(L) /\ (FbUpdated(M) <=> FbUpdated(L))
    BY <1>1, <1>3 DEF BufferFd, FbUpdated, Ready
  <1>5. Tidy(M, d)
    BY <1>1, <1>2, <1>3, <1>4 DEF Tidy, Plain, Cycle, Alive
  <1> QED
    BY <1>1, <1>3, <1>5 DEF Shows

\* A number of the driver names a new frame.
LEMMA RenumberedTidy ==
  ASSUME NEW L, Good(L), Sound(L), NEW d, Tidy(L, d),
         NEW F \in SUBSET Fds, F \cap Held(L) = {},
         NEW c, c = IF L.curFence \in F THEN OtherFence ELSE L.curFence,
         NEW p, p = IF L.prevFence \in F THEN OtherFence ELSE L.prevFence
  PROVE  Tidy([L EXCEPT !.curFence = c, !.prevFence = p], d)
  <1> DEFINE M == [L EXCEPT !.curFence = c, !.prevFence = p]
  <1>1. /\ M.life = L.life /\ M.vt = L.vt
        /\ M.tunnel = L.tunnel /\ M.pre = L.pre /\ M.cur = L.cur
        /\ M.ts = L.ts /\ M.now = L.now /\ M.game = L.game /\ M.update = L.update
        /\ M.solid = L.solid /\ M.solidHandle = L.solidHandle
        /\ M.needRelease = L.needRelease /\ M.status = L.status
        /\ M.refreshed = L.refreshed /\ M.curFence = c /\ M.prevFence = p
    BY DEF Good, LayerState
  <1> HIDE DEF M
  <1>2. Ready(M) <=> Ready(L)
    BY <1>1 DEF Ready, Due
  <1>3. BufferFd(M) = BufferFd(L) /\ (FbUpdated(M) <=> FbUpdated(L))
    BY <1>1, <1>2 DEF BufferFd, FbUpdated, Ready
  <1>4. NoFd \notin F /\ OtherFence # NoFd
    BY IdAssumption
  <1>5. L.pre # NoFd => L.pre \notin F
    BY SoundFacts
  <1>6. Ready(L) => L.cur \notin F
    BY TidyFacts, SoundFacts
  <1>7. L.pre # NoFd => p = L.pre /\ (c # NoFd => L.curFence # NoFd)
                        /\ (L.curFence = L.pre => c = L.pre)
    BY <1>4, <1>5 DEF Tidy, Cycle
  <1>8. d.pc = "release" /\ Ready(L) => c = L.cur
    BY <1>6 DEF Tidy, Cycle
  <1>9. Cycle(M, d)
    BY <1>1, <1>2, <1>3, <1>7, <1>8 DEF Tidy, Cycle, Alive
  <1>10. Plain(M)
    BY <1>1 DEF Tidy, Plain
  <1> QED
    BY <1>9, <1>10 DEF M, Tidy

\* A layer without frames, as it is after releaseVtResourceLocked.
Emptied(L, M) ==
  /\ Empty(M) /\ ~M.update /\ ~M.needRelease
  /\ M.solid = L.solid /\ M.solidHandle = L.solidHandle /\ M.game = L.game
  /\ M.status # "hold" /\ M.refreshed = L.refreshed

LEMMA EmptiedTidy ==
  ASSUME NEW L, NEW d, Tidy(L, d), NEW M, Emptied(L, M),
         M.tunnel # NoTunnel => M.vt /\ M.life = "live",
         d.pc = "wait" \/ Alive(M), d.fd = NoFd
  PROVE  Tidy(M, d)
  <1>1. BufferFd(M) = NoFd /\ ~Ready(M)
    BY DEF Emptied, Empty, BufferFd, Ready
  <1>2. d.pc = "post" => FbUpdated(M)
    BY DEF Tidy, Cycle, Plain, FbUpdated, BufferFd, Emptied
  <1>3. Plain(M)
    BY DEF Tidy, Plain, Emptied, Empty
  <1> QED
    BY <1>1, <1>2, <1>3 DEF Tidy, Cycle, Emptied, Empty

----------------------------------------------------------------------------
(* The calls of a layer that gives frames back *)

\* A call for this frame, with its fence if it may be on screen.
Has(rel, f, L, d) ==
  \E i \in DOMAIN rel : rel[i].fd = f /\ (Shows(L, d, f) => rel[i].fence = f)

LEMMA HasOne ==
  ASSUME NEW fd, NEW fence, NEW L, NEW d, fd # NoFd, Shows(L, d, fd) => fence = fd
  PROVE  Has(One(fd, fence), fd, L, d)
  <1>1. One(fd, fence) = <<[fd |-> fd, fence |-> fence]>>
    BY DEF One
  <1>2. 1 \in DOMAIN One(fd, fence) /\ One(fd, fence)[1] = [fd |-> fd, fence |-> fence]
    BY <1>1
  <1> QED
    BY <1>2 DEF Has

LEMMA HasUnfenced ==
  ASSUME NEW q \in Seq(Item), NEW L, NEW d, NEW f \in FdsOf(q), ~Shows(L, d, f)
  PROVE  Has(Unfenced(q), f, L, d)
  BY DEF Has, Unfenced, FdsOf

LEMMA HasConcat ==
  ASSUME NEW s \in Seq(Call), NEW t \in Seq(Call), NEW f, NEW L, NEW d,
         Has(s, f, L, d) \/ Has(t, f, L, d)
  PROVE  Has(s \o t, f, L, d)
  <1>1. /\ s \o t \in Seq(Call)
        /\ Len(s \o t) = Len(s) + Len(t)
        /\ \A i \in 1..Len(s) + Len(t) :
              (s \o t)[i] = IF i <= Len(s) THEN s[i] ELSE t[i - Len(s)]
    BY ConcatProperties
  <1>2. /\ Len(s) \in Nat /\ Len(t) \in Nat
        /\ DOMAIN s = 1..Len(s) /\ DOMAIN t = 1..Len(t)
        /\ DOMAIN (s \o t) = 1..Len(s) + Len(t)
    BY <1>1, LenProperties
  <1>3. CASE Has(s, f, L, d)
    <2>1. PICK i \in DOMAIN s : s[i].fd = f /\ (Shows(L, d, f) => s[i].fence = f)
      BY <1>3 DEF Has
    <2>2. i \in 1..Len(s) + Len(t) /\ i <= Len(s)
      BY <1>2
    <2>3. (s \o t)[i] = s[i]
      BY <1>1, <2>2
    <2> QED
      BY <1>2, <2>1, <2>2, <2>3 DEF Has
  <1>4. CASE Has(t, f, L, d)
    <2>1. PICK j \in DOMAIN t : t[j].fd = f /\ (Shows(L, d, f) => t[j].fence = f)
      BY <1>4 DEF Has
    <2> DEFINE i == Len(s) + j
    <2>2. i \in 1..Len(s) + Len(t) /\ ~(i <= Len(s)) /\ i - Len(s) = j
      BY <1>2
    <2>3. (s \o t)[i] = t[j]
      BY <1>1, <2>2
    <2> HIDE DEF i
    <2> QED
      BY <1>2, <2>1, <2>2, <2>3 DEF Has
  <1> QED
    BY <1>3, <1>4

\* The layer L becomes M, and gives back with the calls rel exactly the frames
\* it does not hold any more.
Exact(L, d, M, e, rel) ==
  /\ M.tunnel = L.tunnel /\ M.listener = L.listener
  /\ Held(M) \subseteq Held(L)
  /\ Names(rel, Held(L) \ Held(M))
  /\ \A f \in Held(L) \ Held(M) : Has(rel, f, L, d)
  /\ Tidy(M, e)
  /\ \A f \in Held(M) : Shows(L, d, f) => Shows(M, e, f)

LEMMA HeldWhere ==
  ASSUME NEW L, Good(L), Sound(L), NEW f \in Held(L)
  PROVE  f # NoFd /\ (f = L.pre \/ f \in FdsOf(L.queue))
  BY SoundFacts DEF Held, FdsOf

\* releaseVtResourceLocked has a call for every frame of the layer.
LEMMA ReleaseHeldHas ==
  ASSUME NEW L, Good(L), Sound(L), NEW d, Tidy(L, d), NEW f \in Held(L)
  PROVE  Has(ReleaseCalls(L, FALSE), f, L, d)
  <1> DEFINE q == IF L.cur # NoFd /\ L.queue # <<>> THEN Tail(L.queue) ELSE L.queue
             a == One(L.pre, L.prevFence)
             b == One(L.cur, L.curFence)
             c == Unfenced(q)
  <1>1. /\ L.cur \in MaybeFd /\ L.pre \in MaybeFd
        /\ L.curFence \in Fences /\ L.prevFence \in Fences
    BY DEF Good, LayerState
  <1>2. q \in Seq(Item)
    BY SoundFacts, TailFacts
  <1>3. a \in Seq(Call) /\ b \in Seq(Call) /\ c \in Seq(Call)
    BY <1>1, <1>2, OneType, UnfencedType
  <1>4. ReleaseCalls(L, FALSE) = a \o b \o c
    BY DEF ReleaseCalls
  <1>5. a \o b \in Seq(Call)
    BY <1>3, ConcatProperties
  <1>6. Has(a, f, L, d) \/ Has(b, f, L, d) \/ Has(c, f, L, d)
    <2>1. CASE f = L.pre
      <3>1. f # NoFd /\ L.prevFence = f
        BY <2>1, HeldWhere DEF Tidy, Cycle
      <3> QED
        BY <2>1, <3>1, HasOne
    <2>2. CASE f = L.cur /\ f # L.pre
      <3>1. f # NoFd /\ (Shows(L, d, f) => L.curFence = f)
        BY <2>2, HeldWhere DEF Tidy, Cycle, Shows
      <3> QED
        BY <2>2, <3>1, HasOne
    <2>3. CASE f # L.cur /\ f # L.pre
      <3>1. ~Shows(L, d, f)
        BY <2>3 DEF Shows
      <3>2. PICK k \in DOMAIN L.queue : L.queue[k].fd = f
        BY <2>3, HeldWhere DEF FdsOf
      <3>3. f \in FdsOf(q)
        <4>1. CASE L.cur = NoFd
          BY <3>2, <4>1 DEF FdsOf
        <4>2. CASE L.cur # NoFd
          <5>1. L.queue # <<>> /\ k # 1 /\ DOMAIN L.queue = 1..Len(L.queue)
                /\ Len(L.queue) \in Nat /\ q = Tail(L.queue)
            BY <2>3, <3>2, <4>2, SoundFacts
          <5>2. /\ Len(Tail(L.queue)) = Len(L.queue) - 1
                /\ \A i \in 1..Len(Tail(L.queue)) : Tail(L.queue)[i] = L.queue[i + 1]
                /\ DOMAIN Tail(L.queue) = 1..Len(Tail(L.queue))
            BY <1>2, <5>1, SoundFacts, HeadTailProperties, LenProperties
          <5>3. k - 1 \in 1..Len(Tail(L.queue)) /\ (k - 1) + 1 = k
            BY <5>1, <5>2
          <5>4. Tail(L.queue)[k - 1].fd = f
            BY <3>2, <5>2, <5>3
          <5> QED
            BY <5>1, <5>2, <5>3, <5>4 DEF FdsOf
        <4> QED
          BY <4>1, <4>2
      <3> HIDE DEF q
      <3> QED
        BY <1>2, <3>1, <3>3, HasUnfenced
    <2> QED
      BY <2>1, <2>2, <2>3
  <1> HIDE DEF a, b, c
  <1>7. Has(a, f, L, d) \/ Has(b, f, L, d) => Has(a \o b, f, L, d)
    BY <1>3, HasConcat
  <1>8. Has((a \o b) \o c, f, L, d)
    BY <1>3, <1>5, <1>6, <1>7, HasConcat
  <1> QED
    BY <1>4, <1>8

\* updateVtBuffer drops the frames that are late, none of which was shown.
LEMMA UpdatedExact ==
  ASSUME NEW L, Good(L), Sound(L), NEW d, Tidy(L, d), d.pc = "update",
         L.queue # <<>>, NEW e, e.pc = "present", e.fd = NoFd
  PROVE  Exact(L, d, Updated(L), e, Unfenced(SubSeq(L.queue, 1, DropCount(L))))
  <1> DEFINE n == Len(L.queue)
             k == DropCount(L)
             q == SubSeq(L.queue, k + 1, n)
             p == SubSeq(L.queue, 1, k)
             M == Updated(L)
  <1>1. Shrinks(L, M, Unfenced(p))
    BY UpdatedShrinks
  <1>2. k \in 0..n - 1 /\ n \in Nat /\ DOMAIN L.queue = 1..n
    BY SoundFacts, DropCountBound
  <1>3. /\ p \in Seq(Item) /\ DOMAIN p = 1..k
        /\ \A i \in 1..k : p[i] = L.queue[i]
        /\ q \in Seq(Item) /\ DOMAIN q = 1..n - k
        /\ \A i \in 1..n - k : q[i] = L.queue[k + i]
    <2> HIDE DEF k
    <2> QED
      BY <1>2, SoundFacts, SplitQueue
  <1>4. /\ M.queue = q /\ M.cur = q[1].fd /\ M.pre = L.pre /\ M.update
        /\ M.tunnel = L.tunnel /\ M.life = L.life /\ M.listener = L.listener
        /\ M.vt = L.vt /\ M.game = L.game /\ M.solid = L.solid
        /\ M.solidHandle = L.solidHandle /\ M.needRelease = L.needRelease
        /\ M.status = L.status /\ M.curFence = L.curFence /\ M.prevFence = L.prevFence
    BY DEF Updated, Good, LayerState
  <1> HIDE DEF p, q, M, k, n
  <1>5. 1 \in DOMAIN q /\ \A i \in DOMAIN q : k + i \in DOMAIN L.queue
    BY <1>2, <1>3
  <1>6. M.cur # NoFd
    BY <1>3, <1>4, <1>5, SoundFacts
  <1>7. ASSUME NEW f \in Held(L), f \notin Held(M)
        PROVE  Has(Unfenced(p), f, L, d)
    <2>1. f # NoFd /\ f # L.pre /\ f \in FdsOf(L.queue)
      BY <1>4, <1>7, HeldWhere DEF Held
    <2>2. ~Shows(L, d, f)
      BY <2>1 DEF Shows
    <2>3. PICK i \in 1..n : L.queue[i].fd = f
      BY <1>2, <2>1 DEF FdsOf
    <2>4. i <= k
      <3>1. CASE i > k
        <4>1. i - k \in 1..n - k /\ k + (i - k) = i
          BY <1>2, <3>1
        <4>2. q[i - k].fd = f
          BY <1>3, <2>3, <4>1
        <4> QED
          BY <1>3, <1>4, <1>7, <2>1, <4>1, <4>2 DEF Held, FdsOf
      <3> QED
        BY <1>2, <3>1
    <2>5. i \in 1..k
      BY <1>2, <2>4
    <2>6. f \in FdsOf(p)
      BY <1>3, <2>3, <2>5 DEF FdsOf
    <2> QED
      BY <1>3, <2>2, <2>6, HasUnfenced
  <1>8. Tidy(M, e)
    BY <1>4, <1>6 DEF Tidy, Plain, Cycle, Alive
  <1>9. \A f : Shows(L, d, f) => Shows(M, e, f)
    BY <1>4 DEF Shows
  <1> QED
    BY <1>1, <1>4, <1>7, <1>8, <1>9 DEF Exact, Shrinks, M, p, k

LEMMA SameExact ==
  ASSUME NEW L, Good(L), Sound(L), NEW d, NEW M, Same(L, M), M.listener = L.listener,
         NEW e, Tidy(M, e), \A f \in Held(L) : Shows(L, d, f) => Shows(M, e, f)
  PROVE  Exact(L, d, M, e, <<>>)
  <1>1. Held(M) = Held(L) /\ M.tunnel = L.tunnel
    BY SameKeeps DEF Same
  <1>2. Names(<<>>, Held(L) \ Held(M))
    BY DEF Names
  <1> QED
    BY <1>1, <1>2 DEF Exact

LEMMA ReleaseHeldEmptied ==
  ASSUME NEW L, Good(L), L.status # "hold", NEW M, M = ReleaseHeld(L, FALSE)
  PROVE  /\ Emptied(L, M) /\ Held(M) = {}
         /\ M.listener = L.listener /\ M.tunnel = L.tunnel /\ M.vt = L.vt
         /\ M.life = L.life /\ M.consumer = L.consumer
         /\ M.status = L.status
  <1>1. /\ Emptied(L, M)
        /\ M.listener = L.listener /\ M.tunnel = L.tunnel /\ M.vt = L.vt
        /\ M.life = L.life /\ M.consumer = L.consumer
        /\ M.status = L.status
    BY DEF ReleaseHeld, Emptied, Empty, Good, LayerState
  <1> QED
    BY <1>1, EmptyFacts DEF Emptied

\* Where interruptVtProcess leaves a layer that has frames to show, and one
\* that has none any more.
LEMMA AfterStatusCases ==
  ASSUME NEW L, Good(L), Sound(L), NEW d, Tidy(L, d), L.vt, NEW A, A = AfterStatus(L)
  PROVE  /\ A.life = L.life /\ A.tunnel = L.tunnel /\ A.listener = L.listener
         /\ A.vt = L.vt /\ ~A.solidHandle
         /\ \/ /\ Emptied(L, A) /\ Held(A) = {}
               /\ StatusCalls(L) = ReleaseCalls(L, FALSE) \/ Held(L) = {}
            \/ /\ ~StatusReleases(L) /\ StatusCalls(L) = <<>>
               /\ L.status \notin {"blank", "hide"}
               /\ A = L \/ A = [L EXCEPT !.status = "show"]
  <1>1. ~L.solid /\ ~L.solidHandle /\ L.status # "hold" /\ L.status \in AllStatuses
    BY DEF Tidy, Plain, Good, LayerState
  <1> DEFINE R == IF StatusReleases(L) /\ ReleaseApplies(L)
                  THEN ReleaseHeld(L, L.status = "hold") ELSE L
  <1>2. CASE ~StatusReleases(L)
    <2>1. R = L /\ StatusCalls(L) = <<>> /\ L.status \in {"show", "disable"}
      BY <1>1, <1>2 DEF StatusCalls, StatusReleases, AllStatuses
    <2> DEFINE S == [L EXCEPT !.status = "show"]
    <2>2. ~S.solid /\ FreeSolid(S) = S
      BY <1>1 DEF FreeSolid, Good, LayerState
    <2>3. A = L \/ A = S
      BY <2>1, <2>2 DEF AfterStatus
    <2>4. \A M : M = L \/ M = S =>
             /\ M.life = L.life /\ M.tunnel = L.tunnel /\ M.listener = L.listener
             /\ M.vt = L.vt /\ ~M.solidHandle
      BY <1>1 DEF Good, LayerState
    <2> QED
      BY <1>2, <2>1, <2>3, <2>4
  <1>3. CASE StatusReleases(L)
    <2>1. L.status \in {"blank", "hide", "once", "always"}
      BY <1>1, <1>3 DEF StatusReleases
    <2>2. /\ Emptied(L, R) /\ Held(R) = {} /\ Good(R)
          /\ R.life = L.life /\ R.tunnel = L.tunnel /\ R.listener = L.listener
          /\ R.vt = L.vt /\ R.status = L.status
          /\ StatusCalls(L) = ReleaseCalls(L, FALSE) \/ Held(L) = {}
      <3>1. CASE ReleaseApplies(L)
        <4>1. R = ReleaseHeld(L, FALSE) /\ StatusCalls(L) = ReleaseCalls(L, FALSE)
          BY <1>1, <1>3, <3>1 DEF StatusCalls
        <4> HIDE DEF R
        <4> QED
          BY <1>1, <4>1, ReleaseHeldEmptied, ReleaseHeldGood
      <3>2. CASE ~ReleaseApplies(L)
        <4>1. L.tunnel = NoTunnel
          BY <3>2 DEF ReleaseApplies, Good, TunedOK
        <4>2. Empty(L) /\ Held(L) = {}
          BY <4>1, UntunedEmpty, EmptyFacts
        <4>3. ~L.update /\ ~L.needRelease
          BY <4>2 DEF Tidy, Plain, Empty
        <4> QED
          BY <1>1, <3>2, <4>2, <4>3 DEF Emptied
      <3> QED
        BY <3>1, <3>2
    <2>3. \/ A = R
          \/ A = [R EXCEPT !.status = "show"]
          \/ A = [R EXCEPT !.curFence = OtherFence]
      BY <2>1 DEF AfterStatus
    <2> HIDE DEF R
    <2>4. R \in LayerState
      BY <2>2 DEF Good
    <2> DEFINE Kin(M) == /\ M.life = R.life /\ M.tunnel = R.tunnel
                         /\ M.listener = R.listener /\ M.vt = R.vt
                         /\ M.solidHandle = R.solidHandle /\ Emptied(L, M)
    <2>7. Kin([R EXCEPT !.status = "show"])
      BY <2>2, <2>4 DEF LayerState, Emptied, Empty
    <2>8. Kin([R EXCEPT !.curFence = OtherFence])
      BY <2>2, <2>4 DEF LayerState, Emptied, Empty
    <2>9. Kin(A)
      BY <2>2, <2>3, <2>7, <2>8
    <2>5. Emptied(L, A)
      BY <2>9
    <2>6. Held(A) = {}
      BY <2>5, EmptyFacts DEF Emptied
    <2> QED
      <3>1. R.solidHandle = L.solidHandle
        BY <2>2 DEF Emptied
      <3>2. L.vt = A.vt
        BY <2>2, <2>9
      <3> HIDE DEF Kin
      <3> QED
        BY <1>1, <2>2, <2>9, <2>5, <2>6, <3>1, <3>2 DEF Kin
  <1> QED
    BY <1>2, <1>3

LEMMA EmptiedExact ==
  ASSUME NEW L, Good(L), Sound(L), NEW d, Tidy(L, d), NEW M, Emptied(L, M), NEW e,
         Tidy(M, e), M.tunnel = L.tunnel, M.listener = L.listener, Held(M) = {},
         NEW rel, rel = ReleaseCalls(L, FALSE) \/ (Held(L) = {} /\ rel = <<>>)
  PROVE  Exact(L, d, M, e, rel)
  <1>1. CASE rel = ReleaseCalls(L, FALSE)
    <2>1. \A f \in Held(L) : Has(rel, f, L, d)
      BY <1>1, ReleaseHeldHas
    <2>2. Names(rel, Held(L))
      <3>1. Names(rel, Held(L) \ Held(ReleaseHeld(L, FALSE)))
        BY <1>1, ReleaseHeldShrinks DEF Shrinks
      <3> QED
        BY <3>1 DEF Names
    <2> QED
      BY <2>1, <2>2 DEF Exact
  <1>2. CASE Held(L) = {} /\ rel = <<>>
    BY <1>2 DEF Exact, Names
  <1> QED
    BY <1>1, <1>2

\* What presentVideo makes of the layer: e is the progress it leaves.
Presented(L, d, e) ==
  \/ e = d
  \/ /\ d.pc = "present"
     /\ e = IF Posts(L) THEN [pc |-> "post", fd |-> BufferFd(AfterStatus(L))]
            ELSE [pc |-> "release", fd |-> NoFd]

LEMMA AfterStatusExact ==
  ASSUME NEW L, Good(L), Sound(L), NEW d, Tidy(L, d), InComposition(L),
         d.pc # "post", NEW e, Presented(L, d, e)
  PROVE  /\ Exact(L, d, AfterStatus(L), e, StatusCalls(L))
         /\ ~ShowsSolid(L)
  <1> DEFINE A == AfterStatus(L)
  <1>0. L.vt /\ Alive(L) /\ d.fd = NoFd
    BY DEF InComposition, Alive, Tidy, Cycle
  <1>1. /\ A.life = L.life /\ A.tunnel = L.tunnel /\ A.listener = L.listener
        /\ A.vt = L.vt /\ ~A.solidHandle
        /\ \/ /\ Emptied(L, A) /\ Held(A) = {}
              /\ StatusCalls(L) = ReleaseCalls(L, FALSE) \/ Held(L) = {}
           \/ /\ ~StatusReleases(L) /\ StatusCalls(L) = <<>>
              /\ L.status \notin {"blank", "hide"}
              /\ A = L \/ A = [L EXCEPT !.status = "show"]
    BY <1>0, AfterStatusCases
  <1>2. ~ShowsSolid(L)
    BY <1>1 DEF ShowsSolid
  <1>3. Alive(A) /\ (A.tunnel # NoTunnel => A.vt /\ A.life = "live")
    BY <1>0, <1>1 DEF Alive, Tidy, Plain
  <1>4. d.pc = "present" =>
          IF Posts(L) THEN FbUpdated(A) /\ ~Blanks(L)
          ELSE Blanks(L) \/ ~FbUpdated(A)
    BY <1>2 DEF Posts
  <1>5. CASE Emptied(L, A) /\ Held(A) = {}
                /\ (StatusCalls(L) = ReleaseCalls(L, FALSE) \/ Held(L) = {})
    <2> HIDE DEF A
    <2>1. Tidy(A, d)
      BY <1>0, <1>3, <1>5, EmptiedTidy
    <2>2. Tidy(A, e)
      <3>1. CASE e = d
        BY <2>1, <3>1
      <3>2. CASE d.pc = "present" /\ Posts(L)
                 /\ e = [pc |-> "post", fd |-> BufferFd(A)]
        <4>1. e.pc = "post" /\ e.fd = BufferFd(A) /\ FbUpdated(A)
          BY <1>4, <3>2
        <4>2. A.pre = NoFd
          BY <1>5 DEF Emptied, Empty
        <4> QED
          BY <1>3, <2>1, <4>1, <4>2 DEF Tidy, Cycle
      <3>3. CASE e = [pc |-> "release", fd |-> NoFd]
        <4>1. e.pc = "release" /\ e.fd = NoFd
          BY <3>3
        <4>2. A.pre = NoFd /\ ~Ready(A)
          BY <1>5 DEF Emptied, Empty, Ready
        <4> QED
          BY <1>3, <2>1, <4>1, <4>2 DEF Tidy, Cycle
      <3> QED
        BY <3>1, <3>2, <3>3 DEF Presented, A
    <2>3. StatusCalls(L) = ReleaseCalls(L, FALSE) \/ (Held(L) = {} /\ StatusCalls(L) = <<>>)
      <3>1. L.status = "hold" => FALSE
        BY DEF Tidy, Plain
      <3> QED
        BY <1>5, <3>1 DEF StatusCalls
    <2>4. Exact(L, d, A, e, StatusCalls(L))
      BY <1>1, <1>5, <2>2, <2>3, EmptiedExact
    <2> QED
      BY <1>2, <2>4 DEF A
  <1>6. CASE /\ ~StatusReleases(L) /\ StatusCalls(L) = <<>>
             /\ L.status \notin {"blank", "hide"}
             /\ A = L \/ A = [L EXCEPT !.status = "show"]
    <2>1. Same(L, A)
      <3>1. Same(L, L) /\ Same(L, [L EXCEPT !.status = "show"])
        BY FieldSame
      <3> QED
        BY <1>6, <3>1
    <2>2. Tidy(A, d)
      <3>1. Tidy([L EXCEPT !.status = "show"], d)
        BY TidyFields DEF AllStatuses
      <3> QED
        BY <1>6, <3>1
    <2>3. /\ A.pre = L.pre /\ A.cur = L.cur /\ A.ts = L.ts /\ A.now = L.now
          /\ A.game = L.game /\ A.update = L.update
      BY <1>6 DEF Good, LayerState
    <2> HIDE DEF A
    <2>4. BufferFd(A) # NoFd => ~Blanks(L)
      BY <1>6 DEF Blanks, A
    <2>5. (Ready(A) <=> Ready(L)) /\ (Ready(A) => BufferFd(A) # NoFd /\ FbUpdated(A))
      BY <2>3, TidyFacts DEF Ready, Due, BufferFd, FbUpdated
    <2>6. Tidy(A, e)
      <3>1. CASE e = d
        BY <2>2, <3>1
      <3>2. CASE d.pc = "present" /\ Posts(L)
                 /\ e = [pc |-> "post", fd |-> BufferFd(A)]
        <4>1. e.pc = "post" /\ e.fd = BufferFd(A) /\ FbUpdated(A)
          BY <1>4, <3>2
        <4> QED
          BY <1>3, <2>2, <3>2, <4>1 DEF Tidy, Cycle
      <3>3. CASE d.pc = "present" /\ ~Posts(L) /\ e = [pc |-> "release", fd |-> NoFd]
        <4>1. e.pc = "release" /\ e.fd = NoFd /\ ~Ready(A)
          BY <1>4, <2>4, <2>5, <3>3
        <4> QED
          BY <1>3, <2>2, <3>3, <4>1 DEF Tidy, Cycle
      <3> QED
        BY <3>1, <3>2, <3>3 DEF Presented, A
    <2>7. \A f : Shows(L, d, f) => Shows(A, e, f)
      <3>1. CASE e = d
        BY <2>3, <2>5, <3>1 DEF Shows
      <3>2. CASE d.pc = "present"
        BY <2>3, <3>2 DEF Shows
      <3> QED
        BY <3>1, <3>2 DEF Presented
    <2>8. Exact(L, d, A, e, <<>>)
      BY <1>1, <2>1, <2>6, <2>7, SameExact
    <2> QED
      BY <1>2, <1>6, <2>8 DEF A
  <1> HIDE DEF A
  <1> QED
    BY <1>1, <1>5, <1>6

\* releaseVtBuffer: the frame shown takes the place of the one before.
LEMMA AfterReleaseExact ==
  ASSUME NEW L, Good(L), Sound(L), NEW d, Tidy(L, d), d.pc = "release",
         NEW e, e.pc = "wait", e.fd = NoFd
  PROVE  Exact(L, d, AfterRelease(L), e, ReleaseVtCalls(L))
  <1> DEFINE M == AfterRelease(L)
  <1>1. Shrinks(L, M, ReleaseVtCalls(L))
    BY AfterReleaseShrinks
  <1>2. Consumes(L) <=> Ready(L)
    BY TidyFacts DEF Consumes, Ready
  <1>3. RefreshOnly(L) <=> L.refreshed /\ ~Ready(L)
    BY DEF RefreshOnly, Ready
  <1>4. CASE ~Ready(L)
    <2> DEFINE B == [L EXCEPT !.refreshed = FALSE]
    <2>1. M = IF L.refreshed THEN MoveFence(B) ELSE B
      BY <1>2, <1>3, <1>4 DEF AfterRelease
    <2>2. ReleaseVtCalls(L) = <<>>
      BY <1>2, <1>4 DEF ReleaseVtCalls
    <2>3. /\ M.life = L.life /\ M.vt = L.vt /\ M.listener = L.listener
          /\ M.tunnel = L.tunnel /\ M.pre = L.pre /\ M.cur = L.cur
          /\ M.ts = L.ts /\ M.now = L.now /\ M.game = L.game /\ M.update = L.update
          /\ M.solid = L.solid /\ M.solidHandle = L.solidHandle
          /\ M.needRelease = L.needRelease /\ M.status = L.status
          /\ M.queue = L.queue
      BY <2>1 DEF MoveFence, Good, LayerState
    <2>4. IF L.refreshed
          THEN /\ M.curFence = NoFd
               /\ M.prevFence = IF L.curFence = NoFd THEN L.prevFence ELSE L.curFence
          ELSE M.curFence = L.curFence /\ M.prevFence = L.prevFence
      BY <2>1 DEF MoveFence, Good, LayerState
    <2> HIDE DEF M
    <2>5. L.pre # NoFd => M.curFence = NoFd /\ M.prevFence = M.pre
      BY <1>4, <2>3, <2>4 DEF Tidy, Cycle
    <2>6. Tidy(M, e)
      BY <2>3, <2>5 DEF Tidy, Plain, Cycle
    <2>7. \A f : Shows(L, d, f) => Shows(M, e, f)
      BY <1>4, <2>3 DEF Shows
    <2>8. Same(L, M)
      BY <2>3 DEF Same, Alive
    <2>9. Exact(L, d, M, e, <<>>)
      BY <2>3, <2>6, <2>7, <2>8, SameExact
    <2> QED
      BY <2>2, <2>9 DEF M
  <1>5. CASE Ready(L)
    <2>1. L.cur # NoFd /\ L.queue # <<>> /\ L.curFence = L.cur /\ L.update
      BY <1>5, TidyFacts DEF Tidy, Cycle, Ready
    <2>2. M = Shifted(L) /\ ReleaseVtCalls(L) = One(L.pre, L.prevFence)
      BY <1>2, <1>3, <1>5, <2>1 DEF AfterRelease, ReleaseVtCalls
    <2>3. /\ M.life = L.life /\ M.vt = L.vt /\ M.listener = L.listener
          /\ M.tunnel = L.tunnel /\ M.pre = L.cur /\ M.cur = NoFd
          /\ M.ts = L.ts /\ M.now = L.now /\ M.game = L.game /\ ~M.update
          /\ M.solid = L.solid /\ M.solidHandle = L.solidHandle
          /\ M.needRelease = L.needRelease /\ M.status = L.status
          /\ M.queue = Tail(L.queue)
          /\ M.curFence = NoFd /\ M.prevFence = L.cur
      BY <2>1, <2>2 DEF Shifted, Popped, MoveFence, Good, LayerState
    <2> HIDE DEF M
    <2>4. Tidy(M, e)
      BY <2>1, <2>3 DEF Tidy, Plain, Cycle, Ready
    <2>5. ASSUME NEW f \in Held(L), f \notin Held(M)
          PROVE  f = L.pre /\ f # NoFd
      <3>1. SUFFICES ASSUME f # L.pre
                     PROVE  FALSE
        BY HeldWhere
      <3>2. PICK k \in DOMAIN L.queue : L.queue[k].fd = f
        BY <3>1, HeldWhere DEF FdsOf
      <3>3. f # NoFd
        BY HeldWhere
      <3>4. CASE k = 1
        <4>1. f = L.cur
          BY <2>1, <3>2, <3>4, SoundFacts
        <4> QED
          BY <2>3, <2>5, <3>3, <4>1 DEF Held
      <3>5. CASE k # 1
        <4>1. DOMAIN L.queue = 1..Len(L.queue) /\ Len(L.queue) \in Nat
              /\ L.queue \in Seq(Item)
          BY SoundFacts
        <4>2. /\ Tail(L.queue) \in Seq(Item)
              /\ Len(Tail(L.queue)) = Len(L.queue) - 1
              /\ \A i \in 1..Len(Tail(L.queue)) : Tail(L.queue)[i] = L.queue[i + 1]
              /\ DOMAIN Tail(L.queue) = 1..Len(Tail(L.queue))
          BY <2>1, <4>1, HeadTailProperties, LenProperties
        <4>3. k - 1 \in 1..Len(Tail(L.queue)) /\ (k - 1) + 1 = k
          BY <3>5, <4>1, <4>2
        <4>4. Tail(L.queue)[k - 1].fd = f
          BY <3>2, <4>2, <4>3
        <4>5. f \in FdsOf(M.queue)
          BY <2>3, <4>2, <4>3, <4>4 DEF FdsOf
        <4> QED
          BY <2>5, <3>3, <4>5 DEF Held
      <3> QED
        BY <3>4, <3>5
    <2>6. \A f \in Held(L) \ Held(M) : Has(One(L.pre, L.prevFence), f, L, d)
      <3> TAKE f \in Held(L) \ Held(M)
      <3>1. f = L.pre /\ f # NoFd
        BY <2>5
      <3>2. L.prevFence = f
        BY <3>1 DEF Tidy, Cycle
      <3> QED
        BY <3>1, <3>2, HasOne
    <2>7. ASSUME NEW f \in Held(M), Shows(L, d, f)
          PROVE  Shows(M, e, f)
      <3>1. f # L.pre
        <4>1. f # NoFd
          BY DEF Held
        <4>2. \A i \in DOMAIN Tail(L.queue) : Tail(L.queue)[i].fd # L.pre
          BY <2>1, SoundFacts, TailFacts
        <4>3. L.cur # L.pre
          BY <2>1, SoundFacts
        <4> QED
          BY <2>3, <4>1, <4>2, <4>3 DEF Held, FdsOf
      <3> QED
        BY <2>3, <2>7, <3>1 DEF Shows
    <2> QED
      BY <1>1, <2>2, <2>3, <2>4, <2>6, <2>7 DEF Exact, Shrinks, M
  <1> QED
    BY <1>4, <1>5

----------------------------------------------------------------------------
(* What the instances make of the calls *)

LEMMA OutFacts ==
  ASSUME NEW is \in [Tunnels -> InstState]
  PROVE  /\ \A f \in Out(is) : f \in Fds /\ f # NoFd
         /\ \A f : f \in Out(is) <=> \E t \in Tunnels : \E b \in is[t].bufs : b.fd = f
  <1>1. \A t \in Tunnels : \A b \in is[t].bufs : b.fd \in Fds
    BY DEF InstState, BufferItem
  <1>2. \A f : f \in Out(is) <=> \E t \in Tunnels : \E b \in is[t].bufs : b.fd = f
    BY DEF Out
  <1> QED
    BY <1>1, <1>2, IdAssumption

\* A frame a layer holds has one reference, and that is the layer's.
Owned(l, f) ==
  /\ layer[l].listener = "live" /\ layer[l].tunnel \in Tunnels
  /\ l \in inst[layer[l].tunnel].consumers
  /\ \E b \in inst[layer[l].tunnel].bufs : b.fd = f /\ b.ref = 1
  /\ \A u \in Tunnels : \A c \in inst[u].bufs :
        c.fd = f => u = layer[l].tunnel /\ c.ref = 1 /\ c.fences = {}
  /\ \A m \in Layers : f \in Held(layer[m]) => m = l

LEMMA HeldOwned ==
  ASSUME IInv, HInv, SInv, NEW l \in Layers, NEW f \in Held(layer[l])
  PROVE  Owned(l, f)
  <1>1. ASSUME NEW m \in Layers, f \in Held(layer[m])
        PROVE  /\ layer[m].listener = "live" /\ layer[m].tunnel \in Tunnels
               /\ m \in inst[layer[m].tunnel].consumers
               /\ Backed(inst[layer[m].tunnel], f)
    <2>1. layer[m].listener = "live"
      BY <1>1, EmptyFacts DEF SInv, Leasing, Linked
    <2>2. layer[m].tunnel \in Tunnels
      BY <2>1, SoundLayers DEF SInv, Leasing, Linked, Good, LayerState
    <2>3. m \in inst[layer[m].tunnel].consumers
      BY <2>1, <2>2 DEF SInv, Leasing, Linked
    <2>4. Backed(inst[layer[m].tunnel], f)
      BY <1>1, <2>2, <2>3 DEF HInv, Safe, OpenHeld
    <2> QED
      BY <2>1, <2>2, <2>3, <2>4
  <1> DEFINE t == layer[l].tunnel
  <1>2. t \in Tunnels /\ layer[l].listener = "live" /\ l \in inst[t].consumers
    BY <1>1
  <1>3. PICK b \in inst[t].bufs : b.fd = f /\ b.ref >= 1
    BY <1>1 DEF Backed
  <1>4. b.ref = 1 /\ b.fences = {}
    <2>1. b.fences = {} /\ (b.ref = 1 \/ b.ref = -1)
      BY <1>2 DEF SInv, Leasing, Ledger, Accounted
    <2> QED
      BY <1>3, <2>1
  <1>5. ASSUME NEW u \in Tunnels, NEW c \in inst[u].bufs, c.fd = f
        PROVE  u = t /\ c = b
    BY <1>2, <1>3, <1>5 DEF SInv, Leasing, Ledger, Distinct
  <1>6. ASSUME NEW m \in Layers, f \in Held(layer[m])
        PROVE  m = l
    <2>1. /\ layer[m].tunnel \in Tunnels /\ m \in inst[layer[m].tunnel].consumers
          /\ Backed(inst[layer[m].tunnel], f)
      BY <1>1, <1>6
    <2>2. layer[m].tunnel = t
      BY <1>5, <2>1 DEF Backed
    <2> QED
      BY <1>2, <2>2 DEF HInv, Safe, Alone, Attached
  <1> QED
    BY <1>2, <1>3, <1>4, <1>5, <1>6 DEF Owned

\* The instances forget the frames that are gone.
Loses(is, is2, gone) ==
  \A t \in Tunnels : /\ is2[t].live = is[t].live
                     /\ is2[t].consumers = is[t].consumers
                     /\ is2[t].bufs = {b \in is[t].bufs : b.fd \notin gone}

\* They come back one by one, with their fence if a screen may show them.
Returns(freed, gone, L, d) ==
  /\ {r.fd : r \in freed} = gone
  /\ \A r \in freed : Shows(L, d, r.fd) => r.fd \in r.fences
  /\ \A r, s \in freed : r.fd = s.fd => r = s

LEMMA UncalledFenced ==
  ASSUME NEW rel, NEW b \in BufferItem, \A i \in DOMAIN rel : rel[i].fd # b.fd
  PROVE  Fenced(b, rel) = b /\ ~Dead(b, rel)
  <1>1. Calls(b, rel) = {}
    BY DEF Calls
  <1>2. Cardinality(Calls(b, rel)) = 0
    BY <1>1, FS_EmptySet
  <1>3. {rel[i].fence : i \in Calls(b, rel)} = {}
    BY <1>1
  <1>4. b.ref \in Int /\ b = [b EXCEPT !.ref = b.ref, !.fences = b.fences]
    BY DEF BufferItem
  <1>5. b.ref - Cardinality(Calls(b, rel)) = b.ref
    BY <1>2, <1>4
  <1>6. b.fences \cup ({rel[i].fence : i \in Calls(b, rel)} \cap Fds) = b.fences
    BY <1>3
  <1>7. Fenced(b, rel) = b
    BY <1>4, <1>5, <1>6 DEF Fenced
  <1>8. ~Dead(b, rel)
    BY <1>2, <1>4 DEF Dead
  <1> QED
    BY <1>7, <1>8

LEMMA CalledDead ==
  ASSUME NEW rel \in Seq(Call), NEW b \in BufferItem, b.ref = 1,
         NEW i \in DOMAIN rel, rel[i].fd = b.fd
  PROVE  /\ Dead(b, rel)
         /\ rel[i].fence = b.fd => b.fd \in Fenced(b, rel).fences
  <1>1. i \in Calls(b, rel)
    BY DEF Calls
  <1>2. IsFiniteSet(Calls(b, rel)) /\ Calls(b, rel) \subseteq 1..Len(rel)
    <2>1. DOMAIN rel = 1..Len(rel) /\ Len(rel) \in Nat
      BY LenProperties
    <2>2. IsFiniteSet(1..Len(rel))
      BY <2>1, FS_Interval
    <2>3. Calls(b, rel) \subseteq 1..Len(rel)
      BY <2>1 DEF Calls
    <2> QED
      BY <2>2, <2>3, FS_Subset
  <1>3. Cardinality(Calls(b, rel)) >= 1
    <2>1. Cardinality(Calls(b, rel)) \in Nat /\ Cardinality(Calls(b, rel)) # 0
      BY <1>1, <1>2, FS_EmptySet, FS_CardinalityType
    <2> QED
      BY <2>1
  <1>4. Dead(b, rel)
    BY <1>3 DEF Dead
  <1>5. Fenced(b, rel).fences = b.fences \cup ({rel[j].fence : j \in Calls(b, rel)} \cap Fds)
    BY DEF Fenced, BufferItem
  <1>6. b.fd \in Fds
    BY DEF BufferItem
  <1> QED
    BY <1>1, <1>4, <1>5, <1>6

\* The calls were answered, if there were any.
Answered(L, rel, is, freed) ==
  \/ is = AfterCalls(L, rel).insts /\ freed = AfterCalls(L, rel).freed
  \/ rel = <<>> /\ is = inst /\ freed = {}

LEMMA Gathered ==
  ASSUME IInv, HInv, SInv, NEW l \in Layers, NEW L, Good(L), Same(layer[l], L),
         L.listener = layer[l].listener, NEW d, NEW gone \in SUBSET Held(L),
         NEW rel \in Seq(Call), Names(rel, gone),
         \A f \in gone : Has(rel, f, L, d),
         NEW is, NEW freed, Answered(L, rel, is, freed)
  PROVE  Loses(inst, is, gone) /\ Returns(freed, gone, L, d)
  <1>0. inst \in [Tunnels -> InstState] /\ Held(L) = Held(layer[l])
        /\ L.tunnel = layer[l].tunnel
    BY SameKeeps DEF IInv, Same
  <1>1. CASE gone = {}
    <2>1. rel = <<>>
      <3>1. DOMAIN rel = {}
        BY <1>1 DEF Names
      <3>2. DOMAIN rel = 1..Len(rel) /\ Len(rel) \in Nat
        BY LenProperties
      <3>3. Len(rel) = 0
        BY <3>1, <3>2
      <3> QED
        BY <3>3, EmptySeq
    <2>2. \A t \in Tunnels : \A b \in inst[t].bufs :
             b \in BufferItem /\ Fenced(b, rel) = b /\ ~Dead(b, rel)
      <3> SUFFICES ASSUME NEW t \in Tunnels, NEW b \in inst[t].bufs
                   PROVE  b \in BufferItem /\ Fenced(b, rel) = b /\ ~Dead(b, rel)
        OBVIOUS
      <3>1. b \in BufferItem
        BY <1>0 DEF InstState
      <3>2. DOMAIN rel = {}
        BY <2>1
      <3> QED
        BY <3>1, <3>2, UncalledFenced
    <2>3. \A t \in Tunnels : Kept(inst[t].bufs, rel) = inst[t].bufs
                             /\ Freed(inst[t].bufs, rel) = {}
      <3> SUFFICES ASSUME NEW t \in Tunnels
                   PROVE  Kept(inst[t].bufs, rel) = inst[t].bufs
                          /\ Freed(inst[t].bufs, rel) = {}
        OBVIOUS
      <3> QED
        BY <2>2 DEF Kept, Freed
    <2>4. is = inst /\ freed = {}
      <3>1. CASE L.consumer /\ L.listener = "live" /\ L.tunnel # NoTunnel
                 /\ is = AfterCalls(L, rel).insts /\ freed = AfterCalls(L, rel).freed
        <4>1. L.tunnel \in Tunnels
          BY <3>1 DEF Good, LayerState
        <4> DEFINE k == Kept(inst[L.tunnel].bufs, rel)
        <4>2. k = inst[L.tunnel].bufs /\ Freed(inst[L.tunnel].bufs, rel) = {}
          BY <2>3, <4>1
        <4>3. is = [inst EXCEPT ![L.tunnel].bufs = k] /\ freed = {}
          BY <3>1, <4>2 DEF AfterCalls
        <4> HIDE DEF k
        <4>4. [inst[L.tunnel] EXCEPT !.bufs = k] = inst[L.tunnel]
          BY <1>0, <4>1, <4>2 DEF InstState
        <4> QED
          BY <1>0, <4>1, <4>3, <4>4
      <3>2. CASE ~(L.consumer /\ L.listener = "live" /\ L.tunnel # NoTunnel)
                 /\ is = AfterCalls(L, rel).insts /\ freed = AfterCalls(L, rel).freed
        BY <3>2 DEF AfterCalls
      <3> QED
        BY <3>1, <3>2 DEF Answered
    <2> QED
      BY <1>1, <2>4 DEF Loses, Returns
  <1>2. CASE gone # {}
    <2>1. PICK f0 : f0 \in gone
      BY <1>2
    <2> DEFINE t == L.tunnel
               k == Kept(inst[t].bufs, rel)
               j == [inst[t] EXCEPT !.bufs = k]
    <2>2. /\ L.listener = "live" /\ t \in Tunnels
          /\ \A f \in gone : /\ f \in Held(layer[l])
                             /\ \E b \in inst[t].bufs : b.fd = f
                             /\ \A u \in Tunnels : \A c \in inst[u].bufs :
                                   c.fd = f => u = t /\ c.ref = 1
      <3>1. ASSUME NEW f \in gone
            PROVE  /\ f \in Held(layer[l])
                   /\ layer[l].listener = "live" /\ t \in Tunnels
                   /\ \E b \in inst[t].bufs : b.fd = f
                   /\ \A u \in Tunnels : \A c \in inst[u].bufs :
                         c.fd = f => u = t /\ c.ref = 1
        <4>1. f \in Held(layer[l])
          BY <1>0
        <4>2. Owned(l, f)
          BY <4>1, HeldOwned
        <4>3. layer[l].tunnel = t
          BY <1>0
        <4> HIDE DEF t
        <4> QED
          BY <4>1, <4>2, <4>3 DEF Owned
      <3> QED
        BY <2>1, <3>1
    <2>3. L.consumer /\ t # NoTunnel
      BY <2>2, IdAssumption DEF Good, TunedOK
    <2>4. rel # <<>>
      <3>1. PICK i \in DOMAIN rel : rel[i].fd = f0
        BY <2>1 DEF Has
      <3> QED
        BY <3>1
    <2>5. is = [inst EXCEPT ![t].bufs = k] /\ freed = Freed(inst[t].bufs, rel)
      BY <2>2, <2>3, <2>4 DEF Answered, AfterCalls
    <2>6. \A b \in inst[t].bufs : b \in BufferItem
      BY <1>0, <2>2 DEF InstState
    <2>7. ASSUME NEW b \in inst[t].bufs, b.fd \notin gone
          PROVE  Fenced(b, rel) = b /\ ~Dead(b, rel)
      <3>1. \A i \in DOMAIN rel : rel[i].fd # b.fd
        BY <2>7 DEF Names
      <3> QED
        BY <2>6, <3>1, UncalledFenced
    <2>8. ASSUME NEW b \in inst[t].bufs, b.fd \in gone
          PROVE  /\ Dead(b, rel)
                 /\ Shows(L, d, b.fd) => b.fd \in Fenced(b, rel).fences
      <3>1. PICK i \in DOMAIN rel : rel[i].fd = b.fd /\ (Shows(L, d, b.fd) => rel[i].fence = b.fd)
        BY <2>8 DEF Has
      <3>2. b.ref = 1 /\ b \in BufferItem
        BY <2>2, <2>6, <2>8
      <3> QED
        BY <3>1, <3>2, CalledDead
    <2>9. k = {b \in inst[t].bufs : b.fd \notin gone}
      BY <2>7, <2>8 DEF Kept
    <2>10. /\ j.bufs = k /\ j.live = inst[t].live /\ j.consumers = inst[t].consumers
           /\ is[t] = j /\ \A u \in Tunnels \ {t} : is[u] = inst[u]
      <3>1. j.bufs = k /\ j.live = inst[t].live /\ j.consumers = inst[t].consumers
        BY <1>0, <2>2 DEF InstState
      <3>2. is = [inst EXCEPT ![t] = j]
        BY <2>5
      <3> HIDE DEF j, t
      <3> QED
        BY <1>0, <2>2, <3>1, <3>2
    <2>11. Loses(inst, is, gone)
      <3> SUFFICES ASSUME NEW u \in Tunnels
                   PROVE  /\ is[u].live = inst[u].live
                          /\ is[u].consumers = inst[u].consumers
                          /\ is[u].bufs = {b \in inst[u].bufs : b.fd \notin gone}
        BY DEF Loses
      <3> HIDE DEF j, k, t
      <3>1. CASE u = t
        BY <2>9, <2>10, <3>1
      <3>2. CASE u # t
        <4>1. \A b \in inst[u].bufs : b.fd \notin gone
          BY <2>2, <3>2
        <4> QED
          BY <2>10, <3>2, <4>1
      <3> QED
        BY <3>1, <3>2
    <2>12. Returns(freed, gone, L, d)
      <3>1. freed = {[fd |-> b.fd, fences |-> Fenced(b, rel).fences] :
                      b \in {c \in inst[t].bufs : c.fd \in gone}}
        BY <2>5, <2>7, <2>8 DEF Freed
      <3>2. \A r \in freed : \E b \in inst[t].bufs :
              /\ b.fd \in gone /\ r.fd = b.fd /\ r.fences = Fenced(b, rel).fences
              /\ r = [fd |-> b.fd, fences |-> Fenced(b, rel).fences]
        BY <3>1
      <3>3. \A f \in gone : \E r \in freed : r.fd = f
        <4> TAKE f \in gone
        <4>1. PICK b \in inst[t].bufs : b.fd = f
          BY <2>2
        <4>2. [fd |-> b.fd, fences |-> Fenced(b, rel).fences] \in freed
          BY <3>1, <4>1
        <4> QED
          BY <4>1, <4>2
      <3>4. {r.fd : r \in freed} = gone
        BY <3>2, <3>3
      <3>5. \A r \in freed : Shows(L, d, r.fd) => r.fd \in r.fences
        BY <2>8, <3>2
      <3>6. \A b, c \in inst[t].bufs : b.fd = c.fd => b = c
        BY <2>2 DEF SInv, Leasing, Ledger, Distinct
      <3>7. \A r, s \in freed : r.fd = s.fd => r = s
        BY <3>2, <3>6
      <3> QED
        BY <3>4, <3>5, <3>7 DEF Returns
    <2> QED
      BY <2>11, <2>12
  <1> QED
    BY <1>1, <1>2

----------------------------------------------------------------------------
(* Steps that give back a set of frames, or none *)

LEMMA InstEqual ==
  ASSUME NEW i \in InstState, NEW j \in InstState,
         i.live = j.live, i.consumers = j.consumers, i.bufs = j.bufs
  PROVE  i = j
  BY DEF InstState

LEMMA HeldEmpty ==
  ASSUME NEW M, Good(M), Held(M) = {}
  PROVE  Empty(M)
  <1>1. M.pre = NoFd /\ M.cur = NoFd
    BY DEF Held
  <1>2. M.queue \in Seq(Item)
    BY DEF Good, LayerState
  <1>3. M.queue = <<>>
    <2>1. SUFFICES ASSUME M.queue # <<>>
                   PROVE  FALSE
      OBVIOUS
    <2>2. DOMAIN M.queue = 1..Len(M.queue) /\ Len(M.queue) \in Nat /\ Len(M.queue) # 0
      BY <1>2, <2>1, LenProperties, EmptySeq
    <2>3. 1 \in DOMAIN M.queue
      BY <2>2
    <2>4. M.queue[1] \in Item
      BY <1>2, <2>3, ElementOfSeq, LenProperties
    <2>5. M.queue[1].fd \in Fds
      BY <2>4 DEF Item
    <2>6. M.queue[1].fd \in Held(M)
      BY <2>3, <2>5, IdAssumption DEF Held, FdsOf
    <2> QED
      BY <2>6
  <1> QED
    BY <1>1, <1>3 DEF Empty

\* A layer has no frames of gone any more, and is as before otherwise.
Follows(L, d, M, e, gone) ==
  /\ M.tunnel = L.tunnel /\ M.listener = L.listener
  /\ Held(M) = Held(L) \ gone
  /\ Tidy(M, e)
  /\ \A f \in Held(M) : Shows(L, d, f) => Shows(M, e, f)

\* All layers do.
AllFollow(ls, ds, gone) ==
  \A m \in Layers : Follows(layer[m], disp[m], ls[m], ds[m], gone)

\* Nothing that was on its way is not any more.
Forwards(e, e2) == \A t, f : Pending(e, t, f) => Pending(e2, t, f)

ShownBy(M, e, old, new) == new \in {old, NoFd} \/ Shows(M, e, new)

AllShown(ls, ds, scr) ==
  \A m \in Layers : ShownBy(ls[m], ds[m], screen[m], scr[m])

LEMMA LayerTidy ==
  ASSUME IInv, HInv, SInv, NEW l \in Layers
  PROVE  /\ Good(layer[l]) /\ Sound(layer[l]) /\ Tidy(layer[l], disp[l])
         /\ disp[l] \in DispState
  BY SoundLayers DEF SInv, Leasing, IInv

\* Layers that follow stay linked to instances with the same consumers.
LEMMA FollowLinked ==
  ASSUME SInv, NEW gone, NEW ls \in [Layers -> GoodLayers], NEW ds,
         AllFollow(ls, ds, gone), NEW is,
         \A t \in Tunnels : is[t].consumers = inst[t].consumers
  PROVE  Linked(ls, is)
  <1>1. ASSUME NEW m \in Layers, ls[m].listener = "live"
        PROVE  /\ ls[m].tunnel # NoTunnel
               /\ \A t \in Tunnels : m \in is[t].consumers <=> t = ls[m].tunnel
    BY <1>1 DEF AllFollow, Follows, SInv, Leasing, Linked
  <1>2. ASSUME NEW m \in Layers, ls[m].listener # "live"
        PROVE  Empty(ls[m]) /\ \A t \in Tunnels : m \notin is[t].consumers
    <2>1. Empty(layer[m]) /\ \A t \in Tunnels : m \notin is[t].consumers
      BY <1>2 DEF AllFollow, Follows, SInv, Leasing, Linked
    <2>2. Held(ls[m]) = {} /\ Good(ls[m])
      BY <2>1, EmptyFacts, GoodLayersDef DEF AllFollow, Follows
    <2> QED
      BY <2>1, <2>2, HeldEmpty
  <1> QED
    BY <1>1, <1>2 DEF Linked

LEMMA LosingKeeps ==
  ASSUME IInv, HInv, SInv, NEW gone, NEW ls \in [Layers -> GoodLayers], NEW ds,
         AllFollow(ls, ds, gone),
         NEW is \in [Tunnels -> InstState], Loses(inst, is, gone),
         NEW e \in EvState, Forwards(ev, e), Scanning(inst, e),
         NEW scr, AllShown(ls, ds, scr)
  PROVE  Leasing(ls, is, e, ds, scr)
  <1>1. /\ \A t \in Tunnels : /\ is[t].live = inst[t].live
                              /\ is[t].consumers = inst[t].consumers
                              /\ is[t].bufs \subseteq inst[t].bufs
                              /\ \A b \in is[t].bufs : b.fd \notin gone
    BY DEF Loses
  <1>2. \A m \in Layers : Tidy(ls[m], ds[m])
    BY DEF AllFollow, Follows
  <1>3. Linked(ls, is)
    BY <1>1, FollowLinked
  <1>4. Distinct(is)
    BY <1>1 DEF SInv, Leasing, Ledger, Distinct
  <1>5. Accounted(ls, is, e)
    <2> SUFFICES ASSUME NEW t \in Tunnels, NEW b \in is[t].bufs
                 PROVE  /\ b.fences = {}
                        /\ \/ b.ref = 1 /\ Owner(ls, is, t, b.fd)
                           \/ b.ref = -1 /\ Pending(e, t, b.fd)
      BY DEF Accounted
    <2>1. /\ b.fences = {}
          /\ \/ b.ref = 1 /\ Owner(layer, inst, t, b.fd)
             \/ b.ref = -1 /\ Pending(ev, t, b.fd)
      BY <1>1 DEF SInv, Leasing, Ledger, Accounted
    <2>2. CASE Owner(layer, inst, t, b.fd)
      <3>1. PICK m \in inst[t].consumers : b.fd \in Held(layer[m])
        BY <2>2 DEF Owner
      <3>2. m \in Layers
        BY DEF IInv, InstState
      <3>3. m \in is[t].consumers /\ b.fd \in Held(ls[m])
        BY <1>1, <3>1, <3>2 DEF AllFollow, Follows
      <3> QED
        BY <2>1, <3>3 DEF Owner, Forwards
    <2> QED
      BY <2>1, <2>2 DEF Forwards
  <1>6. Lively(is)
    <2> SUFFICES ASSUME NEW t \in Tunnels
                 PROVE  IF is[t].live THEN is[t].consumers # {} ELSE is[t] = NoInst
      BY DEF Lively
    <2>1. IF inst[t].live THEN inst[t].consumers # {} ELSE inst[t] = NoInst
      BY DEF SInv, Leasing, Ledger, Lively
    <2>2. CASE inst[t].live
      BY <1>1, <2>1, <2>2
    <2>3. CASE ~inst[t].live
      <3>1. /\ is[t].live = inst[t].live
            /\ is[t].consumers = inst[t].consumers
            /\ inst[t].bufs = {}
        BY <1>1, <2>1, <2>3 DEF NoInst, NewInst
      <3>2. is[t].bufs = inst[t].bufs
        BY <1>1, <3>1
      <3>3. is[t] \in InstState /\ inst[t] \in InstState
        BY DEF IInv
      <3>4. is[t] = inst[t]
        BY <3>1, <3>2, <3>3, InstEqual
      <3> QED
        BY <2>1, <2>3, <3>4
    <2> QED
      BY <2>2, <2>3
  <1>7. Scanning(is, e)
    <2>1. \A t \in e.left : t \in Tunnels
      BY DEF EvState
    <2> QED
      BY <1>1, <2>1 DEF Scanning
  <1>8. Screens(ls, is, ds, scr)
    <2> SUFFICES ASSUME NEW m \in Layers, scr[m] \in Out(is)
                 PROVE  Shows(ls[m], ds[m], scr[m])
      BY DEF Screens
    <2>1. scr[m] # NoFd
      BY OutFacts
    <2>2. CASE Shows(ls[m], ds[m], scr[m])
      BY <2>2
    <2>3. CASE scr[m] = screen[m]
      <3>1. PICK t \in Tunnels : \E b \in is[t].bufs : b.fd = screen[m]
        BY <2>3, OutFacts
      <3>2. screen[m] \in Out(inst) /\ screen[m] \notin gone
        BY <1>1, <3>1 DEF Out
      <3>3. Shows(layer[m], disp[m], screen[m])
        BY <3>2 DEF SInv, Leasing, Screens
      <3>4. screen[m] \in Held(layer[m])
        BY <2>1, <2>3, <3>3, LayerTidy, TidyFacts
      <3>5. screen[m] \in Held(ls[m])
        BY <3>2, <3>4 DEF AllFollow, Follows
      <3> QED
        BY <2>3, <3>3, <3>5 DEF AllFollow, Follows
    <2> QED
      BY <2>1, <2>2, <2>3 DEF AllShown, ShownBy
  <1> QED
    BY <1>2, <1>3, <1>4, <1>5, <1>6, <1>7, <1>8 DEF Leasing, Ledger

\* What the producers see of a step that gives back the buffers freed: they were
\* out of the driver and are not any more, each came back once, and its fence
\* with it if a screen still shows it.
GivesBack(is, is2, scr, scr2, freed) ==
  /\ {r.fd : r \in freed} \subseteq Out(is)
  /\ Out(is2) = Out(is) \ {r.fd : r \in freed}
  /\ \A m \in Layers : scr2[m] \in {scr[m], NoFd}
  /\ \A r \in freed, m \in Layers : scr2[m] = r.fd => r.fd \in r.fences
  /\ \A r, s \in freed : r.fd = s.fd => r = s

Given == GivesBack(inst, inst', screen, screen', returned')

\* The screens show the same frames as before, or none.
Dims(scr) == \A m \in Layers : scr[m] \in {screen[m], NoFd}

\* A layer that becomes L still shows what it showed of its frames.
KeepsShowing(l, gone, L, d) ==
  \A f \in gone : Shows(layer[l], disp[l], f) => Shows(L, d, f)

LEMMA HeldGivenBack ==
  ASSUME IInv, HInv, SInv, NEW l \in Layers, NEW gone \in SUBSET Held(layer[l]),
         NEW L, NEW d, KeepsShowing(l, gone, L, d),
         NEW is, Out(is) = Out(inst) \ gone,
         NEW freed, Returns(freed, gone, L, d), NEW scr, Dims(scr)
  PROVE  GivesBack(inst, is, screen, scr, freed)
  <1>1. {r.fd : r \in freed} = gone
    BY DEF Returns
  <1>2. \A f \in gone : Owned(l, f) /\ f # NoFd
    BY HeldOwned DEF Held
  <1>3. gone \subseteq Out(inst)
    BY <1>2 DEF Owned, Out
  <1>4. ASSUME NEW r \in freed, NEW m \in Layers, scr[m] = r.fd
        PROVE  r.fd \in r.fences
    <2>1. r.fd \in gone /\ r.fd # NoFd
      BY <1>1, <1>2
    <2>2. screen[m] = r.fd
      BY <1>4, <2>1 DEF Dims
    <2>3. Shows(layer[m], disp[m], r.fd)
      BY <1>3, <2>1, <2>2 DEF SInv, Leasing, Screens
    <2>4. r.fd \in Held(layer[m])
      BY <2>1, <2>3, LayerTidy, TidyFacts
    <2>5. m = l
      BY <1>2, <2>1, <2>4 DEF Owned
    <2> QED
      BY <2>1, <2>3, <2>5 DEF KeepsShowing, Returns
  <1>5. \A r, s \in freed : r.fd = s.fd => r = s
    BY DEF Returns
  <1> QED
    BY <1>1, <1>3, <1>4, <1>5 DEF GivesBack, Dims

\* No frame goes back.
LEMMA NoneGivenBack ==
  ASSUME NEW is, Out(is) = Out(inst), NEW scr, Dims(scr)
  PROVE  GivesBack(inst, is, screen, scr, {})
  BY DEF GivesBack, Dims

LEMMA LosesOut ==
  ASSUME NEW is, NEW is2, NEW gone, Loses(is, is2, gone)
  PROVE  Out(is2) = Out(is) \ gone
  BY DEF Loses, Out

LEMMA ExactFollows ==
  ASSUME IInv, HInv, SInv, NEW l \in Layers, NEW M, NEW e, NEW rel,
         Exact(layer[l], disp[l], M, e, rel),
         NEW gone, gone = Held(layer[l]) \ Held(M),
         NEW ls, ls = [layer EXCEPT ![l] = M], NEW ds, ds = [disp EXCEPT ![l] = e]
  PROVE  AllFollow(ls, ds, gone)
  <1> SUFFICES ASSUME NEW m \in Layers
               PROVE  Follows(layer[m], disp[m], ls[m], ds[m], gone)
    BY DEF AllFollow
  <1>1. CASE m = l
    <2>1. ls[m] = M /\ ds[m] = e
      BY <1>1 DEF IInv
    <2> QED
      BY <1>1, <2>1 DEF Exact, Follows
  <1>2. CASE m # l
    <2>1. ls[m] = layer[m] /\ ds[m] = disp[m]
      BY <1>2 DEF IInv
    <2>2. Held(layer[m]) \cap gone = {}
      <3>1. \A f \in gone : Owned(l, f)
        BY HeldOwned
      <3> QED
        BY <1>2, <3>1 DEF Owned
    <2> QED
      BY <2>1, <2>2, LayerTidy DEF Follows
  <1> QED
    BY <1>1, <1>2

\* One layer gives frames back.
LEMMA ExactGives ==
  ASSUME IInv, HInv, SInv, NEW l \in Layers, NEW M, NEW e, NEW rel \in Seq(Call),
         Exact(layer[l], disp[l], M, e, rel),
         NEW ls \in [Layers -> GoodLayers], ls = [layer EXCEPT ![l] = M],
         NEW ds, ds = [disp EXCEPT ![l] = e],
         NEW is \in [Tunnels -> InstState], NEW freed, Answered(layer[l], rel, is, freed),
         NEW scr, Dims(scr)
  PROVE  /\ Leasing(ls, is, ev, ds, scr)
         /\ GivesBack(inst, is, screen, scr, freed)
  <1> DEFINE L    == layer[l]
             gone == Held(L) \ Held(M)
  <1>1. Good(L) /\ Same(L, L)
    BY LayerTidy, FieldSame
  <1>2. gone \in SUBSET Held(L) /\ Names(rel, gone) /\ \A f \in gone : Has(rel, f, L, disp[l])
    BY DEF Exact
  <1>3. AllFollow(ls, ds, gone)
    BY ExactFollows
  <1> HIDE DEF gone
  <1>4. Loses(inst, is, gone) /\ Returns(freed, gone, L, disp[l])
    BY <1>1, <1>2, Gathered
  <1>5. ev \in EvState /\ Forwards(ev, ev) /\ Scanning(inst, ev)
    BY DEF IInv, Forwards, SInv, Leasing
  <1>6. AllShown(ls, ds, scr)
    BY DEF AllShown, ShownBy, Dims
  <1>7. Leasing(ls, is, ev, ds, scr)
    BY <1>3, <1>4, <1>5, <1>6, LosingKeeps
  <1>8. KeepsShowing(l, gone, L, disp[l])
    BY DEF KeepsShowing
  <1>9. Out(is) = Out(inst) \ gone
    BY <1>4, LosesOut
  <1> HIDE DEF L
  <1>10. GivesBack(inst, is, screen, scr, freed)
    BY <1>2, <1>4, <1>8, <1>9, HeldGivenBack DEF L
  <1> QED
    BY <1>7, <1>10

\* The same of a step.
LEMMA ExactStep ==
  ASSUME IInv, IInv', HInv, SInv, NEW l \in Layers, NEW M, NEW e, NEW rel \in Seq(Call),
         Exact(layer[l], disp[l], M, e, rel),
         layer' = [layer EXCEPT ![l] = M], disp' = [disp EXCEPT ![l] = e],
         Answered(layer[l], rel, inst', returned'), Dims(screen'), ev' = ev
  PROVE  SInv' /\ Given
  <1> DEFINE ls  == layer'
             is  == inst'
             ds  == disp'
             scr == screen'
             fr  == returned'
  <1>1. ls \in [Layers -> GoodLayers] /\ is \in [Tunnels -> InstState]
    BY DEF IInv
  <1>2. /\ ls = [layer EXCEPT ![l] = M] /\ ds = [disp EXCEPT ![l] = e]
        /\ Answered(layer[l], rel, is, fr) /\ Dims(scr)
    OBVIOUS
  <1> HIDE DEF ls, is, ds, scr, fr
  <1>3. /\ Leasing(ls, is, ev, ds, scr)
        /\ GivesBack(inst, is, screen, scr, fr)
    BY <1>1, <1>2, ExactGives
  <1> QED
    BY <1>3 DEF SInv, Given, ls, is, ds, scr, fr

\* Frames and screens stay as they are.
LEMMA QuietStep ==
  ASSUME IInv, IInv', HInv, SInv, AllFollow(layer', disp', {}),
         inst' = inst, returned' = {}, Forwards(ev, ev'), Scanning(inst, ev'),
         screen' = screen
  PROVE  SInv' /\ Given
  <1> DEFINE ls  == layer'
             ds  == disp'
             e   == ev'
  <1>1. ls \in [Layers -> GoodLayers] /\ inst \in [Tunnels -> InstState]
    BY DEF IInv
  <1>2. /\ e \in EvState /\ Forwards(ev, e) /\ Scanning(inst, e)
        /\ AllFollow(ls, ds, {})
    BY DEF IInv
  <1> HIDE DEF ls, ds, e
  <1>3. Loses(inst, inst, {}) /\ AllShown(ls, ds, screen) /\ Dims(screen)
    BY DEF Loses, AllShown, ShownBy, Dims
  <1>4. Leasing(ls, inst, e, ds, screen)
    BY <1>1, <1>2, <1>3, LosingKeeps
  <1>5. GivesBack(inst, inst, screen, screen, {})
    BY <1>3, NoneGivenBack
  <1> QED
    BY <1>4, <1>5 DEF SInv, Given, ls, ds, e

\* One layer changes.
LEMMA OneQuietStep ==
  ASSUME IInv, IInv', HInv, SInv, NEW l \in Layers, NEW M, NEW e,
         Same(layer[l], M), M.listener = layer[l].listener, Tidy(M, e),
         \A f \in Held(layer[l]) : Shows(layer[l], disp[l], f) => Shows(M, e, f),
         layer' = [layer EXCEPT ![l] = M], disp' = [disp EXCEPT ![l] = e],
         inst' = inst, returned' = {}, ev' = ev, screen' = screen
  PROVE  SInv' /\ Given
  <1> DEFINE L == layer[l]
             d == disp[l]
  <1>1. Good(L) /\ Sound(L) /\ <<>> \in Seq(Call)
    BY LayerTidy
  <1>2. /\ Same(L, M) /\ M.listener = L.listener
        /\ \A f \in Held(L) : Shows(L, d, f) => Shows(M, e, f)
    OBVIOUS
  <1> HIDE DEF L, d
  <1>3. Exact(L, d, M, e, <<>>)
    BY <1>1, <1>2, SameExact
  <1>4. Answered(L, <<>>, inst', returned') /\ Dims(screen')
    BY DEF Answered, Dims
  <1> QED
    BY <1>1, <1>3, <1>4, ExactStep DEF L, d

----------------------------------------------------------------------------
(* The steps of the VtDisplay thread *)

\* A frame goes on the screen of a layer, out of the driver.
Posted == /\ \E l \in Layers, f \in Out(inst) : screen' = [screen EXCEPT ![l] = f]
          /\ Out(inst') = Out(inst) /\ returned' = {}

\* Frames come out of the driver, and what had their numbers is forgotten.
Taken == /\ \E S \in SUBSET Fds :
              /\ S \cap Out(inst) = {} /\ Out(inst') = Out(inst) \cup S
              /\ screen' = [m \in Layers |-> IF screen[m] \in S THEN NoFd ELSE screen[m]]
         /\ returned' = {}

LEMMA SetPresentTimeLease ==
  ASSUME IInv, IInv', HInv, SInv, NEW l \in Layers, SetPresentTime(l)
  PROVE  SInv' /\ Given
  <1>1. PICK n \in layer[l].now..MaxNow : layer' = [layer EXCEPT ![l].now = n]
    BY DEF SetPresentTime
  <1> DEFINE L == layer[l]
             d == disp[l]
             M == [L EXCEPT !.now = n]
             e == [d EXCEPT !.pc = "update"]
  <1>2. /\ layer' = [layer EXCEPT ![l] = M] /\ disp' = [disp EXCEPT ![l] = e]
        /\ inst' = inst /\ returned' = {} /\ ev' = ev /\ screen' = screen
        /\ d.pc = "wait" /\ L.life = "live"
    BY <1>1 DEF SetPresentTime
  <1>3. Good(L) /\ Tidy(L, d) /\ d \in DispState
    BY LayerTidy
  <1>4. Same(L, M) /\ M.listener = L.listener
    BY <1>3, FieldSame DEF Good, LayerState
  <1>5. /\ M.life = L.life /\ M.vt = L.vt /\ M.tunnel = L.tunnel
        /\ M.pre = L.pre /\ M.cur = L.cur /\ M.game = L.game /\ M.update = L.update
        /\ M.solid = L.solid /\ M.solidHandle = L.solidHandle
        /\ M.needRelease = L.needRelease /\ M.status = L.status
        /\ M.curFence = L.curFence /\ M.prevFence = L.prevFence
    BY <1>3 DEF Good, LayerState
  <1>6. e.pc = "update" /\ e.fd = d.fd
    BY <1>3 DEF DispState
  <1> HIDE DEF M, e
  <1>7. Tidy(M, e)
    BY <1>2, <1>3, <1>5, <1>6 DEF Tidy, Plain, Cycle, Alive
  <1>8. \A f \in Held(L) : Shows(L, d, f) => Shows(M, e, f)
    BY <1>2, <1>5 DEF Shows
  <1> QED
    BY <1>2, <1>4, <1>7, <1>8, OneQuietStep

LEMMA UpdateVtBufferLease ==
  ASSUME IInv, IInv', HInv, SInv, NEW l \in Layers, UpdateVtBuffer(l)
  PROVE  SInv' /\ Given
  <1> DEFINE L       == layer[l]
             d       == disp[l]
             e       == [d EXCEPT !.pc = "present"]
             dropped == Unfenced(SubSeq(L.queue, 1, DropCount(L)))
  <1>1. /\ d.pc = "update" /\ disp' = [disp EXCEPT ![l] = e]
        /\ ev' = ev /\ screen' = screen
    BY DEF UpdateVtBuffer
  <1>2. Good(L) /\ Sound(L) /\ Tidy(L, d) /\ d \in DispState
    BY LayerTidy
  <1>3. e.pc = "present" /\ e.fd = NoFd
    BY <1>1, <1>2 DEF DispState, Tidy, Cycle
  <1> HIDE DEF e
  <1>4. CASE L.life = "live" /\ L.vt /\ L.queue # <<>>
    <2>1. /\ layer' = [layer EXCEPT ![l] = Updated(L)]
          /\ inst' = AfterCalls(L, dropped).insts
          /\ returned' = AfterCalls(L, dropped).freed
      BY <1>4 DEF UpdateVtBuffer, Becomes
    <2>2. dropped \in Seq(Call)
      <3>1. SubSeq(L.queue, 1, DropCount(L)) \in Seq(Item)
        <4>1. DropCount(L) \in 0..Len(L.queue) - 1
          BY <1>2, <1>4, SoundFacts, DropCountBound
        <4> QED
          BY <1>2, <4>1, SoundFacts, SplitQueue
      <3> QED
        BY <3>1, UnfencedType
    <2>3. Exact(L, d, Updated(L), e, dropped)
      BY <1>1, <1>2, <1>3, <1>4, UpdatedExact
    <2>4. Answered(L, dropped, inst', returned') /\ Dims(screen')
      BY <1>1, <2>1 DEF Answered, Dims
    <2> HIDE DEF dropped
    <2> QED
      BY <1>1, <2>1, <2>2, <2>3, <2>4, ExactStep
  <1>5. CASE ~(L.life = "live" /\ L.vt /\ L.queue # <<>>)
    <2>1. layer' = layer /\ inst' = inst /\ returned' = {}
      BY <1>5 DEF UpdateVtBuffer
    <2>2. layer' = [layer EXCEPT ![l] = L]
      BY <2>1 DEF IInv
    <2>3. Same(L, L)
      BY <1>2, FieldSame
    <2>4. Tidy(L, e)
      BY <1>1, <1>2, <1>3 DEF Tidy, Cycle
    <2>5. \A f \in Held(L) : Shows(L, d, f) => Shows(L, e, f)
      BY <1>1 DEF Shows
    <2> QED
      BY <1>1, <2>1, <2>2, <2>3, <2>4, <2>5, OneQuietStep
  <1> QED
    BY <1>4, <1>5

LEMMA SkipPresentLease ==
  ASSUME IInv, IInv', HInv, SInv, "skip" \notin Ops, NEW l \in Layers, SkipPresent(l)
  PROVE  SInv' /\ Given
  <1> DEFINE L == layer[l]
             d == disp[l]
             e == [d EXCEPT !.pc = "release"]
  <1>1. /\ d.pc = "present" /\ disp' = [disp EXCEPT ![l] = e]
        /\ ev' = ev /\ screen' = screen /\ inst' = inst /\ returned' = {}
        /\ layer' = layer /\ ~InComposition(L)
    BY DEF SkipPresent
  <1>2. Good(L) /\ Sound(L) /\ Tidy(L, d) /\ d \in DispState
    BY LayerTidy
  <1>3. e.pc = "release" /\ e.fd = NoFd
    BY <1>1, <1>2 DEF DispState, Tidy, Cycle
  <1>4. L.tunnel = NoTunnel
    BY <1>1, <1>2 DEF InComposition, Tidy, Plain
  <1>5. Empty(L)
    BY <1>2, <1>4, UntunedEmpty
  <1> HIDE DEF e
  <1>6. ~Ready(L)
    BY <1>2, <1>5 DEF Tidy, Plain, Ready, Empty
  <1>7. Tidy(L, e)
    BY <1>1, <1>2, <1>3, <1>5, <1>6 DEF Tidy, Cycle, Empty
  <1>8. Same(L, L) /\ layer' = [layer EXCEPT ![l] = L]
    BY <1>1, <1>2, FieldSame DEF IInv
  <1>9. \A f \in Held(L) : Shows(L, d, f) => Shows(L, e, f)
    BY <1>5, EmptyFacts
  <1> QED
    BY <1>1, <1>7, <1>8, <1>9, OneQuietStep

LEMMA InterruptedLease ==
  ASSUME IInv, IInv', HInv, SInv, NEW l \in Layers, disp[l].pc # "post",
         InComposition(layer[l]), Becomes(Interrupted(l)), NEW e,
         Presented(layer[l], disp[l], e),
         disp' = [disp EXCEPT ![l] = e], ev' = ev,
         screen' = [screen EXCEPT ![l] = IF Clears(layer[l]) THEN NoFd ELSE @]
  PROVE  SInv' /\ Given
  <1> DEFINE L == layer[l]
             A == AfterStatus(L)
             rel == StatusCalls(L)
  <1>1. Good(L) /\ Sound(L) /\ Tidy(L, disp[l])
    BY LayerTidy
  <1>2. Exact(L, disp[l], A, e, rel) /\ ~ShowsSolid(L)
    BY <1>1, AfterStatusExact
  <1>3. rel \in Seq(Call)
    BY <1>1, AfterStatusShrinks
  <1>4. layer' = [layer EXCEPT ![l] = A]
    BY <1>2 DEF Becomes, Interrupted
  <1>5. Answered(L, rel, inst', returned')
    BY DEF Becomes, Interrupted, StatusCalls, Answered
  <1>6. Dims(screen')
    BY DEF Dims, IInv
  <1> HIDE DEF A, rel
  <1> QED
    BY <1>2, <1>3, <1>4, <1>5, <1>6, ExactStep

LEMMA CommitVtLease ==
  ASSUME IInv, IInv', HInv, SInv, NEW l \in Layers, CommitVt(l)
  PROVE  SInv' /\ Given
  <1>1. Presented(layer[l], disp[l], disp[l])
    BY DEF Presented
  <1>2. disp' = [disp EXCEPT ![l] = disp[l]]
    BY DEF CommitVt, IInv
  <1> QED
    BY <1>1, <1>2, InterruptedLease DEF CommitVt

LEMMA PresentVtLease ==
  ASSUME IInv, IInv', HInv, SInv, NEW l \in Layers, PresentVt(l)
  PROVE  SInv' /\ Given
  <1> DEFINE e == IF Posts(layer[l])
                  THEN [pc |-> "post", fd |-> BufferFd(AfterStatus(layer[l]))]
                  ELSE [pc |-> "release", fd |-> NoFd]
  <1>1. Presented(layer[l], disp[l], e)
    BY DEF Presented, PresentVt
  <1>2. disp' = [disp EXCEPT ![l] = e]
    BY DEF PresentVt
  <1> HIDE DEF e
  <1> QED
    BY <1>1, <1>2, InterruptedLease DEF PresentVt

LEMMA PostedTidy ==
  ASSUME NEW L, Good(L), Sound(L), NEW d, d.pc = "post", Tidy(L, d),
         NEW M, M = [L EXCEPT !.curFence = Shown(OtherFence, d.fd)],
         NEW e, e.pc = "release", e.fd = NoFd
  PROVE  /\ Same(L, M) /\ M.listener = L.listener /\ Tidy(M, e)
         /\ d.fd # NoFd => d.fd \in Held(L) /\ Shows(M, e, d.fd)
         /\ \A f \in Held(L) : Shows(L, d, f) => Shows(M, e, f)
  <1>1. /\ M.life = L.life /\ M.refreshed = L.refreshed /\ M.update = L.update
        /\ M.vt = L.vt /\ M.tunnel = L.tunnel /\ M.listener = L.listener
        /\ M.pre = L.pre /\ M.cur = L.cur /\ M.ts = L.ts /\ M.now = L.now
        /\ M.game = L.game /\ M.solid = L.solid /\ M.solidHandle = L.solidHandle
        /\ M.needRelease = L.needRelease /\ M.status = L.status
        /\ M.curFence = Shown(OtherFence, d.fd) /\ M.prevFence = L.prevFence
    BY DEF Good, LayerState
  <1>2. Same(L, M)
    BY FieldSame
  <1>3. Ready(M) <=> Ready(L)
    BY <1>1 DEF Ready, Due
  <1>4. d.fd = BufferFd(L) /\ FbUpdated(L)
    BY DEF Tidy, Cycle
  <1>5. /\ Ready(L) => d.fd = L.cur /\ L.cur # NoFd
        /\ ~Ready(L) => d.fd = L.pre /\ L.refreshed
    BY <1>4, TidyFacts DEF Ready, BufferFd, FbUpdated, Tidy, Plain
  <1>6. d.fd # NoFd => M.curFence = d.fd
    BY <1>1 DEF Shown
  <1>7. Tidy(M, e)
    BY <1>1, <1>3, <1>5, <1>6 DEF Tidy, Plain, Cycle, Alive
  <1>8. \A f \in Held(L) : Shows(L, d, f) => Shows(M, e, f)
    BY <1>1 DEF Shows
  <1>9. d.fd # NoFd => d.fd \in Held(L) /\ Shows(M, e, d.fd)
    BY <1>1, <1>3, <1>5, TidyFacts DEF Shows
  <1> QED
    BY <1>1, <1>2, <1>7, <1>8, <1>9

LEMMA PostFrameLease ==
  ASSUME IInv, IInv', HInv, SInv, NEW l \in Layers, PostFrame(l)
  PROVE  SInv' /\ (Given \/ Posted)
  <1> DEFINE L  == layer[l]
             d  == disp[l]
             M  == [L EXCEPT !.curFence = Shown(OtherFence, d.fd)]
             e  == [pc |-> "release", fd |-> NoFd]
  <1>1. /\ d.pc = "post" /\ layer' = [layer EXCEPT ![l] = M]
        /\ disp' = [disp EXCEPT ![l] = e]
        /\ screen' = [screen EXCEPT ![l] = Shown(@, d.fd)]
        /\ returned' = {} /\ inst' = inst /\ ev' = ev
    BY DEF PostFrame
  <1>2. Good(L) /\ Sound(L) /\ Tidy(L, d)
    BY LayerTidy
  <1>3. e.pc = "release" /\ e.fd = NoFd
    OBVIOUS
  <1>4. /\ Same(L, M) /\ M.listener = L.listener /\ Tidy(M, e)
        /\ d.fd # NoFd => d.fd \in Held(L) /\ Shows(M, e, d.fd)
        /\ \A f \in Held(L) : Shows(L, d, f) => Shows(M, e, f)
    BY <1>1, <1>2, <1>3, PostedTidy
  <1> HIDE DEF M, e
  <1>5. CASE d.fd = NoFd
    <2>1. screen' = screen
      BY <1>1, <1>5 DEF Shown, IInv
    <2> QED
      BY <1>1, <1>4, <2>1, OneQuietStep
  <1>6. CASE d.fd # NoFd
    <2>1. screen' = [screen EXCEPT ![l] = d.fd]
      BY <1>1, <1>6 DEF Shown
    <2>2. d.fd \in Out(inst)
      BY <1>4, <1>6, HeldOwned DEF Owned, Out
    <2>3. Posted
      BY <1>1, <2>1, <2>2 DEF Posted
    <2>4. Exact(L, d, M, e, <<>>)
      BY <1>2, <1>4, SameExact
    <2>5. Held(M) = Held(L)
      BY <1>4, SameKeeps
    <2> DEFINE ls == layer'
               ds == disp'
               scr == screen'
    <2>6. ls = [layer EXCEPT ![l] = M] /\ ds = [disp EXCEPT ![l] = e]
          /\ ls \in [Layers -> GoodLayers]
      BY <1>1 DEF IInv
    <2>7. AllShown(ls, ds, scr)
      <3> SUFFICES ASSUME NEW m \in Layers
                   PROVE  ShownBy(ls[m], ds[m], screen[m], scr[m])
        BY DEF AllShown
      <3>1. CASE m = l
        <4>1. ls[m] = M /\ ds[m] = e /\ scr[m] = d.fd
          BY <2>1, <2>6, <3>1 DEF IInv
        <4> QED
          BY <1>4, <1>6, <4>1 DEF ShownBy
      <3>2. CASE m # l
        <4>1. scr[m] = screen[m]
          BY <2>1, <3>2 DEF IInv
        <4> QED
          BY <4>1 DEF ShownBy
      <3> QED
        BY <3>1, <3>2
    <2>8. {} = Held(L) \ Held(M)
      BY <2>5
    <2> HIDE DEF ls, ds, scr, L, d
    <2>9. AllFollow(ls, ds, {})
      BY <2>4, <2>6, <2>8, ExactFollows DEF L, d
    <2>10. Loses(inst, inst, {}) /\ inst \in [Tunnels -> InstState]
      BY DEF Loses, IInv
    <2>11. ev \in EvState /\ Forwards(ev, ev) /\ Scanning(inst, ev)
      BY DEF IInv, Forwards, SInv, Leasing
    <2>12. Leasing(ls, inst, ev, ds, scr)
      BY <2>6, <2>7, <2>9, <2>10, <2>11, LosingKeeps
    <2> QED
      BY <1>1, <2>3, <2>12 DEF SInv, ls, ds, scr
  <1> QED
    BY <1>5, <1>6

LEMMA ReleaseVtBufferLease ==
  ASSUME IInv, IInv', HInv, SInv, NEW l \in Layers, ReleaseVtBuffer(l)
  PROVE  SInv' /\ Given
  <1> DEFINE L     == layer[l]
             d     == disp[l]
             e     == [d EXCEPT !.pc = "wait"]
             M     == AfterRelease(L)
             rel   == ReleaseVtCalls(L)
  <1>1. /\ d.pc = "release" /\ disp' = [disp EXCEPT ![l] = e]
        /\ ev' = ev /\ screen' = screen
    BY DEF ReleaseVtBuffer
  <1>2. Good(L) /\ Sound(L) /\ Tidy(L, d) /\ d \in DispState
    BY LayerTidy
  <1>3. e.pc = "wait" /\ e.fd = NoFd
    BY <1>1, <1>2 DEF DispState, Tidy, Cycle
  <1> HIDE DEF e
  <1>4. CASE L.life = "live" /\ L.vt
    <2>1. /\ layer' = [layer EXCEPT ![l] = M]
          /\ Answered(L, rel, inst', returned')
      BY <1>4 DEF ReleaseVtBuffer, Becomes, Answered, ReleaseVtCalls
    <2>2. Exact(L, d, M, e, rel) /\ rel \in Seq(Call)
      BY <1>1, <1>2, <1>3, AfterReleaseExact, AfterReleaseShrinks
    <2>3. Dims(screen')
      BY <1>1 DEF Dims
    <2> HIDE DEF M, rel
    <2> QED
      BY <1>1, <2>1, <2>2, <2>3, ExactStep
  <1>5. CASE ~(L.life = "live" /\ L.vt)
    <2>1. layer' = layer /\ inst' = inst /\ returned' = {}
      BY <1>5 DEF ReleaseVtBuffer
    <2>2. layer' = [layer EXCEPT ![l] = L] /\ Same(L, L)
      BY <1>2, <2>1, FieldSame DEF IInv
    <2>3. Empty(L)
      BY <1>2, <1>5, UntunedEmpty DEF Tidy, Plain
    <2>4. Tidy(L, e)
      BY <1>2, <1>3, <2>3 DEF Tidy, Cycle, Empty
    <2>5. \A f \in Held(L) : Shows(L, d, f) => Shows(L, e, f)
      BY <2>3, EmptyFacts
    <2> QED
      BY <1>1, <2>1, <2>2, <2>4, <2>5, OneQuietStep
  <1> QED
    BY <1>4, <1>5

----------------------------------------------------------------------------
(* The steps of the VtHandleEvents thread *)

\* While every instance that lives has a consumer, none is cleared up.
LEMMA NothingUnused ==
  ASSUME IInv, SInv
  PROVE  /\ Unused(inst) = {}
         /\ Swept.layers = layer /\ Swept.insts = inst /\ Swept.freed = {}
  <1>1. Unused(inst) = {}
    BY DEF SInv, Leasing, Ledger, Lively, Unused
  <1>2. ClearUpLayers(inst, layer) = layer
    BY <1>1 DEF ClearUpLayers, IInv
  <1>3. ClearUp(inst) = inst
    BY <1>1 DEF ClearUp, IInv
  <1>4. ClearUpFreed(inst) = {}
    BY <1>1 DEF ClearUpFreed
  <1> QED
    BY <1>1, <1>2, <1>3, <1>4 DEF Swept

LEMMA StaysFollowing ==
  ASSUME IInv, HInv, SInv, NEW m \in Layers
  PROVE  Follows(layer[m], disp[m], layer[m], disp[m], {})
  BY LayerTidy DEF Follows

LEMMA HandleBuffersLease ==
  ASSUME IInv, IInv', HInv, SInv, HandleBuffers
  PROVE  SInv' /\ Given
  <1>1. /\ layer' = layer /\ inst' = inst /\ returned' = {} /\ MutexFree
        /\ ev' = [ev EXCEPT !.pc = "scan", !.left = {t \in Tunnels : inst[t].live}]
        /\ disp' = disp /\ screen' = screen
    BY NothingUnused DEF HandleBuffers, Becomes
  <1>2. ev'.pc = "scan" /\ ev'.left = {t \in Tunnels : inst[t].live}
    BY <1>1 DEF IInv, EvState
  <1>3. Forwards(ev, ev') /\ Scanning(inst, ev')
    BY <1>1, <1>2 DEF Forwards, Pending, MutexFree, Scanning
  <1>4. AllFollow(layer', disp', {})
    BY <1>1, StaysFollowing DEF AllFollow
  <1> QED
    BY <1>1, <1>3, <1>4, QuietStep

LEMMA AfterCmdFollows ==
  ASSUME Ops \subseteq SteadyOps, NEW L, Good(L), Sound(L), NEW d, Tidy(L, d),
         NEW c \in Cmds
  PROVE  Follows(L, d, AfterCmd(L, c), d, {})
  <1> DEFINE M == AfterCmd(L, c)
  <1>1. c \in AllStatuses \ {"hold"} \/ c = "refresh"
    BY DEF Cmds, SteadyOps, AllStatuses
  <1>2. Same(L, M)
    BY AfterCmdSame
  <1>3. M = [L EXCEPT !.status = c] \/ M = [L EXCEPT !.refreshed = TRUE]
    BY <1>1 DEF AfterCmd, AllStatuses
  <1>4. Tidy(M, d)
    <2>1. CASE c \in AllStatuses \ {"hold"}
      <3>1. M = [L EXCEPT !.status = c]
        BY <2>1 DEF AfterCmd, AllStatuses
      <3>2. Tidy([L EXCEPT !.status = c], d)
        BY <2>1, TidyFields
      <3> QED
        BY <3>1, <3>2
    <2>2. CASE c = "refresh"
      <3>1. M = [L EXCEPT !.refreshed = TRUE]
        BY <2>2 DEF AfterCmd, AllStatuses
      <3> QED
        BY <3>1, TidyFields
    <2> QED
      BY <1>1, <2>1, <2>2
  <1>5. /\ M.listener = L.listener /\ M.pre = L.pre /\ M.cur = L.cur
        /\ M.ts = L.ts /\ M.now = L.now /\ M.game = L.game /\ M.update = L.update
    BY <1>3 DEF Good, LayerState
  <1>6. M.tunnel = L.tunnel /\ Held(M) = Held(L)
    BY <1>2, SameKeeps DEF Same
  <1> HIDE DEF M
  <1>7. \A f : Shows(L, d, f) => Shows(M, d, f)
    BY <1>5 DEF Shows, Ready, Due
  <1>8. Follows(L, d, M, d, {})
    BY <1>4, <1>5, <1>6, <1>7 DEF Follows
  <1> QED
    BY <1>8 DEF M

LEMMA HandleCmdsLease ==
  ASSUME IInv, IInv', HInv, SInv, Ops \subseteq SteadyOps,
         NEW t \in Tunnels, NEW c \in Cmds, HandleCmds(t, c)
  PROVE  SInv' /\ Given
  <1>1. /\ layer' = [m \in Layers |-> IF Registered(m, t) /\ layer[m].life # "dead"
                                      THEN AfterCmd(layer[m], c) ELSE layer[m]]
        /\ inst' = inst /\ returned' = {} /\ ev' = ev /\ disp' = disp /\ screen' = screen
    BY NothingUnused DEF HandleCmds, Becomes, Swept
  <1>2. AllFollow(layer', disp', {})
    BY <1>1, StaysFollowing, LayerTidy, AfterCmdFollows DEF AllFollow
  <1>3. Forwards(ev, ev') /\ Scanning(inst, ev')
    BY <1>1 DEF Forwards, SInv, Leasing
  <1> QED
    BY <1>1, <1>2, <1>3, QuietStep

\* A layer whose fences are renumbered.
LEMMA RenumberedFollows ==
  ASSUME IInv, HInv, SInv, NEW b, Renumbered(b), FdsOf(b) \in SUBSET Fds,
         FdsOf(b) \cap Out(inst) = {}
  PROVE  AllFollow(layer', disp, {})
  <1> SUFFICES ASSUME NEW m \in Layers
               PROVE  Follows(layer[m], disp[m], layer'[m], disp[m], {})
    BY DEF AllFollow
  <1> DEFINE L == layer[m]
             F == FdsOf(b)
             c == IF L.curFence \in F THEN OtherFence ELSE L.curFence
             p == IF L.prevFence \in F THEN OtherFence ELSE L.prevFence
             M == [L EXCEPT !.curFence = c, !.prevFence = p]
  <1>1. layer'[m] = M
    BY DEF Renumbered
  <1>2. Good(L) /\ Sound(L) /\ Tidy(L, disp[m])
    BY LayerTidy
  <1>3. F \cap Held(L) = {}
    <2>1. \A f \in Held(L) : f \in Out(inst)
      BY HeldOwned DEF Owned, Out
    <2> QED
      BY <2>1
  <1>4. Tidy(M, disp[m])
    BY <1>2, <1>3, RenumberedTidy
  <1>5. /\ M.queue = L.queue /\ M.tunnel = L.tunnel
        /\ M.listener = L.listener /\ M.pre = L.pre /\ M.cur = L.cur
        /\ M.ts = L.ts /\ M.now = L.now /\ M.game = L.game /\ M.update = L.update
    BY <1>2 DEF Good, LayerState
  <1> HIDE DEF M
  <1>6. Held(M) = Held(L) /\ \A f : Shows(L, disp[m], f) => Shows(M, disp[m], f)
    BY <1>5 DEF Held, Shows, Ready, Due
  <1> QED
    BY <1>1, <1>4, <1>5, <1>6 DEF Follows

\* The event thread has a batch for the consumers, or an empty one.
Hands(t, b, e) ==
  \/ FdsOf(b) = {} /\ e = Leave(t)
  \/ e = [ev EXCEPT !.pc = "deliver", !.at = t, !.items = b, !.todo = inst[t].consumers]

WithFresh(t, b) == [inst EXCEPT ![t].bufs = @ \cup Fresh(b)]

Blanked(F) == [m \in Layers |-> IF screen[m] \in F THEN NoFd ELSE screen[m]]

\* New frames in an instance, and what the event thread does about them.
LEMMA TakenLease ==
  ASSUME IInv, HInv, SInv, ev.pc = "scan", NEW t, t \in ev.left, NEW b,
         NEW F, F = FdsOf(b), F \in SUBSET Fds, F \cap Out(inst) = {},
         NEW ls, ls \in [Layers -> GoodLayers], AllFollow(ls, disp, {}),
         NEW is, is = WithFresh(t, b),
         NEW e, Hands(t, b, e),
         NEW scr, scr = Blanked(F)
  PROVE  Leasing(ls, is, e, disp, scr) /\ Out(is) = Out(inst) \cup F
  <1> USE DEF AllFollow, Blanked, WithFresh
  <1>0. ev \in EvState /\ t \in Tunnels /\ inst \in [Tunnels -> InstState]
        /\ screen \in [Layers -> MaybeFd]
    BY DEF IInv, EvState
  <1>1. inst[t].live /\ inst[t].consumers # {}
    BY <1>0 DEF SInv, Leasing, Scanning, Ledger, Lively
  <1>2. /\ is[t].bufs = inst[t].bufs \cup Fresh(b)
        /\ \A u \in Tunnels : /\ is[u].live = inst[u].live
                              /\ is[u].consumers = inst[u].consumers
                              /\ u # t => is[u] = inst[u]
    <2> DEFINE n == inst[t].bufs \cup Fresh(b)
               i == [inst[t] EXCEPT !.bufs = n]
    <2>1. i.bufs = n /\ i.consumers = inst[t].consumers /\ i.live = inst[t].live
      BY <1>0 DEF InstState
    <2>2. is = [inst EXCEPT ![t] = i]
      OBVIOUS
    <2> HIDE DEF i
    <2>3. is[t] = i /\ \A u \in Tunnels \ {t} : is[u] = inst[u]
      BY <1>0, <2>2
    <2> QED
      BY <2>1, <2>3
  <1>3. /\ \A c \in Fresh(b) : c.fd \in F /\ c.ref = -1 /\ c.fences = {}
                               /\ c = [fd |-> c.fd, ref |-> -1, fences |-> {}]
        /\ \A f \in F : \E c \in Fresh(b) : c.fd = f
    <2>1. ASSUME NEW c \in Fresh(b)
          PROVE  /\ c.fd \in F /\ c.ref = -1 /\ c.fences = {}
                 /\ c = [fd |-> c.fd, ref |-> -1, fences |-> {}]
      <3>1. PICK f \in F : c = [fd |-> f, ref |-> -1, fences |-> {}]
        BY DEF Fresh
      <3> QED
        BY <3>1
    <2>2. \A f \in F : [fd |-> f, ref |-> -1, fences |-> {}] \in Fresh(b)
      BY DEF Fresh
    <2> QED
      BY <2>1, <2>2
  <1>4. \A u \in Tunnels : \A c \in inst[u].bufs : c.fd \notin F
    BY DEF Out
  <1>5. \A u \in Tunnels : \A c \in is[u].bufs :
           c \in inst[u].bufs \/ (u = t /\ c \in Fresh(b))
    BY <1>2
  <1>6. Out(is) = Out(inst) \cup F
    <2>1. \A f \in Out(is) : f \in Out(inst) \cup F
      BY <1>3, <1>5 DEF Out
    <2>2. \A f \in Out(inst) : f \in Out(is)
      BY <1>2 DEF Out
    <2>3. \A f \in F : f \in Out(is)
      BY <1>0, <1>2, <1>3 DEF Out
    <2> QED
      BY <2>1, <2>2, <2>3
  <1>7. \A m \in Layers : Tidy(ls[m], disp[m])
    BY DEF Follows
  <1>8. Linked(ls, is)
    BY <1>2, FollowLinked
  <1>9. Distinct(is)
    <2> SUFFICES ASSUME NEW u \in Tunnels, NEW v \in Tunnels,
                        NEW c \in is[u].bufs, NEW d \in is[v].bufs, c.fd = d.fd
                 PROVE  u = v /\ c = d
      BY DEF Distinct
    <2>1. CASE c \in inst[u].bufs /\ d \in inst[v].bufs
      BY <2>1 DEF SInv, Leasing, Ledger, Distinct
    <2>2. CASE c \in Fresh(b) /\ d \in Fresh(b) /\ u = t /\ v = t
      BY <1>3, <2>2
    <2> QED
      BY <1>3, <1>4, <1>5, <2>1, <2>2
  <1>10. Accounted(ls, is, e)
    <2> SUFFICES ASSUME NEW u \in Tunnels, NEW c \in is[u].bufs
                 PROVE  /\ c.fences = {}
                        /\ \/ c.ref = 1 /\ Owner(ls, is, u, c.fd)
                           \/ c.ref = -1 /\ Pending(e, u, c.fd)
      BY DEF Accounted
    <2>1. CASE c \in inst[u].bufs
      <3>1. c.fences = {} /\ c.ref = 1 /\ Owner(layer, inst, u, c.fd)
        BY <2>1 DEF SInv, Leasing, Ledger, Accounted, Pending
      <3>2. PICK m \in inst[u].consumers : c.fd \in Held(layer[m])
        BY <3>1 DEF Owner
      <3>3. m \in Layers
        BY <1>0 DEF InstState
      <3>4. c.fd \in Held(ls[m])
        BY <3>2, <3>3 DEF Follows
      <3> QED
        BY <1>2, <3>1, <3>2, <3>4 DEF Owner
    <2>2. CASE c \in Fresh(b) /\ u = t
      <3>1. c.fd \in F /\ c.ref = -1 /\ c.fences = {}
        BY <1>3, <2>2
      <3>2. e = [ev EXCEPT !.pc = "deliver", !.at = t, !.items = b,
                           !.todo = inst[t].consumers]
        BY <3>1 DEF Hands
      <3>3. e.pc = "deliver" /\ e.at = t /\ e.items = b
        BY <1>0, <3>2 DEF EvState
      <3> QED
        BY <2>2, <3>1, <3>3 DEF Pending
    <2> QED
      BY <1>5, <2>1, <2>2
  <1>11. Lively(is)
    <2> SUFFICES ASSUME NEW u \in Tunnels
                 PROVE  IF is[u].live THEN is[u].consumers # {} ELSE is[u] = NoInst
      BY DEF Lively
    <2>1. IF inst[u].live THEN inst[u].consumers # {} ELSE inst[u] = NoInst
      BY DEF SInv, Leasing, Ledger, Lively
    <2> QED
      BY <1>1, <1>2, <2>1
  <1>12. Scanning(is, e)
    <2>0. \A u \in ev.left : u \in Tunnels /\ is[u].live
      BY <1>0, <1>2 DEF SInv, Leasing, Scanning, EvState
    <2>1. CASE e = Leave(t)
      <3>1. e.left \subseteq ev.left /\ e.pc # "deliver"
        BY <1>0, <2>1 DEF Leave, EvState
      <3> QED
        BY <2>0, <3>1 DEF Scanning
    <2>2. CASE e = [ev EXCEPT !.pc = "deliver", !.at = t, !.items = b,
                              !.todo = inst[t].consumers]
      <3>1. e.left = ev.left /\ e.todo = inst[t].consumers
        BY <1>0, <2>2 DEF EvState
      <3> QED
        BY <1>1, <2>0, <3>1 DEF Scanning
    <2> QED
      BY <2>1, <2>2 DEF Hands
  <1>13. Screens(ls, is, disp, scr)
    <2> SUFFICES ASSUME NEW m \in Layers, scr[m] \in Out(is)
                 PROVE  Shows(ls[m], disp[m], scr[m])
      BY DEF Screens
    <2>1. NoFd \notin Out(is)
      <3>1. NoFd \notin Out(inst)
        BY <1>0, OutFacts
      <3> QED
        BY <1>6, <3>1, IdAssumption
    <2>2. scr[m] = screen[m] /\ screen[m] \notin F
      BY <2>1
    <2>3. screen[m] \in Out(inst) /\ screen[m] # NoFd
      BY <1>6, <2>1, <2>2
    <2>4. Shows(layer[m], disp[m], screen[m])
      BY <2>3 DEF SInv, Leasing, Screens
    <2>5. screen[m] \in Held(layer[m])
      BY <2>3, <2>4, LayerTidy, TidyFacts
    <2> QED
      BY <2>2, <2>4, <2>5 DEF Follows
  <1>14. Ledger(ls, is, e)
    BY <1>9, <1>10, <1>11 DEF Ledger
  <1> QED
    BY <1>6, <1>7, <1>8, <1>12, <1>13, <1>14 DEF Leasing

LEMMA AcquireBufferLease ==
  ASSUME IInv, IInv', HInv, SInv, NEW t \in Tunnels, AcquireBuffer(t)
  PROVE  SInv' /\ Taken
  <1>1. PICK n \in 0..MaxBatch : \E b \in Batches(n) :
            /\ inst' = [inst EXCEPT ![t].bufs = @ \cup Fresh(b)]
            /\ Renumbered(b)
            /\ ev' = IF n = 0 THEN Leave(t)
                     ELSE [ev EXCEPT !.pc = "deliver", !.at = t, !.items = b,
                                     !.todo = inst[t].consumers]
    BY DEF AcquireBuffer
  <1>2. PICK b \in Batches(n) :
            /\ inst' = [inst EXCEPT ![t].bufs = @ \cup Fresh(b)]
            /\ Renumbered(b)
            /\ ev' = IF n = 0 THEN Leave(t)
                     ELSE [ev EXCEPT !.pc = "deliver", !.at = t, !.items = b,
                                     !.todo = inst[t].consumers]
    BY <1>1
  <1> DEFINE F   == FdsOf(b)
             ls  == layer'
             is  == inst'
             e   == ev'
             scr == screen'
  <1>3. ev.pc = "scan" /\ t \in ev.left /\ returned' = {} /\ disp' = disp
    BY DEF AcquireBuffer
  <1>4. /\ F \in SUBSET Fds /\ F \cap Out(inst) = {} /\ (n = 0 => F = {})
    <2>1. b \in [1..n -> [fd : Fds \ OpenFds, ts : Times]]
      BY DEF Batches
    <2>2. OpenFds = Out(inst)
      BY DEF OpenFds, Open, Out
    <2>3. n = 0 => 1..n = {}
      OBVIOUS
    <2>4. \A f \in F : f \in Fds /\ f \notin Out(inst)
      BY <2>1, <2>2 DEF FdsOf
    <2>5. n = 0 => F = {}
      BY <2>1, <2>3 DEF FdsOf
    <2> QED
      BY <2>4, <2>5
  <1>5. AllFollow(ls, disp, {})
    BY <1>2, <1>4, RenumberedFollows
  <1>6. is = WithFresh(t, b) /\ Hands(t, b, e)
    BY <1>2, <1>4 DEF Hands, WithFresh
  <1>7. /\ ls \in [Layers -> GoodLayers]
        /\ scr = Blanked(F)
    BY <1>2 DEF IInv, Renumbered, Blanked
  <1> HIDE DEF F, ls, is, e, scr
  <1>8. F = FdsOf(b)
    BY DEF F
  <1>9. Leasing(ls, is, e, disp, scr) /\ Out(is) = Out(inst) \cup F
    BY <1>3, <1>4, <1>5, <1>6, <1>7, <1>8, TakenLease
  <1>10. SInv'
    BY <1>3, <1>9 DEF SInv, ls, is, e, scr
  <1>11. Out(inst') = Out(inst) \cup F
    BY <1>9 DEF is
  <1>12. screen' = [m \in Layers |-> IF screen[m] \in F THEN NoFd ELSE screen[m]]
    BY <1>7 DEF scr, Blanked
  <1> QED
    BY <1>3, <1>4, <1>10, <1>11, <1>12 DEF Taken

\* The layer holds what was queued.
LEMMA QueuedHeld ==
  ASSUME NEW L, Good(L), Sound(L), NEW items \in Seq(Item),
         NEW M, M = [L EXCEPT !.queue = L.queue \o items]
  PROVE  FdsOf(items) \subseteq Held(M) /\ Held(L) \subseteq Held(M)
  <1> DEFINE q == L.queue \o items
             n == Len(L.queue)
             k == Len(items)
  <1>1. /\ M.queue = q /\ M.pre = L.pre /\ M.cur = L.cur
    BY DEF Good, LayerState
  <1>2. L.queue \in Seq(Item) /\ n \in Nat /\ DOMAIN L.queue = 1..n
    BY SoundFacts
  <1>3. k \in Nat /\ DOMAIN items = 1..k /\ \A i \in 1..k : items[i] \in Item
    BY LenProperties, ElementOfSeq
  <1>4. /\ DOMAIN q = 1..n + k
        /\ \A i \in 1..n + k : q[i] = IF i <= n THEN L.queue[i] ELSE items[i - n]
    <2>1. /\ q \in Seq(Item) /\ Len(q) = n + k
          /\ \A i \in 1..n + k : q[i] = IF i <= n THEN L.queue[i] ELSE items[i - n]
      BY <1>2, ConcatProperties
    <2>2. DOMAIN q = 1..Len(q)
      BY <2>1, LenProperties
    <2> QED
      BY <2>1, <2>2
  <1> HIDE DEF q, n, k
  <1>5. \A i \in 1..k : items[i].fd # NoFd
    BY <1>3, IdAssumption DEF Item
  <1>6. ASSUME NEW i \in 1..k
        PROVE  items[i].fd \in FdsOf(q)
    <2>1. n + i \in 1..n + k /\ ~(n + i <= n) /\ n + i - n = i
      BY <1>2, <1>3
    <2>2. PICK j \in 1..n + k : ~(j <= n) /\ j - n = i
      BY <1>2, <1>3, <2>1
    <2>3. q[j] = items[j - n]
      BY <1>4, <2>2
    <2>4. q[j].fd = items[i].fd /\ j \in DOMAIN q
      BY <1>4, <2>2, <2>3
    <2> QED
      BY <2>4 DEF FdsOf
  <1>7. ASSUME NEW i \in 1..n
        PROVE  L.queue[i].fd \in FdsOf(q)
    <2>1. i \in 1..n + k /\ i <= n
      BY <1>2, <1>3
    <2>2. q[i] = L.queue[i]
      BY <1>4, <2>1
    <2> QED
      BY <1>4, <2>1, <2>2 DEF FdsOf
  <1>8. FdsOf(items) \subseteq FdsOf(q) \ {NoFd}
    BY <1>3, <1>5, <1>6 DEF FdsOf
  <1>9. FdsOf(L.queue) \subseteq FdsOf(q)
    BY <1>2, <1>7 DEF FdsOf
  <1> QED
    BY <1>1, <1>8, <1>9 DEF Held

LEMMA DeliverFramesLease ==
  ASSUME IInv, IInv', HInv, SInv, DeliverFrames
  PROVE  SInv' /\ Given
  <1>1. PICK l \in ev.todo :
          /\ ev.pc = "deliver" /\ Accepts(layer[l])
          /\ layer' = [layer EXCEPT ![l].queue = @ \o ev.items]
          /\ inst' = [inst EXCEPT ![ev.at].bufs = AddRef(@, 1)]
          /\ ev' = GoOn(ev.todo \ {l})
          /\ returned' = {} /\ disp' = disp /\ screen' = screen
    BY DEF DeliverFrames
  <1> DEFINE t   == ev.at
             L   == layer[l]
             F   == FdsOf(ev.items)
             M   == [L EXCEPT !.queue = L.queue \o ev.items]
             k   == AddRef(inst[t].bufs, 1)
             i   == [inst[t] EXCEPT !.bufs = k]
             new == [layer EXCEPT ![l] = M]
             is  == [inst EXCEPT ![t] = i]
             e   == GoOn({})
  <1>2. /\ l \in Layers /\ t \in Tunnels /\ l \in inst[t].consumers
        /\ ev.todo \ {l} = {}
    BY <1>1, OneConsumer
  <1>3. layer' = new /\ inst' = is /\ ev' = e
    BY <1>1, <1>2
  <1>4. /\ e.pc # "deliver" /\ e.left = ev.left \ {t}
    <2>1. e.pc # "deliver"
      BY GoOnIdle
    <2>2. e.left = ev.left \ {t}
      BY DEF GoOn, Leave, IInv, EvState
    <2> QED
      BY <2>1, <2>2
  <1>5. /\ ev.items \in Seq(Item) /\ Good(L) /\ Sound(L)
        /\ inst[t] \in InstState /\ \A u \in Tunnels : inst[u] \in InstState
    BY <1>2, SoundLayers DEF IInv, EvState
  <1>6. ASSUME NEW b \in inst[t].bufs, b.fd \in F
        PROVE  b.ref = -1
    <2>1. Waiting(inst[t], b.fd)
      BY <1>1, <1>6 DEF HInv, Delivering
    <2>2. PICK c \in inst[t].bufs : c.fd = b.fd /\ c.ref = -1
      BY <2>1 DEF Waiting
    <2>3. c = b
      BY <1>2, <2>2 DEF SInv, Leasing, Ledger, Distinct
    <2> QED
      BY <2>2, <2>3
  <1>7. F \subseteq Held(M) /\ Held(L) \subseteq Held(M)
    <2>1. M = [L EXCEPT !.queue = L.queue \o ev.items]
      OBVIOUS
    <2> HIDE DEF L, M, F
    <2>2. \A q \in Seq(Item) : \A N : N = [L EXCEPT !.queue = L.queue \o q]
             => FdsOf(q) \subseteq Held(N) /\ Held(L) \subseteq Held(N)
      BY <1>5, QueuedHeld
    <2>3. FdsOf(ev.items) \subseteq Held(M) /\ Held(L) \subseteq Held(M)
      BY <1>5, <2>1, <2>2
    <2> QED
      BY <2>3 DEF F
  <1>8. i.bufs = k /\ i.consumers = inst[t].consumers /\ i.live = inst[t].live
    BY <1>5 DEF InstState
  <1>9. /\ M.life = L.life /\ M.refreshed = L.refreshed /\ M.update = L.update
        /\ M.vt = L.vt /\ M.tunnel = L.tunnel /\ M.listener = L.listener
        /\ M.pre = L.pre /\ M.cur = L.cur /\ M.ts = L.ts /\ M.now = L.now
        /\ M.game = L.game /\ M.solid = L.solid /\ M.solidHandle = L.solidHandle
        /\ M.needRelease = L.needRelease /\ M.status = L.status
        /\ M.curFence = L.curFence /\ M.prevFence = L.prevFence
    BY <1>5 DEF Good, LayerState
  <1>10. /\ new[l] = M /\ \A m \in Layers \ {l} : new[m] = layer[m]
         /\ is[t] = i /\ \A u \in Tunnels \ {t} : is[u] = inst[u]
    BY <1>2 DEF IInv
  <1>11. \A u \in Tunnels : is[u].live = inst[u].live /\ is[u].consumers = inst[u].consumers
    BY <1>8, <1>10
  <1>12. ASSUME NEW c \in k
         PROVE  \E b \in inst[t].bufs :
                   /\ c.fd = b.fd /\ c.fences = b.fences
                   /\ IF b.fd \in F THEN c = [b EXCEPT !.ref = 1] /\ c.ref = 1
                                    ELSE c = b
    <2>1. PICK b \in inst[t].bufs :
            c = IF b.fd \in F
                THEN [b EXCEPT !.ref = IF @ = -1 /\ 1 = 1 THEN 1 ELSE @ + 1] ELSE b
      BY <1>12 DEF AddRef
    <2>2. b \in BufferItem
      BY <1>5 DEF InstState
    <2>3. CASE b.fd \in F
      <3>1. b.ref = -1
        BY <1>6, <2>3
      <3>2. c = [b EXCEPT !.ref = 1]
        BY <2>1, <2>3, <3>1
      <3>3. c.fd = b.fd /\ c.fences = b.fences /\ c.ref = 1
        BY <2>2, <3>2 DEF BufferItem
      <3> QED
        BY <2>3, <3>2, <3>3
    <2>4. CASE b.fd \notin F
      BY <2>1, <2>4
    <2> QED
      BY <2>3, <2>4
  <1>13. \A b \in inst[t].bufs : \E c \in k : c.fd = b.fd
    <2> TAKE b \in inst[t].bufs
    <2>1. b \in BufferItem
      BY <1>5 DEF InstState
    <2> DEFINE c == IF b.fd \in F
                    THEN [b EXCEPT !.ref = IF @ = -1 /\ 1 = 1 THEN 1 ELSE @ + 1] ELSE b
    <2>2. c \in k
      BY DEF AddRef
    <2>3. c.fd = b.fd
      BY <2>1 DEF BufferItem
    <2> QED
      BY <2>2, <2>3
  <1>14. /\ new \in [Layers -> GoodLayers] /\ is \in [Tunnels -> InstState]
    BY <1>3 DEF IInv
  <1> HIDE DEF M, i, new, is, L, k, F, e
  <1>15. Ready(M) <=> Ready(L)
    BY <1>9 DEF Ready, Due
  <1>16. BufferFd(M) = BufferFd(L) /\ (FbUpdated(M) <=> FbUpdated(L))
    BY <1>9, <1>15 DEF BufferFd, FbUpdated, Ready
  <1>17. \A m \in Layers : Tidy(new[m], disp[m])
    <2>1. Tidy(L, disp[l])
      BY <1>2, LayerTidy DEF L
    <2>2. Tidy(M, disp[l])
      BY <1>9, <1>15, <1>16, <2>1 DEF Tidy, Plain, Cycle, Alive
    <2> QED
      BY <1>10, <2>2, LayerTidy
  <1>18. Linked(new, is)
    <2>1. layer[l].listener = "live"
      BY <1>2 DEF SInv, Leasing, Linked
    <2>2. \A m \in Layers : new[m].listener = layer[m].listener
                            /\ new[m].tunnel = layer[m].tunnel
      BY <1>9, <1>10 DEF L
    <2> QED
      BY <1>10, <1>11, <2>1, <2>2 DEF SInv, Leasing, Linked
  <1>19. \A u \in Tunnels : \A c \in is[u].bufs : \E b \in inst[u].bufs :
            /\ c.fd = b.fd /\ c.fences = b.fences
            /\ IF u = t /\ b.fd \in F THEN c = [b EXCEPT !.ref = 1] /\ c.ref = 1
                                      ELSE c = b
    BY <1>8, <1>10, <1>12
  <1>20. Distinct(is)
    <2> SUFFICES ASSUME NEW u \in Tunnels, NEW v \in Tunnels,
                        NEW c \in is[u].bufs, NEW d \in is[v].bufs, c.fd = d.fd
                 PROVE  u = v /\ c = d
      BY DEF Distinct
    <2>1. PICK b \in inst[u].bufs :
            /\ c.fd = b.fd
            /\ IF u = t /\ b.fd \in F THEN c = [b EXCEPT !.ref = 1] ELSE c = b
      BY <1>19
    <2>2. PICK a \in inst[v].bufs :
            /\ d.fd = a.fd
            /\ IF v = t /\ a.fd \in F THEN d = [a EXCEPT !.ref = 1] ELSE d = a
      BY <1>19
    <2>3. u = v /\ a = b
      BY <2>1, <2>2 DEF SInv, Leasing, Ledger, Distinct
    <2> QED
      BY <2>1, <2>2, <2>3
  <1>21. Accounted(new, is, e)
    <2> SUFFICES ASSUME NEW u \in Tunnels, NEW c \in is[u].bufs
                 PROVE  c.fences = {} /\ c.ref = 1 /\ Owner(new, is, u, c.fd)
      BY DEF Accounted
    <2>1. PICK b \in inst[u].bufs :
            /\ c.fd = b.fd /\ c.fences = b.fences
            /\ IF u = t /\ b.fd \in F THEN c.ref = 1 ELSE c = b
      BY <1>19
    <2>2. /\ b.fences = {}
          /\ \/ b.ref = 1 /\ Owner(layer, inst, u, b.fd)
             \/ u = t /\ b.fd \in F
      BY DEF SInv, Leasing, Ledger, Accounted, Pending, F
    <2>3. CASE u = t /\ b.fd \in F
      BY <1>2, <1>7, <1>10, <1>11, <2>1, <2>2, <2>3 DEF Owner
    <2>4. CASE ~(u = t /\ b.fd \in F)
      <3>1. PICK m \in inst[u].consumers : b.fd \in Held(layer[m])
        BY <2>2, <2>4 DEF Owner
      <3>2. m \in Layers
        BY <1>5 DEF InstState
      <3>3. b.fd \in Held(new[m])
        BY <1>7, <1>10, <3>1, <3>2 DEF L
      <3> QED
        BY <1>11, <2>1, <2>2, <2>4, <3>1, <3>3 DEF Owner
    <2> QED
      BY <2>3, <2>4
  <1>22. Lively(is)
    <2> SUFFICES ASSUME NEW u \in Tunnels
                 PROVE  IF is[u].live THEN is[u].consumers # {} ELSE is[u] = NoInst
      BY DEF Lively
    <2>1. IF inst[u].live THEN inst[u].consumers # {} ELSE inst[u] = NoInst
      BY DEF SInv, Leasing, Ledger, Lively
    <2>2. NoInst.consumers = {}
      BY DEF NoInst, NewInst
    <2> QED
      BY <1>2, <1>10, <1>11, <2>1, <2>2
  <1>23. Scanning(is, e)
    <2>1. \A u \in ev.left : u \in Tunnels /\ inst[u].live
      BY <1>1 DEF SInv, Leasing, Scanning, IInv, EvState
    <2> QED
      BY <1>4, <1>11, <2>1 DEF Scanning
  <1>24. Out(is) = Out(inst)
    <2>1. \A f \in Out(is) : f \in Out(inst)
      BY <1>19 DEF Out
    <2>2. \A f \in Out(inst) : f \in Out(is)
      BY <1>8, <1>10, <1>13 DEF Out
    <2> QED
      BY <2>1, <2>2
  <1>25. Screens(new, is, disp, screen)
    <2>1. \A f : Shows(L, disp[l], f) => Shows(M, disp[l], f)
      BY <1>9, <1>15 DEF Shows
    <2> QED
      BY <1>10, <1>24, <2>1 DEF SInv, Leasing, Screens, L
  <1>26. Leasing(new, is, e, disp, screen)
    BY <1>17, <1>18, <1>20, <1>21, <1>22, <1>23, <1>25 DEF Leasing, Ledger
  <1>27. GivesBack(inst, is, screen, screen, {})
    BY <1>24, NoneGivenBack DEF Dims
  <1> QED
    BY <1>1, <1>3, <1>26, <1>27 DEF SInv, Given

\* A consumer takes every batch, so none is erased and no instance left over.
LEMMA NeverRefuses ==
  ASSUME IInv, HInv, SInv
  PROVE  ~RefuseFrames /\ ~PollVtEvents
  <1>1. ~PollVtEvents
    BY NothingUnused DEF PollVtEvents
  <1>2. ASSUME NEW l \in ev.todo, ev.pc = "deliver"
        PROVE  Accepts(layer[l])
    <2>1. l \in Layers /\ ev.at \in Tunnels /\ l \in inst[ev.at].consumers
      BY <1>2, OneConsumer
    <2>2. layer[l].listener = "live" /\ layer[l].tunnel # NoTunnel
      BY <2>1 DEF SInv, Leasing, Linked
    <2> QED
      BY <2>1, <2>2, LayerTidy DEF Tidy, Plain, Accepts
  <1> QED
    BY <1>1, <1>2 DEF RefuseFrames

LEMMA EventLease ==
  ASSUME IInv, IInv', HInv, SInv, Ops \subseteq SteadyOps, EventStep
  PROVE  SInv' /\ (Given \/ Taken)
  <1>1. CASE HandleBuffers
    BY <1>1, HandleBuffersLease
  <1>2. CASE \E t \in Tunnels : AcquireBuffer(t)
    BY <1>2, AcquireBufferLease
  <1>3. CASE DeliverFrames
    BY <1>3, DeliverFramesLease
  <1>4. CASE \E t \in Tunnels, c \in Cmds : HandleCmds(t, c)
    BY <1>4, HandleCmdsLease
  <1>5. ~RefuseFrames /\ ~PollVtEvents
    BY NeverRefuses
  <1>6. \A t \in Tunnels : ~AcquireBufferFails(t)
    BY DEF AcquireBufferFails, SteadyOps
  <1> QED
    BY <1>1, <1>2, <1>3, <1>4, <1>5, <1>6 DEF EventStep

LEMMA DisplayLease ==
  ASSUME IInv, IInv', HInv, SInv, Ops \subseteq SteadyOps, NEW l \in Layers,
         DisplayStep(l)
  PROVE  SInv' /\ (Given \/ Posted)
  <1>1. "skip" \notin Ops
    BY DEF SteadyOps
  <1> QED
    BY <1>1, SetPresentTimeLease, UpdateVtBufferLease, SkipPresentLease,
       PresentVtLease, PostFrameLease, ReleaseVtBufferLease DEF DisplayStep

----------------------------------------------------------------------------
(* The steps of SurfaceFlinger's threads *)

\* Layer l leaves its tunnel, and the instance it was the consumer of is gone.
Dropped(l) == [u \in Tunnels |-> IF l \in inst[u].consumers THEN NoInst ELSE inst[u]]

LEMMA AloneThere ==
  ASSUME HInv, NEW l \in Layers, NEW t \in Tunnels, l \in inst[t].consumers
  PROVE  \A m \in Layers : m \in inst[t].consumers \/ layer[m].tunnel = t => m = l
  BY DEF HInv, Safe, Alone, Attached

\* Outside a delivery all that a layer's instance has is held by the layer.
LEMMA HasAll ==
  ASSUME IInv, HInv, SInv, MutexFree, NEW l \in Layers, NEW t \in Tunnels,
         NEW b \in inst[t].bufs
  PROVE  /\ l \in inst[t].consumers => b.fd \in Held(layer[l])
         /\ \E m \in inst[t].consumers : m \in Layers /\ b.fd \in Held(layer[m])
  <1>1. inst[t] \in InstState
    BY DEF IInv
  <1>2. Owner(layer, inst, t, b.fd)
    BY DEF SInv, Leasing, Ledger, Accounted, Pending, MutexFree
  <1>3. PICK m \in inst[t].consumers : b.fd \in Held(layer[m])
    BY <1>2 DEF Owner
  <1>4. m \in Layers
    BY <1>1 DEF InstState
  <1>5. l \in inst[t].consumers => m = l
    BY <1>3, <1>4, AloneThere
  <1> QED
    BY <1>3, <1>4, <1>5

\* Where the layer goes, if it goes anywhere: to an instance of its own.
Moves(l, N, is) ==
  /\ \A u \in Tunnels :
        is[u] = IF N.listener = "live" /\ N.tunnel = u
                THEN [NewInst EXCEPT !.consumers = {l}]
                ELSE Dropped(l)[u]
  /\ N.listener = "live" => N.tunnel \in Tunnels /\ inst[N.tunnel].consumers \subseteq {l}

LEMMA MovesFacts ==
  ASSUME IInv, HInv, SInv, MutexFree, NEW l \in Layers, NEW N, NEW is, Moves(l, N, is),
         NEW u \in Tunnels
  PROVE  /\ is[u].bufs = {} \/ (is[u] = inst[u] /\ l \notin inst[u].consumers)
         /\ \A m \in Layers \ {l} : m \in is[u].consumers <=> m \in inst[u].consumers
         /\ l \in is[u].consumers <=> N.listener = "live" /\ N.tunnel = u
         /\ IF is[u].live THEN is[u].consumers # {} ELSE is[u] = NoInst
         /\ \A m \in Layers \ {l} : m \in inst[u].consumers => is[u] = inst[u]
  <1>1. /\ [NewInst EXCEPT !.consumers = {l}].consumers = {l}
        /\ [NewInst EXCEPT !.consumers = {l}].bufs = {}
        /\ [NewInst EXCEPT !.consumers = {l}].live
        /\ NoInst.consumers = {} /\ NoInst.bufs = {} /\ ~NoInst.live
    BY DEF NewInst, NoInst
  <1>2. IF inst[u].live THEN inst[u].consumers # {} ELSE inst[u] = NoInst
    BY DEF SInv, Leasing, Ledger, Lively
  <1>3. l \in inst[u].consumers => \A m \in Layers \ {l} : m \notin inst[u].consumers
    BY AloneThere
  <1>4. CASE N.listener = "live" /\ N.tunnel = u
    <2>1. is[u] = [NewInst EXCEPT !.consumers = {l}] /\ inst[u].consumers \subseteq {l}
      BY <1>4 DEF Moves
    <2> QED
      BY <1>1, <1>4, <2>1
  <1>5. CASE ~(N.listener = "live" /\ N.tunnel = u)
    <2>1. is[u] = IF l \in inst[u].consumers THEN NoInst ELSE inst[u]
      BY <1>5 DEF Moves, Dropped
    <2>2. CASE l \in inst[u].consumers
      BY <1>1, <1>3, <1>5, <2>1, <2>2
    <2>3. CASE l \notin inst[u].consumers
      BY <1>2, <1>5, <2>1, <2>3
    <2> QED
      BY <2>2, <2>3
  <1> QED
    BY <1>4, <1>5

LEMMA LeftLeasing ==
  ASSUME IInv, HInv, SInv, MutexFree, NEW l \in Layers,
         NEW N, Empty(N), Tidy(N, disp[l]), NEW ls, ls = [layer EXCEPT ![l] = N],
         NEW is, Moves(l, N, is)
  PROVE  /\ Leasing(ls, is, ev, disp, screen)
         /\ Out(is) = Out(inst) \ Held(layer[l])
  <1>1. ls[l] = N /\ \A m \in Layers \ {l} : ls[m] = layer[m]
    BY DEF IInv
  <1>2. \A m \in Layers : Tidy(ls[m], disp[m])
    BY <1>1, LayerTidy
  <1>3. Linked(ls, is)
    <2>1. ASSUME NEW m \in Layers
          PROVE  IF ls[m].listener = "live"
                 THEN /\ ls[m].tunnel # NoTunnel
                      /\ \A t \in Tunnels : m \in is[t].consumers <=> t = ls[m].tunnel
                 ELSE /\ Empty(ls[m])
                      /\ \A t \in Tunnels : m \notin is[t].consumers
      <3>1. CASE m = l
        <4>1. \A t \in Tunnels : l \in is[t].consumers
                                  <=> N.listener = "live" /\ N.tunnel = t
          BY MovesFacts
        <4>2. N.listener = "live" => N.tunnel # NoTunnel
          BY IdAssumption DEF Moves
        <4> QED
          BY <1>1, <3>1, <4>1, <4>2
      <3>2. CASE m # l
        <4>1. \A t \in Tunnels : m \in is[t].consumers <=> m \in inst[t].consumers
          BY <3>2, MovesFacts
        <4>2. ls[m] = layer[m]
          BY <1>1, <3>2
        <4> QED
          BY <4>1, <4>2 DEF SInv, Leasing, Linked
      <3> QED
        BY <3>1, <3>2
    <2> QED
      BY <2>1 DEF Linked
  <1>4. \A u \in Tunnels : \A b \in is[u].bufs :
           b \in inst[u].bufs /\ l \notin inst[u].consumers
    BY MovesFacts
  <1>5. Distinct(is)
    BY <1>4 DEF SInv, Leasing, Ledger, Distinct
  <1>6. Accounted(ls, is, ev)
    <2> SUFFICES ASSUME NEW u \in Tunnels, NEW b \in is[u].bufs
                 PROVE  b.fences = {} /\ b.ref = 1 /\ Owner(ls, is, u, b.fd)
      BY DEF Accounted
    <2>1. b \in inst[u].bufs /\ l \notin inst[u].consumers
      BY <1>4
    <2>2. b.fences = {} /\ b.ref = 1
      BY <2>1 DEF SInv, Leasing, Ledger, Accounted, Pending, MutexFree
    <2>3. PICK m \in inst[u].consumers : m \in Layers /\ b.fd \in Held(layer[m])
      BY <2>1, HasAll
    <2>4. m # l
      BY <2>1
    <2>5. m \in is[u].consumers /\ ls[m] = layer[m]
      BY <1>1, <2>3, <2>4, MovesFacts
    <2> QED
      BY <2>2, <2>3, <2>5 DEF Owner
  <1>7. Lively(is)
    BY MovesFacts DEF Lively
  <1>8. Scanning(is, ev)
    BY DEF Scanning, MutexFree
  <1>9. ASSUME NEW f \in Held(layer[l])
        PROVE  f \notin Out(is)
    <2> SUFFICES ASSUME NEW u \in Tunnels, NEW b \in is[u].bufs, b.fd = f
                 PROVE  FALSE
      BY DEF Out
    <2>1. Owned(l, f)
      BY HeldOwned
    <2>2. b \in inst[u].bufs /\ l \notin inst[u].consumers
      BY <1>4
    <2> QED
      BY <2>1, <2>2 DEF Owned
  <1>10. Out(is) \subseteq Out(inst)
    BY <1>4 DEF Out
  <1>11. ASSUME NEW f \in Out(inst), f \notin Held(layer[l])
         PROVE  f \in Out(is)
    <2>1. PICK u \in Tunnels : \E b \in inst[u].bufs : b.fd = f
      BY DEF Out
    <2>2. PICK b \in inst[u].bufs : b.fd = f
      BY <2>1
    <2>3. PICK m \in inst[u].consumers : m \in Layers /\ b.fd \in Held(layer[m])
      BY HasAll
    <2>4. m # l
      BY <1>11, <2>2, <2>3
    <2>5. is[u] = inst[u]
      BY <2>3, <2>4, MovesFacts
    <2> QED
      BY <2>2, <2>5 DEF Out
  <1>12. Screens(ls, is, disp, screen)
    <2> SUFFICES ASSUME NEW m \in Layers, screen[m] \in Out(is)
                 PROVE  Shows(ls[m], disp[m], screen[m])
      BY DEF Screens
    <2>1. screen[m] \in Out(inst) /\ screen[m] # NoFd
      BY <1>10, OutFacts DEF IInv
    <2>2. Shows(layer[m], disp[m], screen[m])
      BY <2>1 DEF SInv, Leasing, Screens
    <2>3. screen[m] \in Held(layer[m])
      BY <2>1, <2>2, LayerTidy, TidyFacts
    <2>4. m # l
      BY <1>9, <2>3
    <2> QED
      BY <1>1, <2>2, <2>4
  <1>13. Out(is) = Out(inst) \ Held(layer[l])
    BY <1>9, <1>10, <1>11
  <1> QED
    BY <1>2, <1>3, <1>5, <1>6, <1>7, <1>8, <1>12, <1>13 DEF Leasing, Ledger

\* The layer after Disconnected.
Left(L) == IF ~ReleaseApplies(L) THEN L
           ELSE IF L.tunnel = NoTunnel THEN ReleaseHeld(L, FALSE)
           ELSE Unregistered(ReleaseHeld(L, FALSE))

LEMMA LeftEmptied ==
  ASSUME NEW L, Good(L), Sound(L), NEW d, Tidy(L, d),
         L.listener = "live" => L.tunnel # NoTunnel,
         NEW N, N = Left(L)
  PROVE  /\ Emptied(L, N) /\ N.tunnel = NoTunnel /\ N.listener # "live"
         /\ N.vt = L.vt /\ N.life = L.life /\ N \in LayerState
  <1> DEFINE H == ReleaseHeld(L, FALSE)
  <1>0. L.status # "hold"
    BY DEF Tidy, Plain
  <1>1. /\ Emptied(L, H) /\ H.listener = L.listener /\ H.tunnel = L.tunnel
        /\ H.vt = L.vt /\ H.life = L.life
    BY <1>0, ReleaseHeldEmptied
  <1>2. H \in LayerState
    BY ReleaseHeldGood DEF Good
  <1> HIDE DEF H
  <1>3. CASE ~ReleaseApplies(L)
    <2>1. N = L
      BY <1>3 DEF Left
    <2>2. L.tunnel = NoTunnel
      BY <1>3 DEF ReleaseApplies, Good, TunedOK, Tidy, Plain
    <2>3. Empty(L)
      BY <2>2, UntunedEmpty
    <2>4. ~L.update /\ ~L.needRelease
      BY <2>3 DEF Tidy, Plain, Empty
    <2> QED
      BY <1>0, <2>1, <2>2, <2>3, <2>4 DEF Emptied, Good
  <1>4. CASE ReleaseApplies(L) /\ L.tunnel = NoTunnel
    <2>1. N = H
      BY <1>4 DEF Left, H
    <2> QED
      BY <1>1, <1>2, <1>4, <2>1
  <1>5. CASE ReleaseApplies(L) /\ L.tunnel # NoTunnel
    <2>1. N = Unregistered(H)
      BY <1>5 DEF Left, H
    <2>2. /\ N.queue = H.queue /\ N.cur = H.cur /\ N.pre = H.pre
          /\ N.update = H.update /\ N.needRelease = H.needRelease
          /\ N.solid = H.solid /\ N.solidHandle = H.solidHandle /\ N.game = H.game
          /\ N.status = H.status /\ N.refreshed = H.refreshed
          /\ N.vt = H.vt /\ N.life = H.life
          /\ N.tunnel = NoTunnel /\ N.listener = "none"
      BY <1>2, <2>1 DEF Unregistered, LayerState
    <2>3. N \in LayerState
      BY <1>2, <2>1 DEF Unregistered, LayerState
    <2> QED
      BY <1>1, <2>2, <2>3 DEF Emptied, Empty
  <1> QED
    BY <1>3, <1>4, <1>5

\* A layer that is registered is the only consumer of its instance, and what it
\* does not hold is not there.
LEMMA OwnInstance ==
  ASSUME IInv, HInv, SInv, MutexFree, NEW l \in Layers, NEW t \in Tunnels,
         l \in inst[t].consumers
  PROVE  /\ inst[t].consumers = {l} /\ inst[t].live
         /\ \A b \in inst[t].bufs : b.fd \in Held(layer[l])
         /\ layer[l].listener = "live" /\ layer[l].tunnel = t
  <1>1. inst[t].consumers \in SUBSET Layers
    BY DEF IInv, InstState
  <1>2. inst[t].consumers = {l}
    BY <1>1, AloneThere
  <1>3. NoInst.consumers = {}
    BY DEF NoInst, NewInst
  <1>4. inst[t].live
    BY <1>3 DEF SInv, Leasing, Ledger, Lively
  <1>5. layer[l].listener = "live" /\ layer[l].tunnel = t
    BY DEF SInv, Leasing, Linked
  <1> QED
    BY <1>2, <1>4, <1>5, HasAll

\* The instance a registered layer leaves is empty and destroyed.
LEMMA LeavesInstance ==
  ASSUME IInv, HInv, SInv, MutexFree, NEW l \in Layers, NEW t \in Tunnels,
         l \in inst[t].consumers,
         NEW is \in [Tunnels -> InstState], Loses(inst, is, Held(layer[l])),
         NEW left, left = [is EXCEPT ![t].consumers = @ \ {l}]
  PROVE  /\ ClearUp(left) = Dropped(l) /\ ClearUpFreed(left) = {}
         /\ Unused(left) = {t}
  <1> DEFINE c == is[t].consumers \ {l}
             i == [is[t] EXCEPT !.consumers = c]
  <1>1. /\ inst[t].consumers = {l} /\ inst[t].live
        /\ \A b \in inst[t].bufs : b.fd \in Held(layer[l])
    BY OwnInstance
  <1>2. /\ is[t].consumers = {l} /\ is[t].live /\ is[t].bufs = {}
        /\ is[t] \in InstState
    BY <1>1 DEF Loses
  <1>3. left = [is EXCEPT ![t] = i]
    OBVIOUS
  <1>4. i.consumers = {} /\ i.live /\ i.bufs = {}
    BY <1>2 DEF InstState
  <1> HIDE DEF i
  <1>5. left[t] = i /\ \A u \in Tunnels \ {t} : left[u] = is[u]
    BY <1>3
  <1>6. ASSUME NEW u \in Tunnels \ {t}
        PROVE  /\ l \notin inst[u].consumers /\ u \notin Unused(left)
               /\ left[u] = inst[u]
    <2>1. l \notin inst[u].consumers
      BY OwnInstance
    <2>2. inst[u] \in InstState /\ is[u] \in InstState
      BY DEF IInv
    <2>3. /\ is[u].live = inst[u].live /\ is[u].consumers = inst[u].consumers
          /\ is[u].bufs = {b \in inst[u].bufs : b.fd \notin Held(layer[l])}
      BY DEF Loses
    <2>4. ASSUME NEW b \in inst[u].bufs
          PROVE  b.fd \notin Held(layer[l])
      <3>1. ASSUME b.fd \in Held(layer[l])
            PROVE  FALSE
        <4>1. Owned(l, b.fd)
          BY <3>1, HeldOwned
        <4> QED
          BY <2>1, <4>1 DEF Owned
      <3> QED
        BY <3>1
    <2>5. is[u].bufs = inst[u].bufs
      BY <2>3, <2>4
    <2>6. left[u] = inst[u]
      BY <1>5, <2>2, <2>3, <2>5, InstEqual
    <2>7. inst[u].live => inst[u].consumers # {}
      BY DEF SInv, Leasing, Ledger, Lively
    <2> QED
      BY <2>1, <2>6, <2>7 DEF Unused
  <1>7. Unused(left) = {t}
    <2>1. t \in Unused(left)
      BY <1>4, <1>5 DEF Unused
    <2>2. \A u \in Tunnels \ {t} : u \notin Unused(left)
      BY <1>6
    <2>3. Unused(left) \subseteq Tunnels
      BY DEF Unused
    <2> QED
      BY <2>1, <2>2, <2>3
  <1>8. ClearUpFreed(left) = {}
    <2>1. \A u \in Unused(left) : left[u].bufs = {}
      BY <1>4, <1>5, <1>7
    <2>2. UNION {left[u].bufs : u \in Unused(left)} = {}
      <3> SUFFICES ASSUME NEW b \in UNION {left[u].bufs : u \in Unused(left)}
                   PROVE  FALSE
        OBVIOUS
      <3>1. PICK u \in Unused(left) : b \in left[u].bufs
        OBVIOUS
      <3> QED
        BY <2>1, <3>1
    <2> QED
      BY <2>2 DEF ClearUpFreed
  <1>9. ClearUp(left) = Dropped(l)
    <2>1. \A u \in Tunnels : (IF u \in Unused(left) THEN NoInst ELSE left[u])
                           = (IF l \in inst[u].consumers THEN NoInst ELSE inst[u])
      BY <1>6, <1>7
    <2> QED
      BY <2>1 DEF ClearUp, Dropped
  <1> QED
    BY <1>7, <1>8, <1>9

\* The other layers are as they were.
Elsewhere(l, ls) == \A m \in Layers \ {l} : ls[m] = layer[m]

\* No layer is registered with an instance that has no consumer left.
LEMMA NobodyLeft ==
  ASSUME IInv, HInv, NEW l \in Layers, NEW t \in Tunnels, l \in inst[t].consumers,
         NEW ls, ls = [m \in Layers |-> ls[m]], ls[l].listener # "live",
         Elsewhere(l, ls), NEW left, Unused(left) = {t}
  PROVE  ClearUpLayers(left, ls) = ls
  <1>1. \A m \in Layers \ {l} : layer[m].tunnel # t
    BY AloneThere
  <1>2. \A m \in Layers : ~(ls[m].tunnel \in Unused(left) /\ ls[m].listener = "live")
    BY <1>1 DEF Elsewhere
  <1>3. ClearUpLayers(left, ls) = [m \in Layers |-> ls[m]]
    BY <1>2 DEF ClearUpLayers
  <1> QED
    BY <1>3

LEMMA DisconnectedLeaves ==
  ASSUME IInv, HInv, SInv, MutexFree, NEW l \in Layers, NEW L, L \in GoodLayers,
         Same(layer[l], L), L.listener = layer[l].listener, Tidy(L, disp[l]),
         NEW s, s = Disconnected(l, L)
  PROVE  /\ s.layers = [layer EXCEPT ![l] = Left(L)]
         /\ s.insts = Dropped(l)
         /\ Returns(s.freed, Held(layer[l]), L, disp[l])
  <1> DEFINE rel    == ReleaseCalls(L, FALSE)
             after  == AfterCalls(L, rel)
             left   == [after.insts EXCEPT ![L.tunnel].consumers = @ \ {l}]
             H      == ReleaseHeld(L, FALSE)
             U      == Unregistered(H)
             layers == [layer EXCEPT ![l] = U]
             N      == Left(L)
  <1>1. /\ Good(L) /\ Good(layer[l]) /\ Sound(layer[l]) /\ inst \in [Tunnels -> InstState]
    BY GoodLayersDef, LayerTidy DEF IInv
  <1>2. Sound(L) /\ Held(L) = Held(layer[l]) /\ L.tunnel = layer[l].tunnel
    BY <1>1, SameKeeps DEF Same
  <1>3. L.listener = "live" => L.tunnel # NoTunnel
    BY <1>2 DEF SInv, Leasing, Linked
  <1>4. /\ N.listener # "live" /\ N.tunnel = NoTunnel
    BY <1>1, <1>2, <1>3, LeftEmptied
  <1>5. ASSUME L.listener # "live"
        PROVE  /\ Dropped(l) = inst /\ Held(layer[l]) = {}
               /\ after.insts = inst /\ after.freed = {}
    <2>1. Empty(layer[l]) /\ \A t \in Tunnels : l \notin inst[t].consumers
      BY <1>5 DEF SInv, Leasing, Linked
    <2>2. \A t \in Tunnels : (IF l \in inst[t].consumers THEN NoInst ELSE inst[t]) = inst[t]
      BY <2>1
    <2>3. Dropped(l) = [t \in Tunnels |-> inst[t]]
      BY <2>2 DEF Dropped
    <2>4. Dropped(l) = inst
      BY <1>1, <2>3
    <2>5. Held(layer[l]) = {}
      BY <2>1, EmptyFacts
    <2>6. after.insts = inst /\ after.freed = {}
      BY <1>5 DEF AfterCalls
    <2> QED
      BY <2>4, <2>5, <2>6
  <1>6. Returns({}, {}, L, disp[l])
    BY DEF Returns
  <1>7. CASE ~ReleaseApplies(L)
    <2>1. s = Unchanged(l, L) /\ N = L
      BY <1>7 DEF Disconnected, Left
    <2>2. s.layers = [layer EXCEPT ![l] = N] /\ s.insts = inst /\ s.freed = {}
      BY <2>1 DEF Unchanged
    <2> QED
      BY <1>4, <1>5, <1>6, <2>1, <2>2
  <1>8. CASE ReleaseApplies(L) /\ L.tunnel = NoTunnel
    <2>1. /\ s = [Unchanged(l, H) EXCEPT !.insts = after.insts, !.freed = after.freed]
          /\ N = H
      BY <1>8 DEF Disconnected, Left
    <2>2. /\ s.layers = [layer EXCEPT ![l] = N] /\ s.insts = after.insts
          /\ s.freed = after.freed
      BY <2>1 DEF Unchanged
    <2> QED
      BY <1>3, <1>5, <1>6, <1>8, <2>2
  <1>9. CASE ReleaseApplies(L) /\ L.tunnel # NoTunnel
    <2>1. /\ s.layers = ClearUpLayers(left, layers) /\ s.insts = ClearUp(left)
          /\ s.freed = after.freed \cup ClearUpFreed(left)
          /\ N = U
      BY <1>9 DEF Disconnected, Left
    <2>2. CASE L.listener = "live"
      <3> DEFINE t == L.tunnel
      <3>1. t \in Tunnels /\ l \in inst[t].consumers
        <4>1. t \in Tunnels
          BY <1>1, <1>9 DEF Good, LayerState
        <4> QED
          BY <1>2, <2>2, <4>1 DEF SInv, Leasing, Linked
      <3>2. rel \in Seq(Call) /\ Names(rel, Held(L))
        <4>1. Names(rel, Held(L) \ Held(H))
          BY <1>1, <1>2, ReleaseHeldShrinks DEF Shrinks
        <4>2. rel \in Seq(Call)
          BY <1>1, ReleaseCallsType DEF Good
        <4> QED
          BY <4>1, <4>2 DEF Names
      <3>3. \A f \in Held(L) : Has(rel, f, L, disp[l])
        BY <1>1, <1>2, ReleaseHeldHas
      <3> DEFINE is == after.insts
                 fr == after.freed
      <3>4. Answered(L, rel, is, fr) /\ is \in [Tunnels -> InstState]
        BY <1>1, <3>2, AfterCallsType DEF Answered, Good
      <3>5. left = [is EXCEPT ![t].consumers = @ \ {l}]
        OBVIOUS
      <3> HIDE DEF is, fr, rel, after, left, H, N, layers
      <3>6. Loses(inst, is, Held(L)) /\ Returns(fr, Held(L), L, disp[l])
        BY <1>1, <3>2, <3>3, <3>4, Gathered
      <3>7. /\ ClearUp(left) = Dropped(l) /\ ClearUpFreed(left) = {}
            /\ Unused(left) = {t}
        <4> HIDE DEF t
        <4> QED
          BY <1>2, <3>1, <3>4, <3>5, <3>6, LeavesInstance
      <3>8. ClearUpLayers(left, layers) = layers
        <4>1. U.listener # "live"
          BY <1>4, <2>1
        <4>2. layers[l] = U /\ layers = [m \in Layers |-> layers[m]]
          BY DEF layers, IInv
        <4>3. Elsewhere(l, layers)
          BY DEF layers, IInv, Elsewhere
        <4>4. layers[l].listener # "live"
          BY <4>1, <4>2
        <4> HIDE DEF t, U
        <4> QED
          BY <3>1, <3>7, <4>2, <4>3, <4>4, NobodyLeft
      <3>9. s.layers = [layer EXCEPT ![l] = N]
        <4>1. s.layers = [layer EXCEPT ![l] = U]
          BY <2>1, <3>8 DEF layers
        <4> HIDE DEF U
        <4> QED
          BY <2>1, <4>1
      <3>10. s.freed = fr
        BY <2>1, <3>7 DEF fr
      <3> QED
        BY <1>2, <2>1, <3>6, <3>7, <3>9, <3>10 DEF N
    <2>3. CASE L.listener # "live"
      <3>1. /\ Dropped(l) = inst /\ Held(layer[l]) = {}
            /\ after.insts = inst /\ after.freed = {}
        BY <1>5, <2>3
      <3>2. /\ \A u \in Tunnels : l \notin inst[u].consumers
        BY <2>3 DEF SInv, Leasing, Linked
      <3>3. left = inst
        <4>1. L.tunnel \in Tunnels
          BY <1>1, <1>9 DEF Good, LayerState
        <4> DEFINE c == inst[L.tunnel].consumers \ {l}
                   i == [inst[L.tunnel] EXCEPT !.consumers = c]
        <4>2. left = [inst EXCEPT ![L.tunnel] = i]
          BY <3>1
        <4>3. i = inst[L.tunnel]
          <5>1. c = inst[L.tunnel].consumers
            BY <3>2, <4>1
          <5>2. inst[L.tunnel] \in InstState
            BY <1>1, <4>1
          <5> HIDE DEF c
          <5> QED
            BY <5>1, <5>2 DEF InstState
        <4> HIDE DEF i, left
        <4> QED
          BY <1>1, <4>2, <4>3
      <3>4. Unused(inst) = {}
        BY NothingUnused
      <3> HIDE DEF left, layers, after, N
      <3>5. ClearUp(left) = inst /\ ClearUpFreed(left) = {}
        <4>1. ClearUp(left) = [u \in Tunnels |-> inst[u]]
          BY <3>3, <3>4 DEF ClearUp
        <4>2. ClearUpFreed(left) = {}
          BY <3>3, <3>4 DEF ClearUpFreed
        <4> QED
          BY <1>1, <4>1, <4>2
      <3>6. ClearUpLayers(left, layers) = layers
        <4>1. layers = [m \in Layers |-> layers[m]]
          BY DEF layers, IInv
        <4>2. ClearUpLayers(left, layers) = [m \in Layers |-> layers[m]]
          BY <3>3, <3>4 DEF ClearUpLayers
        <4> QED
          BY <4>1, <4>2
      <3>7. s.layers = [layer EXCEPT ![l] = N]
        <4>1. s.layers = [layer EXCEPT ![l] = U]
          BY <2>1, <3>6 DEF layers
        <4> HIDE DEF U
        <4> QED
          BY <2>1, <4>1
      <3>8. s.freed = {}
        BY <2>1, <3>1, <3>5
      <3> QED
        BY <1>6, <2>1, <3>1, <3>5, <3>7, <3>8 DEF N
    <2> QED
      BY <2>2, <2>3
  <1> QED
    BY <1>7, <1>8, <1>9

\* A layer gives back what it has and leaves its instance, or none.
LEMMA MovedStep ==
  ASSUME IInv, HInv, SInv, MutexFree, NEW l \in Layers,
         NEW N, Empty(N), Tidy(N, disp[l]), layer' = [layer EXCEPT ![l] = N],
         Moves(l, N, inst'), disp' = disp, ev' = ev, screen' = screen,
         NEW L, Returns(returned', Held(layer[l]), L, disp[l]),
         \A f : Shows(layer[l], disp[l], f) => Shows(L, disp[l], f)
  PROVE  SInv' /\ Given
  <1> DEFINE ls == layer'
             is == inst'
             fr == returned'
  <1>1. ls = [layer EXCEPT ![l] = N] /\ Moves(l, N, is)
        /\ Returns(fr, Held(layer[l]), L, disp[l])
    OBVIOUS
  <1> HIDE DEF ls, is, fr
  <1>2. Leasing(ls, is, ev, disp, screen) /\ Out(is) = Out(inst) \ Held(layer[l])
    BY <1>1, LeftLeasing
  <1>3. KeepsShowing(l, Held(layer[l]), L, disp[l]) /\ Dims(screen)
    BY DEF KeepsShowing, Dims
  <1>4. GivesBack(inst, is, screen, screen, fr)
    BY <1>1, <1>2, <1>3, HeldGivenBack
  <1> QED
    BY <1>2, <1>4 DEF SInv, Given, ls, is, fr

\* A layer that is not made yet has nothing.
LEMMA CreateLayerLease ==
  ASSUME IInv, HInv, SInv, NEW l \in Layers, CreateLayer(l)
  PROVE  SInv' /\ Given
  <1> DEFINE ls == [layer EXCEPT ![l] = NewLayer]
             d  == disp[l]
  <1>1. /\ layer[l].life = "none" /\ layer' = ls /\ returned' = {}
        /\ inst' = inst /\ ev' = ev /\ disp' = disp /\ screen' = screen
    BY DEF CreateLayer
  <1>2. Good(layer[l]) /\ Sound(layer[l]) /\ Tidy(layer[l], d)
    BY LayerTidy
  <1>3. layer[l].tunnel = NoTunnel
    BY <1>1, <1>2 DEF Tidy, Plain
  <1>4. Empty(layer[l]) /\ Held(layer[l]) = {}
    BY <1>2, <1>3, UntunedEmpty, EmptyFacts
  <1>5. d.pc = "wait" /\ d.fd = NoFd
    BY <1>1, <1>2 DEF Tidy, Cycle, Alive
  <1>6. \A t \in Tunnels : l \notin inst[t].consumers
    BY <1>3, IdAssumption DEF SInv, Leasing, Linked
  <1>7. /\ NewLayer.life = "live" /\ NewLayer.tunnel = NoTunnel /\ Empty(NewLayer)
        /\ NewLayer.listener = "none"
        /\ Plain(NewLayer) /\ ~NewLayer.update
    BY DEF NewLayer, Empty, Plain
  <1>8. Tidy(NewLayer, d)
    BY <1>5, <1>7 DEF Tidy, Cycle, Alive, Empty
  <1>9. ls[l] = NewLayer /\ \A m \in Layers \ {l} : ls[m] = layer[m]
    BY DEF IInv
  <1> HIDE DEF ls
  <1>10. \A m \in Layers : Tidy(ls[m], disp[m])
    BY <1>8, <1>9, LayerTidy
  <1>11. Linked(ls, inst)
    <2> SUFFICES ASSUME NEW m \in Layers
                 PROVE  IF ls[m].listener = "live"
                        THEN /\ ls[m].tunnel # NoTunnel
                             /\ \A t \in Tunnels : m \in inst[t].consumers
                                                     <=> t = ls[m].tunnel
                        ELSE /\ Empty(ls[m])
                             /\ \A t \in Tunnels : m \notin inst[t].consumers
      BY DEF Linked
    <2>1. CASE m = l
      BY <1>6, <1>7, <1>9, <2>1
    <2>2. CASE m # l
      BY <1>9, <2>2 DEF SInv, Leasing, Linked
    <2> QED
      BY <2>1, <2>2
  <1>12. Accounted(ls, inst, ev)
    <2> SUFFICES ASSUME NEW t \in Tunnels, NEW b \in inst[t].bufs,
                        Owner(layer, inst, t, b.fd)
                 PROVE  Owner(ls, inst, t, b.fd)
      BY DEF SInv, Leasing, Ledger, Accounted
    <2>1. PICK m \in inst[t].consumers : b.fd \in Held(layer[m])
      BY DEF Owner
    <2>2. m \in Layers \ {l}
      BY <1>6, <2>1 DEF IInv, InstState
    <2> QED
      BY <1>9, <2>1, <2>2 DEF Owner
  <1>13. Screens(ls, inst, disp, screen)
    <2> SUFFICES ASSUME NEW m \in Layers, screen[m] \in Out(inst)
                 PROVE  Shows(ls[m], disp[m], screen[m])
      BY DEF Screens
    <2>1. Shows(layer[m], disp[m], screen[m]) /\ screen[m] # NoFd
      BY OutFacts DEF SInv, Leasing, Screens, IInv
    <2>2. m # l
      BY <1>2, <1>4, <2>1, TidyFacts
    <2> QED
      BY <1>9, <2>1, <2>2
  <1>14. Leasing(ls, inst, ev, disp, screen)
    BY <1>10, <1>11, <1>12, <1>13 DEF SInv, Leasing, Ledger
  <1>15. GivesBack(inst, inst, screen, screen, {})
    BY NoneGivenBack DEF Dims
  <1> QED
    BY <1>1, <1>14, <1>15 DEF SInv, Given

LEMMA SameSidebandStreamLease ==
  ASSUME IInv, IInv', HInv, SInv, NEW l \in Layers, SameSidebandStream(l)
  PROVE  SInv' /\ Given
  <1> DEFINE L == layer[l]
             d == disp[l]
             M == [ClearBufferInfo(L) EXCEPT !.vt = TRUE]
  <1>1. /\ layer' = [layer EXCEPT ![l] = M] /\ returned' = {}
        /\ inst' = inst /\ ev' = ev /\ disp' = disp /\ screen' = screen
    BY DEF SameSidebandStream
  <1>2. Good(L) /\ Sound(L) /\ Tidy(L, d) /\ disp' = [disp EXCEPT ![l] = d]
    BY <1>1, LayerTidy DEF IInv
  <1>3. Same(L, M)
    BY <1>2, ClearBufferInfoSame
  <1>4. /\ Tidy(M, d) /\ M.listener = L.listener
        /\ \A f : Shows(L, d, f) <=> Shows(M, d, f)
    <2> HIDE DEF L, d
    <2> QED
      BY <1>2, StreamTidy
  <1> HIDE DEF M
  <1> QED
    BY <1>1, <1>2, <1>3, <1>4, OneQuietStep

LEMMA VtRefreshLease ==
  ASSUME IInv, IInv', HInv, SInv, NEW l \in Layers, VtRefresh(l)
  PROVE  SInv' /\ Given
  <1> DEFINE L == layer[l]
             d == disp[l]
             M == [L EXCEPT !.refreshed = TRUE]
  <1>1. /\ layer' = [layer EXCEPT ![l] = M] /\ returned' = {}
        /\ inst' = inst /\ ev' = ev /\ disp' = disp /\ screen' = screen
    BY DEF VtRefresh
  <1>2. Good(L) /\ Sound(L) /\ Tidy(L, d) /\ disp' = [disp EXCEPT ![l] = d]
    BY <1>1, LayerTidy DEF IInv
  <1>3. Same(L, M)
    BY <1>2, FieldSame
  <1>4. Tidy(M, d)
    BY <1>2, TidyFields
  <1>5. /\ M.listener = L.listener /\ M.pre = L.pre /\ M.cur = L.cur /\ M.ts = L.ts
        /\ M.now = L.now /\ M.game = L.game /\ M.update = L.update
    BY <1>2 DEF Good, LayerState
  <1> HIDE DEF M
  <1>6. \A f : Shows(L, d, f) => Shows(M, d, f)
    BY <1>5 DEF Shows, Ready, Due
  <1> QED
    BY <1>1, <1>2, <1>3, <1>4, <1>5, <1>6, OneQuietStep

\* Where the display thread is with a layer that may be emptied.
LEMMA NothingChosen ==
  ASSUME IInv, HInv, SInv, NEW l \in Layers, layer[l].tunnel = NoTunnel
  PROVE  disp[l].fd = NoFd /\ Held(layer[l]) = {}
  <1>1. Good(layer[l]) /\ Sound(layer[l]) /\ Tidy(layer[l], disp[l])
    BY LayerTidy
  <1>2. Held(layer[l]) = {}
    BY <1>1, UntunedEmpty, EmptyFacts
  <1> QED
    BY <1>1, <1>2, TidyFacts

LEMMA DestroyLayerLease ==
  ASSUME IInv, IInv', HInv, SInv, NEW l \in Layers, DestroyLayer(l)
  PROVE  SInv' /\ Given
  <1> DEFINE L  == layer[l]
             d  == disp[l]
             s0 == Disconnected(l, L)
             K  == Left(L)
             N  == [K EXCEPT !.life = "dying"]
             s  == IF L.vt THEN s0 ELSE Unchanged(l, L)
             r  == [s EXCEPT !.layers[l].life = "dying"]
  <1>1. /\ L.life = "live" /\ d.pc # "post" /\ MutexFree /\ Becomes(r)
        /\ ev' = ev /\ disp' = disp /\ screen' = screen
    BY DEF DestroyLayer
  <1>2. Good(L) /\ Sound(L) /\ Tidy(L, d) /\ L \in GoodLayers
    BY LayerTidy, GoodLayersDef
  <1>3. L.listener = "live" => L.tunnel # NoTunnel
    BY DEF SInv, Leasing, Linked
  <1>4. s = s0
    <2>1. CASE L.vt
      BY <2>1
    <2>2. CASE ~L.vt
      <3>1. ~ReleaseApplies(L)
        BY <1>2, <2>2 DEF ReleaseApplies, Tidy, Plain
      <3> QED
        BY <2>2, <3>1 DEF Disconnected
    <2> QED
      BY <2>1, <2>2
  <1>5. Same(L, L)
    BY <1>2, FieldSame
  <1>6. /\ s0.layers = [layer EXCEPT ![l] = K] /\ s0.insts = Dropped(l)
        /\ Returns(s0.freed, Held(L), L, d)
    <2> HIDE DEF s0, K
    <2> QED
      BY <1>1, <1>2, <1>5, DisconnectedLeaves DEF s0, K
  <1>7. /\ Emptied(L, K) /\ K.tunnel = NoTunnel /\ K.listener # "live"
        /\ K \in LayerState
    <2> HIDE DEF L, K, d
    <2> QED
      BY <1>2, <1>3, LeftEmptied DEF K
  <1>8. s0 \in Outcome
    BY <1>2, DisconnectedType
  <1> HIDE DEF K, s0
  <1>9. /\ N.queue = K.queue /\ N.cur = K.cur /\ N.pre = K.pre
        /\ N.update = K.update /\ N.needRelease = K.needRelease
        /\ N.solid = K.solid /\ N.solidHandle = K.solidHandle /\ N.game = K.game
        /\ N.status = K.status /\ N.refreshed = K.refreshed
        /\ N.life = "dying" /\ N.tunnel = NoTunnel /\ N.listener # "live"
    BY <1>7 DEF LayerState
  <1>10. Emptied(L, N) /\ Empty(N)
    BY <1>7, <1>9 DEF Emptied, Empty
  <1>11. d.fd = NoFd
    BY <1>1, <1>2 DEF Tidy, Cycle
  <1>12. Tidy(N, d)
    <2> HIDE DEF N, L
    <2> QED
      BY <1>2, <1>9, <1>10, <1>11, EmptiedTidy DEF Alive
  <1>13. /\ layer' = [layer EXCEPT ![l] = N] /\ inst' = Dropped(l)
         /\ returned' = s0.freed
    <2>1. r = [s0 EXCEPT !.layers[l].life = "dying"]
      BY <1>4
    <2>2. /\ r.layers = [s0.layers EXCEPT ![l].life = "dying"]
          /\ r.insts = s0.insts /\ r.freed = s0.freed
      BY <1>8, <2>1 DEF Outcome
    <2>3. s0.layers[l] = K
      BY <1>6 DEF IInv
    <2>4. r.layers = [layer EXCEPT ![l] = N]
      BY <1>6, <2>2, <2>3
    <2> HIDE DEF r
    <2> QED
      BY <1>1, <1>6, <2>2, <2>4 DEF Becomes
  <1>14. Moves(l, N, inst')
    BY <1>9, <1>13 DEF Moves
  <1> HIDE DEF N, r, s
  <1>15. Returns(returned', Held(layer[l]), L, d)
    BY <1>6, <1>13
  <1> QED
    BY <1>1, <1>10, <1>12, <1>13, <1>14, <1>15, MovedStep

LEMMA DestructLayerLease ==
  ASSUME IInv, IInv', HInv, SInv, NEW l \in Layers, DestructLayer(l)
  PROVE  SInv' /\ Given
  <1> DEFINE L  == layer[l]
             d  == disp[l]
             s0 == Disconnected(l, L)
             N  == [NewLayer EXCEPT !.life = "dead"]
             r  == [s0 EXCEPT !.layers[l] = N]
  <1>1. /\ d.pc = "wait" /\ MutexFree /\ Becomes(r)
        /\ ev' = ev /\ disp' = disp /\ screen' = screen
    BY DEF DestructLayer
  <1>2. Good(L) /\ Sound(L) /\ Tidy(L, d) /\ L \in GoodLayers
    BY LayerTidy, GoodLayersDef
  <1>3. Same(L, L)
    BY <1>2, FieldSame
  <1>4. /\ s0.layers = [layer EXCEPT ![l] = Left(L)] /\ s0.insts = Dropped(l)
        /\ Returns(s0.freed, Held(L), L, d)
    <2> HIDE DEF s0
    <2> QED
      BY <1>1, <1>2, <1>3, DisconnectedLeaves DEF s0
  <1>5. s0 \in Outcome
    BY <1>2, DisconnectedType
  <1> HIDE DEF s0
  <1>6. /\ N.life = "dead" /\ N.tunnel = NoTunnel /\ Empty(N)
        /\ N.listener = "none" /\ ~N.update /\ ~N.refreshed
        /\ Plain(N)
    BY DEF NewLayer, Empty, Plain
  <1>7. d.fd = NoFd
    BY <1>1, <1>2 DEF Tidy, Cycle
  <1>8. Tidy(N, d)
    <2> HIDE DEF N
    <2> QED
      BY <1>1, <1>6, <1>7 DEF Tidy, Cycle, Empty
  <1>9. /\ layer' = [layer EXCEPT ![l] = N] /\ inst' = Dropped(l)
        /\ returned' = s0.freed
    <2> HIDE DEF N
    <2>1. /\ r.layers = [s0.layers EXCEPT ![l] = N]
          /\ r.insts = s0.insts /\ r.freed = s0.freed
      BY <1>5 DEF Outcome
    <2>2. r.layers = [layer EXCEPT ![l] = N]
      BY <1>4, <2>1
    <2> HIDE DEF r
    <2> QED
      BY <1>1, <1>4, <2>1, <2>2 DEF Becomes
  <1> HIDE DEF N, r
  <1>10. Moves(l, N, inst')
    BY <1>6, <1>9 DEF Moves
  <1>11. Returns(returned', Held(layer[l]), L, d)
    BY <1>4, <1>9
  <1> QED
    BY <1>1, <1>6, <1>8, <1>9, <1>10, <1>11, MovedStep

\* A layer without a tunnel leaves nothing.
LEMMA NothingLeaves ==
  ASSUME IInv, HInv, SInv, NEW l \in Layers, layer[l].tunnel = NoTunnel
  PROVE  Dropped(l) = inst /\ Held(layer[l]) = {} /\ layer[l].listener # "live"
  <1>1. layer[l].listener # "live" /\ Held(layer[l]) = {}
    BY NothingChosen DEF SInv, Leasing, Linked
  <1>2. \A u \in Tunnels : l \notin inst[u].consumers
    BY <1>1 DEF SInv, Leasing, Linked
  <1>3. \A u \in Tunnels : (IF l \in inst[u].consumers THEN NoInst ELSE inst[u]) = inst[u]
    BY <1>2
  <1>4. Dropped(l) = [u \in Tunnels |-> inst[u]]
    BY <1>3 DEF Dropped
  <1> QED
    BY <1>1, <1>4 DEF IInv

\* handleDisplayDisconnect in setSidebandStream: the layer leaves its tunnel, if
\* it has one.
LEMMA TunedLeaves ==
  ASSUME IInv, HInv, SInv, MutexFree, NEW l \in Layers, NEW L, L \in GoodLayers,
         Same(layer[l], L), L.listener = layer[l].listener, Tidy(L, disp[l]), L.vt,
         NEW s, s = IF L.tunnel = NoTunnel THEN Unchanged(l, L) ELSE Disconnected(l, L)
  PROVE  \E K : /\ s.layers = [layer EXCEPT ![l] = K]
                /\ s.insts = Dropped(l)
                /\ Returns(s.freed, Held(layer[l]), L, disp[l])
                /\ Emptied(L, K) /\ K.listener # "live" /\ K.vt /\ K.life = L.life
                /\ K \in LayerState
  <1>1. Good(L) /\ Sound(L) /\ L.tunnel = layer[l].tunnel
    BY LayerTidy, GoodLayersDef, SameKeeps DEF Same
  <1>2. CASE L.tunnel = NoTunnel
    <2>1. s.layers = [layer EXCEPT ![l] = L] /\ s.insts = inst /\ s.freed = {}
      BY <1>2 DEF Unchanged
    <2>2. Dropped(l) = inst /\ Held(layer[l]) = {} /\ L.listener # "live"
      BY <1>1, <1>2, NothingLeaves
    <2>3. Empty(L)
      BY <1>1, <1>2, UntunedEmpty
    <2>4. Emptied(L, L)
      BY <2>3 DEF Emptied, Tidy, Plain, Empty
    <2>5. Returns(s.freed, Held(layer[l]), L, disp[l])
      BY <2>1, <2>2 DEF Returns
    <2>6. L \in LayerState
      BY <1>1 DEF Good
    <2> QED
      BY <2>1, <2>2, <2>4, <2>5, <2>6
  <1>3. CASE L.tunnel # NoTunnel
    <2>1. s = Disconnected(l, L)
      BY <1>3
    <2>2. /\ s.layers = [layer EXCEPT ![l] = Left(L)] /\ s.insts = Dropped(l)
          /\ Returns(s.freed, Held(layer[l]), L, disp[l])
      BY <2>1, DisconnectedLeaves
    <2> DEFINE K == Left(L)
               d == disp[l]
    <2>3. K = Left(L) /\ Tidy(L, d)
      OBVIOUS
    <2> HIDE DEF K, d
    <2>4. /\ Emptied(L, K) /\ K.listener # "live" /\ K.vt /\ K.life = L.life
          /\ K \in LayerState
      BY <1>1, <1>3, <2>3, LeftEmptied
    <2> QED
      BY <2>2, <2>4 DEF K
  <1> QED
    BY <1>2, <1>3

\* setSidebandStream up to the new consumer, when the layer was tuned to another
\* tunnel or to none.
LEMMA RetunedLeaves ==
  ASSUME IInv, HInv, SInv, MutexFree, NEW l \in Layers, NEW t \in Tunnels,
         layer[l].life = "live", NEW s, s = Retuned(l, t)
  PROVE  \E L, K : /\ s.layers = [layer EXCEPT ![l] = [K EXCEPT !.tunnel = t]]
                   /\ s.insts = Dropped(l)
                   /\ Returns(s.freed, Held(layer[l]), L, disp[l])
                   /\ \A f : Shows(layer[l], disp[l], f) => Shows(L, disp[l], f)
                   /\ Tidy(L, disp[l]) /\ Emptied(L, K)
                   /\ K.listener # "live" /\ K.vt /\ K.life = "live"
                   /\ K \in LayerState
  <1> DEFINE P  == layer[l]
             d  == disp[l]
             L  == [ClearBufferInfo(P) EXCEPT !.vt = TRUE]
             s0 == IF L.tunnel = NoTunnel THEN Unchanged(l, L) ELSE Disconnected(l, L)
  <1>1. s = [s0 EXCEPT !.layers[l].tunnel = t]
    BY DEF Retuned
  <1>2. Good(P) /\ Sound(P) /\ Tidy(P, d)
    BY LayerTidy
  <1> HIDE DEF P, d
  <1>3. Same(P, L) /\ Good(L)
    BY <1>2, ClearBufferInfoSame, ClearBufferInfoGood, FieldGood
  <1>4. /\ Tidy(L, d) /\ L.listener = P.listener
        /\ L.life = P.life /\ L.vt
        /\ \A f : Shows(P, d, f) => Shows(L, d, f)
    BY <1>2, StreamTidy
  <1>5. L \in GoodLayers
    BY <1>3, GoodLayersDef
  <1>6. s0 \in Outcome
    BY <1>5, DisconnectedType, UnchangedType
  <1>7. s0 = IF L.tunnel = NoTunnel THEN Unchanged(l, L) ELSE Disconnected(l, L)
    OBVIOUS
  <1> HIDE DEF L, s0
  <1>8. PICK K : /\ s0.layers = [layer EXCEPT ![l] = K]
                 /\ s0.insts = Dropped(l)
                 /\ Returns(s0.freed, Held(P), L, d)
                 /\ Emptied(L, K) /\ K.listener # "live" /\ K.vt /\ K.life = L.life
                 /\ K \in LayerState
    BY <1>3, <1>4, <1>5, <1>7, TunedLeaves DEF P, d
  <1>9. /\ s.layers = [s0.layers EXCEPT ![l].tunnel = t]
        /\ s.insts = s0.insts /\ s.freed = s0.freed
    BY <1>1, <1>6 DEF Outcome
  <1>10. s0.layers[l] = K
    BY <1>8 DEF IInv
  <1>11. s.layers = [layer EXCEPT ![l] = [K EXCEPT !.tunnel = t]]
    BY <1>8, <1>9, <1>10
  <1>12. K.life = "live"
    BY <1>4, <1>8 DEF P
  <1> QED
    BY <1>4, <1>8, <1>9, <1>11, <1>12 DEF P, d

\* The new tunnel has no instance, or had one that is gone with the layer.
LEMMA NewTunnel ==
  ASSUME IInv, HInv, SInv, MutexFree, ~Shared, NEW l \in Layers, NEW t \in Tunnels,
         layer[l].tunnel # t, MayTune(l, t)
  PROVE  inst[t].consumers = {} /\ Dropped(l)[t] = inst[t] /\ ~inst[t].live
  <1>1. inst[t].consumers \subseteq Layers
    BY DEF IInv, InstState
  <1>2. l \notin inst[t].consumers
    BY OwnInstance
  <1>3. \A m \in Layers \ {l} : m \notin inst[t].consumers
    BY DEF MayTune, Registered
  <1>4. inst[t].consumers = {}
    BY <1>1, <1>2, <1>3
  <1> QED
    BY <1>2, <1>4 DEF Dropped, SInv, Leasing, Ledger, Lively, NoInst

\* What setSidebandStream does to the layer that has left its tunnel.
Alike(K, G) == /\ G.queue = <<>> /\ G.cur = K.cur /\ G.pre = K.pre
               /\ G.update = K.update /\ G.needRelease = K.needRelease
               /\ G.solid = K.solid /\ G.solidHandle = K.solidHandle
               /\ G.game = K.game /\ G.status = K.status
               /\ G.refreshed = K.refreshed
               /\ G.vt = K.vt /\ G.life = K.life

LEMMA AlikeEmptied ==
  ASSUME NEW L, NEW d, Tidy(L, d), d.fd = NoFd,
         NEW K, Emptied(L, K), K.vt, K.life = "live", NEW G, Alike(K, G)
  PROVE  Empty(G) /\ Tidy(G, d)
  <1>1. Emptied(L, G)
    BY DEF Emptied, Empty, Alike
  <1>2. G.vt /\ G.life = "live" /\ Alive(G)
    BY DEF Alive, Alike
  <1> QED
    BY <1>1, <1>2, EmptiedTidy DEF Emptied

\* A layer whose frame is being posted is not tuned to another tunnel.
OneTunnel == \A t, u \in Tunnels : t = u

LEMMA OtherTunnel ==
  ASSUME IInv, HInv, SInv, Settled \/ OneTunnel, NEW l \in Layers,
         NEW t \in Tunnels, layer[l].tunnel # t,
         layer[l].tunnel = NoTunnel \/ layer'[l].tunnel # layer[l].tunnel
  PROVE  disp[l].fd = NoFd
  <1>1. layer[l].tunnel \in Tunnels \cup {NoTunnel}
    BY LayerTidy DEF Good, LayerState
  <1>2. CASE layer[l].tunnel = NoTunnel
    BY <1>2, NothingChosen
  <1>3. CASE layer[l].tunnel # NoTunnel
    BY <1>1, <1>3 DEF Settled, OneTunnel
  <1> QED
    BY <1>2, <1>3

LEMMA SetSidebandStreamLease ==
  ASSUME IInv, IInv', HInv, SInv, ~Shared, Settled \/ OneTunnel,
         NEW l \in Layers, NEW t \in Tunnels, SetSidebandStream(l, t)
  PROVE  SInv' /\ Given
  <1> DEFINE s  == Retuned(l, t)
             J  == s.layers[l]
             M  == [J EXCEPT !.queue = <<>>, !.retuned = TRUE]
             N  == [M EXCEPT !.consumer = TRUE, !.listener = "live"]
             i  == IF s.insts[t].live THEN s.insts[t] ELSE NewInst
             i1 == [i EXCEPT !.consumers = i.consumers \cup {l}]
             r1 == [s EXCEPT !.layers[l] = M]
             r2 == [s EXCEPT !.layers[l] = N, !.insts[t] = i1]
             d  == disp[l]
  <1>1. /\ layer[l].life = "live" /\ MutexFree /\ layer[l].tunnel # t /\ MayTune(l, t)
        /\ IF M.consumer THEN Becomes(r1) ELSE Becomes(r2)
        /\ ev' = ev /\ disp' = disp /\ screen' = screen
    BY DEF SetSidebandStream
  <1>2. s \in Halfway(l)
    BY <1>1, RetunedType
  <1>3. PICK L, K : /\ s.layers = [layer EXCEPT ![l] = [K EXCEPT !.tunnel = t]]
                    /\ s.insts = Dropped(l)
                    /\ Returns(s.freed, Held(layer[l]), L, d)
                    /\ \A f : Shows(layer[l], d, f) => Shows(L, d, f)
                    /\ Tidy(L, d) /\ Emptied(L, K)
                    /\ K.listener # "live" /\ K.vt /\ K.life = "live"
                    /\ K \in LayerState
    BY <1>1, RetunedLeaves
  <1> HIDE DEF s
  <1>4. inst[t].consumers = {} /\ s.insts[t] = inst[t] /\ ~inst[t].live
    BY <1>1, <1>3, NewTunnel
  <1>5. i1 = [NewInst EXCEPT !.consumers = {l}]
    BY <1>4 DEF NewInst
  <1>6. J = [K EXCEPT !.tunnel = t]
    BY <1>3 DEF IInv
  <1>7. /\ r1.layers = [layer EXCEPT ![l] = M] /\ r1.insts = Dropped(l)
        /\ r1.freed = s.freed
        /\ r2.layers = [layer EXCEPT ![l] = N] /\ r2.freed = s.freed
        /\ r2.insts = [Dropped(l) EXCEPT ![t] = i1]
    BY <1>2, <1>3 DEF Halfway
  <1> HIDE DEF J
  <1>8. /\ Alike(K, M) /\ M.tunnel = t /\ M.listener = K.listener
        /\ Alike(K, N) /\ N.tunnel = t /\ N.listener = "live"
    <2>1. K.queue = <<>> /\ K \in LayerState
      BY <1>3 DEF Emptied, Empty
    <2> QED
      BY <1>6, <2>1 DEF Alike, LayerState
  <1>9. d.fd = NoFd
    <2>1. CASE Becomes(r1)
      <3>1. layer'[l] = M
        <4> HIDE DEF M, r1
        <4> QED
          BY <1>7, <2>1 DEF Becomes, IInv
      <3> HIDE DEF M, N, r1, r2
      <3> QED
        BY <1>1, <1>8, <3>1, OtherTunnel
    <2>2. CASE Becomes(r2)
      <3>1. layer'[l] = N
        <4> HIDE DEF N, r2
        <4> QED
          BY <1>7, <2>2 DEF Becomes, IInv
      <3> HIDE DEF M, N, r1, r2
      <3> QED
        BY <1>1, <1>8, <3>1, OtherTunnel
    <2> QED
      BY <1>1, <2>1, <2>2
  <1> DEFINE dd == d
  <1>10. /\ Empty(M) /\ Tidy(M, dd) /\ M.listener # "live"
         /\ Empty(N) /\ Tidy(N, dd) /\ N.listener = "live"
    <2>1. Tidy(L, dd) /\ dd.fd = NoFd
      BY <1>3, <1>9
    <2> HIDE DEF dd, M, N
    <2> QED
      BY <1>3, <1>8, <2>1, AlikeEmptied
  <1> HIDE DEF N
  <1>11. CASE M.consumer
    <2>1. /\ layer' = [layer EXCEPT ![l] = M] /\ inst' = Dropped(l)
          /\ returned' = s.freed
      BY <1>1, <1>7, <1>11 DEF Becomes
    <2>2. Moves(l, M, inst')
      BY <1>10, <2>1 DEF Moves
    <2>3. Returns(returned', Held(layer[l]), L, d)
      BY <1>3, <2>1
    <2> HIDE DEF M, r1, r2, i1
    <2> QED
      BY <1>1, <1>3, <1>10, <2>1, <2>2, <2>3, MovedStep
  <1> HIDE DEF M
  <1>12. CASE ~M.consumer
    <2>1. /\ layer' = [layer EXCEPT ![l] = N] /\ inst' = [Dropped(l) EXCEPT ![t] = i1]
          /\ returned' = s.freed
      BY <1>1, <1>7, <1>12 DEF Becomes
    <2> HIDE DEF r1, r2, i1
    <2>2. /\ inst'[t] = i1
          /\ \A u \in Tunnels : u # t => inst'[u] = Dropped(l)[u]
      BY <2>1 DEF Dropped
    <2>3. Moves(l, N, inst')
      BY <1>4, <1>5, <1>8, <1>10, <2>2 DEF Moves
    <2>4. Returns(returned', Held(layer[l]), L, d)
      BY <1>3, <2>1
    <2> QED
      BY <1>1, <1>3, <1>10, <2>1, <2>3, <2>4, MovedStep
  <1> QED
    BY <1>11, <1>12

LEMMA SetSidebandStreamFailsLease ==
  ASSUME IInv, IInv', HInv, SInv, ~Shared, Settled \/ OneTunnel,
         NEW l \in Layers, NEW t \in Tunnels, SetSidebandStreamFails(l, t)
  PROVE  SInv' /\ Given
  <1> DEFINE s  == Retuned(l, t)
             J  == s.layers[l]
             N  == [J EXCEPT !.consumer = TRUE, !.tunnel = NoTunnel]
             r  == [s EXCEPT !.layers[l].consumer = TRUE, !.layers[l].tunnel = NoTunnel]
             d  == disp[l]
  <1>1. /\ layer[l].life = "live" /\ MutexFree /\ layer[l].tunnel # t
        /\ Becomes(r) /\ ev' = ev /\ disp' = disp /\ screen' = screen
    BY DEF SetSidebandStreamFails
  <1>2. s \in Halfway(l)
    BY <1>1, RetunedType
  <1>3. PICK L, K : /\ s.layers = [layer EXCEPT ![l] = [K EXCEPT !.tunnel = t]]
                    /\ s.insts = Dropped(l)
                    /\ Returns(s.freed, Held(layer[l]), L, d)
                    /\ \A f : Shows(layer[l], d, f) => Shows(L, d, f)
                    /\ Tidy(L, d) /\ Emptied(L, K)
                    /\ K.listener # "live" /\ K.vt /\ K.life = "live"
                    /\ K \in LayerState
    BY <1>1, RetunedLeaves
  <1> HIDE DEF s
  <1>4. J = [K EXCEPT !.tunnel = t]
    BY <1>3 DEF IInv
  <1>5. r.layers = [s.layers EXCEPT ![l] = N] /\ r.insts = Dropped(l) /\ r.freed = s.freed
    BY <1>2, <1>3 DEF Halfway
  <1> HIDE DEF J
  <1>6. Alike(K, N) /\ N.tunnel = NoTunnel /\ N.listener = K.listener
    <2>1. K.queue = <<>> /\ K \in LayerState
      BY <1>3 DEF Emptied, Empty
    <2> QED
      BY <1>4, <2>1 DEF Alike, LayerState
  <1> DEFINE NN == N
  <1>7. NN = N
    OBVIOUS
  <1> HIDE DEF NN, r
  <1>8. /\ layer' = [layer EXCEPT ![l] = NN] /\ inst' = Dropped(l)
        /\ returned' = s.freed
    BY <1>1, <1>3, <1>5, <1>7 DEF Becomes
  <1>9. d.fd = NoFd
    <2>1. layer'[l].tunnel = NoTunnel
      BY <1>6, <1>7, <1>8 DEF IInv
    <2> QED
      BY <1>1, <2>1, OtherTunnel
  <1> DEFINE dd == d
  <1>10. Empty(NN) /\ Tidy(NN, dd) /\ NN.listener # "live"
    <2>1. Tidy(L, dd) /\ dd.fd = NoFd
      BY <1>3, <1>9
    <2>2. Alike(K, NN) /\ NN.listener = K.listener
      BY <1>6, <1>7
    <2> HIDE DEF dd, N
    <2> QED
      BY <1>3, <2>1, <2>2, AlikeEmptied
  <1>11. Moves(l, NN, inst')
    BY <1>8, <1>10 DEF Moves
  <1>12. Returns(returned', Held(layer[l]), L, d)
    BY <1>3, <1>8
  <1> QED
    BY <1>1, <1>3, <1>8, <1>10, <1>11, <1>12, MovedStep

----------------------------------------------------------------------------
(* All the steps *)

LEMMA LayerLease ==
  ASSUME IInv, IInv', HInv, SInv, ~Shared, Ops \subseteq SteadyOps,
         Settled \/ OneTunnel, NEW l \in Layers, LayerStep(l)
  PROVE  SInv' /\ Given
  <1>1. CASE \E t \in Tunnels : SetSidebandStream(l, t)
    BY <1>1, SetSidebandStreamLease
  <1>2. CASE \E t \in Tunnels : SetSidebandStreamFails(l, t)
    BY <1>2, SetSidebandStreamFailsLease
  <1>3. ~SetBuffer(l) /\ ~SetColor(l)
    BY DEF SetBuffer, SetColor, SteadyOps
  <1>4. ~ClearUpdateFlag(l)
    BY LayerTidy DEF ClearUpdateFlag, Tidy, Plain
  <1> QED
    BY <1>1, <1>2, <1>3, <1>4, CreateLayerLease, SameSidebandStreamLease,
       CommitVtLease, VtRefreshLease, DestroyLayerLease, DestructLayerLease
       DEF LayerStep

\* Outside a delivery nobody is about to be handed a frame.
NoneTodo == ev.pc # "deliver" => ev.todo = {}

LEMMA NoneTodoNext ==
  ASSUME ev \in EvState, NoneTodo, [Next]_vars
  PROVE  NoneTodo'
  <1>1. ASSUME NEW t \in Tunnels
        PROVE  Leave(t).todo = ev.todo /\ Leave(t).pc # "deliver"
    BY DEF Leave, EvState
  <1>2. ASSUME NEW todo
        PROVE  IF todo # {} THEN GoOn(todo).pc = ev.pc ELSE GoOn(todo).todo = {}
    BY DEF GoOn, EvState, Leave
  <1>3. CASE HandleBuffers
    <2>1. ev.todo = {} /\ ev'.todo = ev.todo
      BY <1>3 DEF HandleBuffers, NoneTodo, MutexFree, EvState
    <2> QED
      BY <2>1 DEF NoneTodo
  <1>4. ASSUME NEW t \in Tunnels, AcquireBuffer(t) \/ AcquireBufferFails(t)
        PROVE  NoneTodo'
    <2>1. ev.pc = "scan"
      BY <1>4 DEF AcquireBuffer, AcquireBufferFails
    <2>2. ev.todo = {}
      BY <2>1 DEF NoneTodo
    <2>3. ev' = Leave(t) \/ ev'.pc = "deliver"
      <3>1. CASE AcquireBufferFails(t)
        BY <3>1 DEF AcquireBufferFails
      <3>2. CASE AcquireBuffer(t)
        <4>1. PICK n \in 0..MaxBatch : \E b \in Batches(n) :
                 ev' = IF n = 0 THEN Leave(t)
                       ELSE [ev EXCEPT !.pc = "deliver", !.at = t, !.items = b,
                                       !.todo = inst[t].consumers]
          BY <3>2 DEF AcquireBuffer
        <4> QED
          BY <4>1 DEF EvState
      <3> QED
        BY <1>4, <3>1, <3>2
    <2> QED
      BY <1>1, <2>2, <2>3 DEF NoneTodo
  <1>5. CASE DeliverFrames \/ RefuseFrames
    <2>1. PICK todo : ev' = GoOn(todo) /\ ev.pc = "deliver"
      BY <1>5 DEF DeliverFrames, RefuseFrames
    <2> QED
      BY <1>2, <2>1 DEF NoneTodo
  <1>6. CASE ev' = ev
    BY <1>6 DEF NoneTodo
  <1>7. CASE PollVtEvents \/ \E t \in Tunnels, c \in Cmds : HandleCmds(t, c)
    BY <1>6, <1>7 DEF PollVtEvents, HandleCmds
  <1>8. ASSUME NEW l \in Layers, LayerStep(l)
        PROVE  ev' = ev
    BY <1>8 DEF LayerStep, CreateLayer, SameSidebandStream, SetSidebandStream,
       SetSidebandStreamFails, SetBuffer, SetColor, ClearUpdateFlag, CommitVt,
       VtRefresh, DestroyLayer, DestructLayer
  <1>9. ASSUME NEW l \in Layers, DisplayStep(l)
        PROVE  ev' = ev
    BY <1>9 DEF DisplayStep, SetPresentTime, UpdateVtBuffer, SkipPresent, PresentVt,
       PostFrame, ReleaseVtBuffer
  <1> QED
    BY <1>3, <1>4, <1>5, <1>6, <1>7, <1>8, <1>9 DEF Next, EventStep, vars

\* What the last step gave back is out of the instances, and what a screen still
\* shows of it has its fence.
GivenBack == \A r \in returned :
               /\ r.fd \notin Out(inst)
               /\ \A l \in Layers : screen[l] = r.fd => r.fd \in r.fences

LeaseInv == SInv /\ NoneTodo /\ GivenBack

LeaseStep == Given \/ Posted \/ Taken \/ UNCHANGED vars

LEMMA NextLease ==
  ASSUME ~Shared, Ops \subseteq SteadyOps, IInv, IInv', HInv, LeaseInv, [Next]_vars,
         Settled \/ OneTunnel \/ UNCHANGED vars
  PROVE  LeaseInv' /\ LeaseStep
  <1>1. SInv' /\ LeaseStep
    <2>1. CASE UNCHANGED vars
      BY <2>1 DEF vars, LeaseInv, SInv, LeaseStep
    <2>2. CASE EventStep
      BY <2>2, EventLease DEF LeaseInv, LeaseStep
    <2>3. ASSUME NEW l \in Layers, LayerStep(l)
          PROVE  SInv' /\ LeaseStep
      BY <2>1, <2>3, LayerLease DEF LeaseInv, LeaseStep
    <2>4. ASSUME NEW l \in Layers, DisplayStep(l)
          PROVE  SInv' /\ LeaseStep
      BY <2>4, DisplayLease DEF LeaseInv, LeaseStep
    <2> QED
      BY <2>1, <2>2, <2>3, <2>4 DEF Next
  <1>2. NoneTodo'
    BY NoneTodoNext DEF IInv, LeaseInv
  <1>3. GivenBack'
    <2>1. CASE Given
      <3> SUFFICES ASSUME NEW r \in returned'
                   PROVE  /\ r.fd \notin Out(inst')
                          /\ \A l \in Layers : screen'[l] = r.fd => r.fd \in r.fences
        BY DEF GivenBack
      <3> QED
        BY <2>1 DEF Given, GivesBack
    <2>2. CASE Posted \/ Taken
      BY <2>2 DEF GivenBack, Posted, Taken
    <2>3. CASE UNCHANGED vars
      BY <2>3 DEF vars, LeaseInv, GivenBack
    <2> QED
      BY <1>1, <2>1, <2>2, <2>3 DEF LeaseStep
  <1> QED
    BY <1>1, <1>2, <1>3 DEF LeaseInv

LEMMA InitLease == Init => LeaseInv
  <1> SUFFICES ASSUME Init PROVE LeaseInv
    OBVIOUS
  <1>1. ASSUME NEW l \in Layers
        PROVE  /\ layer[l].tunnel = NoTunnel /\ layer[l].listener = "none"
               /\ Empty(layer[l]) /\ ~layer[l].update /\ Plain(layer[l])
               /\ disp[l].pc = "wait" /\ disp[l].fd = NoFd
    BY DEF Init, NewLayer, Empty, Plain
  <1>2. ASSUME NEW t \in Tunnels
        PROVE  inst[t] = NoInst /\ NoInst.consumers = {} /\ NoInst.bufs = {} /\ ~NoInst.live
    BY DEF Init, NoInst, NewInst
  <1>3. \A l \in Layers : Tidy(layer[l], disp[l])
    BY <1>1 DEF Tidy, Cycle, Empty
  <1>4. Linked(layer, inst)
    BY <1>1, <1>2 DEF Linked
  <1>5. Ledger(layer, inst, ev)
    BY <1>2 DEF Ledger, Distinct, Accounted, Lively
  <1>6. Scanning(inst, ev) /\ NoneTodo
    BY DEF Init, Scanning, NoneTodo
  <1>7. Out(inst) = {}
    BY <1>2 DEF Out
  <1>8. Screens(layer, inst, disp, screen)
    BY <1>7 DEF Screens
  <1>9. GivenBack
    BY DEF Init, GivenBack
  <1> QED
    BY <1>3, <1>4, <1>5, <1>6, <1>8, <1>9 DEF LeaseInv, SInv, Leasing

----------------------------------------------------------------------------
(* What follows from the invariant *)

LEMMA ReturnedFree ==
  ASSUME IInv, HInv, LeaseInv
  PROVE  ReturnedNotInUse
  <1> SUFFICES ASSUME NEW r \in returned
               PROVE  /\ ~(r.fd \in FdsOf(ev.items) /\ ev.todo # {})
                      /\ \A l \in Layers :
                           /\ r.fd \notin Held(layer[l])
                           /\ r.fd # disp[l].fd
                           /\ screen[l] = r.fd => r.fd \in r.fences
    BY DEF ReturnedNotInUse
  <1>1. r.fd \notin Out(inst) /\ r.fd \in Fds
    BY DEF LeaseInv, GivenBack, IInv, Back
  <1>2. ASSUME NEW l \in Layers, r.fd \in Held(layer[l])
        PROVE  FALSE
    <2>1. Owned(l, r.fd)
      BY <1>2, HeldOwned DEF LeaseInv
    <2> QED
      BY <1>1, <2>1 DEF Owned, Out
  <1>3. ASSUME NEW l \in Layers, r.fd = disp[l].fd
        PROVE  FALSE
    <2>1. disp[l].fd \in Held(layer[l])
      BY <1>1, <1>3, LayerTidy, TidyFacts, IdAssumption DEF LeaseInv
    <2> QED
      BY <1>2, <1>3, <2>1
  <1>4. ASSUME r.fd \in FdsOf(ev.items), ev.todo # {}
        PROVE  FALSE
    <2>1. ev.pc = "deliver"
      BY <1>4 DEF LeaseInv, NoneTodo
    <2>2. PICK l \in ev.todo : TRUE
      BY <1>4
    <2>3. Waiting(inst[ev.at], r.fd) /\ ev.at \in Tunnels
      BY <1>4, <2>1, <2>2 DEF HInv, Delivering
    <2> QED
      BY <1>1, <2>3 DEF Waiting, Out
  <1> QED
    BY <1>2, <1>3, <1>4 DEF LeaseInv, GivenBack

LEMMA InvSafe ==
  ASSUME IInv, HInv, LeaseInv
  PROVE  BuffersSafe
  <1>1. HeldSafe
    BY DEF HInv, Safe, Sound, Once, OpenHeld, Backed, HeldSafe, HeldOnce,
           HeldIsOpen, Registered
  <1>2. NothingForgotten
    <2> SUFFICES ASSUME MutexFree, NEW t \in Tunnels, NEW f \in Open(t)
                 PROVE  \E l \in Layers : Registered(l, t) /\ f \in Held(layer[l])
      BY DEF NothingForgotten
    <2>1. PICK b \in inst[t].bufs : b.fd = f
      BY DEF Open
    <2>2. PICK l \in inst[t].consumers : l \in Layers /\ b.fd \in Held(layer[l])
      BY HasAll DEF LeaseInv, SInv, Leasing, Ledger, Accounted, Owner, Pending,
                    MutexFree, IInv, InstState
    <2> QED
      BY <2>1, <2>2 DEF Registered
  <1>3. DestructorReleases
    <2> SUFFICES ASSUME NEW l \in Layers, NEW t \in Tunnels, layer[l].life = "dead"
                 PROVE  l \notin inst[t].consumers
      BY DEF DestructorReleases, Registered
    <2>1. layer[l].tunnel = NoTunnel
      BY LayerTidy DEF LeaseInv, Tidy, Plain
    <2> QED
      BY <2>1 DEF LeaseInv, SInv, Leasing, Linked
  <1> QED
    BY <1>1, <1>2, <1>3, ReturnedFree DEF BuffersSafe

LEMMA OutIsOpen == OpenFds = Out(inst)
  BY DEF OpenFds, Open, Out

----------------------------------------------------------------------------
(* Every step keeps the lease *)

LEMMA GivenGives ==
  ASSUME screen' \in [Layers -> MaybeFd], screen \in [Layers -> MaybeFd], Given
  PROVE  Lease!Next
  <1> DEFINE C == {m \in Layers : screen'[m] # screen[m]}
             R == {r.fd : r \in returned'}
             G == {f \in R : \E r \in returned' : r.fd = f /\ f \in r.fences}
  <1>1. R \subseteq Out(inst) /\ Out(inst') = Out(inst) \ R
    BY DEF Given, GivesBack
  <1>2. screen' = [m \in Layers |-> IF m \in C THEN NoFd ELSE screen[m]]
    BY DEF Given, GivesBack
  <1>3. \A m \in Layers : screen'[m] \in R => screen'[m] \in G
    BY DEF Given, GivesBack
  <1>4. \A r \in returned' : r.fd \in r.fences <=> r.fd \in G
    BY DEF Given, GivesBack
  <1>5. {[frame |-> r.fd, fenced |-> r.fd \in r.fences] : r \in returned'}
          = {[frame |-> f, fenced |-> f \in G] : f \in R}
    <2> DEFINE old(r) == [frame |-> r.fd, fenced |-> r.fd \in r.fences]
               new(f) == [frame |-> f, fenced |-> f \in G]
    <2>1. ASSUME NEW r \in returned'
          PROVE  old(r) = new(r.fd)
      <3>1. (r.fd \in r.fences) = (r.fd \in G)
        BY <1>4
      <3> QED
        BY <3>1, Zenon
    <2> HIDE DEF old, new
    <2>2. {old(r) : r \in returned'} = {new(f) : f \in R}
      BY <2>1
    <2> QED
      BY <2>2 DEF old, new
  <1>6. C \in SUBSET Layers /\ G \in SUBSET R
    OBVIOUS
  <1> HIDE DEF C, R, G
  <1>7. OpenFds = Out(inst) /\ OpenFds' = Out(inst')
    BY DEF OpenFds, Open, Out
  <1>8. PICK c \in SUBSET Layers, fs \in SUBSET OpenFds : c = C /\ fs = R
    BY <1>1, <1>6, <1>7
  <1>9. PICK g \in SUBSET fs : g = G
    BY <1>6, <1>8
  <1>10. /\ OpenFds' = OpenFds \ fs
         /\ screen' = [m \in Layers |-> IF m \in c THEN NoFd ELSE screen[m]]
         /\ \A m \in Layers : screen'[m] \in fs => screen'[m] \in g
    BY <1>1, <1>2, <1>3, <1>7, <1>8, <1>9
  <1>11. {[frame |-> r.fd, fenced |-> r.fd \in r.fences] : r \in returned'}
           = {[frame |-> f, fenced |-> f \in g] : f \in fs}
    BY <1>5, <1>8, <1>9, Zenon
  <1>12. Lease!Give(c, fs, g)
    BY <1>10, <1>11, Zenon DEF Lease!Give
  <1> QED
    BY <1>12 DEF Lease!Next

LEMMA PostedShows ==
  ASSUME inst \in [Tunnels -> InstState], Posted
  PROVE  Lease!Next
  <1>1. PICK l \in Layers, f \in Out(inst) : screen' = [screen EXCEPT ![l] = f]
    BY DEF Posted
  <1>2. f \in Fds
    BY OutFacts
  <1>3. Lease!Show(l, f)
    BY <1>1, OutIsOpen DEF Posted, Lease!Show, OpenFds, Open, Out
  <1> QED
    BY <1>2, <1>3 DEF Lease!Next

LEMMA TakenTakes ==
  ASSUME Taken
  PROVE  Lease!Next
  <1>1. PICK S \in SUBSET Fds :
              /\ S \cap Out(inst) = {} /\ Out(inst') = Out(inst) \cup S
              /\ screen' = [m \in Layers |-> IF screen[m] \in S THEN NoFd ELSE screen[m]]
    BY DEF Taken
  <1>2. Lease!Take(S)
    <2>1. OpenFds = Out(inst) /\ OpenFds' = Out(inst')
      BY DEF OpenFds, Open, Out
    <2> QED
      BY <1>1, <2>1 DEF Taken, Lease!Take
  <1>3. S \in SUBSET (Fds \ OpenFds)
    BY <1>1, OutIsOpen
  <1> QED
    BY <1>2, <1>3 DEF Lease!Next

LEMMA StepLeases ==
  ASSUME IInv, IInv', LeaseStep
  PROVE  [Lease!Next]_(Lease!vars)
  <1>1. CASE UNCHANGED vars
    BY <1>1 DEF vars, Lease!vars, OpenFds, Open
  <1> QED
    BY <1>1, GivenGives, PostedShows, TakenTakes DEF IInv, LeaseStep

LEMMA InitLeases == Init => Lease!Init
  BY DEF Init, Lease!Init, OpenFds, Open, NoInst, NewInst

----------------------------------------------------------------------------

LEMMA SettledInvariant ==
  ASSUME ~Shared, Ops \subseteq SteadyOps
  PROVE  Spec /\ [][Settled]_vars => []LeaseInv /\ [][LeaseStep]_vars
  <1>1. IInv /\ IInv' /\ HInv /\ LeaseInv /\ [Next]_vars /\ [Settled]_vars
          => LeaseInv' /\ LeaseStep
    BY NextLease
  <1>2. IInv /\ HInv /\ [Next]_vars => HInv'
    BY NextHeld
  <1> QED
    BY <1>1, <1>2, InitHeld, InitLease, InvariantHolds, PTL DEF Spec

LEMMA OneTunnelInvariant ==
  ASSUME ~Shared, Ops \subseteq SteadyOps, OneTunnel
  PROVE  Spec => []LeaseInv /\ [][LeaseStep]_vars
  <1>1. IInv /\ IInv' /\ HInv /\ LeaseInv /\ [Next]_vars => LeaseInv' /\ LeaseStep
    BY NextLease
  <1>2. IInv /\ HInv /\ [Next]_vars => HInv'
    BY NextHeld
  <1> QED
    BY <1>1, <1>2, InitHeld, InitLease, InvariantHolds, PTL DEF Spec

\* With one tunnel, as in VTsteady: for any number of layers and frames, in
\* whatever order layers are tuned, blanked, composed and destroyed while frames
\* arrive and are shown, every frame an instance has is held by a layer that will
\* give it back (releaseVtResourceLocked and releaseVtBuffer, Hwc2Layer.cpp:749,
\* 642), and it goes back when nothing uses it any more, with its fence if it is
\* still on screen.
THEOREM BuffersStaySafe ==
  ASSUME ~Shared, Ops \subseteq SteadyOps, OneTunnel
  PROVE  Spec => []BuffersSafe
  <1>1. IInv /\ HInv /\ LeaseInv => BuffersSafe
    BY InvSafe
  <1>2. IInv /\ HInv /\ [Next]_vars => HInv'
    BY NextHeld
  <1> QED
    BY <1>1, <1>2, InitHeld, InvariantHolds, OneTunnelInvariant, PTL DEF Spec

\* The composer implements the lease that the producer of a tunnel sees: a frame
\* is put on a screen only between acquireBuffer and onFrameDisplayed
\* (VtInstance.cpp:152, 34), and goes back once.
THEOREM KeepsLease ==
  ASSUME ~Shared, Ops \subseteq SteadyOps, OneTunnel
  PROVE  Spec => LeaseKept
  <1>1. IInv /\ IInv' /\ LeaseStep => [Lease!Next]_(Lease!vars)
    BY StepLeases
  <1>2. UNCHANGED vars => UNCHANGED Lease!vars
    BY DEF vars, Lease!vars, OpenFds, Open
  <1> QED
    BY <1>1, <1>2, InitLeases, InvariantHolds, OneTunnelInvariant, PTL
       DEF Spec, LeaseKept, Lease!Spec

\* With any number of tunnels the same holds of the behaviours that tune no layer
\* to another tunnel while a frame of it is being posted, which nothing in the
\* code prevents: setSidebandStream (Hwc2Layer.cpp:259) does not take mVtMutex.
THEOREM SettledStaySafe ==
  ASSUME ~Shared, Ops \subseteq SteadyOps
  PROVE  Spec /\ [][Settled]_vars => []BuffersSafe
  <1>1. IInv /\ HInv /\ LeaseInv => BuffersSafe
    BY InvSafe
  <1>2. IInv /\ HInv /\ [Next]_vars => HInv'
    BY NextHeld
  <1> QED
    BY <1>1, <1>2, InitHeld, InvariantHolds, SettledInvariant, PTL DEF Spec

\* And the composer keeps the lease of the frames of every tunnel.
THEOREM SettledKeepsLease ==
  ASSUME ~Shared, Ops \subseteq SteadyOps
  PROVE  Spec /\ [][Settled]_vars => LeaseKept
  <1>1. IInv /\ IInv' /\ LeaseStep => [Lease!Next]_(Lease!vars)
    BY StepLeases
  <1>2. UNCHANGED vars => UNCHANGED Lease!vars
    BY DEF vars, Lease!vars, OpenFds, Open
  <1> QED
    BY <1>1, <1>2, InitLeases, InvariantHolds, SettledInvariant, PTL
       DEF Spec, LeaseKept, Lease!Spec
=============================================================================
