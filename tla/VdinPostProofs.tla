--------------------------- MODULE VdinPostProofs ---------------------------
(***************************************************************************)
(* What holds of VdinPost for every number of buffers, three or more, every *)
(* set of processors, and whatever frames vdin reports: the types of the   *)
(* state, where each vdin buffer is, that vdin always keeps one, and that  *)
(* every update in the queue of commands has its processor.                *)
(***************************************************************************)
EXTENDS VdinPost, FiniteSetTheorems, SequenceTheorems, TLAPS

Distinct(s) == \A i, j \in DOMAIN s : s[i] = s[j] => i = j

\* Each buffer is in s, or is o, or is in h, and in one of them only.
Placed(s, o, h) ==
  /\ h = Bufs \ (Items(s) \cup {o})
  /\ o \notin Items(s)
  /\ Distinct(s)

Updates(s) == {i \in DOMAIN s : s[i] = "update"}

----------------------------------------------------------------------------
(* Sequences *)

\* At least two buffers may be taken from vdin.
LEMMA CapCntType == CapCnt \in Nat /\ CapCnt >= 2 /\ CapCnt + 1 = Cardinality(Bufs)
  <1>1. Cardinality(Bufs) \in Nat
    BY BufsAssumption, FS_CardinalityType
  <1> QED
    BY <1>1, BufsAssumption DEF CapCnt

LEMMA AppendItems ==
  ASSUME NEW S, NEW s \in Seq(S), NEW x \in S
  PROVE  /\ Append(s, x) \in Seq(S) /\ Len(Append(s, x)) = Len(s) + 1
         /\ Items(Append(s, x)) = Items(s) \cup {x}
         /\ Distinct(s) /\ x \notin Items(s) => Distinct(Append(s, x))
  <1>1. /\ Append(s, x) \in Seq(S) /\ Len(Append(s, x)) = Len(s) + 1
        /\ DOMAIN s = 1..Len(s) /\ Len(s) \in Nat
        /\ DOMAIN Append(s, x) = 1..(Len(s) + 1)
        /\ \A i \in 1..Len(s) : Append(s, x)[i] = s[i]
        /\ Append(s, x)[Len(s) + 1] = x
    OBVIOUS
  <1>2. Items(Append(s, x)) = Items(s) \cup {x}
    <2>1. ASSUME NEW y \in Items(Append(s, x)) PROVE y \in Items(s) \cup {x}
      BY <1>1, <2>1 DEF Items
    <2>2. ASSUME NEW y \in Items(s) PROVE y \in Items(Append(s, x))
      BY <1>1, <2>2 DEF Items
    <2>3. x \in Items(Append(s, x))
      BY <1>1 DEF Items
    <2> QED
      BY <2>1, <2>2, <2>3
  <1>3. ASSUME Distinct(s), x \notin Items(s) PROVE Distinct(Append(s, x))
    BY <1>1, <1>3 DEF Distinct, Items
  <1> QED
    BY <1>1, <1>2, <1>3

\* The first n buffers of a queue and those that stay.
LEMMA SplitItems ==
  ASSUME NEW S, NEW s \in Seq(S), NEW n \in 0..Len(s), Distinct(s)
  PROVE  LET front == SubSeq(s, 1, n)
             rest  == SubSeq(s, n + 1, Len(s))
         IN  /\ rest \in Seq(S) /\ Len(rest) = Len(s) - n /\ Distinct(rest)
             /\ Items(s) = Items(front) \cup Items(rest)
             /\ Items(front) \cap Items(rest) = {}
  <1> DEFINE front == SubSeq(s, 1, n)
             rest  == SubSeq(s, n + 1, Len(s))
  <1>1. Len(s) \in Nat /\ n \in Nat /\ n <= Len(s) /\ DOMAIN s = 1..Len(s) /\ \A i \in 1..Len(s) : s[i] \in S
    OBVIOUS
  <1>2. /\ front \in Seq(S) /\ Len(front) = n
        /\ \A i \in 1..n : front[i] = s[i]
    BY <1>1, SubSeqProperties
  <1>3. /\ rest \in Seq(S) /\ Len(rest) = Len(s) - n
        /\ \A i \in 1..(Len(s) - n) : rest[i] = s[n + i]
    <2>1. /\ n + 1 \in Int /\ Len(s) \in Int /\ Len(s) - (n + 1) + 1 = Len(s) - n
          /\ \A i \in (n + 1)..Len(s) : s[i] \in S
      BY <1>1
    <2>2. /\ rest \in Seq(S)
          /\ Len(rest) = IF n + 1 <= Len(s) THEN Len(s) - (n + 1) + 1 ELSE 0
          /\ \A i \in 1..(Len(s) - (n + 1) + 1) : rest[i] = s[(n + 1) + i - 1]
      BY <2>1, SubSeqProperties
    <2>3. \A i \in 1..(Len(s) - n) : (n + 1) + i - 1 = n + i
      BY <1>1
    <2> HIDE DEF rest
    <2>4. Len(rest) = Len(s) - n
      <3>1. CASE n + 1 <= Len(s)
        BY <1>1, <2>1, <2>2, <3>1
      <3>2. CASE ~(n + 1 <= Len(s))
        <4>1. Len(rest) = 0
          BY <2>2, <3>2
        <4>2. \A a, b \in Nat : a <= b /\ ~(a + 1 <= b) => b - a = 0
          OBVIOUS
        <4>3. Len(s) - n = 0
          BY <1>1, <3>2, <4>2
        <4> QED
          BY <4>1, <4>3
      <3> QED
        BY <3>1, <3>2
    <2> QED
      BY <2>1, <2>2, <2>3, <2>4
  <1>4. DOMAIN front = 1..n /\ DOMAIN rest = 1..(Len(s) - n)
    BY <1>2, <1>3
  <1> HIDE DEF front, rest
  <1>5. Distinct(rest)
    <2>1. SUFFICES ASSUME NEW i \in 1..(Len(s) - n), NEW j \in 1..(Len(s) - n),
                          rest[i] = rest[j]
                   PROVE  i = j
      BY <1>4 DEF Distinct
    <2>2. s[n + i] = s[n + j] /\ n + i \in DOMAIN s /\ n + j \in DOMAIN s
      BY <1>1, <1>3, <2>1
    <2>3. n + i = n + j
      BY <2>2 DEF Distinct
    <2> QED
      BY <1>1, <2>3
  <1>6. ASSUME NEW y \in Items(s) PROVE y \in Items(front) \cup Items(rest)
    <2>1. PICK k \in 1..Len(s) : y = s[k]
      BY <1>1, <1>6 DEF Items
    <2>2. CASE k <= n
      BY <1>1, <1>2, <1>4, <2>1, <2>2 DEF Items
    <2>3. CASE ~(k <= n)
      <3>1. k - n \in 1..(Len(s) - n) /\ n + (k - n) = k
        BY <1>1, <2>1, <2>3
      <3> QED
        BY <1>3, <1>4, <2>1, <3>1 DEF Items
    <2> QED
      BY <2>2, <2>3
  <1>7. ASSUME NEW y \in Items(front) \cup Items(rest) PROVE y \in Items(s)
    <2>1. CASE y \in Items(front)
      BY <1>1, <1>2, <1>4, <2>1 DEF Items
    <2>2. CASE y \in Items(rest)
      <3>1. PICK k \in 1..(Len(s) - n) : y = rest[k]
        BY <1>4, <2>2 DEF Items
      <3>2. n + k \in DOMAIN s /\ y = s[n + k]
        BY <1>1, <1>3, <3>1
      <3> QED
        BY <3>2 DEF Items
    <2> QED
      BY <1>7, <2>1, <2>2
  <1>8. Items(front) \cap Items(rest) = {}
    <2>1. SUFFICES ASSUME NEW i \in 1..n, NEW k \in 1..(Len(s) - n), front[i] = rest[k]
                   PROVE  FALSE
      BY <1>4 DEF Items
    <2>2. s[i] = s[n + k] /\ i \in DOMAIN s /\ n + k \in DOMAIN s
      BY <1>1, <1>2, <1>3, <2>1
    <2>3. i = n + k
      BY <2>2 DEF Distinct
    <2> QED
      BY <1>1, <2>3
  <1> QED
    BY <1>3, <1>5, <1>6, <1>7, <1>8 DEF front, rest

\* A queue has no more elements than positions.
LEMMA ItemsBound ==
  ASSUME NEW S, NEW s \in Seq(S)
  PROVE  IsFiniteSet(Items(s)) /\ Cardinality(Items(s)) <= Len(s)
  <1>1. Len(s) \in Nat /\ DOMAIN s = 1..Len(s)
    OBVIOUS
  <1>2. s \in Surjection(1..Len(s), Items(s))
    BY <1>1 DEF Surjection, Items
  <1>3. IsFiniteSet(1..Len(s)) /\ Cardinality(1..Len(s)) = Len(s)
    BY <1>1, FS_Interval
  <1> QED
    BY <1>2, <1>3, FS_Surjection

LEMMA UpdatesFinite ==
  ASSUME NEW S, NEW s \in Seq(S)
  PROVE  IsFiniteSet(Updates(s)) /\ Cardinality(Updates(s)) \in Nat
  <1>1. Updates(s) \in SUBSET (1..Len(s)) /\ Len(s) \in Nat
    BY DEF Updates
  <1>2. IsFiniteSet(1..Len(s))
    BY <1>1, FS_Interval
  <1>3. IsFiniteSet(Updates(s))
    BY <1>1, <1>2, FS_Subset
  <1> QED
    BY <1>3, FS_CardinalityType

LEMMA AppendUpdates ==
  ASSUME NEW S, NEW s \in Seq(S), NEW x \in S
  PROVE  Cardinality(Updates(Append(s, x))) =
           Cardinality(Updates(s)) + IF x = "update" THEN 1 ELSE 0
  <1>1. /\ DOMAIN s = 1..Len(s) /\ Len(s) \in Nat
        /\ DOMAIN Append(s, x) = 1..(Len(s) + 1)
        /\ \A i \in 1..Len(s) : Append(s, x)[i] = s[i]
        /\ Append(s, x)[Len(s) + 1] = x
    OBVIOUS
  <1>2. Len(s) + 1 \notin Updates(s)
    BY <1>1 DEF Updates
  <1>3. CASE x = "update"
    <2>1. Updates(Append(s, x)) = Updates(s) \cup {Len(s) + 1}
      BY <1>1, <1>3 DEF Updates
    <2> QED
      BY <1>2, <1>3, <2>1, UpdatesFinite, FS_AddElement
  <1>4. CASE x # "update"
    <2>1. Updates(Append(s, x)) = Updates(s)
      BY <1>1, <1>4 DEF Updates
    <2> QED
      BY <1>4, <2>1, UpdatesFinite
  <1> QED
    BY <1>3, <1>4

LEMMA TailUpdates ==
  ASSUME NEW S, NEW s \in Seq(S), s # <<>>
  PROVE  Cardinality(Updates(s)) =
           Cardinality(Updates(Tail(s))) + IF Head(s) = "update" THEN 1 ELSE 0
  <1>1. /\ DOMAIN s = 1..Len(s) /\ Len(s) \in Nat /\ Len(s) >= 1 /\ Head(s) = s[1]
        /\ Tail(s) \in Seq(S) /\ Len(Tail(s)) = Len(s) - 1
        /\ DOMAIN Tail(s) = 1..(Len(s) - 1)
        /\ \A i \in 1..(Len(s) - 1) : Tail(s)[i] = s[i + 1]
    OBVIOUS
  <1> DEFINE T == Updates(s) \ {1}
             f == [i \in Updates(Tail(s)) |-> i + 1]
  <1>2. f \in Bijection(Updates(Tail(s)), T)
    <2>1. ASSUME NEW i \in Updates(Tail(s)) PROVE f[i] \in T /\ f[i] = i + 1 /\ i \in Nat
      BY <1>1, <2>1 DEF Updates
    <2>2. ASSUME NEW k \in T PROVE k - 1 \in Updates(Tail(s)) /\ f[k - 1] = k
      <3>1. k \in 2..Len(s) /\ s[k] = "update"
        BY <1>1, <2>2 DEF Updates
      <3>2. k - 1 \in 1..(Len(s) - 1) /\ (k - 1) + 1 = k
        BY <1>1, <3>1
      <3>3. k - 1 \in Updates(Tail(s))
        BY <1>1, <3>1, <3>2 DEF Updates
      <3> QED
        BY <3>2, <3>3
    <2>3. f \in [Updates(Tail(s)) -> T]
      BY <2>1
    <2>4. ASSUME NEW i \in Updates(Tail(s)), NEW j \in Updates(Tail(s)), f[i] = f[j]
          PROVE  i = j
      BY <2>1, <2>4
    <2> HIDE DEF f, T
    <2> QED
      BY <2>2, <2>3, <2>4 DEF Bijection, Injection, Surjection, IsInjective
  <1>3. /\ IsFiniteSet(Updates(Tail(s))) /\ IsFiniteSet(Updates(s))
        /\ Cardinality(Updates(s)) \in Nat /\ Cardinality(Updates(Tail(s))) \in Nat
    BY <1>1, UpdatesFinite
  <1>4. Cardinality(T) = Cardinality(Updates(Tail(s)))
    BY <1>2, <1>3, FS_Bijection DEF ExistsBijection
  <1>5. Cardinality(T) = IF 1 \in Updates(s) THEN Cardinality(Updates(s)) - 1
                                             ELSE Cardinality(Updates(s))
    BY <1>3, FS_RemoveElement
  <1>6. 1 \in Updates(s) <=> Head(s) = "update"
    BY <1>1 DEF Updates
  <1> QED
    BY <1>3, <1>4, <1>5, <1>6

----------------------------------------------------------------------------
(* The inductive invariant *)

\* Where the thread is while vdin streams.
Streaming == {"loop", "command", "wait", "work", "dequeue", "leave", "aborted"}

\* vdin streams between startVdin and stopVdin; and when nobody is stopping
\* the processor, mExitThread says that there is no thread.
ThreadsOK ==
  /\ vdin.on <=> pc \in Streaming
  /\ sf.pc = "idle" /\ req.exit => pc \in {"none", "ended"}

\* At most VDIN_CAP_CNT buffers are taken, and fewer when one is dequeued.
PlacesOK ==
  IF vdin.on
  THEN /\ Placed(cyc.queue, cyc.onScreen, vdin.held)
       /\ Taken(cyc) <= CapCnt
       /\ pc = "dequeue" => Taken(cyc) < CapCnt
  ELSE cyc.queue = <<>> /\ cyc.onScreen = None

IInv == TypeOK /\ UpdatesMatched /\ ThreadsOK /\ PlacesOK

LEMMA MatchedDef == UpdatesMatched <=> Len(req.reqs) = Cardinality(Updates(req.cmdQ))
  BY DEF UpdatesMatched, Updates

LEMMA EmptyUpdates == Cardinality(Updates(<<>>)) = 0
  <1>1. Updates(<<>>) = {}
    BY DEF Updates
  <1> QED
    BY <1>1, FS_EmptySet

LEMMA PlacesKept ==
  ASSUME PlacesOK, vdin' = vdin, cyc'.queue = cyc.queue, cyc'.onScreen = cyc.onScreen,
         pc' = pc \/ pc' # "dequeue"
  PROVE  PlacesOK'
  BY DEF PlacesOK, Placed, Taken

LEMMA MatchedKept ==
  ASSUME UpdatesMatched, req'.cmdQ = req.cmdQ, req'.reqs = req.reqs
  PROVE  UpdatesMatched'
  BY DEF UpdatesMatched

LEMMA NotifiedType ==
  ASSUME TypeOK
  PROVE  /\ Notified \in {"none", "start", "loop", "command", "work", "dequeue",
                           "leave", "ended", "aborted"}
         /\ Notified = pc \/ Notified = "loop"
         /\ Notified \in Streaming <=> pc \in Streaming
         /\ pc \in {"none", "ended"} => Notified = pc
  BY DEF TypeOK, Notified, Streaming

LEMMA InitInv == Init => IInv
  <1> SUFFICES ASSUME Init PROVE IInv
    OBVIOUS
  <1>1. TypeOK
    BY CapCntType DEF Init, TypeOK, ReqState, CycState, VoutState
  <1>2. UpdatesMatched
    BY EmptyUpdates, MatchedDef DEF Init
  <1>3. ThreadsOK /\ PlacesOK
    BY DEF Init, ThreadsOK, PlacesOK, Streaming
  <1> QED
    BY <1>1, <1>2, <1>3 DEF IInv

----------------------------------------------------------------------------
(* The clients *)

LEMMA StartInv == IInv /\ Start => IInv'
  <1> SUFFICES ASSUME IInv, Start PROVE IInv'
    OBVIOUS
  <1> USE DEF IInv
  <1>1. TypeOK'
    BY ZenonT(60) DEF TypeOK, ReqState, CycState, VoutState, Start, AllocVout
  <1>2. req'.cmdQ = req.cmdQ /\ req'.reqs = req.reqs /\ req'.exit = req.exit
    BY DEF TypeOK, ReqState, Start
  <1>3. UpdatesMatched'
    BY <1>2, MatchedKept
  <1>4. ThreadsOK'
    BY <1>2 DEF Start, ThreadsOK
  <1>5. PlacesOK'
    BY PlacesKept DEF TypeOK, CycState, Start
  <1> QED
    BY <1>1, <1>3, <1>4, <1>5

LEMMA StopInv ==
  ASSUME IInv, NEW why \in {"stop", "restart"}, Stop(why)
  PROVE  IInv'
  <1> USE DEF IInv
  <1>1. TypeOK'
    <2>1. req' \in ReqState
      BY DEF TypeOK, ReqState, Stop
    <2>2. sf' \in [pc : {"idle", "stop", "restart"}, back : Processors \cup {None}]
      BY DEF TypeOK, ReqState, Stop
    <2> QED
      BY <2>1, <2>2, NotifiedType DEF TypeOK, Stop
  <1>2. req'.cmdQ = req.cmdQ /\ req'.reqs = req.reqs /\ sf'.pc # "idle"
    BY DEF TypeOK, ReqState, Stop
  <1>3. UpdatesMatched'
    BY <1>2, MatchedKept
  <1>4. ThreadsOK'
    BY <1>2, NotifiedType DEF Stop, ThreadsOK
  <1>5. PlacesOK'
    BY NotifiedType, PlacesKept DEF Stop
  <1> QED
    BY <1>1, <1>3, <1>4, <1>5

LEMMA ClearedType ==
  ASSUME TypeOK
  PROVE  /\ Cleared \in ReqState
         /\ Cleared.exit = req.exit /\ Cleared.cmdQ = <<>> /\ Cleared.reqs = <<>>
  <1>1. <<>> \in Seq(Cmds) /\ <<>> \in Seq(Processors \cup {None}) /\ None \in Processors \cup {None}
    OBVIOUS
  <1>2. Cleared \in ReqState
    BY <1>1 DEF TypeOK, ReqState, Cleared
  <1>3. Cleared.cmdQ = <<>> /\ Cleared.reqs = <<>>
    BY DEF TypeOK, ReqState, Cleared
  <1>4. Cleared.exit = req.exit
    BY DEF TypeOK, ReqState, Cleared
  <1> QED
    BY <1>2, <1>3, <1>4

LEMMA StopJoinedInv == IInv /\ StopJoined => IInv'
  <1> SUFFICES ASSUME IInv, StopJoined PROVE IInv'
    OBVIOUS
  <1> USE DEF IInv
  <1>1. TypeOK'
    BY ClearedType DEF TypeOK, VoutState, StopJoined
  <1>2. UpdatesMatched'
    <2>1. req'.cmdQ = <<>> /\ req'.reqs = <<>>
      BY ClearedType DEF StopJoined
    <2> QED
      BY <2>1, EmptyUpdates DEF UpdatesMatched, Updates
  <1>3. ThreadsOK'
    BY DEF StopJoined, Joinable, ThreadsOK
  <1>4. PlacesOK'
    BY PlacesKept DEF StopJoined
  <1> QED
    BY <1>1, <1>2, <1>3, <1>4

LEMMA RestartJoinedInv == IInv /\ RestartJoined => IInv'
  <1> SUFFICES ASSUME IInv, RestartJoined PROVE IInv'
    OBVIOUS
  <1> USE DEF IInv
  <1>1. /\ sf.back \in Processors \cup {None} /\ "update" \in Cmds
        /\ <<"update">> \in Seq(Cmds) /\ <<sf.back>> \in Seq(Processors \cup {None})
    BY DEF TypeOK, Cmds
  <1>2. req' \in ReqState /\ req'.cmdQ = <<"update">> /\ req'.reqs = <<sf.back>>
    <2> DEFINE K == Cleared
    <2>1. K \in ReqState /\ req' = [K EXCEPT !.stat = "start", !.cmdQ = <<"update">>,
                                           !.reqs = <<sf.back>>]
      BY ClearedType DEF RestartJoined
    <2> HIDE DEF K
    <2> QED
      BY <1>1, <2>1 DEF ReqState
  <1>3. TypeOK'
    <2>1. cyc' \in CycState
      BY DEF TypeOK, CycState, RestartJoined
    <2>2. vout' \in VoutState
      BY DEF TypeOK, VoutState, RestartJoined, AllocVout
    <2> QED
      BY <1>2, <2>1, <2>2 DEF TypeOK, RestartJoined
  <1>4. UpdatesMatched'
    <2>1. Updates(<<"update">>) = {1} /\ Len(<<sf.back>>) = 1
      BY DEF Updates
    <2>2. Cardinality({1}) = 1
      BY FS_Singleton
    <2> QED
      BY <1>2, <2>1, <2>2 DEF UpdatesMatched, Updates
  <1>5. ThreadsOK'
    BY DEF RestartJoined, Joinable, ThreadsOK
  <1>6. PlacesOK'
    BY PlacesKept DEF RestartJoined, TypeOK, CycState
  <1> QED
    BY <1>3, <1>4, <1>5, <1>6

LEMMA SetFbProcessorInv ==
  ASSUME IInv, NEW p \in Processors \cup {None}, SetFbProcessor(p)
  PROVE  IInv'
  <1> USE DEF IInv
  <1>1. "update" \in Cmds /\ req.cmdQ \in Seq(Cmds) /\ req.reqs \in Seq(Processors \cup {None})
    BY DEF TypeOK, ReqState, Cmds
  <1>2. /\ req'.cmdQ = Append(req.cmdQ, "update") /\ req'.reqs = Append(req.reqs, p)
        /\ req'.exit = req.exit
    BY DEF TypeOK, ReqState, SetFbProcessor
  <1>3. TypeOK'
    <2>1. /\ Append(req.cmdQ, "update") \in Seq(Cmds)
          /\ Append(req.reqs, p) \in Seq(Processors \cup {None})
      BY <1>1
    <2>2. req' \in ReqState
      BY <2>1 DEF TypeOK, ReqState, SetFbProcessor
    <2>3. cyc' \in CycState
      BY DEF TypeOK, CycState, SetFbProcessor
    <2> QED
      BY <2>2, <2>3, NotifiedType DEF TypeOK, SetFbProcessor
  <1>4. UpdatesMatched'
    <2>1. Len(req'.reqs) = Len(req.reqs) + 1
      BY <1>1, <1>2
    <2>2. Cardinality(Updates(req'.cmdQ)) = Cardinality(Updates(req.cmdQ)) + 1
      BY <1>1, <1>2, AppendUpdates
    <2> QED
      BY <2>1, <2>2 DEF UpdatesMatched, Updates
  <1>5. ThreadsOK'
    BY <1>2, NotifiedType DEF SetFbProcessor, ThreadsOK
  <1>6. PlacesOK'
    BY NotifiedType, PlacesKept DEF SetFbProcessor, TypeOK, CycState
  <1> QED
    BY <1>3, <1>4, <1>5, <1>6

\* What a present leaves behind.
LEMMA QueuedInv ==
  ASSUME IInv, sf.pc = "idle", NEW c \in Presents \cup {"capture"}, Queued(c),
         UNCHANGED <<cyc, vdin, sf>>
  PROVE  /\ req' \in ReqState /\ UpdatesMatched' /\ ThreadsOK' /\ PlacesOK'
         /\ pc' \in {"none", "start", "loop", "command", "work", "dequeue", "leave",
                    "ended", "aborted"}
  <1> USE DEF IInv
  <1> DEFINE creates == req.exit /\ c \notin {"blank", "blankSideband"}
             again   == req.cmdQ # <<>> /\ req.cmdQ[Len(req.cmdQ)] = c
  <1>1. c \in Cmds /\ c # "update" /\ req.cmdQ \in Seq(Cmds) /\ req \in ReqState
    BY DEF TypeOK, ReqState, Cmds, Presents
  <1>2. /\ req' = [req EXCEPT !.exit = @ /\ ~creates,
                             !.cmdQ = IF again THEN @ ELSE Append(@, c)]
        /\ pc' = IF creates THEN "start" ELSE Notified
    BY DEF Queued
  <1> HIDE DEF creates, again
  <1>3. Append(req.cmdQ, c) \in Seq(Cmds)
    BY <1>1
  <1>4. req' \in ReqState
    BY <1>1, <1>2, <1>3 DEF ReqState
  <1>5. /\ req'.reqs = req.reqs
        /\ req'.cmdQ = IF again THEN req.cmdQ ELSE Append(req.cmdQ, c)
        /\ req'.exit = (req.exit /\ ~creates)
    BY <1>1, <1>2 DEF ReqState
  <1>6. UpdatesMatched'
    <2>1. CASE again
      BY <1>5, <2>1, MatchedKept
    <2>2. CASE ~again
      <3>1. Cardinality(Updates(req'.cmdQ)) = Cardinality(Updates(req.cmdQ)) + 0
        BY <1>1, <1>5, <2>2, AppendUpdates
      <3>2. Cardinality(Updates(req'.cmdQ)) = Cardinality(Updates(req.cmdQ))
        BY <1>1, <3>1, UpdatesFinite
      <3> QED
        BY <1>5, <3>2 DEF UpdatesMatched, Updates
    <2> QED
      BY <2>1, <2>2
  <1>7. ThreadsOK'
    <2>1. CASE creates
      <3>1. req.exit
        BY <2>1 DEF creates
      <3>2. ~vdin.on
        BY <3>1 DEF ThreadsOK, Streaming
      <3> QED
        BY <1>2, <1>5, <2>1, <3>2 DEF ThreadsOK, Streaming
    <2>2. CASE ~creates
      BY <1>2, <1>5, <2>2, NotifiedType DEF ThreadsOK
    <2> QED
      BY <2>1, <2>2
  <1>8. pc' # "dequeue" \/ pc' = pc
    BY <1>2, NotifiedType
  <1>9. PlacesOK'
    BY <1>8, PlacesKept
  <1> QED
    BY <1>2, <1>4, <1>6, <1>7, <1>9, NotifiedType

LEMMA PresentInv ==
  ASSUME IInv, NEW c \in Flags, Present(c)
  PROVE  IInv'
  <1>1. c \in Presents \cup {"capture"} /\ sf.pc = "idle" /\ Queued(c)
    BY FlagsAssumption DEF Present
  <1>2. UNCHANGED <<cyc, vdin, vout, cap, sf>>
    BY DEF Present
  <1> QED
    BY <1>1, <1>2, QueuedInv DEF IInv, TypeOK

\* A step of the client of a capture changes nothing that the invariant ties.
LEMMA CapOnly ==
  ASSUME IInv, UNCHANGED <<req, cyc, vdin, vout, sf, pc>>,
         cap' \in [pc : {"idle", "ask", "wait"}, proc : BOOLEAN, status : {0, 1}]
  PROVE  IInv'
  <1>1. TypeOK'
    BY DEF IInv, TypeOK
  <1>2. UpdatesMatched' /\ PlacesOK'
    BY MatchedKept, PlacesKept DEF IInv
  <1>3. ThreadsOK'
    BY DEF IInv, ThreadsOK
  <1> QED
    BY <1>1, <1>2, <1>3 DEF IInv

LEMMA CaptureInv == IInv /\ CaptureStep => IInv'
  <1> SUFFICES ASSUME IInv, CaptureStep PROVE IInv'
    OBVIOUS
  <1>1. CASE AskCapture
    BY <1>1, CapOnly DEF AskCapture, IInv, TypeOK
  <1>2. CASE PresentCapture
    <2>1. cap' \in [pc : {"idle", "ask", "wait"}, proc : BOOLEAN, status : {0, 1}]
      BY <1>2 DEF PresentCapture, IInv, TypeOK
    <2>2. CASE req.stat = "start"
      <3>1. Queued("capture") /\ sf.pc = "idle" /\ UNCHANGED <<cyc, vdin, vout, sf>>
        BY <1>2, <2>2 DEF PresentCapture
      <3> QED
        BY <2>1, <3>1, QueuedInv DEF IInv, TypeOK
    <2>3. CASE req.stat # "start"
      BY <1>2, <2>1, <2>3, CapOnly DEF PresentCapture
    <2> QED
      BY <2>2, <2>3
  <1>3. CASE CaptureReturns
    BY <1>3, CapOnly DEF CaptureReturns, IInv, TypeOK
  <1> QED
    BY <1>1, <1>2, <1>3 DEF CaptureStep

----------------------------------------------------------------------------
(* The processing thread *)

LEMMA StartVdinInv == IInv /\ StartVdin => IInv'
  <1> SUFFICES ASSUME IInv, StartVdin PROVE IInv'
    OBVIOUS
  <1> USE DEF IInv
  <1>1. cyc.queue = <<>> /\ cyc.onScreen = None
    BY DEF StartVdin, ThreadsOK, PlacesOK, Streaming
  <1>2. TypeOK'
    BY DEF StartVdin, TypeOK, CycState
  <1>3. UpdatesMatched'
    BY MatchedKept DEF StartVdin
  <1>4. ThreadsOK'
    BY DEF StartVdin, ThreadsOK, Streaming
  <1>5. cyc'.queue = <<>> /\ cyc'.onScreen = None /\ vdin'.held = Bufs /\ vdin'.on
        /\ pc' # "dequeue"
    BY <1>1 DEF StartVdin, TypeOK, CycState
  <1>6. Items(<<>>) = {} /\ Distinct(<<>>) /\ Len(<<>>) = 0
    BY DEF Items, Distinct
  <1>7. Placed(cyc'.queue, cyc'.onScreen, vdin'.held)
    BY <1>5, <1>6, BufsAssumption DEF Placed
  <1>8. Taken(cyc') = 0
    BY <1>5, <1>6 DEF Taken
  <1>9. PlacesOK'
    BY <1>5, <1>7, <1>8, CapCntType DEF PlacesOK
  <1> QED
    BY <1>2, <1>3, <1>4, <1>9

LEMMA LoopInv == IInv /\ Loop => IInv'
  <1> SUFFICES ASSUME IInv, Loop PROVE IInv'
    OBVIOUS
  <1> USE DEF IInv
  <1>1. pc' \in {"leave", "command"} /\ pc = "loop" /\ UNCHANGED <<req, cyc, vdin, vout, cap, sf>>
    BY DEF Loop
  <1>2. TypeOK'
    BY <1>1 DEF TypeOK
  <1>3. ThreadsOK'
    BY <1>1 DEF ThreadsOK, Streaming
  <1> QED
    BY <1>1, <1>2, <1>3, MatchedKept, PlacesKept

LEMMA EnterType ==
  ASSUME TypeOK, NEW C \in CycState, C.queue = cyc.queue, C.onScreen = cyc.onScreen, Enter(C)
  PROVE  /\ cyc' \in CycState /\ cyc'.queue = cyc.queue /\ cyc'.onScreen = cyc.onScreen
         /\ pc' \in {"wait", "work"}
  BY DEF Enter

LEMMA OrderedType ==
  ASSUME TypeOK, NEW c \in Cmds
  PROVE  /\ Ordered(c) \in CycState
         /\ Ordered(c).queue = cyc.queue /\ Ordered(c).onScreen = cyc.onScreen
  <1> DEFINE C == [cyc EXCEPT !.preCap = c = "capture"]
  <1>1. C \in CycState /\ C.queue = cyc.queue /\ C.onScreen = cyc.onScreen
    BY DEF TypeOK, CycState
  <1> HIDE DEF C
  <1>2. CASE c \in {"sideband", "blankSideband"}
    <2>1. Ordered(c) = [C EXCEPT !.mode = "always"]
      BY <1>2 DEF Ordered, C
    <2> QED
      BY <1>1, <2>1 DEF CycState
  <1>3. CASE c \in {"capture", "blank", "frame"}
    <2>1. Ordered(c) = [C EXCEPT !.mode = "once", !.capCnt = CapCnt]
      BY <1>3 DEF Ordered, C
    <2>2. CapCnt \in 0..CapCnt
      BY CapCntType
    <2> QED
      BY <1>1, <2>1, <2>2 DEF CycState
  <1>4. CASE c = "update"
    <2>1. Ordered(c) = C
      BY <1>4 DEF Ordered, C
    <2> QED
      BY <1>1, <2>1
  <1> QED
    BY <1>2, <1>3, <1>4 DEF Cmds, Presents

LEMMA TakeCommandInv == IInv /\ TakeCommand => IInv'
  <1> SUFFICES ASSUME IInv, TakeCommand PROVE IInv'
    OBVIOUS
  <1> USE DEF IInv
  <1> DEFINE c == Head(req.cmdQ)
  <1>1. /\ req.cmdQ \in Seq(Cmds) /\ req.reqs \in Seq(Processors \cup {None})
        /\ req.cmdQ # <<>> /\ pc = "command" /\ req \in ReqState
        /\ UNCHANGED <<vdin, vout, sf>>
    BY DEF TypeOK, ReqState, TakeCommand
  <1>2. c \in Cmds /\ Tail(req.cmdQ) \in Seq(Cmds)
    BY <1>1
  <1>3. /\ req' = IF c = "update"
                 THEN [req EXCEPT !.cmdQ = Tail(@), !.reqs = Tail(@), !.proc = Head(req.reqs)]
                 ELSE [req EXCEPT !.cmdQ = Tail(@)]
        /\ cap' = IF c = "capture" THEN [cap EXCEPT !.status = 1] ELSE cap
        /\ Enter(Ordered(c))
    BY DEF TakeCommand
  <1> HIDE DEF c
  <1>4. /\ cyc' \in CycState /\ cyc'.queue = cyc.queue /\ cyc'.onScreen = cyc.onScreen
        /\ pc' \in {"wait", "work"}
    BY <1>2, <1>3, OrderedType, EnterType
  <1>5. Cardinality(Updates(req.cmdQ)) =
          Cardinality(Updates(Tail(req.cmdQ))) + IF c = "update" THEN 1 ELSE 0
    BY <1>1, TailUpdates DEF c
  <1>6. Cardinality(Updates(Tail(req.cmdQ))) \in Nat
    BY <1>2, UpdatesFinite
  <1>7. req' \in ReqState /\ req'.exit = req.exit /\ UpdatesMatched'
    <2>1. CASE c = "update"
      <3>1. Len(req.reqs) >= 1
        BY <1>5, <1>6, <2>1, MatchedDef
      <3>2. /\ Head(req.reqs) \in Processors \cup {None}
            /\ Tail(req.reqs) \in Seq(Processors \cup {None})
            /\ Len(Tail(req.reqs)) = Len(req.reqs) - 1
        BY <1>1, <3>1
      <3>3. /\ req' \in ReqState /\ req'.exit = req.exit
            /\ req'.cmdQ = Tail(req.cmdQ) /\ req'.reqs = Tail(req.reqs)
        BY <1>1, <1>2, <1>3, <2>1, <3>2 DEF ReqState
      <3>4. Len(req'.reqs) = Cardinality(Updates(req'.cmdQ))
        BY <1>5, <1>6, <2>1, <3>2, <3>3, MatchedDef
      <3> QED
        BY <3>3, <3>4 DEF UpdatesMatched, Updates
    <2>2. CASE c # "update"
      <3>1. /\ req' \in ReqState /\ req'.exit = req.exit
            /\ req'.cmdQ = Tail(req.cmdQ) /\ req'.reqs = req.reqs
        BY <1>1, <1>2, <1>3, <2>2 DEF ReqState
      <3>2. Len(req'.reqs) = Cardinality(Updates(req'.cmdQ))
        BY <1>5, <1>6, <2>2, <3>1, MatchedDef
      <3> QED
        BY <3>1, <3>2 DEF UpdatesMatched, Updates
    <2> QED
      BY <2>1, <2>2
  <1>8. cap' \in [pc : {"idle", "ask", "wait"}, proc : BOOLEAN, status : {0, 1}]
    BY <1>3 DEF TypeOK
  <1>9. TypeOK'
    BY <1>1, <1>4, <1>7, <1>8 DEF TypeOK
  <1>10. ThreadsOK'
    BY <1>1, <1>4, <1>7 DEF ThreadsOK, Streaming
  <1>11. PlacesOK'
    BY <1>1, <1>4, PlacesKept
  <1> QED
    BY <1>7, <1>9, <1>10, <1>11

LEMMA NoCommandInv == IInv /\ NoCommand => IInv'
  <1> SUFFICES ASSUME IInv, NoCommand PROVE IInv'
    OBVIOUS
  <1> USE DEF IInv
  <1> DEFINE C == IF cyc.mode = "once" /\ cyc.preCap
                  THEN [cyc EXCEPT !.mode = "always"] ELSE cyc
  <1>1. C \in CycState /\ C.queue = cyc.queue /\ C.onScreen = cyc.onScreen
    BY DEF TypeOK, CycState
  <1>2. Enter(C) /\ pc = "command" /\ UNCHANGED <<req, vdin, vout, cap, sf>>
    BY DEF NoCommand
  <1> HIDE DEF C
  <1>3. /\ cyc' \in CycState /\ cyc'.queue = cyc.queue /\ cyc'.onScreen = cyc.onScreen
        /\ pc' \in {"wait", "work"}
    BY <1>1, <1>2, EnterType
  <1>4. TypeOK'
    BY <1>2, <1>3 DEF TypeOK
  <1>5. ThreadsOK'
    BY <1>2, <1>3 DEF ThreadsOK, Streaming
  <1> QED
    BY <1>2, <1>3, <1>4, <1>5, MatchedKept, PlacesKept

LEMMA GoIdleInv == IInv /\ GoIdle => IInv'
  <1> SUFFICES ASSUME IInv, GoIdle PROVE IInv'
    OBVIOUS
  <1> USE DEF IInv
  <1>1. pc = "work" /\ pc' = "loop" /\ UNCHANGED <<req, vdin, vout, cap, sf>>
    BY DEF GoIdle
  <1>2. cyc' \in CycState /\ cyc'.queue = cyc.queue /\ cyc'.onScreen = cyc.onScreen
    <2>1. 0 \in 0..CapCnt
      BY CapCntType
    <2> QED
      BY <2>1 DEF TypeOK, CycState, GoIdle
  <1>3. TypeOK'
    BY <1>1, <1>2 DEF TypeOK
  <1>4. ThreadsOK'
    BY <1>1 DEF ThreadsOK, Streaming
  <1> QED
    BY <1>1, <1>2, <1>3, <1>4, MatchedKept, PlacesKept

\* While vdin streams the queue is as long as what is taken, less the one on screen.
LEMMA TakenType ==
  ASSUME NEW C \in CycState
  PROVE  /\ Len(C.queue) \in Nat /\ Taken(C) \in Nat
         /\ C.onScreen = None => Taken(C) = Len(C.queue)
         /\ C.onScreen # None => Taken(C) = Len(C.queue) + 1
  <1>1. Len(C.queue) \in Nat
    BY DEF CycState
  <1>2. CASE C.onScreen = None
    <2>1. Taken(C) = Len(C.queue) + 0
      BY <1>2 DEF Taken
    <2> QED
      BY <1>1, <1>2, <2>1
  <1>3. CASE C.onScreen # None
    <2>1. Taken(C) = Len(C.queue) + 1
      BY <1>3 DEF Taken
    <2> QED
      BY <1>1, <1>3, <2>1
  <1> QED
    BY <1>2, <1>3

LEMMA RecycleInv == IInv /\ Recycle => IInv'
  <1> SUFFICES ASSUME IInv, Recycle PROVE IInv'
    OBVIOUS
  <1> USE DEF IInv
  <1> DEFINE n     == Least(Wanted(cyc), Len(cyc.queue))
             front == SubSeq(cyc.queue, 1, n)
             rest  == SubSeq(cyc.queue, n + 1, Len(cyc.queue))
  <1>1. /\ pc = "work" /\ pc' = "dequeue" /\ ~(Wanted(cyc) = 0 /\ Taken(cyc) = CapCnt)
        /\ vdin' = [vdin EXCEPT !.held = @ \cup Items(front)]
        /\ cyc' = [cyc EXCEPT !.queue = rest, !.capCnt = Wanted(cyc) - n]
        /\ UNCHANGED <<req, vout, cap, sf>>
    BY DEF Recycle
  <1>2. cyc \in CycState /\ cyc.queue \in Seq(Bufs) /\ Len(cyc.queue) \in Nat
    BY DEF TypeOK, CycState
  <1>3. Wanted(cyc) \in 0..CapCnt
    BY <1>2, CapCntType DEF Wanted, CycState
  <1>4. /\ n \in 0..Len(cyc.queue) /\ n <= Wanted(cyc)
        /\ Wanted(cyc) >= 1 /\ Len(cyc.queue) >= 1 => n >= 1
    BY <1>2, <1>3, CapCntType DEF Least
  <1>5. vdin.on /\ Placed(cyc.queue, cyc.onScreen, vdin.held) /\ Taken(cyc) <= CapCnt
    BY <1>1 DEF ThreadsOK, Streaming, PlacesOK
  <1> HIDE DEF n
  <1>6. /\ rest \in Seq(Bufs) /\ Len(rest) = Len(cyc.queue) - n /\ Distinct(rest)
        /\ Items(cyc.queue) = Items(front) \cup Items(rest)
        /\ Items(front) \cap Items(rest) = {}
    BY <1>2, <1>4, <1>5, SplitItems DEF Placed
  <1>7. Wanted(cyc) - n \in 0..CapCnt
    BY <1>2, <1>3, <1>4, CapCntType
  <1> HIDE DEF front, rest
  <1>8. /\ cyc' \in CycState /\ cyc'.queue = rest /\ cyc'.onScreen = cyc.onScreen
    BY <1>1, <1>2, <1>6, <1>7 DEF CycState
  <1>9. Items(cyc.queue) \subseteq Bufs
    BY <1>2 DEF Items
  <1>10. /\ vdin' \in [on : BOOLEAN, held : SUBSET Bufs]
         /\ vdin'.on = vdin.on /\ vdin'.held = vdin.held \cup Items(front)
    BY <1>1, <1>6, <1>9 DEF TypeOK
  <1>11. Placed(cyc'.queue, cyc'.onScreen, vdin'.held)
    BY <1>5, <1>6, <1>8, <1>9, <1>10 DEF Placed
  <1>12. Taken(cyc') < CapCnt
    <2>1. CASE Wanted(cyc) = 0
      <3>1. n = 0
        BY <1>2, <1>3, <1>4, <2>1
      <3>2. Len(cyc'.queue) = Len(cyc.queue)
        BY <1>2, <1>6, <1>8, <3>1
      <3>3. Taken(cyc') = Taken(cyc)
        BY <1>8, <3>2 DEF Taken
      <3> QED
        BY <1>1, <1>2, <1>5, <2>1, <3>3, TakenType, CapCntType
    <2>2. CASE Wanted(cyc) # 0 /\ Len(cyc.queue) = 0
      <3>1. Len(cyc'.queue) = 0
        BY <1>2, <1>4, <1>6, <1>8, <2>2
      <3> QED
        BY <3>1, CapCntType DEF Taken
    <2>3. CASE Wanted(cyc) # 0 /\ Len(cyc.queue) # 0
      <3>1. n >= 1
        BY <1>2, <1>3, <1>4, <2>3, CapCntType
      <3>2. Len(cyc'.queue) < Len(cyc.queue)
        BY <1>2, <1>4, <1>6, <1>8, <3>1
      <3>3. Taken(cyc') < Taken(cyc)
        BY <1>2, <1>8, <3>2, TakenType
      <3> QED
        BY <1>2, <1>5, <1>8, <3>3, TakenType, CapCntType
    <2> QED
      BY <2>1, <2>2, <2>3
  <1>13. TypeOK'
    BY <1>1, <1>8, <1>10 DEF TypeOK
  <1>14. ThreadsOK'
    BY <1>1, <1>10 DEF ThreadsOK, Streaming
  <1>15. PlacesOK'
    BY <1>5, <1>8, <1>10, <1>11, <1>12, TakenType, CapCntType DEF PlacesOK
  <1> QED
    BY <1>1, <1>13, <1>14, <1>15, MatchedKept

LEMMA DequeueFailsInv == IInv /\ DequeueFails => IInv'
  <1> SUFFICES ASSUME IInv, DequeueFails PROVE IInv'
    OBVIOUS
  <1> USE DEF IInv
  <1>1. pc = "dequeue" /\ pc' = "loop" /\ UNCHANGED <<req, cyc, vdin, vout, cap, sf>>
    BY DEF DequeueFails
  <1>2. TypeOK' /\ ThreadsOK'
    BY <1>1 DEF TypeOK, ThreadsOK, Streaming
  <1> QED
    BY <1>1, <1>2, MatchedKept, PlacesKept

LEMMA AssertFailsInv == IInv /\ AssertFails => IInv'
  <1> SUFFICES ASSUME IInv, AssertFails PROVE IInv'
    OBVIOUS
  <1> USE DEF IInv
  <1>1. pc = "dequeue" /\ pc' = "aborted" /\ UNCHANGED <<req, cyc, vdin, vout, cap, sf>>
    BY DEF AssertFails
  <1>2. TypeOK' /\ ThreadsOK'
    BY <1>1 DEF TypeOK, ThreadsOK, Streaming
  <1> QED
    BY <1>1, <1>2, MatchedKept, PlacesKept

\* The buffer displayed before joins the queue; nothing else moves.
LEMMA PushedBackPlaced ==
  ASSUME cyc \in CycState, Placed(cyc.queue, cyc.onScreen, vdin.held)
  PROVE  /\ PushedBack \in Seq(Bufs) /\ Len(PushedBack) = Taken(cyc)
         /\ vdin.held = Bufs \ Items(PushedBack)
         /\ Distinct(PushedBack)
  <1>1. cyc.queue \in Seq(Bufs) /\ cyc.onScreen \in Bufs \cup {None} /\ None \notin Bufs
    BY BufsAssumption DEF CycState
  <1>2. CASE cyc.onScreen = None
    BY <1>1, <1>2, TakenType DEF PushedBack, Placed
  <1>3. CASE cyc.onScreen # None
    <2>1. /\ PushedBack \in Seq(Bufs) /\ Len(PushedBack) = Len(cyc.queue) + 1
          /\ Items(PushedBack) = Items(cyc.queue) \cup {cyc.onScreen}
          /\ Distinct(PushedBack)
      BY <1>1, <1>3, AppendItems DEF PushedBack, Placed
    <2> QED
      BY <1>3, <2>1, TakenType DEF Placed
  <1> QED
    BY <1>2, <1>3

LEMMA ConsumedPlaced ==
  ASSUME cyc \in CycState, Placed(cyc.queue, cyc.onScreen, vdin.held),
         NEW b \in vdin.held
  PROVE  /\ Consumed(b) \in CycState
         /\ Placed(Consumed(b).queue, Consumed(b).onScreen, vdin.held \ {b})
         /\ Taken(Consumed(b)) = Taken(cyc) + 1
  <1>1. /\ PushedBack \in Seq(Bufs) /\ Len(PushedBack) = Taken(cyc)
        /\ vdin.held = Bufs \ Items(PushedBack) /\ Distinct(PushedBack)
        /\ b \in Bufs /\ b \notin Items(PushedBack) /\ b # None /\ Taken(cyc) \in Nat
    BY PushedBackPlaced, TakenType, BufsAssumption DEF Placed
  <1>2. CASE req.proc # None
    <2>1. /\ Append(PushedBack, b) \in Seq(Bufs)
          /\ Len(Append(PushedBack, b)) = Taken(cyc) + 1
          /\ Items(Append(PushedBack, b)) = Items(PushedBack) \cup {b}
          /\ Distinct(Append(PushedBack, b))
      BY <1>1, AppendItems
    <2>2. /\ Consumed(b) \in CycState
          /\ Consumed(b).queue = Append(PushedBack, b) /\ Consumed(b).onScreen = None
      BY <1>2, <2>1 DEF Consumed, CycState
    <2>3. None \notin Items(Append(PushedBack, b))
      BY <1>1, <2>1, BufsAssumption DEF Items
    <2>4. Placed(Append(PushedBack, b), None, vdin.held \ {b})
      BY <1>1, <2>1, <2>3, BufsAssumption DEF Placed
    <2>5. Taken(Consumed(b)) = Len(Append(PushedBack, b))
      BY <2>2, TakenType
    <2> QED
      BY <2>1, <2>2, <2>4, <2>5
  <1>3. CASE req.proc = None
    <2>1. /\ Consumed(b) \in CycState
          /\ Consumed(b).queue = PushedBack /\ Consumed(b).onScreen = b
      BY <1>1, <1>3 DEF Consumed, CycState
    <2>2. Placed(PushedBack, b, vdin.held \ {b})
      BY <1>1 DEF Placed
    <2>3. Taken(Consumed(b)) = Len(PushedBack) + 1
      BY <1>1, <2>1, TakenType
    <2> QED
      BY <1>1, <2>1, <2>2, <2>3
  <1> QED
    BY <1>2, <1>3

LEMMA DequeueInv == IInv /\ Dequeue => IInv'
  <1> SUFFICES ASSUME IInv, Dequeue PROVE IInv'
    OBVIOUS
  <1> USE DEF IInv
  <1>1. /\ pc = "dequeue" /\ pc' = "loop" /\ cap' = Captured /\ UNCHANGED <<req, sf>>
    BY DEF Dequeue
  <1>2. PICK b \in vdin.held, same \in BOOLEAN, moved \in BOOLEAN :
          /\ vdin' = [vdin EXCEPT !.held = @ \ {b}]
          /\ cyc' = [Consumed(b) EXCEPT !.fresh = FALSE]
          /\ vout' = [vout EXCEPT !.shown =
                        IF req.proc # None
                        THEN IF same /\ ~moved THEN @ ELSE "processed"
                        ELSE IF same THEN @ ELSE b]
    BY DEF Dequeue
  <1>3. /\ vdin.on /\ Placed(cyc.queue, cyc.onScreen, vdin.held) /\ Taken(cyc) < CapCnt
        /\ cyc \in CycState /\ b \in Bufs
    BY <1>1, <1>2 DEF ThreadsOK, Streaming, PlacesOK, TypeOK
  <1>4. /\ Consumed(b) \in CycState
        /\ Placed(Consumed(b).queue, Consumed(b).onScreen, vdin.held \ {b})
        /\ Taken(Consumed(b)) = Taken(cyc) + 1
    BY <1>2, <1>3, ConsumedPlaced
  <1>5. /\ cyc' \in CycState /\ cyc'.queue = Consumed(b).queue
        /\ cyc'.onScreen = Consumed(b).onScreen
    BY <1>2, <1>4 DEF CycState
  <1>6. /\ vdin' \in [on : BOOLEAN, held : SUBSET Bufs]
        /\ vdin'.on = vdin.on /\ vdin'.held = vdin.held \ {b}
    BY <1>2 DEF TypeOK
  <1>7. Taken(cyc') <= CapCnt
    <2>1. Taken(cyc') = Taken(cyc) + 1
      BY <1>4, <1>5 DEF Taken
    <2> QED
      BY <1>3, <2>1, TakenType, CapCntType
  <1>8. vout' \in VoutState
    <2>1. vout \in VoutState
      BY DEF TypeOK
    <2> QED
      BY <1>2, <1>3, <2>1 DEF VoutState
  <1>9. cap' \in [pc : {"idle", "ask", "wait"}, proc : BOOLEAN, status : {0, 1}]
    BY <1>1 DEF TypeOK, Captured
  <1>10. TypeOK'
    BY <1>1, <1>5, <1>6, <1>8, <1>9 DEF TypeOK
  <1>11. ThreadsOK'
    BY <1>1, <1>6 DEF ThreadsOK, Streaming
  <1>12. PlacesOK'
    BY <1>1, <1>3, <1>4, <1>5, <1>6, <1>7 DEF PlacesOK
  <1> QED
    BY <1>1, <1>10, <1>11, <1>12, MatchedKept

LEMMA LeaveInv == IInv /\ Leave => IInv'
  <1> SUFFICES ASSUME IInv, Leave PROVE IInv'
    OBVIOUS
  <1> USE DEF IInv
  <1>1. /\ pc = "leave" /\ pc' = "ended" /\ vdin' = [on |-> FALSE, held |-> {}]
        /\ UNCHANGED <<req, cap, sf>>
    BY DEF Leave
  <1>2. cyc' \in CycState /\ cyc'.queue = <<>> /\ cyc'.onScreen = None
    <2>1. cyc \in CycState /\ cyc' = [cyc EXCEPT !.queue = <<>>, !.onScreen = None]
      BY DEF Leave, TypeOK
    <2>2. <<>> \in Seq(Bufs)
      OBVIOUS
    <2> QED
      BY <2>1, <2>2 DEF CycState
  <1>3. vout' \in VoutState
    BY DEF Leave, TypeOK, VoutState
  <1>4. TypeOK'
    BY <1>1, <1>2, <1>3 DEF TypeOK
  <1>5. ThreadsOK' /\ PlacesOK'
    BY <1>1, <1>2 DEF ThreadsOK, PlacesOK, Streaming
  <1> QED
    BY <1>1, <1>4, <1>5, MatchedKept

----------------------------------------------------------------------------

LEMMA NextInv == IInv /\ [Next]_vars => IInv'
  <1> SUFFICES ASSUME IInv, [Next]_vars PROVE IInv'
    OBVIOUS
  <1>1. CASE SfStep
    BY <1>1, StartInv, StopInv, SetFbProcessorInv, PresentInv DEF SfStep
  <1>2. CASE JoinStep
    BY <1>2, StopJoinedInv, RestartJoinedInv DEF JoinStep
  <1>3. CASE CaptureStep
    BY <1>3, CaptureInv
  <1>4. CASE ThreadStep
    BY <1>4, StartVdinInv, LoopInv, TakeCommandInv, NoCommandInv, GoIdleInv,
       RecycleInv, DequeueFailsInv, AssertFailsInv, DequeueInv, LeaveInv DEF ThreadStep
  <1>5. CASE UNCHANGED vars
    <2>1. UNCHANGED <<req, cyc, vdin, vout, cap, sf, pc>>
      BY <1>5 DEF vars
    <2>2. TypeOK' /\ ThreadsOK'
      BY <2>1 DEF IInv, TypeOK, ThreadsOK
    <2> QED
      BY <2>1, <2>2, MatchedKept, PlacesKept DEF IInv
  <1> QED
    BY <1>1, <1>2, <1>3, <1>4, <1>5 DEF Next

LEMMA InvariantHolds == Spec => []IInv
  BY InitInv, NextInv, PTL DEF Spec

\* Every variable keeps its type; in particular capCnt never becomes negative
\* and never exceeds VDIN_CAP_CNT.
THEOREM TypeCorrect == Spec => []TypeOK
  BY InvariantHolds, PTL DEF IInv

\* mReqFbProcessor has one processor for every PRESENT_UPDATE_PROCESSOR that
\* waits in mCmdQ: its front and pop in process never meet an empty queue.
THEOREM UpdatesAlwaysMatched == Spec => []UpdatesMatched
  BY InvariantHolds, PTL DEF IInv

\* No vdin buffer is lost or in two places, whatever the order of processors.
THEOREM NoBufferLost == Spec => []BuffersAccounted
  <1>1. IInv => BuffersAccounted
    BY DEF IInv, PlacesOK, Placed, Distinct, BuffersAccounted
  <1> QED
    BY <1>1, InvariantHolds, PTL

\* "vdin will keep one frame always": the driver always has a buffer to fill,
\* for any number of buffers from three on.
THEOREM VdinNeverStarves == Spec => []VdinKeepsOne
  <1>1. ASSUME IInv, vdin.on PROVE vdin.held # {}
    <2>1. /\ Placed(cyc.queue, cyc.onScreen, vdin.held) /\ Taken(cyc) <= CapCnt
          /\ cyc \in CycState
      BY <1>1 DEF IInv, PlacesOK, TypeOK
    <2>2. /\ PushedBack \in Seq(Bufs) /\ Len(PushedBack) = Taken(cyc)
          /\ vdin.held = Bufs \ Items(PushedBack)
      BY <2>1, PushedBackPlaced
    <2>3. IsFiniteSet(Items(PushedBack)) /\ Cardinality(Items(PushedBack)) <= Taken(cyc)
      BY <2>2, ItemsBound
    <2>4. SUFFICES ASSUME vdin.held = {} PROVE FALSE
      OBVIOUS
    <2>5. Bufs \in SUBSET Items(PushedBack)
      BY <2>2, <2>4
    <2>6. Cardinality(Bufs) <= Cardinality(Items(PushedBack))
      BY <2>3, <2>5, FS_Subset
    <2>7. Cardinality(Items(PushedBack)) \in Nat
      BY <2>3, FS_CardinalityType
    <2> QED
      BY <2>1, <2>3, <2>6, <2>7, TakenType, CapCntType
  <1>2. IInv => VdinKeepsOne
    BY <1>1 DEF VdinKeepsOne
  <1> QED
    BY <1>2, InvariantHolds, PTL

\* Both of them, in the form the runs check.
THEOREM BuffersKept == Spec => []VdinBuffers
  <1>1. VdinKeepsOne /\ BuffersAccounted => VdinBuffers
    BY DEF VdinBuffers
  <1> QED
    BY <1>1, VdinNeverStarves, NoBufferLost, PTL
=============================================================================
