----------------------- MODULE OverlayResources_proofs -----------------------
(***************************************************************************)
(* What is proved of the assignment of the layers of a frame: whatever     *)
(* layers there are, how many channels and how large a G2D, it ends, shows *)
(* every layer and keeps their order.                                      *)
(*                                                                         *)
(* The parts follow the code from the inside out: one layer that joins a   *)
(* composition, with all that it pulls along; one pass; the walks after    *)
(* the passes; the windows.  A walk over layers is followed layer by       *)
(* layer, and by the least counterexample (Least, UpTo).                   *)
(***************************************************************************)
EXTENDS OverlayResources, FiniteSetTheorems, WellFoundedInduction, TLAPS

-----------------------------------------------------------------------------
(* The invariant: what a plan is between two operations.                   *)

\* The types of plans.
Types == {"invalid", "client", "exynos", "device"}
Compositions == [has : BOOLEAN, first : Int, last : Int, otf : Int]
Results == {"ok", "changed", "error"}
Plans == [type : [Idx -> Types], client : Compositions, exynos : Compositions,
          m2m : BOOLEAN, owner : [Otfs -> Int], g2d : SUBSET Idx, reserved : BOOLEAN,
          windows : Int, ret : Results, window : [Sources -> Int]]

\* The layers that each composition has by their types.
ClientLayers(p) == {i \in Idx : p.type[i] = "client"}
ExynosLayers(p) == {i \in Idx : p.type[i] = "exynos"}

\* Every layer of the range c that is not in C lies above a cleared client target.
Tight(c, C) ==
    /\ c.first \in C /\ c.last \in C
    /\ \A j \in c.first .. c.last : j \in C \/ NeedClearClientTarget(j)

\* The range c of a composition whose layers are C: between its ends only layers of high
\* priority may be left out; where no two of them are adjacent, its ends are layers of C.
Around(c, C) ==
    /\ c.first \in Idx /\ c.last \in Idx /\ c.first <= c.last
    /\ \A j \in c.first .. c.last : j \in C \/ IsHigh(j)
    /\ HighApart => Tight(c, C)

\* The client composition has a range exactly when it has layers, and the range holds them.
ClientOk(p) ==
    /\ p.client.has = TRUE => /\ Around(p.client, ClientLayers(p))
                              /\ ClientLayers(p) \subseteq p.client.first .. p.client.last
    /\ p.client.has = FALSE => ClientLayers(p) = {}

\* The layers of the exynos composition are such that the G2D can show, and have a source of it.
G2dOk(p) == \A i \in ExynosLayers(p) : stack[i].g2d = TRUE /\ i \in p.g2d

\* A channel that a layer holds shows a layer of type device.
OwnersOk(p) == \A o \in Otfs : p.owner[o] \in Idx => p.type[p.owner[o]] = "device"

\* A nonempty exynos composition has a place in the stack (what addClientCompositionLayer asks).
InPlace(p) == ExynosLayers(p) # {} => p.exynos.first \in Idx /\ p.exynos.last \in Idx

\* What every operation on a plan needs and keeps.
Base(p) == p \in Plans /\ ClientOk(p) /\ G2dOk(p) /\ OwnersOk(p) /\ InPlace(p)

\* The stacks that the theorems are about: no layer of high priority can go to the G2D.
Plain == /\ stack \in [Idx -> Kinds]
         /\ \A i \in Idx : IsHigh(i) => stack[i].g2d = FALSE

\* The client composition holds its layers, but perhaps not i, which is to join it.
ClientBut(p, i) ==
    /\ p.client.has = TRUE => /\ Around(p.client, ClientLayers(p))
                              /\ ClientLayers(p) \subseteq (p.client.first .. p.client.last) \union {i}
    /\ p.client.has = FALSE => ClientLayers(p) \subseteq {i}

\* From p to q, layers moved towards the client composition only, and the channels they
\* left are free.
Moved(p, q) ==
    /\ q.reserved = p.reserved
    /\ \A k \in Idx : /\ p.type[k] = "client" => q.type[k] = "client"
                      /\ p.type[k] = "exynos" => q.type[k] \in {"exynos", "client"}
                      /\ q.type[k] \in {p.type[k], "exynos", "client"}
    /\ \A o \in Otfs :
          /\ q.owner[o] \in {p.owner[o], Free}
          /\ p.owner[o] \notin Idx => q.owner[o] = p.owner[o]
          /\ p.owner[o] \in Idx /\ q.type[p.owner[o]] = "device" => q.owner[o] = p.owner[o]

\* No composition was opened, closed or given another channel.
Keeps(p, q) ==
    /\ q.client.has = p.client.has /\ q.client.otf = p.client.otf
    /\ q.exynos.has = p.exynos.has /\ q.exynos.otf = p.exynos.otf /\ q.m2m = p.m2m

\* The three ways addClientCompositionLayer leaves the exynos composition: as it was, gone,
\* or with its ends on layers it still has.
SameExynos(p, q) == q.exynos = p.exynos /\ q.m2m = p.m2m
NoExynos(q) == q.exynos = NoComposition /\ q.m2m = FALSE
Shrunk(p, q) ==
    /\ q.exynos.has = p.exynos.has /\ q.exynos.otf = p.exynos.otf /\ q.m2m = p.m2m
    /\ q.exynos.first \in ExynosLayers(q) /\ q.exynos.last \in ExynosLayers(q)
    /\ \A j \in ExynosLayers(q) : q.exynos.first <= j /\ j <= q.exynos.last

\* No error.
Settled(q) == q.ret \in {"ok", "changed"}

\* Layer i has joined the client composition of p, with what the composition then surrounded.
JoinsClient(p, q, i) ==
    /\ Base(q) /\ Moved(p, q) /\ Settled(q) /\ (q.ret = "ok" => Keeps(p, q))
    /\ q.type[i] = "client" /\ ExynosLayers(q) \subseteq ExynosLayers(p) \ {i}
    /\ q.client.has = TRUE
    /\ q.client.first = IF p.client.has = TRUE /\ p.client.first < i THEN p.client.first ELSE i
    /\ q.client.last = IF p.client.has = TRUE /\ p.client.last > i THEN p.client.last ELSE i
    /\ \/ ExynosLayers(q) = ExynosLayers(p) \ {i} /\ SameExynos(p, q)
       \/ ExynosLayers(q) = {} /\ NoExynos(q) /\ q.ret = "changed"
       \/ ExynosLayers(q) # {} /\ Shrunk(p, q)
    /\ \A k \in ExynosLayers(p) \ ExynosLayers(q) : k = i \/ (q.client.first < k /\ k < q.client.last)

\* The range c holds all of S.
Within(c, S) == \A x \in S : c.first <= x /\ x <= c.last

\* Between two operations, an exynos composition is a range of adjacent layers of its type;
\* only the last may be a layer of high priority, if another one follows it.
Solid(p) ==
    /\ p.exynos.has = TRUE =>
         /\ p.exynos.first \in ExynosLayers(p) /\ p.exynos.last \in Idx
         /\ Within(p.exynos, ExynosLayers(p))
         /\ \A j \in Idx : p.exynos.first <= j /\ j < p.exynos.last => j \in ExynosLayers(p)
         /\ p.exynos.last \in ExynosLayers(p) \/ (IsHigh(p.exynos.last) /\ ~HighApart)
    /\ p.exynos.has = FALSE => ExynosLayers(p) = {}

\* What an operation on p that succeeds may leave.
Fine(p, q) == Base(q) /\ Moved(p, q) /\ Settled(q) /\ (q.ret = "ok" => Keeps(p, q))

\* The exynos range ends no later than its layers do, layers of high priority apart.
Gapless(p) == \A j \in Idx : p.exynos.first <= j /\ j <= p.exynos.last /\ ~IsHigh(j) =>
                 \E x \in ExynosLayers(p) : j <= x

\* While the layers between join an exynos composition (b before, a now), those below n have
\* joined one composition or the other.
Taking(b, a, n) ==
    /\ Fine(b, a) /\ a.exynos.has = TRUE /\ a.m2m = TRUE
    /\ a.exynos.first \in ExynosLayers(a) /\ a.exynos.last \in Idx
    /\ b.exynos.first <= a.exynos.first /\ a.exynos.last <= b.exynos.last
    /\ Within(a.exynos, ExynosLayers(a)) /\ Gapless(a)
    /\ \A k \in Idx : b.exynos.first <= k /\ k <= b.exynos.last /\ k < n /\ ~IsHigh(k) =>
          k \in ExynosLayers(a) \/ k \in ClientLayers(a)

\* After a nest is split: no layer of the client composition is left in the exynos range.
Loose(b, s) ==
    /\ Fine(b, s) /\ s.exynos.first \in Nat /\ s.exynos.last \in Int
    /\ b.exynos.first <= s.exynos.first /\ s.exynos.last <= b.exynos.last
    /\ Within(s.exynos, ExynosLayers(s))
    /\ \A j \in Idx : s.exynos.first <= j /\ j <= s.exynos.last => j \in ExynosLayers(s) \/ IsHigh(j)
    /\ ExynosLayers(s) # {} => s.exynos.has = TRUE /\ s.m2m = TRUE

\* While layers of high priority leave the ends of the exynos range (s before, d now): an end
\* below n is a layer of the composition.
Dropped(s, d, n) ==
    /\ d \in Plans /\ d.type = s.type /\ d.client = s.client /\ d.m2m = s.m2m /\ d.owner = s.owner
    /\ d.g2d = s.g2d /\ d.reserved = s.reserved /\ d.ret = s.ret
    /\ d.exynos.has = s.exynos.has /\ d.exynos.otf = s.exynos.otf
    /\ s.exynos.first <= d.exynos.first /\ d.exynos.last <= s.exynos.last
    /\ Within(d.exynos, ExynosLayers(d))
    /\ d.exynos.first < n => d.exynos.first \in ExynosLayers(d) \/ d.exynos.first > d.exynos.last
    /\ HighApart /\ d.exynos.last < n =>
          d.exynos.last \in ExynosLayers(d) \/ d.exynos.first > d.exynos.last

\* What the passes use up: layers in no composition, and layers that are not client.
Unplaced(p) == Idx \ (ClientLayers(p) \union ExynosLayers(p))
NotClient(p) == Idx \ ClientLayers(p)
Left(p) == Cardinality(Unplaced(p)) + Cardinality(NotClient(p))

-----------------------------------------------------------------------------
(* Numbers and layers.                                                     *)

\* Layers are numbers from 0.
LEMMA IdxNat ==
  /\ Idx \subseteq Nat /\ LayerCount \in Nat \ {0}
  /\ \A k : k \in Idx <=> k \in Int /\ 0 <= k /\ k < LayerCount
BY ResourceAssumption DEF Idx

\* A nonempty set of numbers has a least one; this stands for induction in what follows.
LEMMA Least == ASSUME NEW T \in SUBSET Nat, T # {} PROVE \E x \in T : \A y \in T : x <= y
<1> DEFINE R == OpToRel(<, Nat)
<1>1. IsWellFoundedOn(R, Nat)
  BY NatLessThanWellFounded
<1>2. \A x, y \in Nat : <<y, x>> \in R <=> y < x
  BY DEF OpToRel
<1> HIDE DEF R
<1>3. PICK x \in T : \A y \in T : ~ (<<y, x>> \in R)
  <2>1. T \subseteq Nat /\ T # {}
    OBVIOUS
  <2>2. \A Q, W, V : IsWellFoundedOn(Q, W) /\ V \subseteq W /\ V # {} =>
             \E x \in V : \A y \in V : ~ (<<y, x>> \in Q)
    BY WFMin, Zenon
  <2> QED BY <1>1, <2>1, <2>2
<1>4. ASSUME NEW y \in T PROVE x <= y
  <2>1. x \in Nat /\ y \in Nat /\ ~ (y < x)
    BY <1>2, <1>3
  <2> QED BY <2>1
<1> QED BY <1>4

\* What holds of 0, and of n + 1 if it holds of n, holds up to m.
LEMMA UpTo ==
  ASSUME NEW m \in Nat, NEW T, 0 \in T, \A n \in 0 .. m - 1 : n \in T => n + 1 \in T
  PROVE  \A n \in 0 .. m : n \in T
<1> DEFINE B == {n \in 0 .. m : n \notin T}
<1> SUFFICES ASSUME B # {} PROVE FALSE
  OBVIOUS
<1>0. B \in SUBSET Nat
  OBVIOUS
<1>1. PICK x \in B : \A y \in B : x <= y
  <2> HIDE DEF B
  <2> QED BY <1>0, Least
<1>2. x - 1 \in 0 .. m - 1 /\ x - 1 \notin B
  <2>1. x \in 0 .. m /\ x \notin T
    OBVIOUS
  <2>2. x # 0
    BY <2>1
  <2> QED BY <1>1, <2>1, <2>2
<1> QED BY <1>1, <1>2

\* A nonempty set of layers has a lowest and a highest one.
LEMMA Ends ==
  ASSUME NEW E, E \subseteq Idx, E # {}
  PROVE  /\ Lowest(E) \in E /\ \A j \in E : Lowest(E) <= j
         /\ Highest(E) \in E /\ \A j \in E : Highest(E) >= j
<1>1. E \in SUBSET Nat
  BY IdxNat
<1>2. \E x \in E : \A y \in E : x <= y
  BY <1>1, Least
<1>3. \E x \in E : \A y \in E : x >= y
  <2> DEFINE D == {n \in Nat : LayerCount - n \in E}
  <2>1. D # {}
    <3>1. PICK x : x \in E
      OBVIOUS
    <3>2. LayerCount - x \in D
      BY <3>1, IdxNat
    <3> QED BY <3>2
  <2>2. PICK d \in D : \A y \in D : d <= y
    <3>1. D \in SUBSET Nat
      OBVIOUS
    <3> HIDE DEF D
    <3> QED BY <2>1, <3>1, Least
  <2>3. ASSUME NEW y \in E PROVE LayerCount - d >= y
    <3>1. LayerCount - y \in D
      BY IdxNat
    <3>2. d <= LayerCount - y
      BY <2>2, <3>1
    <3> QED BY <3>2, IdxNat
  <2>4. LayerCount - d \in E
    OBVIOUS
  <2> QED BY <2>3, <2>4
<1> QED BY <1>2, <1>3 DEF Lowest, Highest

-----------------------------------------------------------------------------
(* addClientCompositionLayer.                                              *)

\* The layers S, and what they held, go to the client composition.
Absorbs(p, q, S) ==
    /\ q \in Plans /\ q.client.has = TRUE /\ q.client.otf = p.client.otf
    /\ q.reserved = p.reserved /\ q.g2d = p.g2d \ S
    /\ q.type = [j \in Idx |-> IF j \in S THEN "client" ELSE p.type[j]]
    /\ q.owner = [o \in Otfs |-> IF p.owner[o] \in S THEN Free ELSE p.owner[o]]

\* addClientCompositionLayer: the first layer opens the client composition; the pass starts again.
LEMMA FirstClient ==
  ASSUME NEW p, NEW i, p \in Plans, i \in Idx, p.client.has = FALSE
  PROVE  LET q == AddClient(p, i)
         IN  /\ Absorbs(p, q, {}) /\ SameExynos(p, q) /\ q.ret = "changed"
             /\ q.client.first = i /\ q.client.last = i
<1> DEFINE q == AddClient(p, i)
<1>1. i \in Int
  BY IdxNat
<1>2. q = [p EXCEPT !.client = [@ EXCEPT !.has = TRUE, !.first = i, !.last = i], !.ret = "changed"]
  BY DEF AddClient
<1>3. /\ p.client \in Compositions /\ p.type \in [Idx -> Types] /\ p.owner \in [Otfs -> Int]
      /\ p.g2d \subseteq Idx
  BY DEF Plans
<1>4. [p.client EXCEPT !.has = TRUE, !.first = i, !.last = i] \in Compositions
  BY <1>1, <1>3 DEF Compositions
<1>5. q \in Plans
  BY <1>2, <1>4 DEF Plans, Results
<1>6. /\ q.client.has = TRUE /\ q.client.otf = p.client.otf /\ q.client.first = i /\ q.client.last = i
      /\ q.ret = "changed" /\ q.exynos = p.exynos /\ q.m2m = p.m2m /\ q.reserved = p.reserved
      /\ q.type = p.type /\ q.owner = p.owner /\ q.g2d = p.g2d
  BY <1>2, <1>3 DEF Plans, Compositions
<1> HIDE DEF q
<1>7. p.g2d = p.g2d \ {}
  OBVIOUS
<1>8. p.type = [j \in Idx |-> IF j \in {} THEN "client" ELSE p.type[j]]
  BY <1>3
<1>9. p.owner = [o \in Otfs |-> IF p.owner[o] \in {} THEN Free ELSE p.owner[o]]
  BY <1>3
<1>10. Absorbs(p, q, {})
  BY <1>5, <1>6, <1>7, <1>8, <1>9 DEF Absorbs
<1>11. SameExynos(p, q)
  BY <1>6 DEF SameExynos
<1> QED BY <1>6, <1>10, <1>11 DEF q

\* A range that takes in layer i.
LEMMA SpanFields ==
  ASSUME NEW c, NEW i, c \in Compositions, i \in Int
  PROVE  /\ Span(c, i) \in Compositions /\ Span(c, i).has = c.has /\ Span(c, i).otf = c.otf
         /\ Span(c, i).first = IF c.first < i THEN c.first ELSE i
         /\ Span(c, i).last = IF c.last > i THEN c.last ELSE i
BY DEF Span, Compositions, Lower, Higher

\* addClientCompositionLayer: a later layer takes along what it surrounds.  It has the pass start
\* again exactly if that leaves the exynos composition empty, and it cannot fail.
LEMMA NextClient ==
  ASSUME NEW p, NEW i, p \in Plans, i \in Idx, p.client.has = TRUE,
         p.client.first \in Idx, p.client.last \in Idx, InPlace(p)
  PROVE  LET q == AddClient(p, i)
             S == Sandwiched(p, Span(p.client, i))
         IN  /\ Absorbs(p, q, S) /\ q.client = Span(p.client, i)
             /\ S \intersect ExynosLayers(p) = {} => SameExynos(p, q) /\ q.ret = "ok"
             /\ S \intersect ExynosLayers(p) # {} =>
                  \/ ExynosLayers(q) = {} /\ NoExynos(q) /\ q.ret = "changed"
                  \/ ExynosLayers(q) # {} /\ Shrunk(p, q) /\ q.ret = "ok"
<1> DEFINE q == AddClient(p, i)
           c == Span(p.client, i)
           S == Sandwiched(p, c)
           devices == {j \in S : p.type[j] = "device"}
           r == [SetType(Release(p, S), S, "client") EXCEPT
                     !.client = c, !.ret = "ok",
                     !.windows = Count(@ - Cardinality(devices))]
           E == {j \in Idx : r.type[j] = "exynos"}
<1>1. q = IF \A j \in S : p.type[j] # "exynos" THEN r
          ELSE IF p.exynos.first < 0 \/ p.exynos.last < 0 THEN [r EXCEPT !.ret = "error"]
          ELSE IF E = {} THEN [InitExynosInfo(r) EXCEPT !.ret = "changed"]
          ELSE [r EXCEPT !.exynos.first = Lowest(E), !.exynos.last = Highest(E)]
  BY DEF AddClient
<1>2. /\ p.client \in Compositions /\ p.type \in [Idx -> Types] /\ p.owner \in [Otfs -> Int]
      /\ p.g2d \subseteq Idx /\ p.exynos \in Compositions
  BY DEF Plans
<1>3. c \in Compositions /\ c.has = TRUE /\ c.otf = p.client.otf
  BY <1>2, SpanFields, IdxNat
<1>4. S \subseteq Idx
  <2>1. /\ c.first \in Int /\ c.last \in Int
        /\ c.first \in Idx /\ c.last \in Idx
    BY <1>2, SpanFields, IdxNat DEF Compositions
  <2>2. \A j \in c.first + 1 .. c.last - 1 : j \in Idx
    BY <2>1, IdxNat
  <2> HIDE DEF c
  <2> QED BY <2>2 DEF Sandwiched
<1> HIDE DEF c, S
<1>5. Count(p.windows - Cardinality(devices)) \in Int
  <2>1. IsFiniteSet(devices)
    <3>1. IsFiniteSet(Idx)
      BY FS_Interval, IdxNat DEF Idx
    <3> QED BY <1>4, <3>1, FS_Subset
  <2>2. Cardinality(devices) \in Int
    BY <2>1, FS_CardinalityType
  <2>3. p.windows \in Int /\ CountWrap \in Nat \ {0}
    BY ResourceAssumption DEF Plans
  <2> HIDE DEF devices
  <2> QED BY <2>2, <2>3 DEF Count
<1> DEFINE n == Count(p.windows - Cardinality(devices))
           ty == [j \in Idx |-> IF j \in S THEN "client" ELSE p.type[j]]
           ow == [o \in Otfs |-> IF p.owner[o] \in S THEN Free ELSE p.owner[o]]
<1>6. r = [p EXCEPT !.type = ty, !.owner = ow, !.g2d = p.g2d \ S, !.client = c,
                    !.ret = "ok", !.windows = n]
  BY DEF SetType, Release, Plans
<1>7. ty \in [Idx -> Types] /\ ow \in [Otfs -> Int] /\ p.g2d \ S \subseteq Idx
  BY <1>2 DEF Types, Free
<1>8. n \in Int
  BY <1>5
<1> HIDE DEF n, ty, ow, r
<1>9. r \in Plans
  BY <1>3, <1>6, <1>7, <1>8 DEF Plans, Results
<1>10. /\ r.type = ty /\ r.owner = ow /\ r.g2d = p.g2d \ S /\ r.client = c /\ r.ret = "ok"
       /\ r.exynos = p.exynos /\ r.m2m = p.m2m /\ r.reserved = p.reserved
  BY <1>6 DEF Plans
<1>11. Absorbs(p, r, S)
  BY <1>3, <1>9, <1>10 DEF Absorbs, ty, ow
<1>12. E = ExynosLayers(r) /\ E \subseteq Idx
  BY DEF ExynosLayers
<1>13. S \intersect ExynosLayers(p) = {} <=> \A j \in S : p.type[j] # "exynos"
  BY <1>4 DEF ExynosLayers
<1> HIDE DEF E
<1>14. CASE S \intersect ExynosLayers(p) = {}
  <2>1. q = r
    BY <1>1, <1>13, <1>14
  <2> HIDE DEF q
  <2> QED BY <1>10, <1>11, <1>14, <2>1 DEF SameExynos, q, S, c
<1>15. CASE S \intersect ExynosLayers(p) # {}
  <2>1. ~ (p.exynos.first < 0 \/ p.exynos.last < 0)
    BY <1>15, IdxNat DEF InPlace
  <2>2. CASE E = {}
    <3>1. q = [InitExynosInfo(r) EXCEPT !.ret = "changed"]
      BY <1>1, <1>13, <1>15, <2>1, <2>2
    <3> HIDE DEF q
    <3>2. q = [r EXCEPT !.exynos = NoComposition, !.m2m = FALSE, !.ret = "changed"]
      BY <3>1, <1>9 DEF InitExynosInfo, Plans
    <3>3. NoComposition \in Compositions
      BY DEF NoComposition, Compositions, NoOtf
    <3>4. q \in Plans
      BY <3>2, <3>3, <1>9 DEF Plans, Results
    <3>5. /\ q.exynos = NoComposition /\ q.m2m = FALSE /\ q.ret = "changed"
          /\ q.type = r.type /\ q.owner = r.owner /\ q.g2d = r.g2d /\ q.client = r.client
          /\ q.reserved = r.reserved
      BY <3>2, <1>9 DEF Plans
    <3>6. Absorbs(p, q, S)
      BY <3>4, <3>5, <1>11 DEF Absorbs
    <3>7. ExynosLayers(q) = {}
      BY <3>5, <1>12, <2>2 DEF ExynosLayers
    <3>8. q.client = c
      BY <3>5, <1>10
    <3> QED BY <3>5, <3>6, <3>7, <3>8, <1>15 DEF NoExynos, q, S, c
  <2>3. CASE E # {}
    <3>1. q = [r EXCEPT !.exynos.first = Lowest(E), !.exynos.last = Highest(E)]
      BY <1>1, <1>13, <1>15, <2>1, <2>3
    <3> HIDE DEF q
    <3>2. /\ Lowest(E) \in E /\ \A j \in E : Lowest(E) <= j
          /\ Highest(E) \in E /\ \A j \in E : Highest(E) >= j
      BY <1>12, <2>3, Ends
    <3>3. Lowest(E) \in Int /\ Highest(E) \in Int /\ E \subseteq Int
      BY <3>2, <1>12, IdxNat
    <3> DEFINE x == [r.exynos EXCEPT !.first = Lowest(E), !.last = Highest(E)]
    <3>4. r.exynos \in Compositions
      BY <1>9 DEF Plans
    <3>5. x \in Compositions /\ x.has = r.exynos.has /\ x.otf = r.exynos.otf
          /\ x.first = Lowest(E) /\ x.last = Highest(E)
      BY <3>3, <3>4 DEF Compositions
    <3>6. q = [r EXCEPT !.exynos = x]
      BY <3>1, <1>9 DEF Plans
    <3> HIDE DEF x
    <3>7. q \in Plans
      BY <3>6, <3>5, <1>9 DEF Plans
    <3>8. /\ q.exynos = x /\ q.m2m = r.m2m /\ q.ret = r.ret
          /\ q.type = r.type /\ q.owner = r.owner /\ q.g2d = r.g2d /\ q.client = r.client
          /\ q.reserved = r.reserved
      BY <3>6, <1>9 DEF Plans
    <3>9. Absorbs(p, q, S)
      BY <3>7, <3>8, <1>11 DEF Absorbs
    <3>10. ExynosLayers(q) = E
      BY <3>8, <1>12 DEF ExynosLayers
    <3>11. Shrunk(p, q)
      BY <3>2, <3>3, <3>5, <3>8, <3>10, <1>10 DEF Shrunk
    <3>12. q.client = c /\ q.ret = "ok"
      BY <3>8, <1>10
    <3> QED BY <3>9, <3>10, <3>11, <3>12, <1>15, <2>3 DEF q, S, c
  <2> QED BY <2>2, <2>3
<1> QED BY <1>14, <1>15

\* What absorbing layers of one composition into the other keeps.
LEMMA AbsorbedMoves ==
  ASSUME NEW p, NEW q, NEW S, p \in Plans, S \subseteq Idx, Absorbs(p, q, S)
  PROVE  /\ Moved(p, q)
         /\ ClientLayers(q) = ClientLayers(p) \union S
         /\ ExynosLayers(q) = ExynosLayers(p) \ S
         /\ OwnersOk(p) => OwnersOk(q)
         /\ G2dOk(p) => G2dOk(q)
<1>1. /\ p.type \in [Idx -> Types] /\ p.owner \in [Otfs -> Int]
  BY DEF Plans
<1>2. /\ \A j \in Idx : q.type[j] = IF j \in S THEN "client" ELSE p.type[j]
      /\ \A o \in Otfs : q.owner[o] = IF p.owner[o] \in S THEN Free ELSE p.owner[o]
      /\ q.g2d = p.g2d \ S /\ q.reserved = p.reserved
  BY DEF Absorbs
<1>3. Moved(p, q)
  <2>1. \A k \in Idx : /\ p.type[k] = "client" => q.type[k] = "client"
                       /\ p.type[k] = "exynos" => q.type[k] \in {"exynos", "client"}
                       /\ q.type[k] \in {p.type[k], "exynos", "client"}
    BY <1>2
  <2>2. ASSUME NEW o \in Otfs
        PROVE /\ q.owner[o] \in {p.owner[o], Free}
              /\ p.owner[o] \notin Idx => q.owner[o] = p.owner[o]
              /\ p.owner[o] \in Idx /\ q.type[p.owner[o]] = "device" => q.owner[o] = p.owner[o]
    BY <1>2
  <2> QED BY <1>2, <2>1, <2>2 DEF Moved
<1>4. ClientLayers(q) = ClientLayers(p) \union S
  BY <1>2 DEF ClientLayers
<1>5. ExynosLayers(q) = ExynosLayers(p) \ S
  BY <1>2 DEF ExynosLayers
<1>6. ASSUME OwnersOk(p) PROVE OwnersOk(q)
  <2>1. Free \notin Idx
    BY IdxNat DEF Free
  <2> QED BY <1>2, <1>6, <2>1 DEF OwnersOk
<1>7. ASSUME G2dOk(p) PROVE G2dOk(q)
  BY <1>2, <1>5, <1>7 DEF G2dOk
<1> QED BY <1>3, <1>4, <1>5, <1>6, <1>7

\* What lies between the ends of a client composition is taken in, or has the target cleared.
LEMMA SandwichedIn ==
  ASSUME NEW p, NEW c, p \in Plans, c.first \in Idx, c.last \in Idx
  PROVE  /\ Sandwiched(p, c) \subseteq Idx
         /\ \A j \in Sandwiched(p, c) : c.first < j /\ j < c.last
         /\ \A j \in Idx : c.first < j /\ j < c.last =>
               \/ j \in Sandwiched(p, c) \/ j \in ClientLayers(p) \/ NeedClearClientTarget(j)
BY IdxNat DEF Sandwiched, ClientLayers

\* Only layers of high priority have the client target cleared.
LEMMA ClearIsHigh == \A j : NeedClearClientTarget(j) => IsHigh(j)
BY DEF NeedClearClientTarget

\* So a layer of type client joins, first ...
LEMMA JoinsFirst ==
  ASSUME NEW p, NEW i, p \in Plans, i \in Idx, p.client.has = FALSE, ClientBut(p, i),
         p.type[i] = "client", G2dOk(p), OwnersOk(p), InPlace(p)
  PROVE  JoinsClient(p, AddClient(p, i), i)
<1> DEFINE q == AddClient(p, i)
<1>1. /\ Absorbs(p, q, {}) /\ SameExynos(p, q) /\ q.ret = "changed"
      /\ q.client.first = i /\ q.client.last = i
  BY FirstClient
<1> HIDE DEF q
<1>2. /\ Moved(p, q) /\ ClientLayers(q) = ClientLayers(p) /\ ExynosLayers(q) = ExynosLayers(p)
      /\ OwnersOk(q) /\ G2dOk(q)
  <2>1. {} \subseteq Idx
    OBVIOUS
  <2> QED BY <1>1, <2>1, AbsorbedMoves
<1>3. ClientLayers(q) = {i}
  BY <1>2 DEF ClientBut, ClientLayers
<1>4. q.client.has = TRUE /\ q \in Plans
  BY <1>1 DEF Absorbs
<1>5. ClientOk(q)
  <2>1. Tight(q.client, {i})
    BY <1>1, <1>3, IdxNat DEF Tight
  <2>2. Around(q.client, {i})
    BY <1>1, <2>1, IdxNat DEF Around
  <2>3. {i} \subseteq q.client.first .. q.client.last
    BY <1>1, IdxNat
  <2> QED BY <1>3, <1>4, <2>2, <2>3 DEF ClientOk
<1>6. InPlace(q)
  BY <1>1, <1>2 DEF InPlace, SameExynos
<1>7. q.type[i] = "client"
  BY <1>3 DEF ClientLayers
<1> QED
  <2>1. ExynosLayers(p) = ExynosLayers(p) \ {i}
    BY DEF ExynosLayers
  <2> QED BY <1>1, <1>2, <1>4, <1>5, <1>6, <1>7, <2>1 DEF JoinsClient, Base, Settled, q

\* ... or later ...
LEMMA JoinsNext ==
  ASSUME NEW p, NEW i, p \in Plans, i \in Idx, p.client.has = TRUE, ClientBut(p, i),
         p.type[i] = "client", G2dOk(p), OwnersOk(p), InPlace(p)
  PROVE  JoinsClient(p, AddClient(p, i), i)
<1> DEFINE q == AddClient(p, i)
           c == Span(p.client, i)
           S == Sandwiched(p, c)
<1>0. /\ p.client.first \in Idx /\ p.client.last \in Idx /\ p.client.first <= p.client.last
      /\ \A j \in p.client.first .. p.client.last : j \in ClientLayers(p) \/ IsHigh(j)
      /\ HighApart => p.client.first \in ClientLayers(p) /\ p.client.last \in ClientLayers(p)
      /\ ClientLayers(p) \subseteq (p.client.first .. p.client.last) \union {i}
  BY DEF ClientBut, Around, Tight
<1>1. /\ Absorbs(p, q, S) /\ q.client = c
      /\ S \intersect ExynosLayers(p) = {} => SameExynos(p, q) /\ q.ret = "ok"
      /\ S \intersect ExynosLayers(p) # {} =>
            \/ ExynosLayers(q) = {} /\ NoExynos(q) /\ q.ret = "changed"
            \/ ExynosLayers(q) # {} /\ Shrunk(p, q) /\ q.ret = "ok"
  BY <1>0, NextClient
<1>2. /\ c.first = IF p.client.first < i THEN p.client.first ELSE i
      /\ c.last = IF p.client.last > i THEN p.client.last ELSE i
      /\ c.otf = p.client.otf
  <2>1. p.client \in Compositions /\ i \in Int
    BY IdxNat DEF Plans
  <2> QED BY <2>1, SpanFields
<1> HIDE DEF q, c
<1>3. c.first \in Idx /\ c.last \in Idx /\ c.first <= c.last
  BY <1>0, <1>2, IdxNat
<1>4. /\ S \subseteq Idx /\ \A j \in S : c.first < j /\ j < c.last
      /\ \A j \in Idx : c.first < j /\ j < c.last =>
               \/ j \in S \/ j \in ClientLayers(p) \/ NeedClearClientTarget(j)
  BY <1>3, SandwichedIn
<1> HIDE DEF S
<1>5. /\ Moved(p, q) /\ ClientLayers(q) = ClientLayers(p) \union S
      /\ ExynosLayers(q) = ExynosLayers(p) \ S
      /\ OwnersOk(q) /\ G2dOk(q)
  BY <1>1, <1>4, AbsorbedMoves
<1>6. q.client.has = TRUE /\ q \in Plans /\ q.client.otf = p.client.otf
  BY <1>1 DEF Absorbs
<1>7. i \in ClientLayers(p)
  BY DEF ClientLayers
<1>8. ClientOk(q)
  <2>1. \A j \in c.first .. c.last : j \in Idx
    BY <1>3, IdxNat
  <2>2. ASSUME NEW j \in c.first .. c.last, j # i, j # p.client.first, j # p.client.last
        PROVE  j \in ClientLayers(q) \/ NeedClearClientTarget(j)
    <3>1. c.first < j /\ j < c.last
      BY <2>2, <1>2, <1>3, IdxNat
    <3> QED BY <2>1, <3>1, <1>4, <1>5
  <2>3. ASSUME HighApart PROVE Tight(c, ClientLayers(q))
    <3>1. c.first \in ClientLayers(q) /\ c.last \in ClientLayers(q)
      BY <2>3, <1>0, <1>2, <1>5, <1>7
    <3>2. \A j \in c.first .. c.last : j \in ClientLayers(q) \/ NeedClearClientTarget(j)
      BY <2>2, <2>3, <1>0, <1>5, <1>7
    <3> QED BY <3>1, <3>2 DEF Tight
  <2>4. ASSUME NEW j \in c.first .. c.last PROVE j \in ClientLayers(q) \/ IsHigh(j)
    <3>1. j = p.client.first \/ j = p.client.last => j \in ClientLayers(p) \/ IsHigh(j)
      BY <1>0, IdxNat
    <3> QED BY <2>2, <3>1, <1>5, <1>7, ClearIsHigh
  <2>5. Around(c, ClientLayers(q))
    BY <1>3, <2>3, <2>4 DEF Around
  <2>6. ClientLayers(q) \subseteq c.first .. c.last
    <3>1. S \subseteq c.first .. c.last
      BY <1>3, <1>4, IdxNat
    <3>2. (p.client.first .. p.client.last) \subseteq c.first .. c.last
      BY <1>0, <1>2, <1>3, IdxNat
    <3>3. i \in c.first .. c.last
      BY <1>0, <1>2, <1>3, IdxNat
    <3> QED BY <3>1, <3>2, <3>3, <1>0, <1>5
  <2> QED BY <1>1, <1>6, <2>5, <2>6 DEF ClientOk
<1>9. /\ Settled(q) /\ (q.ret = "ok" => Keeps(p, q))
      /\ \/ ExynosLayers(q) = ExynosLayers(p) /\ SameExynos(p, q)
         \/ ExynosLayers(q) = {} /\ NoExynos(q) /\ q.ret = "changed"
         \/ ExynosLayers(q) # {} /\ Shrunk(p, q)
  <2>1. CASE S \intersect ExynosLayers(p) = {}
    <3>1. ExynosLayers(q) = ExynosLayers(p)
      BY <1>5, <2>1
    <3> QED BY <1>1, <1>6, <2>1, <3>1 DEF Settled, Keeps, SameExynos
  <2>2. CASE S \intersect ExynosLayers(p) # {}
    BY <1>1, <1>6, <2>2 DEF Settled, Keeps, Shrunk, NoExynos
  <2> QED BY <2>1, <2>2
<1>10. InPlace(q)
  <2>1. ExynosLayers(q) \subseteq Idx
    BY DEF ExynosLayers
  <2> QED BY <1>9, <2>1 DEF InPlace, SameExynos, Shrunk
<1>11. /\ q.type[i] = "client" /\ ExynosLayers(q) \subseteq ExynosLayers(p)
       /\ \A k \in ExynosLayers(p) \ ExynosLayers(q) : q.client.first < k /\ k < q.client.last
  <2>1. i \in ClientLayers(q)
    BY <1>5, <1>7
  <2> QED BY <1>1, <1>4, <1>5, <2>1 DEF ClientLayers
<1>12. /\ q.client.first = IF p.client.first < i THEN p.client.first ELSE i
       /\ q.client.last = IF p.client.last > i THEN p.client.last ELSE i
  BY <1>1, <1>2
<1>13. Base(q)
  BY <1>5, <1>6, <1>8, <1>10 DEF Base
<1> HIDE DEF q
<1> QED
  <2>1. JoinsClient(p, q, i)
    <3>1. ExynosLayers(p) = ExynosLayers(p) \ {i}
      BY DEF ExynosLayers
    <3> QED BY <1>5, <1>6, <1>9, <1>11, <1>12, <1>13, <3>1 DEF JoinsClient
  <2> QED BY <2>1 DEF q

\* ... in any case, without an error.
LEMMA Joins ==
  ASSUME NEW p, NEW i, p \in Plans, i \in Idx, ClientBut(p, i),
         p.type[i] = "client", G2dOk(p), OwnersOk(p), InPlace(p)
  PROVE  JoinsClient(p, AddClient(p, i), i)
<1>1. p.client.has \in BOOLEAN
  BY DEF Plans, Compositions
<1> QED BY <1>1, JoinsFirst, JoinsNext

\* What changing types leaves alone.
LEMMA Typed ==
  ASSUME NEW p, NEW S, NEW t, p \in Plans, t \in Types
  PROVE  LET r == SetType(p, S, t)
         IN  /\ r \in Plans
             /\ \A k \in Idx : r.type[k] = IF k \in S THEN t ELSE p.type[k]
             /\ r.client = p.client /\ r.exynos = p.exynos /\ r.m2m = p.m2m /\ r.owner = p.owner
             /\ r.g2d = p.g2d /\ r.reserved = p.reserved /\ r.windows = p.windows /\ r.ret = p.ret
             /\ r.window = p.window
<1> DEFINE r == SetType(p, S, t)
           ty == [j \in Idx |-> IF j \in S THEN t ELSE p.type[j]]
<1>1. r = [p EXCEPT !.type = ty]
  BY DEF SetType, Plans
<1>2. p.type \in [Idx -> Types]
  BY DEF Plans
<1>3. ty \in [Idx -> Types] /\ \A k \in Idx : ty[k] = IF k \in S THEN t ELSE p.type[k]
  BY <1>2
<1> HIDE DEF ty, r
<1>4. r \in Plans
  BY <1>1, <1>3 DEF Plans
<1>5. /\ r.type = ty
      /\ r.client = p.client /\ r.exynos = p.exynos /\ r.m2m = p.m2m /\ r.owner = p.owner
      /\ r.g2d = p.g2d /\ r.reserved = p.reserved /\ r.windows = p.windows /\ r.ret = p.ret
      /\ r.window = p.window
  BY <1>1 DEF Plans
<1> QED BY <1>3, <1>4, <1>5 DEF r

\* What taking their resources from layers leaves alone.
LEMMA Released ==
  ASSUME NEW p, NEW S, p \in Plans
  PROVE  LET r == Release(p, S)
         IN  /\ r \in Plans
             /\ \A o \in Otfs : r.owner[o] = IF p.owner[o] \in S THEN Free ELSE p.owner[o]
             /\ r.g2d = p.g2d \ S
             /\ r.client = p.client /\ r.exynos = p.exynos /\ r.m2m = p.m2m /\ r.type = p.type
             /\ r.reserved = p.reserved /\ r.windows = p.windows /\ r.ret = p.ret
             /\ r.window = p.window
<1> DEFINE r == Release(p, S)
           ow == [o \in Otfs |-> IF p.owner[o] \in S THEN Free ELSE p.owner[o]]
<1>1. r = [p EXCEPT !.owner = ow, !.g2d = p.g2d \ S]
  BY DEF Release, Plans
<1>2. p.owner \in [Otfs -> Int] /\ p.g2d \subseteq Idx
  BY DEF Plans
<1>3. /\ ow \in [Otfs -> Int] /\ p.g2d \ S \subseteq Idx
      /\ \A o \in Otfs : ow[o] = IF p.owner[o] \in S THEN Free ELSE p.owner[o]
  BY <1>2 DEF Free
<1> HIDE DEF ow, r
<1>4. r \in Plans
  BY <1>1, <1>3 DEF Plans
<1>5. /\ r.owner = ow /\ r.g2d = p.g2d \ S
      /\ r.client = p.client /\ r.exynos = p.exynos /\ r.m2m = p.m2m /\ r.type = p.type
      /\ r.reserved = p.reserved /\ r.windows = p.windows /\ r.ret = p.ret
      /\ r.window = p.window
  BY <1>1 DEF Plans
<1> QED BY <1>3, <1>4, <1>5 DEF r

\* A layer whose type becomes client is the only one outside the client range.
LEMMA ClientButI ==
  ASSUME NEW p, NEW r, NEW i, ClientOk(p), r.client = p.client, i \in Idx,
         ClientLayers(r) = ClientLayers(p) \union {i}
  PROVE  ClientBut(r, i)
<1>1. ASSUME p.client.has = TRUE
      PROVE Around(r.client, ClientLayers(r)) /\ ClientLayers(r) \subseteq (r.client.first .. r.client.last) \union {i}
  <2>1. Around(p.client, ClientLayers(p)) /\ ClientLayers(p) \subseteq p.client.first .. p.client.last
    BY <1>1 DEF ClientOk
  <2>2. Around(r.client, ClientLayers(r))
    <3>1. HighApart => Tight(r.client, ClientLayers(r))
      BY <2>1 DEF Around, Tight
    <3> QED BY <2>1, <3>1 DEF Around
  <2> QED BY <2>1, <2>2
<1>2. ASSUME p.client.has = FALSE PROVE ClientLayers(r) \subseteq {i}
  BY <1>2 DEF ClientOk
<1> QED BY <1>1, <1>2 DEF ClientBut

\* A channel that is free or shows a target shows no layer.
LEMMA FreeIsNoLayer == Free \notin Idx /\ ClientTarget \notin Idx /\ ExynosTarget \notin Idx
                       /\ Free \in Int /\ ClientTarget \in Int /\ ExynosTarget \in Int
                       /\ Free # ClientTarget /\ Free # ExynosTarget /\ ClientTarget # ExynosTarget
BY IdxNat DEF Free, ClientTarget, ExynosTarget

\* assignLayer: a layer that goes to the client composition joins it.
LEMMA OntoClient ==
  ASSUME NEW p, NEW i, Base(p), i \in Idx, p.type[i] # "exynos", \A o \in Otfs : p.owner[o] # i
  PROVE  JoinsClient(p, LayerOnClient(p, i), i)
<1> DEFINE r == SetType(p, {i}, "client")
           q == LayerOnClient(p, i)
<1>0. q = AddClient(r, i)
  BY DEF LayerOnClient
<1>1. /\ r \in Plans
      /\ \A k \in Idx : r.type[k] = IF k = i THEN "client" ELSE p.type[k]
      /\ r.client = p.client /\ r.exynos = p.exynos /\ r.m2m = p.m2m /\ r.owner = p.owner
      /\ r.g2d = p.g2d /\ r.reserved = p.reserved
  <2>1. "client" \in Types /\ p \in Plans
    BY DEF Types, Base
  <2> QED BY <2>1, Typed
<1> HIDE DEF r, q
<1>2. ClientLayers(r) = ClientLayers(p) \union {i} /\ ExynosLayers(r) = ExynosLayers(p) /\ i \notin ExynosLayers(p)
  BY <1>1 DEF ClientLayers, ExynosLayers
<1>3. ClientBut(r, i)
  BY <1>1, <1>2, ClientButI DEF Base
<1>4. G2dOk(r) /\ OwnersOk(r) /\ InPlace(r)
  BY <1>1, <1>2 DEF Base, G2dOk, OwnersOk, InPlace
<1>5. JoinsClient(r, q, i)
  BY <1>0, <1>1, <1>3, <1>4, Joins
<1>6. Moved(p, q)
  <2>1. Moved(r, q) /\ q.type[i] = "client"
    BY <1>5 DEF JoinsClient
  <2>2. \A k \in Idx : /\ p.type[k] = "client" => q.type[k] = "client"
                       /\ p.type[k] = "exynos" => q.type[k] \in {"exynos", "client"}
                       /\ q.type[k] \in {p.type[k], "exynos", "client"}
    BY <1>1, <2>1 DEF Moved
  <2> QED BY <1>1, <2>1, <2>2 DEF Moved
<1>7. q.ret = "ok" => Keeps(p, q)
  BY <1>1, <1>5 DEF JoinsClient, Keeps
<1>8. SameExynos(r, q) => SameExynos(p, q)
  BY <1>1 DEF SameExynos
<1>9. Shrunk(r, q) => Shrunk(p, q)
  BY <1>1 DEF Shrunk
<1>10. JoinsClient(p, q, i)
  BY <1>1, <1>2, <1>5, <1>6, <1>7, <1>8, <1>9 DEF JoinsClient
<1> QED BY <1>10 DEF q

\* A layer of the exynos composition that goes to the client composition joins it.
LEMMA MovesToClient ==
  ASSUME NEW p, NEW i, Base(p), i \in Idx
  PROVE  JoinsClient(p, MoveToClient(p, i), i)
<1> DEFINE s == Release(p, {i})
           r == SetType(s, {i}, "client")
           q == MoveToClient(p, i)
<1>0. q = AddClient(r, i)
  BY DEF MoveToClient
<1>1. /\ s \in Plans
      /\ \A o \in Otfs : s.owner[o] = IF p.owner[o] \in {i} THEN Free ELSE p.owner[o]
      /\ s.g2d = p.g2d \ {i}
      /\ s.client = p.client /\ s.exynos = p.exynos /\ s.m2m = p.m2m /\ s.type = p.type
      /\ s.reserved = p.reserved
  <2>1. p \in Plans
    BY DEF Base
  <2> QED BY <2>1, Released
<1> HIDE DEF s
<1>2. /\ r \in Plans
      /\ \A k \in Idx : r.type[k] = IF k \in {i} THEN "client" ELSE s.type[k]
      /\ r.client = s.client /\ r.exynos = s.exynos /\ r.m2m = s.m2m /\ r.owner = s.owner
      /\ r.g2d = s.g2d /\ r.reserved = s.reserved
  <2>1. "client" \in Types
    BY DEF Types
  <2> QED BY <1>1, <2>1, Typed
<1> HIDE DEF r, q
<1>3. ClientLayers(r) = ClientLayers(p) \union {i} /\ ExynosLayers(r) = ExynosLayers(p) \ {i}
  BY <1>1, <1>2 DEF ClientLayers, ExynosLayers
<1>4. ClientBut(r, i)
  BY <1>1, <1>2, <1>3, ClientButI DEF Base
<1>5. G2dOk(r) /\ InPlace(r)
  BY <1>1, <1>2, <1>3 DEF Base, G2dOk, InPlace
<1>6. OwnersOk(r)
  BY <1>1, <1>2, FreeIsNoLayer DEF Base, OwnersOk
<1>7. r.type[i] = "client"
  BY <1>2
<1>8. JoinsClient(r, q, i)
  BY <1>0, <1>2, <1>4, <1>5, <1>6, <1>7, Joins
<1>9. Moved(p, q)
  <2>1. Moved(r, q) /\ q.type[i] = "client"
    BY <1>8 DEF JoinsClient
  <2>2. \A k \in Idx : /\ p.type[k] = "client" => q.type[k] = "client"
                       /\ p.type[k] = "exynos" => q.type[k] \in {"exynos", "client"}
                       /\ q.type[k] \in {p.type[k], "exynos", "client"}
    BY <1>1, <1>2, <2>1 DEF Moved
  <2>3. ASSUME NEW o \in Otfs
        PROVE /\ q.owner[o] \in {p.owner[o], Free}
              /\ p.owner[o] \notin Idx => q.owner[o] = p.owner[o]
              /\ p.owner[o] \in Idx /\ q.type[p.owner[o]] = "device" => q.owner[o] = p.owner[o]
    <3>1. r.owner[o] = IF p.owner[o] = i THEN Free ELSE p.owner[o]
      BY <1>1, <1>2
    <3>2. /\ q.owner[o] \in {r.owner[o], Free}
          /\ r.owner[o] \notin Idx => q.owner[o] = r.owner[o]
          /\ r.owner[o] \in Idx /\ q.type[r.owner[o]] = "device" => q.owner[o] = r.owner[o]
      BY <2>1 DEF Moved
    <3> QED BY <2>1, <3>1, <3>2
  <2> QED BY <1>1, <1>2, <2>1, <2>2, <2>3 DEF Moved
<1>10. q.ret = "ok" => Keeps(p, q)
  BY <1>1, <1>2, <1>8 DEF JoinsClient, Keeps
<1>11. SameExynos(r, q) => SameExynos(p, q)
  BY <1>1, <1>2 DEF SameExynos
<1>12. Shrunk(r, q) => Shrunk(p, q)
  BY <1>1, <1>2 DEF Shrunk
<1>13. JoinsClient(p, q, i)
  <2>1. r.client = p.client
    BY <1>1, <1>2
  <2>2. ExynosLayers(r) \ {i} = ExynosLayers(p) \ {i}
    BY <1>3
  <2>3. \A k \in ExynosLayers(p) \ ExynosLayers(q) : k = i \/ (q.client.first < k /\ k < q.client.last)
    BY <1>3, <1>8 DEF JoinsClient
  <2> QED BY <2>1, <2>2, <2>3, <1>8, <1>9, <1>10, <1>11, <1>12 DEF JoinsClient
<1> QED BY <1>13 DEF q

\* Moves may follow one another.
LEMMA MovedOn ==
  ASSUME NEW p, NEW q, NEW r, p \in Plans, Moved(p, q), Moved(q, r)
  PROVE  Moved(p, r)
<1>1. \A k \in Idx : p.type[k] \in Types
  BY DEF Plans
<1>2. ASSUME NEW k \in Idx
      PROVE  /\ p.type[k] = "client" => r.type[k] = "client"
             /\ p.type[k] = "exynos" => r.type[k] \in {"exynos", "client"}
             /\ r.type[k] \in {p.type[k], "exynos", "client"}
             /\ r.type[k] = "device" => q.type[k] = "device"
  BY <1>1 DEF Moved, Types
<1>3. ASSUME NEW o \in Otfs
      PROVE /\ r.owner[o] \in {p.owner[o], Free}
            /\ p.owner[o] \notin Idx => r.owner[o] = p.owner[o]
            /\ p.owner[o] \in Idx /\ r.type[p.owner[o]] = "device" => r.owner[o] = p.owner[o]
  <2>1. /\ q.owner[o] \in {p.owner[o], Free}
        /\ p.owner[o] \notin Idx => q.owner[o] = p.owner[o]
        /\ p.owner[o] \in Idx /\ q.type[p.owner[o]] = "device" => q.owner[o] = p.owner[o]
    BY DEF Moved
  <2>2. /\ r.owner[o] \in {q.owner[o], Free}
        /\ q.owner[o] \notin Idx => r.owner[o] = q.owner[o]
        /\ q.owner[o] \in Idx /\ r.type[q.owner[o]] = "device" => r.owner[o] = q.owner[o]
    BY DEF Moved
  <2> QED BY <1>2, <2>1, <2>2
<1>4. r.reserved = p.reserved
  BY DEF Moved
<1> QED BY <1>2, <1>3, <1>4 DEF Moved

\* So may steps that keep the compositions.
LEMMA KeptOn ==
  ASSUME NEW p, NEW q, NEW r, Keeps(p, q), Keeps(q, r)
  PROVE  Keeps(p, r)
BY DEF Keeps

\* Nothing moves in no step.
LEMMA MovedSelf ==
  ASSUME NEW p, p \in Plans
  PROVE  Moved(p, p) /\ Keeps(p, p)
BY DEF Moved, Keeps

-----------------------------------------------------------------------------
(* Walks over layers.                                                      *)

\* A walk over layers (ForEach) goes through the plans w: one lemma for each operation, as an
\* operation is no value that a lemma could be about.
LEMMA LayerOnClientWalk ==
  ASSUME NEW p, NEW S
  PROVE  \E w : /\ w[0] = p /\ w[LayerCount] = AllOnClient(p, S)
                /\ \A n \in 0 .. LayerCount - 1 :
                      w[n + 1] = IF n \in S THEN LayerOnClient(w[n], n) ELSE w[n]
<1> DEFINE Next(v, n) == IF n = 0 THEN p ELSE IF n - 1 \in S THEN LayerOnClient(v[n - 1], n - 1) ELSE v[n - 1]
           Is(w, m) == w = [n \in 0 .. m |-> Next(w, n)]
           T == {m \in 0 .. LayerCount : \E w : Is(w, m)}
           w0 == CHOOSE w : Is(w, LayerCount)
<1>0. LayerCount \in Nat
  BY ResourceAssumption
<1>1. 0 \in T
  <2>1. Is([n \in 0 .. 0 |-> p], 0)
    OBVIOUS
  <2> HIDE DEF Is
  <2> QED BY <2>1, <1>0
<1>2. ASSUME NEW m \in 0 .. LayerCount - 1, m \in T PROVE m + 1 \in T
  <2>1. PICK w : Is(w, m)
    BY <1>2
  <2> DEFINE v == [n \in 0 .. m + 1 |->
                     IF n = m + 1 THEN IF m \in S THEN LayerOnClient(w[m], m) ELSE w[m] ELSE w[n]]
  <2>2. Is(v, m + 1)
    <3>1. \A n \in 0 .. m : v[n] = w[n]
      BY <1>0
    <3>2. \A n \in 0 .. m : w[n] = Next(w, n)
      BY <2>1
    <3>3. \A n \in 0 .. m + 1 : v[n] = Next(v, n)
      BY <3>1, <3>2, <1>0
    <3> HIDE DEF w0, Next
    <3> QED BY <3>3
  <2> HIDE DEF v, Is
  <2> QED BY <2>2, <1>0
<1>3. \E w : Is(w, LayerCount)
  <2> HIDE DEF Is
  <2>1. LayerCount \in T
    <3> HIDE DEF T
    <3> QED BY <1>1, <1>2, UpTo, <1>0
  <2> QED BY <2>1
<1>4. Is(w0, LayerCount)
  <2> HIDE DEF Is
  <2> QED BY <1>3
<1>5. AllOnClient(p, S) = w0[LayerCount]
  BY DEF ForEach, AllOnClient
<1> HIDE DEF w0
<1>6. /\ w0[0] = p
      /\ \A n \in 0 .. LayerCount - 1 : w0[n + 1] = IF n \in S THEN LayerOnClient(w0[n], n) ELSE w0[n]
  BY <1>4, <1>0
<1> QED BY <1>5, <1>6

\* The same of the layers that leave the exynos composition,
LEMMA MoveToClientWalk ==
  ASSUME NEW p, NEW S
  PROVE  \E w : /\ w[0] = p /\ w[LayerCount] = MoveAllToClient(p, S)
                /\ \A n \in 0 .. LayerCount - 1 :
                      w[n + 1] = IF n \in S THEN MoveToClient(w[n], n) ELSE w[n]
<1> DEFINE Next(v, n) == IF n = 0 THEN p ELSE IF n - 1 \in S THEN MoveToClient(v[n - 1], n - 1) ELSE v[n - 1]
           Is(w, m) == w = [n \in 0 .. m |-> Next(w, n)]
           T == {m \in 0 .. LayerCount : \E w : Is(w, m)}
           w0 == CHOOSE w : Is(w, LayerCount)
<1>0. LayerCount \in Nat
  BY ResourceAssumption
<1>1. 0 \in T
  <2>1. Is([n \in 0 .. 0 |-> p], 0)
    OBVIOUS
  <2> HIDE DEF Is
  <2> QED BY <2>1, <1>0
<1>2. ASSUME NEW m \in 0 .. LayerCount - 1, m \in T PROVE m + 1 \in T
  <2>1. PICK w : Is(w, m)
    BY <1>2
  <2> DEFINE v == [n \in 0 .. m + 1 |->
                     IF n = m + 1 THEN IF m \in S THEN MoveToClient(w[m], m) ELSE w[m] ELSE w[n]]
  <2>2. Is(v, m + 1)
    <3>1. \A n \in 0 .. m : v[n] = w[n]
      BY <1>0
    <3>2. \A n \in 0 .. m : w[n] = Next(w, n)
      BY <2>1
    <3>3. \A n \in 0 .. m + 1 : v[n] = Next(v, n)
      BY <3>1, <3>2, <1>0
    <3> HIDE DEF w0, Next
    <3> QED BY <3>3
  <2> HIDE DEF v, Is
  <2> QED BY <2>2, <1>0
<1>3. \E w : Is(w, LayerCount)
  <2> HIDE DEF Is
  <2>1. LayerCount \in T
    <3> HIDE DEF T
    <3> QED BY <1>1, <1>2, UpTo, <1>0
  <2> QED BY <2>1
<1>4. Is(w0, LayerCount)
  <2> HIDE DEF Is
  <2> QED BY <1>3
<1>5. MoveAllToClient(p, S) = w0[LayerCount]
  BY DEF ForEach, MoveAllToClient
<1> HIDE DEF w0
<1>6. /\ w0[0] = p
      /\ \A n \in 0 .. LayerCount - 1 : w0[n + 1] = IF n \in S THEN MoveToClient(w0[n], n) ELSE w0[n]
  BY <1>4, <1>0
<1> QED BY <1>5, <1>6

\* of those that it surrounds,
LEMMA TakeIntoExynosWalk ==
  ASSUME NEW p, NEW S
  PROVE  \E w : /\ w[0] = p /\ w[LayerCount] = TakeAllIntoExynos(p, S)
                /\ \A n \in 0 .. LayerCount - 1 :
                      w[n + 1] = IF n \in S THEN TakeIntoExynos(w[n], n) ELSE w[n]
<1> DEFINE Next(v, n) == IF n = 0 THEN p ELSE IF n - 1 \in S THEN TakeIntoExynos(v[n - 1], n - 1) ELSE v[n - 1]
           Is(w, m) == w = [n \in 0 .. m |-> Next(w, n)]
           T == {m \in 0 .. LayerCount : \E w : Is(w, m)}
           w0 == CHOOSE w : Is(w, LayerCount)
<1>0. LayerCount \in Nat
  BY ResourceAssumption
<1>1. 0 \in T
  <2>1. Is([n \in 0 .. 0 |-> p], 0)
    OBVIOUS
  <2> HIDE DEF Is
  <2> QED BY <2>1, <1>0
<1>2. ASSUME NEW m \in 0 .. LayerCount - 1, m \in T PROVE m + 1 \in T
  <2>1. PICK w : Is(w, m)
    BY <1>2
  <2> DEFINE v == [n \in 0 .. m + 1 |->
                     IF n = m + 1 THEN IF m \in S THEN TakeIntoExynos(w[m], m) ELSE w[m] ELSE w[n]]
  <2>2. Is(v, m + 1)
    <3>1. \A n \in 0 .. m : v[n] = w[n]
      BY <1>0
    <3>2. \A n \in 0 .. m : w[n] = Next(w, n)
      BY <2>1
    <3>3. \A n \in 0 .. m + 1 : v[n] = Next(v, n)
      BY <3>1, <3>2, <1>0
    <3> HIDE DEF w0, Next
    <3> QED BY <3>3
  <2> HIDE DEF v, Is
  <2> QED BY <2>2, <1>0
<1>3. \E w : Is(w, LayerCount)
  <2> HIDE DEF Is
  <2>1. LayerCount \in T
    <3> HIDE DEF T
    <3> QED BY <1>1, <1>2, UpTo, <1>0
  <2> QED BY <2>1
<1>4. Is(w0, LayerCount)
  <2> HIDE DEF Is
  <2> QED BY <1>3
<1>5. TakeAllIntoExynos(p, S) = w0[LayerCount]
  BY DEF ForEach, TakeAllIntoExynos
<1> HIDE DEF w0
<1>6. /\ w0[0] = p
      /\ \A n \in 0 .. LayerCount - 1 : w0[n + 1] = IF n \in S THEN TakeIntoExynos(w0[n], n) ELSE w0[n]
  BY <1>4, <1>0
<1> QED BY <1>5, <1>6

\* and of those that leave its ends.
LEMMA DropHighEndWalk ==
  ASSUME NEW p, NEW S
  PROVE  \E w : /\ w[0] = p /\ w[LayerCount] = DropHighEnds(p, S)
                /\ \A n \in 0 .. LayerCount - 1 :
                      w[n + 1] = IF n \in S THEN DropHighEnd(w[n], n) ELSE w[n]
<1> DEFINE Next(v, n) == IF n = 0 THEN p ELSE IF n - 1 \in S THEN DropHighEnd(v[n - 1], n - 1) ELSE v[n - 1]
           Is(w, m) == w = [n \in 0 .. m |-> Next(w, n)]
           T == {m \in 0 .. LayerCount : \E w : Is(w, m)}
           w0 == CHOOSE w : Is(w, LayerCount)
<1>0. LayerCount \in Nat
  BY ResourceAssumption
<1>1. 0 \in T
  <2>1. Is([n \in 0 .. 0 |-> p], 0)
    OBVIOUS
  <2> HIDE DEF Is
  <2> QED BY <2>1, <1>0
<1>2. ASSUME NEW m \in 0 .. LayerCount - 1, m \in T PROVE m + 1 \in T
  <2>1. PICK w : Is(w, m)
    BY <1>2
  <2> DEFINE v == [n \in 0 .. m + 1 |->
                     IF n = m + 1 THEN IF m \in S THEN DropHighEnd(w[m], m) ELSE w[m] ELSE w[n]]
  <2>2. Is(v, m + 1)
    <3>1. \A n \in 0 .. m : v[n] = w[n]
      BY <1>0
    <3>2. \A n \in 0 .. m : w[n] = Next(w, n)
      BY <2>1
    <3>3. \A n \in 0 .. m + 1 : v[n] = Next(v, n)
      BY <3>1, <3>2, <1>0
    <3> HIDE DEF w0, Next
    <3> QED BY <3>3
  <2> HIDE DEF v, Is
  <2> QED BY <2>2, <1>0
<1>3. \E w : Is(w, LayerCount)
  <2> HIDE DEF Is
  <2>1. LayerCount \in T
    <3> HIDE DEF T
    <3> QED BY <1>1, <1>2, UpTo, <1>0
  <2> QED BY <2>1
<1>4. Is(w0, LayerCount)
  <2> HIDE DEF Is
  <2> QED BY <1>3
<1>5. DropHighEnds(p, S) = w0[LayerCount]
  BY DEF ForEach, DropHighEnds
<1> HIDE DEF w0
<1>6. /\ w0[0] = p
      /\ \A n \in 0 .. LayerCount - 1 : w0[n + 1] = IF n \in S THEN DropHighEnd(w0[n], n) ELSE w0[n]
  BY <1>4, <1>0
<1> QED BY <1>5, <1>6

\* After all layers of S moved to the client composition, they are in it.
LEMMA MoveAll ==
  ASSUME NEW p, NEW S, Base(p)
  PROVE  LET q == MoveAllToClient(p, S)
         IN  /\ Base(q) /\ Moved(p, q) /\ (Settled(p) => Settled(q))
             /\ \A k \in Idx : k \in S => q.type[k] = "client"
             /\ ExynosLayers(q) \subseteq ExynosLayers(p)
<1>0. LayerCount \in Nat /\ \A n \in 0 .. LayerCount - 1 : n \in Idx
  BY IdxNat DEF Idx
<1>1. PICK w : /\ w[0] = p /\ w[LayerCount] = MoveAllToClient(p, S)
               /\ \A n \in 0 .. LayerCount - 1 :
                     w[n + 1] = IF n \in S THEN MoveToClient(w[n], n) ELSE w[n]
  BY MoveToClientWalk
<1> DEFINE Good(n) == /\ Base(w[n]) /\ Moved(p, w[n]) /\ (Settled(p) => Settled(w[n]))
                      /\ \A k \in Idx : k \in S /\ k < n => w[n].type[k] = "client"
                      /\ ExynosLayers(w[n]) \subseteq ExynosLayers(p)
           T == {n \in 0 .. LayerCount : Good(n)}
<1>2. 0 \in T
  <2>1. \A k \in Idx : ~ (k < 0)
    BY IdxNat
  <2>2. Moved(p, p)
    BY MovedSelf DEF Base
  <2> QED BY <1>0, <1>1, <2>1, <2>2
<1>3. ASSUME NEW n \in 0 .. LayerCount - 1, n \in T PROVE n + 1 \in T
  <2>0. Good(n) /\ n \in Idx /\ p \in Plans
    BY <1>0, <1>3 DEF Base
  <2>1. CASE n \in S
    <3>1. w[n + 1] = MoveToClient(w[n], n)
      BY <1>1, <2>1
    <3>2. JoinsClient(w[n], w[n + 1], n)
      BY <2>0, <3>1, MovesToClient
    <3>3. Moved(p, w[n + 1])
      BY <2>0, <3>2, MovedOn DEF JoinsClient
    <3>4. ASSUME NEW k \in Idx, k \in S, k < n + 1 PROVE w[n + 1].type[k] = "client"
      <4>1. k = n \/ k < n
        BY <3>4, IdxNat
      <4> QED BY <2>0, <3>2, <3>4, <4>1 DEF JoinsClient, Moved
    <3>5. ExynosLayers(w[n + 1]) \subseteq ExynosLayers(p)
      BY <2>0, <3>2 DEF JoinsClient
    <3> QED BY <1>0, <3>2, <3>3, <3>4, <3>5 DEF JoinsClient
  <2>2. CASE n \notin S
    <3>1. w[n + 1] = w[n]
      BY <1>1, <2>2
    <3>2. \A k \in Idx : k \in S /\ k < n + 1 => k < n
      BY <2>2, IdxNat
    <3> QED BY <1>0, <2>0, <3>1, <3>2
  <2> QED BY <2>1, <2>2
<1>4. LayerCount \in T
  <2> HIDE DEF T
  <2> QED BY <1>0, <1>2, <1>3, UpTo
<1> HIDE DEF T
<1>5. Good(LayerCount)
  BY <1>4 DEF T
<1>6. \A k \in Idx : k < LayerCount
  BY IdxNat
<1> QED BY <1>1, <1>5, <1>6

\* No pass has begun: no channel and no source of the G2D is taken.
Unused(p) == /\ Base(p) /\ Settled(p) /\ ExynosLayers(p) = {} /\ p.exynos.has = FALSE
             /\ p.reserved = FALSE /\ \A o \in Otfs : p.owner[o] = Free

\* A layer that SurfaceFlinger composes uses nothing up,
LEMMA UnusedOn ==
  ASSUME NEW p, NEW i, i \in Idx, Unused(p)
  PROVE  Unused(LayerOnClient(p, i))
<1> DEFINE q == LayerOnClient(p, i)
<1>1. JoinsClient(p, q, i)
  <2>1. Base(p) /\ p.type[i] # "exynos"
    BY DEF Unused, ExynosLayers
  <2>2. \A o \in Otfs : p.owner[o] # i
    BY FreeIsNoLayer DEF Unused
  <2> QED BY <2>1, <2>2, OntoClient
<1> HIDE DEF q
<1>2. ExynosLayers(q) = {}
  <2>1. ExynosLayers(q) \subseteq ExynosLayers(p)
    BY <1>1 DEF JoinsClient
  <2> QED BY <2>1 DEF Unused
<1>3. q.exynos.has = FALSE
  BY <1>1, <1>2 DEF JoinsClient, Unused, SameExynos, NoExynos, NoComposition
<1>4. q.reserved = FALSE /\ \A o \in Otfs : q.owner[o] = Free
  BY <1>1 DEF JoinsClient, Unused, Moved
<1>5. Unused(q)
  BY <1>1, <1>2, <1>3, <1>4 DEF JoinsClient, Unused
<1> QED BY <1>5 DEF q

\* and neither do all of them: the forced layers cannot fail (addClientCompositionLayer's
\* error needs an exynos layer).
LEMMA ForceAll ==
  ASSUME NEW p, NEW S, Unused(p)
  PROVE  Unused(AllOnClient(p, S))
<1>0. LayerCount \in Nat /\ \A n \in 0 .. LayerCount - 1 : n \in Idx
  BY IdxNat DEF Idx
<1>1. PICK w : /\ w[0] = p /\ w[LayerCount] = AllOnClient(p, S)
               /\ \A n \in 0 .. LayerCount - 1 :
                     w[n + 1] = IF n \in S THEN LayerOnClient(w[n], n) ELSE w[n]
  BY LayerOnClientWalk
<1> DEFINE T == {n \in 0 .. LayerCount : Unused(w[n])}
<1>2. 0 \in T
  BY <1>0, <1>1
<1>3. ASSUME NEW n \in 0 .. LayerCount - 1, n \in T PROVE n + 1 \in T
  <2>1. Unused(w[n]) /\ n \in Idx
    BY <1>0, <1>3
  <2>2. Unused(w[n + 1])
    BY <1>1, <2>1, UnusedOn
  <2> QED BY <1>0, <2>2
<1>4. LayerCount \in T
  <2> HIDE DEF T
  <2> QED BY <1>0, <1>2, <1>3, UpTo
<1> QED BY <1>1, <1>4

-----------------------------------------------------------------------------
(* addExynosCompositionLayer: the layers between join,                     *)

\* A layer is in one composition at most.
LEMMA LayersAreIdx == \A p : ExynosLayers(p) \subseteq Idx /\ ClientLayers(p) \subseteq Idx
                            /\ ExynosLayers(p) \intersect ClientLayers(p) = {}
BY DEF ExynosLayers, ClientLayers

\* No layer of the exynos composition has high priority.
LEMMA NoHighExynos ==
  ASSUME Plain, NEW p, Base(p)
  PROVE  \A x \in ExynosLayers(p) : ~IsHigh(x) /\ x \in Idx /\ x \in Int
BY IdxNat, LayersAreIdx DEF Plain, Base, G2dOk

\* The client range holds the client layers, and but layers of high priority no others.
LEMMA ClientIn ==
  ASSUME NEW p, Base(p)
  PROVE  /\ \A k \in ClientLayers(p) :
               p.client.has = TRUE /\ p.client.first <= k /\ k <= p.client.last
         /\ p.client.has = TRUE =>
               /\ p.client.first \in Idx /\ p.client.last \in Idx
               /\ p.client.first <= p.client.last
               /\ \A k \in Idx : p.client.first <= k /\ k <= p.client.last =>
                     k \in ClientLayers(p) \/ IsHigh(k)
<1>1. p.client.has \in BOOLEAN
  BY DEF Base, Plans, Compositions
<1>2. ASSUME p.client.has = TRUE
      PROVE  /\ p.client.first \in Idx /\ p.client.last \in Idx
             /\ p.client.first <= p.client.last
             /\ \A k \in p.client.first .. p.client.last : k \in ClientLayers(p) \/ IsHigh(k)
             /\ ClientLayers(p) \subseteq p.client.first .. p.client.last
  BY <1>2 DEF Base, ClientOk, Around
<1>3. ASSUME NEW k \in ClientLayers(p)
      PROVE  p.client.has = TRUE /\ p.client.first <= k /\ k <= p.client.last
  <2>1. p.client.has = TRUE
    BY <1>1, <1>3 DEF Base, ClientOk
  <2>2. k \in p.client.first .. p.client.last /\ p.client.first \in Idx /\ p.client.last \in Idx
    BY <1>2, <1>3, <2>1
  <2>3. p.client.first \in Int /\ p.client.last \in Int
    BY <2>2, IdxNat
  <2> QED BY <2>1, <2>2, <2>3
<1>4. ASSUME p.client.has = TRUE, NEW k \in Idx, p.client.first <= k, k <= p.client.last
      PROVE  k \in ClientLayers(p) \/ IsHigh(k)
  <2>1. /\ p.client.first \in Idx /\ p.client.last \in Idx
        /\ \A j \in p.client.first .. p.client.last : j \in ClientLayers(p) \/ IsHigh(j)
    BY <1>2, <1>4
  <2>2. p.client.first \in Int /\ p.client.last \in Int /\ k \in Int
    BY <2>1, IdxNat
  <2>3. k \in p.client.first .. p.client.last
    BY <1>4, <2>2
  <2> QED BY <2>1, <2>3
<1> QED BY <1>2, <1>3, <1>4

\* Layers stay in a composition, or go to the client composition.
LEMMA MovedLayers ==
  ASSUME NEW p, NEW q, p \in Plans, q \in Plans, Moved(p, q)
  PROVE  /\ ClientLayers(p) \subseteq ClientLayers(q)
         /\ ExynosLayers(p) \subseteq ExynosLayers(q) \union ClientLayers(q)
BY DEF Moved, ClientLayers, ExynosLayers

\* What changing the result leaves alone.
LEMMA Joined ==
  ASSUME NEW p, NEW m, NEW r, m \in Plans, r \in Results
  PROVE  LET q == [m EXCEPT !.ret = r]
         IN  /\ q \in Plans /\ q.ret = r
             /\ q.type = m.type /\ q.client = m.client /\ q.exynos = m.exynos /\ q.m2m = m.m2m
             /\ q.owner = m.owner /\ q.g2d = m.g2d /\ q.reserved = m.reserved
             /\ q.windows = m.windows /\ q.window = m.window
             /\ ExynosLayers(q) = ExynosLayers(m) /\ ClientLayers(q) = ClientLayers(m)
             /\ Base(m) => Base(q)
             /\ Moved(p, m) => Moved(p, q)
             /\ Keeps(p, m) => Keeps(p, q)
<1> DEFINE q == [m EXCEPT !.ret = r]
<1>1. /\ q \in Plans /\ q.ret = r
      /\ q.type = m.type /\ q.client = m.client /\ q.exynos = m.exynos /\ q.m2m = m.m2m
      /\ q.owner = m.owner /\ q.g2d = m.g2d /\ q.reserved = m.reserved
      /\ q.windows = m.windows /\ q.window = m.window
  BY DEF Plans
<1> HIDE DEF q
<1>2. ExynosLayers(q) = ExynosLayers(m) /\ ClientLayers(q) = ClientLayers(m)
  BY <1>1 DEF ExynosLayers, ClientLayers
<1>3. ASSUME Base(m) PROVE Base(q)
  <2>1. ClientOk(q) <=> ClientOk(m)
    BY <1>1, <1>2 DEF ClientOk
  <2>2. G2dOk(q) <=> G2dOk(m)
    BY <1>1, <1>2 DEF G2dOk
  <2>3. OwnersOk(q) <=> OwnersOk(m)
    BY <1>1, <1>2 DEF OwnersOk
  <2>4. InPlace(q) <=> InPlace(m)
    BY <1>1, <1>2 DEF InPlace
  <2> QED BY <1>1, <1>3, <2>1, <2>2, <2>3, <2>4 DEF Base
<1>4. Moved(p, m) => Moved(p, q)
  BY <1>1 DEF Moved
<1>5. Keeps(p, m) => Keeps(p, q)
  BY <1>1 DEF Keeps
<1> QED BY <1>1, <1>2, <1>3, <1>4, <1>5 DEF q

\* The result of two steps.
LEMMA BothResults ==
  ASSUME NEW r, NEW s, r \in {"ok", "changed"}, s \in {"ok", "changed"}
  PROVE  Both(r, s) \in {"ok", "changed"} /\ (Both(r, s) = "ok" => r = "ok" /\ s = "ok")
BY DEF Both

\* Two steps in a row: what Then leaves of a step that moved a layer to the client composition.
LEMMA ThenJoins ==
  ASSUME NEW b, NEW a, NEW i, i \in Idx, b \in Plans, Fine(b, a)
  PROVE  LET m == MoveToClient(a, i)
             q == Then(a, m)
         IN  /\ JoinsClient(a, m, i) /\ Fine(b, q) /\ m \in Plans /\ Moved(a, m)
             /\ q \in Plans /\ q.client = m.client /\ q.exynos = m.exynos /\ q.m2m = m.m2m
             /\ q.type = m.type
             /\ ExynosLayers(q) = ExynosLayers(m) /\ ClientLayers(q) = ClientLayers(m)
<1> DEFINE m == MoveToClient(a, i)
           q == Then(a, m)
<1>1. JoinsClient(a, m, i)
  BY MovesToClient DEF Fine
<1> HIDE DEF m
<1>2. q = [m EXCEPT !.ret = Both(a.ret, m.ret)]
  BY DEF Then
<1>3. /\ Both(a.ret, m.ret) \in {"ok", "changed"}
      /\ Both(a.ret, m.ret) = "ok" => a.ret = "ok" /\ m.ret = "ok"
  BY <1>1, BothResults DEF JoinsClient, Fine, Settled
<1>4. m \in Plans /\ Both(a.ret, m.ret) \in Results
  BY <1>1, <1>3 DEF JoinsClient, Base, Results
<1> HIDE DEF q
<1>5. /\ q \in Plans /\ q.ret = Both(a.ret, m.ret) /\ q.type = m.type
      /\ q.client = m.client /\ q.exynos = m.exynos /\ q.m2m = m.m2m
      /\ ExynosLayers(q) = ExynosLayers(m) /\ ClientLayers(q) = ClientLayers(m)
      /\ Base(m) => Base(q)
      /\ Moved(b, m) => Moved(b, q)
      /\ Keeps(b, m) => Keeps(b, q)
  BY <1>2, <1>4, Joined
<1>6. Moved(b, m)
  BY <1>1, MovedOn DEF JoinsClient, Fine
<1>7. q.ret = "ok" => Keeps(b, m)
  BY <1>1, <1>3, <1>5, KeptOn DEF JoinsClient, Fine
<1>8. Fine(b, q)
  BY <1>1, <1>3, <1>5, <1>6, <1>7 DEF Fine, Settled, JoinsClient
<1> QED BY <1>1, <1>4, <1>5, <1>8 DEF q, m, JoinsClient

\* The layer n between the layers of the exynos composition leaves some of them there.
LEMMA SomeStay ==
  ASSUME Plain, NEW b, NEW a, NEW n, n \in Idx, Base(b), Gapless(b),
         b.exynos.first \in ExynosLayers(b), b.exynos.first <= n, n <= b.exynos.last,
         Taking(b, a, n), ~IsHigh(n), n \notin ExynosLayers(a), n \notin ClientLayers(a),
         NEW m, JoinsClient(a, m, n)
  PROVE  ExynosLayers(m) # {}
<1>0. /\ Base(a) /\ Moved(b, a) /\ b \in Plans /\ a \in Plans
  BY DEF Taking, Fine, Base
<1>1. n \notin ExynosLayers(b)
  BY <1>0, MovedLayers
<1>2. PICK x \in ExynosLayers(b) : n <= x
  BY DEF Gapless
<1> DEFINE lo == b.exynos.first
<1>3. lo \in Int /\ x \in Int /\ n \in Int /\ lo < n /\ n < x /\ ~IsHigh(lo) /\ ~IsHigh(x) /\ lo \in Idx /\ x \in Idx
  <2>1. lo \in Int /\ x \in Int /\ n \in Int /\ ~IsHigh(lo) /\ ~IsHigh(x) /\ lo \in Idx /\ x \in Idx
    BY <1>2, NoHighExynos, IdxNat
  <2>2. lo # n /\ x # n
    BY <1>1, <1>2
  <2> QED BY <1>2, <2>1, <2>2
<1>4. /\ lo \in ExynosLayers(a) \/ lo \in ClientLayers(a)
      /\ x \in ExynosLayers(a) \/ x \in ClientLayers(a)
  BY <1>0, <1>2, MovedLayers
<1> HIDE DEF lo
<1>5. /\ m.client.first = IF a.client.has = TRUE /\ a.client.first < n THEN a.client.first ELSE n
      /\ m.client.last = IF a.client.has = TRUE /\ a.client.last > n THEN a.client.last ELSE n
      /\ \A k \in ExynosLayers(a) \ ExynosLayers(m) : k = n \/ (m.client.first < k /\ k < m.client.last)
  BY DEF JoinsClient
<1>6. /\ \A k \in ClientLayers(a) :
             a.client.has = TRUE /\ a.client.first <= k /\ k <= a.client.last
      /\ a.client.has = TRUE =>
             /\ a.client.first \in Int /\ a.client.last \in Int /\ a.client.first <= a.client.last
             /\ \A k \in Idx : a.client.first <= k /\ k <= a.client.last =>
                   k \in ClientLayers(a) \/ IsHigh(k)
  BY <1>0, ClientIn, IdxNat
<1>7. CASE a.client.has # TRUE
  <2>1. lo \in ExynosLayers(a)
    BY <1>4, <1>6, <1>7
  <2>2. m.client.first = n /\ m.client.last = n
    BY <1>5, <1>7
  <2> QED BY <2>1, <2>2, <1>3, <1>5
<1>8. CASE a.client.has = TRUE /\ n < a.client.first
  <2>1. lo \in ExynosLayers(a)
    BY <1>3, <1>4, <1>6, <1>8
  <2>2. m.client.first = n
    BY <1>3, <1>5, <1>6, <1>8
  <2> QED BY <2>1, <2>2, <1>3, <1>5
<1>9. CASE a.client.has = TRUE /\ n > a.client.last
  <2>1. x \in ExynosLayers(a)
    BY <1>3, <1>4, <1>6, <1>9
  <2>2. m.client.last = n
    BY <1>3, <1>5, <1>6, <1>9
  <2> QED BY <2>1, <2>2, <1>3, <1>5
<1>10. CASE a.client.has = TRUE /\ a.client.first <= n /\ n <= a.client.last
  BY <1>6, <1>10
<1>11. a.client.has = TRUE =>
          n < a.client.first \/ n > a.client.last \/ (a.client.first <= n /\ n <= a.client.last)
  <2> SUFFICES ASSUME a.client.has = TRUE
               PROVE  n < a.client.first \/ n > a.client.last
                      \/ (a.client.first <= n /\ n <= a.client.last)
    OBVIOUS
  <2>1. a.client.first \in Int /\ a.client.last \in Int
    BY <1>6
  <2> QED BY <2>1, <1>3
<1> QED BY <1>7, <1>8, <1>9, <1>10, <1>11

\* The walk over the layers between: one that the G2D does not take goes to the client composition.
LEMMA TakeOut ==
  ASSUME Plain, NEW b, NEW a, NEW n, n \in Idx, Base(b), Gapless(b),
         b.exynos.first \in ExynosLayers(b), b.exynos.first <= n, n <= b.exynos.last,
         Taking(b, a, n), ~IsHigh(n), n \notin ExynosLayers(a), n \notin ClientLayers(a)
  PROVE  Taking(b, Then(a, MoveToClient(a, n)), n + 1)
<1> DEFINE m == MoveToClient(a, n)
           q == Then(a, m)
<1>0. Fine(b, a) /\ b \in Plans
  BY DEF Taking, Base
<1>1. /\ JoinsClient(a, m, n) /\ Fine(b, q) /\ m \in Plans /\ Moved(a, m)
      /\ q \in Plans /\ q.client = m.client /\ q.exynos = m.exynos /\ q.m2m = m.m2m
      /\ ExynosLayers(q) = ExynosLayers(m) /\ ClientLayers(q) = ClientLayers(m)
  BY <1>0, ThenJoins
<1> HIDE DEF m, q
<1>2. ExynosLayers(m) # {}
  BY <1>1, SomeStay
<1>3. \/ ExynosLayers(m) = ExynosLayers(a) \ {n} /\ SameExynos(a, m)
      \/ Shrunk(a, m)
  BY <1>1, <1>2 DEF JoinsClient
<1>4. /\ n \in ClientLayers(m) /\ ExynosLayers(m) \subseteq ExynosLayers(a)
      /\ ExynosLayers(a) \subseteq ExynosLayers(m) \union ClientLayers(m)
      /\ ClientLayers(a) \subseteq ClientLayers(m)
  <2>1. a \in Plans
    BY <1>0 DEF Fine, Base
  <2>2. n \in ClientLayers(m) /\ ExynosLayers(m) \subseteq ExynosLayers(a)
    BY <1>1 DEF JoinsClient, ClientLayers
  <2> QED BY <1>1, <2>1, <2>2, MovedLayers
<1>5. \A k \in Idx : b.exynos.first <= k /\ k <= b.exynos.last /\ k < n + 1 /\ ~IsHigh(k) =>
          k \in ExynosLayers(m) \/ k \in ClientLayers(m)
  <2>1. \A k \in Idx : b.exynos.first <= k /\ k <= b.exynos.last /\ k < n /\ ~IsHigh(k) =>
          k \in ExynosLayers(a) \/ k \in ClientLayers(a)
    BY DEF Taking
  <2>2. \A k \in Idx : k < n + 1 => k < n \/ k = n
    BY IdxNat
  <2> QED BY <1>4, <2>1, <2>2
<1>6. /\ a.exynos.first \in ExynosLayers(a) /\ a.exynos.last \in Idx
      /\ b.exynos.first <= a.exynos.first /\ a.exynos.last <= b.exynos.last
      /\ Within(a.exynos, ExynosLayers(a)) /\ Gapless(a)
      /\ a.exynos.has = TRUE /\ a.m2m = TRUE
  BY DEF Taking
<1>7. CASE ExynosLayers(m) = ExynosLayers(a) \ {n} /\ SameExynos(a, m)
  <2>1. ExynosLayers(m) = ExynosLayers(a)
    BY <1>7
  <2>2. m.exynos = a.exynos /\ m.m2m = a.m2m
    BY <1>7 DEF SameExynos
  <2>3. Gapless(q)
    BY <1>1, <1>6, <2>1, <2>2 DEF Gapless
  <2>4. Within(q.exynos, ExynosLayers(q))
    BY <1>1, <1>6, <2>1, <2>2
  <2> QED BY <1>1, <1>5, <1>6, <2>1, <2>2, <2>3, <2>4 DEF Taking, q, m
<1>8. CASE Shrunk(a, m)
  <2>1. /\ m.exynos.has = TRUE /\ m.m2m = TRUE
        /\ m.exynos.first \in ExynosLayers(m) /\ m.exynos.last \in ExynosLayers(m)
        /\ \A j \in ExynosLayers(m) : m.exynos.first <= j /\ j <= m.exynos.last
    BY <1>6, <1>8 DEF Shrunk
  <2>2. /\ a.exynos.first <= m.exynos.first /\ m.exynos.last <= a.exynos.last
    BY <1>4, <1>6, <2>1 DEF Within
  <2>3. /\ b.exynos.first \in Int /\ b.exynos.last \in Int /\ a.exynos.first \in Int /\ a.exynos.last \in Int
        /\ m.exynos.first \in Int /\ m.exynos.last \in Idx /\ m.exynos.last \in Int
    BY <1>0, <1>6, <2>1, LayersAreIdx, IdxNat DEF Plans, Compositions
  <2>4. b.exynos.first <= m.exynos.first /\ m.exynos.last <= b.exynos.last
    BY <1>6, <2>2, <2>3
  <2>5. Gapless(q)
    BY <1>1, <2>1 DEF Gapless
  <2>6. Within(q.exynos, ExynosLayers(q))
    BY <1>1, <2>1 DEF Within
  <2> QED BY <1>1, <1>5, <2>1, <2>3, <2>4, <2>5, <2>6 DEF Taking, q, m
<1> QED BY <1>3, <1>7, <1>8

\* A count is a number.
LEMMA CountInt == ASSUME NEW n, n \in Int PROVE Count(n) \in Int
BY ResourceAssumption DEF Count

\* One that the G2D takes.
LEMMA TakeIn ==
  ASSUME Plain, NEW b, NEW a, NEW n, n \in Idx, b \in Plans,
         b.exynos.first <= n, n <= b.exynos.last,
         Taking(b, a, n), ~IsHigh(n), n \notin ExynosLayers(a), n \notin ClientLayers(a),
         a.ret # "error", stack[n].g2d = TRUE, G2dTakes(a)
  PROVE  Taking(b, TakeIntoExynos(a, n), n + 1)
<1> DEFINE s == Release(a, {n})
           r == SetType(s, {n}, "exynos")
           q == TakeIntoExynos(a, n)
           e == Span(a.exynos, n)
           win == IF a.type[n] = "device" THEN Count(a.windows - 1) ELSE a.windows
<1>0. /\ a \in Plans /\ Base(a) /\ Moved(b, a) /\ n \in Int
  BY IdxNat DEF Taking, Fine, Base
<1>1. /\ s \in Plans
      /\ \A o \in Otfs : s.owner[o] = IF a.owner[o] \in {n} THEN Free ELSE a.owner[o]
      /\ s.g2d = a.g2d \ {n}
      /\ s.client = a.client /\ s.exynos = a.exynos /\ s.m2m = a.m2m /\ s.type = a.type
      /\ s.reserved = a.reserved /\ s.windows = a.windows /\ s.ret = a.ret
  BY <1>0, Released
<1>2. a.type[n] \notin {"exynos", "client"}
  BY DEF ExynosLayers, ClientLayers
<1>3. q = [r EXCEPT !.g2d = @ \union {n}, !.windows = IF a.type[n] = "device" THEN Count(@ - 1) ELSE @,
                    !.exynos = Span(@, n)]
  BY <1>2 DEF TakeIntoExynos
<1> HIDE DEF s, q
<1>4. /\ r \in Plans
      /\ \A k \in Idx : r.type[k] = IF k \in {n} THEN "exynos" ELSE s.type[k]
      /\ r.client = s.client /\ r.exynos = s.exynos /\ r.m2m = s.m2m /\ r.owner = s.owner
      /\ r.g2d = s.g2d /\ r.reserved = s.reserved /\ r.windows = s.windows /\ r.ret = s.ret
  <2>1. "exynos" \in Types
    BY DEF Types
  <2> QED BY <1>1, <2>1, Typed
<1> HIDE DEF r
<1>5. a.exynos \in Compositions /\ a.windows \in Int /\ a.g2d \subseteq Idx
  BY <1>0 DEF Plans
<1>6. /\ e \in Compositions /\ e.has = a.exynos.has /\ e.otf = a.exynos.otf
      /\ e.first = IF a.exynos.first < n THEN a.exynos.first ELSE n
      /\ e.last = IF a.exynos.last > n THEN a.exynos.last ELSE n
  BY <1>0, <1>5, SpanFields
<1>7. win \in Int
  BY <1>5, CountInt
<1>8. q = [r EXCEPT !.g2d = (a.g2d \ {n}) \union {n}, !.windows = win, !.exynos = e]
  BY <1>1, <1>3, <1>4 DEF Plans
<1> HIDE DEF e, win
<1>9. q \in Plans
  BY <1>4, <1>5, <1>6, <1>7, <1>8 DEF Plans
<1>10. /\ q.g2d = (a.g2d \ {n}) \union {n} /\ q.exynos = e /\ q.type = r.type /\ q.client = r.client
       /\ q.m2m = r.m2m /\ q.owner = r.owner /\ q.reserved = r.reserved /\ q.ret = r.ret
  BY <1>4, <1>8 DEF Plans
<1>11. /\ \A k \in Idx : q.type[k] = IF k = n THEN "exynos" ELSE a.type[k]
       /\ \A o \in Otfs : q.owner[o] = IF a.owner[o] = n THEN Free ELSE a.owner[o]
       /\ q.client = a.client /\ q.m2m = a.m2m /\ q.reserved = a.reserved /\ q.ret = a.ret
       /\ n \in q.g2d /\ a.g2d \subseteq q.g2d
  BY <1>1, <1>4, <1>10
<1>12. /\ ExynosLayers(q) = ExynosLayers(a) \union {n} /\ ClientLayers(q) = ClientLayers(a)
  BY <1>2, <1>11 DEF ExynosLayers, ClientLayers
<1>13. /\ a.exynos.first \in ExynosLayers(a) /\ a.exynos.last \in Idx
       /\ b.exynos.first <= a.exynos.first /\ a.exynos.last <= b.exynos.last
       /\ Within(a.exynos, ExynosLayers(a)) /\ Gapless(a)
       /\ a.exynos.has = TRUE /\ a.m2m = TRUE
  BY DEF Taking
<1>14. a.exynos.first \in Int /\ a.exynos.last \in Int /\ ExynosLayers(a) \subseteq Int
  BY <1>5, LayersAreIdx, IdxNat DEF Compositions
<1>15. Base(q)
  <2>1. ClientOk(q)
    BY <1>0, <1>11, <1>12 DEF Base, ClientOk
  <2>2. G2dOk(q)
    BY <1>0, <1>11, <1>12 DEF Base, G2dOk
  <2>3. OwnersOk(q)
    <3>1. \A o \in Otfs : a.owner[o] \in Idx => a.type[a.owner[o]] = "device"
      BY <1>0 DEF Base, OwnersOk
    <3>2. ASSUME NEW o \in Otfs, q.owner[o] \in Idx PROVE q.type[q.owner[o]] = "device"
      <4>1. a.owner[o] # n /\ q.owner[o] = a.owner[o]
        BY <1>11, <3>2, FreeIsNoLayer
      <4> QED BY <1>11, <3>1, <3>2, <4>1
    <3> QED BY <3>2 DEF OwnersOk
  <2>4. InPlace(q)
    BY <1>6, <1>10, <1>13, LayersAreIdx DEF InPlace
  <2> QED BY <1>9, <2>1, <2>2, <2>3, <2>4 DEF Base
<1>16. Moved(a, q)
  <2>1. \A k \in Idx : /\ a.type[k] = "client" => q.type[k] = "client"
                       /\ a.type[k] = "exynos" => q.type[k] \in {"exynos", "client"}
                       /\ q.type[k] \in {a.type[k], "exynos", "client"}
    BY <1>2, <1>11
  <2>2. \A o \in Otfs :
          /\ q.owner[o] \in {a.owner[o], Free}
          /\ a.owner[o] \notin Idx => q.owner[o] = a.owner[o]
          /\ a.owner[o] \in Idx /\ q.type[a.owner[o]] = "device" => q.owner[o] = a.owner[o]
    BY <1>11
  <2>3. q.reserved = a.reserved
    BY <1>11
  <2> QED BY <2>1, <2>2, <2>3 DEF Moved
<1>17. Fine(b, q)
  <2>1. Moved(b, q)
    BY <1>0, <1>16, MovedOn
  <2>2. Keeps(b, a) => Keeps(b, q)
    BY <1>6, <1>10, <1>11 DEF Keeps
  <2> QED BY <1>11, <1>15, <2>1, <2>2 DEF Taking, Fine, Settled
<1>18. Within(q.exynos, ExynosLayers(q))
  BY <1>0, <1>6, <1>10, <1>12, <1>13, <1>14 DEF Within
<1>19. Gapless(q)
  <2> SUFFICES ASSUME NEW j \in Idx, e.first <= j, j <= e.last, ~IsHigh(j)
               PROVE  \E x \in ExynosLayers(q) : j <= x
    BY <1>10 DEF Gapless
  <2>0. j \in Int
    BY IdxNat
  <2>1. CASE j <= n
    BY <2>1, <1>12
  <2>2. CASE j > n /\ j < a.exynos.first
    BY <2>0, <2>2, <1>12, <1>13, <1>14
  <2>3. CASE j > n /\ j >= a.exynos.first
    <3>1. j <= a.exynos.last
      BY <2>0, <2>3, <1>0, <1>6, <1>14
    <3>2. PICK x \in ExynosLayers(a) : j <= x
      BY <2>0, <2>3, <3>1, <1>13, <1>14 DEF Gapless
    <3> QED BY <3>2, <1>12
  <2> QED BY <2>0, <2>1, <2>2, <2>3, <1>0, <1>14
<1>20. /\ e.first \in ExynosLayers(q) /\ e.last \in Idx
       /\ b.exynos.first <= e.first /\ e.last <= b.exynos.last
  BY <1>0, <1>6, <1>12, <1>13
<1>21. \A k \in Idx : b.exynos.first <= k /\ k <= b.exynos.last /\ k < n + 1 /\ ~IsHigh(k) =>
          k \in ExynosLayers(q) \/ k \in ClientLayers(q)
  <2>1. \A k \in Idx : b.exynos.first <= k /\ k <= b.exynos.last /\ k < n /\ ~IsHigh(k) =>
          k \in ExynosLayers(a) \/ k \in ClientLayers(a)
    BY DEF Taking
  <2>2. \A k \in Idx : k < n + 1 => k < n \/ k = n
    BY IdxNat
  <2> QED BY <1>12, <2>1, <2>2
<1>22. Taking(b, q, n + 1)
  BY <1>6, <1>10, <1>11, <1>13, <1>17, <1>18, <1>19, <1>20, <1>21 DEF Taking
<1> QED BY <1>22 DEF q

\* What the walk starts from: the exynos composition with the new layer.
Started(b) == /\ Base(b) /\ Gapless(b) /\ b.ret = "ok" /\ b.exynos.has = TRUE /\ b.m2m = TRUE
              /\ b.exynos.first \in ExynosLayers(b) /\ b.exynos.last \in Idx
              /\ Within(b.exynos, ExynosLayers(b))

\* One layer of the walk, whatever becomes of it,
LEMMA TakeStep ==
  ASSUME Plain, NEW b, NEW a, NEW n, n \in Idx, Started(b), Taking(b, a, n),
         b.exynos.first <= n, n <= b.exynos.last
  PROVE  Taking(b, TakeIntoExynos(a, n), n + 1)
<1>1. a.ret # "error"
  BY DEF Taking, Fine, Settled
<1>2. CASE IsHigh(n) \/ a.type[n] \in {"exynos", "client"}
  <2>1. TakeIntoExynos(a, n) = a
    BY <1>2 DEF TakeIntoExynos
  <2>2. \A k \in Idx : k < n + 1 => k < n \/ k = n
    BY IdxNat
  <2>3. IsHigh(n) \/ n \in ExynosLayers(a) \/ n \in ClientLayers(a)
    BY <1>2 DEF ExynosLayers, ClientLayers
  <2>4. \A k \in Idx : b.exynos.first <= k /\ k <= b.exynos.last /\ k < n + 1 /\ ~IsHigh(k) =>
          k \in ExynosLayers(a) \/ k \in ClientLayers(a)
    BY <2>2, <2>3 DEF Taking
  <2> QED BY <2>1, <2>4 DEF Taking
<1>3. CASE ~IsHigh(n) /\ a.type[n] \notin {"exynos", "client"}
  <2>1. n \notin ExynosLayers(a) /\ n \notin ClientLayers(a)
    BY <1>3 DEF ExynosLayers, ClientLayers
  <2>2. CASE stack[n].g2d = TRUE /\ G2dTakes(a)
    BY <1>1, <1>3, <2>1, <2>2, TakeIn DEF Started, Base
  <2>3. CASE ~ (stack[n].g2d = TRUE /\ G2dTakes(a))
    <3>0. stack[n].g2d \in BOOLEAN
      BY ResourceAssumption DEF Plain
    <3>1. TakeIntoExynos(a, n) = Then(a, MoveToClient(a, n))
      BY <1>1, <1>3, <2>3, <3>0 DEF TakeIntoExynos
    <3>2. Taking(b, Then(a, MoveToClient(a, n)), n + 1)
      BY <1>3, <2>1, TakeOut DEF Started
    <3> QED BY <3>1, <3>2
  <2> QED BY <2>2, <2>3
<1> QED BY <1>2, <1>3

\* and the whole walk.
LEMMA TakeAll ==
  ASSUME Plain, NEW b, Started(b)
  PROVE  Taking(b, TakeAllIntoExynos(b, b.exynos.first .. b.exynos.last), LayerCount)
<1> DEFINE S == b.exynos.first .. b.exynos.last
<1>0. /\ LayerCount \in Nat /\ \A n \in 0 .. LayerCount - 1 : n \in Idx
      /\ b.exynos.first \in Int /\ b.exynos.last \in Int
  BY IdxNat, LayersAreIdx DEF Idx, Started
<1> HIDE DEF S
<1>1. PICK w : /\ w[0] = b /\ w[LayerCount] = TakeAllIntoExynos(b, S)
               /\ \A n \in 0 .. LayerCount - 1 :
                     w[n + 1] = IF n \in S THEN TakeIntoExynos(w[n], n) ELSE w[n]
  BY TakeIntoExynosWalk
<1> DEFINE T == {n \in 0 .. LayerCount : Taking(b, w[n], n)}
<1>2. 0 \in T
  <2>1. Fine(b, b)
    BY MovedSelf DEF Started, Fine, Settled, Base
  <2>2. \A k \in Idx : ~ (k < 0)
    BY IdxNat
  <2>3. Taking(b, b, 0)
    BY <1>0, <2>1, <2>2 DEF Taking, Started
  <2> QED BY <1>0, <1>1, <2>3
<1>3. ASSUME NEW n \in 0 .. LayerCount - 1, n \in T PROVE n + 1 \in T
  <2>0. Taking(b, w[n], n) /\ n \in Idx /\ n \in Int
    BY <1>0, <1>3
  <2>1. CASE n \in S
    <3>1. b.exynos.first <= n /\ n <= b.exynos.last
      BY <1>0, <2>1 DEF S
    <3>2. Taking(b, w[n + 1], n + 1)
      BY <1>1, <2>0, <2>1, <3>1, TakeStep
    <3> QED BY <1>0, <3>2
  <2>2. CASE n \notin S
    <3>1. w[n + 1] = w[n]
      BY <1>1, <2>2
    <3>2. ~ (b.exynos.first <= n /\ n <= b.exynos.last)
      BY <1>0, <2>0, <2>2 DEF S
    <3>3. \A k \in Idx : k < n + 1 => k < n \/ k = n
      BY IdxNat
    <3>4. Taking(b, w[n], n + 1)
      BY <2>0, <3>2, <3>3 DEF Taking
    <3> QED BY <1>0, <3>1, <3>4
  <2> QED BY <2>1, <2>2
<1>4. LayerCount \in T
  <2> HIDE DEF T
  <2> QED BY <1>0, <1>2, <1>3, UpTo
<1> QED BY <1>1, <1>4 DEF S

-----------------------------------------------------------------------------
(* a nest is split,                                                        *)

\* What the walk leaves.
LEMMA TakenFacts ==
  ASSUME Plain, NEW b, NEW t, Started(b), Taking(b, t, LayerCount)
  PROVE  /\ Base(t) /\ b \in Plans /\ t \in Plans
         /\ b.exynos.first \in Int /\ b.exynos.last \in Int /\ b.exynos.last < LayerCount
         /\ t.exynos.first \in Idx /\ t.exynos.first \in Int /\ t.exynos.last \in Idx /\ t.exynos.last \in Int
         /\ \A k \in Idx : t.exynos.first <= k /\ k <= t.exynos.last /\ ~IsHigh(k) =>
               k \in ExynosLayers(t) \/ k \in ClientLayers(t)
<1>1. Base(t) /\ b \in Plans /\ t \in Plans
  BY DEF Taking, Fine, Started, Base
<1>2. /\ t.exynos.first \in Idx /\ t.exynos.last \in Idx
      /\ b.exynos.first \in Idx /\ b.exynos.last \in Idx
  BY LayersAreIdx DEF Taking, Started
<1>3. /\ t.exynos.first \in Int /\ t.exynos.last \in Int
      /\ b.exynos.first \in Int /\ b.exynos.last \in Int /\ b.exynos.last < LayerCount
  BY <1>2, IdxNat
<1>4. ASSUME NEW k \in Idx, t.exynos.first <= k, k <= t.exynos.last, ~IsHigh(k)
      PROVE  k \in ExynosLayers(t) \/ k \in ClientLayers(t)
  <2>1. k \in Int /\ k < LayerCount
    BY IdxNat
  <2>2. b.exynos.first <= t.exynos.first /\ t.exynos.last <= b.exynos.last
    BY DEF Taking
  <2>3. b.exynos.first <= k /\ k <= b.exynos.last
    BY <1>3, <1>4, <2>1, <2>2
  <2> QED BY <1>4, <2>1, <2>3 DEF Taking
<1> QED BY <1>1, <1>2, <1>3, <1>4

\* Where no client layer is left in the exynos range, nothing needs to be split.
LEMMA Unsplit ==
  ASSUME Plain, NEW b, NEW t, Started(b), Taking(b, t, LayerCount),
         \A k \in Idx : t.exynos.first <= k /\ k <= t.exynos.last /\ ~IsHigh(k) => k \notin ClientLayers(t)
  PROVE  Loose(b, t)
<1>1. \A j \in Idx : t.exynos.first <= j /\ j <= t.exynos.last => j \in ExynosLayers(t) \/ IsHigh(j)
  BY TakenFacts
<1>2. t.exynos.first \in Nat /\ t.exynos.last \in Int
  BY TakenFacts, IdxNat
<1> QED BY <1>1, <1>2 DEF Taking, Loose

\* Where the client composition is inside, the lower side goes to it,
LEMMA SplitLow ==
  ASSUME Plain, NEW b, NEW t, Started(b), Taking(b, t, LayerCount), t.client.has = TRUE,
         t.exynos.first < t.client.first, t.client.last < t.exynos.last
  PROVE  LET q == Then(t, MoveToClient(t, t.exynos.first))
         IN  Loose(b, [q EXCEPT !.exynos.first = q.client.last + 1])
<1> DEFINE m == MoveToClient(t, t.exynos.first)
           q == Then(t, m)
           s == [q EXCEPT !.exynos.first = q.client.last + 1]
           cf == t.client.first
           cl == t.client.last
           ef == t.exynos.first
           el == t.exynos.last
<1>0. /\ Base(t) /\ b \in Plans /\ t \in Plans /\ Fine(b, t)
      /\ b.exynos.first \in Int /\ b.exynos.last \in Int /\ b.exynos.last < LayerCount
      /\ ef \in Idx /\ ef \in Int /\ el \in Idx /\ el \in Int
      /\ \A k \in Idx : ef <= k /\ k <= el /\ ~IsHigh(k) =>
            k \in ExynosLayers(t) \/ k \in ClientLayers(t)
  BY TakenFacts DEF Taking
<1>1. /\ JoinsClient(t, m, ef) /\ Fine(b, q) /\ q \in Plans
      /\ q.client = m.client /\ q.exynos = m.exynos /\ q.m2m = m.m2m /\ q.type = m.type
      /\ ExynosLayers(q) = ExynosLayers(m) /\ ClientLayers(q) = ClientLayers(m)
  BY <1>0, ThenJoins
<1>2. /\ cf \in Idx /\ cl \in Idx /\ cf \in Int /\ cl \in Int /\ cf <= cl
      /\ \A k \in ClientLayers(t) : cf <= k /\ k <= cl
  BY <1>0, ClientIn, IdxNat
<1>3. m.client.has = TRUE /\ m.client.first = ef /\ m.client.last = cl
  BY <1>0, <1>1, <1>2 DEF JoinsClient
<1>4. /\ ExynosLayers(m) \subseteq ExynosLayers(t)
      /\ \A k \in ExynosLayers(t) \ ExynosLayers(m) : k = ef \/ (ef < k /\ k < cl)
      /\ Base(m)
  BY <1>1, <1>3 DEF JoinsClient
<1>5. \/ ExynosLayers(m) = ExynosLayers(t) \ {ef} /\ SameExynos(t, m)
      \/ ExynosLayers(m) = {} /\ NoExynos(m)
      \/ Shrunk(t, m)
  BY <1>1 DEF JoinsClient
<1> HIDE DEF m, q, s, cf, cl, ef, el
<1>6. q.exynos \in Compositions
  BY <1>1 DEF Plans
<1> DEFINE x == [q.exynos EXCEPT !.first = cl + 1]
<1>7. x \in Compositions /\ x.has = m.exynos.has /\ x.otf = m.exynos.otf /\ x.first = cl + 1
      /\ x.last = m.exynos.last
  BY <1>1, <1>2, <1>6 DEF Compositions
<1>8. s = [q EXCEPT !.exynos = x]
  BY <1>1, <1>3 DEF s, Plans
<1> HIDE DEF x
<1>9. /\ s \in Plans /\ s.exynos = x /\ s.type = q.type /\ s.client = q.client /\ s.m2m = q.m2m
      /\ s.owner = q.owner /\ s.g2d = q.g2d /\ s.reserved = q.reserved /\ s.ret = q.ret
  BY <1>1, <1>7, <1>8 DEF Plans
<1>10. /\ ExynosLayers(s) = ExynosLayers(m) /\ ClientLayers(s) = ClientLayers(m)
  BY <1>1, <1>9 DEF ExynosLayers, ClientLayers
<1>11. \A k \in ExynosLayers(m) : k \in Idx /\ k \in Int /\ k > cl /\ k <= el
  <2> SUFFICES ASSUME NEW k \in ExynosLayers(m) PROVE k \in Idx /\ k \in Int /\ k > cl /\ k <= el
    OBVIOUS
  <2>1. k \in Idx /\ k \in Int /\ ~IsHigh(k) /\ k \notin ClientLayers(m)
    BY <1>4, NoHighExynos, LayersAreIdx
  <2>2. ef <= k /\ k <= el
    BY <1>4 DEF Taking, Within, ef, el
  <2>3. ~ (m.client.first <= k /\ k <= m.client.last)
    BY <1>3, <1>4, <2>1, ClientIn
  <2>4. k > cl
    BY <1>0, <1>2, <1>3, <2>1, <2>2, <2>3
  <2> QED BY <2>1, <2>2, <2>4
<1>12. \A j \in Idx : cl + 1 <= j /\ j <= el => j \in ExynosLayers(m) \/ IsHigh(j)
  <2> SUFFICES ASSUME NEW j \in Idx, cl + 1 <= j, j <= el, ~IsHigh(j) PROVE j \in ExynosLayers(m)
    OBVIOUS
  <2>1. j \in Int /\ j > cl /\ ef < cf
    BY <1>2, IdxNat DEF ef, cf
  <2>2. j \in ExynosLayers(t)
    BY <1>0, <1>2, <2>1
  <2> QED BY <1>0, <1>2, <1>4, <2>1, <2>2
<1>13. /\ x.last \in Int /\ x.last <= el
       /\ \A k \in ExynosLayers(m) : k <= x.last
       /\ ExynosLayers(m) # {} => m.exynos.has = TRUE /\ m.m2m = TRUE
  <2>1. t.exynos.has = TRUE /\ t.m2m = TRUE
    BY DEF Taking
  <2>2. CASE SameExynos(t, m)
    <3>1. m.exynos = t.exynos /\ m.m2m = t.m2m
      BY <2>2 DEF SameExynos
    <3> QED BY <1>0, <1>7, <1>11, <2>1, <3>1 DEF el
  <2>3. CASE ExynosLayers(m) = {} /\ NoExynos(m)
    <3>1. m.exynos.last = -1
      BY <2>3 DEF NoExynos, NoComposition
    <3>2. -1 <= el /\ -1 \in Int
      BY <1>0, IdxNat
    <3> QED BY <1>7, <2>3, <3>1, <3>2
  <2>4. CASE Shrunk(t, m)
    <3>1. m.exynos.last \in ExynosLayers(m)
      BY <2>4 DEF Shrunk
    <3> QED BY <1>7, <1>11, <2>1, <2>4, <3>1 DEF Shrunk
  <2> QED BY <1>5, <2>2, <2>3, <2>4
<1>14. Base(s)
  <2>1. Base(q)
    BY <1>1 DEF Fine
  <2>2. ClientOk(s) /\ G2dOk(s) /\ OwnersOk(s)
    <3>1. ClientLayers(s) = ClientLayers(q) /\ ExynosLayers(s) = ExynosLayers(q)
      BY <1>1, <1>10
    <3> QED BY <1>9, <2>1, <3>1 DEF Base, ClientOk, G2dOk, OwnersOk
  <2>3. InPlace(s)
    <3> SUFFICES ASSUME ExynosLayers(m) # {} PROVE x.first \in Idx /\ x.last \in Idx
      BY <1>9, <1>10 DEF InPlace
    <3>1. PICK k : k \in ExynosLayers(m)
      OBVIOUS
    <3>2. k > cl /\ k \in Int /\ k <= x.last /\ k < LayerCount
      BY <1>11, <1>13, <3>1, IdxNat
    <3>3. cl + 1 \in Idx
      BY <1>2, <3>2, IdxNat
    <3>4. x.last \in Idx
      BY <1>0, <1>2, <1>13, <3>2, IdxNat
    <3> QED BY <1>7, <3>3, <3>4
  <2> QED BY <1>9, <2>2, <2>3 DEF Base
<1>15. Fine(b, s)
  <2>1. Moved(b, s)
    BY <1>1, <1>9 DEF Fine, Moved
  <2>2. s.ret = "ok" => Keeps(b, s)
    <3>1. s.ret = "ok" => Keeps(b, q)
      BY <1>1, <1>9 DEF Fine
    <3> QED BY <1>1, <1>7, <1>9, <3>1 DEF Keeps
  <2> QED BY <1>1, <1>9, <1>14, <2>1, <2>2 DEF Fine, Settled
<1>16. Within(s.exynos, ExynosLayers(s))
  <2>1. \A k \in ExynosLayers(m) : cl + 1 <= k /\ k <= x.last
    BY <1>2, <1>11, <1>13
  <2> QED BY <1>7, <1>9, <1>10, <2>1 DEF Within
<1>17. \A j \in Idx : s.exynos.first <= j /\ j <= s.exynos.last => j \in ExynosLayers(s) \/ IsHigh(j)
  <2> SUFFICES ASSUME NEW j \in Idx, cl + 1 <= j, j <= x.last PROVE j \in ExynosLayers(m) \/ IsHigh(j)
    BY <1>7, <1>9, <1>10
  <2>1. j <= el
    BY <1>0, <1>13, IdxNat
  <2> QED BY <1>12, <2>1
<1>18. /\ cl + 1 \in Nat /\ x.last \in Int /\ b.exynos.first <= cl + 1 /\ x.last <= b.exynos.last
  <2>1. b.exynos.first <= ef /\ el <= b.exynos.last /\ ef < cf
    BY DEF Taking, ef, el, cf
  <2>2. cl \in Nat
    BY <1>2, IdxNat
  <2> QED BY <1>0, <1>2, <1>13, <2>1, <2>2
<1>19. ExynosLayers(s) # {} => s.exynos.has = TRUE /\ s.m2m = TRUE
  BY <1>1, <1>7, <1>9, <1>10, <1>13
<1>20. Loose(b, s)
  BY <1>7, <1>9, <1>15, <1>16, <1>17, <1>18, <1>19 DEF Loose
<1> QED BY <1>20 DEF s, q, m

\* or the upper side.
LEMMA SplitHigh ==
  ASSUME Plain, NEW b, NEW t, Started(b), Taking(b, t, LayerCount), t.client.has = TRUE,
         t.exynos.first < t.client.first, t.client.last < t.exynos.last
  PROVE  LET q == Then(t, MoveToClient(t, t.exynos.last))
         IN  Loose(b, [q EXCEPT !.exynos.last = q.client.first - 1])
<1> DEFINE m == MoveToClient(t, t.exynos.last)
           q == Then(t, m)
           s == [q EXCEPT !.exynos.last = q.client.first - 1]
           cf == t.client.first
           cl == t.client.last
           ef == t.exynos.first
           el == t.exynos.last
<1>0. /\ Base(t) /\ b \in Plans /\ t \in Plans /\ Fine(b, t)
      /\ b.exynos.first \in Int /\ b.exynos.last \in Int /\ b.exynos.last < LayerCount
      /\ ef \in Idx /\ ef \in Int /\ el \in Idx /\ el \in Int
      /\ \A k \in Idx : ef <= k /\ k <= el /\ ~IsHigh(k) =>
            k \in ExynosLayers(t) \/ k \in ClientLayers(t)
  BY TakenFacts DEF Taking
<1>1. /\ JoinsClient(t, m, el) /\ Fine(b, q) /\ q \in Plans
      /\ q.client = m.client /\ q.exynos = m.exynos /\ q.m2m = m.m2m /\ q.type = m.type
      /\ ExynosLayers(q) = ExynosLayers(m) /\ ClientLayers(q) = ClientLayers(m)
  BY <1>0, ThenJoins
<1>2. /\ cf \in Idx /\ cl \in Idx /\ cf \in Int /\ cl \in Int /\ cf <= cl /\ ef < cf /\ cl < el
      /\ \A k \in ClientLayers(t) : cf <= k /\ k <= cl
  BY <1>0, ClientIn, IdxNat
<1>3. m.client.has = TRUE /\ m.client.first = cf /\ m.client.last = el
  BY <1>0, <1>1, <1>2 DEF JoinsClient
<1>4. /\ ExynosLayers(m) \subseteq ExynosLayers(t)
      /\ \A k \in ExynosLayers(t) \ ExynosLayers(m) : k = el \/ (cf < k /\ k < el)
      /\ Base(m)
  BY <1>1, <1>3 DEF JoinsClient
<1>5. ef \in ExynosLayers(t) /\ ef \in ExynosLayers(m)
  <2>1. ef \in ExynosLayers(t)
    BY DEF Taking
  <2> QED BY <2>1, <1>0, <1>2, <1>4
<1>6. \/ ExynosLayers(m) = ExynosLayers(t) \ {el} /\ SameExynos(t, m)
      \/ Shrunk(t, m)
  BY <1>1, <1>5 DEF JoinsClient
<1> HIDE DEF m, q, s, cf, cl, ef, el
<1>7. q.exynos \in Compositions
  BY <1>1 DEF Plans
<1> DEFINE x == [q.exynos EXCEPT !.last = cf - 1]
<1>8. x \in Compositions /\ x.has = m.exynos.has /\ x.otf = m.exynos.otf /\ x.last = cf - 1
      /\ x.first = m.exynos.first
  BY <1>1, <1>2, <1>7 DEF Compositions
<1>9. s = [q EXCEPT !.exynos = x]
  BY <1>1, <1>3 DEF s, Plans
<1> HIDE DEF x
<1>10. /\ s \in Plans /\ s.exynos = x /\ s.type = q.type /\ s.client = q.client /\ s.m2m = q.m2m
       /\ s.owner = q.owner /\ s.g2d = q.g2d /\ s.reserved = q.reserved /\ s.ret = q.ret
  BY <1>1, <1>8, <1>9 DEF Plans
<1>11. /\ ExynosLayers(s) = ExynosLayers(m) /\ ClientLayers(s) = ClientLayers(m)
  BY <1>1, <1>10 DEF ExynosLayers, ClientLayers
<1>12. \A k \in ExynosLayers(m) : k \in Idx /\ k \in Int /\ k < cf /\ k >= ef
  <2> SUFFICES ASSUME NEW k \in ExynosLayers(m) PROVE k \in Idx /\ k \in Int /\ k < cf /\ k >= ef
    OBVIOUS
  <2>1. k \in Idx /\ k \in Int /\ ~IsHigh(k) /\ k \notin ClientLayers(m)
    BY <1>4, NoHighExynos, LayersAreIdx
  <2>2. ef <= k /\ k <= el
    BY <1>4 DEF Taking, Within, ef, el
  <2>3. ~ (m.client.first <= k /\ k <= m.client.last)
    BY <1>3, <1>4, <2>1, ClientIn
  <2>4. k < cf
    BY <1>0, <1>2, <1>3, <2>1, <2>2, <2>3
  <2> QED BY <1>0, <2>1, <2>2, <2>4
<1>13. \A j \in Idx : ef <= j /\ j <= cf - 1 => j \in ExynosLayers(m) \/ IsHigh(j)
  <2> SUFFICES ASSUME NEW j \in Idx, ef <= j, j <= cf - 1, ~IsHigh(j) PROVE j \in ExynosLayers(m)
    OBVIOUS
  <2>1. j \in Int /\ j < cf
    BY <1>2, IdxNat
  <2>2. j \in ExynosLayers(t)
    BY <1>0, <1>2, <2>1
  <2> QED BY <1>0, <1>2, <1>4, <2>1, <2>2
<1>14. /\ x.first \in ExynosLayers(m) /\ \A k \in ExynosLayers(m) : x.first <= k
       /\ m.exynos.has = TRUE /\ m.m2m = TRUE
  <2>1. t.exynos.has = TRUE /\ t.m2m = TRUE
    BY DEF Taking
  <2>2. CASE SameExynos(t, m)
    <3>1. m.exynos = t.exynos /\ m.m2m = t.m2m
      BY <2>2 DEF SameExynos
    <3> QED BY <1>5, <1>8, <1>12, <2>1, <3>1 DEF ef
  <2>3. CASE Shrunk(t, m)
    BY <1>8, <2>1, <2>3 DEF Shrunk
  <2> QED BY <1>6, <2>2, <2>3
<1>15. x.first \in Idx /\ x.first \in Int /\ ef <= x.first /\ x.first < cf
  BY <1>12, <1>14
<1>16. Base(s)
  <2>1. Base(q)
    BY <1>1 DEF Fine
  <2>2. ClientOk(s) /\ G2dOk(s) /\ OwnersOk(s)
    <3>1. ClientLayers(s) = ClientLayers(q) /\ ExynosLayers(s) = ExynosLayers(q)
      BY <1>1, <1>11
    <3> QED BY <1>10, <2>1, <3>1 DEF Base, ClientOk, G2dOk, OwnersOk
  <2>3. InPlace(s)
    <3>1. cf - 1 \in Idx
      BY <1>2, <1>15, IdxNat
    <3> QED BY <3>1, <1>8, <1>10, <1>15 DEF InPlace
  <2> QED BY <1>10, <2>2, <2>3 DEF Base
<1>17. Fine(b, s)
  <2>1. Moved(b, s)
    BY <1>1, <1>10 DEF Fine, Moved
  <2>2. s.ret = "ok" => Keeps(b, s)
    <3>1. s.ret = "ok" => Keeps(b, q)
      BY <1>1, <1>10 DEF Fine
    <3> QED BY <1>1, <1>8, <1>10, <3>1 DEF Keeps
  <2> QED BY <1>1, <1>10, <1>16, <2>1, <2>2 DEF Fine, Settled
<1>18. Within(s.exynos, ExynosLayers(s))
  <2>1. \A k \in ExynosLayers(m) : x.first <= k /\ k <= cf - 1
    BY <1>2, <1>12, <1>14
  <2> QED BY <1>8, <1>10, <1>11, <2>1 DEF Within
<1>19. \A j \in Idx : s.exynos.first <= j /\ j <= s.exynos.last => j \in ExynosLayers(s) \/ IsHigh(j)
  <2> SUFFICES ASSUME NEW j \in Idx, x.first <= j, j <= cf - 1 PROVE j \in ExynosLayers(m) \/ IsHigh(j)
    BY <1>8, <1>10, <1>11
  <2>1. ef <= j
    BY <1>0, <1>15, IdxNat
  <2> QED BY <1>13, <2>1
<1>20. /\ x.first \in Nat /\ cf - 1 \in Int /\ b.exynos.first <= x.first /\ cf - 1 <= b.exynos.last
  <2>1. b.exynos.first <= ef /\ el <= b.exynos.last
    BY DEF Taking, ef, el
  <2>2. x.first \in Nat
    BY <1>15, IdxNat
  <2> QED BY <1>0, <1>2, <1>15, <2>1, <2>2
<1>21. ExynosLayers(s) # {} => s.exynos.has = TRUE /\ s.m2m = TRUE
  BY <1>1, <1>8, <1>10, <1>14
<1>22. Loose(b, s)
  BY <1>8, <1>10, <1>17, <1>18, <1>19, <1>20, <1>21 DEF Loose
<1> QED BY <1>22 DEF s, q, m

\* Otherwise the two ranges are apart: a client range that overlapped one end would hold the layer
\* at that end, which is exynos.
LEMMA NestedOrClear ==
  ASSUME Plain, NEW b, NEW t, Started(b), Taking(b, t, LayerCount),
         ~ (t.client.has = TRUE /\ t.exynos.first < t.client.first /\ t.client.last < t.exynos.last)
  PROVE  \A k \in Idx : t.exynos.first <= k /\ k <= t.exynos.last /\ ~IsHigh(k) => k \notin ClientLayers(t)
<1> SUFFICES ASSUME NEW k \in Idx, t.exynos.first <= k, k <= t.exynos.last, ~IsHigh(k), k \in ClientLayers(t)
             PROVE  FALSE
  OBVIOUS
<1> DEFINE cf == t.client.first
           cl == t.client.last
           ef == t.exynos.first
           el == t.exynos.last
<1>0. /\ Base(t) /\ ef \in Idx /\ ef \in Int /\ el \in Idx /\ el \in Int /\ k \in Int
  BY TakenFacts, IdxNat
<1>1. PICK x \in ExynosLayers(t) : k <= x
  BY DEF Taking, Gapless
<1>2. ef \in ExynosLayers(t) /\ x <= el
  BY <1>1 DEF Taking, Within
<1>3. /\ t.client.has = TRUE /\ cf <= k /\ k <= cl /\ cf \in Int /\ cl \in Int
      /\ \A j \in Idx : cf <= j /\ j <= cl => j \in ClientLayers(t) \/ IsHigh(j)
  BY <1>0, ClientIn, IdxNat
<1>4. ~IsHigh(x) /\ ~IsHigh(ef) /\ x \in Idx /\ x \in Int /\ x \notin ClientLayers(t) /\ ef \notin ClientLayers(t)
  BY <1>0, <1>1, <1>2, NoHighExynos, LayersAreIdx
<1> HIDE DEF cf, cl, ef, el
<1>5. ~ (cf <= x /\ x <= cl) /\ ~ (cf <= ef /\ ef <= cl)
  BY <1>0, <1>3, <1>4
<1>6. x > cl /\ ef < cf
  <2>1. ef <= k
    BY DEF ef
  <2> QED BY <2>1, <1>0, <1>1, <1>3, <1>4, <1>5
<1>7. cl < el
  BY <1>0, <1>2, <1>3, <1>4, <1>6
<1> QED BY <1>3, <1>6, <1>7 DEF cf, cl, ef, el

\* After the split no client layer is in the exynos range.
LEMMA Split ==
  ASSUME Plain, NEW b, NEW t, Started(b), Taking(b, t, LayerCount)
  PROVE  Loose(b, SplitNest(t))
<1>0. t.client.has \in BOOLEAN
  BY TakenFacts DEF Plans, Compositions
<1>1. CASE ~ (t.client.has = TRUE /\ t.exynos.first < t.client.first /\ t.client.last < t.exynos.last)
  <2>1. SplitNest(t) = t
    BY <1>0, <1>1 DEF SplitNest
  <2>2. Loose(b, t)
    BY <1>1, NestedOrClear, Unsplit
  <2> QED BY <2>1, <2>2
<1>2. CASE t.client.has = TRUE /\ t.exynos.first < t.client.first /\ t.client.last < t.exynos.last
  <2> DEFINE q == Then(t, MoveToClient(t, t.exynos.first))
             r == Then(t, MoveToClient(t, t.exynos.last))
  <2>1. \/ SplitNest(t) = [q EXCEPT !.exynos.first = q.client.last + 1]
        \/ SplitNest(t) = [r EXCEPT !.exynos.last = r.client.first - 1]
    BY <1>2 DEF SplitNest
  <2>2. Loose(b, [q EXCEPT !.exynos.first = q.client.last + 1])
    BY <1>2, SplitLow
  <2>3. Loose(b, [r EXCEPT !.exynos.last = r.client.first - 1])
    BY <1>2, SplitHigh
  <2> HIDE DEF q, r
  <2> QED BY <2>1, <2>2, <2>3
<1> QED BY <1>1, <1>2

-----------------------------------------------------------------------------
(* layers of high priority leave its ends,                                 *)

\* The range is one of numbers.
LEMMA ExynosInts ==
  ASSUME NEW d, d \in Plans
  PROVE  d.exynos.first \in Int /\ d.exynos.last \in Int
BY DEF Plans, Compositions

\* q differs from d in the range of the exynos composition only.
LikeBut(d, q) ==
    /\ q \in Plans /\ q.type = d.type /\ q.client = d.client /\ q.m2m = d.m2m
    /\ q.owner = d.owner /\ q.g2d = d.g2d /\ q.reserved = d.reserved /\ q.ret = d.ret
    /\ q.exynos.has = d.exynos.has /\ q.exynos.otf = d.exynos.otf

\* One end of the exynos range moves in by one.
LEMMA RaisedFirst ==
  ASSUME NEW d, d \in Plans, NEW q, q = [d EXCEPT !.exynos.first = @ + 1]
  PROVE  LikeBut(d, q) /\ q.exynos.first = d.exynos.first + 1 /\ q.exynos.last = d.exynos.last
<1>1. d.exynos \in Compositions
  BY DEF Plans
<1>2. d.exynos.first \in Int /\ d.exynos.last \in Int
  BY <1>1 DEF Compositions
<1> DEFINE x == [d.exynos EXCEPT !.first = @ + 1]
<1>3. /\ x \in Compositions /\ x.has = d.exynos.has /\ x.otf = d.exynos.otf
      /\ x.first = d.exynos.first + 1 /\ x.last = d.exynos.last
  BY <1>1, <1>2 DEF Compositions
<1>4. q = [d EXCEPT !.exynos = x]
  BY DEF Plans
<1> HIDE DEF x
<1>5. /\ q \in Plans /\ q.type = d.type /\ q.client = d.client /\ q.m2m = d.m2m
      /\ q.owner = d.owner /\ q.g2d = d.g2d /\ q.reserved = d.reserved /\ q.ret = d.ret
      /\ q.exynos = x
  BY <1>3, <1>4 DEF Plans
<1> QED BY <1>3, <1>5 DEF LikeBut

\* The other end.
LEMMA LoweredLast ==
  ASSUME NEW d, d \in Plans, NEW q, q = [d EXCEPT !.exynos.last = @ - 1]
  PROVE  LikeBut(d, q) /\ q.exynos.first = d.exynos.first /\ q.exynos.last = d.exynos.last - 1
<1>1. d.exynos \in Compositions
  BY DEF Plans
<1>2. d.exynos.first \in Int /\ d.exynos.last \in Int
  BY <1>1 DEF Compositions
<1> DEFINE x == [d.exynos EXCEPT !.last = @ - 1]
<1>3. /\ x \in Compositions /\ x.has = d.exynos.has /\ x.otf = d.exynos.otf
      /\ x.first = d.exynos.first /\ x.last = d.exynos.last - 1
  BY <1>1, <1>2 DEF Compositions
<1>4. q = [d EXCEPT !.exynos = x]
  BY DEF Plans
<1> HIDE DEF x
<1>5. /\ q \in Plans /\ q.type = d.type /\ q.client = d.client /\ q.m2m = d.m2m
      /\ q.owner = d.owner /\ q.g2d = d.g2d /\ q.reserved = d.reserved /\ q.ret = d.ret
      /\ q.exynos = x
  BY <1>3, <1>4 DEF Plans
<1> QED BY <1>3, <1>5 DEF LikeBut

\* What a split leaves.
LEMMA LooseFacts ==
  ASSUME Plain, NEW b, NEW s, Started(b), Loose(b, s)
  PROVE  /\ b.exynos.first \in Int /\ b.exynos.last \in Int /\ b.exynos.last < LayerCount
         /\ s \in Plans /\ s.exynos.first \in Nat /\ s.exynos.last \in Int
         /\ b.exynos.first <= s.exynos.first /\ s.exynos.last <= b.exynos.last
         /\ \A k \in ExynosLayers(s) : k \in Idx /\ k \in Int /\ ~IsHigh(k)
<1>1. Base(s)
  BY DEF Loose, Fine
<1>2. b.exynos.first \in Idx /\ b.exynos.last \in Idx
  BY LayersAreIdx DEF Started
<1>3. \A k \in ExynosLayers(s) : k \in Idx /\ k \in Int /\ ~IsHigh(k)
  BY <1>1, NoHighExynos
<1> QED BY <1>1, <1>2, <1>3, IdxNat DEF Loose, Base

\* The exynos range of q is that of d, or has one end moved in by one.
Narrows(d, q, k) ==
    /\ LikeBut(d, q) /\ d.exynos.first <= q.exynos.first /\ q.exynos.last <= d.exynos.last
    /\ Within(q.exynos, ExynosLayers(d))
    /\ q.exynos.first < k => q.exynos.first \in ExynosLayers(d) \/ q.exynos.first > q.exynos.last
    /\ HighApart /\ q.exynos.last < k =>
          q.exynos.last \in ExynosLayers(d) \/ q.exynos.first > q.exynos.last

\* A step that narrows the range is one of the walk over the layers of high priority.
LEMMA DroppedOn ==
  ASSUME NEW s, NEW d, NEW n, NEW k, Dropped(s, d, n), s.exynos.first \in Int, s.exynos.last \in Int,
         NEW q, Narrows(d, q, k), d \in Plans
  PROVE  Dropped(s, q, k)
<1>1. ExynosLayers(q) = ExynosLayers(d)
  BY DEF Narrows, LikeBut, ExynosLayers
<1>2. s.exynos.first <= q.exynos.first /\ q.exynos.last <= s.exynos.last
  <2>1. /\ s.exynos.first <= d.exynos.first /\ d.exynos.last <= s.exynos.last
        /\ d.exynos.first \in Int /\ d.exynos.last \in Int
    BY ExynosInts DEF Dropped
  <2>2. q.exynos.first \in Int /\ q.exynos.last \in Int
    BY ExynosInts DEF Narrows, LikeBut
  <2> QED BY <2>1, <2>2 DEF Narrows
<1> QED BY <1>1, <1>2 DEF Dropped, LikeBut, Narrows

\* One layer of high priority: it leaves the range if it is at an end.
LEMMA DropStep ==
  ASSUME Plain, NEW b, NEW s, Started(b), Loose(b, s), NEW n, n \in Idx, NEW d, Dropped(s, d, n),
         IsHigh(n)
  PROVE  Dropped(s, DropHighEnd(d, n), n + 1)
<1> DEFINE q == DropHighEnd(d, n)
           X == ExynosLayers(d)
           f == d.exynos.first
           l == d.exynos.last
<1>0. /\ d \in Plans /\ d.type = s.type /\ d.client = s.client /\ d.m2m = s.m2m /\ d.owner = s.owner
      /\ d.g2d = s.g2d /\ d.reserved = s.reserved /\ d.ret = s.ret
      /\ d.exynos.has = s.exynos.has /\ d.exynos.otf = s.exynos.otf
      /\ s.exynos.first <= f /\ l <= s.exynos.last
      /\ \A k \in X : f <= k /\ k <= l
      /\ f < n => f \in X \/ f > l
      /\ HighApart /\ l < n => l \in X \/ f > l
  BY DEF Dropped, Within
<1>1. /\ s.exynos.first \in Nat /\ s.exynos.last \in Int /\ f \in Int /\ l \in Int /\ n \in Int
      /\ s.exynos.last < LayerCount
  <2>1. f \in Int /\ l \in Int
    BY <1>0, ExynosInts
  <2> QED BY <2>1, LooseFacts, IdxNat
<1>2. X = ExynosLayers(s)
  BY <1>0 DEF ExynosLayers
<1>3. \A k \in X : k \in Idx /\ k \in Int /\ k # n
  BY <1>2, LooseFacts
<1>4. \A j \in Idx : f <= j /\ j <= l => j \in X \/ IsHigh(j)
  <2> SUFFICES ASSUME NEW j \in Idx, f <= j, j <= l PROVE j \in X \/ IsHigh(j)
    OBVIOUS
  <2>1. s.exynos.first <= j /\ j <= s.exynos.last
    <3>1. j \in Int
      BY IdxNat
    <3> QED BY <3>1, <1>0, <1>1
  <2> QED BY <2>1, <1>2 DEF Loose
<1>5. n = f => q = [d EXCEPT !.exynos.first = @ + 1]
  BY DEF DropHighEnd
<1>6. n # f /\ n = l => q = [d EXCEPT !.exynos.last = @ - 1]
  BY DEF DropHighEnd
<1>7. n # f /\ n # l => q = d
  BY DEF DropHighEnd
<1> SUFFICES Dropped(s, q, n + 1)
  OBVIOUS
<1> HIDE DEF q
<1>9. CASE n = f
  <2>1. LikeBut(d, q) /\ q.exynos.first = f + 1 /\ q.exynos.last = l
    BY <1>0, <1>5, <1>9, RaisedFirst
  <2> HIDE DEF X, f, l
  <2>2. \A k \in X : f + 1 <= k /\ k <= l
    BY <1>0, <1>1, <1>3, <1>9
  <2>3. HighApart /\ l < n + 1 => l \in X \/ f + 1 > l
    BY <1>0, <1>1, <1>9
  <2>4. ~ (q.exynos.first < n + 1) /\ f <= q.exynos.first /\ q.exynos.last <= l
    BY <1>1, <1>9, <2>1
  <2>5. HighApart /\ q.exynos.last < n + 1 => q.exynos.last \in X \/ q.exynos.first > q.exynos.last
    BY <2>1, <2>3
  <2>6. Within(q.exynos, X)
    BY <2>1, <2>2 DEF Within
  <2>7. q.exynos.first < n + 1 => q.exynos.first \in X \/ q.exynos.first > q.exynos.last
    BY <2>4
  <2>8. s.exynos.first \in Int /\ d \in Plans
    BY <1>0, <1>1
  <2>9. Narrows(d, q, n + 1)
    BY <2>1, <2>4, <2>5, <2>6, <2>7, <2>8, <1>1 DEF Narrows, X, f, l
  <2> QED BY <2>9, <2>8, <1>1, DroppedOn
<1>10. CASE n # f /\ n = l
  <2>1. LikeBut(d, q) /\ q.exynos.first = f /\ q.exynos.last = l - 1
    BY <1>0, <1>6, <1>10, LoweredLast
  <2> HIDE DEF X, f, l
  <2>2. \A k \in X : f <= k /\ k <= l - 1
    BY <1>0, <1>1, <1>3, <1>10
  <2>3. f < n + 1 => f \in X \/ f > l - 1
    BY <1>0, <1>1, <1>10
  <2>4. ASSUME HighApart, f <= l - 1 PROVE l - 1 \in X
    <3>1. l - 1 \in Idx /\ f <= l - 1 /\ l - 1 <= l /\ (l - 1) + 1 = n
      BY <2>4, <1>0, <1>1, <1>10, IdxNat
    <3>2. ~IsHigh(l - 1)
      BY <3>1, <2>4 DEF HighApart
    <3> QED BY <1>4, <3>1, <3>2
  <2>5. HighApart /\ l - 1 < n + 1 => l - 1 \in X \/ f > l - 1
    BY <2>4, <1>1
  <2>6. q.exynos.first < n + 1 => q.exynos.first \in X \/ q.exynos.first > q.exynos.last
    BY <2>1, <2>3
  <2>7. HighApart /\ q.exynos.last < n + 1 => q.exynos.last \in X \/ q.exynos.first > q.exynos.last
    BY <2>1, <2>5
  <2>8. Within(q.exynos, X)
    BY <2>1, <2>2 DEF Within
  <2>9. f <= q.exynos.first /\ q.exynos.last <= l
    BY <1>1, <2>1
  <2>10. s.exynos.first \in Int /\ d \in Plans
    BY <1>0, <1>1
  <2>11. Narrows(d, q, n + 1)
    BY <2>1, <2>6, <2>7, <2>8, <2>9, <2>10, <1>1 DEF Narrows, X, f, l
  <2> QED BY <2>11, <2>10, <1>1, DroppedOn
<1>11. CASE n # f /\ n # l
  <2>1. q = d
    BY <1>7, <1>11
  <2>0. LikeBut(d, q)
    BY <1>0, <2>1 DEF LikeBut
  <2> HIDE DEF X, f, l
  <2>2. f < n + 1 => f \in X \/ f > l
    BY <1>0, <1>1, <1>11
  <2>3. HighApart /\ l < n + 1 => l \in X \/ f > l
    BY <1>0, <1>1, <1>11
  <2>4. Within(d.exynos, X) /\ f <= f /\ l <= l
    BY <1>1 DEF Dropped, X
  <2>5. s.exynos.first \in Int /\ d \in Plans
    BY <1>0, <1>1
  <2>6. Narrows(d, q, n + 1)
    BY <2>0, <2>1, <2>2, <2>3, <2>4, <2>5, <1>1 DEF Narrows, X, f, l
  <2> QED BY <2>6, <2>5, <1>1, DroppedOn
<1> QED BY <1>9, <1>10, <1>11

\* Any other layer is left alone.
LEMMA KeepStep ==
  ASSUME Plain, NEW b, NEW s, Started(b), Loose(b, s), NEW n, n \in Idx, NEW d, Dropped(s, d, n),
         ~ (b.exynos.first <= n /\ n <= b.exynos.last /\ IsHigh(n))
  PROVE  Dropped(s, d, n + 1)
<1> DEFINE f == d.exynos.first
           l == d.exynos.last
<1>1. /\ f \in Int /\ l \in Int /\ n \in Int /\ s.exynos.first <= f /\ l <= s.exynos.last
      /\ s.exynos.first \in Int /\ s.exynos.last \in Int
      /\ b.exynos.first \in Int /\ b.exynos.last \in Int
      /\ b.exynos.first <= s.exynos.first /\ s.exynos.last <= b.exynos.last
  <2>1. d \in Plans /\ s.exynos.first <= f /\ l <= s.exynos.last
    BY DEF Dropped
  <2> QED BY <2>1, ExynosInts, LooseFacts, IdxNat
<1>2. ExynosLayers(d) = ExynosLayers(s)
  BY DEF Dropped, ExynosLayers
<1>3. f <= n /\ n <= l => n \in ExynosLayers(d)
  <2> SUFFICES ASSUME f <= n, n <= l PROVE n \in ExynosLayers(s)
    BY <1>2
  <2>1. s.exynos.first <= n /\ n <= s.exynos.last /\ b.exynos.first <= n /\ n <= b.exynos.last
    BY <1>1
  <2> QED BY <2>1 DEF Loose
<1>4. f < n + 1 => f \in ExynosLayers(d) \/ f > l
  <2>1. f < n => f \in ExynosLayers(d) \/ f > l
    BY DEF Dropped
  <2> HIDE DEF f, l
  <2> QED BY <1>1, <1>3, <2>1
<1>5. HighApart /\ l < n + 1 => l \in ExynosLayers(d) \/ f > l
  <2>1. HighApart /\ l < n => l \in ExynosLayers(d) \/ f > l
    BY DEF Dropped
  <2> HIDE DEF f, l
  <2> QED BY <1>1, <1>3, <2>1
<1> QED BY <1>4, <1>5 DEF Dropped

\* The whole walk.
LEMMA DropAll ==
  ASSUME Plain, NEW b, NEW s, Started(b), Loose(b, s), NEW S,
         \A n \in Idx : n \in S <=> b.exynos.first <= n /\ n <= b.exynos.last /\ IsHigh(n)
  PROVE  Dropped(s, DropHighEnds(s, S), LayerCount)
<1>0. /\ LayerCount \in Nat /\ \A n \in 0 .. LayerCount - 1 : n \in Idx
  BY IdxNat DEF Idx
<1>1. PICK w : /\ w[0] = s /\ w[LayerCount] = DropHighEnds(s, S)
               /\ \A n \in 0 .. LayerCount - 1 :
                     w[n + 1] = IF n \in S THEN DropHighEnd(w[n], n) ELSE w[n]
  BY DropHighEndWalk
<1> DEFINE T == {n \in 0 .. LayerCount : Dropped(s, w[n], n)}
<1>2. 0 \in T
  <2>1. /\ s \in Plans /\ s.exynos.first \in Nat /\ s.exynos.last \in Int
        /\ Within(s.exynos, ExynosLayers(s))
    BY LooseFacts DEF Loose
  <2>2. s.exynos.last < 0 => s.exynos.first > s.exynos.last
    BY <2>1
  <2>3. ~ (s.exynos.first < 0) /\ s.exynos.first <= s.exynos.first /\ s.exynos.last <= s.exynos.last
    BY <2>1
  <2>4. Dropped(s, s, 0)
    BY <2>1, <2>2, <2>3 DEF Dropped
  <2> QED BY <1>0, <1>1, <2>4
<1>3. ASSUME NEW n \in 0 .. LayerCount - 1, n \in T PROVE n + 1 \in T
  <2>0. Dropped(s, w[n], n) /\ n \in Idx
    BY <1>0, <1>3
  <2>1. CASE n \in S
    <3>1. w[n + 1] = DropHighEnd(w[n], n) /\ IsHigh(n)
      BY <1>1, <2>0, <2>1
    <3>2. Dropped(s, w[n + 1], n + 1)
      BY <2>0, <3>1, DropStep
    <3> QED BY <1>0, <3>2
  <2>2. CASE n \notin S
    <3>1. w[n + 1] = w[n] /\ ~ (b.exynos.first <= n /\ n <= b.exynos.last /\ IsHigh(n))
      BY <1>1, <2>0, <2>2
    <3>2. Dropped(s, w[n + 1], n + 1)
      BY <2>0, <3>1, KeepStep
    <3> QED BY <1>0, <3>2
  <2> QED BY <2>1, <2>2
<1>4. LayerCount \in T
  <2> HIDE DEF T
  <2> QED BY <1>0, <1>2, <1>3, UpTo
<1> QED BY <1>1, <1>4

-----------------------------------------------------------------------------
(* and what is left of it.                                                 *)

\* What the walk leaves: no layer of the composition is lost.
LEMMA DropFine ==
  ASSUME Plain, NEW b, NEW s, Started(b), Loose(b, s), NEW d, Dropped(s, d, LayerCount)
  PROVE  /\ Fine(b, d) /\ d \in Plans /\ d.exynos.first \in Nat /\ d.exynos.last \in Int
         /\ d.exynos.last < LayerCount /\ Within(d.exynos, ExynosLayers(d))
         /\ \A k \in ExynosLayers(d) : k \in Idx /\ k \in Int /\ ~IsHigh(k)
         /\ \A j \in Idx : d.exynos.first <= j /\ j <= d.exynos.last =>
               j \in ExynosLayers(d) \/ IsHigh(j)
         /\ ExynosLayers(d) # {} => d.exynos.has = TRUE /\ d.m2m = TRUE
<1> DEFINE f == d.exynos.first
           l == d.exynos.last
<1>0. /\ d \in Plans /\ d.type = s.type /\ d.client = s.client /\ d.m2m = s.m2m /\ d.owner = s.owner
      /\ d.g2d = s.g2d /\ d.reserved = s.reserved /\ d.ret = s.ret
      /\ d.exynos.has = s.exynos.has /\ d.exynos.otf = s.exynos.otf
      /\ s.exynos.first <= f /\ l <= s.exynos.last
      /\ Within(d.exynos, ExynosLayers(d))
  BY DEF Dropped
<1>1. /\ b.exynos.last \in Int /\ b.exynos.last < LayerCount
      /\ s \in Plans /\ s.exynos.first \in Nat /\ s.exynos.last \in Int
      /\ s.exynos.last <= b.exynos.last
      /\ \A k \in ExynosLayers(s) : k \in Idx /\ k \in Int /\ ~IsHigh(k)
  BY LooseFacts
<1>2. f \in Int /\ l \in Int
  BY <1>0, ExynosInts
<1>3. ExynosLayers(d) = ExynosLayers(s) /\ ClientLayers(d) = ClientLayers(s)
  BY <1>0 DEF ExynosLayers, ClientLayers
<1>4. f \in Nat /\ l < LayerCount
  BY <1>0, <1>1, <1>2, IdxNat
<1>5. Base(d)
  <2>1. Base(s)
    BY DEF Loose, Fine
  <2>2. ClientOk(d) /\ G2dOk(d) /\ OwnersOk(d)
    BY <1>0, <1>3, <2>1 DEF Base, ClientOk, G2dOk, OwnersOk
  <2>3. InPlace(d)
    <3> SUFFICES ASSUME ExynosLayers(d) # {} PROVE f \in Idx /\ l \in Idx
      BY DEF InPlace
    <3>1. PICK k : k \in ExynosLayers(d)
      OBVIOUS
    <3>2. f <= k /\ k <= l /\ k \in Int /\ k \in Idx
      BY <1>0, <1>1, <1>3, <3>1 DEF Within
    <3> QED BY <1>2, <1>4, <3>2, IdxNat
  <2> QED BY <1>0, <2>2, <2>3 DEF Base
<1>6. Fine(b, d)
  <2>1. Fine(b, s)
    BY DEF Loose
  <2>2. Moved(b, d)
    BY <1>0, <2>1 DEF Fine, Moved
  <2>3. Keeps(b, s) => Keeps(b, d)
    BY <1>0 DEF Keeps
  <2> QED BY <1>0, <1>5, <2>1, <2>2, <2>3 DEF Fine, Settled
<1>7. \A j \in Idx : f <= j /\ j <= l => j \in ExynosLayers(d) \/ IsHigh(j)
  <2> SUFFICES ASSUME NEW j \in Idx, f <= j, j <= l PROVE j \in ExynosLayers(d) \/ IsHigh(j)
    OBVIOUS
  <2>1. s.exynos.first <= j /\ j <= s.exynos.last
    <3>1. j \in Int
      BY IdxNat
    <3> QED BY <3>1, <1>0, <1>1, <1>2
  <2> QED BY <2>1, <1>3 DEF Loose
<1>8. ExynosLayers(d) # {} => d.exynos.has = TRUE /\ d.m2m = TRUE
  BY <1>0, <1>3 DEF Loose
<1> QED BY <1>0, <1>1, <1>2, <1>3, <1>4, <1>6, <1>7, <1>8

\* What disabling the exynos composition leaves alone.
LEMMA DisabledFields ==
  ASSUME NEW d, d \in Plans
  PROVE  LET q == Disabled(d)
         IN  /\ q \in Plans /\ NoExynos(q) /\ q.ret = "changed"
             /\ q.type = d.type /\ q.client = d.client /\ q.owner = d.owner
             /\ q.g2d = d.g2d /\ q.reserved = d.reserved
<1> DEFINE q == Disabled(d)
<1>1. q = [d EXCEPT !.exynos = NoComposition, !.m2m = FALSE, !.ret = "changed"]
  BY DEF Disabled, InitExynosInfo, Plans
<1>2. NoComposition \in Compositions
  BY DEF NoComposition, Compositions, NoOtf
<1> HIDE DEF q
<1>3. q \in Plans
  BY <1>1, <1>2 DEF Plans, Results
<1>4. /\ q.exynos = NoComposition /\ q.m2m = FALSE /\ q.ret = "changed"
      /\ q.type = d.type /\ q.client = d.client /\ q.owner = d.owner
      /\ q.g2d = d.g2d /\ q.reserved = d.reserved
  BY <1>1 DEF Plans
<1> QED BY <1>3, <1>4 DEF q, NoExynos

\* A composition without layers may be disabled.
LEMMA DisabledFine ==
  ASSUME NEW b, NEW d, Base(d), Moved(b, d), ExynosLayers(d) = {}
  PROVE  Fine(b, Disabled(d)) /\ Solid(Disabled(d)) /\ ExynosLayers(Disabled(d)) = {}
<1> DEFINE q == Disabled(d)
<1>1. /\ q \in Plans /\ NoExynos(q) /\ q.ret = "changed"
      /\ q.type = d.type /\ q.client = d.client /\ q.owner = d.owner
      /\ q.g2d = d.g2d /\ q.reserved = d.reserved
  BY DisabledFields DEF Base
<1> HIDE DEF q
<1>2. ExynosLayers(q) = {} /\ ClientLayers(q) = ClientLayers(d)
  BY <1>1 DEF ExynosLayers, ClientLayers
<1>3. Base(q)
  <2>1. ClientOk(q)
    BY <1>1, <1>2 DEF Base, ClientOk
  <2>2. G2dOk(q) /\ InPlace(q)
    BY <1>2 DEF G2dOk, InPlace
  <2>3. OwnersOk(q)
    BY <1>1 DEF Base, OwnersOk
  <2> QED BY <1>1, <2>1, <2>2, <2>3 DEF Base
<1>4. Fine(b, q)
  <2>1. Moved(b, q)
    BY <1>1 DEF Moved
  <2> QED BY <1>1, <1>3, <2>1 DEF Fine, Settled
<1>5. Solid(q)
  <2>1. q.exynos.has = FALSE
    BY <1>1 DEF NoExynos, NoComposition
  <2> QED BY <1>2, <2>1 DEF Solid
<1> QED BY <1>2, <1>4, <1>5 DEF q

\* A composition with a layer of high priority inside is given up; its layers are client then.
LEMMA GivenUp ==
  ASSUME NEW b, NEW d, b \in Plans, Fine(b, d), NEW S, ExynosLayers(d) \subseteq S
  PROVE  Fine(b, GiveUpExynos(d, S)) /\ Solid(GiveUpExynos(d, S))
<1> DEFINE w == MoveAllToClient(d, S)
<1>1. /\ Base(w) /\ Moved(d, w)
      /\ \A k \in Idx : k \in S => w.type[k] = "client"
      /\ ExynosLayers(w) \subseteq ExynosLayers(d)
  BY MoveAll DEF Fine
<1>2. GiveUpExynos(d, S) = Disabled(w)
  BY DEF GiveUpExynos
<1> HIDE DEF w
<1>3. ExynosLayers(w) = {}
  BY <1>1 DEF ExynosLayers
<1>4. Moved(b, w)
  BY <1>1, MovedOn DEF Fine
<1> QED BY <1>1, <1>2, <1>3, <1>4, DisabledFine

\* addExynosCompositionLayer, whole: it succeeds and leaves adjacent layers.
LEMMA AddsExynos ==
  ASSUME Plain, NEW p, NEW i, i \in Idx, p \in Plans, p.exynos.has = TRUE, p.m2m = TRUE,
         NEW b, b = [p EXCEPT !.exynos = Span(p.exynos, i), !.ret = "ok"], Started(b)
  PROVE  Fine(b, AddExynos(p, i)) /\ Solid(AddExynos(p, i))
<1> DEFINE e == Span(p.exynos, i)
           range == e.first .. e.last
           high == {j \in range : IsHigh(j)}
           taken == TakeAllIntoExynos(b, range)
           invalid == \E j \in range \ high :
                 taken.type[j] = "client" \/ p.type[j] = "client"
           split == IF invalid THEN SplitNest(taken) ELSE taken
           ends == DropHighEnds(split, high)
           valid == IF ends.exynos.first < 0 \/ ends.exynos.last < 0
                         \/ ends.exynos.first > ends.exynos.last
                         \/ ends.exynos.first >= LayerCount
                      THEN Disabled(ends) ELSE ends
           inside == {j \in high : valid.exynos.first < j /\ j < valid.exynos.last}
           left == (valid.exynos.first .. valid.exynos.last) \ high
           q == AddExynos(p, i)
<1>1. q = IF split.ret = "error" THEN split
          ELSE IF inside = {} THEN valid ELSE GiveUpExynos(valid, left)
  BY DEF AddExynos
<1>2. b.exynos = e /\ b.type = p.type /\ b \in Plans
  <2>1. b \in Plans
    BY DEF Started, Base
  <2> QED BY <2>1 DEF Plans
<1>3. b.exynos.first \in Idx /\ b.exynos.last \in Idx /\ b.exynos.first \in Int /\ b.exynos.last \in Int
  BY LayersAreIdx, IdxNat DEF Started
<1>4. Taking(b, taken, LayerCount)
  BY <1>2, TakeAll
<1> HIDE DEF e, taken, q
<1>5. Loose(b, split)
  <2>1. CASE invalid
    <3>1. split = SplitNest(taken)
      BY <2>1
    <3> QED BY <1>4, <3>1, Split
  <2>2. CASE ~invalid
    <3>1. split = taken
      BY <2>2
    <3>2. ASSUME NEW k \in Idx, taken.exynos.first <= k, k <= taken.exynos.last, ~IsHigh(k)
          PROVE  k \notin ClientLayers(taken)
      <4>1. b.exynos.first <= taken.exynos.first /\ taken.exynos.last <= b.exynos.last
        BY <1>4 DEF Taking
      <4>2. taken.exynos.first \in Int /\ taken.exynos.last \in Int
        BY <1>4, TakenFacts
      <4>3. k \in range
        BY <1>2, <1>3, <3>2, <4>1, <4>2, IdxNat
      <4> QED BY <2>2, <3>2, <4>3 DEF ClientLayers
    <3>3. Loose(b, taken)
      BY <1>4, <3>2, Unsplit
    <3> QED BY <3>1, <3>3
  <2> QED BY <2>1, <2>2
<1> HIDE DEF split, invalid
<1>6. Dropped(split, ends, LayerCount)
  <2>1. \A n \in Idx : n \in high <=> b.exynos.first <= n /\ n <= b.exynos.last /\ IsHigh(n)
    BY <1>2, <1>3, IdxNat
  <2> HIDE DEF high
  <2> QED BY <1>5, <2>1, DropAll
<1> HIDE DEF ends
<1>7. /\ Fine(b, ends) /\ ends \in Plans /\ ends.exynos.first \in Nat /\ ends.exynos.last \in Int
      /\ ends.exynos.last < LayerCount /\ Within(ends.exynos, ExynosLayers(ends))
      /\ \A k \in ExynosLayers(ends) : k \in Idx /\ k \in Int /\ ~IsHigh(k)
      /\ \A j \in Idx : ends.exynos.first <= j /\ j <= ends.exynos.last =>
            j \in ExynosLayers(ends) \/ IsHigh(j)
      /\ ExynosLayers(ends) # {} => ends.exynos.has = TRUE /\ ends.m2m = TRUE
  BY <1>5, <1>6, DropFine
<1>8. split.ret # "error"
  BY <1>5 DEF Loose, Fine, Settled
<1> DEFINE gone == ends.exynos.first < 0 \/ ends.exynos.last < 0
                         \/ ends.exynos.first > ends.exynos.last
                         \/ ends.exynos.first >= LayerCount
<1>9. CASE gone
  <2>1. valid = Disabled(ends)
    BY <1>9
  <2>2. ExynosLayers(ends) = {}
    <3>1. ASSUME NEW k \in ExynosLayers(ends) PROVE FALSE
      <4>1. /\ k \in Int /\ 0 <= k /\ k < LayerCount
            /\ ends.exynos.first <= k /\ k <= ends.exynos.last
        BY <1>7, IdxNat DEF Within
      <4>2. ends.exynos.first \in Int /\ ends.exynos.last \in Int /\ ends.exynos.first >= 0
        BY <1>7
      <4> QED BY <4>1, <4>2, <1>9, IdxNat
    <3> QED BY <3>1
  <2>3. Fine(b, valid) /\ Solid(valid)
    BY <1>7, <2>1, <2>2, DisabledFine DEF Fine
  <2>4. valid.exynos = NoComposition
    BY <1>7, <2>1, DisabledFields DEF NoExynos
  <2>5. inside = {}
    <3>1. valid.exynos.first = -1 /\ valid.exynos.last = -1
      BY <2>4 DEF NoComposition
    <3>2. \A j \in range : j \in Int
      BY <1>2, <1>3
    <3> HIDE DEF valid, range
    <3> QED BY <3>1, <3>2
  <2>6. q = valid
    BY <1>1, <1>8, <2>5
  <2> QED BY <2>3, <2>6 DEF q
<1>10. CASE ~gone
  <2>1. valid = ends
    BY <1>10
  <2>2. /\ ends.exynos.first \in Idx /\ ends.exynos.last \in Idx
        /\ ends.exynos.first <= ends.exynos.last /\ ends.exynos.first < LayerCount
    BY <1>7, <1>10, IdxNat
  <2>3. ends.exynos.first \in ExynosLayers(ends)
    BY <1>6, <1>7, <2>2 DEF Dropped
  <2>4. ends.exynos.last \in ExynosLayers(ends) \/ (IsHigh(ends.exynos.last) /\ ~HighApart)
    <3>1. HighApart => ends.exynos.last \in ExynosLayers(ends)
      BY <1>6, <1>7, <2>2 DEF Dropped
    <3> QED BY <1>7, <2>2, <3>1
  <2>5. \A j \in Idx : ends.exynos.first <= j /\ j <= ends.exynos.last => (IsHigh(j) <=> j \in high)
    <3>1. b.exynos.first <= ends.exynos.first /\ ends.exynos.last <= b.exynos.last
      <4>1. /\ split.exynos.first <= ends.exynos.first /\ ends.exynos.last <= split.exynos.last
        BY <1>6 DEF Dropped
      <4>2. /\ b.exynos.first <= split.exynos.first /\ split.exynos.last <= b.exynos.last
            /\ split.exynos.first \in Int /\ split.exynos.last \in Int
        BY <1>5 DEF Loose
      <4> QED BY <4>1, <4>2, <1>3, <1>7
    <3>2. \A j \in Idx : ends.exynos.first <= j /\ j <= ends.exynos.last => j \in range
      BY <1>2, <1>3, <1>7, <3>1, IdxNat
    <3> HIDE DEF range
    <3> QED BY <3>2
  <2>6. CASE inside = {}
    <3>1. q = ends
      BY <1>1, <1>8, <2>1, <2>6
    <3>2. ASSUME NEW j \in Idx, ends.exynos.first <= j, j < ends.exynos.last
          PROVE  j \in ExynosLayers(ends)
      <4>1. j \in Int /\ j <= ends.exynos.last
        BY <1>7, <3>2, IdxNat
      <4>2. j = ends.exynos.first \/ ends.exynos.first < j
        BY <1>7, <3>2, <4>1
      <4>3. ends.exynos.first < j => j \notin high
        BY <2>1, <2>6, <3>2
      <4> QED BY <1>7, <2>3, <2>5, <3>2, <4>1, <4>2, <4>3
    <3>3. Solid(ends)
      <4>1. ends.exynos.has = TRUE
        BY <1>7, <2>3
      <4> QED BY <1>7, <2>2, <2>3, <2>4, <3>2, <4>1 DEF Solid
    <3> QED BY <1>7, <3>1, <3>3 DEF q
  <2>7. CASE inside # {}
    <3>1. q = GiveUpExynos(ends, left)
      BY <1>1, <1>8, <2>1, <2>7
    <3>2. ExynosLayers(ends) \subseteq left
      <4>1. ASSUME NEW k \in ExynosLayers(ends) PROVE k \in left
        <5>1. k \in Idx /\ k \in Int /\ ~IsHigh(k) /\ ends.exynos.first <= k /\ k <= ends.exynos.last
          BY <1>7 DEF Within
        <5>2. k \notin high
          BY <5>1
        <5> HIDE DEF high
        <5> QED BY <1>7, <2>1, <5>1, <5>2
      <4> QED BY <4>1
    <3> HIDE DEF left
    <3>3. Fine(b, GiveUpExynos(ends, left)) /\ Solid(GiveUpExynos(ends, left))
      BY <1>2, <1>7, <3>2, GivenUp
    <3> QED BY <3>1, <3>3 DEF q
  <2> QED BY <2>6, <2>7
<1> QED BY <1>9, <1>10

\* What lies between two layers of a solid composition is in it.
LEMMA BetweenIsExynos ==
  ASSUME NEW p, Solid(p), p \in Plans, NEW y, NEW z, NEW c, y \in ExynosLayers(p), z \in ExynosLayers(p),
         c \in Idx, y < c, c < z
  PROVE  c \in ExynosLayers(p)
<1>1. p.exynos.has = TRUE
  <2>1. p.exynos.has \in BOOLEAN
    BY DEF Plans, Compositions
  <2> QED BY <2>1 DEF Solid
<1>2. /\ p.exynos.first <= y /\ z <= p.exynos.last /\ p.exynos.first \in Int /\ p.exynos.last \in Int
      /\ y \in Int /\ z \in Int /\ c \in Int
  BY <1>1, LayersAreIdx, IdxNat, ExynosInts DEF Solid, Within
<1>3. p.exynos.first <= c /\ c < p.exynos.last
  BY <1>2
<1> QED BY <1>1, <1>3 DEF Solid

\* A layer that joins the client composition leaves the exynos composition solid.
LEMMA OntoClientSolid ==
  ASSUME Plain, NEW p, NEW i, Base(p), Solid(p), i \in Idx, p.type[i] # "exynos",
         \A o \in Otfs : p.owner[o] # i
  PROVE  LET q == LayerOnClient(p, i)
         IN  Fine(p, q) /\ Solid(q) /\ q.type[i] = "client" /\ q \in Plans
<1> DEFINE q == LayerOnClient(p, i)
           X == ExynosLayers(p)
           Y == ExynosLayers(q)
<1>1. JoinsClient(p, q, i)
  BY OntoClient
<1>2. X \ {i} = X /\ i \notin X
  BY DEF ExynosLayers
<1> SUFFICES Fine(p, q) /\ Solid(q) /\ q.type[i] = "client" /\ q \in Plans
  OBVIOUS
<1> HIDE DEF q
<1>3. /\ Base(q) /\ Y \subseteq X /\ q \in Plans /\ p \in Plans
      /\ \A k \in X \ Y : k = i \/ (q.client.first < k /\ k < q.client.last)
      /\ q.client.has = TRUE
      /\ q.client.first = IF p.client.has = TRUE /\ p.client.first < i THEN p.client.first ELSE i
      /\ q.client.last = IF p.client.has = TRUE /\ p.client.last > i THEN p.client.last ELSE i
  BY <1>1, <1>2 DEF JoinsClient, Base
<1>4. \/ Y = X /\ SameExynos(p, q)
      \/ Y = {} /\ NoExynos(q)
      \/ Y # {} /\ Shrunk(p, q)
  BY <1>1, <1>2 DEF JoinsClient
<1>5. ASSUME Y = X, SameExynos(p, q) PROVE Solid(q)
  BY <1>5 DEF Solid, SameExynos
<1>6. ASSUME Y = {}, NoExynos(q) PROVE Solid(q)
  <2>1. q.exynos.has = FALSE
    BY <1>6 DEF NoExynos, NoComposition
  <2> QED BY <1>6, <2>1 DEF Solid
<1>7. ASSUME Y # {}, Shrunk(p, q) PROVE Solid(q)
  <2>0. \A k \in X : k \in Idx /\ k \in Int /\ ~IsHigh(k)
    BY <1>3, NoHighExynos
  <2>1. /\ \A y \in Y : ~ (q.client.first <= y /\ y <= q.client.last)
        /\ q.client.first \in Idx /\ q.client.last \in Idx
        /\ q.client.first \in Int /\ q.client.last \in Int
    <3>1. \A y \in Y : y \in Idx /\ ~IsHigh(y) /\ y \notin ClientLayers(q)
      BY <1>3, NoHighExynos, LayersAreIdx
    <3> QED BY <1>3, <3>1, ClientIn, IdxNat
  <2>2. q.client.first \notin X /\ q.client.last \notin X
    <3>1. p.client.has = TRUE => p.client.first \notin X /\ p.client.last \notin X
      <4> SUFFICES ASSUME p.client.has = TRUE PROVE p.client.first \notin X /\ p.client.last \notin X
        OBVIOUS
      <4>1. /\ p.client.first \in Idx /\ p.client.last \in Idx /\ p.client.first <= p.client.last
            /\ \A k \in Idx : p.client.first <= k /\ k <= p.client.last =>
                     k \in ClientLayers(p) \/ IsHigh(k)
        BY ClientIn
      <4>2. /\ p.client.first \in ClientLayers(p) \/ IsHigh(p.client.first)
            /\ p.client.last \in ClientLayers(p) \/ IsHigh(p.client.last)
        BY <4>1, IdxNat
      <4> QED BY <2>0, <4>2, LayersAreIdx
    <3> QED BY <1>2, <1>3, <3>1
  <2>3. Y = X
    <3> SUFFICES ASSUME NEW x \in X, x \notin Y PROVE FALSE
      BY <1>3
    <3>1. PICK y : y \in Y
      BY <1>7
    <3>2. q.client.first < x /\ x < q.client.last
      BY <1>2, <1>3
    <3>3. y \in X /\ y \in Int /\ x \in Int
      BY <1>3, <2>0, <3>1
    <3>4. CASE y < q.client.first
      BY <1>3, <2>1, <2>2, <3>2, <3>3, <3>4, BetweenIsExynos
    <3>5. CASE y > q.client.last
      BY <1>3, <2>1, <2>2, <3>2, <3>3, <3>5, BetweenIsExynos
    <3> QED BY <2>1, <3>1, <3>3, <3>4, <3>5
  <2>4. p.exynos.has = TRUE
    <3>1. p.exynos.has \in BOOLEAN
      BY <1>3 DEF Plans, Compositions
    <3> QED BY <3>1, <1>7, <2>3 DEF Solid
  <2>5. /\ q.exynos.has = TRUE
        /\ q.exynos.first \in Y /\ q.exynos.last \in Y
        /\ \A j \in Y : q.exynos.first <= j /\ j <= q.exynos.last
    BY <1>7, <2>4 DEF Shrunk
  <2>6. ASSUME NEW j \in Idx, q.exynos.first <= j, j < q.exynos.last PROVE j \in Y
    <3>1. /\ p.exynos.first <= q.exynos.first /\ q.exynos.last <= p.exynos.last
          /\ p.exynos.first \in Int /\ p.exynos.last \in Int
          /\ q.exynos.first \in Int /\ q.exynos.last \in Int /\ j \in Int
      BY <1>3, <2>0, <2>3, <2>4, <2>5, ExynosInts, IdxNat DEF Solid, Within
    <3>2. p.exynos.first <= j /\ j < p.exynos.last
      BY <2>6, <3>1
    <3> QED BY <2>3, <2>4, <3>2 DEF Solid
  <2> QED BY <2>0, <2>3, <2>5, <2>6 DEF Solid, Within
<1>8. Solid(q)
  BY <1>4, <1>5, <1>6, <1>7
<1>9. Fine(p, q) /\ q.type[i] = "client"
  BY <1>1 DEF JoinsClient, Fine
<1> QED BY <1>3, <1>8, <1>9

\* A layer gets its source of the G2D.
LEMMA TakesSource ==
  ASSUME Plain, NEW p, NEW i, Base(p), i \in Idx, p.type[i] \notin {"exynos", "client"},
         stack[i].g2d = TRUE, \A o \in Otfs : p.owner[o] # i,
         NEW r, r = [SetType(p, {i}, "exynos") EXCEPT !.g2d = @ \union {i}]
  PROVE  /\ r \in Plans /\ ClientOk(r) /\ G2dOk(r) /\ OwnersOk(r) /\ Moved(p, r) /\ Keeps(p, r)
         /\ r.client = p.client /\ r.exynos = p.exynos /\ r.m2m = p.m2m /\ r.ret = p.ret
         /\ r.owner = p.owner
         /\ ExynosLayers(r) = ExynosLayers(p) \union {i} /\ ClientLayers(r) = ClientLayers(p)
<1> DEFINE s == SetType(p, {i}, "exynos")
<1>1. /\ s \in Plans
      /\ \A k \in Idx : s.type[k] = IF k \in {i} THEN "exynos" ELSE p.type[k]
      /\ s.client = p.client /\ s.exynos = p.exynos /\ s.m2m = p.m2m /\ s.owner = p.owner
      /\ s.g2d = p.g2d /\ s.reserved = p.reserved /\ s.ret = p.ret
  BY Typed DEF Types, Base
<1>2. r = [s EXCEPT !.g2d = @ \union {i}]
  OBVIOUS
<1> HIDE DEF s
<1>3. /\ r \in Plans
      /\ \A k \in Idx : r.type[k] = IF k = i THEN "exynos" ELSE p.type[k]
      /\ r.client = p.client /\ r.exynos = p.exynos /\ r.m2m = p.m2m /\ r.owner = p.owner
      /\ r.g2d = p.g2d \union {i} /\ r.reserved = p.reserved /\ r.ret = p.ret
  <2>1. /\ r.type = s.type /\ r.client = s.client /\ r.exynos = s.exynos /\ r.m2m = s.m2m
        /\ r.owner = s.owner /\ r.g2d = s.g2d \union {i} /\ r.reserved = s.reserved /\ r.ret = s.ret
    BY <1>1, <1>2 DEF Plans
  <2>2. r \in Plans
    <3> DEFINE G == s.g2d \union {i}
    <3>1. G \in SUBSET Idx
      BY <1>1 DEF Plans
    <3>2. r = [s EXCEPT !.g2d = G]
      BY <1>2
    <3> HIDE DEF G
    <3> QED BY <1>1, <3>1, <3>2 DEF Plans
  <2> QED BY <1>1, <2>1, <2>2
<1>4. ExynosLayers(r) = ExynosLayers(p) \union {i} /\ ClientLayers(r) = ClientLayers(p)
  BY <1>3 DEF ExynosLayers, ClientLayers
<1>5. ClientOk(r)
  BY <1>3, <1>4 DEF ClientOk, Base
<1>6. G2dOk(r)
  BY <1>3, <1>4 DEF G2dOk, Base
<1>7. OwnersOk(r)
  BY <1>3 DEF OwnersOk, Base
<1>8. p \in Plans /\ \A k \in Idx : p.type[k] \in Types
  BY DEF Base, Plans
<1>9. Moved(p, r)
  <2>1. \A k \in Idx : /\ p.type[k] = "client" => r.type[k] = "client"
                       /\ p.type[k] = "exynos" => r.type[k] \in {"exynos", "client"}
                       /\ r.type[k] \in {p.type[k], "exynos", "client"}
    BY <1>3
  <2> QED BY <1>3, <2>1 DEF Moved
<1>10. Keeps(p, r)
  BY <1>3 DEF Keeps
<1> QED BY <1>3, <1>4, <1>5, <1>6, <1>7, <1>9, <1>10

\* addExynosCompositionLayer: the first layer opens the exynos composition.
LEMMA FirstOnG2d ==
  ASSUME Plain, NEW r, NEW i, i \in Idx, r \in Plans, ClientOk(r), G2dOk(r), OwnersOk(r),
         ExynosLayers(r) = {i}, r.exynos.has = FALSE,
         NEW p, p \in Plans, Moved(p, r)
  PROVE  Fine(p, AddExynos(r, i)) /\ Solid(AddExynos(r, i))
<1> DEFINE q == AddExynos(r, i)
<1>1. q = [r EXCEPT !.exynos = [@ EXCEPT !.has = TRUE, !.first = i, !.last = i], !.ret = "changed"]
  BY DEF AddExynos
<1> SUFFICES Fine(p, q) /\ Solid(q)
  OBVIOUS
<1> HIDE DEF q
<1>2. r.exynos \in Compositions /\ i \in Int
  BY IdxNat DEF Plans
<1>3. /\ q \in Plans /\ q.type = r.type /\ q.client = r.client /\ q.owner = r.owner /\ q.g2d = r.g2d
      /\ q.reserved = r.reserved /\ q.ret = "changed"
      /\ q.exynos.has = TRUE /\ q.exynos.first = i /\ q.exynos.last = i
  BY <1>1, <1>2 DEF Plans, Compositions, Results
<1>4. ExynosLayers(q) = {i} /\ ClientLayers(q) = ClientLayers(r)
  BY <1>3 DEF ExynosLayers, ClientLayers
<1>5. Base(q)
  <2>1. ClientOk(q)
    BY <1>3, <1>4 DEF ClientOk
  <2>2. G2dOk(q)
    BY <1>3, <1>4 DEF G2dOk
  <2>3. OwnersOk(q) /\ InPlace(q)
    BY <1>3, <1>4 DEF OwnersOk, InPlace
  <2> QED BY <1>3, <2>1, <2>2, <2>3 DEF Base
<1>6. Moved(p, q)
  BY <1>3 DEF Moved
<1>7. Fine(p, q)
  BY <1>3, <1>5, <1>6 DEF Fine, Settled
<1>8. Solid(q)
  BY <1>2, <1>3, <1>4, IdxNat DEF Solid, Within
<1> QED BY <1>7, <1>8

\* A later layer: where the walk over the layers between starts.
LEMMA StartsAgain ==
  ASSUME Plain, NEW p, NEW i, Base(p), Solid(p), i \in Idx, p.exynos.has = TRUE, p.m2m = TRUE,
         NEW r, r \in Plans, ClientOk(r), G2dOk(r), OwnersOk(r), r.exynos = p.exynos, r.m2m = p.m2m,
         ExynosLayers(r) = ExynosLayers(p) \union {i}, ClientLayers(r) = ClientLayers(p),
         NEW b, b = [r EXCEPT !.exynos = Span(r.exynos, i), !.ret = "ok"], Moved(p, r), Keeps(p, r)
  PROVE  Started(b) /\ Moved(p, b) /\ Keeps(p, b)
<1>1. p.exynos \in Compositions /\ i \in Int
  BY IdxNat DEF Plans, Base
<1>2. /\ Span(p.exynos, i) \in Compositions /\ Span(p.exynos, i).has = p.exynos.has
      /\ Span(p.exynos, i).otf = p.exynos.otf
      /\ Span(p.exynos, i).first = IF p.exynos.first < i THEN p.exynos.first ELSE i
      /\ Span(p.exynos, i).last = IF p.exynos.last > i THEN p.exynos.last ELSE i
  BY <1>1, SpanFields
<1>3. /\ b \in Plans /\ b.type = r.type /\ b.client = r.client /\ b.owner = r.owner /\ b.g2d = r.g2d
      /\ b.reserved = r.reserved /\ b.ret = "ok" /\ b.exynos = Span(p.exynos, i) /\ b.m2m = r.m2m
  BY <1>2 DEF Plans, Results
<1>4. ExynosLayers(b) = ExynosLayers(p) \union {i} /\ ClientLayers(b) = ClientLayers(r)
  BY <1>3 DEF ExynosLayers, ClientLayers
<1>5. /\ p.exynos.first \in ExynosLayers(p) /\ p.exynos.last \in Idx
      /\ p.exynos.first \in Idx /\ p.exynos.first \in Int /\ p.exynos.last \in Int
  BY LayersAreIdx, IdxNat DEF Solid
<1>6. b.exynos.first \in ExynosLayers(b) /\ b.exynos.first \in Idx /\ b.exynos.last \in Idx
  BY <1>2, <1>3, <1>4, <1>5
<1>7. Within(b.exynos, ExynosLayers(b))
  <2> SUFFICES ASSUME NEW x \in ExynosLayers(b) PROVE b.exynos.first <= x /\ x <= b.exynos.last
    BY DEF Within
  <2>1. x \in Int
    BY LayersAreIdx, IdxNat
  <2>2. CASE x = i
    BY <1>1, <1>2, <1>3, <1>5, <2>2
  <2>3. CASE x \in ExynosLayers(p)
    <3>1. p.exynos.first <= x /\ x <= p.exynos.last
      BY <2>3 DEF Solid, Within
    <3> QED BY <1>1, <1>2, <1>3, <1>5, <2>1, <3>1
  <2> QED BY <1>4, <2>2, <2>3
<1>8. Gapless(b)
  <2> SUFFICES ASSUME NEW j \in Idx, b.exynos.first <= j, j <= b.exynos.last, ~IsHigh(j)
               PROVE  \E x \in ExynosLayers(b) : j <= x
    BY DEF Gapless
  <2>1. j \in Int /\ i \in ExynosLayers(b) /\ p.exynos.first \in ExynosLayers(b)
    BY <1>4, <1>5, IdxNat
  <2>2. CASE j <= i
    BY <2>1, <2>2
  <2>3. CASE j < p.exynos.first
    BY <1>5, <2>1, <2>3
  <2>4. CASE p.exynos.first <= j /\ i < j
    <3>1. j <= p.exynos.last
      BY <1>1, <1>2, <1>3, <1>5, <2>1, <2>4
    <3>2. CASE j = p.exynos.last
      <4>1. j \in ExynosLayers(p)
        BY <3>2 DEF Solid
      <4> QED BY <1>4, <2>1, <4>1
    <3>3. CASE j < p.exynos.last
      <4>1. j \in ExynosLayers(p)
        BY <2>4, <3>3 DEF Solid
      <4> QED BY <1>4, <2>1, <4>1
    <3> QED BY <1>5, <2>1, <3>1, <3>2, <3>3
  <2> QED BY <1>1, <1>5, <2>1, <2>2, <2>3, <2>4
<1>9. Base(b)
  <2>1. ClientOk(b)
    BY <1>3, <1>4 DEF ClientOk
  <2>2. G2dOk(b)
    <3>1. ExynosLayers(b) = ExynosLayers(r)
      BY <1>4
    <3> QED BY <1>3, <3>1 DEF G2dOk
  <2>3. OwnersOk(b) /\ InPlace(b)
    BY <1>3, <1>6 DEF OwnersOk, InPlace
  <2> QED BY <1>3, <2>1, <2>2, <2>3 DEF Base
<1>10. Started(b)
  BY <1>2, <1>3, <1>6, <1>7, <1>8, <1>9 DEF Started
<1>11. Moved(p, b)
  BY <1>3 DEF Moved
<1>12. Keeps(p, b)
  BY <1>2, <1>3 DEF Keeps
<1> QED BY <1>10, <1>11, <1>12

\* assignLayer: a layer for the G2D joins the exynos composition, or is moved on to the client
\* composition by what follows.
LEMMA OntoG2d ==
  ASSUME Plain, NEW p, NEW i, Base(p), Solid(p), i \in Idx, p.type[i] \notin {"exynos", "client"},
         stack[i].g2d = TRUE, \A o \in Otfs : p.owner[o] # i, p.exynos.has = TRUE => p.m2m = TRUE
  PROVE  LET q == LayerOnG2d(p, i)
         IN  Fine(p, q) /\ Solid(q) /\ q.type[i] \in {"exynos", "client"}
<1> DEFINE r == [SetType(p, {i}, "exynos") EXCEPT !.g2d = @ \union {i}]
           q == LayerOnG2d(p, i)
<1>1. /\ r \in Plans /\ ClientOk(r) /\ G2dOk(r) /\ OwnersOk(r) /\ Moved(p, r) /\ Keeps(p, r)
      /\ r.client = p.client /\ r.exynos = p.exynos /\ r.m2m = p.m2m /\ r.ret = p.ret
      /\ r.owner = p.owner
      /\ ExynosLayers(r) = ExynosLayers(p) \union {i} /\ ClientLayers(r) = ClientLayers(p)
  BY TakesSource
<1>2. q = AddExynos(r, i)
  BY DEF LayerOnG2d
<1> SUFFICES Fine(p, q) /\ Solid(q) /\ q.type[i] \in {"exynos", "client"}
  OBVIOUS
<1> HIDE DEF r, q
<1>3. p \in Plans /\ p.exynos.has \in BOOLEAN
  BY DEF Base, Plans, Compositions
<1>4. r.type[i] = "exynos"
  BY <1>1 DEF ExynosLayers
<1>5. CASE p.exynos.has = FALSE
  <2>1. ExynosLayers(r) = {i}
    BY <1>1, <1>5 DEF Solid
  <2>2. Fine(p, q) /\ Solid(q)
    BY <1>1, <1>2, <1>3, <1>5, <2>1, FirstOnG2d
  <2>3. q.type = r.type
    BY <1>1, <1>2, <1>5 DEF AddExynos, Plans
  <2> QED BY <1>4, <2>2, <2>3
<1>6. CASE p.exynos.has = TRUE
  <2> DEFINE b == [r EXCEPT !.exynos = Span(r.exynos, i), !.ret = "ok"]
  <2>1. Started(b) /\ Moved(p, b) /\ Keeps(p, b)
    BY <1>1, <1>6, StartsAgain
  <2>2. b.type = r.type /\ b.reserved = r.reserved
    BY <1>1 DEF Plans
  <2>3. b = [r EXCEPT !.exynos = Span(r.exynos, i), !.ret = "ok"]
    OBVIOUS
  <2> HIDE DEF b
  <2>4. Fine(b, AddExynos(r, i)) /\ Solid(AddExynos(r, i))
    BY <1>1, <1>6, <2>1, <2>3, AddsExynos
  <2>5. Moved(p, q)
    BY <1>2, <1>3, <2>1, <2>4, MovedOn DEF Fine
  <2>6. q.ret = "ok" => Keeps(p, q)
    BY <1>2, <2>1, <2>4, KeptOn DEF Fine
  <2>7. q.type[i] \in {"exynos", "client"}
    BY <1>2, <1>4, <2>2, <2>4 DEF Fine, Moved
  <2> QED BY <1>2, <2>4, <2>5, <2>6, <2>7 DEF Fine
<1> QED BY <1>3, <1>5, <1>6

-----------------------------------------------------------------------------
(* A pass over the layers.                                                 *)

\* The composition c has a channel, which shows its target.
Holds(p, c, target) == c.otf \in Otfs /\ p.owner[c.otf] = target

\* Layer k has a channel of its own.
OnOwn(p, k) == p.type[k] = "device" /\ \E o \in Otfs : p.owner[o] = k

\* The layers that come before layer n of a priority level in a pass.
Handled(level, n) ==
    {k \in Idx : stack[k].priority > level \/ (stack[k].priority = level /\ k < n)}

\* In a pass, the layers of H have a channel or a composition, and no channel shows anything
\* but these and targets; a client composition has had its channel from the start.
PassOk(p, H) ==
    /\ \A k \in H : p.type[k] \in {"client", "exynos"} \/ OnOwn(p, k)
    /\ \A o \in Otfs : p.owner[o] \in H \union {Free, ClientTarget, ExynosTarget}
    /\ \A o \in Otfs : p.owner[o] = ClientTarget => p.client.has = TRUE /\ p.client.otf = o
    /\ p.client.has = TRUE => Holds(p, p.client, ClientTarget)

\* Before the exynos composition gets its channel, and after.
Early(p) == \A o \in Otfs : p.owner[o] # ExynosTarget
Late(p) ==
    /\ \A o \in Otfs : p.owner[o] = ExynosTarget => p.exynos.has = TRUE /\ p.exynos.otf = o
    /\ p.exynos.has = TRUE => p.m2m = TRUE /\ Holds(p, p.exynos, ExynosTarget)

\* What holds between any two steps of the passes.
Standing(p) == /\ Base(p) /\ Solid(p) /\ Settled(p)
               /\ p.reserved = TRUE => p.exynos.has = FALSE

\* What moves keep of a pass.
LEMMA MovedPass ==
  ASSUME NEW p, NEW q, NEW H, H \subseteq Idx, p \in Plans, Moved(p, q), Keeps(p, q), PassOk(p, H)
  PROVE  /\ PassOk(q, H)
         /\ Early(p) => Early(q)
         /\ Late(p) => Late(q)
<1>1. \A o \in Otfs : /\ q.owner[o] \in {p.owner[o], Free}
                      /\ p.owner[o] \notin Idx => q.owner[o] = p.owner[o]
                      /\ p.owner[o] \in Idx /\ q.type[p.owner[o]] = "device" => q.owner[o] = p.owner[o]
  BY DEF Moved
<1>2. \A k \in Idx : /\ p.type[k] = "client" => q.type[k] = "client"
                     /\ p.type[k] = "exynos" => q.type[k] \in {"exynos", "client"}
                     /\ q.type[k] \in {p.type[k], "exynos", "client"}
  BY DEF Moved
<1>3. \A k \in H : q.type[k] \in {"client", "exynos"} \/ OnOwn(q, k)
  <2> SUFFICES ASSUME NEW k \in H, q.type[k] \notin {"client", "exynos"} PROVE OnOwn(q, k)
    OBVIOUS
  <2>1. p.type[k] \notin {"client", "exynos"} /\ q.type[k] = p.type[k] /\ k \in Idx
    BY <1>2
  <2>2. PICK o \in Otfs : p.owner[o] = k /\ p.type[k] = "device"
    BY <2>1 DEF PassOk, OnOwn
  <2> QED BY <1>1, <2>1, <2>2 DEF OnOwn
<1>4. \A o \in Otfs : q.owner[o] \in H \union {Free, ClientTarget, ExynosTarget}
  BY <1>1 DEF PassOk
<1>5. \A o \in Otfs : q.owner[o] = ClientTarget => q.client.has = TRUE /\ q.client.otf = o
  BY <1>1, FreeIsNoLayer DEF PassOk, Keeps
<1>6. q.client.has = TRUE => Holds(q, q.client, ClientTarget)
  BY <1>1, FreeIsNoLayer DEF PassOk, Keeps, Holds
<1>7. Early(p) => Early(q)
  BY <1>1, FreeIsNoLayer DEF Early
<1>8. Late(p) => Late(q)
  BY <1>1, FreeIsNoLayer DEF Late, Keeps, Holds
<1> QED BY <1>3, <1>4, <1>5, <1>6, <1>7, <1>8 DEF PassOk

\* Layers that are provided for may be counted as handled.
LEMMA Wider ==
  ASSUME NEW p, NEW H, NEW J, H \subseteq J, PassOk(p, H),
         \A k \in J \ H : p.type[k] \in {"client", "exynos"} \/ OnOwn(p, k)
  PROVE  PassOk(p, J)
BY DEF PassOk

\* Sets of layers are finite.
LEMMA LayersFinite == IsFiniteSet(Idx) /\ \A S \in SUBSET Idx : IsFiniteSet(S) /\ Cardinality(S) \in Nat
<1>1. IsFiniteSet(Idx)
  BY IdxNat, FS_Interval DEF Idx
<1> QED BY <1>1, FS_Subset, FS_CardinalityType

\* A smaller set has fewer members.
LEMMA FewerLeft ==
  ASSUME NEW S, NEW T, T \subseteq Idx, S \subseteq T
  PROVE  /\ Cardinality(S) \in Nat /\ Cardinality(T) \in Nat /\ Cardinality(S) <= Cardinality(T)
         /\ S # T => Cardinality(S) <= Cardinality(T) - 1
<1>1. IsFiniteSet(T) /\ Cardinality(T) \in Nat /\ Cardinality(S) \in Nat
  BY LayersFinite
<1>2. Cardinality(S) <= Cardinality(T) /\ (Cardinality(S) = Cardinality(T) => S = T)
  BY <1>1, FS_Subset
<1> QED BY <1>1, <1>2

\* The measure of the passes is a number,
LEMMA LeftNat == \A p : Left(p) \in Nat
<1> TAKE p
<1>1. Unplaced(p) \subseteq Idx /\ NotClient(p) \subseteq Idx
  BY DEF Unplaced, NotClient
<1> QED BY <1>1, LayersFinite DEF Left

\* gets smaller with every layer that joins a composition or goes to the client composition,
LEMMA LeftShrinks ==
  ASSUME NEW p, NEW q, NEW i, p \in Plans, q \in Plans, Moved(p, q), i \in Idx,
         \/ p.type[i] \notin {"client", "exynos"} /\ q.type[i] \in {"client", "exynos"}
         \/ p.type[i] # "client" /\ q.type[i] = "client"
  PROVE  Left(q) <= Left(p) - 1
<1>1. Unplaced(q) \subseteq Unplaced(p) /\ NotClient(q) \subseteq NotClient(p)
  BY MovedLayers DEF Unplaced, NotClient
<1>2. Unplaced(p) \subseteq Idx /\ NotClient(p) \subseteq Idx
  BY DEF Unplaced, NotClient
<1>3. Unplaced(q) # Unplaced(p) \/ NotClient(q) # NotClient(p)
  <2>1. CASE p.type[i] \notin {"client", "exynos"} /\ q.type[i] \in {"client", "exynos"}
    <3>1. i \in Unplaced(p) /\ i \notin Unplaced(q)
      BY <2>1 DEF Unplaced, ClientLayers, ExynosLayers
    <3> QED BY <3>1
  <2>2. CASE p.type[i] # "client" /\ q.type[i] = "client"
    <3>1. i \in NotClient(p) /\ i \notin NotClient(q)
      BY <2>2 DEF NotClient, ClientLayers
    <3> QED BY <3>1
  <2> QED BY <2>1, <2>2
<1>4. /\ Cardinality(Unplaced(q)) \in Nat /\ Cardinality(Unplaced(p)) \in Nat
      /\ Cardinality(Unplaced(q)) <= Cardinality(Unplaced(p))
      /\ Unplaced(q) # Unplaced(p) => Cardinality(Unplaced(q)) <= Cardinality(Unplaced(p)) - 1
  BY <1>1, <1>2, FewerLeft
<1>5. /\ Cardinality(NotClient(q)) \in Nat /\ Cardinality(NotClient(p)) \in Nat
      /\ Cardinality(NotClient(q)) <= Cardinality(NotClient(p))
      /\ NotClient(q) # NotClient(p) => Cardinality(NotClient(q)) <= Cardinality(NotClient(p)) - 1
  BY <1>1, <1>2, FewerLeft
<1> QED BY <1>3, <1>4, <1>5 DEF Left

\* and starts at twice the number of layers at most.
LEMMA LeftAtMost == \A p : Left(p) <= 2 * LayerCount
<1> TAKE p
<1>1. IsFiniteSet(Idx) /\ Cardinality(Idx) = LayerCount
  <2>1. 0 \in Int /\ LayerCount - 1 \in Int /\ LayerCount \in Nat \ {0}
    BY IdxNat
  <2> QED BY <2>1, FS_Interval DEF Idx
<1>2. Unplaced(p) \subseteq Idx /\ NotClient(p) \subseteq Idx
  BY DEF Unplaced, NotClient
<1>3. /\ Cardinality(Unplaced(p)) \in Nat /\ Cardinality(Unplaced(p)) <= LayerCount
      /\ Cardinality(NotClient(p)) \in Nat /\ Cardinality(NotClient(p)) <= LayerCount
  BY <1>1, <1>2, FewerLeft
<1> QED BY <1>3, IdxNat DEF Left

\* The first free channel is one.
LEMMA LowestOtf ==
  ASSUME NEW S, S \subseteq Otfs, S # {}
  PROVE  Lowest(S) \in S
<1>1. S \in SUBSET Nat
  BY ResourceAssumption
<1>2. \E x \in S : \A y \in S : x <= y
  BY <1>1, Least
<1> QED BY <1>2 DEF Lowest

\* Priorities are 1 to 4.
LEMMA Priorities == ASSUME Plain PROVE \A k \in Idx : stack[k].priority \in 1 .. 4
<1> TAKE k \in Idx
<1>1. stack[k] \in Kinds
  BY DEF Plain
<1> QED BY <1>1, ResourceAssumption

\* The next layer of a pass: it has no channel, and those before it are handled.
LEMMA WaitingFacts ==
  ASSUME Plain, step.level \in 1 .. 4, step.i \in 0 .. LayerCount, Waiting # {},
         PassOk(plan, Handled(step.level, step.i)), NEW i, i = Lowest(Waiting)
  PROVE  /\ i \in Idx /\ stack[i].priority = step.level /\ plan.type[i] \notin {"client", "exynos"}
         /\ \A o \in Otfs : plan.owner[o] # i
         /\ \A k \in Handled(step.level, i + 1) :
               k \in Handled(step.level, step.i) \/ k = i \/ plan.type[k] \in {"client", "exynos"}
         /\ Handled(step.level, step.i) \subseteq Handled(step.level, i + 1)
         /\ i \in Handled(step.level, i + 1) /\ i + 1 \in 0 .. LayerCount
         /\ Handled(step.level, i + 1) \subseteq Idx
<1>1. Waiting \subseteq Idx
  BY IdxNat DEF Waiting
<1>2. i \in Waiting /\ \A j \in Waiting : i <= j
  BY <1>1, Ends
<1>3. /\ i \in Idx /\ i \in Int /\ step.i <= i /\ stack[i].priority = step.level
      /\ plan.type[i] \notin {"client", "exynos"} /\ step.i \in Int /\ i < LayerCount /\ 0 <= i
  BY <1>1, <1>2, IdxNat DEF Waiting, Placed
<1>4. \A k \in Idx : k \in Int /\ stack[k].priority \in Int
  BY Priorities, IdxNat
<1>5. i \notin Handled(step.level, step.i)
  BY <1>3, <1>4 DEF Handled
<1>6. \A o \in Otfs : plan.owner[o] # i
  BY <1>3, <1>5, FreeIsNoLayer DEF PassOk
<1>7. \A k \in Handled(step.level, i + 1) :
         k \in Handled(step.level, step.i) \/ k = i \/ plan.type[k] \in {"client", "exynos"}
  <2> SUFFICES ASSUME NEW k \in Handled(step.level, i + 1), k \notin Handled(step.level, step.i),
                      k # i, plan.type[k] \notin {"client", "exynos"}
               PROVE  FALSE
    OBVIOUS
  <2>1. k \in Idx /\ stack[k].priority = step.level /\ k < i + 1 /\ ~(k < step.i)
    BY DEF Handled
  <2>2. k \in Int /\ k < i /\ step.i <= k /\ k <= LayerCount - 1
    BY <1>3, <1>4, <2>1, IdxNat
  <2>3. k \in Waiting
    BY <1>3, <2>1, <2>2, IdxNat DEF Waiting, Placed
  <2> QED BY <1>2, <1>3, <2>2, <2>3
<1>8. Handled(step.level, step.i) \subseteq Handled(step.level, i + 1)
  <2> SUFFICES ASSUME NEW k \in Idx, k < step.i PROVE k < i + 1
    BY DEF Handled
  <2> QED BY <1>3, <1>4
<1>9. i \in Handled(step.level, i + 1) /\ i + 1 \in 0 .. LayerCount
  BY <1>3, IdxNat DEF Handled
<1> QED BY <1>3, <1>6, <1>7, <1>8, <1>9 DEF Handled

\* What assigning a channel leaves alone.
LEMMA OnChannelFields ==
  ASSUME NEW p, NEW i, NEW o, p \in Plans, i \in Idx, o \in Otfs
  PROVE  LET q == OnChannel(p, i, o)
         IN  /\ q \in Plans /\ q.client = p.client /\ q.exynos = p.exynos /\ q.m2m = p.m2m
             /\ q.g2d = p.g2d /\ q.reserved = p.reserved /\ q.ret = "ok"
             /\ q.windows = Count(p.windows + 1)
             /\ \A k \in Idx : q.type[k] = IF k = i THEN "device" ELSE p.type[k]
             /\ \A x \in Otfs : q.owner[x] = IF x = o THEN i ELSE p.owner[x]
<1> DEFINE s == SetType(p, {i}, "device")
           q == OnChannel(p, i, o)
<1>1. /\ s \in Plans
      /\ \A k \in Idx : s.type[k] = IF k \in {i} THEN "device" ELSE p.type[k]
      /\ s.client = p.client /\ s.exynos = p.exynos /\ s.m2m = p.m2m /\ s.owner = p.owner
      /\ s.g2d = p.g2d /\ s.reserved = p.reserved /\ s.windows = p.windows
  BY Typed DEF Types
<1>2. q = [s EXCEPT !.owner[o] = i, !.windows = Count(@ + 1), !.ret = "ok"]
  BY DEF OnChannel
<1> SUFFICES /\ q \in Plans /\ q.client = p.client /\ q.exynos = p.exynos /\ q.m2m = p.m2m
             /\ q.g2d = p.g2d /\ q.reserved = p.reserved /\ q.ret = "ok"
             /\ q.windows = Count(p.windows + 1)
             /\ \A k \in Idx : q.type[k] = IF k = i THEN "device" ELSE p.type[k]
             /\ \A x \in Otfs : q.owner[x] = IF x = o THEN i ELSE p.owner[x]
  OBVIOUS
<1> HIDE DEF s, q
<1>3. s.owner \in [Otfs -> Int] /\ i \in Int /\ s.windows \in Int
  BY <1>1, IdxNat DEF Plans
<1> DEFINE w == Count(s.windows + 1)
           m == [s.owner EXCEPT ![o] = i]
<1>4. w \in Int /\ w = Count(p.windows + 1)
  BY <1>1, <1>3, CountInt
<1>5. m \in [Otfs -> Int] /\ \A x \in Otfs : m[x] = IF x = o THEN i ELSE p.owner[x]
  BY <1>1, <1>3
<1>6. q = [s EXCEPT !.owner = m, !.windows = w, !.ret = "ok"]
  BY <1>1, <1>2 DEF Plans
<1> HIDE DEF w, m
<1>7. /\ q.type = s.type /\ q.client = s.client /\ q.exynos = s.exynos /\ q.m2m = s.m2m
      /\ q.g2d = s.g2d /\ q.reserved = s.reserved /\ q.ret = "ok" /\ q.windows = w /\ q.owner = m
  BY <1>1, <1>6 DEF Plans
<1>8. q \in Plans
  BY <1>1, <1>4, <1>5, <1>6 DEF Plans, Results
<1> QED BY <1>1, <1>4, <1>5, <1>7, <1>8

\* A layer that gets a channel.
LEMMA OnChannelStands ==
  ASSUME Plain, NEW p, NEW i, NEW o, NEW H, NEW J, Standing(p), H \subseteq Idx, PassOk(p, H),
         H \subseteq J, J \subseteq Idx, i \in J, o \in FreeOtfs(p), i \in Idx,
         p.type[i] \notin {"client", "exynos"}, \A x \in Otfs : p.owner[x] # i,
         \A k \in J : k \in H \/ k = i \/ p.type[k] \in {"client", "exynos"}
  PROVE  LET q == OnChannel(p, i, o)
         IN  /\ Standing(q) /\ PassOk(q, J) /\ (Early(p) => Early(q)) /\ (Late(p) => Late(q))
             /\ q.ret = "ok" /\ q.reserved = p.reserved /\ q.client = p.client /\ Left(q) = Left(p)
<1> DEFINE q == OnChannel(p, i, o)
<1>1. o \in Otfs /\ p.owner[o] = Free /\ p \in Plans
  BY DEF FreeOtfs, Standing, Base
<1>2. /\ q \in Plans /\ q.client = p.client /\ q.exynos = p.exynos /\ q.m2m = p.m2m
      /\ q.g2d = p.g2d /\ q.reserved = p.reserved /\ q.ret = "ok"
      /\ \A k \in Idx : q.type[k] = IF k = i THEN "device" ELSE p.type[k]
      /\ \A x \in Otfs : q.owner[x] = IF x = o THEN i ELSE p.owner[x]
  BY <1>1, OnChannelFields
<1> SUFFICES /\ Standing(q) /\ PassOk(q, J) /\ (Early(p) => Early(q)) /\ (Late(p) => Late(q))
             /\ q.ret = "ok" /\ q.reserved = p.reserved /\ q.client = p.client /\ Left(q) = Left(p)
  OBVIOUS
<1> HIDE DEF q
<1>3. ClientLayers(q) = ClientLayers(p) /\ ExynosLayers(q) = ExynosLayers(p)
  BY <1>2 DEF ClientLayers, ExynosLayers
<1>4. Base(q)
  <2>1. ClientOk(q)
    BY <1>2, <1>3 DEF ClientOk, Standing, Base
  <2>2. G2dOk(q)
    BY <1>2, <1>3 DEF G2dOk, Standing, Base
  <2>3. OwnersOk(q)
    BY <1>2 DEF OwnersOk, Standing, Base
  <2>4. InPlace(q)
    BY <1>2, <1>3 DEF InPlace, Standing, Base
  <2> QED BY <1>2, <2>1, <2>2, <2>3, <2>4 DEF Base
<1>5. Solid(q)
  BY <1>2, <1>3 DEF Solid, Standing
<1>6. Standing(q)
  BY <1>2, <1>4, <1>5 DEF Standing, Settled
<1>7. \A k \in J : q.type[k] \in {"client", "exynos"} \/ OnOwn(q, k)
  <2> TAKE k \in J
  <2>1. CASE k = i
    BY <1>1, <1>2, <2>1 DEF OnOwn
  <2>2. CASE k # i /\ p.type[k] \in {"client", "exynos"}
    BY <1>2, <2>2
  <2>3. CASE k # i /\ k \in H /\ OnOwn(p, k)
    <3>1. PICK x \in Otfs : p.owner[x] = k /\ p.type[k] = "device"
      BY <2>3 DEF OnOwn
    <3>2. k \in Idx /\ x # o
      BY <1>1, <3>1, FreeIsNoLayer
    <3> QED BY <1>2, <2>3, <3>1, <3>2 DEF OnOwn
  <2> QED BY <2>1, <2>2, <2>3 DEF PassOk
<1>8. \A x \in Otfs : q.owner[x] \in J \union {Free, ClientTarget, ExynosTarget}
  BY <1>2 DEF PassOk
<1>9. \A x \in Otfs : q.owner[x] = ClientTarget => q.client.has = TRUE /\ q.client.otf = x
  BY <1>2, FreeIsNoLayer DEF PassOk
<1>10. q.client.has = TRUE => Holds(q, q.client, ClientTarget)
  BY <1>1, <1>2, FreeIsNoLayer DEF PassOk, Holds
<1>11. PassOk(q, J)
  BY <1>7, <1>8, <1>9, <1>10 DEF PassOk
<1>12. Early(p) => Early(q)
  BY <1>2, FreeIsNoLayer DEF Early
<1>13. Late(p) => Late(q)
  BY <1>1, <1>2, FreeIsNoLayer DEF Late, Holds
<1>14. Left(q) = Left(p)
  BY <1>3 DEF Left, Unplaced, NotClient
<1> QED BY <1>2, <1>6, <1>11, <1>12, <1>13, <1>14

-----------------------------------------------------------------------------
(* The steps of a pass.                                                    *)

\* A layer that gets a place in a composition.
LEMMA ComposedStands ==
  ASSUME Plain, NEW p, NEW q, NEW i, NEW H, NEW J, Standing(p), H \subseteq Idx, PassOk(p, H),
         H \subseteq J, J \subseteq Idx, i \in Idx,
         p.type[i] \notin {"client", "exynos"}, q.type[i] \in {"client", "exynos"},
         \A k \in J : k \in H \/ k = i \/ p.type[k] \in {"client", "exynos"},
         Fine(p, q), Solid(q), q.reserved = TRUE => q.exynos.has = FALSE
  PROVE  /\ Standing(q) /\ Left(q) <= Left(p) - 1 /\ q.reserved = p.reserved
         /\ q.ret = "ok" => /\ PassOk(q, J) /\ (Early(p) => Early(q)) /\ (Late(p) => Late(q))
                            /\ q.client.has = p.client.has
<1>1. p \in Plans /\ q \in Plans /\ Moved(p, q) /\ (q.ret = "ok" => Keeps(p, q))
  BY DEF Standing, Fine, Base
<1>2. Standing(q)
  BY DEF Standing, Fine
<1>3. Left(q) <= Left(p) - 1
  BY <1>1, LeftShrinks
<1>4. q.reserved = p.reserved
  BY <1>1 DEF Moved
<1>5. ASSUME q.ret = "ok"
      PROVE  /\ PassOk(q, J) /\ (Early(p) => Early(q)) /\ (Late(p) => Late(q))
             /\ q.client.has = p.client.has
  <2>1. Keeps(p, q)
    BY <1>1, <1>5
  <2>2. PassOk(q, H) /\ (Early(p) => Early(q)) /\ (Late(p) => Late(q))
    BY <1>1, <2>1, MovedPass
  <2>3. \A k \in J \ H : q.type[k] \in {"client", "exynos"} \/ OnOwn(q, k)
    BY <1>1 DEF Moved
  <2>4. PassOk(q, J)
    BY <2>2, <2>3, Wider
  <2> QED BY <2>1, <2>2, <2>4 DEF Keeps
<1> QED BY <1>2, <1>3, <1>4, <1>5

\* A layer for the client composition; while the G2D is reserved, no exynos composition appears.
LEMMA ClientStays ==
  ASSUME Plain, NEW p, NEW i, Standing(p), i \in Idx, p.type[i] # "exynos",
         \A o \in Otfs : p.owner[o] # i
  PROVE  LET q == LayerOnClient(p, i)
         IN  /\ Fine(p, q) /\ Solid(q) /\ q.type[i] = "client" /\ q.client.has = TRUE
             /\ q.reserved = TRUE => q.exynos.has = FALSE
<1> DEFINE q == LayerOnClient(p, i)
<1>1. JoinsClient(p, q, i)
  BY OntoClient DEF Standing
<1>2. Fine(p, q) /\ Solid(q) /\ q.type[i] = "client"
  BY OntoClientSolid DEF Standing
<1> SUFFICES /\ Fine(p, q) /\ Solid(q) /\ q.type[i] = "client" /\ q.client.has = TRUE
             /\ q.reserved = TRUE => q.exynos.has = FALSE
  OBVIOUS
<1> HIDE DEF q
<1>3. q.client.has = TRUE
  BY <1>1 DEF JoinsClient
<1>4. q.reserved = p.reserved
  BY <1>1 DEF JoinsClient, Moved
<1>5. p.exynos.has = FALSE => q.exynos.has = FALSE
  BY <1>1 DEF JoinsClient, SameExynos, NoExynos, NoComposition, Shrunk
<1> QED BY <1>2, <1>3, <1>4, <1>5 DEF Standing

\* Without an exynos composition, an open client composition takes a layer in at once.
LEMMA ClientTakesIn ==
  ASSUME NEW p, NEW i, Base(p), i \in Idx, p.client.has = TRUE, ExynosLayers(p) = {}
  PROVE  LayerOnClient(p, i).ret = "ok"
<1> DEFINE r == SetType(p, {i}, "client")
<1>1. /\ r \in Plans /\ r.client = p.client /\ r.exynos = p.exynos
      /\ \A k \in Idx : r.type[k] = IF k \in {i} THEN "client" ELSE p.type[k]
  BY Typed DEF Types, Base
<1>2. LayerOnClient(p, i) = AddClient(r, i)
  BY DEF LayerOnClient
<1> HIDE DEF r
<1>3. ExynosLayers(r) = {}
  BY <1>1 DEF ExynosLayers
<1>4. InPlace(r)
  BY <1>3 DEF InPlace
<1>5. r.client.has = TRUE /\ r.client.first \in Idx /\ r.client.last \in Idx
  BY <1>1 DEF Base, ClientOk, Around
<1>6. Sandwiched(r, Span(r.client, i)) \intersect ExynosLayers(r) = {} => AddClient(r, i).ret = "ok"
  BY <1>1, <1>4, <1>5, NextClient
<1> QED BY <1>2, <1>3, <1>6

\* The exynos composition gets its G2D.
LEMMA M2mStands ==
  ASSUME NEW p, Standing(p)
  PROVE  LET q == ExynosM2m(p)
         IN  /\ Standing(q) /\ Left(q) = Left(p) /\ q.type = p.type /\ q.client = p.client
             /\ q.exynos = p.exynos /\ q.owner = p.owner /\ q.reserved = p.reserved
             /\ q.ret = p.ret /\ q.m2m \in BOOLEAN /\ Moved(p, q)
<1> DEFINE q == ExynosM2m(p)
           m == p.m2m \/ G2dTakes(p)
<1>1. q = [p EXCEPT !.m2m = m]
  BY DEF ExynosM2m, Standing, Base, Plans
<1>2. m \in BOOLEAN
  OBVIOUS
<1> SUFFICES /\ Standing(q) /\ Left(q) = Left(p) /\ q.type = p.type /\ q.client = p.client
             /\ q.exynos = p.exynos /\ q.owner = p.owner /\ q.reserved = p.reserved
             /\ q.ret = p.ret /\ q.m2m \in BOOLEAN /\ Moved(p, q)
  OBVIOUS
<1> HIDE DEF q, m
<1>3. /\ q \in Plans /\ q.type = p.type /\ q.client = p.client /\ q.exynos = p.exynos
      /\ q.owner = p.owner /\ q.g2d = p.g2d /\ q.reserved = p.reserved /\ q.ret = p.ret /\ q.m2m = m
  BY <1>1, <1>2 DEF Standing, Base, Plans
<1>4. ClientLayers(q) = ClientLayers(p) /\ ExynosLayers(q) = ExynosLayers(p)
  BY <1>3 DEF ClientLayers, ExynosLayers
<1>5. Base(q)
  <2>1. ClientOk(q)
    BY <1>3, <1>4 DEF ClientOk, Standing, Base
  <2>2. G2dOk(q)
    BY <1>3, <1>4 DEF G2dOk, Standing, Base
  <2>3. OwnersOk(q) /\ InPlace(q)
    BY <1>3, <1>4 DEF OwnersOk, InPlace, Standing, Base
  <2> QED BY <1>3, <2>1, <2>2, <2>3 DEF Base
<1>6. Solid(q)
  BY <1>3, <1>4 DEF Solid, Standing
<1>7. Standing(q)
  BY <1>3, <1>5, <1>6 DEF Standing, Settled
<1>8. Left(q) = Left(p)
  BY <1>4 DEF Left, Unplaced, NotClient
<1>9. Moved(p, q)
  BY <1>3, MovedSelf DEF Moved, Standing, Base
<1> QED BY <1>2, <1>3, <1>7, <1>8, <1>9

\* Without a G2D or a channel for its target, the exynos composition goes to the client composition.
LEMMA TargetGoes ==
  ASSUME Plain, NEW p, Standing(p), p.exynos.has = TRUE
  PROVE  LET t == MoveAllToClient(p, p.exynos.first .. p.exynos.last)
             q == [InitExynosInfo(t) EXCEPT !.ret = "changed"]
         IN  /\ t.ret # "error" /\ Standing(q) /\ Left(q) <= Left(p) - 1 /\ q.ret = "changed"
             /\ q.reserved = p.reserved
<1> DEFINE S == p.exynos.first .. p.exynos.last
           t == MoveAllToClient(p, S)
           q == Disabled(t)
<1>1. q = [InitExynosInfo(t) EXCEPT !.ret = "changed"]
  BY DEF Disabled
<1>2. /\ Base(t) /\ Moved(p, t) /\ Settled(t)
      /\ \A k \in Idx : k \in S => t.type[k] = "client"
      /\ ExynosLayers(t) \subseteq ExynosLayers(p)
  BY MoveAll DEF Standing
<1> SUFFICES /\ t.ret # "error" /\ Standing(q) /\ Left(q) <= Left(p) - 1 /\ q.ret = "changed"
             /\ q.reserved = p.reserved
  BY <1>1
<1> HIDE DEF t
<1>3. p.exynos.first \in ExynosLayers(p) /\ Within(p.exynos, ExynosLayers(p))
  BY DEF Standing, Solid
<1>4. \A k \in ExynosLayers(p) : k \in S /\ k \in Idx
  <2>1. p.exynos.first \in Int /\ p.exynos.last \in Int
    BY ExynosInts DEF Standing, Base
  <2> QED BY <1>3, <2>1, LayersAreIdx, IdxNat DEF Within
<1> HIDE DEF S
<1>5. ExynosLayers(t) = {}
  <2>1. \A k \in ExynosLayers(p) : k \notin ExynosLayers(t)
    BY <1>2, <1>4 DEF ExynosLayers
  <2> QED BY <1>2, <2>1
<1>6. Fine(p, q) /\ Solid(q) /\ ExynosLayers(q) = {}
  BY <1>2, <1>5, DisabledFine
<1>7. /\ q \in Plans /\ NoExynos(q) /\ q.ret = "changed" /\ q.type = t.type /\ q.reserved = t.reserved
  BY <1>2, DisabledFields DEF Base
<1> HIDE DEF q
<1>8. q.type[p.exynos.first] = "client" /\ p.type[p.exynos.first] = "exynos" /\ p.exynos.first \in Idx
  BY <1>2, <1>3, <1>4, <1>7 DEF ExynosLayers
<1>9. Left(q) <= Left(p) - 1
  BY <1>6, <1>7, <1>8, LeftShrinks DEF Fine, Standing, Base
<1>10. Standing(q)
  BY <1>6, <1>7 DEF Standing, Fine, NoExynos, NoComposition
<1>11. t.ret # "error" /\ q.reserved = p.reserved
  BY <1>2, <1>7 DEF Settled, Moved
<1> QED BY <1>7, <1>9, <1>10, <1>11

\* The target gets a channel.
LEMMA TargetGets ==
  ASSUME NEW p, NEW o, NEW H, H \subseteq Idx, Standing(p), PassOk(p, H), Early(p),
         p.exynos.has = TRUE, p.m2m = TRUE, o \in FreeOtfs(p)
  PROVE  LET q == [p EXCEPT !.owner[o] = ExynosTarget, !.exynos.otf = o,
                            !.windows = Count(@ + 1), !.ret = "ok"]
         IN  /\ Standing(q) /\ PassOk(q, H) /\ Late(q) /\ Left(q) = Left(p)
             /\ q.reserved = p.reserved /\ q.ret = "ok"
<1> DEFINE q == [p EXCEPT !.owner[o] = ExynosTarget, !.exynos.otf = o,
                            !.windows = Count(@ + 1), !.ret = "ok"]
           m == [p.owner EXCEPT ![o] = ExynosTarget]
           e == [p.exynos EXCEPT !.otf = o]
           w == Count(p.windows + 1)
<1> SUFFICES /\ Standing(q) /\ PassOk(q, H) /\ Late(q) /\ Left(q) = Left(p)
             /\ q.reserved = p.reserved /\ q.ret = "ok"
  OBVIOUS
<1>1. p \in Plans /\ o \in Otfs /\ o \in Int /\ p.owner[o] = Free
  BY ResourceAssumption DEF Standing, Base, FreeOtfs
<1>2. p.owner \in [Otfs -> Int] /\ p.exynos \in Compositions /\ p.windows \in Int
  BY <1>1 DEF Plans
<1>3. q = [p EXCEPT !.owner = m, !.exynos = e, !.windows = w, !.ret = "ok"]
  BY <1>1 DEF Plans
<1>4. m \in [Otfs -> Int] /\ \A x \in Otfs : m[x] = IF x = o THEN ExynosTarget ELSE p.owner[x]
  BY <1>1, <1>2, FreeIsNoLayer
<1>5. /\ e \in Compositions /\ e.has = p.exynos.has /\ e.first = p.exynos.first
      /\ e.last = p.exynos.last /\ e.otf = o
  BY <1>1, <1>2 DEF Compositions
<1>6. w \in Int
  BY <1>2, CountInt
<1> HIDE DEF q, m, e, w
<1>7. /\ q.type = p.type /\ q.client = p.client /\ q.exynos = e /\ q.m2m = p.m2m
      /\ q.g2d = p.g2d /\ q.reserved = p.reserved /\ q.ret = "ok" /\ q.owner = m
  BY <1>1, <1>3 DEF Plans
<1>8. q \in Plans
  BY <1>1, <1>3, <1>4, <1>5, <1>6 DEF Plans, Results
<1>9. ClientLayers(q) = ClientLayers(p) /\ ExynosLayers(q) = ExynosLayers(p)
  BY <1>7 DEF ClientLayers, ExynosLayers
<1>10. Base(q)
  <2>1. ClientOk(q)
    BY <1>7, <1>9 DEF ClientOk, Standing, Base
  <2>2. G2dOk(q)
    BY <1>7, <1>9 DEF G2dOk, Standing, Base
  <2>3. OwnersOk(q)
    BY <1>4, <1>7, FreeIsNoLayer DEF OwnersOk, Standing, Base
  <2>4. InPlace(q)
    BY <1>5, <1>7, <1>9 DEF InPlace, Standing, Base
  <2> QED BY <1>8, <2>1, <2>2, <2>3, <2>4 DEF Base
<1>11. Solid(q)
  BY <1>5, <1>7, <1>9 DEF Solid, Within, Standing
<1>12. Standing(q)
  BY <1>5, <1>7, <1>10, <1>11 DEF Standing, Settled
<1>13. PassOk(q, H)
  <2>1. \A k \in H : q.type[k] \in {"client", "exynos"} \/ OnOwn(q, k)
    <3> SUFFICES ASSUME NEW k \in H, OnOwn(p, k) PROVE OnOwn(q, k)
      BY <1>7 DEF PassOk
    <3>1. PICK x \in Otfs : p.owner[x] = k /\ p.type[k] = "device"
      BY DEF OnOwn
    <3>2. x # o
      BY <1>1, <3>1, FreeIsNoLayer
    <3> QED BY <1>4, <1>7, <3>1, <3>2 DEF OnOwn
  <2>2. \A x \in Otfs : q.owner[x] \in H \union {Free, ClientTarget, ExynosTarget}
    BY <1>4, <1>7 DEF PassOk
  <2>3. \A x \in Otfs : q.owner[x] = ClientTarget => q.client.has = TRUE /\ q.client.otf = x
    BY <1>4, <1>7, FreeIsNoLayer DEF PassOk
  <2>4. q.client.has = TRUE => Holds(q, q.client, ClientTarget)
    BY <1>1, <1>4, <1>7, FreeIsNoLayer DEF PassOk, Holds
  <2> QED BY <2>1, <2>2, <2>3, <2>4 DEF PassOk
<1>14. Late(q)
  BY <1>1, <1>4, <1>5, <1>7 DEF Late, Early, Holds
<1>15. Left(q) = Left(p)
  BY <1>9 DEF Left, Unplaced, NotClient
<1> QED BY <1>7, <1>12, <1>13, <1>14, <1>15

\* Only the channels change, and no layer has one.
Rechannelled(p, q) ==
    /\ q \in Plans /\ q.type = p.type /\ q.g2d = p.g2d /\ q.m2m = p.m2m /\ q.reserved = p.reserved
    /\ q.client.has = p.client.has /\ q.client.first = p.client.first /\ q.client.last = p.client.last
    /\ q.exynos.has = p.exynos.has /\ q.exynos.first = p.exynos.first /\ q.exynos.last = p.exynos.last
    /\ q.ret = "ok" /\ \A o \in Otfs : q.owner[o] \notin Idx

\* Channels that are taken back change nothing else.
LEMMA RechannelledStands ==
  ASSUME NEW p, NEW q, Standing(p), Rechannelled(p, q)
  PROVE  Standing(q) /\ Left(q) = Left(p)
<1>1. ClientLayers(q) = ClientLayers(p) /\ ExynosLayers(q) = ExynosLayers(p)
  BY DEF Rechannelled, ClientLayers, ExynosLayers
<1>2. ClientOk(q)
  BY <1>1 DEF Rechannelled, ClientOk, Around, Tight, Standing, Base
<1>3. G2dOk(q)
  BY <1>1 DEF Rechannelled, G2dOk, Standing, Base
<1>4. OwnersOk(q)
  BY DEF Rechannelled, OwnersOk
<1>5. InPlace(q)
  BY <1>1 DEF Rechannelled, InPlace, Standing, Base
<1>6. Solid(q)
  BY <1>1 DEF Rechannelled, Solid, Within, Standing
<1>7. Standing(q)
  BY <1>2, <1>3, <1>4, <1>5, <1>6 DEF Rechannelled, Standing, Base, Settled
<1>8. Left(q) = Left(p)
  BY <1>1 DEF Left, Unplaced, NotClient
<1> QED BY <1>7, <1>8

\* resetAssignedResources.
LEMMA ResetFields ==
  ASSUME NEW p, p \in Plans
  PROVE  LET q == Reset(p)
         IN  /\ Rechannelled(p, q) /\ \A o \in Otfs : q.owner[o] = Free
<1> DEFINE q == Reset(p)
           m == [o \in Otfs |-> Free]
           c == [p.client EXCEPT !.otf = NoOtf]
           e == [p.exynos EXCEPT !.otf = NoOtf]
<1> SUFFICES Rechannelled(p, q) /\ \A o \in Otfs : q.owner[o] = Free
  OBVIOUS
<1>1. p.client \in Compositions /\ p.exynos \in Compositions
  BY DEF Plans
<1>2. /\ c \in Compositions /\ c.has = p.client.has /\ c.first = p.client.first /\ c.last = p.client.last
      /\ e \in Compositions /\ e.has = p.exynos.has /\ e.first = p.exynos.first /\ e.last = p.exynos.last
  BY <1>1 DEF Compositions, NoOtf
<1>3. m \in [Otfs -> Int] /\ \A o \in Otfs : m[o] = Free
  BY DEF Free
<1>4. q = [p EXCEPT !.owner = m, !.client = c, !.exynos = e, !.windows = 0, !.ret = "ok"]
  BY DEF Reset, Plans
<1> HIDE DEF q, m, c, e
<1>5. /\ q.type = p.type /\ q.client = c /\ q.exynos = e /\ q.m2m = p.m2m
      /\ q.g2d = p.g2d /\ q.reserved = p.reserved /\ q.ret = "ok" /\ q.owner = m
  BY <1>4 DEF Plans
<1>6. q \in Plans
  <2>1. q = [type |-> p.type, client |-> c, exynos |-> e, m2m |-> p.m2m, owner |-> m, g2d |-> p.g2d,
             reserved |-> p.reserved, windows |-> 0, ret |-> "ok", window |-> p.window]
    BY <1>4 DEF Plans
  <2> QED BY <1>2, <1>3, <2>1 DEF Plans, Results
<1> QED BY <1>2, <1>3, <1>5, <1>6, FreeIsNoLayer DEF Rechannelled

\* A pass starts with nothing handled,
LEMMA NoneHandled == ASSUME Plain PROVE Handled(4, 0) = {}
<1>1. \A k \in Idx : stack[k].priority \in 1 .. 4 /\ k \in Int /\ 0 <= k
  BY Priorities, IdxNat
<1> QED BY <1>1 DEF Handled

\* with all channels free,
LEMMA StartsAlone ==
  ASSUME Plain, NEW p, Standing(p), p.client.has = FALSE
  PROVE  LET q == Reset(p)
         IN  /\ Standing(q) /\ PassOk(q, Handled(4, 0)) /\ Early(q) /\ Left(q) = Left(p)
             /\ q.reserved = p.reserved /\ q.client.has = FALSE
<1> DEFINE q == Reset(p)
<1>1. Rechannelled(p, q) /\ \A o \in Otfs : q.owner[o] = Free
  BY ResetFields DEF Standing, Base
<1> HIDE DEF q
<1>2. PassOk(q, Handled(4, 0)) /\ Early(q)
  BY <1>1, NoneHandled, FreeIsNoLayer DEF PassOk, Early, Rechannelled
<1>3. Standing(q) /\ Left(q) = Left(p)
  BY <1>1, RechannelledStands
<1> QED BY <1>1, <1>2, <1>3 DEF Rechannelled, q

\* or with one for the client composition, which therefore never is without.
LEMMA StartsWithClient ==
  ASSUME Plain, NEW p, Standing(p), p.client.has = TRUE, NEW o, o = Lowest(Otfs),
         NEW q, q = [Reset(p) EXCEPT !.owner[o] = ClientTarget, !.client.otf = o, !.windows = 1]
  PROVE  /\ Standing(q) /\ PassOk(q, Handled(4, 0)) /\ Early(q) /\ Left(q) = Left(p)
         /\ q.reserved = p.reserved /\ q.client.has = TRUE
<1> DEFINE r == Reset(p)
           m == [r.owner EXCEPT ![o] = ClientTarget]
           c == [r.client EXCEPT !.otf = o]
<1>1. Rechannelled(p, r) /\ \A x \in Otfs : r.owner[x] = Free
  BY ResetFields DEF Standing, Base
<1>2. o \in Otfs /\ o \in Int
  BY LowestOtf, ResourceAssumption
<1>3. q = [r EXCEPT !.owner[o] = ClientTarget, !.client.otf = o, !.windows = 1]
  OBVIOUS
<1> HIDE DEF r
<1>4. r \in Plans /\ r.client \in Compositions /\ r.owner \in [Otfs -> Int]
  BY <1>1 DEF Rechannelled, Plans
<1>5. m \in [Otfs -> Int] /\ \A x \in Otfs : m[x] = IF x = o THEN ClientTarget ELSE Free
  BY <1>1, <1>2, <1>4, FreeIsNoLayer
<1>6. /\ c \in Compositions /\ c.has = r.client.has /\ c.first = r.client.first
      /\ c.last = r.client.last /\ c.otf = o
  BY <1>2, <1>4 DEF Compositions
<1>7. q = [r EXCEPT !.owner = m, !.client = c, !.windows = 1]
  BY <1>3, <1>4 DEF Plans
<1> HIDE DEF m, c
<1>8. /\ q.type = r.type /\ q.client = c /\ q.exynos = r.exynos /\ q.m2m = r.m2m
      /\ q.g2d = r.g2d /\ q.reserved = r.reserved /\ q.ret = r.ret /\ q.owner = m
  BY <1>4, <1>7 DEF Plans
<1>9. q \in Plans
  <2>1. q = [type |-> r.type, client |-> c, exynos |-> r.exynos, m2m |-> r.m2m, owner |-> m,
             g2d |-> r.g2d, reserved |-> r.reserved, windows |-> 1, ret |-> r.ret,
             window |-> r.window]
    BY <1>4, <1>7 DEF Plans
  <2> QED BY <1>4, <1>5, <1>6, <2>1 DEF Plans
<1>10. Rechannelled(p, q)
  BY <1>1, <1>5, <1>6, <1>8, <1>9, FreeIsNoLayer DEF Rechannelled
<1>11. Early(q)
  BY <1>5, <1>8, FreeIsNoLayer DEF Early
<1>12. q.client.has = TRUE
  BY <1>10 DEF Rechannelled
<1>13. PassOk(q, Handled(4, 0))
  BY <1>2, <1>5, <1>6, <1>8, <1>12, NoneHandled, FreeIsNoLayer DEF PassOk, Holds
<1>14. Standing(q) /\ Left(q) = Left(p)
  BY <1>10, RechannelledStands
<1>15. q.reserved = p.reserved
  BY <1>10 DEF Rechannelled
<1> QED BY <1>11, <1>12, <1>13, <1>14, <1>15

\* setResourcePriority: the layers of the exynos composition are device again, so that the next
\* pass assigns them.  Here a layer that was dropped from the range would be lost.
LEMMA GivesUp ==
  ASSUME Plain, NEW p, Standing(p), p.exynos.has = TRUE
  PROVE  LET q == GiveG2dUp(p)
         IN  Standing(q) /\ q.reserved = TRUE /\ q.ret = "changed"
<1> DEFINE S == p.exynos.first .. p.exynos.last
           r == Release(p, S)
           s == SetType(r, S, "device")
           q == GiveG2dUp(p)
<1> SUFFICES Standing(q) /\ q.reserved = TRUE /\ q.ret = "changed"
  OBVIOUS
<1>1. p \in Plans /\ Base(p) /\ Solid(p)
  BY DEF Standing, Base
<1>4. q = [InitExynosInfo(s) EXCEPT !.reserved = TRUE, !.ret = "changed"]
  BY DEF GiveG2dUp
<1>5. \A k \in Idx : k \in S <=> p.exynos.first <= k /\ k <= p.exynos.last
  <2>1. p.exynos.first \in Int /\ p.exynos.last \in Int
    BY <1>1, ExynosInts
  <2> QED BY <2>1, IdxNat
<1> HIDE DEF S
<1>2. /\ r \in Plans
      /\ \A o \in Otfs : r.owner[o] = IF p.owner[o] \in S THEN Free ELSE p.owner[o]
      /\ r.client = p.client /\ r.type = p.type
  BY <1>1, Released
<1>3. /\ s \in Plans
      /\ \A k \in Idx : s.type[k] = IF k \in S THEN "device" ELSE r.type[k]
      /\ s.client = r.client /\ s.owner = r.owner
  BY <1>2, Typed DEF Types
<1> HIDE DEF q, s, r
<1>6. /\ q \in Plans /\ q.type = s.type /\ q.client = p.client /\ q.owner = s.owner
      /\ q.reserved = TRUE /\ q.ret = "changed" /\ q.exynos = NoComposition
  <2>1. NoComposition \in Compositions
    BY DEF NoComposition, Compositions, NoOtf
  <2>2. q = [type |-> s.type, client |-> s.client, exynos |-> NoComposition, m2m |-> FALSE,
             owner |-> s.owner, g2d |-> s.g2d, reserved |-> TRUE, windows |-> s.windows,
             ret |-> "changed", window |-> s.window]
    BY <1>3, <1>4 DEF InitExynosInfo, Plans
  <2> QED BY <1>2, <1>3, <2>1, <2>2 DEF Plans, Results
<1>7. \A k \in Idx : q.type[k] = IF k \in S THEN "device" ELSE p.type[k]
  BY <1>2, <1>3, <1>6
<1>8. ExynosLayers(q) = {}
  BY <1>1, <1>5, <1>7 DEF ExynosLayers, Solid, Within
<1>9. ClientLayers(q) = ClientLayers(p) \ S
  BY <1>7 DEF ClientLayers
<1>10. \A k \in ClientLayers(p) : k \in S => IsHigh(k) /\ ~HighApart
  <2> SUFFICES ASSUME NEW k \in ClientLayers(p), k \in S PROVE IsHigh(k) /\ ~HighApart
    OBVIOUS
  <2>1. k \in Idx /\ k \notin ExynosLayers(p) /\ k \in Int /\ p.exynos.last \in Int
        /\ p.exynos.first <= k /\ k <= p.exynos.last
    BY <1>1, <1>5, LayersAreIdx, IdxNat, ExynosInts
  <2>2. k = p.exynos.last
    BY <1>1, <2>1 DEF Solid
  <2> QED BY <1>1, <2>1, <2>2 DEF Solid
<1>11. ClientOk(q)
  <2>1. q.client.has = TRUE => /\ Around(q.client, ClientLayers(q))
                               /\ ClientLayers(q) \subseteq q.client.first .. q.client.last
    <3> SUFFICES ASSUME p.client.has = TRUE
                 PROVE  /\ Around(p.client, ClientLayers(p) \ S)
                        /\ ClientLayers(p) \ S \subseteq p.client.first .. p.client.last
      BY <1>6, <1>9
    <3>1. Around(p.client, ClientLayers(p)) /\ ClientLayers(p) \subseteq p.client.first .. p.client.last
      BY <1>1 DEF Base, ClientOk
    <3>2. HighApart => ClientLayers(p) \ S = ClientLayers(p)
      BY <1>10
    <3> QED BY <1>10, <3>1, <3>2 DEF Around
  <2>2. q.client.has = FALSE => ClientLayers(q) = {}
    BY <1>1, <1>6, <1>9 DEF Base, ClientOk
  <2> QED BY <2>1, <2>2 DEF ClientOk
<1>12. OwnersOk(q)
  <2> SUFFICES ASSUME NEW o \in Otfs, q.owner[o] \in Idx PROVE q.type[q.owner[o]] = "device"
    BY DEF OwnersOk
  <2>1. q.owner[o] = p.owner[o] /\ p.owner[o] \notin S
    BY <1>2, <1>3, <1>6, FreeIsNoLayer
  <2>2. p.type[p.owner[o]] = "device"
    BY <1>1, <2>1 DEF Base, OwnersOk
  <2> QED BY <1>7, <2>1, <2>2
<1>13. G2dOk(q) /\ InPlace(q)
  BY <1>8 DEF G2dOk, InPlace
<1>14. q.exynos.has = FALSE
  BY <1>6 DEF NoComposition
<1>15. Solid(q)
  BY <1>8, <1>14 DEF Solid
<1> QED BY <1>6, <1>11, <1>12, <1>13, <1>14, <1>15 DEF Standing, Base, Settled

\* When no layer of a level waits, the level is handled.
LEMMA LevelHandled ==
  ASSUME Plain, step.level \in 1 .. 4, step.i \in 0 .. LayerCount, Waiting = {},
         PassOk(plan, Handled(step.level, step.i)), NEW J, J \subseteq Idx,
         \A k \in Idx : k \in J <=> stack[k].priority >= step.level
  PROVE  PassOk(plan, J)
<1>1. \A k \in Idx : k \in Int /\ 0 <= k /\ k <= LayerCount - 1 /\ stack[k].priority \in Int
  BY Priorities, IdxNat
<1>2. Handled(step.level, step.i) \subseteq J
  BY <1>1 DEF Handled
<1>3. ASSUME NEW k \in J, k \notin Handled(step.level, step.i)
      PROVE  plan.type[k] \in {"client", "exynos"}
  <2>1. k \in Idx /\ stack[k].priority = step.level /\ ~(k < step.i)
    BY <1>1, <1>3 DEF Handled
  <2>2. k \in step.i .. LayerCount - 1
    BY <1>1, <2>1, IdxNat
  <2> QED BY <2>1, <2>2 DEF Waiting, Placed
<1> QED BY <1>2, <1>3, Wider

-----------------------------------------------------------------------------
(* After the passes.                                                       *)

\* Layer k lies in the range of the composition.
InClient(p, k) == p.client.has = TRUE /\ p.client.first <= k /\ k <= p.client.last
InExynos(p, k) == p.exynos.has = TRUE /\ p.exynos.first <= k /\ k <= p.exynos.last

\* Every layer is shown by its own channel or by that of its composition.
Covered(p) == \A k \in Idx :
    \/ OnOwn(p, k)
    \/ p.type[k] = "client" /\ InClient(p, k) /\ Holds(p, p.client, ClientTarget)
    \/ /\ p.type[k] = "exynos" /\ InExynos(p, k) /\ Holds(p, p.exynos, ExynosTarget)
       /\ p.m2m = TRUE /\ k \in p.g2d

\* No channel is held by anything that it does not show.
OwnersShown(p) == \A o \in Otfs :
    /\ p.owner[o] \in Idx \union {Free, ClientTarget, ExynosTarget}
    /\ p.owner[o] \in Idx => p.type[p.owner[o]] = "device"
    /\ p.owner[o] = ClientTarget => p.client.has = TRUE /\ p.client.otf = o
    /\ p.owner[o] = ExynosTarget => p.exynos.has = TRUE /\ p.exynos.otf = o

\* The client range, while the walks move its ends, lies in the stack and holds its layers.
ClientBound(p) ==
    /\ p.client.has = TRUE =>
          /\ p.client.first \in Int /\ 0 <= p.client.first
          /\ p.client.last \in Int /\ p.client.last < LayerCount
          /\ Holds(p, p.client, ClientTarget)
          /\ \A k \in ClientLayers(p) : p.client.first <= k /\ k <= p.client.last
          /\ \A k \in Idx : InClient(p, k) => k \in ClientLayers(p) \/ IsHigh(k)
    /\ p.client.has = FALSE => ClientLayers(p) = {}

\* The range of a composition holds its layers only, or such as are shown through it.
ExynosWhole(p) == p.exynos.has = TRUE =>
    p.exynos.last \in ExynosLayers(p) /\ \A k \in Idx : InExynos(p, k) => k \in ExynosLayers(p)
ClientWhole(p) == \A k \in Idx : InClient(p, k) => k \in ClientLayers(p) \/ NeedClearClientTarget(k)

\* What holds when the passes are over.
Shown(p) ==
    /\ p \in Plans /\ Covered(p) /\ OwnersShown(p) /\ ClientBound(p)
    /\ \A k \in ExynosLayers(p) : ~IsHigh(k)
    /\ HighApart => ExynosWhole(p) /\ ClientWhole(p)

\* What one step of a walk does: layer i leaves the client composition, perhaps for a channel.
Steps(p, q, i) ==
    /\ q \in Plans /\ q.exynos = p.exynos /\ q.m2m = p.m2m /\ q.g2d = p.g2d
    /\ \A k \in Idx : q.type[k] = p.type[k] \/ (k = i /\ OnOwn(q, i))
    /\ \A x \in Otfs :
          \/ q.owner[x] = p.owner[x]
          \/ p.owner[x] = Free /\ q.owner[x] = i /\ i \in Idx /\ q.type[i] = "device"
          \/ p.owner[x] = ClientTarget /\ q.owner[x] = Free /\ q.client.has = FALSE
    /\ q.client.has = TRUE =>
          /\ p.client.has = TRUE /\ q.client.otf = p.client.otf
          /\ q.client.first \in Int /\ q.client.last \in Int
          /\ p.client.first <= q.client.first /\ q.client.last <= p.client.last
          /\ i < q.client.first \/ q.client.last < i
          /\ \A k \in ClientLayers(q) : q.client.first <= k /\ k <= q.client.last
    /\ q.client.has = FALSE =>
          ClientLayers(q) = {} /\ \A x \in Otfs : q.owner[x] # ClientTarget
    /\ HighApart => i \notin ExynosLayers(p)

\* A step of a walk keeps every layer shown.
LEMMA ShownOn ==
  ASSUME NEW p, NEW q, NEW i, i \in Int, Shown(p), Steps(p, q, i)
  PROVE  Shown(q)
<1>1. /\ q \in Plans /\ q.exynos = p.exynos /\ q.m2m = p.m2m /\ q.g2d = p.g2d
      /\ \A k \in Idx : q.type[k] = p.type[k] \/ (k = i /\ OnOwn(q, i))
      /\ \A x \in Otfs :
          \/ q.owner[x] = p.owner[x]
          \/ p.owner[x] = Free /\ q.owner[x] = i /\ i \in Idx /\ q.type[i] = "device"
          \/ p.owner[x] = ClientTarget /\ q.owner[x] = Free /\ q.client.has = FALSE
      /\ HighApart => i \notin ExynosLayers(p)
  BY DEF Steps
<1>2. ASSUME q.client.has = TRUE
      PROVE  /\ p.client.has = TRUE /\ q.client.otf = p.client.otf
             /\ q.client.first \in Int /\ q.client.last \in Int
             /\ p.client.first <= q.client.first /\ q.client.last <= p.client.last
             /\ i < q.client.first \/ q.client.last < i
             /\ \A k \in ClientLayers(q) : q.client.first <= k /\ k <= q.client.last
             /\ p.client.first \in Int /\ p.client.last \in Int /\ 0 <= p.client.first
             /\ p.client.last < LayerCount
             /\ q.client.otf \in Otfs /\ q.owner[q.client.otf] = ClientTarget
             /\ Holds(q, q.client, ClientTarget)
  <2>1. /\ p.client.has = TRUE /\ q.client.otf = p.client.otf
        /\ q.client.first \in Int /\ q.client.last \in Int
        /\ p.client.first <= q.client.first /\ q.client.last <= p.client.last
        /\ i < q.client.first \/ q.client.last < i
        /\ \A k \in ClientLayers(q) : q.client.first <= k /\ k <= q.client.last
    BY <1>2 DEF Steps
  <2>2. /\ p.client.first \in Int /\ p.client.last \in Int /\ 0 <= p.client.first
        /\ p.client.last < LayerCount
        /\ p.client.otf \in Otfs /\ p.owner[p.client.otf] = ClientTarget
    BY <2>1 DEF Shown, ClientBound, Holds
  <2>3. q.owner[q.client.otf] = ClientTarget
    BY <1>1, <1>2, <2>1, <2>2, FreeIsNoLayer
  <2> QED BY <2>1, <2>2, <2>3 DEF Holds
<1>12. ASSUME q.client.has = TRUE, NEW k \in Idx, InClient(q, k) PROVE k # i /\ InClient(p, k)
  <2>1. k \in Int /\ q.client.first <= k /\ k <= q.client.last
    BY <1>12, IdxNat DEF InClient
  <2>2. /\ p.client.has = TRUE /\ q.client.first \in Int /\ q.client.last \in Int
        /\ p.client.first \in Int /\ p.client.last \in Int
        /\ p.client.first <= q.client.first /\ q.client.last <= p.client.last
        /\ i < q.client.first \/ q.client.last < i
    BY <1>2, <1>12
  <2>3. k # i /\ p.client.first <= k /\ k <= p.client.last
    BY <2>1, <2>2
  <2> QED BY <2>2, <2>3 DEF InClient
<1>3. ExynosLayers(q) \subseteq ExynosLayers(p) /\ ClientLayers(q) \subseteq ClientLayers(p)
  BY <1>1 DEF ExynosLayers, ClientLayers, OnOwn
<1>4. Holds(p, p.exynos, ExynosTarget) => Holds(q, q.exynos, ExynosTarget)
  BY <1>1, FreeIsNoLayer DEF Holds
<1>5. q.client.has \in BOOLEAN
  BY <1>1 DEF Plans, Compositions
<1>6. Covered(q)
  <2> SUFFICES ASSUME NEW k \in Idx
               PROVE  \/ OnOwn(q, k)
                      \/ q.type[k] = "client" /\ InClient(q, k) /\ Holds(q, q.client, ClientTarget)
                      \/ /\ q.type[k] = "exynos" /\ InExynos(q, k) /\ Holds(q, q.exynos, ExynosTarget)
                         /\ q.m2m = TRUE /\ k \in q.g2d
    BY DEF Covered
  <2>1. CASE k = i /\ OnOwn(q, i)
    BY <2>1
  <2>2. CASE q.type[k] = p.type[k] /\ OnOwn(p, k)
    <3>1. PICK x \in Otfs : p.owner[x] = k /\ p.type[k] = "device"
      BY <2>2 DEF OnOwn
    <3>2. q.owner[x] = k
      BY <1>1, <3>1, FreeIsNoLayer
    <3> QED BY <2>2, <3>1, <3>2 DEF OnOwn
  <2>3. CASE q.type[k] = p.type[k] /\ p.type[k] = "client"
    <3>1. k \in ClientLayers(q)
      BY <2>3 DEF ClientLayers
    <3>2. q.client.has = TRUE
      BY <1>5, <3>1 DEF Steps
    <3>3. InClient(q, k) /\ Holds(q, q.client, ClientTarget)
      BY <1>2, <3>1, <3>2 DEF InClient
    <3> QED BY <2>3, <3>3
  <2>4. CASE q.type[k] = p.type[k] /\ p.type[k] = "exynos"
    <3>1. /\ InExynos(p, k) /\ Holds(p, p.exynos, ExynosTarget) /\ p.m2m = TRUE /\ k \in p.g2d
      BY <2>4 DEF Shown, Covered, OnOwn
    <3> QED BY <1>1, <1>4, <2>4, <3>1 DEF InExynos
  <2> QED BY <1>1, <2>1, <2>2, <2>3, <2>4 DEF Shown, Covered
<1>7. OwnersShown(q)
  <2> SUFFICES ASSUME NEW o \in Otfs
               PROVE  /\ q.owner[o] \in Idx \union {Free, ClientTarget, ExynosTarget}
                      /\ q.owner[o] \in Idx => q.type[q.owner[o]] = "device"
                      /\ q.owner[o] = ClientTarget => q.client.has = TRUE /\ q.client.otf = o
                      /\ q.owner[o] = ExynosTarget => q.exynos.has = TRUE /\ q.exynos.otf = o
    BY DEF OwnersShown
  <2>1. /\ p.owner[o] \in Idx \union {Free, ClientTarget, ExynosTarget}
        /\ p.owner[o] \in Idx => p.type[p.owner[o]] = "device"
        /\ p.owner[o] = ClientTarget => p.client.has = TRUE /\ p.client.otf = o
        /\ p.owner[o] = ExynosTarget => p.exynos.has = TRUE /\ p.exynos.otf = o
    BY DEF Shown, OwnersShown
  <2>2. CASE q.owner[o] = p.owner[o]
    <3>1. q.owner[o] \in Idx => q.type[q.owner[o]] = "device"
      BY <1>1, <2>1, <2>2 DEF OnOwn
    <3>2. q.owner[o] = ClientTarget => q.client.has = TRUE /\ q.client.otf = o
      <4> SUFFICES ASSUME q.owner[o] = ClientTarget PROVE q.client.has = TRUE /\ q.client.otf = o
        OBVIOUS
      <4>1. q.client.has = TRUE
        BY <1>5 DEF Steps
      <4> QED BY <1>2, <2>1, <2>2, <4>1
    <3> QED BY <1>1, <2>1, <2>2, <3>1, <3>2
  <2>3. CASE q.owner[o] = i /\ i \in Idx /\ q.type[i] = "device"
    BY <2>3, FreeIsNoLayer
  <2>4. CASE q.owner[o] = Free
    BY <2>4, FreeIsNoLayer
  <2> QED BY <1>1, <2>2, <2>3, <2>4
<1>8. ClientBound(q)
  <2>1. ASSUME q.client.has = TRUE, NEW k \in Idx, InClient(q, k)
        PROVE  k \in ClientLayers(q) \/ IsHigh(k)
    <3>1. k # i /\ InClient(p, k)
      BY <1>12, <2>1
    <3>2. k \in ClientLayers(p) \/ IsHigh(k)
      BY <1>2, <2>1, <3>1 DEF Shown, ClientBound
    <3> QED BY <1>1, <3>1, <3>2 DEF ClientLayers
  <2>2. q.client.has = TRUE => 0 <= q.client.first /\ q.client.last < LayerCount
    <3> SUFFICES ASSUME q.client.has = TRUE PROVE 0 <= q.client.first /\ q.client.last < LayerCount
      OBVIOUS
    <3>1. /\ q.client.first \in Int /\ q.client.last \in Int /\ 0 <= p.client.first
          /\ p.client.first \in Int /\ p.client.last \in Int /\ p.client.last < LayerCount
          /\ p.client.first <= q.client.first /\ q.client.last <= p.client.last
      BY <1>2
    <3>2. LayerCount \in Int
      BY IdxNat
    <3> QED BY <3>1, <3>2
  <2>3. q.client.has = FALSE => ClientLayers(q) = {}
    BY DEF Steps
  <2> QED BY <1>2, <2>1, <2>2, <2>3 DEF ClientBound
<1>9. \A k \in ExynosLayers(q) : ~IsHigh(k)
  BY <1>3 DEF Shown
<1>10. ASSUME HighApart PROVE ExynosWhole(q)
  <2>1. \A k \in ExynosLayers(p) : k \in ExynosLayers(q)
    BY <1>1, <1>10 DEF ExynosLayers
  <2> QED BY <1>1, <1>10, <2>1 DEF Shown, ExynosWhole, InExynos
<1>11. ASSUME HighApart PROVE ClientWhole(q)
  <2> SUFFICES ASSUME NEW k \in Idx, InClient(q, k)
               PROVE  k \in ClientLayers(q) \/ NeedClearClientTarget(k)
    BY DEF ClientWhole
  <2>0. q.client.has = TRUE
    BY DEF InClient
  <2>1. k # i /\ InClient(p, k)
    BY <1>12, <2>0
  <2>2. k \in ClientLayers(p) \/ NeedClearClientTarget(k)
    BY <1>11, <2>1 DEF Shown, ClientWhole
  <2> QED BY <1>1, <2>1, <2>2 DEF ClientLayers
<1> QED BY <1>1, <1>6, <1>7, <1>8, <1>9, <1>10, <1>11 DEF Shown

\* The first walk is at layer i, the first of the client composition; the second at its last.
UpOk(p, i, last) ==
    /\ i \in 0 .. LayerCount /\ last \in Int
    /\ p.client.has = TRUE => /\ p.client.first = i /\ p.client.last = last /\ i <= last + 1
                              /\ last \in Idx /\ (HighApart => last \in ClientLayers(p))
    /\ p.client.has = FALSE => p.client.last = -1 /\ last < i
DownOk(p, i) ==
    /\ i \in Int /\ i < LayerCount
    /\ p.client.has = TRUE =>
          /\ p.client.last = i
          /\ \/ p.client.first \in ClientLayers(p) /\ OtfsFor(p, p.client.first) = {}
             \/ ClientLayers(p) = {} /\ p.client.first > p.client.last /\ ~HighApart
    /\ p.client.has = FALSE => i < 0

\* After the walks, the last layer of the client composition has its window.
Ended(p) == HighApart /\ p.client.has = TRUE => p.client.last \in ClientLayers(p)

\* After a whole pass every layer is shown.
LEMMA PassShown ==
  ASSUME Plain, NEW p, Standing(p), PassOk(p, Idx), Late(p)
  PROVE  Shown(p) /\ (p.client.has = TRUE => UpOk(p, p.client.first, p.client.last))
<1>1. p \in Plans /\ Base(p) /\ Solid(p)
  BY DEF Standing, Base
<1>2. p.client.has \in BOOLEAN /\ p.exynos.has \in BOOLEAN
  BY <1>1 DEF Plans, Compositions
<1>3. /\ \A k \in ClientLayers(p) :
            p.client.has = TRUE /\ p.client.first <= k /\ k <= p.client.last
      /\ p.client.has = TRUE =>
            /\ p.client.first \in Idx /\ p.client.last \in Idx
            /\ p.client.first <= p.client.last
            /\ \A k \in Idx : p.client.first <= k /\ k <= p.client.last =>
                  k \in ClientLayers(p) \/ IsHigh(k)
  BY <1>1, ClientIn
<1>4. p.client.has = TRUE => Holds(p, p.client, ClientTarget)
  BY DEF PassOk
<1>5. Covered(p)
  <2> SUFFICES ASSUME NEW k \in Idx
               PROVE  \/ OnOwn(p, k)
                      \/ p.type[k] = "client" /\ InClient(p, k) /\ Holds(p, p.client, ClientTarget)
                      \/ /\ p.type[k] = "exynos" /\ InExynos(p, k) /\ Holds(p, p.exynos, ExynosTarget)
                         /\ p.m2m = TRUE /\ k \in p.g2d
    BY DEF Covered
  <2>1. CASE p.type[k] = "client"
    <3>1. k \in ClientLayers(p)
      BY <2>1 DEF ClientLayers
    <3> QED BY <1>3, <1>4, <2>1, <3>1 DEF InClient
  <2>2. CASE p.type[k] = "exynos"
    <3>1. k \in ExynosLayers(p)
      BY <2>2 DEF ExynosLayers
    <3>2. p.exynos.has = TRUE
      BY <1>1, <1>2, <3>1 DEF Solid
    <3>3. InExynos(p, k)
      BY <1>1, <3>1, <3>2 DEF Solid, Within, InExynos
    <3>4. k \in p.g2d
      BY <1>1, <3>1 DEF Base, G2dOk
    <3> QED BY <2>2, <3>2, <3>3, <3>4 DEF Late
  <2> QED BY <2>1, <2>2 DEF PassOk
<1>6. OwnersShown(p)
  BY <1>1 DEF OwnersShown, PassOk, Late, Base, OwnersOk
<1>7. ClientBound(p)
  <2>1. p.client.has = TRUE => /\ p.client.first \in Int /\ 0 <= p.client.first
                               /\ p.client.last \in Int /\ p.client.last < LayerCount
    BY <1>3, IdxNat
  <2>2. \A k \in Idx : InClient(p, k) => k \in ClientLayers(p) \/ IsHigh(k)
    BY <1>3 DEF InClient
  <2>3. p.client.has = FALSE => ClientLayers(p) = {}
    BY <1>1 DEF Base, ClientOk
  <2> QED BY <1>3, <1>4, <2>1, <2>2, <2>3 DEF ClientBound
<1>8. \A k \in ExynosLayers(p) : ~IsHigh(k)
  BY <1>1, NoHighExynos
<1>9. ASSUME HighApart PROVE ExynosWhole(p)
  <2> SUFFICES ASSUME p.exynos.has = TRUE
               PROVE  /\ p.exynos.last \in ExynosLayers(p)
                      /\ \A k \in Idx : InExynos(p, k) => k \in ExynosLayers(p)
    BY DEF ExynosWhole
  <2>1. p.exynos.last \in ExynosLayers(p)
    BY <1>1, <1>9 DEF Solid
  <2>2. ASSUME NEW k \in Idx, InExynos(p, k) PROVE k \in ExynosLayers(p)
    <3>1. k = p.exynos.last \/ k < p.exynos.last
      <4>1. k \in Int /\ p.exynos.last \in Int /\ k <= p.exynos.last
        BY <1>1, <2>2, ExynosInts, IdxNat DEF InExynos
      <4> QED BY <4>1
    <3> QED BY <1>1, <2>1, <2>2, <3>1 DEF Solid, InExynos
  <2> QED BY <2>1, <2>2
<1>10. ASSUME HighApart, p.client.has = TRUE
       PROVE  p.client.last \in ClientLayers(p) /\ ClientWhole(p)
  <2>1. Tight(p.client, ClientLayers(p))
    BY <1>1, <1>10 DEF Base, ClientOk, Around
  <2>2. p.client.first \in Int /\ p.client.last \in Int
    BY <1>3, <1>10, IdxNat
  <2>3. \A k \in Idx : InClient(p, k) => k \in p.client.first .. p.client.last
    BY <2>2, IdxNat DEF InClient
  <2> QED BY <2>1, <2>3 DEF Tight, ClientWhole
<1>11. HighApart => ExynosWhole(p) /\ ClientWhole(p)
  BY <1>2, <1>9, <1>10 DEF ClientWhole, InClient
<1>12. Shown(p)
  BY <1>1, <1>5, <1>6, <1>7, <1>8, <1>11 DEF Shown
<1>13. ASSUME p.client.has = TRUE PROVE UpOk(p, p.client.first, p.client.last)
  <2>1. /\ p.client.first \in 0 .. LayerCount /\ p.client.last \in Int
        /\ p.client.first <= p.client.last + 1 /\ p.client.last \in Idx
    BY <1>3, <1>13, IdxNat
  <2> QED BY <1>10, <1>13, <2>1 DEF UpOk
<1> QED BY <1>12, <1>13

\* An exynos composition of one layer may hand its channel to the layer.
LEMMA SingleShown ==
  ASSUME Plain, NEW p, Standing(p), PassOk(p, Idx), Late(p), Single(p)
  PROVE  LET q == SingleOnChannel(p)
         IN  Shown(q) /\ q.client = p.client /\ ClientLayers(q) = ClientLayers(p)
<1> DEFINE i == p.exynos.first
           o == p.exynos.otf
           r == Release(p, {i})
           s == SetType(r, {i}, "device")
           q == SingleOnChannel(p)
<1>1. /\ Shown(p) /\ p \in Plans /\ Solid(p) /\ p.exynos.has = TRUE /\ p.exynos.first = p.exynos.last
      /\ Holds(p, p.exynos, ExynosTarget)
  BY PassShown DEF Standing, Base, Single, Plans, Compositions, Late
<1>2. i \in ExynosLayers(p) /\ i \in Idx /\ i \in Int /\ o \in Otfs /\ p.owner[o] = ExynosTarget
  BY <1>1, LayersAreIdx, IdxNat DEF Solid, Holds
<1>3. \A k \in ExynosLayers(p) : k = i
  <2>1. \A k \in ExynosLayers(p) : k \in Int /\ i <= k /\ k <= i
    BY <1>1, LayersAreIdx, IdxNat DEF Solid, Within
  <2> QED BY <1>2, <2>1
<1> SUFFICES Shown(q) /\ q.client = p.client /\ ClientLayers(q) = ClientLayers(p)
  OBVIOUS
<1>4. q = [InitExynosInfo(s) EXCEPT !.owner[o] = i]
  BY DEF SingleOnChannel
<1> HIDE DEF q, i, o
<1>5. /\ r \in Plans
      /\ \A x \in Otfs : r.owner[x] = IF p.owner[x] \in {i} THEN Free ELSE p.owner[x]
      /\ r.client = p.client /\ r.type = p.type /\ r.reserved = p.reserved
  BY <1>1, Released
<1>6. /\ s \in Plans
      /\ \A k \in Idx : s.type[k] = IF k \in {i} THEN "device" ELSE r.type[k]
      /\ s.client = r.client /\ s.owner = r.owner /\ s.reserved = r.reserved
  BY <1>5, Typed DEF Types
<1> HIDE DEF s, r
<1> DEFINE m == [s.owner EXCEPT ![o] = i]
<1>7. m \in [Otfs -> Int]
      /\ \A x \in Otfs : m[x] = IF x = o THEN i ELSE IF p.owner[x] = i THEN Free ELSE p.owner[x]
  <2>1. s.owner \in [Otfs -> Int]
    BY <1>6 DEF Plans
  <2> QED BY <1>2, <1>5, <1>6, <2>1
<1>8. q = [type |-> s.type, client |-> s.client, exynos |-> NoComposition, m2m |-> FALSE,
           owner |-> m, g2d |-> s.g2d, reserved |-> s.reserved, windows |-> s.windows,
           ret |-> s.ret, window |-> s.window]
  BY <1>4, <1>6 DEF InitExynosInfo, Plans
<1> HIDE DEF m
<1>9. NoComposition \in Compositions
  BY DEF NoComposition, Compositions, NoOtf
<1>10. q \in Plans
  BY <1>6, <1>7, <1>8, <1>9 DEF Plans
<1>11. /\ q.client = p.client /\ q.exynos.has = FALSE /\ q.owner = m
       /\ \A k \in Idx : q.type[k] = IF k = i THEN "device" ELSE p.type[k]
  BY <1>5, <1>6, <1>8 DEF NoComposition
<1>12. ClientLayers(q) = ClientLayers(p) /\ ExynosLayers(q) = {}
  BY <1>2, <1>3, <1>11 DEF ClientLayers, ExynosLayers
<1>13. Holds(p, p.client, ClientTarget) => Holds(q, q.client, ClientTarget)
  BY <1>2, <1>7, <1>11, FreeIsNoLayer DEF Holds
<1>14. Covered(q)
  <2> SUFFICES ASSUME NEW k \in Idx
               PROVE  \/ OnOwn(q, k)
                      \/ q.type[k] = "client" /\ InClient(q, k) /\ Holds(q, q.client, ClientTarget)
    BY DEF Covered
  <2>1. CASE k = i
    BY <1>2, <1>7, <1>11, <2>1 DEF OnOwn
  <2>2. CASE k # i /\ OnOwn(p, k)
    <3>1. PICK x \in Otfs : p.owner[x] = k /\ p.type[k] = "device"
      BY <2>2 DEF OnOwn
    <3>2. x # o
      BY <1>2, <3>1, FreeIsNoLayer
    <3> QED BY <1>7, <1>11, <2>2, <3>1, <3>2 DEF OnOwn
  <2>3. CASE k # i /\ p.type[k] = "client" /\ InClient(p, k) /\ Holds(p, p.client, ClientTarget)
    BY <1>11, <1>13, <2>3 DEF InClient
  <2>4. CASE k # i /\ p.type[k] = "exynos"
    BY <1>3, <2>4 DEF ExynosLayers
  <2> QED BY <1>1, <2>1, <2>2, <2>3, <2>4 DEF Shown, Covered
<1>15. OwnersShown(q)
  <2> SUFFICES ASSUME NEW x \in Otfs
               PROVE  /\ q.owner[x] \in Idx \union {Free, ClientTarget, ExynosTarget}
                      /\ q.owner[x] \in Idx => q.type[q.owner[x]] = "device"
                      /\ q.owner[x] = ClientTarget => q.client.has = TRUE /\ q.client.otf = x
                      /\ q.owner[x] = ExynosTarget => q.exynos.has = TRUE /\ q.exynos.otf = x
    BY DEF OwnersShown
  <2>1. /\ p.owner[x] \in Idx \union {Free, ClientTarget, ExynosTarget}
        /\ p.owner[x] \in Idx => p.type[p.owner[x]] = "device"
        /\ p.owner[x] = ClientTarget => p.client.has = TRUE /\ p.client.otf = x
        /\ p.owner[x] = ExynosTarget => p.exynos.has = TRUE /\ p.exynos.otf = x
    BY <1>1 DEF Shown, OwnersShown
  <2>2. CASE x = o
    BY <1>2, <1>7, <1>11, <2>2, FreeIsNoLayer
  <2>3. CASE x # o /\ p.owner[x] = i
    BY <1>7, <1>11, <2>3, FreeIsNoLayer
  <2>4. CASE x # o /\ p.owner[x] # i
    <3>1. q.owner[x] = p.owner[x] /\ p.owner[x] # ExynosTarget
      BY <1>7, <1>11, <2>1, <2>4 DEF o
    <3> QED BY <1>11, <2>1, <2>4, <3>1
  <2> QED BY <2>2, <2>3, <2>4
<1>16. ClientBound(q)
  BY <1>1, <1>11, <1>12, <1>13 DEF Shown, ClientBound, InClient
<1>17. HighApart => ExynosWhole(q) /\ ClientWhole(q)
  BY <1>1, <1>11, <1>12 DEF Shown, ExynosWhole, ClientWhole, InClient
<1> QED BY <1>10, <1>11, <1>12, <1>14, <1>15, <1>16, <1>17 DEF Shown

-----------------------------------------------------------------------------
(* The walks of updateClientComposition.                                   *)

\* q is p with another client composition c and result.
Reclient(p, q, c) ==
    /\ q \in Plans /\ q.client = c /\ q.type = p.type /\ q.exynos = p.exynos /\ q.m2m = p.m2m
    /\ q.owner = p.owner /\ q.g2d = p.g2d /\ q.reserved = p.reserved /\ q.windows = p.windows

\* One end of the client composition moves in by one.
RaiseClient(p, r) == [p EXCEPT !.client.first = @ + 1, !.ret = r]

\* The ends of the client composition that move: the lower one with a result,
LEMMA FirstUp ==
  ASSUME NEW p, p \in Plans, NEW r, r \in Results, NEW q, q = RaiseClient(p, r)
  PROVE  /\ Reclient(p, q, q.client) /\ q.ret = r /\ q.client.has = p.client.has /\ q.client.otf = p.client.otf
         /\ q.client.first = p.client.first + 1 /\ q.client.last = p.client.last
<1> DEFINE c == [p.client EXCEPT !.first = @ + 1]
<1>1. p.client \in Compositions
  BY DEF Plans
<1>2. /\ c \in Compositions /\ c.has = p.client.has /\ c.otf = p.client.otf
      /\ c.first = p.client.first + 1 /\ c.last = p.client.last
  BY <1>1 DEF Compositions
<1>3. q = [p EXCEPT !.client = c, !.ret = r]
  BY DEF Plans, RaiseClient
<1> HIDE DEF c
<1>4. q \in Plans /\ q.client = c
  BY <1>2, <1>3 DEF Plans
<1>5. /\ q.type = p.type /\ q.exynos = p.exynos /\ q.m2m = p.m2m /\ q.owner = p.owner
      /\ q.g2d = p.g2d /\ q.reserved = p.reserved /\ q.windows = p.windows /\ q.ret = r
  BY <1>3 DEF Plans
<1> QED BY <1>2, <1>4, <1>5 DEF Reclient

\* and without,
LEMMA FirstPassed ==
  ASSUME NEW p, p \in Plans, NEW q, q = [p EXCEPT !.client.first = @ + 1]
  PROVE  /\ Reclient(p, q, q.client) /\ q.client.has = p.client.has /\ q.client.otf = p.client.otf
         /\ q.client.first = p.client.first + 1 /\ q.client.last = p.client.last
<1> DEFINE c == [p.client EXCEPT !.first = @ + 1]
<1>1. p.client \in Compositions
  BY DEF Plans
<1>2. /\ c \in Compositions /\ c.has = p.client.has /\ c.otf = p.client.otf
      /\ c.first = p.client.first + 1 /\ c.last = p.client.last
  BY <1>1 DEF Compositions
<1>3. q = [p EXCEPT !.client = c]
  BY DEF Plans
<1> HIDE DEF c
<1>4. q \in Plans /\ q.client = c
  BY <1>2, <1>3 DEF Plans
<1>5. /\ q.type = p.type /\ q.exynos = p.exynos /\ q.m2m = p.m2m /\ q.owner = p.owner
      /\ q.g2d = p.g2d /\ q.reserved = p.reserved /\ q.windows = p.windows
  BY <1>3 DEF Plans
<1> QED BY <1>2, <1>4, <1>5 DEF Reclient

\* The other end.
LowerClient(p, r) == [p EXCEPT !.client.last = @ - 1, !.ret = r]

\* the upper one with a result,
LEMMA LastDown ==
  ASSUME NEW p, p \in Plans, NEW r, r \in Results, NEW q, q = LowerClient(p, r)
  PROVE  /\ Reclient(p, q, q.client) /\ q.ret = r /\ q.client.has = p.client.has /\ q.client.otf = p.client.otf
         /\ q.client.first = p.client.first /\ q.client.last = p.client.last - 1
<1> DEFINE c == [p.client EXCEPT !.last = @ - 1]
<1>1. p.client \in Compositions
  BY DEF Plans
<1>2. /\ c \in Compositions /\ c.has = p.client.has /\ c.otf = p.client.otf
      /\ c.first = p.client.first /\ c.last = p.client.last - 1
  BY <1>1 DEF Compositions
<1>3. q = [p EXCEPT !.client = c, !.ret = r]
  BY DEF Plans, LowerClient
<1> HIDE DEF c
<1>4. q \in Plans /\ q.client = c
  BY <1>2, <1>3 DEF Plans
<1>5. /\ q.type = p.type /\ q.exynos = p.exynos /\ q.m2m = p.m2m /\ q.owner = p.owner
      /\ q.g2d = p.g2d /\ q.reserved = p.reserved /\ q.windows = p.windows /\ q.ret = r
  BY <1>3 DEF Plans
<1> QED BY <1>2, <1>4, <1>5 DEF Reclient

\* and without.
LEMMA LastPassed ==
  ASSUME NEW p, p \in Plans, NEW q, q = [p EXCEPT !.client.last = @ - 1]
  PROVE  /\ Reclient(p, q, q.client) /\ q.client.has = p.client.has /\ q.client.otf = p.client.otf
         /\ q.client.first = p.client.first /\ q.client.last = p.client.last - 1
<1> DEFINE c == [p.client EXCEPT !.last = @ - 1]
<1>1. p.client \in Compositions
  BY DEF Plans
<1>2. /\ c \in Compositions /\ c.has = p.client.has /\ c.otf = p.client.otf
      /\ c.first = p.client.first /\ c.last = p.client.last - 1
  BY <1>1 DEF Compositions
<1>3. q = [p EXCEPT !.client = c]
  BY DEF Plans
<1> HIDE DEF c
<1>4. q \in Plans /\ q.client = c
  BY <1>2, <1>3 DEF Plans
<1>5. /\ q.type = p.type /\ q.exynos = p.exynos /\ q.m2m = p.m2m /\ q.owner = p.owner
      /\ q.g2d = p.g2d /\ q.reserved = p.reserved /\ q.windows = p.windows
  BY <1>3 DEF Plans
<1> QED BY <1>2, <1>4, <1>5 DEF Reclient

\* The client composition during the walks.
LEMMA ShownFacts ==
  ASSUME NEW p, Shown(p), p.client.has = TRUE
  PROVE  /\ p.client.first \in Int /\ p.client.last \in Int /\ p.client.last < LayerCount
         /\ 0 <= p.client.first
         /\ p.client.otf \in Otfs /\ p.owner[p.client.otf] = ClientTarget /\ p.client.otf # NoOtf
         /\ \A k \in ClientLayers(p) : k \in Int /\ p.client.first <= k /\ k <= p.client.last
<1>1. 0 \notin Otfs
  BY ResourceAssumption
<1> QED BY <1>1, LayersAreIdx, IdxNat DEF Shown, ClientBound, Holds, NoOtf

\* A layer of its range is in it, or has high priority and a channel.
LEMMA InRangeIsClient ==
  ASSUME NEW p, Shown(p), NEW k \in Idx, InClient(p, k), ~HighOnDevice(p, k)
  PROVE  k \in ClientLayers(p)
<1>1. k \in ClientLayers(p) \/ IsHigh(k)
  BY DEF Shown, ClientBound, InClient
<1>2. IsHigh(k) => p.type[k] # "device" /\ p.type[k] # "exynos"
  BY DEF HighOnDevice, Shown, ExynosLayers
<1> QED BY <1>1, <1>2 DEF Shown, Covered, OnOwn, ClientLayers

\* The first walk passes a layer of high priority that has its channel.
LEMMA UpPassed ==
  ASSUME NEW p, NEW i, NEW last, Shown(p), UpOk(p, i, last), i <= last, HighOnDevice(p, i),
         NEW q, q = [p EXCEPT !.client.first = @ + 1]
  PROVE  Shown(q) /\ UpOk(q, i + 1, last)
<1>1. p \in Plans /\ p.client.has \in BOOLEAN /\ p.ret \in Results
  BY DEF Shown, Plans, Compositions
<1>2. /\ p.client.has = TRUE /\ i \in Int /\ last \in Int /\ p.client.first = i /\ p.client.last = last
      /\ last \in Idx /\ (HighApart => last \in ClientLayers(p)) /\ 0 <= i /\ last < LayerCount
  BY <1>1, IdxNat DEF UpOk
<1>4. /\ Reclient(p, q, q.client) /\ q.client.has = TRUE /\ q.client.otf = p.client.otf
      /\ q.client.first = i + 1 /\ q.client.last = last
  BY <1>1, <1>2, FirstPassed
<1>5. i \notin ClientLayers(p) /\ i \notin ExynosLayers(p)
  BY DEF HighOnDevice, ClientLayers, ExynosLayers
<1>6. ClientLayers(q) = ClientLayers(p)
  BY <1>4 DEF Reclient, ClientLayers
<1>7. \A k \in ClientLayers(q) : i + 1 <= k /\ k <= last
  <2>1. \A k \in ClientLayers(q) : k \in Int /\ i <= k /\ k <= last /\ k # i
    BY <1>2, <1>5, <1>6, ShownFacts
  <2> QED BY <1>2, <2>1
<1>8. Steps(p, q, i)
  BY <1>2, <1>4, <1>5, <1>7 DEF Steps, Reclient
<1>9. Shown(q)
  BY <1>2, <1>8, ShownOn
<1>10. i + 1 \in 0 .. LayerCount /\ i + 1 <= last + 1
  BY <1>2, IdxNat
<1> QED BY <1>2, <1>4, <1>6, <1>9, <1>10 DEF UpOk

\* Where it stops, the lowest layer has no channel to go to,
LEMMA UpStops ==
  ASSUME NEW p, NEW i, NEW last, Shown(p), UpOk(p, i, last),
         i > last \/ (~HighOnDevice(p, i) /\ OtfsFor(p, i) = {})
  PROVE  DownOk(p, p.client.last)
<1>1. p \in Plans /\ p.client.has \in BOOLEAN
  BY DEF Shown, Plans, Compositions
<1>2. i \in Int /\ last \in Int /\ 0 <= i /\ LayerCount \in Nat
  BY IdxNat DEF UpOk
<1>3. CASE p.client.has = FALSE
  <2>1. p.client.last = -1
    BY <1>3 DEF UpOk
  <2> QED BY <1>2, <1>3, <2>1 DEF DownOk
<1>4. CASE p.client.has = TRUE
  <2>1. /\ p.client.first = i /\ p.client.last = last /\ last \in Idx /\ last < LayerCount
        /\ (HighApart => last \in ClientLayers(p))
    BY <1>4, IdxNat DEF UpOk
  <2>2. CASE i > last
    <3>1. \A k \in ClientLayers(p) : k \in Int /\ i <= k /\ k <= last
      BY <1>4, <2>1, ShownFacts
    <3>2. ClientLayers(p) = {}
      BY <1>2, <2>2, <3>1
    <3> QED BY <1>2, <1>4, <2>1, <2>2, <3>2 DEF DownOk
  <2>3. CASE i <= last /\ ~HighOnDevice(p, i) /\ OtfsFor(p, i) = {}
    <3>1. i \in Idx /\ InClient(p, i)
      BY <1>2, <1>4, <2>1, <2>3, IdxNat DEF InClient
    <3>2. i \in ClientLayers(p)
      BY <2>3, <3>1, InRangeIsClient
    <3> QED BY <1>2, <1>4, <2>1, <2>3, <3>2 DEF DownOk
  <2> QED BY <1>2, <2>2, <2>3
<1> QED BY <1>1, <1>3, <1>4

\* The second walk passes a layer of high priority that has its channel;
LEMMA DownPassed ==
  ASSUME NEW p, NEW i, Shown(p), DownOk(p, i), 0 <= i, HighOnDevice(p, i),
         NEW q, q = [p EXCEPT !.client.last = @ - 1]
  PROVE  Shown(q) /\ DownOk(q, i - 1)
<1>1. p \in Plans /\ p.client.has \in BOOLEAN /\ p.ret \in Results
  BY DEF Shown, Plans, Compositions
<1>2. i \in Int /\ i < LayerCount /\ p.client.has = TRUE /\ p.client.last = i
  BY <1>1 DEF DownOk
<1>4. /\ Reclient(p, q, q.client) /\ q.client.has = TRUE /\ q.client.otf = p.client.otf
      /\ q.client.first = p.client.first /\ q.client.last = i - 1
  BY <1>1, <1>2, LastPassed
<1>5. i \notin ClientLayers(p) /\ i \notin ExynosLayers(p)
  BY DEF HighOnDevice, ClientLayers, ExynosLayers
<1>6. ClientLayers(q) = ClientLayers(p)
  BY <1>4 DEF Reclient, ClientLayers
<1>7. p.client.first \in Int
  BY <1>2, ShownFacts
<1>8. \A k \in ClientLayers(q) : q.client.first <= k /\ k <= q.client.last
  <2>1. \A k \in ClientLayers(q) : k \in Int /\ p.client.first <= k /\ k <= i /\ k # i
    BY <1>2, <1>5, <1>6, ShownFacts
  <2> QED BY <1>2, <1>4, <2>1
<1>9. Steps(p, q, i)
  BY <1>2, <1>4, <1>5, <1>7, <1>8 DEF Steps, Reclient
<1>10. Shown(q)
  BY <1>2, <1>9, ShownOn
<1>11. \A k : OtfsFor(q, k) = OtfsFor(p, k)
  BY <1>4 DEF OtfsFor, FreeOtfs, Reclient
<1>12. i - 1 \in Int /\ i - 1 < LayerCount
  BY <1>2, IdxNat
<1>13. \/ q.client.first \in ClientLayers(q) /\ OtfsFor(q, q.client.first) = {}
       \/ ClientLayers(q) = {} /\ q.client.first > q.client.last /\ ~HighApart
  BY <1>2, <1>4, <1>6, <1>7, <1>11 DEF DownOk
<1> QED BY <1>4, <1>10, <1>12, <1>13 DEF DownOk

\* it ends at a layer of the composition: it cannot go below the lowest one, although the code
\* does not test for that.
LEMMA DownStops ==
  ASSUME NEW p, NEW i, Shown(p), DownOk(p, i),
         i < 0 \/ (~HighOnDevice(p, i) /\ OtfsFor(p, i) = {})
  PROVE  Ended(p)
<1> SUFFICES ASSUME HighApart, p.client.has = TRUE PROVE p.client.last \in ClientLayers(p)
  BY DEF Ended
<1>1. i \in Int /\ i < LayerCount /\ p.client.last = i /\ p.client.first \in ClientLayers(p)
  BY DEF DownOk
<1>2. p.client.first \in Int /\ 0 <= p.client.first /\ p.client.first <= i
  BY <1>1, ShownFacts
<1>3. i \in Idx /\ InClient(p, i) /\ ~(i < 0)
  BY <1>1, <1>2, IdxNat DEF InClient
<1> QED BY <1>1, <1>3, InRangeIsClient

\* Layer i is all that the client composition has left.
OnlyClient(p, i) == p.client.has = TRUE /\ p.client.first = i /\ p.client.last = i

\* The client composition is gone, and its channel is free.
Removed(p, r) ==
    /\ r \in Plans /\ r.client = NoComposition /\ r.type = p.type /\ r.exynos = p.exynos
    /\ r.m2m = p.m2m /\ r.g2d = p.g2d /\ r.ret = "ok"
    /\ \A x \in Otfs : r.owner[x] = IF x = p.client.otf THEN Free ELSE p.owner[x]

\* removeClientCompositionLayer of the last layer frees the channel; there is one to free.
LEMMA RemovesOnly ==
  ASSUME NEW p, Shown(p), NEW i, OnlyClient(p, i)
  PROVE  Removed(p, RemoveClient(p, i))
<1> DEFINE r == RemoveClient(p, i)
           m == [p.owner EXCEPT ![p.client.otf] = Free]
           w == Count(p.windows - 1)
<1>1. p \in Plans /\ p.client.otf \in Otfs /\ p.client.otf # NoOtf
  BY ShownFacts DEF Shown, OnlyClient
<1>2. r = [p EXCEPT !.owner = m, !.client = NoComposition, !.windows = w, !.ret = "ok"]
  BY <1>1 DEF RemoveClient, Plans, OnlyClient
<1> SUFFICES Removed(p, r)
  OBVIOUS
<1> HIDE DEF r
<1>3. p.owner \in [Otfs -> Int] /\ p.windows \in Int
  BY <1>1 DEF Plans
<1>4. m \in [Otfs -> Int] /\ \A x \in Otfs : m[x] = IF x = p.client.otf THEN Free ELSE p.owner[x]
  BY <1>1, <1>3, FreeIsNoLayer
<1>5. w \in Int
  BY <1>3, CountInt
<1>6. NoComposition \in Compositions
  BY DEF NoComposition, Compositions, NoOtf
<1> HIDE DEF m, w
<1>7. r = [type |-> p.type, client |-> NoComposition, exynos |-> p.exynos, m2m |-> p.m2m,
           owner |-> m, g2d |-> p.g2d, reserved |-> p.reserved, windows |-> w,
           ret |-> "ok", window |-> p.window]
  BY <1>1, <1>2 DEF Plans
<1>8. r \in Plans
  BY <1>1, <1>4, <1>5, <1>6, <1>7 DEF Plans, Results
<1> QED BY <1>4, <1>7, <1>8 DEF Removed

\* The channel that a walk finds is free.
LEMMA LowestFor ==
  ASSUME NEW p, NEW i, OtfsFor(p, i) # {}, NEW o, o = Lowest(OtfsFor(p, i))
  PROVE  o \in Otfs /\ p.owner[o] = Free
<1>1. OtfsFor(p, i) \subseteq FreeOtfs(p) /\ FreeOtfs(p) \subseteq Otfs
  BY DEF OtfsFor, FreeOtfs
<1>2. o \in OtfsFor(p, i)
  BY <1>1, LowestOtf
<1> QED BY <1>1, <1>2 DEF FreeOtfs

\* The first walk takes the last layer of the composition.
LEMMA UpTakesLast ==
  ASSUME NEW p, NEW i, Shown(p), i \in Idx, OnlyClient(p, i), i \in ClientLayers(p), NEW o, o \in Otfs, p.owner[o] = Free,
         NEW q, q = ClientToDevice(p, i, o)
  PROVE  /\ q.ret = "ok" /\ Shown(q) /\ q.client = NoComposition
<1> DEFINE r == RemoveClient(p, i)
<1>1. /\ r \in Plans /\ r.client = NoComposition /\ r.type = p.type /\ r.exynos = p.exynos
      /\ r.m2m = p.m2m /\ r.g2d = p.g2d /\ r.ret = "ok"
      /\ \A x \in Otfs : r.owner[x] = IF x = p.client.otf THEN Free ELSE p.owner[x]
  BY RemovesOnly DEF Removed
<1>2. q = OnChannel(r, i, o)
  BY <1>1 DEF ClientToDevice
<1> HIDE DEF r
<1>3. /\ q \in Plans /\ q.client = r.client /\ q.exynos = r.exynos /\ q.m2m = r.m2m
      /\ q.g2d = r.g2d /\ q.ret = "ok"
      /\ \A k \in Idx : q.type[k] = IF k = i THEN "device" ELSE r.type[k]
      /\ \A x \in Otfs : q.owner[x] = IF x = o THEN i ELSE r.owner[x]
  BY <1>1, <1>2, OnChannelFields
<1>4. /\ q.client.has = FALSE
      /\ p.client.otf \in Otfs /\ p.owner[p.client.otf] = ClientTarget
      /\ \A k \in ClientLayers(p) : k \in Int /\ p.client.first <= k /\ k <= p.client.last
  <2>1. q.client.has = FALSE
    BY <1>1, <1>3 DEF NoComposition
  <2> QED BY <2>1, ShownFacts DEF OnlyClient
<1>5. \A k \in ClientLayers(p) : k = i
  BY <1>4, IdxNat DEF OnlyClient
<1>6. ClientLayers(q) = {}
  BY <1>1, <1>3, <1>5 DEF ClientLayers
<1>7. OnOwn(q, i)
  BY <1>3 DEF OnOwn
<1>8. \A x \in Otfs : q.owner[x] # ClientTarget
  <2> SUFFICES ASSUME NEW x \in Otfs, q.owner[x] = ClientTarget PROVE FALSE
    OBVIOUS
  <2>1. p.owner[x] = ClientTarget /\ x # p.client.otf
    BY <1>1, <1>3, FreeIsNoLayer
  <2> QED BY <2>1 DEF Shown, OwnersShown
<1>9. \A k \in Idx : q.type[k] = p.type[k] \/ (k = i /\ OnOwn(q, i))
  BY <1>1, <1>3, <1>7
<1>10. \A x \in Otfs :
          \/ q.owner[x] = p.owner[x]
          \/ p.owner[x] = Free /\ q.owner[x] = i /\ i \in Idx /\ q.type[i] = "device"
          \/ p.owner[x] = ClientTarget /\ q.owner[x] = Free /\ q.client.has = FALSE
  BY <1>1, <1>3, <1>4
<1>11. i \notin ExynosLayers(p)
  BY LayersAreIdx
<1>12. Steps(p, q, i)
  BY <1>1, <1>3, <1>4, <1>6, <1>8, <1>9, <1>10, <1>11 DEF Steps
<1>13. Shown(q)
  BY <1>12, ShownOn, IdxNat
<1> QED BY <1>1, <1>3, <1>13

\* The client range without its end i.
Narrower(p, r, i) ==
    /\ p.client.has = TRUE /\ Reclient(p, r, r.client)
    /\ r.client.has = TRUE /\ r.client.otf = p.client.otf
    /\ r.client.first \in Int /\ r.client.last \in Int
    /\ p.client.first <= r.client.first /\ r.client.last <= p.client.last
    /\ i < r.client.first \/ r.client.last < i
    /\ \A k \in ClientLayers(p) : k = i \/ (r.client.first <= k /\ k <= r.client.last)
    /\ HighApart => i \notin ExynosLayers(p)

\* Layer i at an end of the client composition, which keeps other layers, gets a channel.
LEMMA WalkTakes ==
  ASSUME NEW p, NEW i, Shown(p), i \in Idx, NEW r, Narrower(p, r, i),
         NEW o, o \in Otfs, p.owner[o] = Free, NEW q, q = OnChannel(r, i, o)
  PROVE  /\ Shown(q) /\ q.ret = "ok" /\ q.client = r.client
         /\ ClientLayers(q) = ClientLayers(p) \ {i}
         /\ \A k : p.windows < MaxWindowNum /\ OtfsFor(p, k) = {} => OtfsFor(q, k) = {}
<1>1. /\ r \in Plans /\ r.type = p.type /\ r.exynos = p.exynos /\ r.m2m = p.m2m
      /\ r.owner = p.owner /\ r.g2d = p.g2d /\ r.windows = p.windows
  BY DEF Reclient, Narrower
<1>2. /\ q \in Plans /\ q.client = r.client /\ q.exynos = r.exynos /\ q.m2m = r.m2m
      /\ q.g2d = r.g2d /\ q.ret = "ok"
      /\ \A k \in Idx : q.type[k] = IF k = i THEN "device" ELSE r.type[k]
      /\ \A x \in Otfs : q.owner[x] = IF x = o THEN i ELSE r.owner[x]
  BY <1>1, OnChannelFields
<1>3. ClientLayers(q) = ClientLayers(p) \ {i}
  BY <1>1, <1>2 DEF ClientLayers
<1>4. OnOwn(q, i)
  BY <1>2 DEF OnOwn
<1>5. \A k \in Idx : q.type[k] = p.type[k] \/ (k = i /\ OnOwn(q, i))
  BY <1>1, <1>2, <1>4
<1>6. \A x \in Otfs :
          \/ q.owner[x] = p.owner[x]
          \/ p.owner[x] = Free /\ q.owner[x] = i /\ i \in Idx /\ q.type[i] = "device"
  BY <1>1, <1>2
<1>7. \A k \in ClientLayers(q) : q.client.first <= k /\ k <= q.client.last
  BY <1>2, <1>3 DEF Narrower
<1>8. Steps(p, q, i)
  BY <1>1, <1>2, <1>5, <1>6, <1>7 DEF Steps, Narrower
<1>9. Shown(q)
  BY <1>8, ShownOn, IdxNat
<1>10. FreeOtfs(q) \subseteq FreeOtfs(p)
  BY <1>1, <1>2, FreeIsNoLayer DEF FreeOtfs
<1>11. \A k : p.windows < MaxWindowNum /\ OtfsFor(p, k) = {} => OtfsFor(q, k) = {}
  <2>1. MaxWindowNum \in Int /\ p.windows \in Int
    BY FS_CardinalityType, ResourceAssumption DEF MaxWindowNum, Shown, Plans
  <2>2. p.windows < MaxWindowNum => ~(p.windows >= MaxWindowNum)
    BY <2>1
  <2> QED BY <1>10, <2>2 DEF OtfsFor
<1> QED BY <1>2, <1>3, <1>9, <1>11

\* The first walk takes the lowest layer of the composition,
LEMMA UpTakes ==
  ASSUME NEW p, NEW i, NEW last, Shown(p), UpOk(p, i, last), i <= last, ~HighOnDevice(p, i),
         OtfsFor(p, i) # {}, NEW q, q = ClientToDevice(p, i, Lowest(OtfsFor(p, i)))
  PROVE  q.ret = "ok" /\ Shown(q) /\ UpOk(q, i + 1, last)
<1> DEFINE o == Lowest(OtfsFor(p, i))
           r == RemoveClient(p, i)
<1>1. o \in Otfs /\ p.owner[o] = Free
  BY LowestFor
<1>2. q = ClientToDevice(p, i, o)
  OBVIOUS
<1> HIDE DEF o
<1>3. p \in Plans /\ p.client.has \in BOOLEAN
  BY DEF Shown, Plans, Compositions
<1>4. /\ p.client.has = TRUE /\ i \in Int /\ last \in Int /\ p.client.first = i /\ p.client.last = last
      /\ last \in Idx /\ (HighApart => last \in ClientLayers(p)) /\ 0 <= i /\ last < LayerCount
  BY <1>3, IdxNat DEF UpOk
<1>5. i \in Idx /\ InClient(p, i)
  BY <1>4, IdxNat DEF InClient
<1>6. i \in ClientLayers(p)
  BY <1>5, InRangeIsClient
<1>7. i + 1 \in 0 .. LayerCount
  BY <1>5, IdxNat
<1>8. CASE i = last
  <2>0. OnlyClient(p, i)
    BY <1>4, <1>8 DEF OnlyClient
  <2>1. q.ret = "ok" /\ Shown(q) /\ q.client = NoComposition
    BY <1>1, <1>2, <1>5, <1>6, <2>0, UpTakesLast
  <2>2. q.client.has = FALSE /\ q.client.last = -1
    BY <2>1 DEF NoComposition
  <2> QED BY <1>4, <1>7, <1>8, <2>1, <2>2 DEF UpOk
<1>9. CASE i # last
  <2>1. r = RaiseClient(p, "ok")
    BY <1>4, <1>9 DEF RemoveClient, RaiseClient
  <2> HIDE DEF r
  <2>2. /\ Reclient(p, r, r.client) /\ r.ret = "ok" /\ r.client.has = p.client.has
        /\ r.client.otf = p.client.otf
        /\ r.client.first = p.client.first + 1 /\ r.client.last = p.client.last
    BY <1>3, <2>1, FirstUp DEF Results
  <2>3. q = OnChannel(r, i, o)
    BY <1>2, <2>2 DEF ClientToDevice, r
  <2>4. \A k \in ClientLayers(p) : k = i \/ (r.client.first <= k /\ k <= r.client.last)
    <3>1. \A k \in ClientLayers(p) : k \in Int /\ i <= k /\ k <= last
      BY <1>4, ShownFacts
    <3> QED BY <1>4, <2>2, <3>1
  <2>5. i \notin ExynosLayers(p)
    BY <1>6, LayersAreIdx
  <2>6. /\ r.client.has = TRUE /\ r.client.first = i + 1 /\ r.client.last = last
        /\ r.client.first \in Int /\ r.client.last \in Int
        /\ p.client.first <= r.client.first /\ r.client.last <= p.client.last
        /\ i < r.client.first
    BY <1>4, <2>2
  <2>7. Shown(q) /\ q.ret = "ok" /\ q.client = r.client /\ ClientLayers(q) = ClientLayers(p) \ {i}
    <3>1. Narrower(p, r, i)
      BY <1>4, <2>2, <2>4, <2>5, <2>6 DEF Narrower
    <3> QED BY <1>1, <1>5, <2>3, <3>1, WalkTakes
  <2>8. HighApart => last \in ClientLayers(q)
    BY <1>4, <1>9, <2>7
  <2>9. i + 1 <= last + 1
    BY <1>4
  <2> QED BY <1>4, <1>7, <2>6, <2>7, <2>8, <2>9 DEF UpOk
<1> QED BY <1>8, <1>9

\* the second the highest; neither can fail.
LEMMA DownTakes ==
  ASSUME NEW p, NEW i, Shown(p), DownOk(p, i), 0 <= i, ~HighOnDevice(p, i),
         OtfsFor(p, i) # {}, NEW q, q = ClientToDevice(p, i, Lowest(OtfsFor(p, i)))
  PROVE  q.ret = "ok" /\ Shown(q) /\ DownOk(q, i - 1)
<1> DEFINE o == Lowest(OtfsFor(p, i))
           r == RemoveClient(p, i)
<1>1. o \in Otfs /\ p.owner[o] = Free
  BY LowestFor
<1>2. q = ClientToDevice(p, i, o)
  OBVIOUS
<1> HIDE DEF o
<1>3. p \in Plans /\ p.client.has \in BOOLEAN /\ p.windows < MaxWindowNum
  <2>1. MaxWindowNum \in Int /\ p.windows \in Int
    BY FS_CardinalityType, ResourceAssumption DEF MaxWindowNum, Shown, Plans
  <2>2. ~(p.windows >= MaxWindowNum)
    BY DEF OtfsFor
  <2> QED BY <2>1, <2>2 DEF Shown, Plans, Compositions
<1>4. /\ i \in Int /\ i < LayerCount /\ p.client.has = TRUE /\ p.client.last = i /\ i \in Idx
      /\ \/ p.client.first \in ClientLayers(p) /\ OtfsFor(p, p.client.first) = {}
         \/ ClientLayers(p) = {} /\ p.client.first > p.client.last /\ ~HighApart
  BY <1>3, IdxNat DEF DownOk
<1>5. /\ p.client.first \in Int /\ p.client.first # i
      /\ \A k \in ClientLayers(p) : k \in Int /\ p.client.first <= k /\ k <= i
  <2>1. /\ p.client.first \in Int
        /\ \A k \in ClientLayers(p) : k \in Int /\ p.client.first <= k /\ k <= p.client.last
    BY <1>4, ShownFacts
  <2>2. p.client.first # i
    BY <1>4, <2>1
  <2> QED BY <1>4, <2>1, <2>2
<1>6. r = LowerClient(p, "ok")
  BY <1>4, <1>5 DEF RemoveClient, LowerClient
<1> HIDE DEF r
<1>7. /\ Reclient(p, r, r.client) /\ r.ret = "ok" /\ r.client.has = p.client.has
      /\ r.client.otf = p.client.otf
      /\ r.client.first = p.client.first /\ r.client.last = p.client.last - 1
  BY <1>3, <1>6, LastDown DEF Results
<1>8. q = OnChannel(r, i, o)
  BY <1>2, <1>7 DEF ClientToDevice, r
<1>9. \A k \in ClientLayers(p) : k = i \/ (r.client.first <= k /\ k <= r.client.last)
  BY <1>4, <1>5, <1>7
<1>10. HighApart => i \notin ExynosLayers(p)
  <2> SUFFICES ASSUME HighApart PROVE i \in ClientLayers(p)
    BY LayersAreIdx
  <2>1. InClient(p, i)
    BY <1>4, <1>5 DEF InClient
  <2> QED BY <1>4, <2>1, InRangeIsClient
<1>11. /\ r.client.has = TRUE /\ r.client.last = i - 1
       /\ r.client.first \in Int /\ r.client.last \in Int
       /\ p.client.first <= r.client.first /\ r.client.last <= p.client.last
       /\ r.client.last < i
  BY <1>4, <1>5, <1>7
<1>12. /\ Shown(q) /\ q.ret = "ok" /\ q.client = r.client
       /\ ClientLayers(q) = ClientLayers(p) \ {i}
       /\ \A k : p.windows < MaxWindowNum /\ OtfsFor(p, k) = {} => OtfsFor(q, k) = {}
  <2>1. Narrower(p, r, i)
    BY <1>4, <1>7, <1>9, <1>10, <1>11 DEF Narrower
  <2> QED BY <1>1, <1>4, <1>8, <2>1, WalkTakes
<1>13. \/ q.client.first \in ClientLayers(q) /\ OtfsFor(q, q.client.first) = {}
       \/ ClientLayers(q) = {} /\ q.client.first > q.client.last /\ ~HighApart
  BY <1>3, <1>4, <1>5, <1>7, <1>12
<1>14. i - 1 \in Int /\ i - 1 < LayerCount
  BY <1>4, IdxNat
<1> QED BY <1>11, <1>12, <1>13, <1>14 DEF DownOk

-----------------------------------------------------------------------------
(* Windows.                                                                *)

\* The layer whose place in the stack the source of layer i has.
Top(p, i) == IF p.type[i] = "client" THEN p.client.last
             ELSE IF p.type[i] = "exynos" THEN p.exynos.last ELSE i

\* The windows below layer h, and the layers with a window that have the source of layer i.
Below(p, h) == {j \in 0 .. h - 1 : HasWindow(p, j)}
Fellows(p, i) == {j \in Idx : HasWindow(p, j) /\ SourceOf(p, j) = SourceOf(p, i)}

\* assignWindow numbers the windows from the bottom.
Windowed(p, q) == \A i \in Idx : q.window[SourceOf(p, i)] = Cardinality(Below(p, Top(p, i)))

\* What shows a layer.
LEMMA SourceIs ==
  \A p, i : /\ p.type[i] = "client" => SourceOf(p, i) = ClientTarget
            /\ p.type[i] = "exynos" => SourceOf(p, i) = ExynosTarget
            /\ p.type[i] \notin {"client", "exynos"} => SourceOf(p, i) = i
BY DEF SourceOf

\* Each source has the window of exactly one layer.
LEMMA TopIs ==
  ASSUME NEW p, Shown(p), Ended(p), HighApart, NEW i \in Idx
  PROVE  /\ Top(p, i) \in Idx /\ HasWindow(p, Top(p, i)) /\ SourceOf(p, Top(p, i)) = SourceOf(p, i)
         /\ Fellows(p, i) = {Top(p, i)}
         /\ SourceOf(p, i) \in Sources
<1>1. OnOwn(p, i) \/ (p.type[i] = "client" /\ InClient(p, i)) \/ (p.type[i] = "exynos" /\ InExynos(p, i))
  BY DEF Shown, Covered
<1>2. \A k \in Idx : k # ClientTarget /\ k # ExynosTarget /\ ClientTarget # ExynosTarget
  BY FreeIsNoLayer
<1>3. Idx \subseteq Sources /\ ClientTarget \in Sources /\ ExynosTarget \in Sources
  BY IdxNat DEF Sources, ClientTarget, ExynosTarget
<1>4. CASE p.type[i] = "client"
  <2>1. p.client.has = TRUE
    BY <1>1, <1>4 DEF InClient, OnOwn
  <2>2. p.client.last \in Idx /\ p.type[p.client.last] = "client"
    BY <2>1 DEF Ended, ClientLayers
  <2>3. HasWindow(p, p.client.last) /\ Top(p, i) = p.client.last
    BY <1>4, <2>1, <2>2 DEF HasWindow, Top
  <2>4. SourceOf(p, i) = ClientTarget /\ SourceOf(p, p.client.last) = ClientTarget
    BY <1>4, <2>2, SourceIs
  <2>5. \A j \in Idx : HasWindow(p, j) /\ SourceOf(p, j) = ClientTarget => j = p.client.last
    BY <1>2, SourceIs DEF HasWindow
  <2> QED BY <1>3, <2>2, <2>3, <2>4, <2>5 DEF Fellows
<1>5. CASE p.type[i] = "exynos"
  <2>1. p.exynos.has = TRUE
    BY <1>1, <1>5 DEF InExynos, OnOwn
  <2>2. p.exynos.last \in Idx /\ p.type[p.exynos.last] = "exynos"
    BY <2>1 DEF Shown, ExynosWhole, ExynosLayers
  <2>3. HasWindow(p, p.exynos.last) /\ Top(p, i) = p.exynos.last
    BY <1>5, <2>1, <2>2 DEF HasWindow, Top
  <2>4. SourceOf(p, i) = ExynosTarget /\ SourceOf(p, p.exynos.last) = ExynosTarget
    BY <1>5, <2>2, SourceIs
  <2>5. \A j \in Idx : HasWindow(p, j) /\ SourceOf(p, j) = ExynosTarget => j = p.exynos.last
    BY <1>2, SourceIs DEF HasWindow
  <2> QED BY <1>3, <2>2, <2>3, <2>4, <2>5 DEF Fellows
<1>6. CASE p.type[i] \notin {"client", "exynos"}
  <2>1. p.type[i] = "device"
    BY <1>1, <1>6 DEF OnOwn
  <2>2. HasWindow(p, i) /\ Top(p, i) = i /\ SourceOf(p, i) = i
    BY <1>6, <2>1, SourceIs DEF HasWindow, Top
  <2>3. \A j \in Idx : HasWindow(p, j) /\ SourceOf(p, j) = i => j = i
    BY <1>2, SourceIs
  <2> QED BY <1>3, <2>2, <2>3 DEF Fellows
<1> QED BY <1>4, <1>5, <1>6

\* The number of a window counts the windows below it.
LEMMA WindowsAre ==
  ASSUME NEW p, Shown(p), Ended(p), HighApart,
         NEW q, q = [p EXCEPT !.window = [s \in Sources |->
           IF \E i \in Idx : HasWindow(p, i) /\ SourceOf(p, i) = s
           THEN LET i == Highest({j \in Idx : HasWindow(p, j) /\ SourceOf(p, j) = s})
                IN  Cardinality({j \in 0 .. i - 1 : HasWindow(p, j)})
           ELSE -1]]
  PROVE  Windowed(p, q)
<1> SUFFICES ASSUME NEW i \in Idx PROVE q.window[SourceOf(p, i)] = Cardinality(Below(p, Top(p, i)))
  BY DEF Windowed
<1> DEFINE h == Top(p, i)
           x == SourceOf(p, i)
<1>1. h \in Idx /\ HasWindow(p, h) /\ SourceOf(p, h) = x /\ Fellows(p, i) = {h} /\ x \in Sources
  BY TopIs
<1>2. Highest({h}) = h
  <2>1. {h} \subseteq Idx /\ {h} # {}
    BY <1>1
  <2> HIDE DEF h
  <2>2. Highest({h}) \in {h}
    BY <2>1, Ends
  <2> QED BY <2>2
<1>3. {j \in Idx : HasWindow(p, j) /\ SourceOf(p, j) = x} = {h}
  BY <1>1 DEF Fellows
<1>4. q.window = [s \in Sources |->
           IF \E k \in Idx : HasWindow(p, k) /\ SourceOf(p, k) = s
           THEN LET k == Highest({j \in Idx : HasWindow(p, j) /\ SourceOf(p, j) = s})
                IN  Cardinality({j \in 0 .. k - 1 : HasWindow(p, j)})
           ELSE -1]
  BY DEF Shown, Plans
<1> HIDE DEF h, x
<1>5. q.window[x] = LET k == Highest({j \in Idx : HasWindow(p, j) /\ SourceOf(p, j) = x})
                    IN  Cardinality({j \in 0 .. k - 1 : HasWindow(p, j)})
  BY <1>1, <1>4
<1>6. q.window[x] = Cardinality({j \in 0 .. h - 1 : HasWindow(p, j)})
  BY <1>2, <1>3, <1>5
<1> QED BY <1>6 DEF Below, h, x

\* A higher window has a greater number.
LEMMA RankLess ==
  ASSUME NEW p, NEW h \in Idx, NEW k \in Idx, h < k, HasWindow(p, h)
  PROVE  Cardinality(Below(p, h)) < Cardinality(Below(p, k))
<1>1. h \in Int /\ k \in Int /\ 0 <= h /\ k < LayerCount /\ LayerCount \in Int
  BY IdxNat
<1>2. Below(p, k) \subseteq Idx
  BY <1>1, IdxNat DEF Below
<1>3. Below(p, h) \subseteq Below(p, k)
  BY <1>1 DEF Below
<1>4. h \in Below(p, k) /\ h \notin Below(p, h)
  BY <1>1 DEF Below
<1>5. /\ Cardinality(Below(p, h)) \in Nat /\ Cardinality(Below(p, k)) \in Nat
      /\ Cardinality(Below(p, h)) <= Cardinality(Below(p, k)) - 1
  BY <1>2, <1>3, <1>4, FewerLeft
<1> QED BY <1>5

\* The windows have the order of the stack: a composition has the place of its last layer, and what
\* it surrounds is part of it.
LEMMA InOrder ==
  ASSUME NEW p, Shown(p), Ended(p), HighApart, NEW q, Windowed(p, q),
         NEW i \in Idx, NEW j \in Idx, i < j, SourceOf(p, i) # SourceOf(p, j)
  PROVE  \/ q.window[SourceOf(p, i)] < q.window[SourceOf(p, j)]
         \/ p.type[i] = "client" /\ NeedClearClientTarget(j)
<1> DEFINE hi == Top(p, i)
           hj == Top(p, j)
<1>1. hi \in Idx /\ HasWindow(p, hi) /\ SourceOf(p, hi) = SourceOf(p, i)
  BY TopIs
<1>2. hj \in Idx /\ HasWindow(p, hj) /\ SourceOf(p, hj) = SourceOf(p, j)
  BY TopIs
<1>3. hi # hj /\ hi \in Int /\ hj \in Int /\ i \in Int /\ j \in Int
  BY <1>1, <1>2, IdxNat
<1>4. /\ p.type[i] = "client" => InClient(p, i)
      /\ p.type[i] = "exynos" => InExynos(p, i)
      /\ p.type[j] = "client" => InClient(p, j)
      /\ p.type[j] = "exynos" => InExynos(p, j)
  BY DEF Shown, Covered, OnOwn
<1>5. CASE hi < hj
  <2>1. Cardinality(Below(p, hi)) < Cardinality(Below(p, hj))
    BY <1>1, <1>2, <1>5, RankLess
  <2> QED BY <2>1 DEF Windowed
<1>6. CASE hj < hi
  <2>1. j <= hj
    BY <1>3, <1>4 DEF Top, InClient, InExynos
  <2>2. i < j /\ j < hi /\ j <= hi
    BY <1>3, <1>6, <2>1
  <2>3. CASE p.type[i] = "client"
    <3>1. hi = p.client.last /\ InClient(p, i)
      BY <1>4, <2>3 DEF Top
    <3>2. p.client.first \in Int /\ p.client.first <= i
      BY <3>1, ShownFacts DEF InClient
    <3>3. InClient(p, j)
      BY <1>3, <2>2, <3>1, <3>2 DEF InClient
    <3>4. j \in ClientLayers(p) \/ NeedClearClientTarget(j)
      BY <3>3 DEF Shown, ClientWhole
    <3>5. j \notin ClientLayers(p)
      BY <2>3, SourceIs DEF ClientLayers
    <3> QED BY <2>3, <3>4, <3>5
  <2>4. CASE p.type[i] = "exynos"
    <3>1. hi = p.exynos.last /\ InExynos(p, i)
      BY <1>4, <2>4 DEF Top
    <3>2. p.exynos.first \in Int /\ p.exynos.first <= i
      BY <3>1, ExynosInts DEF InExynos, Shown
    <3>3. InExynos(p, j)
      BY <1>3, <2>2, <3>1, <3>2 DEF InExynos
    <3>4. j \in ExynosLayers(p)
      BY <3>1, <3>3 DEF Shown, ExynosWhole, InExynos
    <3> QED BY <2>4, <3>4, SourceIs DEF ExynosLayers
  <2>5. CASE p.type[i] \notin {"client", "exynos"}
    <3>1. hi = i
      BY <2>5 DEF Top
    <3> QED BY <1>3, <2>2, <3>1
  <2> QED BY <2>3, <2>4, <2>5
<1> QED BY <1>3, <1>5, <1>6

\* What is shown at the end (StackIsShown).
ShownAtEnd(p) ==
    /\ Shown(p)
    /\ HighApart =>
         /\ \A i \in Idx : p.window[SourceOf(p, i)] >= 0
         /\ \A i, j \in Idx :
              i < j /\ SourceOf(p, i) # SourceOf(p, j) =>
                  \/ p.window[SourceOf(p, i)] < p.window[SourceOf(p, j)]
                  \/ p.type[i] = "client" /\ NeedClearClientTarget(j)

\* assignWindow ends the assignment with all layers in order.
LEMMA WindowsAssigned ==
  ASSUME NEW p, Shown(p), Ended(p),
         NEW q, q = [p EXCEPT !.window = [s \in Sources |->
           IF \E i \in Idx : HasWindow(p, i) /\ SourceOf(p, i) = s
           THEN LET i == Highest({j \in Idx : HasWindow(p, j) /\ SourceOf(p, j) = s})
                IN  Cardinality({j \in 0 .. i - 1 : HasWindow(p, j)})
           ELSE -1]],
         q \in Plans
  PROVE  ShownAtEnd(q)
<1>1. /\ q.type = p.type /\ q.client = p.client /\ q.exynos = p.exynos /\ q.m2m = p.m2m
      /\ q.owner = p.owner /\ q.g2d = p.g2d
  BY DEF Shown, Plans
<1>2. ClientLayers(q) = ClientLayers(p) /\ ExynosLayers(q) = ExynosLayers(p)
  BY <1>1 DEF ClientLayers, ExynosLayers
<1>3. Shown(q)
  <2>1. Covered(q)
    BY <1>1 DEF Shown, Covered, OnOwn, InClient, InExynos, Holds
  <2>2. OwnersShown(q)
    BY <1>1 DEF Shown, OwnersShown
  <2>3. ClientBound(q)
    BY <1>1, <1>2 DEF Shown, ClientBound, Holds, InClient
  <2>4. HighApart => ExynosWhole(q) /\ ClientWhole(q)
    BY <1>1, <1>2 DEF Shown, ExynosWhole, ClientWhole, InClient, InExynos
  <2> QED BY <1>2, <2>1, <2>2, <2>3, <2>4 DEF Shown
<1>4. \A k : SourceOf(q, k) = SourceOf(p, k)
  BY <1>1 DEF SourceOf
<1>5. ASSUME HighApart, NEW i \in Idx, NEW j \in Idx, i < j, SourceOf(q, i) # SourceOf(q, j)
      PROVE  \/ q.window[SourceOf(q, i)] < q.window[SourceOf(q, j)]
             \/ q.type[i] = "client" /\ NeedClearClientTarget(j)
  <2>1. Windowed(p, q)
    BY <1>5, WindowsAre
  <2>2. \/ q.window[SourceOf(p, i)] < q.window[SourceOf(p, j)]
        \/ p.type[i] = "client" /\ NeedClearClientTarget(j)
    BY <1>4, <1>5, <2>1, InOrder
  <2> QED BY <1>1, <1>4, <2>2
<1>6. ASSUME HighApart, NEW i \in Idx PROVE q.window[SourceOf(q, i)] >= 0
  <2>1. q.window[SourceOf(p, i)] = Cardinality(Below(p, Top(p, i)))
    BY <1>6, WindowsAre DEF Windowed
  <2>2. Below(p, Top(p, i)) \subseteq Idx
    <3>1. PICK h \in Idx : h = Top(p, i)
      BY <1>6, TopIs
    <3>2. Below(p, h) \subseteq Idx
      BY <3>1, IdxNat DEF Below
    <3> QED BY <3>1, <3>2
  <2>3. Cardinality(Below(p, Top(p, i))) \in Nat
    BY <2>2, LayersFinite
  <2>4. q.window[SourceOf(p, i)] \in Nat
    BY <2>1, <2>3
  <2>5. SourceOf(q, i) = SourceOf(p, i)
    BY <1>4
  <2>6. \A n \in Nat : n >= 0
    OBVIOUS
  <2> QED BY <2>4, <2>5, <2>6
<1> QED BY <1>3, <1>5, <1>6 DEF ShownAtEnd

-----------------------------------------------------------------------------
(* The invariant of the assignment, and its steps.                         *)

\* What holds where assignResourceInternal is at s, of the plan p.
PlanAt(p, s) ==
    /\ s.at = "forced" => Unused(p)
    /\ s.at \in {"reset", "layers", "exynos", "priority", "update"} => Standing(p)
    /\ s.at = "layers" =>
          /\ s.level \in 1 .. 4 /\ s.i \in 0 .. LayerCount /\ PassOk(p, Handled(s.level, s.i))
          /\ s.level >= High => Early(p)
          /\ s.level < High => Late(p)
    /\ s.at = "exynos" => PassOk(p, {k \in Idx : IsHigh(k)}) /\ Early(p)
    /\ s.at \in {"priority", "update"} => PassOk(p, Idx) /\ Late(p)
    /\ s.at = "clientUp" => Shown(p) /\ UpOk(p, s.i, s.last)
    /\ s.at = "clientDown" => Shown(p) /\ DownOk(p, s.i)
    /\ s.at = "window" => Shown(p) /\ Ended(p)
    /\ s.at = "done" => ShownAtEnd(p)

\* What depends on the stack, which does not change, may be said of the next plan.
LEMMA PrimedStack ==
  ASSUME stack' = stack
  PROVE  /\ Plain' <=> Plain
         /\ HighApart' <=> HighApart
         /\ ClientOk(plan)' <=> ClientOk(plan')
         /\ G2dOk(plan)' <=> G2dOk(plan')
<1>1. HighApart' <=> HighApart
  BY DEF HighApart, IsHigh
<1>2. Plain' <=> Plain
  BY DEF Plain, IsHigh
<1>3. ClientOk(plan)' <=> ClientOk(plan')
  BY DEF ClientOk, Around, Tight, HighApart, NeedClearClientTarget, IsHigh, ClientLayers
<1>4. G2dOk(plan)' <=> G2dOk(plan')
  BY DEF G2dOk, ExynosLayers
<1> QED BY <1>1, <1>2, <1>3, <1>4

\* The same of what holds between the steps of the passes,
LEMMA PrimedStanding ==
  ASSUME stack' = stack
  PROVE  /\ Standing(plan)' <=> Standing(plan')
         /\ Unused(plan)' <=> Unused(plan')
<1>1. Base(plan)' <=> Base(plan')
  BY PrimedStack DEF Base, OwnersOk, InPlace, Plans, ExynosLayers
<1>2. Solid(plan)' <=> Solid(plan')
  BY PrimedStack DEF Solid, Within, ExynosLayers, IsHigh
<1> QED BY <1>1, <1>2 DEF Standing, Unused, Settled, ExynosLayers

\* after them,
LEMMA PrimedShown ==
  ASSUME stack' = stack
  PROVE  /\ Shown(plan)' <=> Shown(plan')
         /\ UpOk(plan, step.i, step.last)' <=> UpOk(plan', step'.i, step'.last)
         /\ DownOk(plan, step.i)' <=> DownOk(plan', step'.i)
         /\ Ended(plan)' <=> Ended(plan')
         /\ ShownAtEnd(plan)' <=> ShownAtEnd(plan')
<1>1. ClientBound(plan)' <=> ClientBound(plan')
  BY DEF ClientBound, Holds, ClientLayers, InClient, IsHigh
<1>2. ClientWhole(plan)' <=> ClientWhole(plan')
  BY DEF ClientWhole, ClientLayers, InClient, NeedClearClientTarget, IsHigh
<1>3. (\A k \in ExynosLayers(plan) : ~IsHigh(k))' <=> \A k \in ExynosLayers(plan') : ~IsHigh(k)
  BY DEF ExynosLayers, IsHigh
<1>4. Shown(plan)' <=> Shown(plan')
  BY <1>1, <1>2, <1>3, PrimedStack DEF Shown
<1>5. UpOk(plan, step.i, step.last)' <=> UpOk(plan', step'.i, step'.last)
  BY PrimedStack DEF UpOk, ClientLayers
<1>6. (OtfsFor(plan, plan.client.first) = {})' <=> (OtfsFor(plan', plan'.client.first) = {})
  BY DEF OtfsFor, FreeOtfs
<1>7. DownOk(plan, step.i)' <=> DownOk(plan', step'.i)
  BY <1>6, PrimedStack DEF DownOk, ClientLayers
<1>8. Ended(plan)' <=> Ended(plan')
  BY PrimedStack DEF Ended, ClientLayers
<1>9. ShownAtEnd(plan)' <=> ShownAtEnd(plan')
  BY <1>4, PrimedStack DEF ShownAtEnd, NeedClearClientTarget, IsHigh
<1> QED BY <1>4, <1>5, <1>7, <1>8, <1>9

\* and in all.
LEMMA PrimedPlan ==
  ASSUME stack' = stack
  PROVE  PlanAt(plan, step)' <=> PlanAt(plan', step')
<1>1. Handled(step.level, step.i)' = Handled(step'.level, step'.i)
  BY DEF Handled
<1>2. {k \in Idx : IsHigh(k)}' = {k \in Idx : IsHigh(k)}
  BY DEF IsHigh
<1> QED BY <1>1, <1>2, PrimedStanding, PrimedShown DEF PlanAt, PassOk, Early, Late, OnOwn, Holds

\* The passes that any stack may need to start again: each restart puts a layer into a
\* composition or moves one to the client composition, until the G2D is given up; and each of
\* giving it up and opening the client composition after that happens once.  The last pass is
\* counted too.
MostTries == 2 * LayerCount + 3

\* How many tries may have been used where assignResourceInternal is at s.
TriesAt(p, s, t) ==
    /\ t \in Nat /\ t <= MostTries /\ s.at # "failed"
    /\ s.at = "forced" => t = 0
    /\ s.at \in {"reset", "layers", "exynos", "priority"} =>
          /\ t <= MostTries - 1
          /\ p.reserved = FALSE => t + Left(p) <= 2 * LayerCount
          /\ p.reserved = TRUE => t <= 2 * LayerCount + 1 \/ p.client.has = TRUE

\* The places in assignResourceInternal.
LEMMA AtReset == /\ At("reset").at = "reset" /\ At("failed").at = "failed" /\ At("exynos").at = "exynos"
                 /\ At("priority").at = "priority" /\ At("update").at = "update"
                 /\ At("window").at = "window" /\ At("done").at = "done"
BY DEF At

\* The types of a plan.
LEMMA StandingFields ==
  ASSUME NEW p, Standing(p)
  PROVE  /\ p \in Plans /\ p.client.has \in BOOLEAN /\ p.exynos.has \in BOOLEAN /\ p.m2m \in BOOLEAN
         /\ p.reserved \in BOOLEAN /\ p.ret \in {"ok", "changed"}
BY DEF Standing, Base, Plans, Compositions, Settled

\* A plan that uses nothing is one to start a pass with.
LEMMA UnusedStands == ASSUME NEW p, Unused(p) PROVE Standing(p)
BY DEF Unused, Standing, Solid

\* Step by step: the forced layers.
LEMMA ForcedStep ==
  ASSUME Plain, PlanAt(plan, step), AddForced
  PROVE  /\ PlanAt(plan', step')
         /\ TriesAt(plan, step, tries) => TriesAt(plan', step', tries')
<1> DEFINE S == {i \in Idx : stack[i].client}
           q == AllOnClient(plan, S)
<1>1. step.at = "forced" /\ plan' = q /\ tries' = tries
      /\ step' = At(IF q.ret = "error" THEN "failed" ELSE "reset")
  BY DEF AddForced, GoTo
<1> HIDE DEF S
<1>2. Unused(q)
  BY <1>1, ForceAll DEF PlanAt
<1> HIDE DEF q
<1>3. step'.at = "reset"
  BY <1>1, <1>2, AtReset DEF Unused, Settled
<1>4. Standing(plan')
  BY <1>1, <1>2, UnusedStands
<1>5. plan'.reserved = FALSE
  BY <1>1, <1>2 DEF Unused
<1>6. PlanAt(plan', step')
  BY <1>3, <1>4 DEF PlanAt
<1>7. ASSUME TriesAt(plan, step, tries) PROVE TriesAt(plan', step', tries')
  <2>1. tries' = 0 /\ Left(plan') \in Nat /\ Left(plan') <= 2 * LayerCount
    BY <1>1, <1>7, LeftNat, LeftAtMost DEF TriesAt
  <2> QED BY <1>3, <1>5, <2>1, IdxNat DEF TriesAt, MostTries
<1> QED BY <1>6, <1>7

\* The head of a pass.
LEMMA PassStep ==
  ASSUME Plain, PlanAt(plan, step), StartPass
  PROVE  /\ PlanAt(plan', step')
         /\ TriesAt(plan, step, tries) => TriesAt(plan', step', tries')
<1>1. step.at = "reset" /\ Standing(plan) /\ tries' = tries
  BY DEF StartPass, PlanAt
<1>2. step'.at = "layers" /\ step'.level = 4 /\ step'.i = 0
  BY DEF StartPass, Level
<1>3. /\ Standing(plan') /\ PassOk(plan', Handled(4, 0)) /\ Early(plan') /\ Left(plan') = Left(plan)
      /\ plan'.reserved = plan.reserved /\ plan'.client.has = plan.client.has
  <2>1. CASE ~plan.client.has
    <3>1. plan.client.has = FALSE
      BY <1>1, <2>1, StandingFields
    <3>2. plan' = Reset(plan)
      BY <2>1 DEF StartPass
    <3> QED BY <1>1, <3>1, <3>2, StartsAlone
  <2>2. CASE plan.client.has
    <3>1. plan.client.has = TRUE
      BY <2>2
    <3> DEFINE o == Lowest(Otfs)
               q == [Reset(plan) EXCEPT !.owner[o] = ClientTarget, !.client.otf = o, !.windows = 1]
    <3>2. plan' = q
      BY <2>2 DEF StartPass
    <3>3. /\ Standing(q) /\ PassOk(q, Handled(4, 0)) /\ Early(q) /\ Left(q) = Left(plan)
          /\ q.reserved = plan.reserved /\ q.client.has = TRUE
      BY <1>1, <3>1, StartsWithClient
    <3> QED BY <3>1, <3>2, <3>3
  <2> QED BY <2>1, <2>2
<1>4. PlanAt(plan', step')
  BY <1>2, <1>3, IdxNat DEF PlanAt, High
<1>5. TriesAt(plan, step, tries) => TriesAt(plan', step', tries')
  BY <1>1, <1>2, <1>3 DEF TriesAt
<1> QED BY <1>4, <1>5

\* The next priority level.
LEMMA LevelStep ==
  ASSUME Plain, PlanAt(plan, step), LevelDone
  PROVE  /\ PlanAt(plan', step')
         /\ TriesAt(plan, step, tries) => TriesAt(plan', step', tries')
<1>1. /\ step.at = "layers" /\ Waiting = {} /\ plan' = plan /\ tries' = tries /\ Standing(plan)
      /\ step.level \in 1 .. 4 /\ step.i \in 0 .. LayerCount /\ PassOk(plan, Handled(step.level, step.i))
      /\ step.level >= High => Early(plan)
      /\ step.level < High => Late(plan)
  BY DEF LevelDone, PlanAt
<1>2. \A J \in SUBSET Idx : (\A k \in Idx : k \in J <=> stack[k].priority >= step.level) => PassOk(plan, J)
  BY <1>1, LevelHandled
<1>3. \A k \in Idx : stack[k].priority \in 1 .. 4 /\ k \in Int /\ 0 <= k
  BY Priorities, IdxNat
<1>4. CASE step.level = High
  <2>1. step'.at = "exynos"
    BY <1>4, AtReset DEF LevelDone, GoTo
  <2>2. PassOk(plan, {k \in Idx : IsHigh(k)})
    <3>1. {k \in Idx : IsHigh(k)} \in SUBSET Idx
      OBVIOUS
    <3>2. \A k \in Idx : k \in {m \in Idx : IsHigh(m)} <=> stack[k].priority >= step.level
      BY <1>4 DEF IsHigh
    <3> QED BY <1>2, <3>1, <3>2
  <2>3. Early(plan)
    BY <1>1, <1>4 DEF High
  <2>4. PlanAt(plan', step')
    BY <1>1, <2>1, <2>2, <2>3 DEF PlanAt
  <2> QED BY <1>1, <2>1, <2>4 DEF TriesAt
<1>5. CASE step.level = 1
  <2>1. step'.at = "priority"
    BY <1>5, AtReset DEF LevelDone, GoTo, High
  <2>2. PassOk(plan, Idx)
    BY <1>2, <1>3, <1>5
  <2>3. Late(plan)
    BY <1>1, <1>5 DEF High
  <2>4. PlanAt(plan', step')
    BY <1>1, <2>1, <2>2, <2>3 DEF PlanAt
  <2> QED BY <1>1, <2>1, <2>4 DEF TriesAt
<1>6. CASE step.level # High /\ step.level # 1
  <2>1. step'.at = "layers" /\ step'.level = step.level - 1 /\ step'.i = 0
    BY <1>6 DEF LevelDone, Level
  <2>2. PassOk(plan, Handled(step.level - 1, 0))
    <3>1. Handled(step.level - 1, 0) \in SUBSET Idx
      BY DEF Handled
    <3>2. \A k \in Idx : k \in Handled(step.level - 1, 0) <=> stack[k].priority >= step.level
      BY <1>1, <1>3 DEF Handled
    <3> QED BY <1>2, <3>1, <3>2
  <2>3. /\ step.level - 1 \in 1 .. 4
        /\ step.level - 1 >= High => Early(plan)
        /\ step.level - 1 < High => Late(plan)
    BY <1>1, <1>6 DEF High
  <2>4. PlanAt(plan', step')
    BY <1>1, <2>1, <2>2, <2>3, IdxNat DEF PlanAt
  <2> QED BY <1>1, <2>1, <2>4 DEF TriesAt
<1> QED BY <1>4, <1>5, <1>6

\* ASSIGN_RESOURCE_TRY_COUNT is 100, which is enough for 48 layers.
TriesSuffice == TryCount > MostTries

\* A pass that starts again.
LEMMA Restarts ==
  ASSUME Standing(plan'), Again
  PROVE  PlanAt(plan', step') /\ step'.at \in {"reset", "failed"} /\ tries' = tries + 1
<1>1. step'.at \in {"reset", "failed"} /\ tries' = tries + 1
  BY AtReset DEF Again, Counted, GoTo
<1> QED BY <1>1 DEF PlanAt

\* A restart has a cause that cannot come again: a layer moved on, the G2D was given up, or the
\* client composition was opened after that.
LEMMA TriesLeft ==
  ASSUME TriesSuffice, Standing(plan), Standing(plan'), Again,
         step.at \in {"reset", "layers", "exynos", "priority"}, TriesAt(plan, step, tries),
         \/ /\ plan.reserved = FALSE /\ plan'.reserved = FALSE /\ Left(plan') <= Left(plan) - 1
         \/ plan.reserved = FALSE /\ plan'.reserved = TRUE
         \/ /\ plan.reserved = TRUE /\ plan'.reserved = TRUE
            /\ plan.client.has = FALSE /\ plan'.client.has = TRUE
  PROVE  TriesAt(plan', step', tries')
<1>1. /\ tries \in Nat /\ TryCount \in Nat /\ LayerCount \in Nat
      /\ Left(plan) \in Nat /\ Left(plan') \in Nat /\ tries' = tries + 1
      /\ TryCount > 2 * LayerCount + 3
  BY LeftNat, ResourceAssumption DEF TriesAt, Again, Counted, TriesSuffice, MostTries
<1>2. /\ plan.reserved = FALSE => tries + Left(plan) <= 2 * LayerCount
      /\ plan.reserved = TRUE => tries <= 2 * LayerCount + 1 \/ plan.client.has = TRUE
  BY DEF TriesAt
<1>3. /\ tries + 1 <= 2 * LayerCount + 2
      /\ plan'.reserved = FALSE => tries + 1 + Left(plan') <= 2 * LayerCount
      /\ plan'.reserved = TRUE => tries + 1 <= 2 * LayerCount + 1 \/ plan'.client.has = TRUE
  <2>1. CASE plan.reserved = FALSE /\ plan'.reserved = FALSE /\ Left(plan') <= Left(plan) - 1
    BY <1>1, <1>2, <2>1
  <2>2. CASE plan.reserved = FALSE /\ plan'.reserved = TRUE
    BY <1>1, <1>2, <2>2
  <2>3. CASE /\ plan.reserved = TRUE /\ plan'.reserved = TRUE
             /\ plan.client.has = FALSE /\ plan'.client.has = TRUE
    BY <1>1, <1>2, <2>3
  <2> QED BY <2>1, <2>2, <2>3
<1>4. step'.at = "reset"
  <2>1. tries + 1 # TryCount
    BY <1>1, <1>3
  <2> QED BY <2>1, AtReset DEF Again, Counted, GoTo
<1> QED BY <1>1, <1>3, <1>4 DEF TriesAt, MostTries

\* A layer i that assignLayer has placed: in a channel, or in a composition.
PlacedWell(p, q, i, J) ==
    /\ Standing(q) /\ q.reserved = p.reserved
    /\ q.ret = "changed" => /\ Left(q) <= Left(p) - 1
                            /\ p.reserved = TRUE => p.client.has = FALSE /\ q.client.has = TRUE
    /\ q.ret = "ok" => /\ Left(q) <= Left(p) /\ q.client.has = p.client.has /\ PassOk(q, J)
                       /\ Early(p) => Early(q)
                       /\ Late(p) => Late(q)

\* What assignLayers does with the result of a layer.
LEMMA LayerGoesOn ==
  ASSUME PlanAt(plan, step), step.at = "layers", NEW i, i + 1 \in 0 .. LayerCount,
         NEW q, PlacedWell(plan, q, i, Handled(step.level, i + 1)), Continue(q, NextLayer(i))
  PROVE  /\ PlanAt(plan', step')
         /\ TriesSuffice /\ TriesAt(plan, step, tries) => TriesAt(plan', step', tries')
<1>1. Standing(q) /\ plan' = q /\ Standing(plan) /\ step.level \in 1 .. 4
  BY DEF PlacedWell, Continue, PlanAt
<1>2. CASE q.ret = "changed"
  <2>1. Again
    BY <1>2 DEF Continue
  <2>2. PlanAt(plan', step')
    BY <1>1, <2>1, Restarts
  <2>3. ASSUME TriesSuffice, TriesAt(plan, step, tries) PROVE TriesAt(plan', step', tries')
    BY <1>1, <1>2, <2>1, <2>3, TriesLeft, StandingFields DEF PlacedWell
  <2> QED BY <2>2, <2>3
<1>3. CASE q.ret = "ok"
  <2>1. NextLayer(i) /\ tries' = tries
    BY <1>3 DEF Continue
  <2>2. step'.at = "layers" /\ step'.level = step.level /\ step'.i = i + 1
    BY <2>1 DEF NextLayer
  <2>3. PlanAt(plan', step')
    BY <1>1, <1>3, <2>2 DEF PlanAt, PlacedWell
  <2>4. ASSUME TriesAt(plan, step, tries) PROVE TriesAt(plan', step', tries')
    <3>1. Left(plan) \in Nat /\ Left(plan') \in Nat /\ Left(plan') <= Left(plan)
          /\ plan'.reserved = plan.reserved /\ plan'.client.has = plan.client.has
      BY <1>1, <1>3, LeftNat DEF PlacedWell
    <3> QED BY <2>1, <2>2, <2>4, <3>1, IdxNat DEF TriesAt
  <2> QED BY <2>3, <2>4
<1> QED BY <1>1, <1>2, <1>3, StandingFields

\* The two outcomes of assignLayer: a channel,
LEMMA OnAChannel ==
  ASSUME Plain, NEW p, NEW i, NEW o, NEW H, NEW J, Standing(p), H \subseteq Idx, PassOk(p, H),
         H \subseteq J, J \subseteq Idx, i \in J, o \in FreeOtfs(p), i \in Idx,
         p.type[i] \notin {"client", "exynos"}, \A x \in Otfs : p.owner[x] # i,
         \A k \in J : k \in H \/ k = i \/ p.type[k] \in {"client", "exynos"}
  PROVE  PlacedWell(p, OnChannel(p, i, o), i, J)
<1> DEFINE q == OnChannel(p, i, o)
<1>1. /\ Standing(q) /\ PassOk(q, J) /\ (Early(p) => Early(q)) /\ (Late(p) => Late(q))
      /\ q.ret = "ok" /\ q.reserved = p.reserved /\ q.client = p.client /\ Left(q) = Left(p)
  BY OnChannelStands
<1>2. Left(p) \in Nat
  BY LeftNat
<1> HIDE DEF q
<1> QED BY <1>1, <1>2 DEF PlacedWell, q

\* or a composition.
LEMMA InAComposition ==
  ASSUME Plain, NEW p, NEW q, NEW i, NEW H, NEW J, Standing(p), H \subseteq Idx, PassOk(p, H),
         H \subseteq J, J \subseteq Idx, i \in Idx,
         p.type[i] \notin {"client", "exynos"}, q.type[i] \in {"client", "exynos"},
         \A k \in J : k \in H \/ k = i \/ p.type[k] \in {"client", "exynos"},
         Fine(p, q), Solid(q), q.reserved = TRUE => q.exynos.has = FALSE,
         q.ret = "changed" /\ p.reserved = TRUE => p.client.has = FALSE /\ q.client.has = TRUE
  PROVE  PlacedWell(p, q, i, J)
<1>1. /\ Standing(q) /\ Left(q) <= Left(p) - 1 /\ q.reserved = p.reserved
      /\ q.ret = "ok" => /\ PassOk(q, J) /\ (Early(p) => Early(q)) /\ (Late(p) => Late(q))
                         /\ q.client.has = p.client.has
  BY ComposedStands
<1>2. Left(p) \in Nat /\ Left(q) \in Nat
  BY LeftNat
<1> QED BY <1>1, <1>2 DEF PlacedWell

\* One layer of assignLayers.
LEMMA LayerStep ==
  ASSUME Plain, PlanAt(plan, step), AssignLayer
  PROVE  /\ PlanAt(plan', step')
         /\ TriesSuffice /\ TriesAt(plan, step, tries) => TriesAt(plan', step', tries')
<1> DEFINE i == Lowest(Waiting)
           H == Handled(step.level, step.i)
           J == Handled(step.level, i + 1)
<1>1. /\ step.at = "layers" /\ Waiting # {} /\ Standing(plan)
      /\ step.level \in 1 .. 4 /\ step.i \in 0 .. LayerCount /\ PassOk(plan, H)
      /\ step.level >= High => Early(plan)
      /\ step.level < High => Late(plan)
  BY DEF AssignLayer, PlanAt
<1>2. /\ i \in Idx /\ stack[i].priority = step.level /\ plan.type[i] \notin {"client", "exynos"}
      /\ \A o \in Otfs : plan.owner[o] # i
      /\ \A k \in J : k \in H \/ k = i \/ plan.type[k] \in {"client", "exynos"}
      /\ H \subseteq J /\ i \in J /\ i + 1 \in 0 .. LayerCount /\ J \subseteq Idx
  BY <1>1, WaitingFacts
<1>3. \/ /\ OtfsFor(plan, i) # {}
         /\ Continue(OnChannel(plan, i, Lowest(OtfsFor(plan, i))), NextLayer(i))
      \/ CompositionFor(plan, i) = "exynos" /\ Continue(LayerOnG2d(plan, i), NextLayer(i))
      \/ Continue(LayerOnClient(plan, i), NextLayer(i))
  BY DEF AssignLayer
<1> HIDE DEF i, H
<1>4. H \subseteq Idx
  BY DEF H, Handled
<1> SUFFICES ASSUME NEW q, PlacedWell(plan, q, i, J), Continue(q, NextLayer(i))
             PROVE  /\ PlanAt(plan', step')
                    /\ TriesSuffice /\ TriesAt(plan, step, tries) => TriesAt(plan', step', tries')
  <2>1. ASSUME OtfsFor(plan, i) # {}
        PROVE  PlacedWell(plan, OnChannel(plan, i, Lowest(OtfsFor(plan, i))), i, J)
    <3>1. PICK o : o = Lowest(OtfsFor(plan, i))
      OBVIOUS
    <3>2. o \in FreeOtfs(plan)
      BY <2>1, <3>1, LowestFor DEF FreeOtfs
    <3> HIDE DEF J
    <3> QED BY <1>1, <1>2, <1>4, <3>1, <3>2, OnAChannel
  <2>2. ASSUME CompositionFor(plan, i) = "exynos"
        PROVE  PlacedWell(plan, LayerOnG2d(plan, i), i, J)
    <3> DEFINE q == LayerOnG2d(plan, i)
    <3>1. stack[i].g2d = TRUE /\ plan.reserved = FALSE
      <4>1. stack[i].g2d /\ ~plan.reserved
        BY <2>2 DEF CompositionFor, G2dTakes
      <4>2. stack[i].g2d \in BOOLEAN
        <5>1. stack[i] \in Kinds
          BY <1>2 DEF Plain
        <5> QED BY <5>1, ResourceAssumption
      <4> QED BY <1>1, <4>1, <4>2, StandingFields
    <3>2. ~IsHigh(i)
      BY <1>2, <3>1 DEF Plain
    <3>3. plan.exynos.has = TRUE => plan.m2m = TRUE
      <4>1. step.level < High
        BY <1>1, <1>2, <3>2 DEF IsHigh, High
      <4> QED BY <1>1, <4>1 DEF Late
    <3>4. Base(plan) /\ Solid(plan)
      BY <1>1 DEF Standing
    <3>5. Fine(plan, q) /\ Solid(q) /\ q.type[i] \in {"exynos", "client"}
      BY <1>2, <3>1, <3>3, <3>4, OntoG2d
    <3> HIDE DEF q, J
    <3>6. q.reserved = FALSE
      BY <3>1, <3>5 DEF Fine, Moved
    <3>7. PlacedWell(plan, q, i, J)
      BY <1>1, <1>2, <1>4, <3>1, <3>5, <3>6, InAComposition
    <3> QED BY <3>7 DEF q
  <2>3. PlacedWell(plan, LayerOnClient(plan, i), i, J)
    <3> DEFINE q == LayerOnClient(plan, i)
    <3>1. /\ Fine(plan, q) /\ Solid(q) /\ q.type[i] = "client" /\ q.client.has = TRUE
          /\ q.reserved = TRUE => q.exynos.has = FALSE
      BY <1>1, <1>2, ClientStays
    <3>2. q.ret = "changed" /\ plan.reserved = TRUE => plan.client.has = FALSE
      <4> SUFFICES ASSUME plan.reserved = TRUE, plan.client.has = TRUE PROVE q.ret = "ok"
        BY <1>1, StandingFields
      <4>1. ExynosLayers(plan) = {} /\ Base(plan)
        BY <1>1 DEF Standing, Solid
      <4> QED BY <1>2, <4>1, ClientTakesIn
    <3> HIDE DEF q, J
    <3>3. PlacedWell(plan, q, i, J)
      BY <1>1, <1>2, <1>4, <3>1, <3>2, InAComposition
    <3> QED BY <3>3 DEF q
  <2> HIDE DEF J
  <2> QED BY <1>3, <2>1, <2>2, <2>3
<1> QED BY <1>1, <1>2, LayerGoesOn

\* The target of the exynos composition.
LEMMA TargetStep ==
  ASSUME Plain, PlanAt(plan, step), AssignExynosTarget
  PROVE  /\ PlanAt(plan', step')
         /\ TriesSuffice /\ TriesAt(plan, step, tries) => TriesAt(plan', step', tries')
<1> DEFINE p == ExynosM2m(plan)
           H == {k \in Idx : IsHigh(k)}
<1>1. step.at = "exynos" /\ Standing(plan) /\ PassOk(plan, H) /\ Early(plan)
  BY DEF AssignExynosTarget, PlanAt
<1>2. /\ Standing(p) /\ Left(p) = Left(plan) /\ p.type = plan.type /\ p.client = plan.client
      /\ p.exynos = plan.exynos /\ p.owner = plan.owner /\ p.reserved = plan.reserved
      /\ p.ret = plan.ret /\ p.m2m \in BOOLEAN
  BY <1>1, M2mStands
<1> DEFINE t == MoveAllToClient(p, p.exynos.first .. p.exynos.last)
           o == Lowest(FreeOtfs(p))
           g == [p EXCEPT !.owner[o] = ExynosTarget, !.exynos.otf = o,
                          !.windows = Count(@ + 1), !.ret = "ok"]
           d == [InitExynosInfo(t) EXCEPT !.ret = "changed"]
<1>3. \/ ~plan.exynos.has /\ Continue([plan EXCEPT !.ret = "ok"], Level(High - 1))
      \/ /\ plan.exynos.has /\ p.m2m /\ FreeOtfs(p) # {} /\ Continue(g, Level(High - 1))
      \/ /\ plan.exynos.has
         /\ Continue(IF t.ret = "error" THEN t ELSE d, FALSE)
  BY DEF AssignExynosTarget
<1>4. PassOk(p, H) /\ Early(p)
  BY <1>1, <1>2 DEF PassOk, Early, OnOwn, Holds
<1>5. \A q : PassOk(q, H) => PassOk(q, Handled(2, 0))
  <2>1. H = Handled(2, 0)
    <3>1. \A k \in Idx : stack[k].priority \in 1 .. 4 /\ k \in Int /\ 0 <= k
      BY Priorities, IdxNat
    <3> QED BY <3>1 DEF Handled, IsHigh, High
  <2> QED BY <2>1
<1> HIDE DEF p, H, t, o
<1>6. ASSUME NEW q, Continue(q, Level(High - 1)), Standing(q), q.ret = "ok", PassOk(q, H), Late(q),
             Left(q) = Left(plan), q.reserved = plan.reserved, q.client.has = plan.client.has
      PROVE  /\ PlanAt(plan', step')
             /\ TriesSuffice /\ TriesAt(plan, step, tries) => TriesAt(plan', step', tries')
  <2>1. plan' = q /\ tries' = tries /\ step'.at = "layers" /\ step'.level = 2 /\ step'.i = 0
    BY <1>6 DEF Continue, Level, High
  <2>2. PassOk(q, Handled(2, 0))
    BY <1>5, <1>6
  <2>3. PlanAt(plan', step')
    BY <1>6, <2>1, <2>2, IdxNat DEF PlanAt, High
  <2> QED BY <1>1, <1>6, <2>1, <2>3 DEF TriesAt
<1>7. CASE ~plan.exynos.has /\ Continue([plan EXCEPT !.ret = "ok"], Level(High - 1))
  <2> DEFINE q == [plan EXCEPT !.ret = "ok"]
  <2>1. plan \in Plans /\ plan.exynos.has = FALSE
    BY <1>1, <1>7, StandingFields
  <2>2. /\ q \in Plans /\ q.ret = "ok"
        /\ q.type = plan.type /\ q.client = plan.client /\ q.exynos = plan.exynos /\ q.m2m = plan.m2m
        /\ q.owner = plan.owner /\ q.g2d = plan.g2d /\ q.reserved = plan.reserved
        /\ ExynosLayers(q) = ExynosLayers(plan) /\ ClientLayers(q) = ClientLayers(plan)
        /\ Base(plan) => Base(q)
    BY <2>1, Joined DEF Results
  <2>3. Continue(q, Level(High - 1))
    BY <1>7
  <2> HIDE DEF q
  <2>4. Standing(q)
    BY <1>1, <2>2 DEF Standing, Settled, Solid
  <2>5. PassOk(q, H) /\ Late(q)
    BY <1>1, <2>1, <2>2 DEF PassOk, Early, Late, OnOwn, Holds
  <2>6. Left(q) = Left(plan)
    BY <2>2 DEF Left, Unplaced, NotClient
  <2> QED BY <1>6, <2>2, <2>3, <2>4, <2>5, <2>6
<1>8. CASE plan.exynos.has /\ p.m2m /\ FreeOtfs(p) # {} /\ Continue(g, Level(High - 1))
  <2>1. p.exynos.has = TRUE /\ p.m2m = TRUE
    BY <1>2, <1>8
  <2>2. o \in FreeOtfs(p)
    <3>1. FreeOtfs(p) \subseteq Otfs
      BY DEF FreeOtfs
    <3> QED BY <1>8, <3>1, LowestOtf DEF o
  <2>3. H \subseteq Idx
    BY DEF H
  <2>4. /\ Standing(g) /\ PassOk(g, H) /\ Late(g) /\ Left(g) = Left(p)
        /\ g.reserved = p.reserved /\ g.ret = "ok"
    BY <1>2, <1>4, <2>1, <2>2, <2>3, TargetGets
  <2>5. g.client.has = p.client.has
    BY <1>2, StandingFields DEF Plans
  <2>6. Continue(g, Level(High - 1))
    BY <1>8
  <2> HIDE DEF g
  <2> QED BY <1>2, <1>6, <2>4, <2>5, <2>6
<1>9. CASE plan.exynos.has /\ Continue(IF t.ret = "error" THEN t ELSE d, FALSE)
  <2>1. p.exynos.has = TRUE
    BY <1>2, <1>9
  <2>2. /\ t.ret # "error" /\ Standing(d) /\ Left(d) <= Left(p) - 1 /\ d.ret = "changed"
        /\ d.reserved = p.reserved
    BY <1>2, <2>1, TargetGoes DEF t
  <2> HIDE DEF d
  <2>3. plan' = d /\ Again
    BY <1>9, <2>2 DEF Continue
  <2>4. plan.reserved = FALSE
    BY <1>1, <1>2, <2>1, StandingFields DEF Standing
  <2>5. PlanAt(plan', step')
    BY <2>2, <2>3, Restarts
  <2>6. ASSUME TriesSuffice, TriesAt(plan, step, tries) PROVE TriesAt(plan', step', tries')
    BY <1>1, <1>2, <2>2, <2>3, <2>4, <2>6, TriesLeft
  <2> QED BY <2>5, <2>6
<1> QED BY <1>3, <1>7, <1>8, <1>9

\* setResourcePriority.
LEMMA PriorityStep ==
  ASSUME Plain, PlanAt(plan, step), SetResourcePriority
  PROVE  /\ PlanAt(plan', step')
         /\ TriesSuffice /\ TriesAt(plan, step, tries) => TriesAt(plan', step', tries')
<1>1. step.at = "priority" /\ Standing(plan) /\ PassOk(plan, Idx) /\ Late(plan)
  BY DEF SetResourcePriority, PlanAt
<1>2. \/ plan' = [plan EXCEPT !.ret = "ok"] /\ Counted("update")
      \/ plan.exynos.has /\ plan.m2m /\ Continue(GiveG2dUp(plan), FALSE)
  BY DEF SetResourcePriority
<1>3. CASE plan' = [plan EXCEPT !.ret = "ok"] /\ Counted("update")
  <2> DEFINE q == [plan EXCEPT !.ret = "ok"]
  <2>1. plan \in Plans
    BY <1>1, StandingFields
  <2>2. /\ q \in Plans /\ q.ret = "ok"
        /\ q.type = plan.type /\ q.client = plan.client /\ q.exynos = plan.exynos /\ q.m2m = plan.m2m
        /\ q.owner = plan.owner /\ q.g2d = plan.g2d /\ q.reserved = plan.reserved
        /\ ExynosLayers(q) = ExynosLayers(plan) /\ ClientLayers(q) = ClientLayers(plan)
        /\ Base(plan) => Base(q)
    BY <2>1, Joined DEF Results
  <2>3. plan' = q /\ Counted("update")
    BY <1>3
  <2> HIDE DEF q
  <2>4. Standing(q)
    BY <1>1, <2>2 DEF Standing, Settled, Solid
  <2>5. PassOk(q, Idx) /\ Late(q)
    BY <1>1, <2>2 DEF PassOk, Late, OnOwn, Holds
  <2>6. tries' = tries + 1 /\ step'.at = IF tries + 1 = TryCount THEN "failed" ELSE "update"
    BY <2>3, AtReset DEF Counted, GoTo
  <2>7. PlanAt(plan', step')
    BY <2>3, <2>4, <2>5, <2>6 DEF PlanAt
  <2>8. ASSUME TriesSuffice, TriesAt(plan, step, tries) PROVE TriesAt(plan', step', tries')
    <3>1. tries \in Nat /\ tries <= MostTries - 1
      BY <1>1, <2>8 DEF TriesAt
    <3>2. tries + 1 \in Nat /\ tries + 1 <= MostTries /\ tries + 1 # TryCount
      BY <2>8, <3>1, IdxNat, ResourceAssumption DEF TriesSuffice, MostTries
    <3> QED BY <2>6, <3>2 DEF TriesAt
  <2> QED BY <2>7, <2>8
<1>4. CASE plan.exynos.has /\ plan.m2m /\ Continue(GiveG2dUp(plan), FALSE)
  <2> DEFINE q == GiveG2dUp(plan)
  <2>1. plan.exynos.has = TRUE
    BY <1>4
  <2>2. Standing(q) /\ q.reserved = TRUE /\ q.ret = "changed"
    BY <1>1, <2>1, GivesUp
  <2> HIDE DEF q
  <2>3. plan' = q /\ Again
    BY <1>4, <2>2 DEF Continue, q
  <2>4. plan.reserved = FALSE
    BY <1>1, <2>1, StandingFields DEF Standing
  <2>5. PlanAt(plan', step')
    BY <2>2, <2>3, Restarts
  <2>6. ASSUME TriesSuffice, TriesAt(plan, step, tries) PROVE TriesAt(plan', step', tries')
    BY <1>1, <2>2, <2>3, <2>4, <2>6, TriesLeft
  <2> QED BY <2>5, <2>6
<1> QED BY <1>2, <1>3, <1>4

\* updateExynosComposition.
LEMMA UpdateStep ==
  ASSUME Plain, PlanAt(plan, step), UpdateExynosComposition
  PROVE  /\ PlanAt(plan', step')
         /\ TriesAt(plan, step, tries) => TriesAt(plan', step', tries')
<1> DEFINE p == IF Single(plan) THEN SingleOnChannel(plan) ELSE plan
<1>1. step.at = "update" /\ Standing(plan) /\ PassOk(plan, Idx) /\ Late(plan)
  BY DEF UpdateExynosComposition, PlanAt
<1>2. /\ plan' = p /\ tries' = tries
      /\ IF p.client.has THEN Walk("clientUp", p.client.first, p.client.last) ELSE GoTo("window")
  BY DEF UpdateExynosComposition
<1>3. Shown(plan) /\ (plan.client.has = TRUE => UpOk(plan, plan.client.first, plan.client.last))
  BY <1>1, PassShown
<1>4. Shown(p) /\ p.client = plan.client /\ ClientLayers(p) = ClientLayers(plan)
  BY <1>1, <1>3, SingleShown
<1> HIDE DEF p
<1>5. p.client.has \in BOOLEAN
  BY <1>1, <1>4, StandingFields
<1>6. CASE p.client.has = TRUE
  <2>1. step'.at = "clientUp" /\ step'.i = p.client.first /\ step'.last = p.client.last
    BY <1>2, <1>6 DEF Walk
  <2>2. UpOk(p, p.client.first, p.client.last)
    BY <1>3, <1>4, <1>6 DEF UpOk
  <2> QED BY <1>2, <1>4, <2>1, <2>2 DEF PlanAt, TriesAt
<1>7. CASE p.client.has = FALSE
  <2>1. step'.at = "window"
    BY <1>2, <1>7, AtReset DEF GoTo
  <2>2. Ended(p)
    BY <1>7 DEF Ended
  <2> QED BY <1>2, <1>4, <2>1, <2>2 DEF PlanAt, TriesAt
<1> QED BY <1>5, <1>6, <1>7

\* One layer of the first walk of updateClientComposition.
LEMMA UpStep ==
  ASSUME Plain, PlanAt(plan, step), ClientUp
  PROVE  /\ PlanAt(plan', step')
         /\ TriesAt(plan, step, tries) => TriesAt(plan', step', tries')
<1>1. step.at = "clientUp" /\ Shown(plan) /\ UpOk(plan, step.i, step.last) /\ tries' = tries
  BY DEF ClientUp, PlanAt
<1>2. step.i \in Int /\ step.last \in Int
  BY <1>1 DEF UpOk
<1>3. ASSUME StartDown, step.i > step.last \/ (~HighOnDevice(plan, step.i) /\ OtfsFor(plan, step.i) = {})
      PROVE  /\ PlanAt(plan', step')
             /\ TriesAt(plan, step, tries) => TriesAt(plan', step', tries')
  <2>1. plan' = plan /\ step'.at = "clientDown" /\ step'.i = plan.client.last
    BY <1>3 DEF StartDown, Walk
  <2>2. DownOk(plan, plan.client.last)
    BY <1>1, <1>3, UpStops
  <2> QED BY <1>1, <2>1, <2>2 DEF PlanAt, TriesAt
<1>4. ASSUME NextLayer(step.i), Shown(plan'), UpOk(plan', step.i + 1, step.last)
      PROVE  /\ PlanAt(plan', step')
             /\ TriesAt(plan, step, tries) => TriesAt(plan', step', tries')
  <2>1. step'.at = "clientUp" /\ step'.i = step.i + 1 /\ step'.last = step.last
    BY <1>1, <1>4 DEF NextLayer
  <2> QED BY <1>1, <1>4, <2>1 DEF PlanAt, TriesAt
<1>5. CASE step.i > step.last
  <2>1. StartDown
    BY <1>5 DEF ClientUp
  <2> QED BY <1>3, <1>5, <2>1
<1>6. CASE step.i <= step.last
  <2>1. ~(step.i > step.last)
    BY <1>2, <1>6
  <2>2. WalkLayer(step.i, [plan EXCEPT !.client.first = @ + 1], NextLayer(step.i), StartDown)
    BY <2>1 DEF ClientUp
  <2>3. CASE HighOnDevice(plan, step.i)
    <3>1. plan' = [plan EXCEPT !.client.first = @ + 1] /\ NextLayer(step.i)
      BY <2>2, <2>3 DEF WalkLayer
    <3>2. Shown(plan') /\ UpOk(plan', step.i + 1, step.last)
      BY <1>1, <1>6, <2>3, <3>1, UpPassed
    <3> QED BY <1>4, <3>1, <3>2
  <2>4. CASE ~HighOnDevice(plan, step.i) /\ OtfsFor(plan, step.i) = {}
    <3>1. StartDown
      BY <2>2, <2>4 DEF WalkLayer
    <3> QED BY <1>3, <2>4, <3>1
  <2>5. CASE ~HighOnDevice(plan, step.i) /\ OtfsFor(plan, step.i) # {}
    <3>1. /\ plan' = ClientToDevice(plan, step.i, Lowest(OtfsFor(plan, step.i)))
          /\ IF plan'.ret = "error" THEN GoTo("failed") ELSE NextLayer(step.i)
      BY <2>2, <2>5 DEF WalkLayer
    <3>2. plan'.ret = "ok" /\ Shown(plan') /\ UpOk(plan', step.i + 1, step.last)
      BY <1>1, <1>6, <2>5, <3>1, UpTakes
    <3> QED BY <1>4, <3>1, <3>2
  <2> QED BY <2>3, <2>4, <2>5
<1> QED BY <1>2, <1>5, <1>6

\* One layer of its second walk.
LEMMA DownStep ==
  ASSUME Plain, PlanAt(plan, step), ClientDown
  PROVE  /\ PlanAt(plan', step')
         /\ TriesAt(plan, step, tries) => TriesAt(plan', step', tries')
<1>1. step.at = "clientDown" /\ Shown(plan) /\ DownOk(plan, step.i) /\ tries' = tries
  BY DEF ClientDown, PlanAt
<1>2. step.i \in Int
  BY <1>1 DEF DownOk
<1>3. ASSUME EndWalk, step.i < 0 \/ (~HighOnDevice(plan, step.i) /\ OtfsFor(plan, step.i) = {})
      PROVE  /\ PlanAt(plan', step')
             /\ TriesAt(plan, step, tries) => TriesAt(plan', step', tries')
  <2>1. plan' = plan /\ step'.at = "window"
    BY <1>3, AtReset DEF EndWalk, GoTo
  <2>2. Ended(plan)
    BY <1>1, <1>3, DownStops
  <2> QED BY <1>1, <2>1, <2>2 DEF PlanAt, TriesAt
<1>4. ASSUME step' = [step EXCEPT !.i = @ - 1], Shown(plan'), DownOk(plan', step.i - 1)
      PROVE  /\ PlanAt(plan', step')
             /\ TriesAt(plan, step, tries) => TriesAt(plan', step', tries')
  <2>1. step'.at = "clientDown" /\ step'.i = step.i - 1
    BY <1>1, <1>4
  <2> QED BY <1>1, <1>4, <2>1 DEF PlanAt, TriesAt
<1>5. CASE step.i < 0
  <2>1. EndWalk
    BY <1>5 DEF ClientDown
  <2> QED BY <1>3, <1>5, <2>1
<1>6. CASE 0 <= step.i
  <2>1. ~(step.i < 0)
    BY <1>2, <1>6
  <2>2. WalkLayer(step.i, [plan EXCEPT !.client.last = @ - 1], step' = [step EXCEPT !.i = @ - 1], EndWalk)
    BY <2>1 DEF ClientDown
  <2>3. CASE HighOnDevice(plan, step.i)
    <3>1. plan' = [plan EXCEPT !.client.last = @ - 1] /\ step' = [step EXCEPT !.i = @ - 1]
      BY <2>2, <2>3 DEF WalkLayer
    <3>2. Shown(plan') /\ DownOk(plan', step.i - 1)
      BY <1>1, <1>6, <2>3, <3>1, DownPassed
    <3> QED BY <1>4, <3>1, <3>2
  <2>4. CASE ~HighOnDevice(plan, step.i) /\ OtfsFor(plan, step.i) = {}
    <3>1. EndWalk
      BY <2>2, <2>4 DEF WalkLayer
    <3> QED BY <1>3, <2>4, <3>1
  <2>5. CASE ~HighOnDevice(plan, step.i) /\ OtfsFor(plan, step.i) # {}
    <3>1. /\ plan' = ClientToDevice(plan, step.i, Lowest(OtfsFor(plan, step.i)))
          /\ IF plan'.ret = "error" THEN GoTo("failed") ELSE step' = [step EXCEPT !.i = @ - 1]
      BY <2>2, <2>5 DEF WalkLayer
    <3>2. plan'.ret = "ok" /\ Shown(plan') /\ DownOk(plan', step.i - 1)
      BY <1>1, <1>6, <2>5, <3>1, DownTakes
    <3> QED BY <1>4, <3>1, <3>2
  <2> QED BY <2>3, <2>4, <2>5
<1> QED BY <1>2, <1>5, <1>6

\* assignWindow.
LEMMA WindowStep ==
  ASSUME Plain, PlanAt(plan, step), AssignWindow
  PROVE  /\ PlanAt(plan', step')
         /\ TriesAt(plan, step, tries) => TriesAt(plan', step', tries')
<1>1. step.at = "window" /\ Shown(plan) /\ Ended(plan) /\ tries' = tries
  BY DEF AssignWindow, PlanAt
<1>2. step'.at = "done"
  BY AtReset DEF AssignWindow, GoTo
<1> DEFINE W == [s \in Sources |->
           IF \E i \in Idx : HasWindow(plan, i) /\ SourceOf(plan, i) = s
           THEN LET i == Highest({j \in Idx : HasWindow(plan, j) /\ SourceOf(plan, j) = s})
                IN  Cardinality({j \in 0 .. i - 1 : HasWindow(plan, j)})
           ELSE -1]
<1>3. plan' = [plan EXCEPT !.window = W]
  BY DEF AssignWindow
<1>4. W \in [Sources -> Int]
  <2> SUFFICES ASSUME NEW s \in Sources, \E i \in Idx : HasWindow(plan, i) /\ SourceOf(plan, i) = s
               PROVE  LET i == Highest({j \in Idx : HasWindow(plan, j) /\ SourceOf(plan, j) = s})
                      IN  Cardinality({j \in 0 .. i - 1 : HasWindow(plan, j)}) \in Int
    OBVIOUS
  <2> DEFINE S == {j \in Idx : HasWindow(plan, j) /\ SourceOf(plan, j) = s}
             i == Highest(S)
             B == {j \in 0 .. i - 1 : HasWindow(plan, j)}
  <2>1. S \subseteq Idx /\ S # {}
    OBVIOUS
  <2> HIDE DEF S
  <2>2. i \in Idx
    BY <2>1, Ends
  <2> HIDE DEF i
  <2>3. B \subseteq Idx
    BY <2>2, IdxNat
  <2> HIDE DEF B
  <2>4. Cardinality(B) \in Nat
    BY <2>3, LayersFinite
  <2> QED BY <2>4 DEF B, i, S
<1>5. plan' \in Plans
  <2>1. plan \in Plans
    BY <1>1 DEF Shown
  <2> HIDE DEF W
  <2> QED BY <1>3, <1>4, <2>1 DEF Plans
<1>6. ShownAtEnd(plan')
  BY <1>1, <1>3, <1>5, WindowsAssigned
<1> QED BY <1>1, <1>2, <1>6 DEF PlanAt, TriesAt

-----------------------------------------------------------------------------
(* The theorems.                                                           *)

\* The inductive invariants.
ResourceInv ==
    /\ stack \in [Idx -> Kinds]
    /\ Plain => PlanAt(plan, step)
TriesInv == Plain => TriesAt(plan, step, tries)

\* The plan of a frame whose geometry changed.
LEMMA FirstPlan ==
  ASSUME ResourceInit
  PROVE  stack \in [Idx -> Kinds] /\ Unused(plan) /\ step.at = "forced" /\ tries = 0
<1>1. /\ stack \in [Idx -> Kinds] /\ step.at = "forced" /\ tries = 0
      /\ plan = [type |-> [i \in Idx |-> "invalid"], client |-> NoComposition,
                 exynos |-> NoComposition, m2m |-> FALSE, owner |-> [o \in Otfs |-> Free],
                 g2d |-> {}, reserved |-> FALSE, windows |-> 0, ret |-> "ok",
                 window |-> [s \in Sources |-> -1]]
  BY DEF ResourceInit, At
<1>2. NoComposition \in Compositions /\ NoComposition.has = FALSE
  BY DEF NoComposition, Compositions, NoOtf
<1>3. plan \in Plans
  <2>1. [i \in Idx |-> "invalid"] \in [Idx -> Types] /\ [o \in Otfs |-> Free] \in [Otfs -> Int]
        /\ [s \in Sources |-> -1] \in [Sources -> Int] /\ {} \in SUBSET Idx /\ "ok" \in Results
    BY FreeIsNoLayer DEF Types, Results
  <2> QED BY <1>1, <1>2, <2>1 DEF Plans
<1>4. ClientLayers(plan) = {} /\ ExynosLayers(plan) = {}
  BY <1>1 DEF ClientLayers, ExynosLayers
<1>5. plan.client.has = FALSE /\ plan.exynos.has = FALSE /\ plan.reserved = FALSE /\ plan.ret = "ok"
      /\ \A o \in Otfs : plan.owner[o] = Free
  BY <1>1, <1>2
<1>6. Base(plan)
  BY <1>3, <1>4, <1>5, FreeIsNoLayer DEF Base, ClientOk, G2dOk, OwnersOk, InPlace
<1> QED BY <1>1, <1>4, <1>5, <1>6 DEF Unused, Settled

\* The measure does not depend on the stack.
LEMMA PrimedTries == TriesAt(plan, step, tries)' <=> TriesAt(plan', step', tries')
BY DEF TriesAt, MostTries, Left, Unplaced, NotClient, ClientLayers, ExynosLayers

\* The stack is SurfaceFlinger's.
LEMMA StackStays == ASSUME ResourceNext PROVE stack' = stack
BY DEF ResourceNext, AddForced, StartPass, AssignLayer, LevelDone, AssignExynosTarget,
       SetResourcePriority, UpdateExynosComposition, ClientUp, ClientDown, AssignWindow, Continue

\* Every step of the assignment.
LEMMA EveryStep ==
  ASSUME Plain, PlanAt(plan, step), ResourceNext
  PROVE  /\ PlanAt(plan', step')
         /\ TriesSuffice /\ TriesAt(plan, step, tries) => TriesAt(plan', step', tries')
<1>1. CASE AddForced                BY <1>1, ForcedStep
<1>2. CASE StartPass                BY <1>2, PassStep
<1>3. CASE AssignLayer              BY <1>3, LayerStep
<1>4. CASE LevelDone                BY <1>4, LevelStep
<1>5. CASE AssignExynosTarget       BY <1>5, TargetStep
<1>6. CASE SetResourcePriority      BY <1>6, PriorityStep
<1>7. CASE UpdateExynosComposition  BY <1>7, UpdateStep
<1>8. CASE ClientUp                 BY <1>8, UpStep
<1>9. CASE ClientDown               BY <1>9, DownStep
<1>10. CASE AssignWindow            BY <1>10, WindowStep
<1> QED BY <1>1, <1>2, <1>3, <1>4, <1>5, <1>6, <1>7, <1>8, <1>9, <1>10 DEF ResourceNext

\* The invariants hold at first,
LEMMA FirstInv == ResourceInit => ResourceInv /\ TriesInv
<1> SUFFICES ASSUME ResourceInit PROVE ResourceInv /\ TriesInv
  OBVIOUS
<1>1. stack \in [Idx -> Kinds] /\ Unused(plan) /\ step.at = "forced" /\ tries = 0
  BY FirstPlan
<1>2. PlanAt(plan, step)
  BY <1>1 DEF PlanAt
<1>3. TriesAt(plan, step, tries)
  BY <1>1, IdxNat DEF TriesAt, MostTries
<1> QED BY <1>1, <1>2, <1>3 DEF ResourceInv, TriesInv

\* are kept by every step,
LEMMA NextInv == ResourceInv /\ [ResourceNext]_resourceVars => ResourceInv'
<1> SUFFICES ASSUME ResourceInv, [ResourceNext]_resourceVars PROVE ResourceInv'
  OBVIOUS
<1>1. stack' = stack
  BY StackStays DEF resourceVars
<1>2. ASSUME Plain PROVE PlanAt(plan', step')
  <2>1. PlanAt(plan, step)
    BY <1>2 DEF ResourceInv
  <2>2. CASE ResourceNext
    BY <1>2, <2>1, <2>2, EveryStep
  <2>3. CASE UNCHANGED resourceVars
    <3>1. plan' = plan /\ step' = step
      BY <2>3 DEF resourceVars
    <3> QED BY <2>1, <3>1
  <2> QED BY <2>2, <2>3
<1>3. Plain' => PlanAt(plan, step)'
  BY <1>1, <1>2, PrimedStack, PrimedPlan
<1>4. (stack \in [Idx -> Kinds])'
  BY <1>1 DEF ResourceInv
<1> QED BY <1>3, <1>4 DEF ResourceInv

\* the second one if the tries suffice,
LEMMA NextTries ==
  TriesSuffice /\ ResourceInv /\ TriesInv /\ [ResourceNext]_resourceVars => TriesInv'
<1> SUFFICES ASSUME TriesSuffice, ResourceInv, TriesInv, [ResourceNext]_resourceVars PROVE TriesInv'
  OBVIOUS
<1>1. stack' = stack
  BY StackStays DEF resourceVars
<1>2. ASSUME Plain PROVE TriesAt(plan', step', tries')
  <2>1. PlanAt(plan, step) /\ TriesAt(plan, step, tries)
    BY <1>2 DEF ResourceInv, TriesInv
  <2>2. CASE ResourceNext
    BY <1>2, <2>1, <2>2, EveryStep
  <2>3. CASE UNCHANGED resourceVars
    <3>1. plan' = plan /\ step' = step /\ tries' = tries
      BY <2>3 DEF resourceVars
    <3> QED BY <2>1, <3>1
  <2> QED BY <2>2, <2>3
<1>3. Plain' => TriesAt(plan, step, tries)'
  BY <1>1, <1>2, PrimedStack, PrimedTries
<1> QED BY <1>3 DEF TriesInv

\* hold of the stacks that the properties are about,
LEMMA NoneHighOnG2d == ASSUME stack \in [Idx -> Kinds], HighOnG2d = {} PROVE Plain
<1> SUFFICES ASSUME NEW i \in Idx, IsHigh(i) PROVE stack[i].g2d = FALSE
  BY DEF Plain
<1>1. ~stack[i].g2d
  BY DEF HighOnG2d
<1>2. stack[i].g2d \in BOOLEAN
  <2>1. stack[i] \in Kinds
    OBVIOUS
  <2> QED BY <2>1, ResourceAssumption
<1> QED BY <1>1, <1>2

\* and imply them.
LEMMA InvShown == ResourceInv => StackIsShown
<1> SUFFICES ASSUME ResourceInv, step.at = "done", HighOnG2d = {} PROVE StackIsShown
  BY DEF StackIsShown, EveryLayerShown, StackKept
<1>1. ShownAtEnd(plan)
  BY NoneHighOnG2d DEF ResourceInv, PlanAt
<1>2. Covered(plan) /\ OwnersShown(plan) /\ plan \in Plans
  BY <1>1 DEF ShownAtEnd, Shown
<1>3. ASSUME NEW i \in Idx
      PROVE  \/ plan.type[i] = "device" /\ \E o \in Otfs : plan.owner[o] = i
             \/ /\ plan.type[i] = "client" /\ InRange(plan.client, i)
                /\ OnChannelOf(plan.client, ClientTarget)
             \/ /\ plan.type[i] = "exynos" /\ InRange(plan.exynos, i)
                /\ OnChannelOf(plan.exynos, ExynosTarget) /\ plan.m2m /\ i \in plan.g2d
  BY <1>2 DEF Covered, OnOwn, InClient, InExynos, Holds, InRange, OnChannelOf
<1>4. ASSUME NEW o \in Otfs, plan.owner[o] # Free PROVE ShownBy(o, plan.owner[o])
  <2>1. /\ plan.owner[o] \in Idx \union {ClientTarget, ExynosTarget}
        /\ plan.owner[o] \in Idx => plan.type[plan.owner[o]] = "device"
        /\ plan.owner[o] = ClientTarget => plan.client.has = TRUE /\ plan.client.otf = o
        /\ plan.owner[o] = ExynosTarget => plan.exynos.has = TRUE /\ plan.exynos.otf = o
    BY <1>2, <1>4 DEF OwnersShown
  <2>2. CASE plan.owner[o] = ClientTarget
    BY <2>1, <2>2 DEF ShownBy
  <2>3. CASE plan.owner[o] = ExynosTarget
    BY <2>1, <2>3, FreeIsNoLayer DEF ShownBy
  <2>4. CASE plan.owner[o] \in Idx
    BY <2>1, <2>4, FreeIsNoLayer DEF ShownBy
  <2> QED BY <2>1, <2>2, <2>3, <2>4
<1>5. EveryLayerShown
  BY <1>3, <1>4 DEF EveryLayerShown
<1>6. StackKept
  BY <1>1 DEF ShownAtEnd, StackKept
<1> QED BY <1>5, <1>6 DEF StackIsShown

\* That the assignment ends follows from the second one.
LEMMA InvEnds == ResourceInv /\ TriesInv => AssignmentEnds
BY NoneHighOnG2d DEF ResourceInv, TriesInv, TriesAt, AssignmentEnds

\* After the assignment every layer is shown, by a channel or a composition that has one, no channel
\* is held for nothing, and every source has a window, in the order of the stack; for any layers,
\* channels and sources of the G2D, without a hypothesis.
THEOREM EveryStackIsShown == ResourceSpec => []StackIsShown
<1>1. ResourceInit => ResourceInv
  BY FirstInv
<1> QED BY <1>1, NextInv, InvShown, PTL DEF ResourceSpec

\* If the tries are more than two for each layer and three (ASSIGN_RESOURCE_TRY_COUNT is 100), the
\* assignment ends without an error, unless a layer of high priority may go to the G2D.
THEOREM TheAssignmentEnds ==
  ASSUME TryCount > 2 * LayerCount + 3
  PROVE  ResourceSpec => []AssignmentEnds
<1>1. ResourceInit => ResourceInv /\ TriesInv
  BY FirstInv
<1>2. ResourceInv /\ TriesInv /\ [ResourceNext]_resourceVars => ResourceInv' /\ TriesInv'
  <2>1. TriesSuffice
    BY DEF TriesSuffice, MostTries
  <2> QED BY <2>1, NextInv, NextTries
<1> QED BY <1>1, <1>2, InvEnds, PTL DEF ResourceSpec
==============================================================================
