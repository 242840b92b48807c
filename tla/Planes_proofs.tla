---------------------------- MODULE Planes_proofs ----------------------------
(***************************************************************************)
(* What is proved of the way a frame takes to the panel: of the            *)
(* framebuffers that commits name, of the partial update of the panel, of  *)
(* the frames that a memory-to-memory compositor makes for two displays,   *)
(* and of the windows that the planes are given.  The four components      *)
(* share no variable.                                                      *)
(***************************************************************************)
EXTENDS FramebufferCache, WindowUpdate, M2mComposition, WindowGeometry,
        FiniteSetTheorems, TLAPS

USE DEF cacheVars

-----------------------------------------------------------------------------
(* The framebuffers.                                                       *)

(* Every framebuffer has one holder: a list of a layer, mCleanBuffers or   *)
(* the thread that removes it; all are the kernel's.                       *)
HeldInv ==
  /\ \A s, t \in Kinds, k, m \in Keys : <<s, k>> # <<t, m>> => ListOf(s, k) \intersect ListOf(t, m) = {}
  /\ \A s \in Kinds, k \in Keys : ListOf(s, k) \intersect (clean \union remover.fbs) = {}
  /\ \A s \in Kinds, k \in Keys : ListOf(s, k) \subseteq DOMAIN bufOf
  /\ clean \intersect remover.fbs = {}
  /\ clean \union remover.fbs \subseteq DOMAIN bufOf

CommitWindows == CachedLayers \union TargetWindows

(* What a commit names is in the list of its window's entry, unless it     *)
(* went with a full list; only lists of the targets change behind a commit *)
(* that is being built.                                                    *)
CommitInv ==
  /\ DOMAIN commit.fb \subseteq CommitWindows /\ commit.spilled \subseteq TargetWindows
  /\ \A w \in DOMAIN commit.fb \ commit.spilled : \E s \in Kinds : commit.fb[w] \in ListOf(s, KeyOf(w))
  /\ commit.open => powered
  /\ ~commit.open => DOMAIN commit.fb = {}

IsCommit(c) == c = [open |-> c.open, fb |-> c.fb, secure |-> c.secure, spilled |-> c.spilled]

CacheType ==
  /\ DOMAIN cached = Kinds /\ \A s \in Kinds : DOMAIN cached[s] \subseteq Keys
  /\ remover.at # "remove" => remover.fbs = {}
  /\ remover = [at |-> remover.at, fbs |-> remover.fbs]
  /\ IsCommit(commit)
  /\ exists \subseteq CachedLayers

CacheInv == CacheType /\ HeldInv /\ CommitInv

LEMMA WithoutFacts ==
  ASSUME NEW f, NEW S
  PROVE  /\ DOMAIN Without(f, S) = DOMAIN f \ S
         /\ \A x \in DOMAIN f \ S : Without(f, S)[x] = f[x]
BY DEF Without

LEMMA WithFacts ==
  ASSUME NEW f, NEW k, NEW v
  PROVE  /\ DOMAIN With(f, k, v) = DOMAIN f \union {k}
         /\ \A x \in DOMAIN f \union {k} : With(f, k, v)[x] = IF x = k THEN v ELSE f[x]
BY DEF With

(* Windows that share an entry are targets, or the same window.            *)
LEMMA KeyFacts ==
  ASSUME CacheAssumption
  PROVE  /\ \A w \in CommitWindows : KeyOf(w) \in Keys
         /\ \A w, v \in CommitWindows : KeyOf(w) = KeyOf(v) /\ w # v => w \in TargetWindows
BY DEF CacheAssumption, CommitWindows, KeyOf, Keys

LEMMA SecureKind ==
  ASSUME NEW b
  PROVE  Secure(b) \in Kinds
<1>1. CASE Secure(b) = TRUE
  BY <1>1 DEF Kinds
<1>2. CASE Secure(b) = FALSE
  BY <1>2 DEF Kinds
<1>3. Secure(b) = TRUE \/ Secure(b) = FALSE
  BY DEF Secure
<1> QED  BY <1>1, <1>2, <1>3

LEMMA InLists ==
  ASSUME CacheType, NEW s \in Kinds
  PROVE  \A x : x \in UNION Images(cached[s]) <=> \E k \in Keys : x \in ListOf(s, k)
BY DEF CacheType, Images, ListOf

(* Lists are dropped or cut: what they lose is removed or waits for it.    *)
LEMMA DropKeepsCache ==
  ASSUME CacheInv, CacheType', CommitInv', UNCHANGED bufOf, remover'.fbs = remover.fbs,
         clean \subseteq clean',
         \A s \in Kinds, k \in Keys : ListOf(s, k)' \subseteq ListOf(s, k),
         \A x \in clean' \ clean : \E s \in Kinds, k \in Keys : x \in ListOf(s, k) /\ x \notin ListOf(s, k)'
  PROVE  CacheInv'
<1> USE DEF CacheInv, HeldInv
<1>1. \A s, t \in Kinds, k, m \in Keys : <<s, k>> # <<t, m>> => (ListOf(s, k) \intersect ListOf(t, m) = {})'
  OBVIOUS
<1>2. \A s \in Kinds, k \in Keys : (ListOf(s, k) \intersect (clean \union remover.fbs) = {})'
  OBVIOUS
<1>3. (clean \intersect remover.fbs = {} /\ clean \union remover.fbs \subseteq DOMAIN bufOf)'
  OBVIOUS
<1>4. \A s \in Kinds, k \in Keys : (ListOf(s, k) \subseteq DOMAIN bufOf)'
  OBVIOUS
<1> QED  BY <1>1, <1>2, <1>3, <1>4

LEMMA BuildKeepsCache ==
  ASSUME CacheInv, CacheAssumption, NEW window \in CommitWindows, NEW buf \in Bufs, GetBuffer(window, buf)
  PROVE  CacheInv'
<1> USE DEF CacheInv
<1> DEFINE key == KeyOf(window)
           s0 == Secure(buf)
           list == ListOf(s0, key)
           over == Cardinality(list) > Limit(s0)
           kept == AfterOverflow(list, s0)
<1>1. PICK fb \in Fbs \ DOMAIN bufOf :
        /\ bufOf' = With(bufOf, fb, buf)
        /\ cached' = [cached EXCEPT ![s0] = With(@, key, kept \union {fb})]
        /\ commit' = [commit EXCEPT !.fb = With(@, window, fb), !.secure = @ \/ s0,
                                    !.spilled = @ \union WindowsOf(IF over THEN list ELSE {})]
  BY DEF GetBuffer
<1>2. /\ clean' = clean \union (IF over THEN list ELSE {}) /\ commit.open /\ window \notin DOMAIN commit.fb
      /\ UNCHANGED <<exists, remover, powered>>
  BY DEF GetBuffer
<1>3. s0 \in Kinds /\ key \in Keys
  BY SecureKind, KeyFacts
<1>4. kept = IF over THEN {} ELSE list
  BY DEF AfterOverflow
<1>5. DOMAIN bufOf' = DOMAIN bufOf \union {fb}
  BY <1>1, WithFacts
<1> HIDE DEF kept, over, s0, key
<1>6. /\ DOMAIN cached' = Kinds
      /\ \A s \in Kinds : cached'[s] = IF s = s0 THEN With(cached[s0], key, kept \union {fb}) ELSE cached[s]
  BY <1>1, <1>3 DEF CacheType
<1>7. /\ DOMAIN cached'[s0] = DOMAIN cached[s0] \union {key}
      /\ \A m \in DOMAIN cached[s0] \union {key} : cached'[s0][m] = IF m = key THEN kept \union {fb} ELSE cached[s0][m]
  BY <1>3, <1>6 DEF With
<1>8. \A s \in Kinds, m \in Keys :
        ListOf(s, m)' = IF s = s0 /\ m = key THEN kept \union {fb} ELSE ListOf(s, m)
  <2> SUFFICES ASSUME NEW s \in Kinds, NEW m \in Keys
               PROVE  ListOf(s, m)' = IF s = s0 /\ m = key THEN kept \union {fb} ELSE ListOf(s, m)
    OBVIOUS
  <2>1. CASE s # s0
    BY <1>6, <2>1 DEF ListOf
  <2>2. CASE s = s0
    BY <1>7, <2>2 DEF ListOf
  <2> QED  BY <2>1, <2>2
<1>9. CacheType'
  <2>1. IsCommit(commit)'
    BY <1>1 DEF CacheType, IsCommit
  <2>2. \A s \in Kinds : DOMAIN cached'[s] \subseteq Keys
    BY <1>3, <1>6, <1>7 DEF CacheType
  <2> QED  BY <1>2, <1>6, <2>1, <2>2 DEF CacheType
<1>10. \A s \in Kinds, k \in Keys : fb \notin ListOf(s, k)
  BY DEF HeldInv
<1>11. fb \notin clean \union remover.fbs
  BY DEF HeldInv
<1>12. list = ListOf(s0, key) /\ kept \subseteq list /\ (over => kept = {})
  BY <1>4
<1> HIDE DEF list
<1>13. HeldInv'
  <2>1. \A s, t \in Kinds, k, m \in Keys : <<s, k>> # <<t, m>> => (ListOf(s, k) \intersect ListOf(t, m) = {})'
    BY <1>8, <1>10, <1>12 DEF HeldInv
  <2>2. \A s \in Kinds, k \in Keys : (ListOf(s, k) \intersect (clean \union remover.fbs) = {})'
    <3> SUFFICES ASSUME NEW s \in Kinds, NEW k \in Keys, NEW x \in ListOf(s, k)',
                        x \in clean' \union remover'.fbs
                 PROVE  FALSE
      OBVIOUS
    <3>1. x # fb
      BY <1>2, <1>3, <1>10, <1>11, <1>12
    <3>2. x \in ListOf(s, k)
      BY <1>8, <1>12, <3>1
    <3>3. x \notin clean /\ x \notin remover.fbs
      BY <3>2 DEF HeldInv
    <3>4. over /\ x \in list
      BY <1>2, <3>3
    <3>5. s = s0 /\ k = key
      BY <1>3, <1>12, <3>2, <3>4 DEF HeldInv
    <3> QED  BY <1>8, <1>12, <3>1, <3>4, <3>5
  <2>3. \A s \in Kinds, k \in Keys : (ListOf(s, k) \subseteq DOMAIN bufOf)'
    BY <1>5, <1>8, <1>12 DEF HeldInv
  <2>4. (clean \intersect remover.fbs = {} /\ clean \union remover.fbs \subseteq DOMAIN bufOf)'
    BY <1>2, <1>3, <1>5, <1>12 DEF HeldInv
  <2> QED  BY <2>1, <2>2, <2>3, <2>4 DEF HeldInv
<1>14. CommitInv'
  <2> DEFINE went == IF over THEN list ELSE {}
  <2>1. commit'.open = commit.open /\ commit'.fb = With(commit.fb, window, fb)
        /\ commit'.spilled = commit.spilled \union WindowsOf(went)
    BY <1>1 DEF CacheType, IsCommit
  <2>2. /\ DOMAIN commit'.fb = DOMAIN commit.fb \union {window}
        /\ \A w \in DOMAIN commit'.fb : commit'.fb[w] = IF w = window THEN fb ELSE commit.fb[w]
    BY <2>1 DEF With
  <2>3. ASSUME NEW w \in DOMAIN commit'.fb \ commit'.spilled
        PROVE  \E s \in Kinds : commit'.fb[w] \in ListOf(s, KeyOf(w))'
    <3>1. CASE w = window
      BY <1>3, <1>8, <2>2, <3>1 DEF key
    <3>2. CASE w # window
      <4>1. w \in DOMAIN commit.fb \ commit.spilled /\ commit'.fb[w] = commit.fb[w] /\ commit.fb[w] \notin went
        BY <2>1, <2>2, <3>2 DEF WindowsOf
      <4>2. PICK s \in Kinds : commit.fb[w] \in ListOf(s, KeyOf(w))
        BY <4>1 DEF CommitInv
      <4>3. w \in CommitWindows /\ KeyOf(w) \in Keys
        BY <4>1, KeyFacts DEF CommitInv
      <4>4. CASE s = s0 /\ KeyOf(w) = key
        <5>1. commit.fb[w] \in list /\ ~over
          BY <1>12, <4>1, <4>2, <4>4
        <5>2. kept = list
          BY <1>4, <5>1
        <5> QED  BY <1>3, <1>8, <4>1, <4>3, <4>4, <5>1, <5>2
      <4>5. CASE ~(s = s0 /\ KeyOf(w) = key)
        BY <1>8, <4>1, <4>2, <4>3, <4>5
      <4> QED  BY <4>4, <4>5
    <3> QED  BY <3>1, <3>2
  <2>4. commit'.spilled \subseteq TargetWindows
    <3> SUFFICES ASSUME NEW w \in WindowsOf(went), w \notin commit.spilled PROVE w \in TargetWindows
      BY <2>1 DEF CommitInv
    <3>1. w \in DOMAIN commit.fb /\ commit.fb[w] \in list
      BY DEF WindowsOf
    <3>2. PICK s \in Kinds : commit.fb[w] \in ListOf(s, KeyOf(w))
      BY <3>1 DEF CommitInv
    <3>3. w \in CommitWindows /\ KeyOf(w) \in Keys /\ w # window
      BY <1>2, <3>1, KeyFacts DEF CommitInv
    <3>4. KeyOf(w) = key
      BY <1>3, <1>12, <3>1, <3>2, <3>3 DEF HeldInv
    <3> QED  BY <3>3, <3>4, KeyFacts DEF key
  <2>5. DOMAIN commit'.fb \subseteq CommitWindows
    BY <2>2 DEF CommitInv
  <2> QED  BY <1>2, <2>1, <2>3, <2>4, <2>5 DEF CommitInv
<1> QED  BY <1>9, <1>13, <1>14

LEMMA FindKeepsCache ==
  ASSUME CacheInv, NEW window \in CommitWindows, NEW buf \in Bufs, FindCached(window, buf)
  PROVE  CacheInv'
<1> USE DEF CacheInv
<1>1. PICK fb \in ListOf(Secure(buf), KeyOf(window)) :
        commit' = [commit EXCEPT !.fb = With(@, window, fb), !.secure = @ \/ Secure(buf)]
  BY DEF FindCached
<1>2. UNCHANGED <<exists, bufOf, cached, clean, remover, powered>> /\ commit.open /\ Secure(buf) \in Kinds
  BY SecureKind DEF FindCached
<1>3. \A s, m : ListOf(s, m)' = ListOf(s, m)
  BY <1>2 DEF ListOf
<1>4. HeldInv'
  BY <1>2, <1>3 DEF HeldInv
<1>5. CacheType'
  BY <1>1, <1>2 DEF CacheType, IsCommit
<1>6. CommitInv'
  <2>1. commit'.open = commit.open /\ commit'.fb = With(commit.fb, window, fb) /\ commit'.spilled = commit.spilled
    BY <1>1 DEF CacheType, IsCommit
  <2>2. /\ DOMAIN commit'.fb = DOMAIN commit.fb \union {window}
        /\ \A w \in DOMAIN commit'.fb : commit'.fb[w] = IF w = window THEN fb ELSE commit.fb[w]
    BY <2>1 DEF With
  <2> QED  BY <1>2, <1>3, <2>1, <2>2 DEF CommitInv
<1> QED  BY <1>4, <1>5, <1>6

(* The commit is over, and nothing else about it matters.                  *)
LEMMA NoCommitFacts ==
  ASSUME commit' = NoCommit
  PROVE  CommitInv' /\ IsCommit(commit)'
BY DEF NoCommit, CommitInv, IsCommit

LEMMA SignalFacts ==
  ASSUME CacheType, Signal \/ UNCHANGED remover
  PROVE  /\ remover'.fbs = remover.fbs /\ (remover'.at # "remove" => remover'.fbs = {})
         /\ remover' = [at |-> remover'.at, fbs |-> remover'.fbs]
BY DEF CacheType, Signal

LEMMA ShowKeepsCache ==
  ASSUME CacheInv, CommitAndFlip
  PROVE  CacheInv'
<1> USE DEF CacheInv
<1> DEFINE gone == [s \in Kinds |-> IF s /\ SecureLists = <<>> THEN DOMAIN cached[TRUE] ELSE Unused(s)]
<1>1. /\ cached' = [s \in Kinds |-> IF s THEN SecureLists ELSE Without(cached[FALSE], Unused(FALSE))]
      /\ clean' = clean \union UNION {UNION {cached[s][k] : k \in gone[s]} : s \in Kinds}
      /\ commit' = NoCommit /\ UNCHANGED <<exists, bufOf, powered>>
      /\ Signal \/ UNCHANGED remover
  BY DEF CommitAndFlip
<1>2. \A s \in Kinds : gone[s] \subseteq DOMAIN cached[s]
  BY DEF Unused, Kinds
<1>3. \A s \in Kinds : /\ DOMAIN cached'[s] = DOMAIN cached[s] \ gone[s]
                       /\ \A k \in DOMAIN cached'[s] : cached'[s][k] = cached[s][k]
  <2>1. DOMAIN cached'[FALSE] = DOMAIN cached[FALSE] \ Unused(FALSE)
        /\ \A k \in DOMAIN cached'[FALSE] : cached'[FALSE][k] = cached[FALSE][k]
    BY <1>1 DEF Kinds, Without
  <2>2. cached'[TRUE] = SecureLists
    BY <1>1 DEF Kinds
  <2>3. CASE SecureLists = <<>>
    <3>1. DOMAIN cached'[TRUE] = {}
      BY <2>2, <2>3
    <3>2. gone[TRUE] = DOMAIN cached[TRUE] /\ gone[FALSE] = Unused(FALSE)
      BY <2>3 DEF Kinds
    <3> QED  BY <2>1, <3>1, <3>2 DEF Kinds
  <2>4. CASE SecureLists # <<>>
    <3>1. cached'[TRUE] = Without(cached[TRUE], Unused(TRUE))
      BY <2>2, <2>4 DEF SecureLists
    <3> QED  BY <2>1, <2>4, <3>1 DEF Kinds, Without
  <2> QED  BY <2>3, <2>4
<1>4. DOMAIN cached' = Kinds
  BY <1>1
<1> HIDE DEF gone
<1>5. CacheType' /\ CommitInv' /\ remover'.fbs = remover.fbs
  <2>1. CommitInv' /\ IsCommit(commit)'
    BY <1>1, NoCommitFacts
  <2>2. /\ remover'.fbs = remover.fbs /\ (remover'.at # "remove" => remover'.fbs = {})
        /\ remover' = [at |-> remover'.at, fbs |-> remover'.fbs]
    BY <1>1, SignalFacts
  <2>3. \A s \in Kinds : DOMAIN cached'[s] \subseteq Keys
    BY <1>3 DEF CacheType
  <2> QED  BY <1>1, <1>4, <2>1, <2>2, <2>3 DEF CacheType
<1>6. \A s \in Kinds, k \in Keys : ListOf(s, k)' = IF k \in gone[s] THEN {} ELSE ListOf(s, k)
  BY <1>3 DEF ListOf
<1>7. \A x \in clean' \ clean : \E s \in Kinds, k \in Keys : x \in ListOf(s, k) /\ x \notin ListOf(s, k)'
  <2> SUFFICES ASSUME NEW x \in clean', x \notin clean
               PROVE  \E s \in Kinds, k \in Keys : x \in ListOf(s, k) /\ x \notin ListOf(s, k)'
    OBVIOUS
  <2>1. PICK s \in Kinds : x \in UNION {cached[s][k] : k \in gone[s]}
    BY <1>1
  <2>2. PICK k \in gone[s] : x \in cached[s][k]
    BY <2>1
  <2>3. k \in DOMAIN cached[s] /\ k \in Keys
    BY <1>2 DEF CacheType
  <2> QED  BY <1>6, <2>2, <2>3 DEF ListOf
<1> QED  BY <1>1, <1>5, <1>6, <1>7, DropKeepsCache

LEMMA DestroyKeepsCache ==
  ASSUME CacheInv, NEW key \in CachedLayers, DestroyLayer(key)
  PROVE  CacheInv'
<1> USE DEF CacheInv
<1>1. /\ clean' = clean \union ListOf(TRUE, key) \union ListOf(FALSE, key)
      /\ cached' = [s \in Kinds |-> Without(cached[s], {key})] /\ exists' = exists \ {key}
      /\ UNCHANGED <<bufOf, remover, commit, powered>> /\ ~commit.open
  BY DEF DestroyLayer, ForgetLayer
<1>2. key \in Keys /\ TRUE \in Kinds /\ FALSE \in Kinds
  BY DEF Keys, Kinds
<1>3. \A s \in Kinds : /\ DOMAIN cached'[s] = DOMAIN cached[s] \ {key}
                       /\ \A k \in DOMAIN cached'[s] : cached'[s][k] = cached[s][k]
  BY <1>1 DEF Without
<1>4. \A s \in Kinds, k \in Keys : ListOf(s, k)' = IF k = key THEN {} ELSE ListOf(s, k)
  BY <1>3 DEF ListOf
<1>5. CommitInv'
  BY <1>1 DEF CommitInv
<1>6. CacheType'
  BY <1>1, <1>3 DEF CacheType
<1> QED  BY <1>1, <1>2, <1>4, <1>5, <1>6, DropKeepsCache

LEMMA UncacheKeepsCache ==
  ASSUME CacheInv, NEW key \in Keys, NEW buf \in Bufs, Uncache(key, buf)
  PROVE  CacheInv'
<1> USE DEF CacheInv
<1> DEFINE s0 == Secure(buf)
           dropped == {fb \in ListOf(s0, key) : bufOf[fb] = buf}
<1>1. /\ dropped # {} /\ ~powered /\ clean' = clean \union dropped /\ Signal
      /\ cached' = [cached EXCEPT ![s0][key] = @ \ dropped]
      /\ UNCHANGED <<exists, bufOf, commit, powered>>
  BY DEF Uncache
<1>2. s0 \in Kinds
  BY SecureKind
<1>3. key \in DOMAIN cached[s0] /\ dropped \subseteq ListOf(s0, key)
  BY <1>1 DEF ListOf
<1> HIDE DEF dropped, s0
<1>4. /\ DOMAIN cached' = Kinds
      /\ \A s \in Kinds : /\ DOMAIN cached'[s] = DOMAIN cached[s]
                          /\ \A k \in DOMAIN cached[s] :
                               cached'[s][k] = IF s = s0 /\ k = key THEN cached[s0][key] \ dropped ELSE cached[s][k]
  BY <1>1, <1>2, <1>3 DEF CacheType
<1>5. \A s \in Kinds, k \in Keys :
        ListOf(s, k)' = IF s = s0 /\ k = key THEN ListOf(s0, key) \ dropped ELSE ListOf(s, k)
  BY <1>3, <1>4 DEF ListOf
<1>6. ~commit.open
  BY <1>1 DEF CommitInv
<1>7. CommitInv'
  BY <1>1, <1>6 DEF CommitInv
<1>8. /\ remover'.fbs = remover.fbs /\ (remover'.at # "remove" => remover'.fbs = {})
      /\ remover' = [at |-> remover'.at, fbs |-> remover'.fbs]
  BY <1>1, SignalFacts
<1>9. CacheType'
  BY <1>1, <1>4, <1>8 DEF CacheType
<1>10. \A x \in clean' \ clean : \E s \in Kinds, k \in Keys : x \in ListOf(s, k) /\ x \notin ListOf(s, k)'
  BY <1>1, <1>2, <1>3, <1>5
<1> QED  BY <1>1, <1>5, <1>7, <1>8, <1>9, <1>10, DropKeepsCache

LEMMA PowerOffKeepsCache ==
  ASSUME CacheInv, PowerOffPlanes
  PROVE  CacheInv'
<1> USE DEF CacheInv
<1>1. /\ clean' = clean \union UNION Images(cached[TRUE]) /\ (Signal \/ UNCHANGED remover)
      /\ cached' = [cached EXCEPT ![TRUE] = <<>>]
      /\ UNCHANGED <<exists, bufOf, commit>> /\ ~commit.open
  BY DEF PowerOffPlanes, ClearPlanes
<1>2. TRUE \in Kinds
  BY DEF Kinds
<1>3. /\ DOMAIN cached' = Kinds /\ cached'[TRUE] = <<>>
      /\ \A s \in Kinds : s # TRUE => cached'[s] = cached[s]
  BY <1>1, <1>2 DEF CacheType
<1>4. DOMAIN cached'[TRUE] = {}
  BY <1>3
<1>5. \A s \in Kinds, k \in Keys : ListOf(s, k)' = IF s = TRUE THEN {} ELSE ListOf(s, k)
  BY <1>3, <1>4 DEF ListOf
<1>6. CommitInv'
  BY <1>1 DEF CommitInv
<1>7. /\ remover'.fbs = remover.fbs /\ (remover'.at # "remove" => remover'.fbs = {})
      /\ remover' = [at |-> remover'.at, fbs |-> remover'.fbs]
  BY <1>1, SignalFacts
<1>8. CacheType'
  BY <1>1, <1>3, <1>4, <1>7 DEF CacheType
<1>9. \A x \in clean' \ clean : \E s \in Kinds, k \in Keys : x \in ListOf(s, k) /\ x \notin ListOf(s, k)'
  BY <1>1, <1>2, <1>5, InLists
<1> QED  BY <1>1, <1>5, <1>6, <1>7, <1>8, <1>9, DropKeepsCache

LEMMA FailureKeepsCache ==
  ASSUME CacheInv, FrameFails
  PROVE  CacheInv'
<1> USE DEF CacheInv
<1>1. commit' = NoCommit /\ UNCHANGED <<exists, remover, powered>>
  BY DEF FrameFails
<1>2. CASE UNCHANGED <<bufOf, cached, clean>>
  <2>1. \A s, k : ListOf(s, k)' = ListOf(s, k)
    BY <1>2 DEF ListOf
  <2> QED  BY <1>1, <1>2, <2>1, NoCommitFacts DEF CacheType, HeldInv
<1>3. CASE ~UNCHANGED <<bufOf, cached, clean>>
  <2> DEFINE all == clean \union UNION {UNION Images(cached[s]) : s \in Kinds}
  <2>1. RemoveFramebuffers(all) /\ cached' = EmptyCache /\ clean' = {}
    BY <1>3 DEF FrameFails, ClearPlanes
  <2>2. DOMAIN bufOf' = DOMAIN bufOf \ all
    BY <2>1 DEF RemoveFramebuffers, Without
  <2>3. all \intersect remover.fbs = {}
    <3> SUFFICES ASSUME NEW x \in all, x \in remover.fbs PROVE FALSE
      OBVIOUS
    <3>1. x \notin clean
      BY DEF HeldInv
    <3>2. PICK s \in Kinds : x \in UNION Images(cached[s])
      BY <3>1
    <3>3. PICK k \in Keys : x \in ListOf(s, k)
      BY <3>2, InLists
    <3> QED  BY <3>3 DEF HeldInv
  <2> HIDE DEF all
  <2>4. DOMAIN cached' = Kinds /\ \A s \in Kinds : DOMAIN cached'[s] = {}
    BY <2>1 DEF EmptyCache
  <2>5. \A s \in Kinds, k \in Keys : ListOf(s, k)' = {}
    BY <2>4 DEF ListOf
  <2>6. HeldInv'
    BY <1>1, <2>1, <2>2, <2>3, <2>5 DEF HeldInv
  <2> QED  BY <1>1, <2>4, <2>6, NoCommitFacts DEF CacheType
<1> QED  BY <1>2, <1>3

LEMMA RemoverKeepsCache ==
  ASSUME CacheInv, RemoverWaits \/ RemoverTakes \/ RemoverRemoves
  PROVE  CacheInv'
<1> USE DEF CacheInv
<1>1. UNCHANGED <<exists, cached, commit, powered>>
  BY DEF RemoverWaits, RemoverTakes, RemoverRemoves
<1>2. \A s, k : ListOf(s, k)' = ListOf(s, k)
  BY <1>1 DEF ListOf
<1>3. CommitInv'
  BY <1>1, <1>2 DEF CommitInv
<1>4. CacheType'
  BY <1>1 DEF CacheType, RemoverWaits, RemoverTakes, RemoverRemoves
<1>5. HeldInv'
  <2>1. CASE RemoverWaits
    BY <1>2, <2>1 DEF RemoverWaits, HeldInv, CacheType
  <2>2. CASE RemoverTakes
    BY <1>2, <2>2 DEF RemoverTakes, HeldInv, CacheType
  <2>3. CASE RemoverRemoves
    <3>1. /\ DOMAIN bufOf' = DOMAIN bufOf \ remover.fbs /\ remover'.fbs = {} /\ UNCHANGED clean
      BY <2>3 DEF RemoverRemoves, RemoveFramebuffers, Without
    <3> QED  BY <1>2, <3>1 DEF HeldInv
  <2> QED  BY <2>1, <2>2, <2>3
<1> QED  BY <1>3, <1>4, <1>5

LEMMA CacheStep ==
  ASSUME CacheAssumption, CacheInv, [CacheNext]_cacheVars
  PROVE  CacheInv'
<1>1. CASE CheckShrink \/ PowerOnPlanes \/ (\E key \in CachedLayers : CreateLayer(key)) \/ UNCHANGED cacheVars
  <2>1. UNCHANGED <<bufOf, cached, clean, remover>> /\ exists' \subseteq CachedLayers
    BY <1>1 DEF CheckShrink, PowerOnPlanes, CreateLayer, CacheInv, CacheType
  <2>2. \A s, k : ListOf(s, k)' = ListOf(s, k)
    BY <2>1 DEF ListOf
  <2>3. CommitInv' /\ IsCommit(commit)'
    <3>1. CASE CheckShrink
      <4>1. commit' = [open |-> TRUE, fb |-> <<>>, secure |-> FALSE, spilled |-> {}] /\ powered' = TRUE
        BY <3>1 DEF CheckShrink, NoCommit, CommitInv
      <4> QED  BY <4>1 DEF CommitInv, IsCommit
    <3>2. CASE PowerOnPlanes \/ (\E key \in CachedLayers : CreateLayer(key)) \/ UNCHANGED cacheVars
      BY <2>2, <3>2 DEF PowerOnPlanes, CreateLayer, CommitInv, CacheInv, CacheType, IsCommit
    <3> QED  BY <1>1, <3>1, <3>2
  <2> QED  BY <2>1, <2>2, <2>3 DEF CacheInv, CacheType, HeldInv
<1>2. /\ \A key \in exists : key \in Keys
      /\ \A window \in exists \union TargetWindows : window \in CommitWindows
  BY DEF CacheInv, CacheType, Keys, CommitWindows
<1> QED
  BY <1>1, <1>2, BuildKeepsCache, FindKeepsCache, UncacheKeepsCache, ShowKeepsCache, DestroyKeepsCache,
     PowerOffKeepsCache, FailureKeepsCache, RemoverKeepsCache DEF CacheNext

(* Whatever the removing thread does meanwhile, a commit names only        *)
(* framebuffers that the kernel has and nobody removes, and none that is   *)
(* cached waits to be removed, except that a target's may go with a list   *)
(* that another target finds full: for every number of layers, buffers and *)
(* targets and every cache limit.                                          *)
THEOREM CommitsAlwaysNameLiveBuffers == CacheSpec => []CommitsNameLiveBuffers
<1>1. CacheInit => CacheInv
  BY DEF CacheInit, CacheInv, CacheType, IsCommit, HeldInv, CommitInv, EmptyCache, NoCommit, ListOf
<1>2. CacheInv /\ [CacheNext]_cacheVars => CacheInv'
  BY CacheStep, CacheAssumption
<1>3. CacheInv => CommitsNameLiveBuffers
  <2> SUFFICES ASSUME CacheInv PROVE CommitsNameLiveBuffers
    OBVIOUS
  <2>1. ASSUME NEW w \in DOMAIN commit.fb \ commit.spilled
        PROVE  commit.fb[w] \in DOMAIN bufOf \ (clean \union remover.fbs)
    <3>1. PICK s \in Kinds : commit.fb[w] \in ListOf(s, KeyOf(w))
      BY DEF CacheInv, CommitInv
    <3>2. KeyOf(w) \in Keys
      BY CacheAssumption, KeyFacts DEF CacheInv, CommitInv
    <3> QED  BY <3>1, <3>2 DEF CacheInv, HeldInv
  <2>3. commit.spilled \subseteq TargetWindows
    BY DEF CacheInv, CommitInv
  <2>2. \A s \in Kinds : UNION Images(cached[s]) \subseteq DOMAIN bufOf \ (clean \union remover.fbs)
    <3> SUFFICES ASSUME NEW s \in Kinds, NEW x \in UNION Images(cached[s])
                 PROVE  x \in DOMAIN bufOf \ (clean \union remover.fbs)
      OBVIOUS
    <3>1. PICK k \in Keys : x \in ListOf(s, k)
      BY InLists DEF CacheInv
    <3> QED  BY <3>1 DEF CacheInv, HeldInv
  <2> QED  BY <2>1, <2>2, <2>3 DEF CommitsNameLiveBuffers
<1> QED  BY <1>1, <1>2, <1>3, PTL DEF CacheSpec

-----------------------------------------------------------------------------
(* The partial update.                                                     *)

(* A finite set of integers has a greatest and a least element: otherwise  *)
(* a smallest subset without one could be made smaller.                    *)
LEMMA Extremes ==
  ASSUME NEW S \in SUBSET Int, IsFiniteSet(S), S # {}
  PROVE  /\ \E x \in S : \A y \in S : x >= y
         /\ \E x \in S : \A y \in S : x <= y
<1> DEFINE Greatest(U) == \E x \in U : \A y \in U : x >= y
           Least(U) == \E x \in U : \A y \in U : x <= y
           Bad == {U \in FiniteSubsetsOf(S) : U # {} /\ ~(Greatest(U) /\ Least(U))}
<1>1. ASSUME Bad # {} PROVE FALSE
  <2>1. PICK U \in Bad : \A V \in Bad : ~(<<V, U>> \in StrictSubsetOrdering(S))
    <3>1. Bad \subseteq FiniteSubsetsOf(S)
      OBVIOUS
    <3> HIDE DEF Bad
    <3> QED BY <1>1, <3>1, FS_StrictSubsetOrderingWellFounded, WFMin
  <2>2. U \in SUBSET Int /\ U \subseteq S /\ IsFiniteSet(U) /\ U # {}
    BY DEF FiniteSubsetsOf
  <2>3. PICK x \in U : TRUE
    BY <2>2
  <2> DEFINE V == U \ {x}
  <2>4. IsFiniteSet(V) /\ V \subseteq S /\ V # U
    BY <2>2, <2>3, FS_RemoveElement
  <2>5. <<V, U>> \in StrictSubsetOrdering(S)
    BY <2>2, <2>4 DEF StrictSubsetOrdering
  <2>6. V \notin Bad
    BY <2>1, <2>5
  <2>7. V = {} \/ (Greatest(V) /\ Least(V))
    BY <2>4, <2>6 DEF FiniteSubsetsOf
  <2>8. CASE V = {}
    <3>1. \A y \in U : y = x
      BY <2>8
    <3>2. Greatest(U) /\ Least(U)
      BY <2>2, <2>3, <3>1
    <3> QED BY <2>1, <3>2
  <2>9. CASE Greatest(V) /\ Least(V)
    <3>1. PICK g \in V : \A y \in V : g >= y
      BY <2>9
    <3>2. PICK m \in V : \A y \in V : m <= y
      BY <2>9
    <3>3. \A y \in U : y = x \/ y \in V
      OBVIOUS
    <3>4. g \in U /\ m \in U /\ x \in U /\ g \in Int /\ m \in Int /\ x \in Int
      BY <2>2
    <3>5. Greatest(U)
      <4>1. CASE g >= x
        <5>1. \A y \in U : g >= y
          BY <3>1, <3>3, <4>1
        <5> QED BY <3>4, <5>1
      <4>2. CASE x > g
        <5>1. \A y \in U : x >= y
          BY <2>2, <3>1, <3>3, <3>4, <4>2
        <5> QED BY <3>4, <5>1
      <4> QED BY <3>4, <4>1, <4>2
    <3>6. Least(U)
      <4>1. CASE m <= x
        <5>1. \A y \in U : m <= y
          BY <3>2, <3>3, <4>1
        <5> QED BY <3>4, <5>1
      <4>2. CASE x < m
        <5>1. \A y \in U : x <= y
          BY <2>2, <3>2, <3>3, <3>4, <4>2
        <5> QED BY <3>4, <5>1
      <4> QED BY <3>4, <4>1, <4>2
    <3> QED BY <2>1, <3>5, <3>6
  <2> QED BY <2>7, <2>8, <2>9
<1>2. S \in FiniteSubsetsOf(S)
  BY DEF FiniteSubsetsOf
<1> QED BY <1>1, <1>2

\* The image of a finite set.
LEMMA FiniteImage ==
  ASSUME NEW S, IsFiniteSet(S), NEW f, DOMAIN f = S
  PROVE  IsFiniteSet({f[x] : x \in S})
<1> DEFINE g == [x \in S |-> f[x]]
<1>1. g \in Surjection(S, {f[x] : x \in S})
  BY DEF Surjection
<1> QED BY <1>1, FS_Surjection

Rects == Int \X Int

\* A rectangle lies in the hull of the set it is of.
LEMMA HullHolds ==
  ASSUME NEW S \in SUBSET Rects, IsFiniteSet(S), S # {}
  PROVE  /\ Hull(S) \in Rects
         /\ \A r \in S : Hull(S)[1] <= r[1] /\ r[2] <= Hull(S)[2]
<1> DEFINE L == {r[1] : r \in S}
           R == {r[2] : r \in S}
<1>1. IsFiniteSet(L) /\ IsFiniteSet(R)
  <2> DEFINE f == [r \in S |-> r[1]]
             g == [r \in S |-> r[2]]
  <2>1. L = {f[r] : r \in S} /\ R = {g[r] : r \in S}
    OBVIOUS
  <2>2. DOMAIN f = S /\ DOMAIN g = S
    OBVIOUS
  <2> HIDE DEF f, g, L, R
  <2>3. IsFiniteSet({f[r] : r \in S}) /\ IsFiniteSet({g[r] : r \in S})
    BY <2>2, FiniteImage
  <2> QED BY <2>1, <2>3
<1>2. L \in SUBSET Int /\ R \in SUBSET Int /\ L # {} /\ R # {}
  BY DEF Rects
<1>3. Hull(S) = <<Min(L), Max(R)>>
  BY DEF Hull
<1>4. \A r \in S : r[1] \in L /\ r[2] \in R
  OBVIOUS
<1> HIDE DEF L, R
<1>5. (\E x \in L : \A y \in L : x <= y) /\ (\E x \in R : \A y \in R : x >= y)
  BY <1>1, <1>2, Extremes
<1>6. Min(L) \in L /\ (\A y \in L : Min(L) <= y) /\ Max(R) \in R /\ (\A y \in R : Max(R) >= y)
  BY <1>5 DEF Min, Max
<1>7. Max(R) \in Int /\ \A y \in R : y \in Int /\ y <= Max(R)
  BY <1>2, <1>6
<1>8. Min(L) \in Int
  BY <1>2, <1>6
<1>9. Hull(S)[1] = Min(L) /\ Hull(S)[2] = Max(R) /\ Hull(S) \in Rects
  BY <1>3, <1>7, <1>8 DEF Rects
<1> QED BY <1>4, <1>6, <1>7, <1>9

LEMMA ShapeFacts ==
  ASSUME NEW s \in Shapes
  PROVE  /\ s.frame[1] \in Nat /\ s.frame[2] \in Nat /\ s.crop[1] \in Nat /\ s.crop[2] \in Nat
         /\ s.frame[1] < s.frame[2] /\ s.frame[2] <= XRes /\ s.crop[1] < s.crop[2]
         /\ s.frame \in Rects /\ Length(s.frame) \in Nat \ {0} /\ Length(s.crop) \in Nat \ {0}
         /\ Pixels(s.frame) \subseteq Panel /\ XRes \in Nat
<1>1. s.frame \in Nat \X Nat /\ s.crop \in Nat \X Nat
  BY UpdateAssumption
<1>2. s.frame[1] < s.frame[2] /\ s.frame[2] <= XRes /\ s.crop[1] < s.crop[2] /\ XRes \in Nat
  BY UpdateAssumption
<1>3. s.frame[1] \in Nat /\ s.frame[2] \in Nat /\ s.crop[1] \in Nat /\ s.crop[2] \in Nat /\ s.frame \in Rects
  BY <1>1 DEF Rects
<1> QED BY <1>2, <1>3 DEF Length, Pixels, Panel

\* A pixel of an unscaled layer that shows the buffer's pixel t.
LEMMA UnscaledPixel ==
  ASSUME NEW s \in Shapes, Length(s.crop) = Length(s.frame), NEW p \in Int, NEW t \in Int,
         (t - s.crop[1]) * Length(s.frame) < (p + 1 - s.frame[1]) * Length(s.crop),
         (t + 1 - s.crop[1]) * Length(s.frame) > (p - s.frame[1]) * Length(s.crop)
  PROVE  p = s.frame[1] + t - s.crop[1]
<1>1. \A a, b \in Int, n \in Nat \ {0} : a * n < b * n => a < b
  <2> SUFFICES ASSUME NEW a \in Int, NEW b \in Int, NEW n \in Nat \ {0}, a * n < b * n, b <= a PROVE FALSE
    OBVIOUS
  <2>1. PICK k \in Nat : a = b + k
    <3>1. a - b \in Nat /\ a = b + (a - b)
      OBVIOUS
    <3> QED BY <3>1
  <2>2. a * n = b * n + k * n
    BY <2>1
  <2>3. k * n >= 0
    BY <2>1
  <2>4. b * n \in Int /\ k * n \in Int
    OBVIOUS
  <2> QED BY <2>2, <2>3, <2>4
<1>2. s.frame[1] \in Nat /\ s.crop[1] \in Nat /\ Length(s.frame) \in Nat \ {0}
  BY ShapeFacts
<1> DEFINE a == t - s.crop[1]
           b == p - s.frame[1]
           n == Length(s.frame)
<1>3. a \in Int /\ b \in Int /\ n \in Nat \ {0} /\ t + 1 - s.crop[1] = a + 1 /\ p + 1 - s.frame[1] = b + 1
  BY <1>2
<1>4. a * n < (b + 1) * n /\ b * n < (a + 1) * n
  <2>1. (t + 1 - s.crop[1]) * n = (a + 1) * n /\ (p + 1 - s.frame[1]) * n = (b + 1) * n
    BY <1>3
  <2>2. a * n \in Int /\ b * n \in Int /\ (a + 1) * n \in Int /\ (b + 1) * n \in Int
    BY <1>3
  <2> QED BY <2>1, <2>2
<1>5. a < b + 1 /\ b < a + 1
  <2> HIDE DEF a, b, n
  <2> QED BY <1>1, <1>3, <1>4
<1>6. a = b
  <2> HIDE DEF a, b, n
  <2> QED BY <1>3, <1>5
<1> HIDE DEF n
<1> QED BY <1>2, <1>6

-----------------------------------------------------------------------------
UpdateType ==
  /\ win \in [Windows -> [shape : Shapes, buffer : {"a", "b"}, damage : SUBSET Rects]]
  /\ \A i \in Windows : IsFiniteSet(win[i].damage)
  /\ changedShape \in BOOLEAN /\ updating \in BOOLEAN /\ outdated \subseteq Panel
  /\ \A i \in Windows : lastConfig[i].dst \in Rects

AllChanges == UNION {ChangedBy(win[i]) : i \in Windows}

(* Without a change of the geometry all that is outdated is what this      *)
(* frame changed, or was forgotten.                                        *)
UpdateInv ==
  /\ UpdateType
  /\ ~changedShape => outdated \subseteq forgotten \union (IF updating THEN AllChanges ELSE {})

LEMMA ChangedPixels ==
  ASSUME UpdateType, NEW i \in Windows
  PROVE  ChangedBy(win[i]) \subseteq Pixels(win[i].shape.frame) /\ Pixels(win[i].shape.frame) \subseteq Panel
<1>1. win[i].shape \in Shapes
  BY DEF UpdateType
<1> QED BY <1>1, ShapeFacts DEF ChangedBy, ShownPixels

\* The regions of a layer have all its changed pixels.
LEMMA RegionsHold ==
  ASSUME QuotientTells, UpdateInv, ~changedShape, ~Exceptions(Configs), NEW i \in Windows
  PROVE  /\ RegionsOf(i, Configs) \in SUBSET Rects /\ IsFiniteSet(RegionsOf(i, Configs))
         /\ \A p \in ChangedBy(win[i]) : \E r \in RegionsOf(i, Configs) : r[1] <= p /\ p < r[2]
<1> DEFINE w == win[i]
           s == w.shape
<1>1. /\ w.shape \in Shapes /\ w.damage \in SUBSET Rects /\ IsFiniteSet(w.damage)
      /\ Configs[i].dst = s.frame /\ Configs[i].src = s.crop
  BY DEF UpdateInv, UpdateType, Configs, ConfigureHandle
<1>2. lastConfig[i].dst \in Rects
  BY DEF UpdateInv, UpdateType
<1>3. Length(s.crop) = Length(s.frame)
  <2>1. ~Scaled(Configs[i])
    BY DEF Exceptions
  <2> QED BY <1>1, <2>1 DEF Scaled, QuotientTells
<1>4. /\ s.frame[1] \in Nat /\ s.frame[2] \in Nat /\ s.crop[1] \in Nat /\ s.crop[2] \in Nat
      /\ s.frame \in Rects
  BY <1>1, ShapeFacts
<1>5. \A p \in ChangedBy(w) : p \in Int /\ s.frame[1] <= p /\ p < s.frame[2]
  <2>1. \A p \in ChangedBy(w) : p \in Pixels(s.frame)
    BY ChangedPixels DEF UpdateInv
  <2> QED BY <1>4, <2>1 DEF Pixels
<1>6. IsFiniteSet({s.frame})
  BY FS_Singleton
<1>7. CASE RegionKind(w) = "full"
  <2>1. RegionsOf(i, Configs) = {s.frame}
    BY <1>7 DEF RegionsOf
  <2> QED BY <1>4, <1>5, <1>6, <2>1
<1>8. CASE RegionKind(w) = "skip"
  <2>1. RegionsOf(i, Configs) \in {{}, {s.frame, lastConfig[i].dst}}
    BY <1>8 DEF RegionsOf
  <2>2. w.damage = {<<0, 0>>} /\ w.damage # {}
    BY <1>8 DEF RegionKind, Nothing, Unknown
  <2>3. UNION {Pixels(r) : r \in w.damage} = {}
    BY <2>2 DEF Pixels
  <2>4. ChangedBy(w) = {}
    <3>1. ChangedBy(w) = ShownPixels(s, UNION {Pixels(r) : r \in w.damage})
      BY <2>2 DEF ChangedBy, Unknown
    <3> QED BY <2>3, <3>1 DEF ShownPixels
  <2>5. IsFiniteSet({s.frame, lastConfig[i].dst})
    <3>1. \A a, b : IsFiniteSet({a} \union {b})
      BY FS_Singleton, FS_Union
    <3>2. {s.frame, lastConfig[i].dst} = {s.frame} \union {lastConfig[i].dst}
      OBVIOUS
    <3> QED BY <3>1, <3>2
  <2> QED BY <1>2, <1>4, <2>1, <2>4, <2>5, FS_EmptySet
<1>9. CASE RegionKind(w) = "partial"
  <2> DEFINE moved(x) == NotNegative(s.frame[1] + x - s.crop[1])
             M == {<<moved(r[1]), moved(r[2])>> : r \in w.damage}
  <2>1. RegionsOf(i, Configs) = {LayerRegion(w)} /\ LayerRegion(w) = Hull(M)
    BY <1>9 DEF RegionsOf, LayerRegion
  <2>2. w.damage # {}
    BY <1>9 DEF RegionKind, Unknown
  <2>3. \A x \in Int : moved(x) \in Int /\ moved(x) >= s.frame[1] + x - s.crop[1]
                       /\ moved(x) <= (IF s.frame[1] + x - s.crop[1] < 0 THEN 0 ELSE s.frame[1] + x - s.crop[1])
    BY <1>4 DEF NotNegative
  <2>4. M \in SUBSET Rects /\ M # {}
    <3>1. \A r \in w.damage : r[1] \in Int /\ r[2] \in Int
      BY <1>1 DEF Rects
    <3>2. \A r \in w.damage : <<moved(r[1]), moved(r[2])>> \in Rects
      <4> HIDE DEF moved
      <4> QED BY <2>3, <3>1 DEF Rects
    <3> HIDE DEF moved
    <3> QED BY <2>2, <3>2
  <2>5. IsFiniteSet(M)
    <3> DEFINE f == [r \in w.damage |-> <<moved(r[1]), moved(r[2])>>]
    <3>1. M = {f[r] : r \in w.damage} /\ DOMAIN f = w.damage
      OBVIOUS
    <3> HIDE DEF f
    <3> QED BY <1>1, <3>1, FiniteImage
  <2>6. Hull(M) \in Rects /\ \A r \in M : Hull(M)[1] <= r[1] /\ r[2] <= Hull(M)[2]
    BY <2>4, <2>5, HullHolds
  <2>7. ASSUME NEW p \in ChangedBy(w) PROVE Hull(M)[1] <= p /\ p < Hull(M)[2]
    <3>1. ChangedBy(w) = ShownPixels(s, UNION {Pixels(r) : r \in w.damage})
      BY <2>2 DEF ChangedBy, Unknown
    <3> DEFINE T == UNION {Pixels(r) : r \in w.damage}
    <3>0. p \in ShownPixels(s, T)
      BY <3>1
    <3> HIDE DEF T
    <3>2. PICK t \in T \intersect Pixels(s.crop) :
             /\ (t - s.crop[1]) * Length(s.frame) < (p + 1 - s.frame[1]) * Length(s.crop)
             /\ (t + 1 - s.crop[1]) * Length(s.frame) > (p - s.frame[1]) * Length(s.crop)
      BY <3>0, Zenon DEF ShownPixels
    <3>3. PICK r \in w.damage : t \in Pixels(r)
      BY <3>2 DEF T
    <3>4. r[1] \in Int /\ r[2] \in Int /\ t \in Int /\ r[1] <= t /\ t < r[2] /\ p \in Int /\ p >= 0
      <4>1. r[1] \in Int /\ r[2] \in Int
        BY <1>1 DEF Rects
      <4>2. t \in Int /\ r[1] <= t /\ t < r[2]
        BY <3>3, <4>1 DEF Pixels
      <4>3. p \in Int /\ s.frame[1] <= p
        BY <1>5
      <4> HIDE DEF M, moved
      <4> QED BY <1>4, <4>1, <4>2, <4>3
    <3>5. p = s.frame[1] + t - s.crop[1]
      BY <1>1, <1>3, <3>2, <3>4, UnscaledPixel
    <3>6. moved(r[1]) <= p /\ p < moved(r[2]) /\ moved(r[1]) \in Int /\ moved(r[2]) \in Int
      BY <1>4, <2>3, <3>4, <3>5
    <3>7. <<moved(r[1]), moved(r[2])>> \in M
      OBVIOUS
    <3>8. Hull(M)[1] <= moved(r[1]) /\ moved(r[2]) <= Hull(M)[2]
      BY <2>6, <3>7
    <3>9. Hull(M)[1] \in Int /\ Hull(M)[2] \in Int
      BY <2>6 DEF Rects
    <3> HIDE DEF moved, M
    <3> QED BY <3>4, <3>6, <3>8, <3>9
  <2> QED BY <2>1, <2>6, <2>7, FS_Singleton
<1> QED BY <1>7, <1>8, <1>9 DEF RegionKind

LEMMA RegionCovers ==
  ASSUME QuotientTells, UpdateInv, updating
  PROVE  outdated \subseteq forgotten \union Pixels(UpdateRegion(Configs))
<1> DEFINE regions == UNION {RegionsOf(i, Configs) : i \in Windows}
           merged == Hull(regions)
<1>1. Pixels(FullSize) = Panel /\ XRes \in Nat
  BY UpdateAssumption DEF Pixels, FullSize, Panel
<1>2. CASE UpdateRegion(Configs) = FullSize
  BY <1>1, <1>2 DEF UpdateInv, UpdateType
<1>3. CASE UpdateRegion(Configs) # FullSize
  <2>1. /\ ~changedShape /\ ~Exceptions(Configs) /\ regions # {}
        /\ UpdateRegion(Configs) = <<NotNegative(merged[1]), IF merged[2] > XRes THEN XRes ELSE merged[2]>>
    BY <1>3 DEF UpdateRegion
  <2>2. \A i \in Windows : /\ RegionsOf(i, Configs) \in SUBSET Rects /\ IsFiniteSet(RegionsOf(i, Configs))
                           /\ \A p \in ChangedBy(win[i]) :
                                \E r \in RegionsOf(i, Configs) : r[1] <= p /\ p < r[2]
    BY <2>1, RegionsHold
  <2>3. regions \in SUBSET Rects
    BY <2>2
  <2>4. IsFiniteSet(regions)
    <3> DEFINE f == [i \in Windows |-> RegionsOf(i, Configs)]
    <3>1. {RegionsOf(i, Configs) : i \in Windows} = {f[i] : i \in Windows} /\ DOMAIN f = Windows
      OBVIOUS
    <3> HIDE DEF f
    <3>2. IsFiniteSet({RegionsOf(i, Configs) : i \in Windows})
      BY <3>1, UpdateAssumption, FiniteImage
    <3> QED BY <2>2, <3>2, FS_UNION
  <2>5. merged \in Rects /\ \A r \in regions : merged[1] <= r[1] /\ r[2] <= merged[2]
    BY <2>1, <2>3, <2>4, HullHolds
  <2>6. ASSUME NEW p \in outdated \ forgotten PROVE p \in Pixels(UpdateRegion(Configs))
    <3>1. PICK i \in Windows : p \in ChangedBy(win[i])
      BY <2>1 DEF UpdateInv, AllChanges
    <3>2. PICK r \in RegionsOf(i, Configs) : r[1] <= p /\ p < r[2]
      BY <2>2, <3>1
    <3>3. r \in regions /\ r[1] \in Int /\ r[2] \in Int
      BY <2>2 DEF Rects
    <3>4. p \in Int /\ 0 <= p /\ p < XRes
      BY <1>1 DEF UpdateInv, UpdateType, Panel
    <3>5. merged[1] \in Int /\ merged[2] \in Int /\ merged[1] <= r[1] /\ r[2] <= merged[2]
      BY <2>5, <3>3 DEF Rects
    <3>6. merged[1] <= p /\ p < merged[2]
      BY <3>2, <3>3, <3>4, <3>5
    <3> HIDE DEF merged
    <3> QED BY <1>1, <2>1, <3>4, <3>5, <3>6 DEF Pixels, NotNegative
  <2> QED BY <2>6
<1> QED BY <1>2, <1>3

LEMMA UpdateStep == QuotientTells /\ UpdateInv /\ [UpdateNext]_updateVars => UpdateInv'
<1> SUFFICES ASSUME QuotientTells, UpdateInv, [UpdateNext]_updateVars PROVE UpdateInv'
  OBVIOUS
<1>0. /\ win \in [Windows -> [shape : Shapes, buffer : {"a", "b"}, damage : SUBSET Rects]]
      /\ \A i \in Windows : IsFiniteSet(win[i].damage)
      /\ changedShape \in BOOLEAN /\ updating \in BOOLEAN /\ outdated \subseteq Panel
  BY DEF UpdateInv, UpdateType
<1>1. ASSUME NEW i \in Windows, NEW s \in Shapes, SetShape(i, s) PROVE UpdateInv'
  <2>1. /\ win' = [win EXCEPT ![i] = [win[i] EXCEPT !.shape = s, !.damage = Nothing]]
        /\ outdated' = Panel /\ changedShape' = TRUE /\ updating' = updating /\ lastConfig' = lastConfig
    BY <1>1 DEF SetShape, MoveLayer
  <2>2. Nothing \in SUBSET Rects /\ IsFiniteSet(Nothing)
    <3>1. <<0, 0>> \in Rects
      BY DEF Rects
    <3> QED BY <3>1, FS_Singleton DEF Nothing
  <2>3. /\ [win[i] EXCEPT !.shape = s, !.damage = Nothing] \in [shape : Shapes, buffer : {"a", "b"}, damage : SUBSET Rects]
        /\ [win[i] EXCEPT !.shape = s, !.damage = Nothing].damage = Nothing
    <3>1. \A D \in SUBSET Rects :
            /\ [win[i] EXCEPT !.shape = s, !.damage = D] \in [shape : Shapes, buffer : {"a", "b"}, damage : SUBSET Rects]
            /\ [win[i] EXCEPT !.shape = s, !.damage = D].damage = D
      BY <1>0
    <3> QED BY <2>2, <3>1
  <2>4. \A j \in Windows : IsFiniteSet(win'[j].damage)
    <3>1. \A j \in Windows : win'[j].damage = Nothing \/ win'[j] = win[j]
      BY <1>0, <2>1, <2>3
    <3> QED BY <1>0, <2>2, <3>1
  <2>5. win' \in [Windows -> [shape : Shapes, buffer : {"a", "b"}, damage : SUBSET Rects]]
    BY <1>0, <2>1, <2>3
  <2> QED BY <1>0, <2>1, <2>4, <2>5 DEF UpdateInv, UpdateType
<1>2. ASSUME NEW damage \in [Windows -> Damages], NEW flips \in SUBSET Windows, PrepareFrame(damage, flips)
      PROVE  UpdateInv'
  <2>1. /\ updating = FALSE /\ updating' = TRUE /\ changedShape' = changedShape /\ lastConfig' = lastConfig
        /\ win' = [i \in Windows |-> [win[i] EXCEPT !.damage = damage[i],
                 !.buffer = IF i \notin flips THEN @ ELSE IF @ = "a" THEN "b" ELSE "a"]]
        /\ outdated' = outdated \union UNION {ChangedBy(win'[i]) : i \in Windows}
    BY <1>0, <1>2 DEF PrepareFrame
  <2>2. ASSUME NEW i \in Windows
        PROVE  /\ win'[i] \in [shape : Shapes, buffer : {"a", "b"}, damage : SUBSET Rects]
               /\ win'[i].shape = win[i].shape /\ IsFiniteSet(win'[i].damage)
    <3>1. damage[i] \in SUBSET Rects /\ IsFiniteSet(damage[i])
      BY UpdateAssumption DEF Rects
    <3>2. \A D \in SUBSET Rects, b \in {"a", "b"} :
            LET q == [win[i] EXCEPT !.damage = D, !.buffer = b]
            IN  /\ q \in [shape : Shapes, buffer : {"a", "b"}, damage : SUBSET Rects]
                /\ q.shape = win[i].shape /\ q.damage = D
      BY <1>0
    <3>3. (IF i \notin flips THEN win[i].buffer ELSE IF win[i].buffer = "a" THEN "b" ELSE "a") \in {"a", "b"}
      BY <1>0
    <3>4. win'[i] = [win[i] EXCEPT !.damage = damage[i],
                 !.buffer = IF i \notin flips THEN win[i].buffer ELSE IF win[i].buffer = "a" THEN "b" ELSE "a"]
      BY <2>1
    <3> QED BY <3>1, <3>2, <3>3, <3>4
  <2>3. win' \in [Windows -> [shape : Shapes, buffer : {"a", "b"}, damage : SUBSET Rects]]
    BY <2>1, <2>2
  <2>4. \A i \in Windows : ChangedBy(win'[i]) \subseteq Panel
    <3>1. ASSUME NEW i \in Windows PROVE ChangedBy(win'[i]) \subseteq Pixels(win'[i].shape.frame)
      BY DEF ChangedBy, ShownPixels
    <3>2. ASSUME NEW i \in Windows PROVE Pixels(win'[i].shape.frame) \subseteq Panel
      BY <2>2, ShapeFacts
    <3> QED BY <3>1, <3>2
  <2>6. UpdateType'
    <3>1. outdated' \subseteq Panel
      <4>1. UNION {ChangedBy(win'[i]) : i \in Windows} \subseteq Panel
        BY <2>4
      <4> QED BY <1>0, <2>1, <4>1
    <3>2. \A i \in Windows : IsFiniteSet(win'[i].damage)
      BY <2>2
    <3>3. changedShape' \in BOOLEAN /\ updating' \in BOOLEAN
      BY <1>0, <2>1
    <3>4. Panel' = Panel
      BY DEF Panel
    <3>5. \A i \in Windows : lastConfig'[i].dst \in Rects
      BY <2>1 DEF UpdateInv, UpdateType
    <3> QED BY <2>3, <3>1, <3>2, <3>3, <3>4, <3>5 DEF UpdateType
  <2>7. ~changedShape => outdated' \subseteq forgotten \union UNION {ChangedBy(win'[i]) : i \in Windows}
    BY <2>1 DEF UpdateInv
  <2>8. AllChanges' = UNION {ChangedBy(win'[i]) : i \in Windows}
    BY DEF AllChanges, ChangedBy, ShownPixels
  <2>9. ~changedShape' => outdated' \subseteq forgotten' \union AllChanges'
    <3>1. forgotten' = forgotten /\ changedShape' = changedShape
      BY <1>2 DEF PrepareFrame
    <3> QED BY <2>7, <2>8, <3>1
  <2> QED BY <2>1, <2>6, <2>9 DEF UpdateInv
<1>3. CASE PresentWindows
  <2>1. /\ updating /\ updating' = FALSE /\ outdated' = outdated \ Pixels(UpdateRegion(Configs))
        /\ forgotten' = forgotten \ Pixels(UpdateRegion(Configs))
        /\ lastConfig' = Configs /\ changedShape' = FALSE /\ win' = win
    BY <1>3 DEF PresentWindows, Presents
  <2>2. outdated' \subseteq forgotten'
    BY <2>1, RegionCovers
  <2>3. \A i \in Windows : lastConfig'[i].dst \in Rects
    <3>1. \A i \in Windows : win[i].shape.frame \in Rects
      BY <1>0, ShapeFacts
    <3> QED BY <2>1, <3>1 DEF Configs, ConfigureHandle
  <2> QED BY <1>0, <2>1, <2>2, <2>3 DEF UpdateInv, UpdateType
<1>4. CASE DeliveryFails \/ PresentFails \/ PresentSkipped \/ PresentDropped \/ PowerOff
  <2>1. win' = win /\ updating' \in {updating, FALSE} /\ lastConfig' \in {NoConfigs, lastConfig}
        /\ outdated' \in {outdated, Panel}
    BY <1>4 DEF DeliveryFails, PresentFails, PresentSkipped, PresentDropped, PowerOff, Presents, ClearDisplay,
        AfterError
  <2>2. \A i \in Windows : lastConfig'[i].dst \in Rects
    <3>1. \A i \in Windows : NoConfigs[i].dst = <<0, 0>> /\ <<0, 0>> \in Rects
      BY DEF NoConfigs, Disabled, Rects
    <3> HIDE DEF NoConfigs
    <3> QED BY <2>1, <3>1 DEF UpdateInv, UpdateType
  <2>3. ~changedShape' => outdated' \subseteq forgotten'
    BY <1>0, <1>4 DEF DeliveryFails, PresentFails, PresentSkipped, PresentDropped, PowerOff, Presents, AfterError
  <2>4. changedShape' \in BOOLEAN /\ updating' \in BOOLEAN
    BY <1>0, <1>4, <2>1 DEF DeliveryFails, PresentFails, PresentSkipped, PresentDropped, PowerOff, AfterError
  <2>5. Panel' = Panel
    BY DEF Panel
  <2> QED BY <1>0, <2>1, <2>2, <2>3, <2>4, <2>5 DEF UpdateInv, UpdateType
<1>5. CASE UNCHANGED updateVars
  BY <1>5 DEF UpdateInv, UpdateType, updateVars, AllChanges, ChangedBy
<1> QED BY <1>1, <1>2, <1>3, <1>4, <1>5 DEF UpdateNext

(* After each frame every pixel of the panel shows what its layers have    *)
(* now, although the commit updates only a part of the panel, except what  *)
(* was declared in frames that were dropped in the trusted user interface  *)
(* or refused by the driver: for any panel, layers and damage.             *)
THEOREM ThePanelIsUpToDate == ASSUME QuotientTells PROVE UpdateSpec => []PanelIsUpToDate
<1>1. UpdateInit => UpdateInv
  <2> SUFFICES ASSUME UpdateInit PROVE UpdateInv
    OBVIOUS
  <2>1. /\ win \in [Windows -> {[shape |-> s, buffer |-> "a", damage |-> Unknown] : s \in Shapes}]
        /\ changedShape = TRUE /\ updating = FALSE /\ outdated = Panel /\ lastConfig = NoConfigs
    BY DEF UpdateInit
  <2>2. \A i \in Windows : /\ win[i] \in [shape : Shapes, buffer : {"a", "b"}, damage : SUBSET Rects]
                           /\ win[i].damage = {}
    BY <2>1 DEF Unknown
  <2>3. win \in [Windows -> [shape : Shapes, buffer : {"a", "b"}, damage : SUBSET Rects]]
    BY <2>1, <2>2
  <2>4. \A i \in Windows : lastConfig[i].dst \in Rects
    BY <2>1 DEF NoConfigs, Disabled, Rects
  <2> QED BY <2>1, <2>2, <2>3, <2>4, FS_EmptySet DEF UpdateInv, UpdateType
<1>2. UpdateInv => PanelIsUpToDate
  BY DEF UpdateInv, PanelIsUpToDate
<1> QED BY <1>1, <1>2, UpdateStep, PTL DEF UpdateSpec

-----------------------------------------------------------------------------
(* The memory-to-memory compositions.                                      *)

M2mImages == AllSources \union {None}
Users == M2mDisplays \union {None}
M2mFrames == [src : M2mImages, buf : -1 .. 3, ahead : Int, shows : M2mImages]
EngineJobs == [buf : 0 .. 3, src : M2mImages, acq : Users]
DstImgs == [display : Users, secure : BOOLEAN, acq : Users, image : M2mImages]

M2mType ==
  /\ mHWState \in {"idle", "running"} /\ lost \in BOOLEAN
  /\ mCurrentDstBuf \in DstBufs
  /\ mDstImgs \in [DstBufs -> DstImgs]
  /\ engine \in Seq(EngineJobs)
  /\ validated \in [M2mDisplays -> M2mFrames]
  /\ inFlight \in [M2mDisplays -> M2mFrames]
  /\ screen \in [M2mDisplays -> M2mFrames]

InRing(f) == f.buf \in DstBufs

JobsIn(jobs, b) == {j \in 1 .. Len(jobs) : jobs[j].buf = b}

(* The image of buffer b is composed, or the last job for b composes it.   *)
HoldsImage(b, image, jobs, imgs) == JobsIn(jobs, b) = {} /\ imgs[b].image = image
ComposedBy(k, b, image, jobs) ==
  k \in JobsIn(jobs, b) /\ jobs[k].src = image /\ \A j \in JobsIn(jobs, b) : j <= k

Composing(f, jobs, imgs) ==
  \/ f.ahead = 0 /\ HoldsImage(f.buf, f.src, jobs, imgs)
  \/ ComposedBy(f.ahead, f.buf, f.src, jobs)

SameImage(f, g) == f.buf = g.buf /\ f.src = g.src

(* A buffer leaves the ring with its image.  The MPP stays with a display  *)
(* between the validation of a frame and its presentation.                 *)
DetachedInv ==
  \A d \in M2mDisplays :
    /\ validated[d].buf # OutOfRing
    /\ InRing(validated[d]) => mAssigned = d
    /\ inFlight[d].buf = OutOfRing => inFlight[d].shows = inFlight[d].src
    /\ screen[d].buf = OutOfRing => screen[d].shows = screen[d].src

(* Every frame has the image of its own sources, now or when the engine is *)
(* done; a frame that reuses a result shares it with the commit in flight. *)
ImagesInv ==
  \A d \in M2mDisplays :
    /\ InRing(validated[d]) =>
         \/ Composing(validated[d], engine, mDstImgs)
         \/ validated[d].ahead = 0 /\ SameImage(inFlight[d], validated[d])
    /\ InRing(inFlight[d]) => Composing(inFlight[d], engine, mDstImgs)
    /\ InRing(screen[d]) => HoldsImage(screen[d].buf, screen[d].src, engine, mDstImgs)

(* The frames in the ring are those of the display that used the MPP last, *)
(* and none are while the MPP is idle.                                     *)
OwnerInv ==
  /\ \A d \in M2mDisplays : (d # mPrevAssigned \/ mHWState = "idle") =>
       ~InRing(validated[d]) /\ ~InRing(inFlight[d]) /\ ~InRing(screen[d])
  /\ mHWState = "idle" => mPrevFrame = None

Back(q, k) == (q + 3 - k) % 3

(* q is the place of the next composition: the commit in flight shows the  *)
(* one before, and the screen that one, or an earlier one during a flight. *)
PlacedAt(q, shown, flying) ==
  /\ InRing(flying) => flying.buf = Back(q, 1)
  /\ InRing(shown) => \/ shown.buf = Back(q, 1)
                      \/ InRing(flying) /\ shown.buf = Back(q, 2)

(* While no frame is lost, the ring is in step, and the result that may be *)
(* reused is the one before the next.                                      *)
RingInv ==
  ~lost => \A d \in M2mDisplays : d = mPrevAssigned =>
    IF InRing(validated[d])
    THEN /\ validated[d].buf = mCurrentDstBuf
         /\ \/ PlacedAt(mCurrentDstBuf, screen[d], inFlight[d])
            \/ PlacedAt(Back(mCurrentDstBuf, 2), screen[d], inFlight[d])
         /\ mPrevFrame = validated[d].src
    ELSE /\ PlacedAt(mCurrentDstBuf, screen[d], inFlight[d])
         /\ mPrevFrame # None =>
              \/ HoldsImage(PrevDstBuf, mPrevFrame, engine, mDstImgs)
              \/ inFlight[d].buf = PrevDstBuf /\ inFlight[d].src = mPrevFrame

M2mInv == M2mType /\ DetachedInv /\ ImagesInv /\ OwnerInv /\ RingInv

\* What the engine's queue becomes.
LEMMA JobsKept ==
  ASSUME NEW jobs \in Seq(EngineJobs), NEW more, DOMAIN more = 1 .. Len(jobs), Len(more) = Len(jobs),
         NEW imgs, NEW other, NEW f, JobsIn(more, f.buf) = JobsIn(jobs, f.buf),
         \A j \in 1 .. Len(jobs) : more[j].src = jobs[j].src,
         other[f.buf].image = imgs[f.buf].image
  PROVE  /\ Composing(f, jobs, imgs) => Composing(f, more, other)
         /\ \A image : HoldsImage(f.buf, image, jobs, imgs) => HoldsImage(f.buf, image, more, other)
BY DEF Composing, HoldsImage, ComposedBy, JobsIn

LEMMA JobAppended ==
  ASSUME NEW jobs \in Seq(EngineJobs), NEW job \in EngineJobs
  PROVE  /\ Append(jobs, job) \in Seq(EngineJobs)
         /\ \A b : JobsIn(Append(jobs, job), b) =
              JobsIn(jobs, b) \union (IF job.buf = b THEN {Len(jobs) + 1} ELSE {})
         /\ \A j \in 1 .. Len(jobs) : Append(jobs, job)[j] = jobs[j]
         /\ Append(jobs, job)[Len(jobs) + 1] = job
BY DEF JobsIn

LEMMA JobTaken ==
  ASSUME NEW jobs \in Seq(EngineJobs), jobs # <<>>
  PROVE  /\ Tail(jobs) \in Seq(EngineJobs)
         /\ Head(jobs) = jobs[1] /\ jobs[1] \in EngineJobs
         /\ \A b, j : j \in JobsIn(Tail(jobs), b) <=> j \in Nat \ {0} /\ j + 1 \in JobsIn(jobs, b)
         /\ \A j \in 1 .. Len(Tail(jobs)) : Tail(jobs)[j] = jobs[j + 1]
BY DEF JobsIn

LEMMA JobsDetached ==
  ASSUME engine \in Seq(EngineJobs), NEW out \in SUBSET DstBufs
  PROVE  /\ DetachedJobs(out) \in Seq(EngineJobs)
         /\ Len(DetachedJobs(out)) = Len(engine)
         /\ \A b \in DstBufs : JobsIn(DetachedJobs(out), b) = IF b \in out THEN {} ELSE JobsIn(engine, b)
         /\ \A j \in 1 .. Len(engine) : DetachedJobs(out)[j].src = engine[j].src
<1>0. \A j \in 1 .. Len(engine) : engine[j] \in EngineJobs
  OBVIOUS
<1>a. \A j \in 1 .. Len(engine) :
        DetachedJobs(out)[j] = [engine[j] EXCEPT !.buf = IF @ \in out THEN OutOfRing ELSE @]
  BY DEF DetachedJobs
<1>b. \A j \in 1 .. Len(engine) : DetachedJobs(out)[j] \in EngineJobs
  <2> TAKE j \in 1 .. Len(engine)
  <2>1. CASE engine[j].buf \in out
    <3>1. engine[j] = [buf |-> engine[j].buf, src |-> engine[j].src, acq |-> engine[j].acq]
          /\ engine[j].src \in M2mImages /\ engine[j].acq \in Users
      BY <1>0 DEF EngineJobs
    <3>2. DetachedJobs(out)[j] = [buf |-> 3, src |-> engine[j].src, acq |-> engine[j].acq]
      BY <1>a, <2>1, <3>1 DEF OutOfRing
    <3> QED BY <3>1, <3>2 DEF EngineJobs
  <2>2. CASE engine[j].buf \notin out
    BY <1>0, <1>a, <2>2 DEF EngineJobs
  <2> QED BY <2>1, <2>2
<1>1. DetachedJobs(out) \in [1 .. Len(engine) -> EngineJobs]
  BY <1>b DEF DetachedJobs
<1>2. DetachedJobs(out) \in Seq(EngineJobs) /\ Len(DetachedJobs(out)) = Len(engine)
  BY <1>1
<1>3. \A j \in 1 .. Len(engine) :
        /\ DetachedJobs(out)[j].src = engine[j].src
        /\ DetachedJobs(out)[j].buf = IF engine[j].buf \in out THEN OutOfRing ELSE engine[j].buf
  BY <1>0, <1>a DEF EngineJobs
<1> QED BY <1>2, <1>3 DEF JobsIn, OutOfRing, DstBufs

LEMMA FinalImageIs ==
  ASSUME engine \in Seq(EngineJobs), NEW f, Composing(f, engine, mDstImgs)
  PROVE  FinalImage(f.buf) = f.src
<1>1. JobsFor(f.buf) = JobsIn(engine, f.buf)
  BY DEF JobsFor, JobsIn
<1>2. CASE HoldsImage(f.buf, f.src, engine, mDstImgs)
  BY <1>1, <1>2 DEF HoldsImage, FinalImage
<1>3. CASE ComposedBy(f.ahead, f.buf, f.src, engine)
  <2>1. JobsIn(engine, f.buf) \subseteq Int
    BY DEF JobsIn
  <2>2. Max(JobsIn(engine, f.buf)) = f.ahead
    BY <1>3, <2>1 DEF ComposedBy, Max
  <2> QED BY <1>1, <1>3, <2>2 DEF ComposedBy, FinalImage
<1> QED BY <1>2, <1>3 DEF Composing

\* A frame that is detached, or not, keeps its image.
LEMMA FrameDetached ==
  ASSUME engine \in Seq(EngineJobs), NEW f \in M2mFrames, NEW out \in SUBSET DstBufs,
         f.buf = OutOfRing => f.shows = f.src,
         f.buf \in out => FinalImage(f.buf) = f.src
  PROVE  /\ Detached(f, out) \in M2mFrames
         /\ Detached(f, out).buf = IF f.buf \in out THEN OutOfRing ELSE f.buf
         /\ Detached(f, out).src = f.src /\ Detached(f, out).ahead = f.ahead
         /\ Detached(f, out).buf = OutOfRing => Detached(f, out).shows = Detached(f, out).src
<1>1. CASE f.buf \in out
  <2>1. Detached(f, out) = [f EXCEPT !.buf = OutOfRing, !.shows = FinalImage(f.buf)]
    BY <1>1 DEF Detached
  <2>2. FinalImage(f.buf) \in M2mImages
    BY <1>1 DEF M2mFrames
  <2>3. f = [src |-> f.src, buf |-> f.buf, ahead |-> f.ahead, shows |-> f.shows]
        /\ f.src \in M2mImages /\ f.ahead \in Int
    BY DEF M2mFrames
  <2>4. Detached(f, out) =
          [src |-> f.src, buf |-> 3, ahead |-> f.ahead, shows |-> FinalImage(f.buf)]
    BY <2>1, <2>3 DEF OutOfRing
  <2>5. Detached(f, out) \in M2mFrames
    BY <2>2, <2>3, <2>4 DEF M2mFrames
  <2> QED BY <1>1, <2>4, <2>5 DEF OutOfRing
<1>2. CASE f.buf \notin out
  BY <1>2 DEF Detached
<1> QED BY <1>1, <1>2

LEMMA M2mInitInv == M2mInit => M2mInv
<1> SUFFICES ASSUME M2mInit PROVE M2mInv
  OBVIOUS
<1> USE DEF M2mInit
<1>1. NoneInFlight \in M2mFrames /\ NoM2mFrame \in M2mFrames
      /\ NoneInFlight.buf = -1 /\ NoM2mFrame.buf = -1
  BY DEF NoneInFlight, NoM2mFrame, M2mFrames, M2mImages, NoBuf
<1>2. EmptyImg \in DstImgs
  BY DEF EmptyImg, DstImgs, Users, M2mImages
<1>3. M2mType
  <2>1. engine \in Seq(EngineJobs) /\ mCurrentDstBuf \in DstBufs
    BY DEF DstBufs
  <2>2. mDstImgs \in [DstBufs -> DstImgs]
    BY <1>2
  <2> QED BY <1>1, <2>1, <2>2 DEF M2mType
<1>4. \A d \in M2mDisplays : /\ ~InRing(validated[d]) /\ ~InRing(inFlight[d]) /\ ~InRing(screen[d])
                             /\ validated[d].buf # OutOfRing /\ inFlight[d].buf # OutOfRing
                             /\ screen[d].buf # OutOfRing
  BY <1>1 DEF InRing, DstBufs, OutOfRing
<1>5. DetachedInv /\ ImagesInv /\ OwnerInv
  BY <1>4 DEF DetachedInv, ImagesInv, OwnerInv
<1>6. RingInv
  BY <1>4 DEF RingInv, PlacedAt
<1> QED BY <1>3, <1>5, <1>6 DEF M2mInv

(* A step that leaves the frames in the ring, the engine's jobs and the    *)
(* images as they are, as far as the invariant sees.                       *)
LEMMA M2mStutter == M2mInv /\ UNCHANGED m2mVars => M2mInv'
BY DEF M2mInv, m2mVars, M2mType, DetachedInv, ImagesInv, OwnerInv, RingInv, PrevDstBuf

LEMMA M2mDirect ==
  ASSUME M2mInv, NEW d \in M2mDisplays, NEW last \in BOOLEAN, ValidateDirect(d, last)
  PROVE  M2mInv'
<1> DEFINE frames == [validated EXCEPT ![d] = NoM2mFrame]
<1>1. /\ M2mType /\ DetachedInv /\ ImagesInv /\ OwnerInv /\ RingInv
      /\ UNCHANGED <<mCurrentDstBuf, mPrevAssigned>>
  BY DEF M2mInv, ValidateDirect
<1>2. NoM2mFrame \in M2mFrames /\ NoM2mFrame.buf = -1 /\ ~InRing(validated[d])
      /\ mAssigned' = (IF mAssigned = d THEN None ELSE mAssigned)
  BY DEF NoM2mFrame, M2mFrames, M2mImages, NoBuf, InRing, ValidateDirect, NoneInFlight, DstBufs
<1>3. /\ frames \in [M2mDisplays -> M2mFrames]
      /\ frames[d] = NoM2mFrame /\ ~InRing(frames[d]) /\ frames[d].buf # OutOfRing
      /\ \A e \in M2mDisplays \ {d} : frames[e] = validated[e]
      /\ \A e \in M2mDisplays : InRing(frames[e]) => mAssigned' = e
  <2>1. /\ frames \in [M2mDisplays -> M2mFrames]
        /\ frames[d] = NoM2mFrame /\ ~InRing(frames[d]) /\ frames[d].buf # OutOfRing
        /\ \A e \in M2mDisplays \ {d} : frames[e] = validated[e]
    BY <1>1, <1>2 DEF M2mType, InRing, DstBufs, OutOfRing
  <2> QED BY <1>1, <1>2, <2>1 DEF DetachedInv
<1>4. CASE UNCHANGED <<mHWState, mPrevFrame, mDstImgs, engine, inFlight, screen, lost>>
           /\ validated' = frames
  <2> HIDE DEF frames
  <2>1. M2mType' /\ DetachedInv'
    BY <1>1, <1>3, <1>4 DEF M2mType, DetachedInv
  <2>2. ImagesInv' /\ OwnerInv'
    BY <1>1, <1>3, <1>4 DEF ImagesInv, OwnerInv
  <2>3. RingInv'
    BY <1>1, <1>2, <1>3, <1>4 DEF RingInv, PrevDstBuf
  <2> QED BY <2>1, <2>2, <2>3 DEF M2mInv
<1>5. CASE HWIdle(frames) /\ mHWState = "idle"
  <2>1. /\ UNCHANGED <<mHWState, mPrevFrame, mDstImgs, engine, inFlight, screen>>
        /\ validated' = frames /\ lost' \in BOOLEAN
    BY <1>1, <1>5 DEF HWIdle, M2mType
  <2> HIDE DEF frames
  <2>2. M2mType' /\ DetachedInv'
    BY <1>1, <1>3, <2>1 DEF M2mType, DetachedInv
  <2>3. ImagesInv' /\ OwnerInv'
    BY <1>1, <1>3, <2>1 DEF ImagesInv, OwnerInv
  <2>4. RingInv'
    BY <1>1, <1>3, <1>5, <2>1, <2>3 DEF OwnerInv, RingInv, PlacedAt
  <2> QED BY <2>2, <2>3, <2>4 DEF M2mInv
<1>6. CASE HWIdle(frames) /\ mHWState # "idle" /\ mAssigned' = None
  <2>1. /\ mHWState' = "idle" /\ mPrevFrame' = None /\ lost' \in BOOLEAN
        /\ mDstImgs' = [i \in DstBufs |-> [EmptyImg EXCEPT !.acq = mDstImgs[i].acq]]
        /\ engine' = DetachedJobs(DstBufs)
        /\ validated' = DetachedFrames(frames, DstBufs)
        /\ inFlight' = DetachedFrames(inFlight, DstBufs)
        /\ screen' = DetachedFrames(screen, DstBufs)
    BY <1>1, <1>6 DEF HWIdle, M2mType
  <2>2. mDstImgs' \in [DstBufs -> DstImgs]
    BY <1>1, <2>1 DEF M2mType, EmptyImg, DstImgs, Users, M2mImages
  <2>3. engine \in Seq(EngineJobs) /\ DstBufs \in SUBSET DstBufs
    BY <1>1 DEF M2mType
  <2>4. \A e \in M2mDisplays :
          /\ InRing(inFlight[e]) => FinalImage(inFlight[e].buf) = inFlight[e].src
          /\ ~InRing(frames[e])
          /\ InRing(screen[e]) => FinalImage(screen[e].buf) = screen[e].src
    <3> TAKE e \in M2mDisplays
    <3>1. InRing(inFlight[e]) => FinalImage(inFlight[e].buf) = inFlight[e].src
      BY <1>1, <2>3, FinalImageIs DEF ImagesInv
    <3>2. ~InRing(frames[e])
      BY <1>3, <1>6, M2mAssumption
    <3>3. InRing(screen[e]) => FinalImage(screen[e].buf) = screen[e].src
      BY <1>1, <2>3 DEF ImagesInv, HoldsImage, FinalImage, JobsFor, JobsIn
    <3> QED BY <3>1, <3>2, <3>3
  <2> HIDE DEF frames
  <2>5. \A e \in M2mDisplays :
          /\ validated'[e] = Detached(frames[e], DstBufs)
          /\ inFlight'[e] = Detached(inFlight[e], DstBufs)
          /\ screen'[e] = Detached(screen[e], DstBufs)
    BY <2>1 DEF DetachedFrames
  <2>6. \A f \in M2mFrames :
          (f.buf = OutOfRing => f.shows = f.src) /\ (InRing(f) => FinalImage(f.buf) = f.src) =>
          LET g == Detached(f, DstBufs)
          IN  /\ g \in M2mFrames /\ ~InRing(g) /\ (g.buf = OutOfRing => g.shows = g.src)
              /\ f.buf \notin DstBufs => g = f
    <3> SUFFICES ASSUME NEW f \in M2mFrames, f.buf = OutOfRing => f.shows = f.src,
                        InRing(f) => FinalImage(f.buf) = f.src
        PROVE  LET g == Detached(f, DstBufs)
               IN  /\ g \in M2mFrames /\ ~InRing(g) /\ (g.buf = OutOfRing => g.shows = g.src)
                   /\ f.buf \notin DstBufs => g = f
      OBVIOUS
    <3>1. f.buf \notin DstBufs => Detached(f, DstBufs) = f
      BY DEF Detached
    <3>2. /\ Detached(f, DstBufs) \in M2mFrames
          /\ Detached(f, DstBufs).buf = IF f.buf \in DstBufs THEN OutOfRing ELSE f.buf
          /\ Detached(f, DstBufs).buf = OutOfRing =>
               Detached(f, DstBufs).shows = Detached(f, DstBufs).src
      BY <2>3, FrameDetached DEF InRing
    <3> QED BY <3>1, <3>2 DEF InRing, OutOfRing, DstBufs
  <2>7. \A e \in M2mDisplays :
          /\ validated'[e] \in M2mFrames /\ inFlight'[e] \in M2mFrames /\ screen'[e] \in M2mFrames
          /\ ~InRing(validated'[e]) /\ ~InRing(inFlight'[e]) /\ ~InRing(screen'[e])
          /\ validated'[e].buf # OutOfRing
          /\ inFlight'[e].buf = OutOfRing => inFlight'[e].shows = inFlight'[e].src
          /\ screen'[e].buf = OutOfRing => screen'[e].shows = screen'[e].src
    <3> TAKE e \in M2mDisplays
    <3>1. frames[e] \in M2mFrames /\ inFlight[e] \in M2mFrames /\ screen[e] \in M2mFrames
      BY <1>1, <1>3 DEF M2mType
    <3>2. frames[e].buf # OutOfRing
      BY <1>1, <1>3 DEF DetachedInv
    <3> QED BY <1>1, <2>4, <2>5, <2>6, <3>1, <3>2 DEF DetachedInv, InRing
  <2>8. M2mType'
    <3>1. validated' \in [M2mDisplays -> M2mFrames] /\ inFlight' \in [M2mDisplays -> M2mFrames]
          /\ screen' \in [M2mDisplays -> M2mFrames]
      BY <2>1, <2>7 DEF DetachedFrames
    <3> QED BY <1>1, <2>1, <2>2, <2>3, <3>1, JobsDetached DEF M2mType
  <2>9. DetachedInv' /\ ImagesInv' /\ OwnerInv' /\ RingInv'
    BY <2>1, <2>7 DEF DetachedInv, ImagesInv, OwnerInv, RingInv, PlacedAt
  <2> QED BY <2>8, <2>9 DEF M2mInv
<1> HIDE DEF frames
<1>7. \/ UNCHANGED <<mHWState, mPrevFrame, mDstImgs, engine, inFlight, screen, lost>>
         /\ validated' = frames
      \/ HWIdle(frames) /\ mAssigned' = None
  BY DEF ValidateDirect, frames
<1> QED BY <1>4, <1>5, <1>6, <1>7

LEMMA M2mDrop ==
  ASSUME M2mInv, NEW d \in M2mDisplays, DropComposed(d)
  PROVE  M2mInv'
<1>1. /\ M2mType /\ DetachedInv /\ ImagesInv /\ OwnerInv /\ RingInv
      /\ UNCHANGED <<mAssigned, mHWState, mCurrentDstBuf, mPrevAssigned, mPrevFrame, mDstImgs,
                     engine, inFlight, screen>>
      /\ validated' = [validated EXCEPT ![d] = NoneInFlight]
      /\ lost' = (lost \/ validated[d].buf # NoBuf)
  BY DEF M2mInv, DropComposed
<1>2. /\ NoneInFlight \in M2mFrames /\ ~InRing(NoneInFlight) /\ NoneInFlight.buf # OutOfRing
  BY DEF NoM2mFrame, NoneInFlight, M2mFrames, M2mImages, NoBuf, InRing, DstBufs, OutOfRing
<1>3. /\ validated' \in [M2mDisplays -> M2mFrames] /\ validated'[d] = NoneInFlight
      /\ \A e \in M2mDisplays \ {d} : validated'[e] = validated[e]
  BY <1>1, <1>2 DEF M2mType
<1>4. M2mType' /\ DetachedInv' /\ ImagesInv' /\ OwnerInv'
  BY <1>1, <1>2, <1>3 DEF M2mType, DetachedInv, ImagesInv, OwnerInv
<1>5. ~lost' => ~lost /\ ~InRing(validated[d])
  <2>1. ~lost' => ~lost /\ validated[d].buf = NoBuf
    BY <1>1
  <2> QED BY <2>1 DEF InRing, NoBuf, DstBufs
<1>6. RingInv'
  BY <1>1, <1>2, <1>3, <1>5 DEF RingInv, PrevDstBuf
<1> QED BY <1>4, <1>6 DEF M2mInv

LEMMA RingArithmetic ==
  \A q \in DstBufs :
    /\ (q + 2) % 3 = Back(q, 1) /\ (q + 1) % 3 = Back(q, 2)
    /\ Back(q, 1) \in DstBufs /\ Back(q, 2) \in DstBufs
    /\ Back(q, 1) # q /\ Back(q, 2) # q /\ Back(q, 1) # Back(q, 2)
    /\ Back(Back(q, 1), 1) = Back(q, 2) /\ Back(Back(q, 2), 2) = Back(q, 1)
    /\ Back(Back(q, 1), 2) = q /\ Back(Back(q, 2), 1) = q
BY DEF Back, DstBufs

LEMMA M2mPresent ==
  ASSUME M2mInv, NEW d \in M2mDisplays, NEW delivered \in BOOLEAN, PresentComposed(d, delivered)
  PROVE  M2mInv'
<1>1. /\ M2mType /\ DetachedInv /\ ImagesInv /\ OwnerInv /\ RingInv
      /\ UNCHANGED <<mAssigned, mHWState, mPrevAssigned, mPrevFrame, engine, screen>>
      /\ inFlight[d] = NoneInFlight
      /\ inFlight' = [inFlight EXCEPT ![d] = IF delivered THEN validated[d] ELSE @]
      /\ validated' = [validated EXCEPT ![d] = NoneInFlight]
  BY DEF M2mInv, PresentComposed
<1>2. /\ NoneInFlight \in M2mFrames /\ ~InRing(NoneInFlight) /\ NoneInFlight.buf # OutOfRing
  BY DEF NoM2mFrame, NoneInFlight, M2mFrames, M2mImages, NoBuf, InRing, DstBufs, OutOfRing
<1>3. /\ validated' \in [M2mDisplays -> M2mFrames] /\ validated'[d] = NoneInFlight
      /\ \A e \in M2mDisplays \ {d} : validated'[e] = validated[e] /\ inFlight'[e] = inFlight[e]
      /\ inFlight' \in [M2mDisplays -> M2mFrames]
      /\ inFlight'[d] = IF delivered THEN validated[d] ELSE NoneInFlight
  BY <1>1, <1>2 DEF M2mType
<1>4. /\ mDstImgs' \in [DstBufs -> DstImgs] /\ mCurrentDstBuf' \in DstBufs
      /\ \A i \in DstBufs : mDstImgs'[i].image = mDstImgs[i].image
  <2>1. CASE validated[d].buf = NoBuf
    BY <1>1, <2>1 DEF PresentComposed, M2mType
  <2>2. CASE validated[d].buf # NoBuf
    <3> DEFINE fence == IF delivered THEN d ELSE None
    <3>1. fence \in Users /\ SetDstAcquireFence(fence) /\ mCurrentDstBuf' = (mCurrentDstBuf + 1) % 3
      BY <2>2 DEF Users, PresentComposed, IncreaseDstBuffIndex
    <3> HIDE DEF fence
    <3>2. mDstImgs' = mDstImgs \/ mDstImgs' = [mDstImgs EXCEPT ![mPrivDstBuf].acq = fence]
      BY <3>1 DEF SetDstAcquireFence
    <3>3. /\ mDstImgs' \in [DstBufs -> DstImgs]
          /\ \A i \in DstBufs : mDstImgs'[i].image = mDstImgs[i].image
      BY <1>1, <3>1, <3>2 DEF M2mType, DstImgs
    <3>4. mCurrentDstBuf' \in DstBufs
      BY <1>1, <3>1 DEF M2mType, DstBufs
    <3> QED BY <3>3, <3>4
  <2> QED BY <2>1, <2>2
<1>5. lost' \in BOOLEAN /\ (~lost' => ~lost)
  BY <1>1 DEF PresentComposed, M2mType
<1>6. M2mType' /\ DetachedInv' /\ OwnerInv'
  BY <1>1, <1>2, <1>3, <1>4, <1>5 DEF M2mType, DetachedInv, OwnerInv
<1>7. \A f, image : f \in M2mFrames /\ InRing(f) =>
        /\ Composing(f, engine, mDstImgs) => Composing(f, engine', mDstImgs')
        /\ HoldsImage(f.buf, image, engine, mDstImgs) => HoldsImage(f.buf, image, engine', mDstImgs')
  BY <1>1, <1>4 DEF Composing, HoldsImage, ComposedBy, InRing
<1>8. ImagesInv'
  <2> SUFFICES ASSUME NEW e \in M2mDisplays
      PROVE  /\ InRing(validated'[e]) =>
                  \/ Composing(validated'[e], engine', mDstImgs')
                  \/ validated'[e].ahead = 0 /\ SameImage(inFlight'[e], validated'[e])
             /\ InRing(inFlight'[e]) => Composing(inFlight'[e], engine', mDstImgs')
             /\ InRing(screen'[e]) => HoldsImage(screen'[e].buf, screen'[e].src, engine', mDstImgs')
    BY DEF ImagesInv
  <2>0. validated[e] \in M2mFrames /\ inFlight[e] \in M2mFrames /\ screen[e] \in M2mFrames
    BY <1>1 DEF M2mType
  <2>1. InRing(screen'[e]) => HoldsImage(screen'[e].buf, screen'[e].src, engine', mDstImgs')
    BY <1>1, <1>7, <2>0 DEF ImagesInv
  <2>2. CASE e # d
    BY <1>1, <1>3, <1>7, <2>0, <2>1, <2>2 DEF ImagesInv
  <2>3. CASE e = d
    <3>1. InRing(validated[d]) => Composing(validated[d], engine, mDstImgs)
      BY <1>1, <1>2 DEF ImagesInv, SameImage, InRing
    <3> QED BY <1>2, <1>3, <1>7, <2>0, <2>1, <2>3, <3>1
  <2> QED BY <2>2, <2>3
<1>9. RingInv'
  <2> SUFFICES ASSUME ~lost', NEW e \in M2mDisplays, e = mPrevAssigned
      PROVE  IF InRing(validated'[e])
             THEN /\ validated'[e].buf = mCurrentDstBuf'
                  /\ \/ PlacedAt(mCurrentDstBuf', screen'[e], inFlight'[e])
                     \/ PlacedAt(Back(mCurrentDstBuf', 2), screen'[e], inFlight'[e])
                  /\ mPrevFrame' = validated'[e].src
             ELSE /\ PlacedAt(mCurrentDstBuf', screen'[e], inFlight'[e])
                  /\ mPrevFrame' # None =>
                       \/ HoldsImage(PrevDstBuf', mPrevFrame', engine', mDstImgs')
                       \/ inFlight'[e].buf = PrevDstBuf' /\ inFlight'[e].src = mPrevFrame'
    BY <1>1 DEF RingInv
  <2>1. ~lost /\ mCurrentDstBuf \in DstBufs
    BY <1>1, <1>5 DEF M2mType
  <2>2. CASE ~InRing(validated[d])
    <3>1. validated[d].buf = NoBuf
      BY <1>1, <2>2 DEF DetachedInv, InRing, M2mType, M2mFrames, NoBuf, OutOfRing, DstBufs
    <3>2. UNCHANGED <<mCurrentDstBuf, mDstImgs>>
      BY <3>1 DEF PresentComposed
    <3>3. ~InRing(inFlight'[d])
      BY <1>2, <1>3, <2>2
    <3>4. CASE e # d
      BY <1>1, <1>3, <2>1, <3>2, <3>4 DEF RingInv, PrevDstBuf
    <3>5. CASE e = d
      <4>1. /\ PlacedAt(mCurrentDstBuf, screen[d], NoneInFlight)
            /\ mPrevFrame # None => HoldsImage(PrevDstBuf, mPrevFrame, engine, mDstImgs)
        <5>1. NoneInFlight.buf # PrevDstBuf
          BY <1>2, <2>1, RingArithmetic DEF PrevDstBuf, InRing
        <5> QED BY <1>1, <2>1, <2>2, <3>5, <5>1 DEF RingInv
      <4>2. PlacedAt(mCurrentDstBuf', screen'[d], inFlight'[d])
        BY <1>1, <1>2, <3>2, <3>3, <4>1 DEF PlacedAt
      <4>3. mPrevFrame' # None => HoldsImage(PrevDstBuf', mPrevFrame', engine', mDstImgs')
        BY <1>1, <3>2, <4>1 DEF PrevDstBuf
      <4> QED BY <1>2, <1>3, <3>5, <4>2, <4>3
    <3> QED BY <3>4, <3>5
  <2>3. CASE InRing(validated[d])
    <3>1. e = d
      BY <1>1, <2>3 DEF OwnerInv
    <3>0. validated[d].buf # NoBuf
      BY <2>3 DEF InRing, DstBufs, NoBuf
    <3>2. delivered /\ mCurrentDstBuf' = (mCurrentDstBuf + 1) % 3
      BY <3>0 DEF PresentComposed, IncreaseDstBuffIndex
    <3>3. /\ validated[d].buf = mCurrentDstBuf /\ mPrevFrame = validated[d].src
          /\ PlacedAt(mCurrentDstBuf, screen[d], NoneInFlight)
             \/ PlacedAt(Back(mCurrentDstBuf, 2), screen[d], NoneInFlight)
      BY <1>1, <2>1, <2>3, <3>1 DEF RingInv
    <3>4. mCurrentDstBuf' = Back(mCurrentDstBuf, 2) /\ PrevDstBuf' = mCurrentDstBuf
      BY <2>1, <3>2, RingArithmetic DEF PrevDstBuf
    <3>5. inFlight'[d] = validated[d] /\ validated'[d] = NoneInFlight
      BY <1>3, <3>2
    <3>6. PlacedAt(mCurrentDstBuf', screen'[d], inFlight'[d])
      <4> DEFINE c == mCurrentDstBuf
      <4>1. inFlight'[d].buf = c /\ InRing(inFlight'[d]) /\ screen'[d] = screen[d]
        BY <1>1, <2>3, <3>3, <3>5
      <4>2. InRing(screen[d]) => screen[d].buf = Back(c, 1) \/ screen[d].buf = Back(Back(c, 2), 1)
        BY <1>2, <3>3 DEF PlacedAt
      <4>3. /\ Back(Back(c, 2), 1) = c
            /\ Back(Back(c, 2), 2) = Back(c, 1)
        BY <2>1, RingArithmetic
      <4> QED BY <3>4, <4>1, <4>2, <4>3 DEF PlacedAt
    <3> QED BY <1>1, <1>2, <3>1, <3>3, <3>4, <3>5, <3>6
  <2> QED BY <2>2, <2>3
<1> QED BY <1>6, <1>8, <1>9 DEF M2mInv

LEMMA M2mFlip ==
  ASSUME M2mInv, NEW d \in M2mDisplays, Flip(d)
  PROVE  M2mInv'
<1>1. /\ M2mType /\ DetachedInv /\ ImagesInv /\ OwnerInv /\ RingInv
      /\ UNCHANGED <<mAssigned, mHWState, mCurrentDstBuf, mPrevAssigned, mPrevFrame, validated, lost>>
      /\ screen' = [screen EXCEPT ![d] = inFlight[d]]
      /\ inFlight' = [inFlight EXCEPT ![d] = NoneInFlight]
      /\ inFlight[d].ahead = 0
  BY DEF M2mInv, Flip
<1>2. /\ NoneInFlight \in M2mFrames /\ ~InRing(NoneInFlight) /\ NoneInFlight.buf # OutOfRing
  BY DEF NoM2mFrame, NoneInFlight, M2mFrames, M2mImages, NoBuf, InRing, DstBufs, OutOfRing
<1>3. /\ screen' \in [M2mDisplays -> M2mFrames] /\ screen'[d] = inFlight[d]
      /\ inFlight' \in [M2mDisplays -> M2mFrames] /\ inFlight'[d] = NoneInFlight
      /\ \A e \in M2mDisplays \ {d} : screen'[e] = screen[e] /\ inFlight'[e] = inFlight[e]
  BY <1>1, <1>2 DEF M2mType
<1>4. /\ mDstImgs' \in [DstBufs -> DstImgs]
      /\ \A i \in DstBufs : mDstImgs'[i].image = mDstImgs[i].image
  <2>1. mDstImgs' = [i \in DstBufs |-> [mDstImgs[i] EXCEPT !.acq = Signalled(@, d)]]
    BY DEF Flip
  <2>2. \A acq \in Users : Signalled(acq, d) \in Users
    BY DEF Signalled, Users
  <2> QED BY <1>1, <2>1, <2>2 DEF M2mType, DstImgs
<1>5. /\ engine' \in Seq(EngineJobs) /\ Len(engine') = Len(engine)
      /\ \A j \in 1 .. Len(engine) : engine'[j].buf = engine[j].buf /\ engine'[j].src = engine[j].src
  <2>1. engine' = [j \in 1 .. Len(engine) |-> [engine[j] EXCEPT !.acq = Signalled(@, d)]]
    BY DEF Flip
  <2>2. \A acq \in Users : Signalled(acq, d) \in Users
    BY DEF Signalled, Users
  <2>3. engine \in Seq(EngineJobs) /\ \A j \in 1 .. Len(engine) : engine[j] \in EngineJobs
    BY <1>1 DEF M2mType
  <2>4. engine' \in [1 .. Len(engine) -> EngineJobs]
    BY <2>1, <2>2, <2>3 DEF EngineJobs
  <2>5. engine' \in Seq(EngineJobs) /\ Len(engine') = Len(engine)
    BY <2>3, <2>4
  <2>6. \A j \in 1 .. Len(engine) : engine'[j].buf = engine[j].buf /\ engine'[j].src = engine[j].src
    BY <2>1, <2>3 DEF EngineJobs
  <2> QED BY <2>5, <2>6
<1>6. M2mType' /\ DetachedInv' /\ OwnerInv'
  BY <1>1, <1>2, <1>3, <1>4, <1>5 DEF M2mType, DetachedInv, OwnerInv
<1>7. \A f, image : f \in M2mFrames /\ InRing(f) =>
        /\ Composing(f, engine, mDstImgs) => Composing(f, engine', mDstImgs')
        /\ HoldsImage(f.buf, image, engine, mDstImgs) => HoldsImage(f.buf, image, engine', mDstImgs')
  <2>1. engine \in Seq(EngineJobs)
    BY <1>1 DEF M2mType
  <2>2. \A b : JobsIn(engine', b) = JobsIn(engine, b)
    BY <1>5, <2>1 DEF JobsIn
  <2>3. \A b : \A j \in JobsIn(engine, b) : engine'[j].src = engine[j].src
    BY <1>5, <2>1 DEF JobsIn
  <2> HIDE <1>5
  <2> QED BY <1>4, <2>2, <2>3 DEF Composing, HoldsImage, ComposedBy, InRing
<1>8. InRing(inFlight[d]) => HoldsImage(inFlight[d].buf, inFlight[d].src, engine, mDstImgs)
  BY <1>1 DEF ImagesInv, Composing, ComposedBy, JobsIn
<1>9. ImagesInv'
  <2> SUFFICES ASSUME NEW e \in M2mDisplays
      PROVE  /\ InRing(validated'[e]) =>
                  \/ Composing(validated'[e], engine', mDstImgs')
                  \/ validated'[e].ahead = 0 /\ SameImage(inFlight'[e], validated'[e])
             /\ InRing(inFlight'[e]) => Composing(inFlight'[e], engine', mDstImgs')
             /\ InRing(screen'[e]) => HoldsImage(screen'[e].buf, screen'[e].src, engine', mDstImgs')
    BY DEF ImagesInv
  <2>0. validated[e] \in M2mFrames /\ inFlight[e] \in M2mFrames /\ screen[e] \in M2mFrames
    BY <1>1 DEF M2mType
  <2>2. CASE e # d
    BY <1>1, <1>3, <1>7, <2>0, <2>2 DEF ImagesInv
  <2>3. CASE e = d
    <3>1. InRing(validated[d]) => Composing(validated[d], engine, mDstImgs)
      BY <1>1, <1>8 DEF ImagesInv, SameImage, InRing, Composing
    <3>2. InRing(screen'[e]) => HoldsImage(screen'[e].buf, screen'[e].src, engine', mDstImgs')
      BY <1>3, <1>7, <1>8, <2>0, <2>3
    <3> QED BY <1>1, <1>2, <1>3, <1>7, <2>0, <2>3, <3>1, <3>2
  <2> QED BY <2>2, <2>3
<1>10. RingInv'
  <2> SUFFICES ASSUME ~lost', NEW e \in M2mDisplays, e = mPrevAssigned
      PROVE  IF InRing(validated'[e])
             THEN /\ validated'[e].buf = mCurrentDstBuf'
                  /\ \/ PlacedAt(mCurrentDstBuf', screen'[e], inFlight'[e])
                     \/ PlacedAt(Back(mCurrentDstBuf', 2), screen'[e], inFlight'[e])
                  /\ mPrevFrame' = validated'[e].src
             ELSE /\ PlacedAt(mCurrentDstBuf', screen'[e], inFlight'[e])
                  /\ mPrevFrame' # None =>
                       \/ HoldsImage(PrevDstBuf', mPrevFrame', engine', mDstImgs')
                       \/ inFlight'[e].buf = PrevDstBuf' /\ inFlight'[e].src = mPrevFrame'
    BY <1>1 DEF RingInv
  <2>1. ~lost /\ mCurrentDstBuf \in DstBufs /\ PrevDstBuf' = PrevDstBuf /\ PrevDstBuf \in DstBufs
        /\ inFlight[e] \in M2mFrames
    BY <1>1 DEF M2mType, PrevDstBuf, DstBufs
  <2>2. \A q : PlacedAt(q, screen[e], inFlight[e]) => PlacedAt(q, screen'[e], inFlight'[e])
    BY <1>2, <1>3 DEF PlacedAt
  <2>3. \A image : HoldsImage(PrevDstBuf, image, engine, mDstImgs)
                     => HoldsImage(PrevDstBuf, image, engine', mDstImgs')
    <3>1. [NoneInFlight EXCEPT !.buf = PrevDstBuf] \in M2mFrames
          /\ [NoneInFlight EXCEPT !.buf = PrevDstBuf].buf = PrevDstBuf
      BY <1>2, <2>1 DEF M2mFrames, DstBufs
    <3> QED BY <1>7, <2>1, <3>1 DEF InRing
  <2>4. InRing(validated'[e]) => validated'[e].buf = mCurrentDstBuf' /\ mPrevFrame' = validated'[e].src
    BY <1>1, <2>1 DEF RingInv
  <2>5. ~InRing(validated'[e]) /\ mPrevFrame' # None =>
          \/ HoldsImage(PrevDstBuf', mPrevFrame', engine', mDstImgs')
          \/ inFlight'[e].buf = PrevDstBuf' /\ inFlight'[e].src = mPrevFrame'
    <3> SUFFICES ASSUME ~InRing(validated[e]), mPrevFrame # None
        PROVE  \/ HoldsImage(PrevDstBuf, mPrevFrame, engine', mDstImgs')
               \/ inFlight'[e].buf = PrevDstBuf /\ inFlight'[e].src = mPrevFrame
      BY <1>1, <2>1
    <3>1. \/ HoldsImage(PrevDstBuf, mPrevFrame, engine, mDstImgs)
          \/ inFlight[e].buf = PrevDstBuf /\ inFlight[e].src = mPrevFrame
      BY <1>1, <2>1 DEF RingInv
    <3>2. CASE HoldsImage(PrevDstBuf, mPrevFrame, engine, mDstImgs)
      BY <2>3, <3>2
    <3>3. CASE inFlight[e].buf = PrevDstBuf /\ inFlight[e].src = mPrevFrame
      <4>1. InRing(inFlight[e])
        BY <2>1, <3>3 DEF InRing
      <4> QED BY <1>3, <1>8, <2>3, <3>3, <4>1
    <3> QED BY <3>1, <3>2, <3>3
  <2> QED BY <1>1, <2>1, <2>2, <2>4, <2>5 DEF RingInv
<1> QED BY <1>6, <1>9, <1>10 DEF M2mInv

\* The engine finishes the first of its jobs.
LEMMA ImagesAfterJob ==
  ASSUME NEW jobs \in Seq(EngineJobs), jobs # <<>>, NEW imgs \in [DstBufs -> DstImgs],
         NEW more, more = IF Head(jobs).buf = OutOfRing THEN imgs
                          ELSE [imgs EXCEPT ![Head(jobs).buf].image = Head(jobs).src]
  PROVE  /\ more \in [DstBufs -> DstImgs]
         /\ \A b \in DstBufs : \A image :
              HoldsImage(b, image, jobs, imgs) => HoldsImage(b, image, Tail(jobs), more)
         /\ \A b \in DstBufs : \A image : ComposedBy(1, b, image, jobs) => HoldsImage(b, image, Tail(jobs), more)
         /\ \A b \in DstBufs, k \in Int : \A image : ComposedBy(k, b, image, jobs) /\ k # 1 =>
              k > 1 /\ ComposedBy(k - 1, b, image, Tail(jobs))
<1>1. /\ Head(jobs) = jobs[1] /\ jobs[1] \in EngineJobs
      /\ \A b, j : j \in JobsIn(Tail(jobs), b) <=> j \in Nat \ {0} /\ j + 1 \in JobsIn(jobs, b)
      /\ \A j \in 1 .. Len(Tail(jobs)) : Tail(jobs)[j] = jobs[j + 1]
  BY JobTaken
<1>2. jobs[1].buf \in 0 .. 3 /\ jobs[1].src \in M2mImages
  BY <1>1 DEF EngineJobs
<1>3. more \in [DstBufs -> DstImgs]
  BY <1>1, <1>2 DEF OutOfRing, DstBufs, DstImgs
<1>4. \A b \in DstBufs :
        more[b].image = IF jobs[1].buf = b THEN jobs[1].src ELSE imgs[b].image
  BY <1>1, <1>2 DEF OutOfRing, DstBufs, DstImgs
<1>5. \A b : jobs[1].buf = b <=> 1 \in JobsIn(jobs, b)
  BY DEF JobsIn
<1>6. ASSUME NEW b \in DstBufs, NEW image, HoldsImage(b, image, jobs, imgs)
      PROVE  HoldsImage(b, image, Tail(jobs), more)
  <2>1. JobsIn(Tail(jobs), b) = {}
    BY <1>1, <1>6 DEF HoldsImage
  <2> QED BY <1>4, <1>5, <1>6, <2>1 DEF HoldsImage
<1>7. ASSUME NEW b \in DstBufs, NEW image, ComposedBy(1, b, image, jobs)
      PROVE  HoldsImage(b, image, Tail(jobs), more)
  <2>1. JobsIn(Tail(jobs), b) = {}
    <3> SUFFICES ASSUME NEW j \in JobsIn(Tail(jobs), b) PROVE FALSE
      OBVIOUS
    <3>1. j \in Nat \ {0} /\ j + 1 \in JobsIn(jobs, b)
      BY <1>1
    <3> QED BY <1>7, <3>1 DEF ComposedBy
  <2> QED BY <1>4, <1>5, <1>7, <2>1 DEF HoldsImage, ComposedBy
<1>8. ASSUME NEW b \in DstBufs, NEW image, NEW k \in Int, ComposedBy(k, b, image, jobs), k # 1
      PROVE  k > 1 /\ ComposedBy(k - 1, b, image, Tail(jobs))
  <2>1. k \in JobsIn(jobs, b) /\ jobs[k].src = image /\ \A j \in JobsIn(jobs, b) : j <= k
    BY <1>8 DEF ComposedBy
  <2>2. k > 1
    BY <1>8, <2>1 DEF JobsIn
  <2>3. k - 1 \in JobsIn(Tail(jobs), b)
    <3>1. k - 1 \in Nat \ {0} /\ (k - 1) + 1 = k
      BY <2>2
    <3> QED BY <1>1, <2>1, <3>1
  <2>4. Tail(jobs)[k - 1].src = image
    <3>1. k - 1 \in 1 .. Len(Tail(jobs))
      BY <2>3 DEF JobsIn
    <3>2. (k - 1) + 1 = k
      OBVIOUS
    <3> QED BY <1>1, <2>1, <3>1, <3>2
  <2>5. \A j \in JobsIn(Tail(jobs), b) : j <= k - 1
    <3> TAKE j \in JobsIn(Tail(jobs), b)
    <3>1. j \in Nat \ {0} /\ j + 1 \in JobsIn(jobs, b)
      BY <1>1
    <3>2. j + 1 <= k
      BY <2>1, <3>1
    <3> QED BY <3>1, <3>2
  <2> QED BY <2>2, <2>3, <2>4, <2>5 DEF ComposedBy
<1> QED BY <1>3, <1>6, <1>7, <1>8

LEMMA M2mJobDone ==
  ASSUME M2mInv, JobDone
  PROVE  M2mInv'
<1>1. /\ M2mType /\ DetachedInv /\ ImagesInv /\ OwnerInv /\ RingInv
      /\ UNCHANGED <<mAssigned, mHWState, mCurrentDstBuf, mPrevAssigned, mPrevFrame, screen, lost>>
      /\ engine # <<>> /\ engine' = Tail(engine)
      /\ validated' = OneJobLess(validated) /\ inFlight' = OneJobLess(inFlight)
      /\ mDstImgs' = IF Head(engine).buf = OutOfRing THEN mDstImgs
                     ELSE [mDstImgs EXCEPT ![Head(engine).buf].image = Head(engine).src]
  BY DEF M2mInv, JobDone
<1>2. engine \in Seq(EngineJobs) /\ mDstImgs \in [DstBufs -> DstImgs]
  BY <1>1 DEF M2mType
<1>3. /\ mDstImgs' \in [DstBufs -> DstImgs]
      /\ \A b \in DstBufs : \A image :
           HoldsImage(b, image, engine, mDstImgs) => HoldsImage(b, image, engine', mDstImgs')
      /\ \A b \in DstBufs : \A image :
           ComposedBy(1, b, image, engine) => HoldsImage(b, image, engine', mDstImgs')
      /\ \A b \in DstBufs, k \in Int : \A image : ComposedBy(k, b, image, engine) /\ k # 1 =>
           k > 1 /\ ComposedBy(k - 1, b, image, engine')
  BY <1>1, <1>2, ImagesAfterJob
<1>4. \A f \in M2mFrames :
        LET g == [f EXCEPT !.ahead = IF @ > 0 THEN @ - 1 ELSE @]
        IN  /\ g \in M2mFrames /\ g.buf = f.buf /\ g.src = f.src /\ g.shows = f.shows
            /\ g.ahead = IF f.ahead > 0 THEN f.ahead - 1 ELSE f.ahead
  BY DEF M2mFrames
<1>5. ASSUME NEW frames \in [M2mDisplays -> M2mFrames]
      PROVE  /\ OneJobLess(frames) \in [M2mDisplays -> M2mFrames]
             /\ \A e \in M2mDisplays :
                  LET f == frames[e]
                      g == OneJobLess(frames)[e]
                  IN  /\ g \in M2mFrames /\ g.buf = f.buf /\ g.src = f.src /\ g.shows = f.shows
                      /\ g.ahead = IF f.ahead > 0 THEN f.ahead - 1 ELSE f.ahead
  <2>1. \A e \in M2mDisplays :
          OneJobLess(frames)[e] = [frames[e] EXCEPT !.ahead = IF @ > 0 THEN @ - 1 ELSE @]
    BY DEF OneJobLess
  <2>2. \A e \in M2mDisplays : frames[e] \in M2mFrames
    OBVIOUS
  <2>3. \A e \in M2mDisplays : OneJobLess(frames)[e] \in M2mFrames
    BY <1>4, <2>1, <2>2
  <2>4. OneJobLess(frames) \in [M2mDisplays -> M2mFrames]
    BY <2>3 DEF OneJobLess
  <2> QED BY <1>4, <2>1, <2>2, <2>4
<1>6. /\ validated' \in [M2mDisplays -> M2mFrames] /\ inFlight' \in [M2mDisplays -> M2mFrames]
      /\ \A e \in M2mDisplays :
           /\ validated'[e].buf = validated[e].buf /\ validated'[e].src = validated[e].src
           /\ inFlight'[e].buf = inFlight[e].buf /\ inFlight'[e].src = inFlight[e].src
           /\ inFlight'[e].shows = inFlight[e].shows
           /\ validated'[e].ahead = IF validated[e].ahead > 0 THEN validated[e].ahead - 1
                                    ELSE validated[e].ahead
           /\ inFlight'[e].ahead = IF inFlight[e].ahead > 0 THEN inFlight[e].ahead - 1
                                   ELSE inFlight[e].ahead
  BY <1>1, <1>5 DEF M2mType
<1>7. M2mType' /\ DetachedInv' /\ OwnerInv'
  <2>1. engine' \in Seq(EngineJobs)
    BY <1>1, <1>2
  <2>2. M2mType' /\ DetachedInv'
    BY <1>1, <1>3, <1>6, <2>1 DEF M2mType, DetachedInv, InRing
  <2>3. OwnerInv'
    BY <1>1, <1>6 DEF OwnerInv, InRing
  <2> QED BY <2>2, <2>3
<1>8. ASSUME NEW f \in M2mFrames, NEW g \in M2mFrames, InRing(f), Composing(f, engine, mDstImgs),
             g.buf = f.buf, g.src = f.src, g.ahead = IF f.ahead > 0 THEN f.ahead - 1 ELSE f.ahead
      PROVE  Composing(g, engine', mDstImgs')
  <2>1. f.buf \in DstBufs /\ f.ahead \in Int
    BY <1>8 DEF InRing, M2mFrames
  <2>2. CASE f.ahead = 0 /\ HoldsImage(f.buf, f.src, engine, mDstImgs)
    BY <1>3, <1>8, <2>1, <2>2 DEF Composing
  <2>3. CASE ComposedBy(f.ahead, f.buf, f.src, engine) /\ f.ahead = 1
    <3>1. HoldsImage(f.buf, f.src, engine', mDstImgs')
      BY <1>3, <2>1, <2>3
    <3>2. g.ahead = 0
      BY <1>8, <2>3
    <3> QED BY <1>8, <3>1, <3>2 DEF Composing
  <2>4. CASE ComposedBy(f.ahead, f.buf, f.src, engine) /\ f.ahead # 1
    <3>1. f.ahead > 1 /\ ComposedBy(f.ahead - 1, f.buf, f.src, engine')
      <4> DEFINE k == f.ahead
      <4>1. k \in Int /\ k # 1 /\ ComposedBy(k, f.buf, f.src, engine)
        BY <2>1, <2>4
      <4> HIDE DEF k
      <4>2. k > 1 /\ ComposedBy(k - 1, f.buf, f.src, engine')
        BY <1>3, <2>1, <4>1
      <4> QED BY <4>2 DEF k
    <3>2. g.ahead = f.ahead - 1
      BY <1>8, <2>1, <3>1
    <3> QED BY <1>8, <3>1, <3>2 DEF Composing
  <2> QED BY <1>8, <2>2, <2>3, <2>4 DEF Composing
<1>9. ImagesInv'
  <2> SUFFICES ASSUME NEW e \in M2mDisplays
      PROVE  /\ InRing(validated'[e]) =>
                  \/ Composing(validated'[e], engine', mDstImgs')
                  \/ validated'[e].ahead = 0 /\ SameImage(inFlight'[e], validated'[e])
             /\ InRing(inFlight'[e]) => Composing(inFlight'[e], engine', mDstImgs')
             /\ InRing(screen'[e]) => HoldsImage(screen'[e].buf, screen'[e].src, engine', mDstImgs')
    BY DEF ImagesInv
  <2>0. /\ validated[e] \in M2mFrames /\ inFlight[e] \in M2mFrames
        /\ validated'[e] \in M2mFrames /\ inFlight'[e] \in M2mFrames
    BY <1>1, <1>6 DEF M2mType
  <2>1. InRing(screen'[e]) => HoldsImage(screen'[e].buf, screen'[e].src, engine', mDstImgs')
    BY <1>1, <1>3 DEF ImagesInv, InRing
  <2>2. InRing(inFlight'[e]) => Composing(inFlight'[e], engine', mDstImgs')
    BY <1>1, <1>6, <1>8, <2>0 DEF ImagesInv, InRing
  <2>3. ASSUME InRing(validated'[e])
        PROVE  \/ Composing(validated'[e], engine', mDstImgs')
               \/ validated'[e].ahead = 0 /\ SameImage(inFlight'[e], validated'[e])
    <3>1. InRing(validated[e])
      BY <1>6, <2>3 DEF InRing
    <3>2. CASE Composing(validated[e], engine, mDstImgs)
      BY <1>6, <1>8, <2>0, <3>1, <3>2
    <3>3. CASE validated[e].ahead = 0 /\ SameImage(inFlight[e], validated[e])
      BY <1>6, <3>3 DEF SameImage
    <3> QED BY <1>1, <3>1, <3>2, <3>3 DEF ImagesInv
  <2> QED BY <2>1, <2>2, <2>3
<1>10. RingInv'
  <2>1. PrevDstBuf' = PrevDstBuf /\ PrevDstBuf \in DstBufs
    BY <1>1 DEF M2mType, PrevDstBuf, DstBufs
  <2>2. \A e \in M2mDisplays : \A q : PlacedAt(q, screen[e], inFlight[e])
                                    => PlacedAt(q, screen'[e], inFlight'[e])
    BY <1>1, <1>6 DEF PlacedAt, InRing
  <2>3. \A image : HoldsImage(PrevDstBuf, image, engine, mDstImgs)
                     => HoldsImage(PrevDstBuf, image, engine', mDstImgs')
    BY <1>3, <2>1
  <2> SUFFICES ASSUME ~lost', NEW e \in M2mDisplays, e = mPrevAssigned
      PROVE  IF InRing(validated'[e])
             THEN /\ validated'[e].buf = mCurrentDstBuf'
                  /\ \/ PlacedAt(mCurrentDstBuf', screen'[e], inFlight'[e])
                     \/ PlacedAt(Back(mCurrentDstBuf', 2), screen'[e], inFlight'[e])
                  /\ mPrevFrame' = validated'[e].src
             ELSE /\ PlacedAt(mCurrentDstBuf', screen'[e], inFlight'[e])
                  /\ mPrevFrame' # None =>
                       \/ HoldsImage(PrevDstBuf', mPrevFrame', engine', mDstImgs')
                       \/ inFlight'[e].buf = PrevDstBuf' /\ inFlight'[e].src = mPrevFrame'
    BY <1>1 DEF RingInv
  <2>4. InRing(validated'[e]) <=> InRing(validated[e])
    BY <1>6 DEF InRing
  <2>5. CASE InRing(validated[e])
    BY <1>1, <1>6, <2>2, <2>4, <2>5 DEF RingInv
  <2>6. CASE ~InRing(validated[e])
    BY <1>1, <1>6, <2>1, <2>2, <2>3, <2>4, <2>6 DEF RingInv
  <2> QED BY <2>5, <2>6
<1> QED BY <1>7, <1>9, <1>10 DEF M2mInv

\* The engine is given the job that composes s into the current buffer.
LEMMA JobGiven ==
  ASSUME M2mType, NEW d \in M2mDisplays, NEW s \in M2mImages, NEW failed \in BOOLEAN,
         NEW img \in DstImgs, NEW jobs \in Seq(EngineJobs), Len(jobs) = Len(engine),
         \A b \in DstBufs \ {mCurrentDstBuf} : JobsIn(jobs, b) = JobsIn(engine, b),
         \A j \in 1 .. Len(engine) : jobs[j].src = engine[j].src,
         Execute(d, s, img, jobs, failed)
  PROVE  /\ UNCHANGED mCurrentDstBuf
         /\ engine' \in Seq(EngineJobs) /\ mDstImgs' \in [DstBufs -> DstImgs]
         /\ \A b \in DstBufs \ {mCurrentDstBuf} :
              /\ JobsIn(engine', b) = JobsIn(engine, b)
              /\ mDstImgs'[b].image = mDstImgs[b].image
         /\ \A j \in 1 .. Len(engine) : engine'[j].src = engine[j].src
         /\ ~failed => ComposedBy(Len(engine) + 1, mCurrentDstBuf, s, engine')
<1> DEFINE job == [buf |-> mCurrentDstBuf, src |-> s, acq |-> img.acq]
<1>1. /\ UNCHANGED mCurrentDstBuf
      /\ engine' = IF failed THEN jobs ELSE Append(jobs, job)
      /\ mDstImgs' = [mDstImgs EXCEPT ![mCurrentDstBuf] = [img EXCEPT !.acq = None, !.display = d]]
  BY DEF Execute
<1>2. job \in EngineJobs /\ job.buf = mCurrentDstBuf /\ job.src = s
  BY DEF EngineJobs, M2mType, DstImgs, DstBufs
<1>3. [img EXCEPT !.acq = None, !.display = d] \in DstImgs
  <2>1. [img EXCEPT !.acq = None] \in DstImgs
    BY DEF DstImgs, Users
  <2>2. [img EXCEPT !.acq = None, !.display = d] = [[img EXCEPT !.acq = None] EXCEPT !.display = d]
    OBVIOUS
  <2> QED BY <2>1, <2>2 DEF DstImgs, Users
<1>4. /\ mDstImgs' \in [DstBufs -> DstImgs]
      /\ \A b \in DstBufs \ {mCurrentDstBuf} : mDstImgs'[b].image = mDstImgs[b].image
  BY <1>1, <1>3 DEF M2mType
<1> HIDE DEF job
<1>5. CASE failed
  BY <1>1, <1>4, <1>5
<1>6. CASE ~failed
  <2>1. /\ engine' \in Seq(EngineJobs)
        /\ \A b : JobsIn(engine', b) =
             JobsIn(jobs, b) \union (IF job.buf = b THEN {Len(jobs) + 1} ELSE {})
        /\ \A j \in 1 .. Len(jobs) : engine'[j] = jobs[j]
        /\ engine'[Len(jobs) + 1] = job
    BY <1>1, <1>2, <1>6, JobAppended
  <2>2. \A b \in DstBufs \ {mCurrentDstBuf} : JobsIn(engine', b) = JobsIn(engine, b)
    <3> TAKE b \in DstBufs \ {mCurrentDstBuf}
    <3>1. JobsIn(engine', b) = JobsIn(jobs, b) \union {}
      BY <1>2, <2>1
    <3>2. JobsIn(jobs, b) = JobsIn(engine, b)
      OBVIOUS
    <3> QED BY <3>1, <3>2
  <2>3. ComposedBy(Len(engine) + 1, mCurrentDstBuf, s, engine')
    <3>1. JobsIn(engine', mCurrentDstBuf) = JobsIn(jobs, mCurrentDstBuf) \union {Len(engine) + 1}
      BY <1>2, <2>1
    <3>2. Len(engine) \in Nat /\ \A j \in JobsIn(jobs, mCurrentDstBuf) : j <= Len(engine) + 1
      BY DEF JobsIn
    <3> QED BY <1>2, <2>1, <3>1, <3>2 DEF ComposedBy
  <2> QED BY <1>1, <1>4, <2>1, <2>2, <2>3
<1> QED BY <1>5, <1>6

LEMMA M2mComposed ==
  ASSUME M2mInv, ~ComposeAfterLoss,
         NEW d \in M2mDisplays, NEW failed \in BOOLEAN, NEW s \in M2mSources[d],
         ValidateComposed(d, s, failed)
  PROVE  M2mInv'
<1> DEFINE c == mCurrentDstBuf
<1>1. /\ M2mType /\ DetachedInv /\ ImagesInv /\ OwnerInv /\ RingInv
      /\ validated[d] = NoneInFlight /\ ~lost
      /\ IsAssignableState(d) /\ DoPostProcessing(d, s, failed)
      /\ mAssigned' = IF failed THEN None ELSE d
      /\ mHWState' = "running" /\ mPrevAssigned' = d /\ mPrevFrame' = s
      /\ lost' = (lost \/ failed)
  BY DEF M2mInv, ValidateComposed, SaveFrameInfo
<1>2. /\ NoneInFlight \in M2mFrames /\ ~InRing(NoneInFlight)
      /\ NoM2mFrame \in M2mFrames /\ ~InRing(NoM2mFrame) /\ NoM2mFrame.buf # OutOfRing
  BY DEF NoM2mFrame, NoneInFlight, M2mFrames, M2mImages, NoBuf, InRing, DstBufs, OutOfRing
<1>3. s \in M2mImages /\ s # None /\ c \in DstBufs
      /\ \A e \in M2mDisplays : e # None
  BY <1>1, M2mAssumption DEF M2mImages, AllSources, M2mType
<1>4. \A e \in M2mDisplays \ {d} : ~InRing(validated[e]) /\ ~InRing(inFlight[e]) /\ ~InRing(screen[e])
  BY <1>1, <1>3 DEF OwnerInv, IsAssignableState
<1>5. PlacedAt(c, screen[d], inFlight[d])
  <2>1. CASE d = mPrevAssigned
    BY <1>1, <1>2, <2>1 DEF RingInv
  <2>2. CASE d # mPrevAssigned
    BY <1>1, <2>2 DEF OwnerInv, PlacedAt
  <2> QED BY <2>1, <2>2
<1>6. \A e \in M2mDisplays : validated[e].buf # c /\ inFlight[e].buf # c /\ screen[e].buf # c
  <2>1. Back(c, 1) # c /\ Back(c, 2) # c
    BY <1>3, RingArithmetic
  <2>2. inFlight[d].buf # c /\ screen[d].buf # c
    BY <1>3, <1>5, <2>1 DEF PlacedAt, InRing
  <2>3. validated[d].buf # c
    BY <1>1, <1>2, <1>3 DEF InRing
  <2> QED BY <1>3, <1>4, <2>2, <2>3 DEF InRing
<1>7. CASE NeedDstBufRealloc(d, s) \/ ~CanUsePrevFrame(s)
  <2>1. /\ UNCHANGED <<mCurrentDstBuf, inFlight, screen>>
        /\ engine' \in Seq(EngineJobs) /\ mDstImgs' \in [DstBufs -> DstImgs]
        /\ \A b \in DstBufs \ {c} : /\ JobsIn(engine', b) = JobsIn(engine, b)
                                    /\ mDstImgs'[b].image = mDstImgs[b].image
        /\ \A j \in 1 .. Len(engine) : engine'[j].src = engine[j].src
        /\ ~failed => ComposedBy(Len(engine) + 1, c, s, engine')
        /\ validated' = [validated EXCEPT ![d] = ComposedFrame(s, failed)]
    <3>1. CASE NeedDstBufRealloc(d, s)
      <4> DEFINE out == {mCurrentDstBuf}
                 img == [EmptyImg EXCEPT !.secure = (s \in M2mSecure)]
      <4>1. AllocOutBuf(d, s, failed)
            /\ validated' = [DetachedFrames(validated, out) EXCEPT ![d] = ComposedFrame(s, failed)]
        BY <1>1, <3>1 DEF DoPostProcessing
      <4>2. Execute(d, s, img, DetachedJobs(out), failed)
            /\ inFlight' = DetachedFrames(inFlight, out)
            /\ screen' = DetachedFrames(screen, out)
        BY <4>1 DEF AllocOutBuf
      <4>3. \A frames \in [M2mDisplays -> M2mFrames] :
              (\A e \in M2mDisplays : frames[e].buf # c) => DetachedFrames(frames, out) = frames
        BY DEF DetachedFrames, Detached
      <4>4. /\ UNCHANGED <<inFlight, screen>>
            /\ validated' = [validated EXCEPT ![d] = ComposedFrame(s, failed)]
        BY <1>1, <1>6, <4>1, <4>2, <4>3 DEF M2mType
      <4>5. img \in DstImgs
        <5> DEFINE protected == (s \in M2mSecure)
        <5>1. protected \in BOOLEAN
          OBVIOUS
        <5>2. EmptyImg \in DstImgs
          BY DEF EmptyImg, DstImgs, Users, M2mImages
        <5> HIDE DEF protected
        <5>3. [EmptyImg EXCEPT !.secure = protected] \in DstImgs
          BY <5>1, <5>2 DEF DstImgs
        <5> QED BY <5>3 DEF protected
      <4>6. out \in SUBSET DstBufs /\ engine \in Seq(EngineJobs)
        BY <1>1, <1>3 DEF M2mType
      <4>7. /\ DetachedJobs(out) \in Seq(EngineJobs)
            /\ Len(DetachedJobs(out)) = Len(engine)
            /\ \A b \in DstBufs \ {c} : JobsIn(DetachedJobs(out), b) = JobsIn(engine, b)
            /\ \A j \in 1 .. Len(engine) : DetachedJobs(out)[j].src = engine[j].src
        <5> HIDE DEF out
        <5>1. \A b \in DstBufs : JobsIn(DetachedJobs(out), b) = IF b \in out THEN {} ELSE JobsIn(engine, b)
          BY <4>6, JobsDetached
        <5>2. \A b \in DstBufs \ {c} : b \notin out
          BY DEF out
        <5> QED BY <4>6, <5>1, <5>2, JobsDetached
      <4> HIDE DEF out, img
      <4> QED BY <1>1, <1>3, <4>2, <4>4, <4>5, <4>7, JobGiven
    <3>2. CASE ~NeedDstBufRealloc(d, s)
      <4>1. /\ Execute(d, s, mDstImgs[mCurrentDstBuf], engine, failed)
            /\ validated' = [validated EXCEPT ![d] = ComposedFrame(s, failed)]
            /\ UNCHANGED <<inFlight, screen>>
        BY <1>1, <1>7, <3>2 DEF DoPostProcessing
      <4>2. engine \in Seq(EngineJobs) /\ mDstImgs[mCurrentDstBuf] \in DstImgs
        BY <1>1 DEF M2mType
      <4> QED BY <1>1, <1>3, <4>1, <4>2, JobGiven
    <3> QED BY <3>1, <3>2
  <2>2. /\ ComposedFrame(s, failed) \in M2mFrames /\ ComposedFrame(s, failed).buf # OutOfRing
        /\ failed => ~InRing(ComposedFrame(s, failed))
        /\ ~failed => /\ InRing(ComposedFrame(s, failed)) /\ ComposedFrame(s, failed).buf = c
                      /\ ComposedFrame(s, failed).src = s
                      /\ ComposedFrame(s, failed).ahead = Len(engine) + 1
    <3>1. CASE failed
      BY <1>2, <3>1 DEF ComposedFrame
    <3>2. CASE ~failed
      <4>1. Len(engine) + 1 \in Int /\ c \in 0 .. 2
        BY <1>1, <1>3 DEF M2mType, DstBufs
      <4>2. ComposedFrame(s, failed) = [src |-> s, buf |-> c, ahead |-> Len(engine) + 1, shows |-> None]
        BY <3>2 DEF ComposedFrame
      <4> HIDE DEF c
      <4> QED BY <1>3, <3>2, <4>1, <4>2 DEF M2mFrames, M2mImages, InRing, DstBufs, OutOfRing
    <3> QED BY <3>1, <3>2
  <2>3. /\ validated' \in [M2mDisplays -> M2mFrames] /\ validated'[d] = ComposedFrame(s, failed)
        /\ \A e \in M2mDisplays \ {d} : validated'[e] = validated[e]
    BY <1>1, <2>1, <2>2 DEF M2mType
  <2>4. M2mType' /\ DetachedInv' /\ OwnerInv'
    <3>1. M2mType'
      BY <1>1, <2>1, <2>3 DEF M2mType
    <3>2. DetachedInv'
      BY <1>1, <1>4, <2>1, <2>2, <2>3 DEF DetachedInv
    <3>3. OwnerInv'
      BY <1>1, <1>4, <2>1, <2>3 DEF OwnerInv
    <3> QED BY <3>1, <3>2, <3>3
  <2>5. ASSUME NEW f, InRing(f), f.buf # c
        PROVE  /\ Composing(f, engine, mDstImgs) => Composing(f, engine', mDstImgs')
               /\ HoldsImage(f.buf, f.src, engine, mDstImgs) => HoldsImage(f.buf, f.src, engine', mDstImgs')
    <3>1. /\ JobsIn(engine', f.buf) = JobsIn(engine, f.buf)
          /\ mDstImgs'[f.buf].image = mDstImgs[f.buf].image
      BY <2>1, <2>5 DEF InRing
    <3>2. \A j \in JobsIn(engine, f.buf) : engine'[j].src = engine[j].src
      BY <2>1 DEF JobsIn
    <3> QED BY <3>1, <3>2 DEF Composing, HoldsImage, ComposedBy
  <2>6. ImagesInv'
    <3> SUFFICES ASSUME NEW e \in M2mDisplays
        PROVE  /\ InRing(validated'[e]) => Composing(validated'[e], engine', mDstImgs')
               /\ InRing(inFlight'[e]) => Composing(inFlight'[e], engine', mDstImgs')
               /\ InRing(screen'[e]) => HoldsImage(screen'[e].buf, screen'[e].src, engine', mDstImgs')
      BY DEF ImagesInv
    <3>1. InRing(inFlight'[e]) => Composing(inFlight'[e], engine', mDstImgs')
      BY <1>1, <1>6, <2>1, <2>5 DEF ImagesInv
    <3>2. InRing(screen'[e]) => HoldsImage(screen'[e].buf, screen'[e].src, engine', mDstImgs')
      BY <1>1, <1>6, <2>1, <2>5 DEF ImagesInv
    <3>3. ASSUME InRing(validated'[e]) PROVE Composing(validated'[e], engine', mDstImgs')
      BY <1>4, <2>1, <2>2, <2>3, <3>3 DEF Composing
    <3> QED BY <3>1, <3>2, <3>3
  <2>7. RingInv'
    BY <1>1, <1>5, <2>1, <2>2, <2>3 DEF RingInv
  <2> QED BY <2>4, <2>6, <2>7 DEF M2mInv
<1>8. CASE ~NeedDstBufRealloc(d, s) /\ CanUsePrevFrame(s)
  <2>1. /\ ~failed /\ mCurrentDstBuf' = PrevDstBuf
        /\ validated' = [validated EXCEPT ![d] = ReusedFrame(s)]
        /\ UNCHANGED <<engine, mDstImgs, inFlight, screen>>
        /\ mPrevAssigned = d /\ mPrevFrame = s
    BY <1>1, <1>8 DEF DoPostProcessing, NeedDstBufRealloc, CanUsePrevFrame
  <2>2. /\ PrevDstBuf = Back(c, 1) /\ PrevDstBuf \in DstBufs /\ Back(PrevDstBuf, 2) = c
    BY <1>3, RingArithmetic DEF PrevDstBuf
  <2>3. /\ ReusedFrame(s) \in M2mFrames /\ InRing(ReusedFrame(s)) /\ ReusedFrame(s).buf # OutOfRing
        /\ ReusedFrame(s).buf = PrevDstBuf /\ ReusedFrame(s).src = s /\ ReusedFrame(s).ahead = 0
    <3>1. PrevDstBuf \in 0 .. 2
      BY <2>2 DEF DstBufs
    <3> QED BY <1>3, <3>1 DEF ReusedFrame, M2mFrames, M2mImages, InRing, DstBufs, OutOfRing
  <2>4. /\ validated' \in [M2mDisplays -> M2mFrames] /\ validated'[d] = ReusedFrame(s)
        /\ \A e \in M2mDisplays \ {d} : validated'[e] = validated[e]
    BY <1>1, <2>1, <2>3 DEF M2mType
  <2>5. M2mType' /\ DetachedInv' /\ OwnerInv'
    <3>1. M2mType'
      BY <1>1, <2>1, <2>2, <2>4 DEF M2mType
    <3>2. DetachedInv'
      BY <1>1, <1>4, <2>1, <2>3, <2>4 DEF DetachedInv
    <3>3. OwnerInv'
      BY <1>1, <1>4, <2>1, <2>4 DEF OwnerInv
    <3> QED BY <3>1, <3>2, <3>3
  <2>6. \/ HoldsImage(PrevDstBuf, s, engine, mDstImgs)
        \/ inFlight[d].buf = PrevDstBuf /\ inFlight[d].src = s
    BY <1>1, <1>2, <1>3, <2>1 DEF RingInv
  <2>7. ImagesInv'
    <3>1. \/ Composing(validated'[d], engine', mDstImgs')
          \/ validated'[d].ahead = 0 /\ SameImage(inFlight'[d], validated'[d])
      BY <2>1, <2>3, <2>4, <2>6 DEF Composing, SameImage
    <3> QED BY <1>1, <1>4, <2>1, <2>4, <3>1 DEF ImagesInv
  <2>8. RingInv'
    <3>1. PlacedAt(Back(mCurrentDstBuf', 2), screen'[d], inFlight'[d])
      BY <1>5, <2>1, <2>2
    <3> QED BY <1>1, <2>1, <2>3, <2>4, <3>1 DEF RingInv
  <2> QED BY <2>5, <2>7, <2>8 DEF M2mInv
<1> QED BY <1>7, <1>8

(***************************************************************************)
(* Every screen shows the composition of its own frame's layers, for any   *)
(* displays and layers and any length of the engine's queue, as long as    *)
(* the MPP rests after a lost frame until its buffers are out of use: the  *)
(* engine never writes a buffer that is shown or about to be, and reuses a *)
(* result only for the layers it was composed from                         *)
(* (ExynosMPP::doPostProcessing, canUsePrevFrame, setDstAcquireFence,      *)
(* increaseDstBuffIndex; updateResourceState frees the buffers).           *)
(***************************************************************************)
THEOREM ScreensAlwaysShowTheirFrames ==
  ASSUME ~ComposeAfterLoss
  PROVE  M2mSpec => []ScreenShowsItsFrame
<1>1. M2mInit => M2mInv
  BY M2mInitInv
<1>2. M2mInv /\ [M2mNext]_m2mVars => M2mInv'
  <2> SUFFICES ASSUME M2mInv, [M2mNext]_m2mVars PROVE M2mInv'
    OBVIOUS
  <2>1. ASSUME NEW d \in M2mDisplays, NEW failed \in BOOLEAN, NEW s \in M2mSources[d],
               ValidateComposed(d, s, failed)
        PROVE  M2mInv'
    BY <2>1, M2mComposed
  <2>2. ASSUME NEW d \in M2mDisplays, NEW last \in BOOLEAN, ValidateDirect(d, last)
        PROVE  M2mInv'
    BY <2>2, M2mDirect
  <2>3. ASSUME NEW d \in M2mDisplays, NEW delivered \in BOOLEAN, PresentComposed(d, delivered)
        PROVE  M2mInv'
    BY <2>3, M2mPresent
  <2>4. ASSUME NEW d \in M2mDisplays, DropComposed(d)
        PROVE  M2mInv'
    BY <2>4, M2mDrop
  <2>5. ASSUME NEW d \in M2mDisplays, Flip(d)
        PROVE  M2mInv'
    BY <2>5, M2mFlip
  <2>6. CASE JobDone
    BY <2>6, M2mJobDone
  <2>7. CASE UNCHANGED m2mVars
    BY <2>7, M2mStutter
  <2> QED BY <2>1, <2>2, <2>3, <2>4, <2>5, <2>6, <2>7 DEF M2mNext
<1>3. M2mInv => ScreenShowsItsFrame
  <2> SUFFICES ASSUME M2mInv, NEW d \in M2mDisplays
      PROVE  /\ screen[d].buf = OutOfRing => screen[d].shows = screen[d].src
             /\ screen[d].buf \notin {NoBuf, OutOfRing} =>
                  mDstImgs[screen[d].buf].image = screen[d].src
    BY DEF ScreenShowsItsFrame
  <2>1. M2mType /\ DetachedInv /\ ImagesInv
    BY DEF M2mInv
  <2>2. screen[d].buf = OutOfRing => screen[d].shows = screen[d].src
    BY <2>1 DEF DetachedInv
  <2>3. ASSUME screen[d].buf \notin {NoBuf, OutOfRing}
        PROVE  mDstImgs[screen[d].buf].image = screen[d].src
    <3>1. InRing(screen[d])
      BY <2>1, <2>3 DEF M2mType, M2mFrames, InRing, DstBufs, NoBuf, OutOfRing
    <3> QED BY <2>1, <3>1 DEF ImagesInv, HoldsImage
  <2> QED BY <2>2, <2>3
<1> QED BY <1>1, <1>2, <1>3, PTL DEF M2mSpec

-----------------------------------------------------------------------------
(* The windows.                                                            *)

LEMMA DivMod ==
  ASSUME NEW x \in Int, NEW a \in Int, a > 0
  PROVE  /\ x \div a \in Int /\ x % a \in 0 .. a - 1
         /\ x = a * (x \div a) + (x % a)
<1>1. x = a * (x \div a) + (x % a)
  BY SMTT(30)
<1>2. x % a \in 0 .. a - 1
  OBVIOUS
<1>3. x \div a \in Int
  OBVIOUS
<1> QED BY <1>1, <1>2, <1>3

LEMMA Multiple ==
  ASSUME NEW k \in Int, NEW a \in Int, a > 0
  PROVE  (k * a) % a = 0
BY SMT

LEMMA AlignedDown ==
  ASSUME NEW x \in Int, NEW a \in Int, a > 0
  PROVE  /\ AlignDown(x, a) \in Int /\ AlignDown(x, a) % a = 0
         /\ AlignDown(x, a) <= x /\ x < AlignDown(x, a) + a
         /\ x % a = 0 => AlignDown(x, a) = x
<1> DEFINE k == x \div a
           m == x % a
           p == k * a
<1>1. k \in Int /\ m \in 0 .. a - 1 /\ x = a * k + m
  BY DivMod
<1> HIDE DEF k, m
<1>2. p % a = 0 /\ p \in Int /\ x = p + m
  BY <1>1, Multiple
<1>3. AlignDown(x, a) = p /\ m = x % a
  BY DEF AlignDown, k, m
<1> HIDE DEF p
<1> QED BY <1>1, <1>2, <1>3

LEMMA AlignedUp ==
  ASSUME NEW x \in Int, NEW a \in Int, a > 0
  PROVE  /\ AlignUp(x, a) \in Int /\ AlignUp(x, a) % a = 0
         /\ x <= AlignUp(x, a) /\ AlignUp(x, a) < x + a
<1>1. AlignUp(x, a) = AlignDown(x + a - 1, a)
  BY DEF AlignUp, AlignDown
<1> DEFINE y == x + a - 1
<1>2. y \in Int
  OBVIOUS
<1>3. AlignUp(x, a) = AlignDown(y, a) /\ y = x + a - 1
  BY <1>1
<1> HIDE DEF y
<1>4. /\ AlignDown(y, a) \in Int /\ AlignDown(y, a) % a = 0
      /\ AlignDown(y, a) <= y /\ y < AlignDown(y, a) + a
  BY <1>2, AlignedDown
<1> QED BY <1>3, <1>4

LEMMA AlignedUpStays ==
  ASSUME NEW x \in Int, NEW a \in Int, a > 0, x % a = 0
  PROVE  AlignUp(x, a) = x
<1> DEFINE u == AlignUp(x, a)
           i == x \div a
           j == u \div a
<1>1. u \in Int /\ u % a = 0 /\ x <= u /\ u < x + a
  BY AlignedUp
<1>2. i \in Int /\ j \in Int /\ x = a * i /\ u = a * j
  BY <1>1, DivMod
<1> HIDE DEF u, i, j
<1>3. a * i <= a * j /\ a * j < a * i + a
  BY <1>1, <1>2
<1>4. i = j
  BY <1>2, <1>3, SMTT(30)
<1> QED BY <1>2, <1>4 DEF u

LEMMA Aligned ==
  ASSUME NEW x \in Int, NEW y \in Int, NEW a \in Int, a > 0, x % a = 0, y % a = 0
  PROVE  (x + y) % a = 0 /\ (x - y) % a = 0
<1> DEFINE i == x \div a
           j == y \div a
<1>1. i \in Int /\ j \in Int /\ x = a * i /\ y = a * j
  BY DivMod
<1> HIDE DEF i, j
<1>2. x + y = (i + j) * a /\ x - y = (i - j) * a
  BY <1>1
<1>3. i + j \in Int /\ i - j \in Int
  BY <1>1
<1> QED BY <1>2, <1>3, Multiple

LEMMA UintStays ==
  ASSUME GeometryAssumption, NEW n \in Nat, n < UintWrap
  PROVE  Uint(n) = n
<1> DEFINE k == n \div UintWrap
           m == n % UintWrap
<1>1. UintWrap \in Int /\ UintWrap > 0
  BY DEF GeometryAssumption
<1>2. k \in Int /\ m \in 0 .. UintWrap - 1 /\ n = UintWrap * k + m
  BY <1>1, DivMod
<1> HIDE DEF k, m
<1>3. k = 0
  BY <1>1, <1>2, SMTT(30)
<1>4. m = n
  BY <1>1, <1>2, <1>3
<1> QED BY <1>4 DEF Uint, m

\* The width of a layer's window.
Kept(x, w, full, a) ==
  AlignDown(IF Trimmed(x, w, full) > Channel.max THEN Channel.max ELSE Trimmed(x, w, full), a)

(* A window that starts in its buffer and is trimmed to it and to the      *)
(* channel's largest size keeps at least one unit of the alignment.        *)
LEMMA TrimmedWindow ==
  ASSUME GeometryAssumption, NEW a \in Int, a > 0, NEW full \in Int, NEW x \in Int, NEW w \in Int, Channel.max \in Int,
         full % a = 0, x % a = 0, 0 <= x, x < full, full < UintWrap, a <= w, a <= Channel.max
  PROVE  /\ Kept(x, w, full, a) \in Int /\ Kept(x, w, full, a) > 0 /\ Kept(x, w, full, a) % a = 0
         /\ x + Kept(x, w, full, a) <= full /\ Kept(x, w, full, a) <= w
<1> DEFINE max == Channel.max
           v == Kept(x, w, full, a)
           t == Trimmed(x, w, full)
           u == IF t > max THEN max ELSE t
<1>1. full - x \in Nat /\ full - x < UintWrap
  BY DEF GeometryAssumption
<1>2. Uint(full - x) = full - x
  BY <1>1, UintStays
<1>3. t \in Int /\ x + t <= full /\ t <= w /\ (t = w \/ t = full - x)
  BY <1>2 DEF Trimmed
<1>4. (full - x) % a = 0
  BY Aligned
<1>5. full - x >= a
  <2> DEFINE n == full - x
             k == n \div a
  <2>1. n \in Int /\ n > 0 /\ n % a = 0
    BY <1>4
  <2>2. k \in Int /\ n = a * k
    BY <2>1, DivMod
  <2> HIDE DEF k
  <2>3. k >= 1
    BY <2>1, <2>2, SMTT(30)
  <2>4. a * k >= a
    BY <2>2, <2>3, SMTT(30)
  <2> QED BY <2>2, <2>4
<1>6. t >= a
  BY <1>3, <1>5
<1> HIDE DEF t
<1>7. u \in Int /\ u >= a /\ u <= t
  BY <1>3, <1>6
<1> HIDE DEF u
<1>8. AlignDown(u, a) \in Int /\ AlignDown(u, a) % a = 0 /\ AlignDown(u, a) <= u /\ u < AlignDown(u, a) + a
  BY <1>7, AlignedDown
<1>9. v = AlignDown(u, a)
  BY DEF t, u, Kept
<1> HIDE DEF v
<1>10. v \in Int /\ v > 0 /\ v % a = 0 /\ x + v <= full /\ v <= w
  BY <1>3, <1>7, <1>8, <1>9
<1> QED BY <1>10 DEF v

-----------------------------------------------------------------------------
GeoFields == {"at", "layer", "companion", "crop", "frame", "path", "mid", "windows", "ret"}
GeoImages == [x : Int, w : Int, full : Int, yuv : BOOLEAN, hdr : BOOLEAN, drm : BOOLEAN]

ChannelAlign(yuv) == SizeAlign(Channel, yuv)
VideoAlign == ChannelAlign(TRUE)

(* After doPreProcess: the crop is within the layer's, and a video's is    *)
(* aligned for a channel.                                                  *)
Prepared ==
  /\ geo.crop \in Int \X Int /\ geo.frame \in Int \X Int
  /\ geo.frame[1] < geo.frame[2]
  /\ geo.layer.crop[1] <= geo.crop[1] /\ geo.crop[2] <= geo.layer.crop[2]
  /\ geo.layer.yuv => geo.crop[1] % VideoAlign = 0 /\ Width(geo.crop) % VideoAlign = 0
  /\ ~geo.layer.yuv => geo.crop = geo.layer.crop

(* After the assignment: what a channel shows was accepted for it.         *)
Accepted ==
  /\ geo.path \in {"otf", "m2m", "exynos", "client"}
  /\ geo.path \in {"otf", "m2m"} => OnDisplay(geo.frame)
  /\ geo.path = "otf" => IsSupported(Channel, SrcImage, DstImage)
  /\ geo.path = "m2m" => /\ geo.mid \in GeoImages /\ geo.mid.x = 0 /\ geo.mid.full = mXres
                         /\ IsSupported(Channel, geo.mid, DstImage)

ReadsInside(c) ==
  /\ c.x + c.w <= c.full
  /\ (geo.path = "otf" /\ c.of = "layer") =>
       /\ c.x >= geo.layer.crop[1]
       /\ geo.layer.yuv \/ ~geo.layer.drm => c.x + c.w <= geo.layer.crop[2]
       /\ c.x + c.w < geo.layer.crop[2] + Channel.align

ShowsWhole(c) ==
  c.of # "layer" => \A s \in Composed(c.of) :
    Clipped(s)[1] < Clipped(s)[2] => c.dst[1] <= Clipped(s)[1] /\ Clipped(s)[2] <= c.dst[2]

WindowOk(c) == WindowIsValid(c) /\ ReadsInside(c) /\ ShowsWhole(c)

GeoInv ==
  /\ DOMAIN geo = GeoFields /\ geo.layer \in GeoLayers /\ geo.companion \in Companions
  /\ geo.at \in {"prepare", "assign", "configure", "deliver", "done"}
  /\ geo.ret = IF geo.at = "done" THEN "shown" ELSE "none"
  /\ geo.at = "prepare" => geo.crop = geo.layer.crop /\ geo.frame = geo.layer.frame
  /\ geo.at \in {"assign", "configure"} => Prepared
  /\ geo.at = "configure" => Accepted
  /\ geo.at \in {"deliver", "done"} => geo.windows # {} /\ \A c \in geo.windows : WindowOk(c)

\* The code shows the targets on displays of a width a channel can align.
DisplayIsAligned == mXres % Channel.align = 0

LEMMA ChannelFacts ==
  ASSUME GeometryAssumption
  PROVE  /\ Channel \in Capabilities
         /\ Channel.min \in Int /\ Channel.max \in Int /\ Channel.align \in Int /\ Channel.align > 0
         /\ Channel.min >= 2 * Channel.align /\ Channel.max < UintWrap
         /\ VideoAlign \in Int /\ VideoAlign > 0 /\ Channel.min >= 2 * VideoAlign
BY DEF GeometryAssumption, Capabilities, VideoAlign, ChannelAlign, SizeAlign, Larger, Subsample

\* The alignment of an image, or of a layer, which also have a field yuv.
LEMMA ImageAlign ==
  ASSUME GeometryAssumption, NEW i, i.yuv \in BOOLEAN
  PROVE  /\ ChannelAlign(i.yuv) \in Int /\ ChannelAlign(i.yuv) > 0
         /\ Channel.min >= 2 * ChannelAlign(i.yuv)
         /\ MaxFull(Channel, i.yuv) = Channel.max
         /\ i.yuv => ChannelAlign(i.yuv) = VideoAlign
         /\ ~i.yuv => ChannelAlign(i.yuv) = Channel.align
<1>1. Channel.align \in Nat \ {0} /\ Channel.min \in Nat /\ Channel.max \in Nat
  BY DEF GeometryAssumption, Capabilities
<1>2. TargetStride \in Int /\ TargetStride <= Channel.max
  BY DEF GeometryAssumption
<1>3. Channel.min >= 2 * Larger(Channel.align, Subsample)
  BY DEF GeometryAssumption
<1>4. CASE i.yuv
  BY <1>1, <1>2, <1>3, <1>4 DEF VideoAlign, ChannelAlign, SizeAlign, Larger, Subsample, MaxFull
<1>5. CASE ~i.yuv
  BY <1>1, <1>2, <1>3, <1>5 DEF VideoAlign, ChannelAlign, SizeAlign, Larger, Subsample, MaxFull
<1> QED BY <1>4, <1>5

LEMMA LayerFacts ==
  ASSUME GeometryAssumption, NEW l \in GeoLayers
  PROVE  /\ l.yuv \in BOOLEAN /\ l.drm \in BOOLEAN /\ l.hdr \in BOOLEAN /\ l.stride \in Nat
         /\ l.crop \in Nat \X Nat /\ l.frame \in Int \X Int
         /\ l.crop[1] \in Nat /\ l.crop[2] \in Nat /\ l.crop = <<l.crop[1], l.crop[2]>>
         /\ l.frame[1] \in Int /\ l.frame[2] \in Int
         /\ l.crop[1] < l.crop[2] /\ l.crop[2] <= l.stride /\ l.frame[1] < l.frame[2]
BY DEF GeometryAssumption, LayerShapes

LEMMA PrepareKeepsGeo ==
  ASSUME GeometryAssumption, GeoInv, PrepareLayer
  PROVE  GeoInv'
<1> DEFINE l == geo.layer
           crop == IF l.yuv THEN AlignedCrop(l.crop) ELSE l.crop
           frame == IF l.yuv /\ (l.drm \/ l.hdr) THEN WidenedFrame(l.frame) ELSE l.frame
<1>1. /\ geo.at = "prepare" /\ geo.crop = l.crop /\ geo.frame = l.frame /\ l \in GeoLayers
      /\ DOMAIN geo = GeoFields /\ geo.companion \in Companions /\ geo.ret = "none"
  BY DEF GeoInv, PrepareLayer
<1>2. geo' = [geo EXCEPT !.at = "assign", !.crop = crop, !.frame = frame]
  BY <1>1 DEF PrepareLayer
<1> HIDE DEF crop, frame
<1>3. /\ DOMAIN geo' = GeoFields /\ geo'.at = "assign" /\ geo'.layer = l /\ geo'.companion = geo.companion
      /\ geo'.ret = "none" /\ geo'.crop = crop /\ geo'.frame = frame
  BY <1>1, <1>2 DEF GeoFields
<1>4. /\ l.yuv \in BOOLEAN /\ l.crop \in Nat \X Nat /\ l.frame \in Int \X Int
      /\ l.crop[1] \in Nat /\ l.crop[2] \in Nat /\ l.frame[1] \in Int /\ l.frame[2] \in Int
      /\ l.crop[1] < l.crop[2] /\ l.frame[1] < l.frame[2] /\ l.crop = <<l.crop[1], l.crop[2]>>
  BY <1>1, LayerFacts
<1>0. /\ VideoAlign \in Int /\ VideoAlign > 0
      /\ Channel.min \in Int /\ Channel.min > 0 /\ mXres \in Int
  <2>1. Channel.min \in Int /\ VideoAlign \in Int /\ VideoAlign > 0 /\ Channel.min >= 2 * VideoAlign
    BY ChannelFacts
  <2>2. mXres \in Int
    BY DEF GeometryAssumption
  <2> QED BY <2>1, <2>2
<1>5. /\ crop \in Int \X Int /\ l.crop[1] <= crop[1] /\ crop[2] <= l.crop[2]
      /\ l.yuv => crop[1] % VideoAlign = 0 /\ Width(crop) % VideoAlign = 0
      /\ ~l.yuv => crop = l.crop
  <2>1. CASE ~l.yuv
    <3>1. crop = <<l.crop[1], l.crop[2]>> /\ crop = l.crop
      BY <1>4, <2>1 DEF crop
    <3> QED BY <1>4, <2>1, <3>1
  <2>2. CASE l.yuv
    <3> DEFINE a == VideoAlign
               left == AlignUp(l.crop[1], a)
               w == AlignDown(l.crop[2] - left, a)
    <3>1. a \in Int /\ a > 0 /\ l.crop[1] \in Int
      BY <1>0, <1>4
    <3>2. crop = <<left, left + w>>
      BY <2>2 DEF crop, AlignedCrop, VideoAlign, ChannelAlign
    <3> HIDE DEF a
    <3>3. left \in Int /\ left % a = 0 /\ l.crop[1] <= left
      BY <3>1, AlignedUp
    <3> HIDE DEF left
    <3>4. l.crop[2] - left \in Int
      BY <1>4, <3>3
    <3>5. w \in Int /\ w % a = 0 /\ w <= l.crop[2] - left
      BY <3>1, <3>4, AlignedDown
    <3> HIDE DEF w
    <3>6. crop \in Int \X Int /\ crop[1] = left /\ crop[2] = left + w
      BY <3>2, <3>3, <3>5
    <3>7. Width(crop) = w
      BY <3>3, <3>5, <3>6 DEF Width
    <3>8. l.crop[1] <= crop[1] /\ crop[2] <= l.crop[2]
      BY <1>4, <3>3, <3>5, <3>6
    <3>9. crop[1] % a = 0 /\ Width(crop) % a = 0
      BY <3>3, <3>5, <3>6, <3>7
    <3> QED BY <2>2, <3>6, <3>8, <3>9 DEF a
  <2> QED BY <1>4, <2>1, <2>2
<1>6. frame \in Int \X Int /\ frame[1] < frame[2]
  <2>1. CASE frame = l.frame
    BY <1>4, <2>1
  <2>2. CASE frame = WidenedFrame(l.frame) /\ Width(l.frame) < Channel.min
    <3> DEFINE w == AlignUp(Width(l.frame), Channel.min)
    <3>1. Channel.min \in Int /\ Channel.min > 0 /\ Width(l.frame) \in Int /\ Width(l.frame) > 0
      BY <1>0, <1>4 DEF Width
    <3>2. w \in Int /\ w >= Width(l.frame)
      BY <3>1, AlignedUp
    <3>3. frame = IF l.frame[1] + w > mXres THEN <<mXres - w, mXres>> ELSE <<l.frame[1], l.frame[1] + w>>
      BY <2>2, <3>1 DEF WidenedFrame
    <3> HIDE DEF w
    <3> QED BY <1>0, <1>4, <3>1, <3>2, <3>3
  <2>3. Width(l.frame) \in Int /\ Channel.min \in Int
    BY <1>0, <1>4 DEF Width
  <2> QED BY <2>1, <2>2, <2>3 DEF frame, WidenedFrame
<1>7. Prepared'
  BY <1>3, <1>5, <1>6 DEF Prepared
<1> QED BY <1>1, <1>3, <1>7 DEF GeoInv

LEMMA SourceImages ==
  ASSUME GeometryAssumption, geo.layer \in GeoLayers, Prepared
  PROVE  /\ SrcImage \in GeoImages /\ DstImage \in GeoImages
         /\ SrcImage.x = geo.crop[1] /\ SrcImage.w = geo.crop[2] - geo.crop[1]
         /\ SrcImage.full = geo.layer.stride
         /\ SrcImage.yuv = geo.layer.yuv /\ SrcImage.drm = geo.layer.drm
<1>1. /\ geo.layer.yuv \in BOOLEAN /\ geo.layer.drm \in BOOLEAN /\ geo.layer.hdr \in BOOLEAN
      /\ geo.layer.stride \in Int
  BY LayerFacts
<1>2. geo.crop[1] \in Int /\ geo.crop[2] \in Int /\ geo.frame[1] \in Int /\ geo.frame[2] \in Int
  BY DEF Prepared
<1>3. mXres \in Int
  BY DEF GeometryAssumption
<1> QED BY <1>1, <1>2, <1>3 DEF SrcImage, DstImage, GeoImages, Width

LEMMA AlignedImageFacts ==
  ASSUME GeometryAssumption, NEW img \in GeoImages, NEW m2m \in BOOLEAN, NEW otf \in BOOLEAN
  PROVE  /\ AlignedImage(img, m2m, otf) \in GeoImages
         /\ AlignedImage(img, m2m, otf).x = img.x /\ AlignedImage(img, m2m, otf).full = img.full
<1> DEFINE a == Larger(IF otf THEN SizeAlign(Channel, img.yuv) ELSE 1,
                       IF m2m THEN SizeAlign(Scaler, img.yuv) ELSE 1)
           w == AlignUp(img.w, a)
<1>1. img.w \in Int /\ img.yuv \in BOOLEAN
  BY DEF GeoImages
<1>2. a \in Int /\ a > 0
  <2>1. Channel.align \in Nat \ {0} /\ Scaler.align \in Nat \ {0}
    BY DEF GeometryAssumption, Capabilities
  <2> QED BY <1>1, <2>1 DEF Larger, SizeAlign, Subsample
<1> HIDE DEF a
<1>3. w \in Int
  BY <1>1, <1>2, AlignedUp
<1>4. AlignedImage(img, m2m, otf) = [img EXCEPT !.w = w]
  BY DEF AlignedImage, a
<1> HIDE DEF w
<1> QED BY <1>3, <1>4 DEF GeoImages

LEMMA Candidates ==
  ASSUME GeometryAssumption, geo.layer \in GeoLayers, NEW src \in GeoImages, NEW dst \in GeoImages,
         NEW mid \in CandidateImages(src, dst)
  PROVE  mid \in GeoImages /\ mid.x = 0 /\ mid.full = mXres
<1>1. geo.layer.drm \in BOOLEAN /\ mXres \in Int
  BY LayerFacts DEF GeometryAssumption
<1>2. \A w \in Int, yuv \in BOOLEAN, hdr \in BOOLEAN :
        MidImage(w, yuv, hdr) \in GeoImages /\ MidImage(w, yuv, hdr).x = 0 /\ MidImage(w, yuv, hdr).full = mXres
  BY <1>1 DEF MidImage, GeoImages
<1>3. src.w \in Int /\ dst.w \in Int /\ src.yuv \in BOOLEAN /\ src.hdr \in BOOLEAN
  BY DEF GeoImages
<1>4. CASE mid \in ScaledImages(src, dst)
  <2> DEFINE wide(w, m2m, otf) == AlignedImage(MidImage(w, src.yuv, src.hdr), m2m, otf)
             Sizes == {CeilDiv(dst.w, Channel.up), src.w, CeilDiv(src.w, Scaler.down), dst.w}
  <2>1. PICK w \in Sizes : \E m2m \in BOOLEAN, otf \in BOOLEAN : mid = wide(w, m2m, otf)
    <3> DEFINE upTwice == src.w * Channel.up < dst.w
               m2mUp == Scaler.up * src.w * Channel.up > dst.w
               downTwice == dst.w * Scaler.down < src.w
               otfDown == Channel.down * dst.w >= src.w \div Scaler.down
               up == IF upTwice THEN CeilDiv(dst.w, Channel.up) ELSE src.w
               down == IF downTwice THEN CeilDiv(src.w, Scaler.down) ELSE dst.w
    <3>1. mid = wide(up, m2mUp, Channel.up > 1) \/ mid = wide(down, Scaler.down > 1, otfDown)
      BY <1>4 DEF ScaledImages
    <3>2. up \in Sizes /\ down \in Sizes
      OBVIOUS
    <3>3. m2mUp \in BOOLEAN /\ otfDown \in BOOLEAN /\ (Channel.up > 1) \in BOOLEAN /\ (Scaler.down > 1) \in BOOLEAN
      OBVIOUS
    <3> HIDE DEF wide, Sizes, up, down, m2mUp, otfDown
    <3> QED BY <3>1, <3>2, <3>3, Zenon
  <2>2. w \in Int
    <3>1. Channel.up \in Nat \ {0} /\ Scaler.down \in Nat \ {0}
      BY DEF GeometryAssumption, Capabilities
    <3>2. \A x \in Int, b \in Nat \ {0} : CeilDiv(x, b) \in Int
      BY DivMod DEF CeilDiv
    <3> QED BY <1>3, <2>1, <3>1, <3>2
  <2>3. MidImage(w, src.yuv, src.hdr) \in GeoImages /\ MidImage(w, src.yuv, src.hdr).x = 0
        /\ MidImage(w, src.yuv, src.hdr).full = mXres
    BY <1>2, <1>3, <2>2
  <2> QED BY <2>1, <2>3, AlignedImageFacts
<1>5. CASE mid \in {MidImage(dst.w, src.yuv, src.hdr), MidImage(dst.w, FALSE, FALSE)}
  <2>1. CASE mid = MidImage(dst.w, src.yuv, src.hdr)
    BY <1>2, <1>3, <2>1
  <2>2. CASE mid = MidImage(dst.w, FALSE, FALSE)
    <3>1. mid = [x |-> 0, w |-> dst.w, full |-> mXres, yuv |-> FALSE, hdr |-> FALSE, drm |-> geo.layer.drm]
      BY <2>2 DEF MidImage
    <3> QED BY <1>1, <1>3, <3>1 DEF GeoImages
  <2> QED BY <1>5, <2>1, <2>2
<1>6. CASE mid = MidImage(AlignUp(dst.w, SizeAlign(Channel, src.yuv)), src.yuv, TRUE)
  <2> DEFINE a == SizeAlign(Channel, src.yuv)
  <2>1. a \in Int /\ a > 0
    BY <1>3, ImageAlign DEF ChannelAlign
  <2> HIDE DEF a
  <2>2. AlignUp(dst.w, a) \in Int
    BY <1>3, <2>1, AlignedUp
  <2> QED BY <1>2, <1>3, <1>6, <2>2 DEF a
<1> QED BY <1>4, <1>5, <1>6 DEF CandidateImages

LEMMA AssignKeepsGeo ==
  ASSUME GeometryAssumption, GeoInv, NEW path \in {"otf", "m2m", "exynos", "client"}, NEW mid, AssignPath(path, mid)
  PROVE  GeoInv'
<1>1. /\ DOMAIN geo = GeoFields /\ geo.layer \in GeoLayers /\ geo.companion \in Companions
      /\ geo.at = "assign" /\ geo.ret = "none" /\ Prepared
      /\ geo' = [geo EXCEPT !.at = "configure", !.path = path, !.mid = mid]
      /\ \/ path = "otf" /\ ValidLayer /\ ToChannel
         \/ path = "m2m" /\ ValidLayer /\ mid \in ToScaler
         \/ path \in {"exynos", "client"}
  BY DEF GeoInv, AssignPath
<1>2. /\ DOMAIN geo' = GeoFields /\ geo'.at = "configure" /\ geo'.layer = geo.layer /\ geo'.ret = "none"
      /\ geo'.companion = geo.companion /\ geo'.crop = geo.crop /\ geo'.frame = geo.frame
      /\ geo'.path = path /\ geo'.mid = mid
  BY <1>1 DEF GeoFields
<1>3. Prepared'
  BY <1>1, <1>2 DEF Prepared
<1>4. SrcImage' = SrcImage /\ DstImage' = DstImage
  BY <1>2 DEF SrcImage, DstImage
<1>5. SrcImage \in GeoImages /\ DstImage \in GeoImages
  BY <1>1, SourceImages
<1>6. Accepted'
  <2>1. CASE path = "otf"
    BY <1>1, <1>2, <1>4, <2>1 DEF Accepted, ValidLayer, ToChannel, IsSupported
  <2>2. CASE path = "m2m"
    <3>1. mid \in CandidateImages(SrcImage, DstImage) /\ IsSupported(Channel, mid, DstImage) /\ ValidLayer
      BY <1>1, <2>2 DEF ToScaler
    <3>2. mid \in GeoImages /\ mid.x = 0 /\ mid.full = mXres
      BY <1>1, <1>5, <3>1, Candidates
    <3>3. IsSupported(Channel, mid, DstImage')
      BY <1>4, <3>1
    <3> QED BY <1>2, <2>2, <3>1, <3>2, <3>3 DEF Accepted, ValidLayer
  <2>3. CASE path \in {"exynos", "client"}
    BY <1>2, <2>3 DEF Accepted
  <2> QED BY <2>1, <2>2, <2>3
<1> QED BY <1>1, <1>2, <1>3, <1>6 DEF GeoInv

(* What configureHandle makes of w0 pixels from x0 in f0 ones.             *)
LEMMA WindowOfSource ==
  ASSUME GeometryAssumption, NEW a \in Int, a > 0, NEW x0 \in Nat, NEW w0 \in Int, NEW f0 \in Nat,
         f0 <= Channel.max, w0 >= Channel.min, Channel.max >= Channel.min, Channel.min >= 2 * a, x0 + 2 * a <= f0
  PROVE  LET x == AlignUp(x0, a)
             full == AlignDown(f0, a)
             w == Kept(x, w0, full, a)
         IN  /\ x \in Int /\ full \in Int /\ x % a = 0
             /\ x >= x0 /\ x < x0 + a /\ (x0 % a = 0 => x = x0)
             /\ w \in Int /\ w > 0 /\ w % a = 0 /\ w <= w0 /\ x + w <= full
<1> DEFINE x == AlignUp(x0, a)
           full == AlignDown(f0, a)
           w == Kept(x, w0, full, a)
<1>1. /\ Channel.min \in Int /\ Channel.max \in Int /\ Channel.max < UintWrap
      /\ x0 \in Int /\ f0 \in Int /\ UintWrap \in Int
  BY ChannelFacts DEF GeometryAssumption
<1>2. full \in Int /\ full % a = 0 /\ full <= f0 /\ f0 < full + a
  BY <1>1, AlignedDown
<1>3. x \in Int /\ x % a = 0 /\ x0 <= x /\ x < x0 + a /\ (x0 % a = 0 => x = x0)
  BY <1>1, AlignedUp, AlignedUpStays
<1> HIDE DEF x, full
<1>4. 0 <= x /\ x < full /\ full < UintWrap /\ a <= w0 /\ a <= Channel.max
  BY <1>1, <1>2, <1>3
<1>5. \A x1 \in Int, f1 \in Int :
        f1 % a = 0 /\ x1 % a = 0 /\ 0 <= x1 /\ x1 < f1 /\ f1 < UintWrap =>
          /\ Kept(x1, w0, f1, a) \in Int /\ Kept(x1, w0, f1, a) > 0 /\ Kept(x1, w0, f1, a) % a = 0
          /\ x1 + Kept(x1, w0, f1, a) <= f1 /\ Kept(x1, w0, f1, a) <= w0
  BY <1>1, <1>4, TrimmedWindow
<1>6. w \in Int /\ w > 0 /\ w % a = 0 /\ w <= w0 /\ x + w <= full
  BY <1>2, <1>3, <1>4, <1>5
<1> HIDE DEF w
<1>7. /\ x \in Int /\ full \in Int /\ x % a = 0
      /\ x >= x0 /\ x < x0 + a /\ (x0 % a = 0 => x = x0)
      /\ w \in Int /\ w > 0 /\ w % a = 0 /\ w <= w0 /\ x + w <= full
  BY <1>2, <1>3, <1>6
<1> QED BY <1>7 DEF x, full, w

LEMMA LayerWindowIsOk ==
  ASSUME GeometryAssumption, geo.layer \in GeoLayers, Prepared, Accepted, geo.path \in {"otf", "m2m"}
  PROVE  WindowOk(LayerWindow)
<1> DEFINE c == LayerWindow
           s == SourceOfWindow
           a == ChannelAlign(s.yuv)
           l == geo.layer
<1>1. /\ SrcImage \in GeoImages /\ DstImage \in GeoImages
      /\ SrcImage.x = geo.crop[1] /\ SrcImage.w = geo.crop[2] - geo.crop[1] /\ SrcImage.full = l.stride
      /\ SrcImage.yuv = l.yuv /\ SrcImage.drm = l.drm
  BY SourceImages
<1>2. /\ l.crop[1] \in Nat /\ l.crop[2] \in Nat /\ l.crop[2] <= l.stride /\ l.stride \in Nat
      /\ l.yuv \in BOOLEAN /\ l.drm \in BOOLEAN
  BY LayerFacts
<1>3. /\ geo.crop[1] \in Int /\ geo.crop[2] \in Int /\ l.crop[1] <= geo.crop[1] /\ geo.crop[2] <= l.crop[2]
      /\ geo.frame[1] \in Int /\ geo.frame[2] \in Int /\ geo.frame[1] < geo.frame[2]
      /\ geo.frame[1] >= 0 /\ geo.frame[2] <= mXres /\ mXres \in Int
  BY DEF Prepared, Accepted, OnDisplay, GeometryAssumption
<1>4. /\ s.yuv \in BOOLEAN /\ s.x \in Nat /\ s.w \in Int /\ s.full \in Nat
      /\ s.full <= Channel.max /\ s.w >= Channel.min /\ Channel.max >= Channel.min
      /\ s.x + 2 * ChannelAlign(s.yuv) <= s.full
  <2>1. CASE geo.path = "otf"
    <3>1. s = SrcImage
      BY <2>1 DEF SourceOfWindow
    <3>2. /\ DstImage.w >= Channel.min /\ DstImage.w <= Channel.max
          /\ SrcImage.w >= Channel.min /\ SrcImage.full <= MaxFull(Channel, SrcImage.yuv)
      BY <2>1 DEF Accepted, IsSupported
    <3>3. /\ Channel.min >= 2 * ChannelAlign(l.yuv) /\ MaxFull(Channel, l.yuv) = Channel.max
          /\ Channel.min \in Int /\ Channel.max \in Int /\ ChannelAlign(l.yuv) \in Int
      BY <1>2, ChannelFacts, ImageAlign
    <3>4. DstImage.w \in Int
      BY <1>1 DEF GeoImages
    <3> QED BY <1>1, <1>2, <1>3, <3>1, <3>2, <3>3, <3>4
  <2>2. CASE geo.path = "m2m"
    <3>1. /\ geo.mid \in GeoImages /\ geo.mid.x = 0 /\ geo.mid.full = mXres
          /\ DstImage.w >= Channel.min /\ DstImage.w <= Channel.max
          /\ geo.mid.w >= Channel.min /\ geo.mid.full >= Channel.min
      BY <2>2 DEF Accepted, IsSupported
    <3>2. /\ s.x = 0 /\ s.w = geo.mid.w /\ s.full = TargetStride /\ s.yuv = geo.mid.yuv
          /\ s.w \in Int /\ s.yuv \in BOOLEAN
      BY <2>2, <3>1 DEF SourceOfWindow, GeoImages
    <3>3. /\ Channel.min >= 2 * ChannelAlign(s.yuv) /\ ChannelAlign(s.yuv) \in Int
          /\ Channel.min \in Int /\ Channel.max \in Int
      BY <3>2, ChannelFacts, ImageAlign
    <3>4. DstImage.w \in Int /\ TargetStride \in Nat /\ TargetStride >= mXres /\ TargetStride <= Channel.max
      BY <1>1 DEF GeoImages, GeometryAssumption
    <3> HIDE DEF s
    <3> QED BY <1>3, <3>1, <3>2, <3>3, <3>4
  <2> QED BY <2>1, <2>2
<1>5. /\ c.of = "layer" /\ c.yuv = s.yuv /\ c.dst = Clipped(geo.frame)
      /\ c.x \in Int /\ c.w \in Int /\ c.full \in Int
      /\ c.x % a = 0 /\ c.w % a = 0
      /\ c.x >= s.x /\ c.x < s.x + a /\ (s.x % a = 0 => c.x = s.x)
      /\ c.w > 0 /\ c.w <= s.w /\ c.x + c.w <= c.full
  <2> DEFINE full == AlignDown(s.full, a)
             x == AlignUp(s.x, a)
             w == Kept(x, s.w, full, a)
  <2>1. a \in Int /\ a > 0 /\ Channel.min >= 2 * a /\ MaxFull(Channel, s.yuv) = Channel.max
        /\ Channel.max \in Int
    BY <1>4, ChannelFacts, ImageAlign
  <2>2. ~(s.full > MaxFull(Channel, s.yuv))
    BY <1>4, <2>1
  <2>3. c = [of |-> "layer", x |-> x, w |-> w, full |-> full, yuv |-> s.yuv, dst |-> Clipped(geo.frame)]
    BY <2>2 DEF LayerWindow, ChannelAlign, Kept
  <2> HIDE DEF c, s, a
  <2>4. /\ x \in Int /\ w \in Int /\ full \in Int /\ x % a = 0 /\ w % a = 0
        /\ x >= s.x /\ x < s.x + a /\ (s.x % a = 0 => x = s.x)
        /\ w > 0 /\ w <= s.w /\ x + w <= full
    <3>1. s.x + 2 * a <= s.full
      BY <1>4 DEF a
    <3>2. /\ s.full <= Channel.max /\ s.w >= Channel.min /\ Channel.max >= Channel.min
          /\ Channel.min >= 2 * a /\ s.x + 2 * a <= s.full /\ a > 0 /\ a \in Int
          /\ s.x \in Nat /\ s.w \in Int /\ s.full \in Nat
      BY <1>4, <2>1, <3>1
    <3> QED BY <3>2, WindowOfSource
  <2> HIDE DEF x, w, full
  <2> QED BY <2>3, <2>4
<1> HIDE DEF c
<1>6. WindowIsValid(c)
  <2>1. c.dst = <<geo.frame[1], geo.frame[2]>>
    BY <1>3, <1>5 DEF Clipped, Larger
  <2>2. c.dst[1] = geo.frame[1] /\ c.dst[2] = geo.frame[2] /\ Width(c.dst) = geo.frame[2] - geo.frame[1]
    BY <2>1 DEF Width
  <2>3. c.x % SizeAlign(Channel, c.yuv) = 0 /\ c.w % SizeAlign(Channel, c.yuv) = 0
    BY <1>5 DEF ChannelAlign
  <2>4. c.x >= 0 /\ c.w <= c.full
    BY <1>4, <1>5
  <2> HIDE DEF s
  <2> QED BY <1>3, <1>5, <2>2, <2>3, <2>4 DEF WindowIsValid
<1>7. ReadsInside(c)
  <2> SUFFICES ASSUME geo.path = "otf"
      PROVE  /\ c.x >= l.crop[1]
             /\ l.yuv \/ ~l.drm => c.x + c.w <= l.crop[2]
             /\ c.x + c.w < l.crop[2] + Channel.align
    BY <1>5 DEF ReadsInside
  <2>1. s.x = geo.crop[1] /\ s.w = geo.crop[2] - geo.crop[1] /\ s.yuv = l.yuv
    BY <1>1 DEF SourceOfWindow
  <2>2. Channel.align \in Int /\ Channel.align > 0 /\ a \in Int /\ (~l.yuv => a = Channel.align)
    BY <1>2, <2>1, ChannelFacts, ImageAlign
  <2>3. l.yuv \/ ~l.drm => s.x % a = 0
    <3>1. CASE l.yuv
      BY <2>1, <3>1 DEF Prepared, VideoAlign, ChannelAlign, SizeAlign
    <3>2. CASE ~l.drm
      <4>1. CropIsAligned(Channel, SrcImage)
        BY <1>1, <3>2 DEF Accepted, IsSupported
      <4> QED BY <1>1, <2>1, <4>1 DEF CropIsAligned, ChannelAlign
    <3> QED BY <3>1, <3>2
  <2> HIDE DEF s, a
  <2>4. CASE l.yuv \/ ~l.drm
    BY <1>2, <1>3, <1>5, <2>1, <2>2, <2>3, <2>4
  <2>5. CASE ~(l.yuv \/ ~l.drm)
    BY <1>2, <1>3, <1>5, <2>1, <2>2, <2>5
  <2> QED BY <2>4, <2>5
<1>8. ShowsWhole(c)
  BY <1>5 DEF ShowsWhole
<1> QED BY <1>6, <1>7, <1>8 DEF WindowOk, c

LEMMA LeastOfThree ==
  ASSUME NEW p \in Int, NEW q \in Int, NEW r \in Int, NEW S, S \subseteq {p, q, r}, r \in S
  PROVE  /\ Min(S) \in Int /\ \A y \in S : Min(S) <= y
         /\ Max(S) \in Int /\ \A y \in S : y <= Max(S)
<1>1. \E x \in S : \A y \in S : x <= y
  <2>1. CASE p \in S /\ q \in S
    BY <2>1
  <2>2. CASE p \in S /\ q \notin S
    BY <2>2
  <2>3. CASE p \notin S
    BY <2>3
  <2> QED BY <2>1, <2>2, <2>3
<1>2. \E x \in S : \A y \in S : y <= x
  <2>1. CASE p \in S /\ q \in S
    BY <2>1
  <2>2. CASE p \in S /\ q \notin S
    BY <2>2
  <2>3. CASE p \notin S
    BY <2>3
  <2> QED BY <2>1, <2>2, <2>3
<1>3. Min(S) \in S /\ \A y \in S : Min(S) <= y
  BY <1>1 DEF Min
<1>4. Max(S) \in S /\ \A y \in S : y <= Max(S)
  BY <1>2 DEF Max
<1>5. S \subseteq Int
  OBVIOUS
<1> QED BY <1>3, <1>4, <1>5

(* The aligned span around the frames covers what of them is on the        *)
(* display, if it is on the display itself.                                *)
LEMMA CompositionSpan ==
  ASSUME GeometryAssumption, NEW f \in Int \X Int, NEW g \in Int \X Int, NEW frames, frames \subseteq {f, g}
  PROVE  LET crop == CompositionCrop(frames) IN
         /\ crop \in Int \X Int /\ crop[1] < crop[2]
         /\ crop[1] % Channel.align = 0 /\ Width(crop) % Channel.align = 0
         /\ crop[1] >= 0 => \A s \in frames : s[2] <= crop[2] /\ (crop[1] <= s[1] \/ crop[1] = 0)
<1> DEFINE lefts == {s[1] : s \in frames} \cup {mXres}
           rights == {s[2] : s \in frames} \cup {0}
           l == Min(lefts)
           r == Max(rights)
           min == Channel.min
           a == Channel.align
           w == Larger(r - l, min)
           x == IF r - l < min THEN Larger(l - (min - (r - l)), 0) ELSE l
           left == AlignDown(x, a)
           z == w + (x - left)
           v == AlignUp(z, a)
<1>1. f[1] \in Int /\ f[2] \in Int /\ g[1] \in Int /\ g[2] \in Int /\ mXres \in Int
  BY DEF GeometryAssumption
<1>2. min \in Int /\ a \in Int /\ a > 0 /\ min >= 2 * a
  BY ChannelFacts
<1>3. l \in Int /\ \A s \in frames : l <= s[1]
  <2>1. lefts \subseteq {f[1], g[1], mXres} /\ mXres \in lefts
    OBVIOUS
  <2>2. \A s \in frames : s[1] \in lefts
    OBVIOUS
  <2> HIDE DEF lefts
  <2> QED BY <1>1, <2>1, <2>2, LeastOfThree
<1>4. r \in Int /\ \A s \in frames : s[2] <= r
  <2>1. PICK n \in Int : n = 0
    OBVIOUS
  <2>2. rights \subseteq {f[2], g[2], n} /\ n \in rights
    BY <2>1
  <2>3. \A s \in frames : s[2] \in rights
    OBVIOUS
  <2> HIDE DEF rights
  <2> QED BY <1>1, <2>2, <2>3, LeastOfThree
<1>5. CompositionCrop(frames) = <<left, left + v>>
  BY DEF CompositionCrop
<1> HIDE DEF l, r, min, a
<1>6. x \in Int /\ w \in Int /\ w >= min /\ w >= r - l /\ x + w >= r /\ (x <= l \/ x = 0)
  BY <1>2, <1>3, <1>4 DEF Larger
<1> HIDE DEF x, w
<1>7. left \in Int /\ left % a = 0 /\ left <= x /\ x < left + a
  BY <1>2, <1>6, AlignedDown
<1> HIDE DEF left
<1>8. z \in Int /\ z >= w + (x - left) /\ z > 0
  BY <1>2, <1>6, <1>7
<1> HIDE DEF z
<1>9. v \in Int /\ v % a = 0 /\ v >= z
  BY <1>2, <1>8, AlignedUp
<1> HIDE DEF v
<1>10. /\ CompositionCrop(frames)[1] = left /\ CompositionCrop(frames)[2] = left + v
       /\ CompositionCrop(frames) \in Int \X Int /\ Width(CompositionCrop(frames)) = v
  BY <1>5, <1>7, <1>9 DEF Width
<1>11. left + v >= r /\ (left >= 0 => left <= l \/ left = 0)
  BY <1>2, <1>3, <1>4, <1>6, <1>7, <1>8, <1>9
<1>12. \A s \in frames : s[1] \in Int /\ s[2] \in Int
  BY <1>1
<1>13. left >= 0 => \A s \in frames : s[2] <= left + v /\ (left <= s[1] \/ left = 0)
  BY <1>3, <1>4, <1>7, <1>9, <1>11, <1>12
<1> QED BY <1>7, <1>8, <1>9, <1>10, <1>13 DEF a

LEMMA TargetWindowIsOk ==
  ASSUME GeometryAssumption, DisplayIsAligned, geo.layer \in GeoLayers, geo.companion \in Companions,
         NEW of \in Targets
  PROVE  WindowOk(TargetWindow(of, Composed(of)))
<1> DEFINE frames == Composed(of)
           crop == CompositionCrop(frames)
           span == IF OnDisplay(crop) THEN crop ELSE <<0, mXres>>
           c == TargetWindow(of, frames)
           a == Channel.align
<1>1. /\ geo.layer.frame \in Int \X Int /\ geo.companion \in Int \X Int
      /\ frames \subseteq {geo.layer.frame, geo.companion} /\ of # "layer"
  BY LayerFacts DEF GeometryAssumption, Composed, Targets
<1>2. /\ mXres \in Int /\ mXres > 0 /\ TargetStride \in Int /\ TargetStride >= mXres
      /\ a \in Int /\ a > 0 /\ mXres % a = 0
  BY ChannelFacts DEF GeometryAssumption, DisplayIsAligned
<1>3. \A s \in frames : s[1] \in Int /\ s[2] \in Int
  BY <1>1
<1>4. c = [of |-> of, x |-> span[1], w |-> Width(span), full |-> TargetStride, yuv |-> FALSE, dst |-> span]
  BY DEF TargetWindow
<1> HIDE DEF frames
<1>5. /\ crop \in Int \X Int /\ crop[1] < crop[2] /\ crop[1] % a = 0 /\ Width(crop) % a = 0
      /\ crop[1] >= 0 => \A s \in frames : s[2] <= crop[2] /\ (crop[1] <= s[1] \/ crop[1] = 0)
  BY <1>1, CompositionSpan
<1> HIDE DEF crop, a
<1>6. /\ span[1] \in Int /\ span[2] \in Int /\ 0 <= span[1] /\ span[1] < span[2] /\ span[2] <= mXres
      /\ span[1] % a = 0 /\ Width(span) % a = 0
      /\ \A s \in frames : /\ span[1] <= s[1] \/ span[1] = 0
                           /\ s[2] <= span[2] \/ span[2] = mXres
  <2>1. CASE OnDisplay(crop)
    BY <1>2, <1>3, <1>5, <2>1 DEF OnDisplay, Width
  <2>2. CASE ~OnDisplay(crop)
    <3>1. span = <<0, mXres>> /\ span[1] = 0 /\ span[2] = mXres /\ Width(span) = mXres
      BY <1>2, <2>2 DEF Width
    <3>2. 0 % a = 0
      BY <1>2
    <3> QED BY <1>2, <3>1, <3>2
  <2> QED BY <2>1, <2>2
<1> HIDE DEF span, c
<1>7. Width(span) = span[2] - span[1]
  BY DEF Width
<1>8. /\ c.x = span[1] /\ c.w = Width(span) /\ c.full = TargetStride /\ ~c.yuv /\ c.dst = span /\ c.of = of
  BY <1>4
<1>9. WindowIsValid(c)
  <2>1. SizeAlign(Channel, c.yuv) = a
    BY <1>8 DEF SizeAlign, a
  <2>2. c.x >= 0 /\ c.dst[1] >= 0 /\ c.w > 0 /\ Width(c.dst) > 0 /\ c.dst[2] <= mXres /\ c.w <= c.full
    BY <1>2, <1>6, <1>7, <1>8
  <2>3. c.x % a = 0 /\ c.w % a = 0
    BY <1>6, <1>8
  <2> QED BY <2>1, <2>2, <2>3 DEF WindowIsValid
<1>10. ReadsInside(c)
  BY <1>1, <1>2, <1>6, <1>7, <1>8 DEF ReadsInside
<1>11. ShowsWhole(c)
  <2> SUFFICES ASSUME NEW s \in frames, Clipped(s)[1] < Clipped(s)[2]
      PROVE  span[1] <= Clipped(s)[1] /\ Clipped(s)[2] <= span[2]
    BY <1>8 DEF ShowsWhole, frames
  <2>1. Clipped(s) = <<Larger(s[1], 0), IF s[2] > mXres THEN mXres ELSE s[2]>>
    BY DEF Clipped
  <2>2. Clipped(s)[1] = Larger(s[1], 0) /\ Clipped(s)[2] = IF s[2] > mXres THEN mXres ELSE s[2]
    BY <2>1
  <2> QED BY <1>2, <1>3, <1>6, <2>2 DEF Larger
<1> QED BY <1>9, <1>10, <1>11 DEF WindowOk, c, frames

LEMMA ConfigureKeepsGeo ==
  ASSUME GeometryAssumption, DisplayIsAligned, GeoInv, ConfigureWindows
  PROVE  GeoInv'
<1> DEFINE targets == {TargetWindow(of, Composed(of)) : of \in Targets}
           layers == IF geo.path \in {"otf", "m2m"} THEN {LayerWindow} ELSE {}
<1>1. /\ DOMAIN geo = GeoFields /\ geo.layer \in GeoLayers /\ geo.companion \in Companions
      /\ geo.at = "configure" /\ geo.ret = "none" /\ Prepared /\ Accepted
      /\ geo' = [geo EXCEPT !.at = "deliver", !.windows = targets \cup layers]
  BY DEF GeoInv, ConfigureWindows
<1>2. \A c \in targets : WindowOk(c)
  BY <1>1, TargetWindowIsOk
<1>3. \A c \in layers : WindowOk(c)
  BY <1>1, LayerWindowIsOk
<1>4. targets \cup layers # {}
  <2>1. CASE geo.path \in {"otf", "m2m"}
    BY <2>1
  <2>2. CASE geo.path \in {"client", "exynos"}
    <3>1. geo.path \in Targets
      BY <2>2 DEF Targets, Composed
    <3> QED BY <3>1
  <2> QED BY <1>1, <2>1, <2>2 DEF Accepted
<1> HIDE DEF targets, layers
<1>5. /\ DOMAIN geo' = GeoFields /\ geo'.at = "deliver" /\ geo'.layer = geo.layer /\ geo'.ret = "none"
      /\ geo'.companion = geo.companion /\ geo'.path = geo.path /\ geo'.windows = targets \cup layers
  BY <1>1 DEF GeoFields
<1>6. \A c : WindowOk(c)' <=> WindowOk(c)
  BY <1>5 DEF WindowOk, WindowIsValid, ReadsInside, ShowsWhole, Composed
<1> QED BY <1>1, <1>2, <1>3, <1>4, <1>5, <1>6 DEF GeoInv

LEMMA DeliverKeepsGeo ==
  ASSUME GeoInv, DeliverWindows
  PROVE  GeoInv'
<1>1. /\ DOMAIN geo = GeoFields /\ geo.layer \in GeoLayers /\ geo.companion \in Companions
      /\ geo.at = "deliver" /\ geo.windows # {} /\ \A c \in geo.windows : WindowOk(c)
  BY DEF GeoInv, DeliverWindows
<1>2. geo' = [geo EXCEPT !.at = "done", !.ret = "shown"]
  BY <1>1 DEF DeliverWindows, WindowOk
<1>3. /\ DOMAIN geo' = GeoFields /\ geo'.at = "done" /\ geo'.layer = geo.layer /\ geo'.ret = "shown"
      /\ geo'.companion = geo.companion /\ geo'.path = geo.path /\ geo'.windows = geo.windows
  BY <1>1, <1>2 DEF GeoFields
<1>4. \A c : WindowOk(c)' <=> WindowOk(c)
  BY <1>3 DEF WindowOk, WindowIsValid, ReadsInside, ShowsWhole, Composed
<1> QED BY <1>1, <1>3, <1>4 DEF GeoInv

(* WindowsAreLegal for every display, layer and restriction of the         *)
(* channels and engines: what isSupported accepted is shown, from inside   *)
(* the buffers, and the targets show all that is composed into them.       *)
THEOREM WindowsAreAlwaysLegal ==
  ASSUME DisplayIsAligned
  PROVE  GeometrySpec => []WindowsAreLegal
<1>1. GeometryInit => GeoInv
  BY GeometryAssumption DEF GeometryInit, FirstOf, GeoInv, GeoFields
<1>2. GeoInv /\ [GeometryNext]_geo => GeoInv'
  <2> SUFFICES ASSUME GeoInv, [GeometryNext]_geo PROVE GeoInv'
    OBVIOUS
  <2>1. CASE PrepareLayer
    BY <2>1, GeometryAssumption, PrepareKeepsGeo
  <2>2. ASSUME NEW path \in {"otf", "exynos", "client"}, AssignPath(path, NoImage) PROVE GeoInv'
    BY <2>2, GeometryAssumption, AssignKeepsGeo
  <2>3. ASSUME NEW mid \in ToScaler, AssignPath("m2m", mid) PROVE GeoInv'
    BY <2>3, GeometryAssumption, AssignKeepsGeo
  <2>4. CASE ConfigureWindows
    BY <2>4, GeometryAssumption, ConfigureKeepsGeo
  <2>5. CASE DeliverWindows
    BY <2>5, DeliverKeepsGeo
  <2>6. CASE UNCHANGED geo
    BY <2>6 DEF GeoInv, Prepared, Accepted, SrcImage, DstImage, WindowOk, WindowIsValid, ReadsInside,
                ShowsWhole, Composed
  <2> QED BY <2>1, <2>2, <2>3, <2>4, <2>5, <2>6 DEF GeometryNext
<1>3. GeoInv => WindowsAreLegal
  BY DEF GeoInv, WindowOk, ReadsInside, ShowsWhole, WindowsAreLegal, AcceptedIsShown, ReadsInsideTheBuffer,
         TargetsAreShownWhole
<1> QED BY <1>1, <1>2, <1>3, PTL DEF GeometrySpec

=============================================================================
