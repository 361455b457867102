------------------------ MODULE ConnectionPoints_proofs -------------------------
(***************************************************************************)
(* Theorems about ConnectionPoints, for every set of connection points,    *)
(* sinks and cookies, and any number of objects.                           *)
(***************************************************************************)
EXTENDS ConnectionPoints, FiniteSetTheorems, TLAPS

(* The kinds of objects and what each keeps a reference to; a point has    *)
(* one proxy at most, and the cache knows it.                              *)
Shaped(o) ==
    /\ objects[o].kind = "container" <=> o = Container
    /\ objects[o].kind = "container" => Owner(o) = 0
    /\ objects[o].kind \in {"proxy", "points"} => Owner(o) = Container
    /\ objects[o].kind = "proxy" =>
          objects[o].point \in Points /\ cache[objects[o].point] = o
    /\ objects[o].kind = "points" => objects[o].items \in Seq(Points)
    /\ objects[o].kind = "connections" =>
          /\ Owner(o) \in DOMAIN objects
          /\ objects[Owner(o)].kind = "proxy"
          /\ objects[o].point = objects[Owner(o)].point
          /\ objects[o].items \in Seq(Cookies \X Sinks)

Shape ==
    /\ Container \in DOMAIN objects
    /\ \A o \in DOMAIN objects : Shaped(o)
    /\ \A p \in Points : cache[p] # 0 =>
          /\ cache[p] \in DOMAIN objects
          /\ objects[cache[p]].kind = "proxy"
          /\ objects[cache[p]].point = p

(* What the proxies remember of the connections of the control.            *)
Remembered ==
    /\ \A o \in Ids : o \notin DOMAIN objects => maps[o] = Nothing
    /\ \A p \in Points : cache[p] = 0 => table[p] = Nothing
    /\ \A o \in DOMAIN objects : objects[o].kind = "proxy" =>
          /\ objects[o].point \notin dropped => maps[o] = table[objects[o].point]
          /\ \A k \in Cookies :
                table[objects[o].point][k] # None => maps[o][k] # None

HeapTypeOK ==
    /\ hosted \in BOOLEAN
    /\ objects \in Seq(Object) /\ Len(objects) <= MaxObjects
    /\ cache \in [Points -> 0 .. MaxObjects]

HInv == HeapTypeOK /\ Shape /\ RefsBalanced

MapTypeOK ==
    /\ table \in [Points -> [Cookies -> Sinks \cup {None}]]
    /\ maps \in [Ids -> [Cookies -> Sinks \cup {None}]]

MInv == MapTypeOK /\ Remembered /\ ClientSeesOwnSinks /\ NoWrapperForLive

Children(o) == {q \in DOMAIN objects : Exists(q) /\ Owner(q) = o}

CachedAt(o) == {p \in Points : cache[p] = o}

ByHost(o) == IF hosted /\ o = Container THEN 1 ELSE 0

-----------------------------------------------------------------------------
LEMMA Heap ==
    ASSUME HeapTypeOK
    PROVE  /\ objects \in Seq(Object) /\ Len(objects) \in Nat
           /\ DOMAIN objects = 1 .. Len(objects)
           /\ DOMAIN objects \subseteq Ids
           /\ \A o \in DOMAIN objects :
                 /\ objects[o] \in Object
                 /\ objects[o].count \in Nat /\ objects[o].held \in Nat
<1>1. /\ objects \in Seq(Object) /\ Len(objects) \in Nat /\ Len(objects) <= MaxObjects
      /\ DOMAIN objects = 1 .. Len(objects)
  BY DEF HeapTypeOK
<1>2. \A o \in DOMAIN objects : objects[o] \in Object
  BY <1>1
<1>3. \A o \in DOMAIN objects : objects[o].count \in Nat /\ objects[o].held \in Nat
  BY <1>2 DEF Object
<1>4. DOMAIN objects \subseteq Ids
  BY <1>1, PointsAssumption DEF Ids
<1> QED
  BY <1>1, <1>2, <1>3, <1>4

HeldTyped == \A o \in DOMAIN objects : objects[o].held \in Nat

LEMMA Held == HeapTypeOK => HeldTyped
BY Heap DEF HeldTyped

LEMMA HeldNext == HeapTypeOK' => HeldTyped'
BY Held, PTL

(* The holders of an object are counted.                                   *)
LEMMA Counted ==
    ASSUME HeapTypeOK, NEW o
    PROVE  /\ IsFiniteSet(Children(o)) /\ Cardinality(Children(o)) \in Nat
           /\ IsFiniteSet(CachedAt(o)) /\ Cardinality(CachedAt(o)) \in Nat
           /\ ByHost(o) \in {0, 1}
           /\ References(o) = objects[o].held + Cardinality(Children(o))
                              + Cardinality(CachedAt(o)) + ByHost(o)
<1>1. IsFiniteSet(DOMAIN objects)
  <2>1. Len(objects) \in Int /\ 1 \in Int /\ DOMAIN objects = 1 .. Len(objects)
    BY Heap
  <2> QED
    BY <2>1, FS_Interval
<1>2. IsFiniteSet(Children(o))
  BY <1>1, FS_Subset DEF Children
<1>3. IsFiniteSet(CachedAt(o))
  BY PointsAssumption, FS_Subset DEF CachedAt
<1> QED
  BY <1>2, <1>3, FS_CardinalityType
     DEF ByHost, References, Children, CachedAt

LEMMA Inhabited ==
    ASSUME NEW S, IsFiniteSet(S), NEW x \in S
    PROVE  Cardinality(S) \in Nat /\ Cardinality(S) > 0
<1>1. Cardinality(S) \in Nat
  BY FS_CardinalityType
<1>2. Cardinality(S) # 0
  BY FS_EmptySet
<1> QED
  BY <1>1, <1>2

LEMMA OneMore ==
    ASSUME NEW S, IsFiniteSet(S), NEW x, x \notin S
    PROVE  Cardinality(S \cup {x}) = Cardinality(S) + 1
BY FS_AddElement

LEMMA OneLess ==
    ASSUME NEW S, IsFiniteSet(S), NEW x \in S
    PROVE  Cardinality(S \ {x}) = Cardinality(S) - 1
BY FS_RemoveElement

LEMMA Positive ==
    ASSUME HeapTypeOK, NEW o \in DOMAIN objects, objects[o].count = References(o),
           \/ Cardinality(Children(o)) > 0
           \/ Cardinality(CachedAt(o)) > 0
           \/ ByHost(o) = 1
    PROVE  Exists(o)
<1>1. /\ objects[o].held \in Nat /\ ByHost(o) \in {0, 1}
      /\ Cardinality(Children(o)) \in Nat /\ Cardinality(CachedAt(o)) \in Nat
  BY Heap, Counted
<1>2. objects[o].count = objects[o].held + Cardinality(Children(o))
                         + Cardinality(CachedAt(o)) + ByHost(o)
  BY Counted
<1> QED
  BY <1>1, <1>2 DEF Exists

(* Whoever is kept by an object, the cache or the HostContainer exists.    *)
LEMMA Kept ==
    ASSUME HInv
    PROVE  /\ \A o \in DOMAIN objects : objects[o].kind # "connections" =>
                 objects[o].count = References(o)
           /\ \A q \in DOMAIN objects : Exists(q) /\ Owner(q) # 0 =>
                 /\ Owner(q) \in DOMAIN objects
                 /\ objects[Owner(q)].kind \in {"container", "proxy"}
                 /\ Exists(Owner(q))
           /\ \A p \in Points : cache[p] # 0 => Exists(cache[p])
           /\ hosted => Exists(Container)
<1> USE DEF HInv
<1>1. \A o \in DOMAIN objects : objects[o].kind # "connections" =>
         objects[o].count = References(o)
  BY DEF RefsBalanced
<1>2. ASSUME NEW q \in DOMAIN objects, Exists(q), Owner(q) # 0
      PROVE  /\ Owner(q) \in DOMAIN objects
             /\ objects[Owner(q)].kind \in {"container", "proxy"}
             /\ Exists(Owner(q))
  <2>1. Owner(q) \in DOMAIN objects
        /\ objects[Owner(q)].kind \in {"container", "proxy"}
    <3>1. objects[q].kind \in Kind
      BY Heap DEF Object
    <3> QED
      BY <1>2, <3>1 DEF Shape, Shaped, Kind
  <2>2. q \in Children(Owner(q))
    BY <1>2 DEF Children
  <2>3. Cardinality(Children(Owner(q))) > 0
    BY <2>2, Counted, Inhabited
  <2>4. objects[Owner(q)].count = References(Owner(q))
    BY <1>1, <2>1
  <2> QED
    BY <2>1, <2>3, <2>4, Positive
<1>3. ASSUME NEW p \in Points, cache[p] # 0
      PROVE  Exists(cache[p])
  <2>1. cache[p] \in DOMAIN objects /\ objects[cache[p]].kind = "proxy"
    BY <1>3 DEF Shape
  <2>2. Cardinality(CachedAt(cache[p])) > 0
    BY Counted, Inhabited DEF CachedAt
  <2> QED
    BY <1>1, <2>1, <2>2, Positive
<1>4. ASSUME hosted
      PROVE  Exists(Container)
  <2>1. Container \in DOMAIN objects /\ objects[Container].kind = "container"
        /\ ByHost(Container) = 1
    BY <1>4 DEF Shape, Shaped, ByHost
  <2> QED
    BY <1>1, <2>1, Positive
<1> QED
  BY <1>1, <1>2, <1>3, <1>4

-----------------------------------------------------------------------------
(* What the operators on the heap do.                                      *)
LEMMA Counts ==
    ASSUME NEW r \in Object
    PROVE  /\ r.count \in Nat /\ r.held \in Nat
           /\ \A m, n \in Nat : [r EXCEPT !.count = m, !.held = n] \in Object
           /\ \A m \in Nat : [r EXCEPT !.count = m] \in Object
           /\ \A m \in Nat : [r EXCEPT !.held = m] \in Object
           /\ \A m \in Nat \ {0} : [r EXCEPT !.at = m] \in Object
<1> DEFINE Items == Seq(Points \cup (Cookies \X Sinks))
           Spots == Points \cup {None}
<1>1. Object = [kind : Kind, of : 0 .. MaxObjects, point : Spots,
                count : Nat, held : Nat, items : Items, at : Nat \ {0}]
  BY DEF Object
<1> HIDE DEF Items, Spots
<1> QED
  BY <1>1

(***************************************************************************)
(* Objects keep what they are; what a step changes are counts, positions   *)
(* and the objects there are.                                              *)
(***************************************************************************)
SameObject(a, b) ==
    a.kind = b.kind /\ a.of = b.of /\ a.point = b.point /\ a.items = b.items

LEMMA Updated ==
    ASSUME NEW r \in Object, NEW m, NEW n
    PROVE  /\ SameObject(r, [r EXCEPT !.count = m, !.held = n])
           /\ [r EXCEPT !.count = m, !.held = n].count = m
           /\ [r EXCEPT !.count = m, !.held = n].held = n
           /\ SameObject(r, [r EXCEPT !.count = m])
           /\ [r EXCEPT !.count = m].count = m
           /\ [r EXCEPT !.count = m].held = r.held
           /\ SameObject(r, [r EXCEPT !.at = m])
           /\ [r EXCEPT !.at = m].count = r.count
           /\ [r EXCEPT !.at = m].held = r.held
BY DEF SameObject, Object

LEMMA Handing ==
    ASSUME NEW heap \in Seq(Object), NEW x \in DOMAIN heap, NEW n \in Nat
    PROVE  /\ HandedOut(heap, x, n) \in Seq(Object)
           /\ Len(HandedOut(heap, x, n)) = Len(heap)
           /\ DOMAIN HandedOut(heap, x, n) = DOMAIN heap
           /\ \A q \in DOMAIN heap : q # x => HandedOut(heap, x, n)[q] = heap[q]
           /\ SameObject(heap[x], HandedOut(heap, x, n)[x])
           /\ HandedOut(heap, x, n)[x].count = heap[x].count + n
           /\ HandedOut(heap, x, n)[x].held = heap[x].held + 1
<1>1. heap[x] \in Object
  OBVIOUS
<1>7. heap[x].count \in Nat /\ heap[x].held \in Nat
  BY <1>1, Counts
<1>2. heap[x].count + n \in Nat /\ heap[x].held + 1 \in Nat
  BY <1>7
<1> DEFINE y == [heap[x] EXCEPT !.count = heap[x].count + n, !.held = heap[x].held + 1]
<1>5. y \in Object
  BY <1>1, <1>2, Counts
<1>6. HandedOut(heap, x, n) = [heap EXCEPT ![x] = y]
  BY DEF HandedOut
<1> HIDE DEF y
<1>4. [heap EXCEPT ![x] = y] \in Seq(Object)
      /\ Len([heap EXCEPT ![x] = y]) = Len(heap)
      /\ DOMAIN [heap EXCEPT ![x] = y] = DOMAIN heap
      /\ \A q \in DOMAIN heap : q # x => [heap EXCEPT ![x] = y][q] = heap[q]
      /\ [heap EXCEPT ![x] = y][x] = y
  BY <1>5
<1>8. SameObject(heap[x], y) /\ y.count = heap[x].count + n /\ y.held = heap[x].held + 1
  BY <1>1 DEF y, SameObject, Object
<1> QED
  BY <1>6, <1>4, <1>8

LEMMA Growing ==
    ASSUME NEW heap \in Seq(Object), NEW object \in Object,
           object.of \in DOMAIN heap
    PROVE  /\ With(heap, object) \in Seq(Object)
           /\ Len(With(heap, object)) = Len(heap) + 1
           /\ DOMAIN With(heap, object) = 1 .. Len(heap) + 1
           /\ \A q \in DOMAIN heap : q # object.of => With(heap, object)[q] = heap[q]
           /\ SameObject(heap[object.of], With(heap, object)[object.of])
           /\ With(heap, object)[object.of].count = heap[object.of].count + 1
           /\ With(heap, object)[object.of].held = heap[object.of].held
           /\ With(heap, object)[Len(heap) + 1] = object
<1> DEFINE w == object.of
           y == [heap[w] EXCEPT !.count = heap[w].count + 1]
           kept == [heap EXCEPT ![w] = y]
<1>1. heap[w] \in Object
  OBVIOUS
<1>2. y \in Object
  <2>2. heap[w].count \in Nat
    BY <1>1, Counts
  <2>1. heap[w].count + 1 \in Nat
    BY <2>2
  <2> QED
    BY <1>1, <2>1, Counts
<1>3. With(heap, object) = Append(kept, object)
  BY DEF With
<1> HIDE DEF y
<1>4. kept \in Seq(Object) /\ Len(kept) = Len(heap) /\ kept[w] = y
      /\ DOMAIN heap = 1 .. Len(heap) /\ Len(heap) \in Nat
      /\ \A q \in DOMAIN heap : q # w => kept[q] = heap[q]
  BY <1>2
<1> HIDE DEF kept, w
<1>5. Append(kept, object) \in Seq(Object)
      /\ Len(Append(kept, object)) = Len(heap) + 1
      /\ DOMAIN Append(kept, object) = 1 .. Len(heap) + 1
      /\ \A q \in 1 .. Len(heap) : Append(kept, object)[q] = kept[q]
      /\ Append(kept, object)[Len(heap) + 1] = object
  BY <1>4
<1>6. w \in DOMAIN heap
  BY DEF w
<1>7. SameObject(heap[w], y) /\ y.count = heap[w].count + 1 /\ y.held = heap[w].held
  BY <1>1, Updated DEF y
<1> QED
  BY <1>3, <1>4, <1>5, <1>6, <1>7 DEF w

(* The objects of a step are those there were, and perhaps new ones.       *)
SameObjects ==
    /\ DOMAIN objects \subseteq DOMAIN objects'
    /\ \A q \in DOMAIN objects : SameObject(objects[q], objects'[q])

LEMMA ShapeKept ==
    ASSUME HInv, SameObjects, UNCHANGED cache,
           \A q \in DOMAIN objects' \ DOMAIN objects : Shaped(q)'
    PROVE  Shape'
<1>1. ASSUME NEW q \in DOMAIN objects
      PROVE  Shaped(q)'
  BY DEF HInv, Shape, Shaped, SameObjects, SameObject, Owner
<1>2. \A p \in Points : cache'[p] # 0 =>
          /\ cache'[p] \in DOMAIN objects'
          /\ objects'[cache'[p]].kind = "proxy"
          /\ objects'[cache'[p]].point = p
  BY DEF HInv, Shape, SameObjects, SameObject
<1> QED
  BY <1>1, <1>2 DEF HInv, Shape, SameObjects

(* The children of an object when a step creates and destroys none.        *)
LEMMA ChildrenKept ==
    ASSUME SameObjects,
           \A q \in DOMAIN objects : Exists(q)' <=> Exists(q),
           \A q \in DOMAIN objects' \ DOMAIN objects : ~Exists(q)'
    PROVE  \A o : Children(o)' = Children(o)
<1> SUFFICES ASSUME NEW o PROVE Children(o)' = Children(o)
  OBVIOUS
<1>1. \A q \in DOMAIN objects : q \in Children(o)' <=> q \in Children(o)
  BY DEF Children, SameObjects, SameObject, Owner
<1>2. \A q \in Children(o)' : q \in DOMAIN objects
  BY DEF Children
<1>3. \A q \in Children(o) : q \in DOMAIN objects
  BY DEF Children
<1> QED
  BY <1>1, <1>2, <1>3

(* An object that a step leaves alone stays balanced.                      *)
LEMMA StaysBalanced ==
    ASSUME HInv, HeapTypeOK', NEW o \in DOMAIN objects, o \in DOMAIN objects',
           SameObject(objects[o], objects'[o]),
           objects'[o].count = objects[o].count, objects'[o].held = objects[o].held,
           Children(o)' = Children(o), CachedAt(o)' = CachedAt(o),
           ByHost(o)' = ByHost(o)
    PROVE  \/ objects'[o].count = References(o)'
           \/ objects'[o].kind = "connections" /\ ~Exists(o)' /\ objects'[o].held > 0
<1>1. References(o)' = References(o)
  BY DEF References, Children, CachedAt, ByHost
<1>2. Exists(o)' <=> Exists(o)
  BY DEF Exists
<1> QED
  BY <1>1, <1>2 DEF HInv, RefsBalanced, SameObject

(* A step that hands out what exists, or moves an enumerator on.           *)
LEMMA Settled ==
    ASSUME HInv, HeapTypeOK', SameObjects, DOMAIN objects' = DOMAIN objects,
           UNCHANGED <<hosted, cache>>,
           \A q \in DOMAIN objects :
              \/ /\ objects'[q].count = objects[q].count
                 /\ objects'[q].held = objects[q].held
              \/ /\ Exists(q)
                 /\ objects'[q].count = objects[q].count + 1
                 /\ objects'[q].held = objects[q].held + 1
    PROVE  HInv'
<1>1. Shape'
  BY ShapeKept
<1>2. \A q \in DOMAIN objects : Exists(q)' <=> Exists(q)
  <2> SUFFICES ASSUME NEW q \in DOMAIN objects PROVE Exists(q)' <=> Exists(q)
    OBVIOUS
  <2>1. objects[q].count \in Nat
    BY Heap DEF HInv
  <2> QED
    BY <2>1 DEF Exists
<1>3. \A q : Children(q)' = Children(q)
  BY <1>2, ChildrenKept
<1>4. ASSUME NEW o \in DOMAIN objects
      PROVE  \/ objects'[o].count = References(o)'
             \/ objects'[o].kind = "connections" /\ ~Exists(o)' /\ objects'[o].held > 0
  <2>1. Children(o)' = Children(o) /\ CachedAt(o)' = CachedAt(o) /\ ByHost(o)' = ByHost(o)
    BY <1>3 DEF CachedAt, ByHost
  <2>2. SameObject(objects[o], objects'[o])
    BY DEF SameObjects
  <2>3. CASE objects'[o].count = objects[o].count /\ objects'[o].held = objects[o].held
    BY <2>1, <2>2, <2>3, StaysBalanced
  <2>4. CASE /\ Exists(o)
             /\ objects'[o].count = objects[o].count + 1
             /\ objects'[o].held = objects[o].held + 1
    <3>1. objects[o].count = References(o)
      BY <2>4 DEF HInv, RefsBalanced
    <3>2. /\ objects[o].held \in Nat /\ objects[o].count \in Nat
          /\ Cardinality(Children(o)) \in Nat
          /\ Cardinality(CachedAt(o)) \in Nat /\ ByHost(o) \in {0, 1}
          /\ References(o) = objects[o].held + Cardinality(Children(o))
                             + Cardinality(CachedAt(o)) + ByHost(o)
      BY Heap, Counted DEF HInv
    <3>3. References(o)' = objects'[o].held + Cardinality(Children(o))
                           + Cardinality(CachedAt(o)) + ByHost(o)
      BY <2>1 DEF References, Children, CachedAt, ByHost
    <3> HIDE DEF HInv, SameObjects
    <3> QED
      BY <2>4, <3>1, <3>2, <3>3
  <2> QED
    BY <2>3, <2>4
<1> QED
  BY <1>1, <1>4 DEF HInv, RefsBalanced

(* A step makes the object "new" of the owner w, with n references.        *)
Created(new, object, w, n) ==
    /\ objects' \in Seq(Object) /\ Len(objects') <= MaxObjects
    /\ DOMAIN objects' = DOMAIN objects \cup {new}
    /\ new \notin DOMAIN objects /\ new # 0 /\ new \in Ids
    /\ SameObjects
    /\ SameObject(object, objects'[new])
    /\ objects'[new].count = n /\ objects'[new].held = 1
    /\ objects'[w].count = objects[w].count + 1
    /\ objects'[w].held = objects[w].held
    /\ \A q \in DOMAIN objects : q # w =>
          objects'[q].count = objects[q].count /\ objects'[q].held = objects[q].held

LEMMA Made ==
    ASSUME HInv, HeapTypeOK', Shape', UNCHANGED hosted,
           NEW new, NEW object, NEW w \in DOMAIN objects, Exists(w), object.of = w,
           Created(new, object, w, 1 + Cardinality(CachedAt(new)')),
           \A q \in DOMAIN objects : CachedAt(q)' = CachedAt(q)
    PROVE  RefsBalanced'
<1>9. /\ SameObjects /\ DOMAIN objects' = DOMAIN objects \cup {new}
      /\ new \notin DOMAIN objects /\ new # 0
      /\ objects'[w].count = objects[w].count + 1
      /\ objects'[w].held = objects[w].held
      /\ \A q \in DOMAIN objects : q # w =>
            objects'[q].count = objects[q].count /\ objects'[q].held = objects[q].held
      /\ SameObject(object, objects'[new])
      /\ objects'[new].held = 1
      /\ objects'[new].count = 1 + Cardinality(CachedAt(new)')
  BY DEF Created
<1> USE <1>9
<1>8. /\ objects'[new].of = w
      /\ objects'[new].held \in Nat \ {0}
      /\ objects'[new].count = objects'[new].held + Cardinality(CachedAt(new)')
  BY DEF SameObject
<1>0. HeapTypeOK
  BY DEF HInv
<1>1. objects'[new].count \in Nat /\ objects'[new].count > 0
  <2>1. Cardinality(CachedAt(new)') \in Nat
    <3>1. HeapTypeOK' => Cardinality(CachedAt(new)') \in Nat
      <4>1. IsFiniteSet(CachedAt(new)')
        BY PointsAssumption, FS_Subset DEF CachedAt
      <4> QED
        BY <4>1, FS_CardinalityType
    <3> QED
      BY <3>1
  <2> QED
    BY <2>1
<1>2. new \in DOMAIN objects' /\ Exists(new)' /\ Owner(new)' = w
  BY <1>1, <1>8 DEF Exists, Owner
<1>3. \A q \in DOMAIN objects : (Exists(q)' <=> Exists(q)) /\ Owner(q)' = Owner(q)
  <2> SUFFICES ASSUME NEW q \in DOMAIN objects
               PROVE  (Exists(q)' <=> Exists(q)) /\ Owner(q)' = Owner(q)
    OBVIOUS
  <2>1. objects[q].count \in Nat
    BY <1>0, Heap
  <2>2. Owner(q)' = Owner(q)
    BY DEF SameObjects, SameObject, Owner
  <2> QED
    BY <2>1, <2>2 DEF Exists
<1>4. \A q : Children(q)' = IF q = w THEN Children(q) \cup {new} ELSE Children(q)
  <2> SUFFICES ASSUME NEW q, NEW r
               PROVE  r \in Children(q)' <=> r \in Children(q) \/ (q = w /\ r = new)
    OBVIOUS
  <2>1. CASE r \in DOMAIN objects
    BY <1>3, <2>1 DEF Children
  <2>2. CASE r = new
    BY <1>2, <2>2 DEF Children
  <2>3. CASE r \notin DOMAIN objects /\ r # new
    BY <2>3 DEF Children
  <2> QED
    BY <2>1, <2>2, <2>3
<1>5. ASSUME NEW o \in DOMAIN objects, o # w
      PROVE  \/ objects'[o].count = References(o)'
             \/ objects'[o].kind = "connections" /\ ~Exists(o)' /\ objects'[o].held > 0
  <2>1. Children(o)' = Children(o) /\ CachedAt(o)' = CachedAt(o) /\ ByHost(o)' = ByHost(o)
    BY <1>4, <1>5 DEF ByHost
  <2>2. SameObject(objects[o], objects'[o]) /\ o \in DOMAIN objects'
    BY DEF SameObjects
  <2> QED
    BY <1>5, <2>1, <2>2, StaysBalanced
<1>6. objects'[w].count = References(w)'
  <2>1. objects[w].count = References(w)
    BY DEF HInv, RefsBalanced
  <2>2. /\ objects[w].held \in Nat
        /\ Cardinality(Children(w)) \in Nat /\ IsFiniteSet(Children(w))
        /\ Cardinality(CachedAt(w)) \in Nat /\ ByHost(w) \in {0, 1}
        /\ References(w) = objects[w].held + Cardinality(Children(w))
                           + Cardinality(CachedAt(w)) + ByHost(w)
    BY <1>0, Heap, Counted
  <2>3. Cardinality(Children(w)') = Cardinality(Children(w)) + 1
    <3>1. new \notin Children(w)
      BY DEF Children
    <3>2. Children(w)' = Children(w) \cup {new}
      BY <1>4
    <3> QED
      BY <2>2, <3>1, <3>2, OneMore
  <2>4. References(w)' = objects[w].held + (Cardinality(Children(w)) + 1)
                         + Cardinality(CachedAt(w)) + ByHost(w)
    <3>1. References(w)' = objects'[w].held + Cardinality(Children(w)')
                           + Cardinality(CachedAt(w)') + ByHost(w)'
      BY DEF References, Children, CachedAt, ByHost
    <3>2. ByHost(w)' = ByHost(w)
      BY DEF ByHost
    <3> QED
      BY <2>3, <3>1, <3>2
  <2> QED
    BY <2>1, <2>2, <2>4
<1>7. objects'[new].count = References(new)'
  <2>1. Children(new)' = {}
    <3>1. new # w
      OBVIOUS
    <3>2. Children(new) = {}
      <4> SUFFICES ASSUME NEW q \in DOMAIN objects, Exists(q), Owner(q) = new PROVE FALSE
        BY DEF Children
      <4>1. Owner(q) \in DOMAIN objects
        BY Kept
      <4> QED
        BY <4>1
    <3> QED
      BY <1>4, <3>1, <3>2
  <2>2. ByHost(new)' = 0
    BY DEF ByHost, HInv, Shape
  <2>3. References(new)' = objects'[new].held + Cardinality(Children(new)')
                           + Cardinality(CachedAt(new)') + ByHost(new)'
    BY DEF References, Children, CachedAt, ByHost
  <2>4. Cardinality(CachedAt(new)') \in Nat
    BY PointsAssumption, FS_Subset, FS_CardinalityType DEF CachedAt
  <2>5. Cardinality({}) = 0
    BY FS_EmptySet
  <2> QED
    BY <2>1, <2>2, <2>3, <2>4, <2>5
<1> QED
  BY <1>5, <1>6, <1>7 DEF RefsBalanced

(* The clone of a connection enumerator is gone when it is handed out.     *)
LEMMA MadeAndGone ==
    ASSUME HInv, HeapTypeOK', Shape', SameObjects, UNCHANGED <<hosted, cache>>,
           NEW new, new \notin DOMAIN objects,
           DOMAIN objects' = DOMAIN objects \cup {new},
           \A q \in DOMAIN objects : objects'[q] = objects[q],
           objects'[new].count = 0, objects'[new].held = 1,
           objects'[new].kind = "connections"
    PROVE  RefsBalanced'
<1>1. /\ ~Exists(new)'
      /\ \A q \in DOMAIN objects : Exists(q)' <=> Exists(q)
  BY DEF Exists
<1>2. \A o : Children(o)' = Children(o)
  BY <1>1, ChildrenKept
<1>3. ASSUME NEW o \in DOMAIN objects
      PROVE  \/ objects'[o].count = References(o)'
             \/ objects'[o].kind = "connections" /\ ~Exists(o)' /\ objects'[o].held > 0
  <2>1. Children(o)' = Children(o) /\ CachedAt(o)' = CachedAt(o) /\ ByHost(o)' = ByHost(o)
    BY <1>2 DEF ByHost, CachedAt
  <2>2. SameObject(objects[o], objects'[o]) /\ o \in DOMAIN objects'
    BY DEF SameObjects
  <2> QED
    BY <2>1, <2>2, StaysBalanced
<1>4. objects'[new].kind = "connections" /\ ~Exists(new)' /\ objects'[new].held > 0
  BY <1>1
<1> QED
  BY <1>3, <1>4 DEF RefsBalanced

(***************************************************************************)
(* Releases.  A destroyed object gives up its owner, which may give up its *)
(* own; the chain is no longer than connections, proxy, container.         *)
(***************************************************************************)
LEMMA Chain ==
    ASSUME HInv, NEW o \in DOMAIN objects, Exists(o)
    PROVE  /\ 0 \notin DOMAIN objects
           /\ Owner(o) # 0 =>
                 /\ Owner(o) \in DOMAIN objects /\ Exists(Owner(o)) /\ Owner(o) # o
                 /\ Owner(Owner(o)) # 0 =>
                       /\ Owner(Owner(o)) \in DOMAIN objects
                       /\ Exists(Owner(Owner(o)))
                       /\ Owner(Owner(o)) # o /\ Owner(Owner(o)) # Owner(o)
                       /\ Owner(Owner(Owner(o))) = 0
<1>1. 0 \notin DOMAIN objects
  BY Heap DEF HInv
<1>2. \A q \in DOMAIN objects : objects[q].kind \in Kind /\ Shaped(q)
  BY Heap DEF HInv, Shape, Object
<1>3. ASSUME Owner(o) # 0
      PROVE  Owner(o) \in DOMAIN objects /\ Exists(Owner(o)) /\ Owner(o) # o
  <2>1. Owner(o) \in DOMAIN objects /\ Exists(Owner(o))
        /\ objects[Owner(o)].kind \in {"container", "proxy"}
    BY <1>3, Kept
  <2>2. Owner(o) # o
    <3>1. Shaped(o)
      BY <1>2
    <3>2. objects[o].kind = "container" => Owner(o) = 0
      BY <3>1 DEF Shaped
    <3>3. objects[o].kind = "proxy" => Owner(o) # o
      BY <3>1 DEF Shaped
    <3> QED
      BY <1>3, <2>1, <3>2, <3>3
  <2> QED
    BY <2>1, <2>2
<1>4. ASSUME Owner(o) # 0, Owner(Owner(o)) # 0
      PROVE  /\ Owner(Owner(o)) \in DOMAIN objects
             /\ Exists(Owner(Owner(o)))
             /\ Owner(Owner(o)) # o /\ Owner(Owner(o)) # Owner(o)
             /\ Owner(Owner(Owner(o))) = 0
  <2>1. /\ Owner(o) \in DOMAIN objects /\ Exists(Owner(o))
        /\ objects[Owner(o)].kind \in {"container", "proxy"}
    BY <1>4, Kept
  <2>2. objects[Owner(o)].kind = "proxy" /\ Owner(Owner(o)) = Container
        /\ objects[o].kind = "connections"
    BY <1>2, <1>4, <2>1 DEF Shaped, Kind
  <2>3. Container \in DOMAIN objects /\ objects[Container].kind = "container"
        /\ Owner(Container) = 0
    BY <1>2 DEF HInv, Shape, Shaped
  <2>4. Exists(Container)
    BY <1>4, <2>1, <2>2, Kept
  <2> QED
    BY <2>2, <2>3, <2>4
<1> QED
  BY <1>1, <1>3, <1>4

(* Who keeps an object after a release.                                    *)
LEMMA Orphans ==
    ASSUME HInv, NEW o \in DOMAIN objects, Exists(o),
           SameObjects, DOMAIN objects' = DOMAIN objects,
           \A q \in DOMAIN objects : objects'[q].count =
              IF q \in ReleasedBy(o) THEN objects[q].count - 1 ELSE objects[q].count
    PROVE  \A p \in DOMAIN objects : Children(p)' =
              IF p \in ReleasedBy(o) /\ p = Owner(o) THEN Children(p) \ {o}
              ELSE IF p \in ReleasedBy(o) /\ p # o THEN Children(p) \ {Owner(o)}
              ELSE Children(p)
<1> DEFINE w == Owner(o)
           v == Owner(Owner(o))
<1>1. \A q \in DOMAIN objects : objects[q].count \in Nat
  BY Heap DEF HInv
<1>2. \A q \in DOMAIN objects :
         Exists(q)' <=> Exists(q) /\ ~(q \in ReleasedBy(o) /\ LastRef(q))
  <2> SUFFICES ASSUME NEW q \in DOMAIN objects
               PROVE  Exists(q)' <=> Exists(q) /\ ~(q \in ReleasedBy(o) /\ LastRef(q))
    OBVIOUS
  <2>1. objects[q].count \in Nat
    BY <1>1
  <2>2. CASE q \in ReleasedBy(o)
    <3>1. objects'[q].count = objects[q].count - 1
      BY <2>2
    <3> QED
      BY <2>1, <2>2, <3>1 DEF Exists, LastRef
  <2>3. CASE q \notin ReleasedBy(o)
    <3>1. objects'[q].count = objects[q].count
      BY <2>3
    <3> QED
      BY <2>1, <2>3, <3>1 DEF Exists, LastRef
  <2> QED
    BY <2>2, <2>3
<1>3. \A p, q \in DOMAIN objects : q \in Children(p)' <=>
         q \in Children(p) /\ ~(q \in ReleasedBy(o) /\ LastRef(q))
  BY <1>2 DEF Children, SameObjects, SameObject, Owner
<1>4. \A p : \A q : q \in Children(p)' \/ q \in Children(p) => q \in DOMAIN objects
  BY DEF Children
<1>5. \A q : q \in ReleasedBy(o) <=>
         \/ q = o
         \/ q \in DOMAIN objects /\ LastRef(o) /\ q = w
         \/ q \in DOMAIN objects /\ LastRef(o) /\ w # 0 /\ LastRef(w) /\ q = v
  BY DEF ReleasedBy
<1>6. /\ 0 \notin DOMAIN objects
      /\ w # 0 => /\ w \in DOMAIN objects /\ w # o
                  /\ v # 0 => v \in DOMAIN objects /\ v # o /\ v # w /\ Owner(v) = 0
  BY Chain
<1>7. \A p, q : q \in Children(p) => Owner(q) = p
  BY DEF Children
<1> SUFFICES ASSUME NEW p \in DOMAIN objects, NEW q \in DOMAIN objects
             PROVE  q \in Children(p)' <=>
                       q \in (IF p \in ReleasedBy(o) /\ p = w THEN Children(p) \ {o}
                              ELSE IF p \in ReleasedBy(o) /\ p # o
                                   THEN Children(p) \ {w}
                                   ELSE Children(p))
  BY <1>4
<1>8. q \in Children(p)' <=> q \in Children(p) /\ ~(q \in ReleasedBy(o) /\ LastRef(q))
  BY <1>3
<1>9. Owner(o) = w /\ Owner(w) = v
  OBVIOUS
<1> HIDE DEF w, v
<1>10. CASE p \in ReleasedBy(o) /\ p = w
  BY <1>5, <1>6, <1>7, <1>8, <1>9, <1>10
<1>11. CASE p \in ReleasedBy(o) /\ p # w /\ p # o
  BY <1>5, <1>6, <1>7, <1>8, <1>9, <1>11
<1>12. CASE p \in ReleasedBy(o) /\ p # w /\ p = o
  BY <1>5, <1>6, <1>7, <1>8, <1>9, <1>12
<1>13. CASE p \notin ReleasedBy(o)
  BY <1>5, <1>6, <1>7, <1>8, <1>9, <1>13
<1> QED
  BY <1>10, <1>11, <1>12, <1>13

(* After a release, every object is balanced again.                        *)
LEMMA GivenUp ==
    ASSUME HInv, HeapTypeOK', NEW o \in DOMAIN objects, Exists(o),
           SameObjects, DOMAIN objects' = DOMAIN objects, UNCHANGED cache,
           \A q \in DOMAIN objects : objects'[q].count =
              IF q \in ReleasedBy(o) THEN objects[q].count - 1 ELSE objects[q].count,
           \A q \in DOMAIN objects : q # o =>
              objects'[q].held = objects[q].held /\ ByHost(q)' = ByHost(q),
           objects[o].held + ByHost(o) = objects'[o].held + ByHost(o)' + 1
    PROVE  HInv'
<1>1. Shape'
  BY ShapeKept
<1>2. \A p \in DOMAIN objects : Children(p)' =
         IF p \in ReleasedBy(o) /\ p = Owner(o) THEN Children(p) \ {o}
         ELSE IF p \in ReleasedBy(o) /\ p # o THEN Children(p) \ {Owner(o)}
         ELSE Children(p)
  BY Orphans
<1>3. \A p : CachedAt(p)' = CachedAt(p)
  BY DEF CachedAt
<1>4. ASSUME NEW p \in DOMAIN objects
      PROVE  \/ objects'[p].count = References(p)'
             \/ objects'[p].kind = "connections" /\ ~Exists(p)' /\ objects'[p].held > 0
  <2>1. SameObject(objects[p], objects'[p])
    BY DEF SameObjects
  <2>2. References(p)' = objects'[p].held + Cardinality(Children(p)')
                         + Cardinality(CachedAt(p)) + ByHost(p)'
    BY <1>3 DEF References, Children, CachedAt, ByHost
  <2>3. /\ objects[p].held \in Nat /\ objects'[p].held \in Nat /\ objects[p].count \in Nat
        /\ Cardinality(Children(p)) \in Nat /\ IsFiniteSet(Children(p))
        /\ Cardinality(CachedAt(p)) \in Nat
        /\ ByHost(p) \in {0, 1} /\ ByHost(p)' \in {0, 1}
        /\ References(p) = objects[p].held + Cardinality(Children(p))
                           + Cardinality(CachedAt(p)) + ByHost(p)
    <3>1. HeapTypeOK
      BY DEF HInv
    <3>2. objects'[p].held \in Nat
      BY HeldNext DEF HeldTyped
    <3>3. ByHost(p)' \in {0, 1}
      BY DEF ByHost
    <3> QED
      BY <3>1, <3>2, <3>3, Heap, Counted
  <2>4. CASE p \notin ReleasedBy(o)
    <3>1. p # o
      BY <2>4 DEF ReleasedBy
    <3>2. Children(p)' = Children(p)
      BY <1>2, <2>4
    <3>3. ByHost(p)' = ByHost(p) /\ objects'[p].held = objects[p].held
          /\ objects'[p].count = objects[p].count
      BY <2>4, <3>1
    <3> QED
      BY <1>3, <2>1, <3>2, <3>3, StaysBalanced
  <2>5. CASE p \in ReleasedBy(o)
    <3>1. objects'[p].count = objects[p].count - 1
      BY <2>5
    <3>2. Exists(p)
      <4>1. \/ p = o \/ p = Owner(o)
            \/ Owner(o) # 0 /\ p = Owner(Owner(o))
        BY <2>5 DEF ReleasedBy
      <4>2. p # 0
        BY Chain
      <4> QED
        BY <4>1, <4>2, Chain
    <3>3. objects[p].count = References(p)
      BY <3>2 DEF HInv, RefsBalanced
    <3>4. CASE p = o
      <4>1. Children(p)' = Children(p)
        <5>1. p # Owner(o)
          BY <3>4, Chain
        <5> QED
          BY <1>2, <3>4, <5>1
      <4>2. objects[p].held + ByHost(p) = objects'[p].held + ByHost(p)' + 1
        BY <3>4
      <4>3. References(p)' = objects'[p].held + Cardinality(Children(p))
                             + Cardinality(CachedAt(p)) + ByHost(p)'
        BY <2>2, <4>1
      <4> QED
        BY <2>3, <3>1, <3>3, <4>2, <4>3
    <3>5. CASE p # o
      <4>1. objects'[p].held = objects[p].held /\ ByHost(p)' = ByHost(p)
        BY <3>5
      <4>2. Cardinality(Children(p)') = Cardinality(Children(p)) - 1
        <5>1. CASE p = Owner(o)
          <6>1. Children(p)' = Children(p) \ {o}
            BY <1>2, <2>5, <5>1
          <6>2. o \in Children(p)
            BY <5>1 DEF Children
          <6> QED
            BY <2>3, <6>1, <6>2, OneLess
        <5>2. CASE p # Owner(o)
          <6>1. Children(p)' = Children(p) \ {Owner(o)}
            BY <1>2, <2>5, <3>5, <5>2
          <6>2. Owner(o) # 0 /\ p = Owner(Owner(o))
            BY <2>5, <3>5, <5>2 DEF ReleasedBy
          <6>3. Owner(o) \in Children(p)
            BY <6>2, Chain DEF Children
          <6> QED
            BY <2>3, <6>1, <6>3, OneLess
        <5> QED
          BY <5>1, <5>2
      <4>3. References(p)' = objects[p].held + (Cardinality(Children(p)) - 1)
                             + Cardinality(CachedAt(p)) + ByHost(p)
        BY <2>2, <4>1, <4>2
      <4> QED
        BY <2>3, <3>1, <3>3, <4>3
    <3> QED
      BY <3>4, <3>5
  <2> QED
    BY <2>4, <2>5
<1> QED
  BY <1>1, <1>4 DEF HInv, RefsBalanced

-----------------------------------------------------------------------------
(* What enumerators are made with.                                         *)
LEMMA Enumerated ==
    ASSUME NEW S, IsFiniteSet(S)
    PROVE  SetToSeq(S) \in Seq(S)
<1>1. Cardinality(S) \in Nat /\ ExistsBijection(1 .. Cardinality(S), S)
  BY FS_CardinalityType
<1>2. PICK f : f \in Bijection(1 .. Cardinality(S), S)
  BY <1>1 DEF ExistsBijection
<1>3. f \in [1 .. Cardinality(S) -> S] /\ IsInjective(f)
  BY <1>2 DEF Bijection, Injection
<1>4. SetToSeq(S) \in [1 .. Cardinality(S) -> S]
  BY <1>3 DEF SetToSeq
<1> QED
  BY <1>1, <1>4

LEMMA ConnectionsTyped ==
    ASSUME MapTypeOK, NEW p \in Points
    PROVE  Connections(p) \in Seq(Cookies \X Sinks)
<1> DEFINE J == {j \in Cookies : table[p][j] # None}
           T == {<<k, table[p][k]>> : k \in J}
           f == [k \in J |-> <<k, table[p][k]>>]
<1>1. T \subseteq Cookies \X Sinks
  BY DEF MapTypeOK
<1>2. IsFiniteSet(J)
  BY PointsAssumption, FS_Subset
<1>3. f \in Surjection(J, T)
  BY DEF Surjection
<1>4. IsFiniteSet(T)
  BY <1>2, <1>3, FS_Surjection
<1>5. Connections(p) = SetToSeq(T)
  BY DEF Connections
<1>6. SetToSeq(T) \in Seq(T)
  BY <1>4, Enumerated
<1> HIDE DEF T
<1> QED
  BY <1>1, <1>5, <1>6

LEMMA NoItems == \A S : \E items \in Seq(S) : items = <<>>
<1> SUFFICES ASSUME NEW S PROVE <<>> \in Seq(S)
  OBVIOUS
<1> QED
  OBVIOUS

LEMMA NewTyped ==
    ASSUME NEW kind \in Kind, NEW of \in 0 .. MaxObjects,
           NEW point \in Points \cup {None},
           NEW items \in Seq(Points \cup (Cookies \X Sinks))
    PROVE  /\ New(kind, of, point, items) \in Object
           /\ New(kind, of, point, items).of = of
           /\ New(kind, of, point, items).kind = kind
           /\ New(kind, of, point, items).point = point
           /\ New(kind, of, point, items).items = items
           /\ New(kind, of, point, items).count = 0
           /\ New(kind, of, point, items).held = 0
<1> DEFINE Items == Seq(Points \cup (Cookies \X Sinks))
           Spots == Points \cup {None}
<1>1. Object = [kind : Kind, of : 0 .. MaxObjects, point : Spots,
                count : Nat, held : Nat, items : Items, at : Nat \ {0}]
  BY DEF Object
<1>2. items \in Items /\ point \in Spots
  OBVIOUS
<1> HIDE DEF Items, Spots
<1> QED
  BY <1>1, <1>2 DEF New

(* The heap, but for the positions of enumerators.                         *)
SameHeap(heap) ==
    /\ heap \in Seq(Object) /\ DOMAIN heap = DOMAIN objects /\ Len(heap) = Len(objects)
    /\ \A q \in DOMAIN objects :
          /\ SameObject(objects[q], heap[q])
          /\ heap[q].count = objects[q].count /\ heap[q].held = objects[q].held

LEMMA SameHeapItself == HeapTypeOK => SameHeap(objects)
BY DEF HeapTypeOK, SameHeap, SameObject

LEMMA MovedOn ==
    ASSUME HeapTypeOK, NEW o \in DOMAIN objects, NEW m \in Nat \ {0}
    PROVE  SameHeap([objects EXCEPT ![o].at = m])
<1> DEFINE y == [objects[o] EXCEPT !.at = m]
<1>1. objects \in Seq(Object) /\ objects[o] \in Object
  BY Heap
<1>2. y \in Object
  BY <1>1, Counts
<1>3. SameObject(objects[o], y) /\ y.count = objects[o].count /\ y.held = objects[o].held
  BY <1>1, Updated
<1>4. [objects EXCEPT ![o].at = m] = [objects EXCEPT ![o] = y]
  OBVIOUS
<1>5. \A q \in DOMAIN objects : SameObject(objects[q], objects[q])
  BY DEF SameObject
<1> HIDE DEF y
<1> QED
  BY <1>1, <1>2, <1>3, <1>4, <1>5 DEF SameHeap

(* Objects stay what they are, and a new proxy is that of a point that had *)
(* none.                                                                   *)
Extended ==
    /\ SameObjects
    /\ \A p \in Points : cache'[p] = 0 => cache[p] = 0
    /\ \A q \in DOMAIN objects' \ DOMAIN objects : objects'[q].kind = "proxy" =>
          objects'[q].point \in Points /\ cache[objects'[q].point] = 0

(* Handing out an object of the heap.                                      *)
LEMMA HandedExisting ==
    ASSUME HInv, NEW heap, SameHeap(heap), NEW x \in DOMAIN objects, Exists(x),
           objects' = HandedOut(heap, x, 1), UNCHANGED <<hosted, cache>>
    PROVE  HInv' /\ Extended
<1>1. /\ objects' \in Seq(Object) /\ Len(objects') = Len(objects)
      /\ DOMAIN objects' = DOMAIN objects
      /\ \A q \in DOMAIN objects : q # x => objects'[q] = heap[q]
      /\ objects'[x].count = heap[x].count + 1 /\ objects'[x].held = heap[x].held + 1
      /\ SameObject(heap[x], objects'[x])
  <2>1. heap \in Seq(Object) /\ DOMAIN heap = DOMAIN objects /\ Len(heap) = Len(objects)
    BY DEF SameHeap
  <2>2. x \in DOMAIN heap /\ 1 \in Nat
    BY <2>1
  <2> DEFINE h == HandedOut(heap, x, 1)
  <2>3. /\ h \in Seq(Object) /\ Len(h) = Len(heap) /\ DOMAIN h = DOMAIN heap
        /\ \A q \in DOMAIN heap : q # x => h[q] = heap[q]
        /\ SameObject(heap[x], h[x])
        /\ h[x].count = heap[x].count + 1 /\ h[x].held = heap[x].held + 1
    BY <2>1, <2>2, Handing
  <2>4. objects' = h
    OBVIOUS
  <2> HIDE DEF h
  <2> QED
    BY <2>1, <2>3, <2>4
<1>4. HeapTypeOK'
  BY <1>1 DEF HeapTypeOK, HInv
<1>5. SameObjects
  <2> SUFFICES ASSUME NEW q \in DOMAIN objects
               PROVE  SameObject(objects[q], objects'[q])
    BY <1>1 DEF SameObjects
  <2>1. SameObject(objects[q], heap[q])
    BY DEF SameHeap
  <2> QED
    BY <1>1, <2>1 DEF SameObject
<1>6. \A q \in DOMAIN objects :
         \/ /\ objects'[q].count = objects[q].count
            /\ objects'[q].held = objects[q].held
         \/ /\ Exists(q)
            /\ objects'[q].count = objects[q].count + 1
            /\ objects'[q].held = objects[q].held + 1
  BY <1>1 DEF SameHeap
<1>7. Extended
  BY <1>1, <1>5 DEF Extended
<1> QED
  BY <1>1, <1>4, <1>5, <1>6, <1>7, Settled

(* Making an object and handing it out.                                    *)
LEMMA HandedNew ==
    ASSUME HInv, NEW heap, SameHeap(heap), Room, NEW new, new = Len(objects) + 1,
           NEW N \in Object, N.count = 0, N.held = 0,
           NEW w \in DOMAIN objects, w = N.of, NEW n \in Nat,
           objects' = HandedOut(With(heap, N), Len(heap) + 1, n)
    PROVE  Created(new, N, w, n)
<1>1. /\ objects \in Seq(Object) /\ Len(objects) \in Nat
      /\ DOMAIN objects = 1 .. Len(objects)
  BY Heap DEF HInv
<1>2. heap \in Seq(Object) /\ Len(heap) = Len(objects) /\ DOMAIN heap = DOMAIN objects
  BY DEF SameHeap
<1> DEFINE g == With(heap, N)
<1>3. /\ g \in Seq(Object) /\ Len(g) = Len(heap) + 1
      /\ DOMAIN g = 1 .. Len(heap) + 1
      /\ \A q \in DOMAIN heap : q # w => g[q] = heap[q]
      /\ SameObject(heap[w], g[w])
      /\ g[w].count = heap[w].count + 1 /\ g[w].held = heap[w].held
      /\ g[new] = N
  BY <1>2, Growing
<1> HIDE DEF g
<1>4. new \in DOMAIN g /\ new \notin DOMAIN objects /\ new # 0
  BY <1>1, <1>2, <1>3
<1>5. /\ objects' \in Seq(Object) /\ Len(objects') = Len(g)
      /\ DOMAIN objects' = DOMAIN g
      /\ \A q \in DOMAIN g : q # new => objects'[q] = g[q]
      /\ SameObject(g[new], objects'[new])
      /\ objects'[new].count = g[new].count + n /\ objects'[new].held = g[new].held + 1
  <2> DEFINE h == HandedOut(g, new, n)
  <2>1. objects' = h
    BY <1>2 DEF g
  <2>2. g \in Seq(Object) /\ new \in DOMAIN g
    BY <1>3, <1>4
  <2>3. /\ h \in Seq(Object) /\ Len(h) = Len(g) /\ DOMAIN h = DOMAIN g
        /\ \A q \in DOMAIN g : q # new => h[q] = g[q]
        /\ SameObject(g[new], h[new])
        /\ h[new].count = g[new].count + n /\ h[new].held = g[new].held + 1
    BY <2>2, Handing
  <2> HIDE DEF h
  <2> QED
    BY <2>1, <2>3
<1>6. /\ SameObject(N, objects'[new])
      /\ objects'[new].count = n /\ objects'[new].held = 1
  BY <1>3, <1>5
<1>7. /\ objects'[w].count = heap[w].count + 1 /\ objects'[w].held = heap[w].held
      /\ SameObject(heap[w], objects'[w])
  <2>1. w # new /\ w \in DOMAIN g
    BY <1>1, <1>2, <1>3, <1>4
  <2> QED
    BY <1>3, <1>5, <2>1
<1>8. \A q \in DOMAIN objects : q # w => objects'[q] = heap[q]
  <2> SUFFICES ASSUME NEW q \in DOMAIN objects, q # w PROVE objects'[q] = heap[q]
    OBVIOUS
  <2>1. q # new /\ q \in DOMAIN g /\ q \in DOMAIN heap
    BY <1>1, <1>2, <1>3, <1>4
  <2> QED
    BY <1>3, <1>5, <2>1
<1>9. DOMAIN objects' = DOMAIN objects \cup {new}
  <2>1. DOMAIN objects' = 1 .. Len(objects) + 1
    BY <1>2, <1>3, <1>5
  <2>2. 1 .. Len(objects) + 1 = (1 .. Len(objects)) \cup {Len(objects) + 1}
    BY <1>1
  <2> QED
    BY <1>1, <2>1, <2>2
<1>10. Len(objects') <= MaxObjects /\ new \in Ids
  BY <1>1, <1>2, <1>3, <1>5, PointsAssumption DEF Room, Ids
<1>11. \A q \in DOMAIN objects : SameObject(objects[q], objects'[q])
  <2> SUFFICES ASSUME NEW q \in DOMAIN objects
               PROVE  SameObject(objects[q], objects'[q])
    OBVIOUS
  <2>1. SameObject(objects[q], heap[q])
    BY DEF SameHeap
  <2> QED
    BY <1>7, <1>8, <2>1 DEF SameObject
<1>12. /\ objects'[w].count = objects[w].count + 1
       /\ objects'[w].held = objects[w].held
       /\ \A q \in DOMAIN objects : q # w =>
             /\ objects'[q].count = objects[q].count
             /\ objects'[q].held = objects[q].held
  BY <1>7, <1>8 DEF SameHeap
<1> QED
  BY <1>4, <1>5, <1>6, <1>9, <1>10, <1>11, <1>12 DEF SameObjects, Created

-----------------------------------------------------------------------------
(* Every step keeps the heap in order.                                     *)
HeapUnchanged == UNCHANGED <<hosted, objects, cache>>

LEMMA PositionStep ==
    ASSUME HInv, UNCHANGED <<hosted, cache>>, SameHeap(objects')
    PROVE  HInv' /\ Extended
<1>1. HeapTypeOK'
  BY DEF HInv, HeapTypeOK, SameHeap
<1>2. SameObjects /\ DOMAIN objects' = DOMAIN objects
  BY DEF SameObjects, SameHeap
<1>3. \A q \in DOMAIN objects :
         \/ objects'[q].count = objects[q].count /\ objects'[q].held = objects[q].held
         \/ /\ Exists(q)
            /\ objects'[q].count = objects[q].count + 1
            /\ objects'[q].held = objects[q].held + 1
  BY DEF SameHeap
<1>4. Extended
  BY <1>2 DEF Extended
<1> QED
  BY <1>1, <1>2, <1>3, <1>4, Settled

LEMMA HeapLeftAlone ==
    ASSUME HInv, HeapUnchanged
    PROVE  HInv' /\ Extended
<1>1. SameHeap(objects')
  BY DEF HeapUnchanged, HInv, HeapTypeOK, SameHeap, SameObject
<1> QED
  BY <1>1, PositionStep DEF HeapUnchanged

(* Looking up a connection point, from the heap of a caller that may have  *)
(* moved an enumerator on.                                                 *)
LEMMA ProxyStep ==
    ASSUME HInv, NEW heap, SameHeap(heap), NEW p \in Points, Exists(Container),
           GetProxyConnectionPoint(heap, p), UNCHANGED hosted
    PROVE  HInv' /\ Extended
<1>0. HeapTypeOK /\ Container \in DOMAIN objects /\ Len(heap) = Len(objects)
      /\ DOMAIN objects = 1 .. Len(objects) /\ Len(objects) \in Nat
  BY Heap DEF HInv, Shape, SameHeap
<1>1. CASE /\ cache[p] # 0 /\ objects' = HandedOut(heap, cache[p], 1)
           /\ UNCHANGED cache
  <2>1. cache[p] \in DOMAIN objects /\ Exists(cache[p])
    BY <1>1, Kept DEF HInv, Shape
  <2> QED
    BY <1>1, <2>1, HandedExisting
<1>2. CASE /\ cache[p] = 0 /\ Room
           /\ objects' = HandedOut(With(heap, New("proxy", Container, p, <<>>)),
                                   Len(heap) + 1, 2)
           /\ cache' = [cache EXCEPT ![p] = Len(heap) + 1]
  <2> DEFINE N == New("proxy", Container, p, <<>>)
  <2> PICK new : new = Len(objects) + 1
    OBVIOUS
  <2>1. N \in Object /\ N.count = 0 /\ N.held = 0 /\ N.of = Container
        /\ N.kind = "proxy" /\ N.point = p
    <3>1. "proxy" \in Kind /\ Container \in 0 .. MaxObjects /\ p \in Points \cup {None}
      BY PointsAssumption DEF Kind, Container
    <3>2. PICK items \in Seq(Points \cup (Cookies \X Sinks)) : items = <<>>
      BY NoItems
    <3>3. LET M == New("proxy", Container, p, items)
          IN  /\ M \in Object /\ M.count = 0 /\ M.held = 0 /\ M.of = Container
              /\ M.kind = "proxy" /\ M.point = p
      BY <3>1, NewTyped
    <3> QED
      BY <3>2, <3>3
  <2>2. objects' = HandedOut(With(heap, N), Len(heap) + 1, 2) /\ 2 \in Nat
    BY <1>2
  <2> HIDE DEF N
  <2>13. Created(new, N, Container, 2)
    BY <1>0, <1>2, <2>1, <2>2, HandedNew
  <2>3. /\ objects' \in Seq(Object) /\ Len(objects') <= MaxObjects
        /\ DOMAIN objects' = DOMAIN objects \cup {new}
        /\ new \notin DOMAIN objects /\ new # 0 /\ new \in Ids
        /\ SameObjects
        /\ SameObject(N, objects'[new])
    BY <2>13 DEF Created
  <2>4. cache' = [cache EXCEPT ![p] = new] /\ cache \in [Points -> 0 .. MaxObjects]
    BY <1>0, <1>2 DEF HeapTypeOK
  <2>5. HeapTypeOK'
    <3>1. cache' \in [Points -> 0 .. MaxObjects]
      BY <2>3, <2>4, PointsAssumption DEF Ids
    <3>2. hosted' \in BOOLEAN
      BY <1>0 DEF HeapTypeOK
    <3> QED
      BY <2>3, <3>1, <3>2 DEF HeapTypeOK
  <2>6. /\ cache'[p] = new
        /\ \A q \in Points : q # p => cache'[q] = cache[q]
    BY <2>4
  <2>7. /\ objects'[new].kind = "proxy" /\ objects'[new].point = p
        /\ objects'[new].of = Container
    BY <2>1, <2>3 DEF SameObject
  <2>8. Shape'
    <3>1. ASSUME NEW q \in DOMAIN objects
          PROVE  Shaped(q)'
      <4>1. Shaped(q) /\ SameObject(objects[q], objects'[q])
        BY <2>3 DEF HInv, Shape, SameObjects
      <4>2. objects[q].kind = "proxy" => cache'[objects[q].point] = cache[objects[q].point]
        <5>1. objects[q].kind = "proxy" => objects[q].point # p
          BY <1>2, <4>1, <1>0 DEF Shaped
        <5> QED
          BY <2>6, <5>1, <4>1 DEF Shaped
      <4>3. Owner(q)' = Owner(q)
        BY <4>1 DEF Owner, SameObject
      <4>4. Owner(q) \in DOMAIN objects => SameObject(objects[Owner(q)], objects'[Owner(q)])
        BY <2>3 DEF SameObjects
      <4> QED
        BY <2>3, <4>1, <4>2, <4>3, <4>4 DEF Shaped, SameObject
    <3>2. Shaped(new)'
      BY <1>0, <2>3, <2>6, <2>7 DEF Shaped, Owner
    <3>3. \A r \in Points : cache'[r] # 0 =>
             /\ cache'[r] \in DOMAIN objects'
             /\ objects'[cache'[r]].kind = "proxy"
             /\ objects'[cache'[r]].point = r
      <4> SUFFICES ASSUME NEW r \in Points, cache'[r] # 0
                   PROVE  /\ cache'[r] \in DOMAIN objects'
                          /\ objects'[cache'[r]].kind = "proxy"
                          /\ objects'[cache'[r]].point = r
        OBVIOUS
      <4>1. CASE r = p
        BY <2>3, <2>6, <2>7, <4>1
      <4>2. CASE r # p
        <5>1. cache'[r] = cache[r]
          BY <2>6, <4>2
        <5>2. cache[r] \in DOMAIN objects /\ objects[cache[r]].kind = "proxy"
              /\ objects[cache[r]].point = r
          BY <5>1 DEF HInv, Shape
        <5>3. SameObject(objects[cache[r]], objects'[cache[r]])
          BY <2>3, <5>2 DEF SameObjects
        <5> QED
          BY <2>3, <5>1, <5>2, <5>3 DEF SameObject
      <4> QED
        BY <4>1, <4>2
    <3> QED
      BY <1>0, <2>3, <3>1, <3>2, <3>3 DEF Shape
  <2>9. \A q \in DOMAIN objects : CachedAt(q)' = CachedAt(q)
    <3> SUFFICES ASSUME NEW q \in DOMAIN objects, NEW r \in Points
                 PROVE  cache'[r] = q <=> cache[r] = q
      BY DEF CachedAt
    <3>1. q # new /\ q # 0
      BY <1>0, <2>3
    <3> QED
      BY <1>2, <2>6, <3>1
  <2>10. Cardinality(CachedAt(new)') = 1
    <3>1. CachedAt(new)' = {p}
      <4> SUFFICES ASSUME NEW r \in Points
                   PROVE  cache'[r] = new <=> r = p
        BY DEF CachedAt
      <4>1. cache[r] # new
        BY <2>3 DEF HInv, Shape
      <4> QED
        BY <2>6, <4>1
    <3> QED
      BY <3>1, FS_Singleton
  <2>11. Created(new, N, Container, 1 + Cardinality(CachedAt(new)'))
    BY <2>10, <2>13
  <2>12. RefsBalanced'
    BY <1>0, <2>1, <2>5, <2>8, <2>9, <2>11, Made
  <2>14. Extended
    <3>1. \A r \in Points : cache'[r] = 0 => cache[r] = 0
      BY <1>2, <2>6
    <3> QED
      BY <1>2, <2>3, <2>7, <3>1 DEF Extended
  <2> QED
    BY <2>5, <2>8, <2>12, <2>14 DEF HInv
<1> QED
  BY <1>1, <1>2 DEF GetProxyConnectionPoint

(* What an enumerator must be like.                                        *)
EnumeratorOf(object, w) ==
    \/ /\ object.kind = "points" /\ w = Container
       /\ object.items \in Seq(Points)
    \/ /\ object.kind = "connections"
       /\ objects[w].kind = "proxy" /\ object.point = objects[w].point
       /\ object.items \in Seq(Cookies \X Sinks)

LEMMA EnumeratorShaped ==
    ASSUME HInv, SameObjects, UNCHANGED cache,
           NEW new, new \notin DOMAIN objects, DOMAIN objects' = DOMAIN objects \cup {new},
           NEW object, NEW w \in DOMAIN objects, object.of = w, EnumeratorOf(object, w),
           SameObject(object, objects'[new])
    PROVE  Shape'
<1>1. /\ objects'[new].kind = object.kind /\ Owner(new)' = w
      /\ objects'[new].items = object.items /\ objects'[new].point = object.point
  BY DEF SameObject, Owner
<1>2. new # Container
  BY DEF HInv, Shape
<1>3. SameObject(objects[w], objects'[w]) /\ w \in DOMAIN objects'
  BY DEF SameObjects
<1>4. CASE /\ object.kind = "points" /\ w = Container
           /\ object.items \in Seq(Points)
  <2>1. Shaped(new)'
    BY <1>1, <1>2, <1>4 DEF Shaped
  <2> QED
    BY <2>1, ShapeKept
<1>5. CASE /\ object.kind = "connections"
           /\ objects[w].kind = "proxy" /\ object.point = objects[w].point
           /\ object.items \in Seq(Cookies \X Sinks)
  <2>1. Shaped(new)'
    BY <1>1, <1>2, <1>3, <1>5 DEF Shaped, SameObject
  <2> QED
    BY <2>1, ShapeKept
<1> QED
  BY <1>4, <1>5 DEF EnumeratorOf

LEMMA EnumeratorStep ==
    ASSUME HInv, UNCHANGED <<hosted, cache>>, Room,
           NEW object \in Object, object.count = 0, object.held = 0,
           NEW w \in DOMAIN objects, w = object.of, Exists(w), EnumeratorOf(object, w),
           objects' = HandedOut(With(objects, object), Len(objects) + 1, 1)
    PROVE  HInv' /\ Extended
<1>1. SameHeap(objects)
  BY SameHeapItself DEF HInv
<1>2. PICK new : new = Len(objects) + 1
  OBVIOUS
<1>3. Created(new, object, w, 1)
  <2>1. 1 \in Nat
    OBVIOUS
  <2> QED
    BY <1>1, <1>2, <2>1, HandedNew
<1>4. /\ objects' \in Seq(Object) /\ Len(objects') <= MaxObjects
      /\ DOMAIN objects' = DOMAIN objects \cup {new}
      /\ new \notin DOMAIN objects
      /\ SameObjects
      /\ SameObject(object, objects'[new])
  BY <1>3 DEF Created
<1>5. HeapTypeOK'
  BY <1>4 DEF HInv, HeapTypeOK
<1>6. Shape'
  BY <1>4, EnumeratorShaped
<1>7. \A q \in DOMAIN objects : CachedAt(q)' = CachedAt(q)
  BY DEF CachedAt
<1>8. Cardinality(CachedAt(new)') = 0
  <2>1. CachedAt(new)' = {}
    BY <1>4, Heap DEF CachedAt, HInv, Shape
  <2> QED
    BY <2>1, FS_EmptySet
<1>9. Created(new, object, w, 1 + Cardinality(CachedAt(new)'))
  BY <1>3, <1>8
<1>10. RefsBalanced'
  BY <1>5, <1>6, <1>7, <1>9, Made
<1>11. Extended
  BY <1>4 DEF Extended, EnumeratorOf, SameObject
<1> QED
  BY <1>5, <1>6, <1>10, <1>11 DEF HInv

LEMMA ContainerReached ==
    ASSUME HInv, Reachable
    PROVE  Exists(Container)
BY Kept DEF Reachable, Calls

LEMMA LookupStep ==
    ASSUME HInv, NEW p \in Points, FindConnectionPoint(p)
    PROVE  HInv' /\ Extended
<1>1. SameHeap(objects)
  BY SameHeapItself DEF HInv
<1>2. /\ Exists(Container) /\ GetProxyConnectionPoint(objects, p) /\ UNCHANGED hosted
  BY ContainerReached DEF FindConnectionPoint
<1> QED
  BY <1>1, <1>2, ProxyStep

LEMMA NextPointStep ==
    ASSUME HInv, NEW o \in DOMAIN objects, NextPoint(o)
    PROVE  HInv' /\ Extended
<1>1. /\ Calls(o, "points") /\ More(o) /\ UNCHANGED hosted
      /\ GetProxyConnectionPoint([objects EXCEPT ![o].at = @ + 1], Item(o))
  BY DEF NextPoint
<1>2. Shaped(o) /\ objects[o].kind = "points" /\ Exists(o)
  BY <1>1 DEF HInv, Shape, Calls
<1>3. Exists(Container)
  <2>1. Owner(o) = Container
    BY <1>2 DEF Shaped
  <2> QED
    BY <1>2, <2>1, Kept DEF Container
<1>4. objects[o] \in Object
  BY Heap DEF HInv
<1>5. objects[o].at \in Nat /\ objects[o].at >= 1
  BY <1>4 DEF Object
<1>6. SameHeap([objects EXCEPT ![o].at = objects[o].at + 1])
  BY <1>5, MovedOn DEF HInv
<1>7. Item(o) \in Points
  <2>1. objects[o].items \in Seq(Points)
    BY <1>2 DEF Shaped
  <2>2. objects[o].at \in DOMAIN objects[o].items
    <3>1. Len(objects[o].items) \in Nat
          /\ DOMAIN objects[o].items = 1 .. Len(objects[o].items)
      BY <2>1
    <3> QED
      BY <1>1, <1>5, <3>1 DEF More
  <2> QED
    BY <2>1, <2>2 DEF Item
<1> QED
  BY <1>1, <1>3, <1>6, <1>7, ProxyStep

LEMMA MovingStep ==
    ASSUME HInv, NEW o \in DOMAIN objects, NextConnection(o) \/ Skip(o) \/ Reset(o)
    PROVE  HInv' /\ Extended
<1>1. objects[o] \in Object
  BY Heap DEF HInv
<1>2. objects[o].at \in Nat \ {0} /\ objects[o].at + 1 \in Nat \ {0} /\ 1 \in Nat \ {0}
  <2>1. objects[o].at \in Nat \ {0}
    BY <1>1 DEF Object
  <2> QED
    BY <2>1
<1>3. /\ SameHeap([objects EXCEPT ![o].at = objects[o].at + 1])
      /\ SameHeap([objects EXCEPT ![o].at = 1])
  BY <1>2, MovedOn DEF HInv
<1>4. /\ UNCHANGED <<hosted, cache>>
      /\ \/ objects' = [objects EXCEPT ![o].at = objects[o].at + 1]
         \/ objects' = [objects EXCEPT ![o].at = 1]
  BY DEF NextConnection, Skip, Reset
<1> QED
  BY <1>3, <1>4, PositionStep

LEMMA ContainerStep ==
    ASSUME HInv, NEW o \in DOMAIN objects, GetConnectionPointContainer(o)
    PROVE  HInv' /\ Extended
<1>1. /\ objects' = HandedOut(objects, Container, 1) /\ UNCHANGED <<hosted, cache>>
      /\ Calls(o, "proxy")
  BY DEF GetConnectionPointContainer
<1>2. Exists(Container)
  <2>1. Exists(o) /\ Owner(o) = Container
    BY <1>1 DEF Calls, HInv, Shape, Shaped
  <2> QED
    BY <2>1, Kept DEF Container
<1>3. Container \in DOMAIN objects /\ SameHeap(objects)
  BY SameHeapItself DEF HInv, Shape
<1> QED
  BY <1>1, <1>2, <1>3, HandedExisting

LEMMA PointsStep ==
    ASSUME HInv, EnumConnectionPoints
    PROVE  HInv' /\ Extended
<1>1. Room /\ UNCHANGED <<hosted, cache>> /\ Exists(Container) /\ Container \in DOMAIN objects
  BY ContainerReached DEF EnumConnectionPoints, HInv, Shape
<1>2. PICK items : items = SetToSeq(Points)
  OBVIOUS
<1>3. items \in Seq(Points)
  BY <1>2, Enumerated, PointsAssumption
<1>4. PICK object : object = New("points", Container, None, items)
  OBVIOUS
<1>5. /\ object \in Object /\ object.of = Container /\ object.kind = "points"
      /\ object.items = items /\ object.count = 0 /\ object.held = 0
  <2>1. "points" \in Kind /\ Container \in 0 .. MaxObjects /\ None \in Points \cup {None}
    BY PointsAssumption DEF Kind, Container
  <2>2. items \in Seq(Points \cup (Cookies \X Sinks))
    BY <1>3
  <2> QED
    BY <1>4, <2>1, <2>2, NewTyped
<1>6. EnumeratorOf(object, Container)
  BY <1>3, <1>5 DEF EnumeratorOf
<1>7. objects' = HandedOut(With(objects, object), Len(objects) + 1, 1)
  BY <1>2, <1>4 DEF EnumConnectionPoints
<1> QED
  BY <1>1, <1>5, <1>6, <1>7, EnumeratorStep

LEMMA ConnectionsStep ==
    ASSUME HInv, MapTypeOK, NEW o \in DOMAIN objects, EnumConnections(o)
    PROVE  HInv' /\ Extended
<1>1. Room /\ UNCHANGED <<hosted, cache>> /\ Exists(o) /\ objects[o].kind = "proxy"
  BY DEF EnumConnections, Calls
<1>2. PICK p : p = objects[o].point
  OBVIOUS
<1>3. p \in Points
  BY <1>1, <1>2 DEF HInv, Shape, Shaped
<1>4. PICK items : items = Connections(p)
  OBVIOUS
<1>5. items \in Seq(Cookies \X Sinks)
  BY <1>3, <1>4, ConnectionsTyped
<1>6. PICK object : object = New("connections", o, p, items)
  OBVIOUS
<1>7. /\ object \in Object /\ object.of = o /\ object.kind = "connections"
      /\ object.items = items /\ object.point = p /\ object.count = 0 /\ object.held = 0
  <2>1. "connections" \in Kind /\ p \in Points \cup {None}
    BY <1>3 DEF Kind
  <2>2. items \in Seq(Points \cup (Cookies \X Sinks))
    BY <1>5
  <2>3. o \in 0 .. MaxObjects
    BY Heap, PointsAssumption DEF HInv, Ids
  <2> QED
    BY <1>6, <2>1, <2>2, <2>3, NewTyped
<1>8. EnumeratorOf(object, o)
  BY <1>1, <1>2, <1>5, <1>7 DEF EnumeratorOf
<1>9. objects' = HandedOut(With(objects, object), Len(objects) + 1, 1)
  BY <1>2, <1>4, <1>6 DEF EnumConnections
<1> QED
  BY <1>1, <1>7, <1>8, <1>9, EnumeratorStep

LEMMA Copied ==
    ASSUME HeapTypeOK, NEW o \in DOMAIN objects
    PROVE  /\ CopyOf(o) \in Object /\ SameObject(objects[o], CopyOf(o))
           /\ CopyOf(o).count = 0 /\ CopyOf(o).held = 0
           /\ [CopyOf(o) EXCEPT !.held = 1] \in Object
           /\ SameObject(objects[o], [CopyOf(o) EXCEPT !.held = 1])
           /\ [CopyOf(o) EXCEPT !.held = 1].count = 0
           /\ [CopyOf(o) EXCEPT !.held = 1].held = 1
<1>1. objects[o] \in Object
  BY Heap
<1>2. CopyOf(o) \in Object
  <2>1. 0 \in Nat
    OBVIOUS
  <2>2. CopyOf(o) = [objects[o] EXCEPT !.count = 0, !.held = 0]
    BY DEF CopyOf
  <2>3. \A m, n \in Nat : [objects[o] EXCEPT !.count = m, !.held = n] \in Object
    BY <1>1, Counts
  <2> QED
    BY <2>1, <2>2, <2>3
<1>3. /\ SameObject(objects[o], CopyOf(o))
      /\ CopyOf(o).count = 0 /\ CopyOf(o).held = 0
  BY <1>1 DEF SameObject, Object, CopyOf
<1>4. [CopyOf(o) EXCEPT !.held = 1] \in Object
  BY <1>2, Counts
<1>5. /\ SameObject(CopyOf(o), [CopyOf(o) EXCEPT !.held = 1])
      /\ [CopyOf(o) EXCEPT !.held = 1].count = CopyOf(o).count
      /\ [CopyOf(o) EXCEPT !.held = 1].held = 1
  BY <1>2 DEF SameObject, Object
<1> QED
  BY <1>2, <1>3, <1>4, <1>5 DEF SameObject

LEMMA ClonePointsStep ==
    ASSUME HInv, NEW o \in DOMAIN objects, ClonePoints(o)
    PROVE  HInv' /\ Extended
<1>1. Room /\ UNCHANGED <<hosted, cache>> /\ Exists(o) /\ objects[o].kind = "points"
  BY DEF ClonePoints, Calls
<1>2. PICK object : object = CopyOf(o)
  OBVIOUS
<1>3. /\ object \in Object /\ SameObject(objects[o], object)
      /\ object.count = 0 /\ object.held = 0
  BY <1>2, Copied DEF HInv
<1>4. /\ Owner(o) = Container /\ objects[o].items \in Seq(Points)
      /\ Container \in DOMAIN objects /\ Exists(Container)
  <2>1. Shaped(o) /\ Container \in DOMAIN objects
    BY DEF HInv, Shape
  <2>2. Owner(o) = Container /\ objects[o].items \in Seq(Points)
    BY <1>1, <2>1 DEF Shaped
  <2> QED
    BY <1>1, <2>1, <2>2, Kept DEF Container
<1>5. object.of = Container /\ EnumeratorOf(object, Container)
  BY <1>1, <1>3, <1>4 DEF EnumeratorOf, SameObject, Owner
<1>6. objects' = HandedOut(With(objects, object), Len(objects) + 1, 1)
  BY <1>2 DEF ClonePoints
<1> QED
  BY <1>1, <1>3, <1>4, <1>5, <1>6, EnumeratorStep

LEMMA CloneConnectionsStep ==
    ASSUME HInv, NEW o \in DOMAIN objects, CloneConnections(o)
    PROVE  HInv' /\ Extended
<1>1. /\ Room /\ UNCHANGED <<hosted, cache>> /\ Exists(o)
      /\ objects[o].kind = "connections"
  BY DEF CloneConnections, Calls
<1>2. PICK object : object = [CopyOf(o) EXCEPT !.held = 1]
  OBVIOUS
<1>3. /\ object \in Object /\ SameObject(objects[o], object)
      /\ object.count = 0 /\ object.held = 1
  BY <1>2, Copied DEF HInv
<1>4. objects' = Append(objects, object)
  BY <1>2 DEF CloneConnections
<1>5. PICK new : new = Len(objects) + 1
  OBVIOUS
<1>6. /\ objects \in Seq(Object) /\ Len(objects) \in Nat
      /\ DOMAIN objects = 1 .. Len(objects)
  BY Heap DEF HInv
<1>7. /\ objects' \in Seq(Object) /\ Len(objects') = Len(objects) + 1
      /\ DOMAIN objects' = DOMAIN objects \cup {new}
      /\ new \notin DOMAIN objects
      /\ objects'[new] = object
      /\ \A q \in DOMAIN objects : objects'[q] = objects[q]
  BY <1>3, <1>4, <1>5, <1>6
<1>8. SameObjects
  BY <1>7 DEF SameObjects, SameObject
<1>9. HeapTypeOK'
  BY <1>1, <1>6, <1>7, PointsAssumption DEF HInv, HeapTypeOK, Room
<1>10. Shape'
  <2>1. Shaped(o) /\ Owner(o) = object.of
    BY <1>3 DEF HInv, Shape, SameObject, Owner
  <2>2. Owner(o) \in DOMAIN objects /\ EnumeratorOf(object, Owner(o))
    BY <1>1, <1>3, <2>1 DEF Shaped, EnumeratorOf, SameObject
  <2>3. SameObject(object, objects'[new])
    BY <1>7 DEF SameObject
  <2> QED
    BY <1>1, <1>7, <1>8, <2>1, <2>2, <2>3, EnumeratorShaped
<1>11. objects'[new].kind = "connections"
  BY <1>1, <1>3, <1>7 DEF SameObject
<1>12. RefsBalanced'
  BY <1>1, <1>3, <1>7, <1>8, <1>9, <1>10, <1>11, MadeAndGone
<1>13. Extended
  BY <1>1, <1>7, <1>8, <1>11 DEF Extended
<1> QED
  BY <1>9, <1>10, <1>12, <1>13 DEF HInv

(* The counts after a release.                                             *)
LEMMA Taken ==
    ASSUME HInv, NEW o \in DOMAIN objects, Exists(o)
    PROVE  /\ Released(o) \in Seq(Object) /\ Len(Released(o)) = Len(objects)
           /\ DOMAIN Released(o) = DOMAIN objects
           /\ \A q \in DOMAIN objects :
                 /\ SameObject(objects[q], Released(o)[q])
                 /\ Released(o)[q].held = objects[q].held
                 /\ Released(o)[q].count =
                       IF q \in ReleasedBy(o) THEN objects[q].count - 1
                                              ELSE objects[q].count
<1>1. /\ objects \in Seq(Object) /\ Len(objects) \in Nat
      /\ DOMAIN objects = 1 .. Len(objects)
  BY Heap DEF HInv
<1> DEFINE r == Released(o)
<1>2. DOMAIN r = DOMAIN objects
      /\ \A q \in DOMAIN objects : r[q] =
            IF q \in ReleasedBy(o) THEN [objects[q] EXCEPT !.count = objects[q].count - 1]
                                   ELSE objects[q]
  BY DEF Released
<1> HIDE DEF r
<1>3. ASSUME NEW q \in DOMAIN objects
      PROVE  /\ r[q] \in Object
             /\ SameObject(objects[q], r[q]) /\ r[q].held = objects[q].held
             /\ r[q].count = IF q \in ReleasedBy(o) THEN objects[q].count - 1
                                                    ELSE objects[q].count
  <2>1. objects[q] \in Object
    BY <1>1
  <2>2. CASE q \notin ReleasedBy(o)
    BY <1>2, <2>1, <2>2 DEF SameObject
  <2>3. CASE q \in ReleasedBy(o)
    <3>1. r[q] = [objects[q] EXCEPT !.count = objects[q].count - 1]
      BY <1>2, <2>3
    <3>2. objects[q].count \in Nat /\ objects[q].count > 0
      <4>1. q = o \/ q = Owner(o) \/ (Owner(o) # 0 /\ q = Owner(Owner(o)))
        BY <2>3 DEF ReleasedBy
      <4>2. q # 0
        BY Chain
      <4>3. Exists(q)
        BY <4>1, <4>2, Chain
      <4> QED
        BY <4>3, Heap DEF Exists, HInv
    <3>3. \A m \in Nat : [objects[q] EXCEPT !.count = m] \in Object
      BY <2>1, Counts
    <3>4. objects[q].count - 1 \in Nat
      BY <3>2
    <3>5. r[q] \in Object
      BY <3>1, <3>3, <3>4
    <3>6. SameObject(objects[q], r[q]) /\ r[q].held = objects[q].held
          /\ r[q].count = objects[q].count - 1
      BY <3>1, <2>1 DEF SameObject, Object
    <3> QED
      BY <2>3, <3>5, <3>6
  <2> QED
    BY <2>2, <2>3
<1>4. r \in Seq(Object) /\ Len(r) = Len(objects)
  <2>1. r = [q \in 1 .. Len(objects) |-> r[q]]
    BY <1>1 DEF r, Released
  <2>2. \A q \in 1 .. Len(objects) : r[q] \in Object
    BY <1>1, <1>3
  <2> HIDE DEF r
  <2>3. r \in [1 .. Len(objects) -> Object]
    BY <2>1, <2>2
  <2> QED
    BY <1>1, <2>3
<1> QED
  BY <1>2, <1>3, <1>4 DEF r

LEMMA ReleaseStep ==
    ASSUME HInv, NEW o \in DOMAIN objects, Release(o)
    PROVE  HInv' /\ Extended
<1>1. /\ Exists(o) /\ objects[o].held > 0 /\ UNCHANGED <<hosted, cache>>
      /\ objects' = [Released(o) EXCEPT ![o].held = @ - 1]
  BY DEF Release
<1>2. objects[o].held \in Nat
  BY Heap DEF HInv
<1> DEFINE r == Released(o)
<1>3. /\ r \in Seq(Object) /\ Len(r) = Len(objects) /\ DOMAIN r = DOMAIN objects
      /\ \A q \in DOMAIN objects :
            /\ SameObject(objects[q], r[q]) /\ r[q].held = objects[q].held
            /\ r[q].count = IF q \in ReleasedBy(o) THEN objects[q].count - 1
                                                   ELSE objects[q].count
  BY <1>1, Taken
<1>4. objects' = [r EXCEPT ![o].held = r[o].held - 1]
  BY <1>1
<1> HIDE DEF r
<1> DEFINE y == [r[o] EXCEPT !.held = r[o].held - 1]
<1>5. r[o] \in Object /\ r[o].held = objects[o].held
  BY <1>3
<1>6. /\ y \in Object /\ SameObject(r[o], y)
      /\ y.count = r[o].count /\ y.held = r[o].held - 1
  <2>1. r[o].held - 1 \in Nat
    BY <1>1, <1>2, <1>5
  <2>2. \A m \in Nat : [r[o] EXCEPT !.held = m] \in Object
    BY <1>5, Counts
  <2>3. y \in Object
    BY <2>1, <2>2
  <2> QED
    BY <1>5, <2>3 DEF SameObject, Object
<1>7. objects' = [r EXCEPT ![o] = y]
  BY <1>4
<1> HIDE DEF y
<1>8. /\ objects' \in Seq(Object) /\ Len(objects') = Len(r) /\ DOMAIN objects' = DOMAIN r
      /\ objects'[o] = y
      /\ \A q \in DOMAIN r : q # o => objects'[q] = r[q]
  BY <1>3, <1>6, <1>7
<1>9. HeapTypeOK'
  BY <1>1, <1>3, <1>8 DEF HInv, HeapTypeOK
<1>10. ASSUME NEW q \in DOMAIN objects
       PROVE  /\ SameObject(objects[q], objects'[q])
              /\ objects'[q].count = IF q \in ReleasedBy(o) THEN objects[q].count - 1
                                                            ELSE objects[q].count
              /\ q # o => objects'[q].held = objects[q].held
  <2>1. CASE q = o
    BY <1>3, <1>6, <1>8, <2>1 DEF SameObject
  <2>2. CASE q # o
    BY <1>3, <1>8, <2>2
  <2> QED
    BY <2>1, <2>2
<1>11. SameObjects
  BY <1>3, <1>8, <1>10 DEF SameObjects
<1>12. /\ \A q : ByHost(q)' = ByHost(q)
       /\ ByHost(o) \in {0, 1}
  BY <1>1 DEF ByHost
<1>13. objects'[o].held = objects[o].held - 1
  BY <1>5, <1>6, <1>8
<1>14. objects[o].held + ByHost(o) = objects'[o].held + ByHost(o)' + 1
  <2>1. ByHost(o)' = ByHost(o) /\ ByHost(o) \in Int
    BY <1>12
  <2> QED
    BY <1>2, <1>13, <2>1
<1>15. Extended
  BY <1>1, <1>3, <1>8, <1>11 DEF Extended
<1> QED
  BY <1>15, <1>1, <1>3, <1>8, <1>9, <1>10, <1>11, <1>12, <1>14, GivenUp

LEMMA ReleaseHostStep ==
    ASSUME HInv, ReleaseHostContainer
    PROVE  HInv' /\ Extended
<1>1. /\ hosted /\ hosted' = FALSE /\ UNCHANGED cache
      /\ objects' = Released(Container)
  BY DEF ReleaseHostContainer
<1>2. Container \in DOMAIN objects /\ Exists(Container)
  BY <1>1, Kept DEF HInv, Shape
<1>3. /\ objects' \in Seq(Object) /\ Len(objects') = Len(objects)
      /\ DOMAIN objects' = DOMAIN objects
      /\ \A q \in DOMAIN objects :
            /\ SameObject(objects[q], objects'[q])
            /\ objects'[q].held = objects[q].held
            /\ objects'[q].count = IF q \in ReleasedBy(Container)
                                   THEN objects[q].count - 1 ELSE objects[q].count
  BY <1>1, <1>2, Taken
<1>4. HeapTypeOK'
  BY <1>1, <1>3 DEF HInv, HeapTypeOK
<1>5. SameObjects
  BY <1>3 DEF SameObjects
<1>6. /\ ByHost(Container) = 1 /\ ByHost(Container)' = 0
      /\ \A q : q # Container => ByHost(q)' = ByHost(q)
  BY <1>1 DEF ByHost
<1>7. objects[Container].held + ByHost(Container)
         = objects'[Container].held + ByHost(Container)' + 1
  <2>1. objects[Container].held \in Nat
    BY <1>2, Heap DEF HInv
  <2>2. objects'[Container].held = objects[Container].held
    BY <1>2, <1>3
  <2> QED
    BY <1>6, <2>1, <2>2
<1>8. Extended
  BY <1>1, <1>3, <1>5 DEF Extended
<1> QED
  BY <1>8, <1>1, <1>2, <1>3, <1>4, <1>5, <1>6, <1>7, GivenUp

LEMMA HeapNext ==
    ASSUME HInv, MapTypeOK, [Next]_vars
    PROVE  HInv' /\ Extended
<1>1. CASE UNCHANGED vars
  BY <1>1, HeapLeftAlone DEF vars, HeapUnchanged
<1>2. ASSUME NEW p \in Points, FindConnectionPoint(p) PROVE HInv' /\ Extended
  BY <1>2, LookupStep
<1>3. ASSUME NEW p \in Points, NEW k \in Cookies, ControlDrops(p, k) PROVE HInv' /\ Extended
  BY <1>3, HeapLeftAlone DEF ControlDrops, HeapUnchanged
<1>4. CASE EnumConnectionPoints
  BY <1>4, PointsStep
<1>5. CASE ReleaseHostContainer
  BY <1>5, ReleaseHostStep
<1>6. ASSUME NEW o \in DOMAIN objects, NEW s \in Sinks, Advise(o, s) PROVE HInv' /\ Extended
  BY <1>6, HeapLeftAlone DEF Advise, HeapUnchanged
<1>7. ASSUME NEW o \in DOMAIN objects, NEW k \in Cookies, Unadvise(o, k) PROVE HInv' /\ Extended
  BY <1>7, HeapLeftAlone DEF Unadvise, HeapUnchanged
<1>8. ASSUME NEW o \in DOMAIN objects,
             \/ GetConnectionPointContainer(o) \/ NextPoint(o)
             \/ EnumConnections(o) \/ NextConnection(o)
             \/ Skip(o) \/ Reset(o) \/ ClonePoints(o) \/ CloneConnections(o)
             \/ Release(o)
      PROVE  HInv' /\ Extended
  BY <1>8, ContainerStep, NextPointStep, ConnectionsStep, MovingStep,
     ClonePointsStep, CloneConnectionsStep, ReleaseStep
<1> QED
  BY <1>1, <1>2, <1>3, <1>4, <1>5, <1>6, <1>7, <1>8 DEF Next

-----------------------------------------------------------------------------
(* What the proxies remember, step by step.                                *)
LEMMA MapsKept ==
    ASSUME HInv, HInv', MInv, Extended, UNCHANGED <<table, maps, dropped>>
    PROVE  MapTypeOK' /\ Remembered'
<1>1. MapTypeOK'
  BY DEF MInv, MapTypeOK
<1>2. \A o \in Ids : o \notin DOMAIN objects' => maps[o] = Nothing
  BY DEF MInv, Remembered, Extended, SameObjects
<1>3. \A p \in Points : cache'[p] = 0 => table[p] = Nothing
  BY DEF MInv, Remembered, Extended
<1>4. ASSUME NEW o \in DOMAIN objects', objects'[o].kind = "proxy"
      PROVE  /\ objects'[o].point \notin dropped => maps[o] = table[objects'[o].point]
             /\ \A k \in Cookies :
                   table[objects'[o].point][k] # None => maps[o][k] # None
  <2>1. CASE o \in DOMAIN objects
    <3>1. SameObject(objects[o], objects'[o])
      BY <2>1 DEF Extended, SameObjects
    <3>2. objects[o].kind = "proxy" /\ objects'[o].point = objects[o].point
      BY <1>4, <3>1 DEF SameObject
    <3> QED
      BY <2>1, <3>2 DEF MInv, Remembered
  <2>2. CASE o \notin DOMAIN objects
    <3>1. objects'[o].point \in Points /\ cache[objects'[o].point] = 0
      BY <1>4, <2>2 DEF Extended
    <3>2. table[objects'[o].point] = Nothing
      BY <3>1 DEF MInv, Remembered
    <3>3. o \in Ids
      <4>1. /\ objects' \in Seq(Object) /\ Len(objects') <= MaxObjects
        BY DEF HInv, HeapTypeOK
      <4>2. Len(objects') \in Nat /\ DOMAIN objects' = 1 .. Len(objects')
        BY <4>1
      <4> QED
        BY <1>4, <4>1, <4>2, PointsAssumption DEF Ids
    <3>4. maps[o] = Nothing
      BY <2>2, <3>3 DEF MInv, Remembered
    <3> QED
      BY <3>2, <3>4 DEF Nothing
  <2> QED
    BY <2>1, <2>2
<1>5. Remembered'
  BY <1>2, <1>3, <1>4 DEF Remembered
<1> QED
  BY <1>1, <1>5

LEMMA MapsKeptUnseen ==
    ASSUME HInv, HInv', MInv, Extended, UNCHANGED <<table, maps, dropped, handed>>
    PROVE  MInv'
<1>1. MapTypeOK' /\ Remembered'
  BY MapsKept
<1>2. ClientSeesOwnSinks' /\ NoWrapperForLive'
  BY DEF MInv, ClientSeesOwnSinks, NoWrapperForLive
<1> QED
  BY <1>1, <1>2 DEF MInv

LEMMA NextConnectionMaps ==
    ASSUME HInv, HInv', MInv, Extended, NEW o \in DOMAIN objects, NextConnection(o)
    PROVE  MInv'
<1> DEFINE p == objects[o].point
           k == Item(o)[1]
           s == Item(o)[2]
           w == Owner(o)
<1>1. /\ Calls(o, "connections") /\ More(o)
      /\ UNCHANGED <<table, maps, dropped>>
      /\ handed' = [current |-> table[p][k] = s, point |-> p, wanted |-> s,
                    got |-> GetUnderlyingSink(w, k)]
  BY DEF NextConnection
<1>2. MapTypeOK' /\ Remembered'
  BY <1>1, MapsKept
<1>3. /\ w \in DOMAIN objects /\ objects[w].kind = "proxy" /\ p = objects[w].point
      /\ objects[o].items \in Seq(Cookies \X Sinks)
  BY <1>1 DEF HInv, Shape, Shaped, Calls
<1>4. k \in Cookies /\ s \in Sinks
  <2>1. objects[o] \in Object
    BY Heap DEF HInv
  <2>2. objects[o].at \in Nat /\ objects[o].at >= 1
    BY <2>1 DEF Object
  <2>3. Len(objects[o].items) \in Nat
        /\ DOMAIN objects[o].items = 1 .. Len(objects[o].items)
    BY <1>3
  <2>4. objects[o].at \in DOMAIN objects[o].items
    BY <1>1, <2>2, <2>3 DEF More
  <2>5. Item(o) \in Cookies \X Sinks
    BY <1>3, <2>4 DEF Item
  <2> QED
    BY <2>5
<1>5. p \in Points /\ w \in Ids
  BY <1>3, Heap DEF HInv, Shape, Shaped
<1>6. maps[w][k] \in Sinks \cup {None}
  BY <1>4, <1>5 DEF MInv, MapTypeOK
<1>7. /\ p \notin dropped => maps[w] = table[p]
      /\ table[p][k] # None => maps[w][k] # None
  BY <1>3, <1>4 DEF MInv, Remembered
<1> HIDE DEF p, k, s, w
<1>8. s # None /\ Wrapper \notin Sinks
  BY <1>4, PointsAssumption
<1>9. handed'.got = IF maps[w][k] = None THEN Wrapper ELSE maps[w][k]
  BY <1>1 DEF GetUnderlyingSink
<1>10. /\ handed'.current <=> table[p][k] = s
       /\ handed'.point = p /\ handed'.wanted = s
  BY <1>1
<1>11. ClientSeesOwnSinks'
  BY <1>1, <1>7, <1>8, <1>9, <1>10 DEF ClientSeesOwnSinks
<1>12. NoWrapperForLive'
  BY <1>6, <1>7, <1>8, <1>9, <1>10 DEF NoWrapperForLive
<1> QED
  BY <1>2, <1>11, <1>12 DEF MInv

(* One entry of a map of maps.                                             *)
LEMMA EntrySet ==
    ASSUME NEW S, NEW R, NEW V, NEW f \in [S -> [R -> V]],
           NEW x \in S, NEW k \in R, NEW a \in V,
           NEW g, g = [f EXCEPT ![x][k] = a]
    PROVE  /\ g \in [S -> [R -> V]]
           /\ \A y \in S : y # x => g[y] = f[y]
           /\ \A j \in R : g[x][j] = IF j = k THEN a ELSE f[x][j]
<1> DEFINE row == [f[x] EXCEPT ![k] = a]
<1>1. f[x] \in [R -> V]
  OBVIOUS
<1>2. row \in [R -> V] /\ \A j \in R : row[j] = IF j = k THEN a ELSE f[x][j]
  BY <1>1
<1>3. g = [f EXCEPT ![x] = row]
  OBVIOUS
<1> HIDE DEF row
<1>4. /\ g \in [S -> [R -> V]] /\ g[x] = row
      /\ \A y \in S : y # x => g[y] = f[y]
  BY <1>2, <1>3
<1> QED
  BY <1>2, <1>4

(* A connection made or ended through the only proxy of its point.         *)
Entered(o, k, a, b) ==
    LET p == objects[o].point
    IN  /\ table' \in [Points -> [Cookies -> Sinks \cup {None}]]
        /\ maps' \in [Ids -> [Cookies -> Sinks \cup {None}]]
        /\ \A q \in Points : q # p => table'[q] = table[q]
        /\ \A q \in Ids : q # o => maps'[q] = maps[q]
        /\ \A j \in Cookies : table'[p][j] = IF j = k THEN a ELSE table[p][j]
        /\ \A j \in Cookies : maps'[o][j] = IF j = k THEN b ELSE maps[o][j]

LEMMA Entering ==
    ASSUME MapTypeOK, NEW o \in Ids, NEW p \in Points, p = objects[o].point,
           NEW k \in Cookies, NEW a \in Sinks \cup {None}, NEW b \in Sinks \cup {None},
           table' = [table EXCEPT ![p][k] = a], maps' = [maps EXCEPT ![o][k] = b]
    PROVE  Entered(o, k, a, b)
<1> DEFINE V == Sinks \cup {None}
<1>1. table \in [Points -> [Cookies -> V]] /\ maps \in [Ids -> [Cookies -> V]]
      /\ a \in V /\ b \in V
  BY DEF MapTypeOK
<1> HIDE DEF V
<1>2. /\ table' \in [Points -> [Cookies -> V]]
      /\ \A q \in Points : q # p => table'[q] = table[q]
      /\ \A j \in Cookies : table'[p][j] = IF j = k THEN a ELSE table[p][j]
  BY <1>1, EntrySet
<1>3. /\ maps' \in [Ids -> [Cookies -> V]]
      /\ \A q \in Ids : q # o => maps'[q] = maps[q]
      /\ \A j \in Cookies : maps'[o][j] = IF j = k THEN b ELSE maps[o][j]
  BY <1>1, EntrySet
<1> QED
  BY <1>2, <1>3 DEF Entered, V

LEMMA EnteredMaps ==
    ASSUME HInv, MInv, UNCHANGED <<hosted, objects, cache, handed, dropped>>,
           NEW o \in DOMAIN objects, objects[o].kind = "proxy", NEW k \in Cookies,
           NEW a \in Sinks \cup {None}, NEW b \in Sinks \cup {None},
           Entered(o, k, a, b),
           objects[o].point \notin dropped => a = b,
           a # None => b # None
    PROVE  MInv'
<1>1. MapTypeOK'
  BY DEF Entered, MapTypeOK
<1> DEFINE p == objects[o].point
<1>2. /\ p \in Points /\ cache[p] = o /\ o # 0 /\ o \in Ids
      /\ \A q \in DOMAIN objects : objects[q].kind = "proxy" =>
            objects[q].point \in Points /\ cache[objects[q].point] = q /\ q \in Ids
  BY Heap DEF HInv, Shape, Shaped
<1>3. \A q \in Ids : q \notin DOMAIN objects => maps'[q] = Nothing
  BY DEF MInv, Remembered, Entered
<1>4. \A q \in Points : cache[q] = 0 => table'[q] = Nothing
  BY <1>2 DEF MInv, Remembered, Entered
<1>5. ASSUME NEW q \in DOMAIN objects, objects[q].kind = "proxy"
      PROVE  /\ objects[q].point \notin dropped => maps'[q] = table'[objects[q].point]
             /\ \A j \in Cookies :
                   table'[objects[q].point][j] # None => maps'[q][j] # None
  <2>1. CASE q # o
    <3>1. objects[q].point # p /\ objects[q].point \in Points /\ q \in Ids
      BY <1>2, <1>5, <2>1
    <3>2. table'[objects[q].point] = table[objects[q].point] /\ maps'[q] = maps[q]
      BY <2>1, <3>1 DEF Entered
    <3> QED
      BY <1>5, <3>2 DEF MInv, Remembered
  <2>2. CASE q = o
    <3>1. /\ p \notin dropped => maps[o] = table[p]
          /\ \A j \in Cookies : table[p][j] # None => maps[o][j] # None
      BY <1>5, <2>2 DEF MInv, Remembered
    <3>2. /\ \A j \in Cookies : table'[p][j] = IF j = k THEN a ELSE table[p][j]
          /\ \A j \in Cookies : maps'[o][j] = IF j = k THEN b ELSE maps[o][j]
      BY DEF Entered
    <3>3. table'[p] \in [Cookies -> Sinks \cup {None}]
          /\ maps'[o] \in [Cookies -> Sinks \cup {None}]
      BY <1>2 DEF Entered
    <3>4. ASSUME p \notin dropped PROVE maps'[o] = table'[p]
      <4>1. \A j \in Cookies : maps'[o][j] = table'[p][j]
        BY <3>1, <3>2, <3>4
      <4> QED
        BY <3>3, <4>1
    <3>5. \A j \in Cookies : table'[p][j] # None => maps'[o][j] # None
      BY <3>1, <3>2
    <3> QED
      BY <2>2, <3>4, <3>5
  <2> QED
    BY <2>1, <2>2
<1>6. Remembered'
  BY <1>3, <1>4, <1>5 DEF Remembered
<1>7. ClientSeesOwnSinks' /\ NoWrapperForLive'
  BY DEF MInv, ClientSeesOwnSinks, NoWrapperForLive
<1> QED
  BY <1>1, <1>6, <1>7 DEF MInv

LEMMA AdviseMaps ==
    ASSUME HInv, MInv, NEW o \in DOMAIN objects, NEW s \in Sinks, Advise(o, s)
    PROVE  MInv'
<1>1. PICK k \in Cookies :
         /\ table[objects[o].point][k] = None
         /\ table' = [table EXCEPT ![objects[o].point][k] = s]
         /\ maps' = [maps EXCEPT ![o][k] = IF maps[o][k] = None THEN s ELSE maps[o][k]]
  BY DEF Advise
<1>2. /\ Calls(o, "proxy")
      /\ UNCHANGED <<hosted, objects, cache, handed, dropped>>
  BY DEF Advise
<1>3. objects[o].kind = "proxy" /\ objects[o].point \in Points /\ o \in Ids
  BY <1>2, Heap DEF HInv, Shape, Shaped, Calls
<1>4. MapTypeOK
  BY DEF MInv
<1>5. PICK b : b = IF maps[o][k] = None THEN s ELSE maps[o][k]
  OBVIOUS
<1>6. b \in Sinks \cup {None} /\ s \in Sinks \cup {None} /\ s # None /\ b # None
  <2>1. maps[o][k] \in Sinks \cup {None}
    BY <1>3, <1>4 DEF MapTypeOK
  <2> QED
    BY <1>5, <2>1, PointsAssumption
<1>7. objects[o].point \notin dropped => s = b
  <2>1. objects[o].point \notin dropped => maps[o] = table[objects[o].point]
    BY <1>3 DEF MInv, Remembered
  <2> QED
    BY <1>1, <1>5, <2>1
<1>8. Entered(o, k, s, b)
  <2>1. PICK p : p = objects[o].point
    OBVIOUS
  <2>2. p \in Points /\ table' = [table EXCEPT ![p][k] = s]
        /\ maps' = [maps EXCEPT ![o][k] = b]
    BY <1>1, <1>3, <1>5, <2>1
  <2> QED
    BY <1>3, <1>4, <1>6, <2>1, <2>2, Entering
<1> QED
  BY <1>2, <1>3, <1>6, <1>7, <1>8, EnteredMaps

LEMMA UnadviseMaps ==
    ASSUME HInv, MInv, NEW o \in DOMAIN objects, NEW k \in Cookies, Unadvise(o, k)
    PROVE  MInv'
<1>1. /\ Calls(o, "proxy")
      /\ table' = [table EXCEPT ![objects[o].point][k] = None]
      /\ maps' = [maps EXCEPT ![o][k] = None]
      /\ UNCHANGED <<hosted, objects, cache, handed, dropped>>
  BY DEF Unadvise
<1>2. objects[o].kind = "proxy" /\ objects[o].point \in Points /\ o \in Ids
  BY <1>1, Heap DEF HInv, Shape, Shaped, Calls
<1>3. MapTypeOK /\ None \in Sinks \cup {None}
  BY DEF MInv
<1>4. PICK a : a = None
  OBVIOUS
<1>5. PICK b : b = None
  OBVIOUS
<1>6. Entered(o, k, a, b)
  <2>1. PICK p : p = objects[o].point
    OBVIOUS
  <2>2. p \in Points /\ table' = [table EXCEPT ![p][k] = a]
        /\ maps' = [maps EXCEPT ![o][k] = b]
    BY <1>1, <1>2, <1>4, <1>5, <2>1
  <2>3. a \in Sinks \cup {None} /\ b \in Sinks \cup {None}
    BY <1>3, <1>4, <1>5
  <2> QED
    BY <1>2, <1>3, <2>1, <2>2, <2>3, Entering
<1> QED
  BY <1>1, <1>2, <1>3, <1>4, <1>5, <1>6, EnteredMaps

LEMMA DropMaps ==
    ASSUME HInv, MInv, NEW p \in Points, NEW k \in Cookies, ControlDrops(p, k)
    PROVE  MInv'
<1>1. /\ table[p][k] # None
      /\ table' = [table EXCEPT ![p][k] = None]
      /\ dropped' = dropped \cup {p}
      /\ UNCHANGED <<hosted, objects, cache, maps, handed>>
  BY DEF ControlDrops
<1>2. MapTypeOK /\ None \in Sinks \cup {None}
  BY DEF MInv
<1>3. /\ table' \in [Points -> [Cookies -> Sinks \cup {None}]]
      /\ \A q \in Points : q # p => table'[q] = table[q]
      /\ \A j \in Cookies : table'[p][j] = IF j = k THEN None ELSE table[p][j]
  <2> DEFINE V == Sinks \cup {None}
  <2>1. table \in [Points -> [Cookies -> V]] /\ None \in V
    BY <1>2 DEF MapTypeOK
  <2> HIDE DEF V
  <2>2. PICK a \in V : a = None
    BY <2>1
  <2>3. table' = [table EXCEPT ![p][k] = a]
    BY <1>1, <2>2
  <2>4. /\ table' \in [Points -> [Cookies -> V]]
        /\ \A q \in Points : q # p => table'[q] = table[q]
        /\ \A j \in Cookies : table'[p][j] = IF j = k THEN a ELSE table[p][j]
    BY <2>1, <2>3, EntrySet
  <2> QED
    BY <2>2, <2>4 DEF V
<1>4. MapTypeOK'
  BY <1>1, <1>2, <1>3 DEF MapTypeOK
<1>5. \A q \in Points : cache[q] = 0 => table'[q] = Nothing
  <2>1. cache[p] # 0
    BY <1>1 DEF MInv, Remembered, Nothing
  <2> QED
    BY <1>3, <2>1 DEF MInv, Remembered
<1>6. ASSUME NEW q \in DOMAIN objects, objects[q].kind = "proxy"
      PROVE  /\ objects[q].point \notin dropped' => maps[q] = table'[objects[q].point]
             /\ \A j \in Cookies :
                   table'[objects[q].point][j] # None => maps[q][j] # None
  <2>1. /\ objects[q].point \notin dropped => maps[q] = table[objects[q].point]
        /\ \A j \in Cookies : table[objects[q].point][j] # None => maps[q][j] # None
        /\ objects[q].point \in Points
    BY <1>6 DEF MInv, Remembered, HInv, Shape, Shaped
  <2> QED
    BY <1>1, <1>3, <2>1
<1>7. Remembered'
  BY <1>1, <1>5, <1>6 DEF MInv, Remembered
<1>8. ClientSeesOwnSinks' /\ NoWrapperForLive'
  BY <1>1 DEF MInv, ClientSeesOwnSinks, NoWrapperForLive
<1> QED
  BY <1>4, <1>7, <1>8 DEF MInv

LEMMA MapsNext ==
    ASSUME HInv, MInv, HInv', Extended, [Next]_vars
    PROVE  MInv'
<1>1. CASE UNCHANGED vars
  BY <1>1, MapsKeptUnseen DEF vars
<1>2. ASSUME NEW p \in Points, FindConnectionPoint(p) PROVE MInv'
  BY <1>2, MapsKeptUnseen DEF FindConnectionPoint
<1>3. ASSUME NEW p \in Points, NEW k \in Cookies, ControlDrops(p, k) PROVE MInv'
  BY <1>3, DropMaps
<1>4. CASE EnumConnectionPoints
  BY <1>4, MapsKeptUnseen DEF EnumConnectionPoints
<1>5. CASE ReleaseHostContainer
  BY <1>5, MapsKeptUnseen DEF ReleaseHostContainer
<1>6. ASSUME NEW o \in DOMAIN objects, NEW s \in Sinks, Advise(o, s) PROVE MInv'
  BY <1>6, AdviseMaps
<1>7. ASSUME NEW o \in DOMAIN objects, NEW k \in Cookies, Unadvise(o, k) PROVE MInv'
  BY <1>7, UnadviseMaps
<1>8. ASSUME NEW o \in DOMAIN objects, NextConnection(o) PROVE MInv'
  BY <1>8, NextConnectionMaps
<1>9. ASSUME NEW o \in DOMAIN objects,
             \/ GetConnectionPointContainer(o) \/ NextPoint(o) \/ EnumConnections(o)
             \/ Skip(o) \/ Reset(o) \/ ClonePoints(o) \/ CloneConnections(o)
             \/ Release(o)
      PROVE  MInv'
  <2>1. UNCHANGED <<table, maps, dropped, handed>>
    BY <1>9 DEF GetConnectionPointContainer, NextPoint, EnumConnections, Skip, Reset,
                ClonePoints, CloneConnections, Release
  <2> QED
    BY <2>1, MapsKeptUnseen
<1> QED
  BY <1>1, <1>2, <1>3, <1>4, <1>5, <1>6, <1>7, <1>8, <1>9 DEF Next

-----------------------------------------------------------------------------
LEMMA InitHeap == Init => HInv
<1> SUFFICES ASSUME Init PROVE HInv
  OBVIOUS
<1>8. PICK items \in Seq(Points \cup (Cookies \X Sinks)) : items = <<>>
  BY NoItems
<1>9. PICK nobody : nobody = 0
  OBVIOUS
<1>10. PICK made : made = New("container", nobody, None, items)
  OBVIOUS
<1>11. PICK first : first = [made EXCEPT !.count = 1]
  OBVIOUS
<1>1. /\ made \in Object /\ made.of = 0 /\ made.kind = "container" /\ made.held = 0
  <2>1. "container" \in Kind /\ nobody \in 0 .. MaxObjects /\ None \in Points \cup {None}
    BY <1>9, PointsAssumption DEF Kind
  <2> QED
    BY <1>9, <1>10, <2>1, NewTyped
<1>2. /\ first \in Object /\ first.of = 0 /\ first.kind = "container"
      /\ first.held = 0 /\ first.count = 1
  <2>1. first \in Object
    BY <1>1, <1>11, Counts
  <2>2. SameObject(made, first) /\ first.count = 1 /\ first.held = made.held
    BY <1>1, <1>11 DEF SameObject, Object
  <2> QED
    BY <1>1, <2>1, <2>2 DEF SameObject
<1>3. objects = <<first>> /\ hosted = TRUE /\ cache = [p \in Points |-> 0]
  BY <1>8, <1>9, <1>10, <1>11 DEF Init
<1>4. /\ objects \in Seq(Object) /\ Len(objects) = 1 /\ DOMAIN objects = {Container}
      /\ objects[Container] = first
  BY <1>2, <1>3 DEF Container
<1>5. HeapTypeOK
  BY <1>3, <1>4, PointsAssumption DEF HeapTypeOK
<1>6. Shape
  <2>1. Shaped(Container)
    BY <1>2, <1>4 DEF Shaped, Owner
  <2> QED
    BY <1>3, <1>4, <2>1 DEF Shape
<1>7. objects[Container].count = References(Container)
  <2>1. Children(Container) = {}
    <3>1. \A q \in DOMAIN objects : Owner(q) = 0
      BY <1>2, <1>4 DEF Owner
    <3> QED
      BY <3>1 DEF Children, Container
  <2>2. CachedAt(Container) = {}
    BY <1>3 DEF CachedAt, Container
  <2>3. ByHost(Container) = 1
    BY <1>3 DEF ByHost
  <2>4. References(Container) = objects[Container].held + Cardinality({})
                                + Cardinality({}) + 1
    BY <2>1, <2>2, <2>3 DEF References, Children, CachedAt, ByHost
  <2>5. Cardinality({}) = 0
    BY FS_EmptySet
  <2> QED
    BY <1>2, <1>4, <2>4, <2>5
<1> QED
  BY <1>4, <1>5, <1>6, <1>7 DEF HInv, RefsBalanced

LEMMA InitMaps == Init => MInv
<1> SUFFICES ASSUME Init PROVE MInv
  OBVIOUS
<1>1. Nothing \in [Cookies -> Sinks \cup {None}]
  BY DEF Nothing
<1>2. MapTypeOK
  BY <1>1 DEF Init, MapTypeOK
<1>3. \A o \in DOMAIN objects : objects[o].kind = "proxy" =>
         objects[o].point \in Points /\ o \in Ids
  BY InitHeap, Heap DEF HInv, Shape, Shaped
<1>4. Remembered
  BY <1>3 DEF Init, Remembered, Nothing
<1>5. ClientSeesOwnSinks /\ NoWrapperForLive
  BY DEF Init, ClientSeesOwnSinks, NoWrapperForLive
<1> QED
  BY <1>2, <1>4, <1>5 DEF MInv

(* The heap and what the proxies remember, for every behaviour.            *)
THEOREM PointsInductive == Spec => [](HInv /\ MInv)
<1>1. Init => HInv /\ MInv
  BY InitHeap, InitMaps
<1>2. HInv /\ MInv /\ [Next]_vars => (HInv /\ MInv)'
  <2> SUFFICES ASSUME HInv, MInv, [Next]_vars PROVE (HInv /\ MInv)'
    OBVIOUS
  <2>1. HInv' /\ Extended
    BY HeapNext DEF MInv
  <2> QED
    BY <2>1, MapsNext
<1> QED
  BY <1>1, <1>2, PTL DEF Spec

(* The variables keep their types.                                         *)
THEOREM PointsTyped == Spec => []TypeOK
<1>1. HInv /\ MInv => TypeOK
  BY DEF HInv, HeapTypeOK, MInv, MapTypeOK, TypeOK
<1> QED
  BY <1>1, PointsInductive, PTL

(* The reference count of every object of the host is the number of its    *)
(* holders, whatever clients look up, enumerate, clone and release; the    *)
(* clone of a connection enumerator is the one that is dead when handed    *)
(* out.                                                                    *)
THEOREM CountsBalance == Spec => []RefsBalanced
<1>1. HInv /\ MInv => RefsBalanced
  BY DEF HInv
<1> QED
  BY <1>1, PointsInductive, PTL

(* A proxy's maps agree with the connections of the control, as long as    *)
(* the control ends none itself.                                           *)
THEOREM MapsFollowControl == Spec => []MapsMatchControl
<1>1. HInv /\ MInv => MapsMatchControl
  BY DEF MInv, Remembered, MapsMatchControl
<1> QED
  BY <1>1, PointsInductive, PTL

(* Enumerating the connections of such a point gives back clients' sinks.  *)
THEOREM SinksSeen == Spec => []ClientSeesOwnSinks
<1>1. HInv /\ MInv => ClientSeesOwnSinks
  BY DEF MInv
<1> QED
  BY <1>1, PointsInductive, PTL

(* No client is handed a HostEventSink for a connection that stands.       *)
THEOREM WrapperHidden == Spec => []NoWrapperForLive
<1>1. HInv /\ MInv => NoWrapperForLive
  BY DEF MInv
<1> QED
  BY <1>1, PointsInductive, PTL

LEMMA Leftover ==
    ASSUME HInv, ~hosted, \A o \in DOMAIN objects : objects[o].held = 0
    PROVE  {o \in DOMAIN objects : Exists(o)} =
              LET proxies == {cache[p] : p \in Points} \ {0}
              IN IF proxies = {} THEN {} ELSE proxies \cup {Container}
<1> DEFINE proxies == {cache[p] : p \in Points} \ {0}
<1>1. \A o \in DOMAIN objects : objects[o].kind \in Kind /\ Shaped(o)
  BY Heap DEF HInv, Shape, Object
<1>2. ASSUME NEW o \in DOMAIN objects, Exists(o)
      PROVE  Children(o) # {} \/ CachedAt(o) # {}
  <2>1. SUFFICES ASSUME Children(o) = {}, CachedAt(o) = {}
                 PROVE  FALSE
    OBVIOUS
  <2>2. /\ objects[o].count = References(o)
        /\ References(o) = objects[o].held + Cardinality(Children(o))
                           + Cardinality(CachedAt(o)) + ByHost(o)
    BY <1>2, Counted DEF HInv, RefsBalanced
  <2>3. ByHost(o) = 0 /\ objects[o].held = 0
    BY DEF ByHost
  <2>4. Cardinality({}) = 0
    BY FS_EmptySet
  <2>5. objects[o].count = 0
    BY <2>1, <2>2, <2>3, <2>4
  <2> QED
    BY <1>2, <2>5 DEF Exists
<1>3. \A o : CachedAt(o) # {} /\ o # 0 =>
         o \in DOMAIN objects /\ objects[o].kind = "proxy" /\ o \in proxies
  BY DEF CachedAt, HInv, Shape
<1>4. \A o, q : q \in Children(o) /\ o # 0 =>
         /\ q \in DOMAIN objects /\ Exists(q) /\ Owner(q) = o
         /\ objects[o].kind \in {"container", "proxy"}
  BY Kept DEF Children
<1>5. 0 \notin DOMAIN objects
  BY Heap DEF HInv
<1>6. \A o \in DOMAIN objects : Exists(o) => objects[o].kind \in {"container", "proxy"}
  <2> SUFFICES ASSUME NEW o \in DOMAIN objects, Exists(o)
               PROVE  objects[o].kind \in {"container", "proxy"}
    OBVIOUS
  <2>1. o # 0
    BY <1>5
  <2>2. CASE Children(o) # {}
    BY <1>4, <2>1, <2>2
  <2>3. CASE CachedAt(o) # {}
    BY <1>3, <2>1, <2>3
  <2> QED
    BY <1>2, <2>2, <2>3
<1>7. \A o \in DOMAIN objects : objects[o].kind = "proxy" => o \in proxies
  BY <1>1, <1>5 DEF Shaped
<1>8. \A o \in proxies : o \in DOMAIN objects /\ Exists(o) /\ objects[o].kind = "proxy"
  BY Kept DEF HInv, Shape
<1>9. Container \in DOMAIN objects /\ Container # 0
  BY <1>5 DEF HInv, Shape
<1>10. proxies # {} => Exists(Container)
  <2>1. ASSUME NEW o \in proxies PROVE Exists(Container)
    <3>1. Owner(o) = Container /\ Exists(o) /\ o \in DOMAIN objects
      BY <1>1, <1>8 DEF Shaped
    <3> QED
      BY <1>9, <3>1, Kept
  <2> QED
    BY <2>1
<1>11. Exists(Container) => proxies # {}
  <2>1. SUFFICES ASSUME Exists(Container) PROVE proxies # {}
    OBVIOUS
  <2>2. CASE CachedAt(Container) # {}
    BY <1>3, <1>9, <2>2
  <2>3. CASE Children(Container) # {}
    <3>1. PICK q \in DOMAIN objects : Exists(q) /\ Owner(q) = Container
      BY <1>4, <1>9, <2>3
    <3>2. objects[q].kind # "container"
      BY <1>1, <1>9, <3>1 DEF Shaped
    <3> QED
      BY <1>6, <1>7, <3>1, <3>2
  <2> QED
    BY <1>2, <1>9, <2>1, <2>2, <2>3
<1>12. \A o \in DOMAIN objects : objects[o].kind = "container" => o = Container
  BY <1>1 DEF Shaped
<1> HIDE DEF proxies
<1>13. {o \in DOMAIN objects : Exists(o)} =
          IF proxies = {} THEN {} ELSE proxies \cup {Container}
  <2>1. CASE proxies = {}
    BY <1>6, <1>7, <1>11, <1>12, <2>1
  <2>2. CASE proxies # {}
    BY <1>6, <1>7, <1>8, <1>9, <1>10, <1>12, <2>2
  <2> QED
    BY <2>1, <2>2
<1> QED
  BY <1>13 DEF proxies

(* When everybody has let go, what stays is the container and the proxies  *)
(* it caches, which hold each other.                                       *)
THEOREM OnlyTheCycleStays == Spec => []LeftoverIsTheCycle
<1>1. HInv /\ MInv => LeftoverIsTheCycle
  BY Leftover DEF LeftoverIsTheCycle
<1> QED
  BY <1>1, PointsInductive, PTL
=============================================================================
