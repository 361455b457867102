--------------------------- MODULE ConnectionPoints --------------------------
(***************************************************************************)
(* The connection points of a hosted control as its clients see them:      *)
(* HostConnectionPointContainer, HostConnectionPoint and the enumerators   *)
(* of both (connection_point*.cc, enum_*.cc), as a heap of reference-      *)
(* counted objects.  A proxy is made once for each connection point of     *)
(* the control and is cached; it remembers which client sink was advised   *)
(* under which cookie, so that an enumerator can hand out that sink where  *)
(* the control reports the HostEventSink it was given.                     *)
(*                                                                         *)
(* m_connections and m_underlyingConnections are written and erased in     *)
(* pairs and have the same keys; "maps" is the second of them.             *)
(***************************************************************************)
EXTENDS Integers, Sequences, FiniteSets, SequencesExt

CONSTANTS
    Points,     \* connection points of the control
    Sinks,      \* client sinks
    Cookies,    \* cookies the control gives out, and gives out again
    None,       \* no sink
    Wrapper,    \* some HostEventSink, seen by a client
    MaxObjects, \* bound on the host's objects, the freed ones included
    MaxHeld,    \* bound on the references clients hold on one object
    Habits      \* what controls and clients may do: see HabitKinds

HabitKinds == {"drops", "clones"}

ASSUME PointsAssumption ==
    /\ MaxObjects \in Nat \ {0} /\ MaxHeld \in Nat \ {0}
    /\ IsFiniteSet(Points) /\ IsFiniteSet(Cookies)
    /\ None \notin Sinks /\ Wrapper \notin Sinks /\ None # Wrapper
    /\ Habits \subseteq HabitKinds

VARIABLES
    hosted,     \* the HostContainer exists
    objects,    \* the host's objects in the order they were made
    cache,      \* m_proxyConnectionPoints: the proxy of a point, or 0
    table,      \* the control's own connections: point, cookie, sink
    maps,       \* m_underlyingConnections of each object that is a proxy
    handed,     \* what the last Next of a connection enumerator returned
    dropped     \* history: the points of which the control dropped a connection

vars == <<hosted, objects, cache, table, maps, handed, dropped>>

Ids == 1 .. MaxObjects

Container == 1

Kind == {"container", "proxy", "points", "connections"}

(* "of" is the object this one keeps a reference to, "point" the           *)
(* connection point it stands for; an enumerator has the items it was      *)
(* made with and a position.                                               *)
Object == [kind : Kind, of : 0 .. MaxObjects, point : Points \cup {None},
           count : Nat, held : Nat, items : Seq(Points \cup (Cookies \X Sinks)),
           at : Nat \ {0}]

Nothing == [k \in Cookies |-> None]

Exists(o) == o \in DOMAIN objects /\ objects[o].count > 0

(* A client can call an object it holds an interface of.                   *)
Calls(o, kind) == Exists(o) /\ objects[o].held > 0 /\ objects[o].kind = kind

Owner(o) == objects[o].of

LastRef(o) == objects[o].count = 1

(* The objects that a Release of o takes a reference from: o itself, and   *)
(* what a destroyed object has kept.                                       *)
ReleasedBy(o) ==
    {o} \cup {p \in DOMAIN objects :
                 /\ LastRef(o)
                 /\ \/ p = Owner(o)
                    \/ Owner(o) # 0 /\ LastRef(Owner(o)) /\ p = Owner(Owner(o))}

Released(o) ==
    [p \in DOMAIN objects |->
        IF p \in ReleasedBy(o) THEN [objects[p] EXCEPT !.count = @ - 1]
                               ELSE objects[p]]

(* Client and object references to o, one of them the client's.            *)
HandedOut(heap, o, refs) ==
    [heap EXCEPT ![o].count = @ + refs, ![o].held = @ + 1]

MayHold(o) == objects[o].held < MaxHeld

New(kind, of, point, items) ==
    [kind |-> kind, of |-> of, point |-> point, count |-> 0, held |-> 0,
     items |-> items, at |-> 1]

(* A new object takes a reference to its owner.                            *)
With(heap, object) == Append([heap EXCEPT ![object.of].count = @ + 1], object)

Room == Len(objects) < MaxObjects

(* Mutant: every lookup makes a proxy.                                     *)
GetProxyUncached(heap, p) ==
    /\ Room
    /\ objects' = HandedOut(With(heap, New("proxy", Container, p, <<>>)),
                            Len(heap) + 1, 2)
    /\ cache' = [cache EXCEPT ![p] = Len(heap) + 1]

(* Mutant: the cache keeps no reference.                                   *)
GetProxyUnretained(heap, p) ==
    \/ /\ cache[p] # 0 /\ MayHold(cache[p])
       /\ objects' = HandedOut(heap, cache[p], 1)
       /\ UNCHANGED cache
    \/ /\ cache[p] = 0 /\ Room
       /\ objects' = HandedOut(With(heap, New("proxy", Container, p, <<>>)),
                               Len(heap) + 1, 1)
       /\ cache' = [cache EXCEPT ![p] = Len(heap) + 1]

(* GetProxyConnectionPoint, and the reference the client is given.         *)
GetProxyConnectionPoint(heap, p) ==
    \/ /\ cache[p] # 0 /\ MayHold(cache[p])
       /\ objects' = HandedOut(heap, cache[p], 1)
       /\ UNCHANGED cache
    \/ /\ cache[p] = 0 /\ Room
       /\ objects' = HandedOut(With(heap, New("proxy", Container, p, <<>>)),
                               Len(heap) + 1, 2)
       /\ cache' = [cache EXCEPT ![p] = Len(heap) + 1]

(* The container answers through the HostContainer, or by itself to a      *)
(* client that got hold of it.                                             *)
Reachable == hosted \/ Calls(Container, "container")

FindConnectionPoint(p) ==
    /\ Reachable
    /\ GetProxyConnectionPoint(objects, p)
    /\ UNCHANGED <<hosted, table, maps, handed, dropped>>

(* The same from a proxy: GetConnectionPointContainer.                     *)
GetConnectionPointContainer(o) ==
    /\ Calls(o, "proxy") /\ MayHold(Container)
    /\ objects' = HandedOut(objects, Container, 1)
    /\ UNCHANGED <<hosted, cache, table, maps, handed, dropped>>

EnumConnectionPoints ==
    /\ Reachable
    /\ Room
    /\ objects' = HandedOut(With(objects, New("points", Container, None, SetToSeq(Points))),
                            Len(objects) + 1, 1)
    /\ UNCHANGED <<hosted, cache, table, maps, handed, dropped>>

More(o) == objects[o].at <= Len(objects[o].items)

Item(o) == objects[o].items[objects[o].at]

(* HostEnumConnectionPoints::Next, one element at a time.                  *)
NextPoint(o) ==
    /\ Calls(o, "points") /\ More(o)
    /\ GetProxyConnectionPoint([objects EXCEPT ![o].at = @ + 1], Item(o))
    /\ UNCHANGED <<hosted, table, maps, handed, dropped>>

(* Mutant: the sink is handed to the control and not remembered.           *)
AdviseUnlisted(o, s) ==
    /\ Calls(o, "proxy")
    /\ LET p == objects[o].point
       IN \E k \in Cookies :
            /\ table[p][k] = None
            /\ table' = [table EXCEPT ![p][k] = s]
    /\ UNCHANGED <<hosted, objects, cache, maps, handed, dropped>>

(* The control takes the wrapped sink and gives out a free cookie; emplace *)
(* keeps an entry that is there already.                                   *)
Advise(o, s) ==
    /\ Calls(o, "proxy")
    /\ LET p == objects[o].point
       IN \E k \in Cookies :
            /\ table[p][k] = None
            /\ table' = [table EXCEPT ![p][k] = s]
            /\ maps' = [maps EXCEPT ![o][k] = IF @ = None THEN s ELSE @]
    /\ UNCHANGED <<hosted, objects, cache, handed, dropped>>

(* Mutant: the entries stay.                                               *)
UnadviseKeeps(o, k) ==
    /\ Calls(o, "proxy")
    /\ table[objects[o].point][k] # None
    /\ table' = [table EXCEPT ![objects[o].point][k] = None]
    /\ UNCHANGED <<hosted, objects, cache, maps, handed, dropped>>

(* A cookie the control does not know is refused, and nothing changes.     *)
Unadvise(o, k) ==
    /\ Calls(o, "proxy")
    /\ table[objects[o].point][k] # None
    /\ table' = [table EXCEPT ![objects[o].point][k] = None]
    /\ maps' = [maps EXCEPT ![o][k] = None]
    /\ UNCHANGED <<hosted, objects, cache, handed, dropped>>

(* The control gives up a connection on its own account.                   *)
ControlDrops(p, k) ==
    /\ "drops" \in Habits
    /\ table[p][k] # None
    /\ table' = [table EXCEPT ![p][k] = None]
    /\ dropped' = dropped \cup {p}
    /\ UNCHANGED <<hosted, objects, cache, maps, handed>>

Connections(p) ==
    SetToSeq({<<k, table[p][k]>> : k \in {j \in Cookies : table[p][j] # None}})

EnumConnections(o) ==
    /\ Calls(o, "proxy") /\ Room
    /\ objects' = HandedOut(With(objects, New("connections", o, objects[o].point,
                                     Connections(objects[o].point))),
                            Len(objects) + 1, 1)
    /\ UNCHANGED <<hosted, cache, table, maps, handed, dropped>>

(* Mutant: the wrong one of the two maps.                                  *)
GetUnderlyingSinkWrapped(o, k) == Wrapper

(* GetUnderlyingSink: without an entry, the client is left with what the   *)
(* control reported.                                                       *)
GetUnderlyingSink(o, k) == IF maps[o][k] = None THEN Wrapper ELSE maps[o][k]

(* HostEnumConnections::Next, one element at a time.                       *)
NextConnection(o) ==
    /\ Calls(o, "connections") /\ More(o)
    /\ LET k == Item(o)[1]
           s == Item(o)[2]
       IN handed' = [current |-> table[objects[o].point][k] = s,
                     point |-> objects[o].point,
                     wanted |-> s,
                     got |-> GetUnderlyingSink(Owner(o), k)]
    /\ objects' = [objects EXCEPT ![o].at = @ + 1]
    /\ UNCHANGED <<hosted, cache, table, maps, dropped>>

Enumerator(o) == Calls(o, "points") \/ Calls(o, "connections")

Skip(o) ==
    /\ Enumerator(o) /\ More(o)
    /\ objects' = [objects EXCEPT ![o].at = @ + 1]
    /\ UNCHANGED <<hosted, cache, table, maps, handed, dropped>>

Reset(o) ==
    /\ Enumerator(o)
    /\ objects' = [objects EXCEPT ![o].at = 1]
    /\ UNCHANGED <<hosted, cache, table, maps, handed, dropped>>

CopyOf(o) == [objects[o] EXCEPT !.count = 0, !.held = 0]

(* HostEnumConnectionPoints::Clone: the reference is detached.             *)
ClonePoints(o) ==
    /\ Calls(o, "points") /\ Room
    /\ objects' = HandedOut(With(objects, CopyOf(o)), Len(objects) + 1, 1)
    /\ UNCHANGED <<hosted, cache, table, maps, handed, dropped>>

(* HostEnumConnections::Clone returns a pointer it does not detach: the    *)
(* clone is destroyed, and gives its references back, before it returns.   *)
CloneConnections(o) ==
    /\ "clones" \in Habits
    /\ Calls(o, "connections") /\ Room
    /\ objects' = Append(objects, [CopyOf(o) EXCEPT !.held = 1])
    /\ UNCHANGED <<hosted, cache, table, maps, handed, dropped>>

(* Mutant: an enumerator forgets what it keeps.                            *)
ReleaseLeaking(o) ==
    /\ Exists(o) /\ objects[o].held > 0
    /\ objects' = [objects EXCEPT ![o].held = @ - 1, ![o].count = @ - 1]
    /\ UNCHANGED <<hosted, cache, table, maps, handed, dropped>>

(* A client releases an interface: CUnknownImpl::Release.                  *)
Release(o) ==
    /\ Exists(o) /\ objects[o].held > 0
    /\ objects' = [Released(o) EXCEPT ![o].held = @ - 1]
    /\ UNCHANGED <<hosted, cache, table, maps, handed, dropped>>

(* The HostContainer is destroyed, with its reference to the container.    *)
ReleaseHostContainer ==
    /\ hosted
    /\ hosted' = FALSE
    /\ objects' = Released(Container)
    /\ UNCHANGED <<cache, table, maps, handed, dropped>>

Init ==
    /\ hosted = TRUE
    /\ objects = <<[New("container", 0, None, <<>>) EXCEPT !.count = 1]>>
    /\ cache = [p \in Points |-> 0]
    /\ table = [p \in Points |-> Nothing]
    /\ maps = [o \in Ids |-> Nothing]
    /\ handed = [current |-> FALSE, point |-> None, wanted |-> None, got |-> None]
    /\ dropped = {}

Next ==
    \/ \E p \in Points :
          \/ FindConnectionPoint(p)
          \/ \E k \in Cookies : ControlDrops(p, k)
    \/ EnumConnectionPoints
    \/ \E o \in DOMAIN objects :
          \/ GetConnectionPointContainer(o) \/ NextPoint(o)
          \/ \E s \in Sinks : Advise(o, s)
          \/ \E k \in Cookies : Unadvise(o, k)
          \/ EnumConnections(o) \/ NextConnection(o)
          \/ Skip(o) \/ Reset(o) \/ ClonePoints(o) \/ CloneConnections(o)
          \/ Release(o)
    \/ ReleaseHostContainer

Spec == Init /\ [][Next]_vars
-----------------------------------------------------------------------------
(* The variables stay in their ranges.                                     *)
TypeOK ==
    /\ hosted \in BOOLEAN
    /\ objects \in Seq(Object) /\ Len(objects) <= MaxObjects
    /\ cache \in [Points -> 0 .. MaxObjects]
    /\ table \in [Points -> [Cookies -> Sinks \cup {None}]]
    /\ maps \in [Ids -> [Cookies -> Sinks \cup {None}]]

(* The references to an object: its clients', those of the objects that    *)
(* keep it, the cache's, and the HostContainer's.                          *)
References(o) ==
    objects[o].held
    + Cardinality({q \in DOMAIN objects : Exists(q) /\ Owner(q) = o})
    + Cardinality({p \in Points : cache[p] = o})
    + (IF hosted /\ o = Container THEN 1 ELSE 0)

(* Every object has as many references as there are holders, so that it    *)
(* lives as long as somebody can call it and no longer.  The one exception *)
(* is the clone of a connection enumerator: a client is left with an       *)
(* interface of it, and it is gone.                                        *)
RefsBalanced ==
    \A o \in DOMAIN objects :
        \/ objects[o].count = References(o)
        \/ objects[o].kind = "connections" /\ ~Exists(o) /\ objects[o].held > 0

(* What a proxy remembers is what the control has connected through it,    *)
(* over any sequence of lookups, Advises and Unadvises, as long as the     *)
(* control drops no connection itself.                                     *)
MapsMatchControl ==
    \A o \in DOMAIN objects :
        Exists(o) /\ objects[o].kind = "proxy" /\ objects[o].point \notin dropped =>
            maps[o] = table[objects[o].point]

(* A client that enumerates the connections sees the sinks clients have    *)
(* advised, wherever the enumerator's snapshot is still true and the       *)
(* control dropped nothing.                                                *)
ClientSeesOwnSinks ==
    handed.current /\ handed.point \notin dropped => handed.got = handed.wanted

(* Whatever the control drops and reuses, a live connection is remembered: *)
(* the sink may be an older one's, but no client sees a HostEventSink.     *)
NoWrapperForLive == handed.current => handed.got # Wrapper

(* When the container and the clients have let go, nothing is left but the *)
(* cycle of the container and the proxies it has cached; it is there if    *)
(* and only if a connection point was ever looked up.                      *)
LeftoverIsTheCycle ==
    ~hosted /\ (\A o \in DOMAIN objects : objects[o].held = 0) =>
        {o \in DOMAIN objects : Exists(o)} =
            LET proxies == {cache[p] : p \in Points} \ {0}
            IN IF proxies = {} THEN {} ELSE proxies \cup {Container}
=============================================================================
