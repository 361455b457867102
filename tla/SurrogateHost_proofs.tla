------------------------- MODULE SurrogateHost_proofs -------------------------
(***************************************************************************)
(* Theorems about SurrogateHost, for every set of clients and of class     *)
(* specifications, whichever calls of COM may fail.                        *)
(***************************************************************************)
EXTENDS SurrogateHost, FiniteSetTheorems, TLAPS

(* The boxes of failed loads on a stack of loops, by their height.         *)
LoadBoxes(s) == {d \in 1 .. Len(s) : s[Len(s) + 1 - d] = "load"}

Ranges ==
    /\ main \in {"construct", "start", "exec", "gone"}
    /\ loops \in Seq(Frame)
    /\ creating \in Seq(Clients)
    /\ counts \in BOOLEAN /\ refs \in Int
    /\ IsFiniteSet(objects)

(* Every open box belongs to one call.                                     *)
OneCallPerBox == Cardinality(LoadBoxes(loops)) = Len(creating)

(* COM counts containers and the calls that are making one.                *)
ClientsCounted == counts => refs = Cardinality(objects) + Len(creating)

NoClient == objects = {} /\ creating = <<>>

BeforeExec ==
    main \in {"construct", "start"} =>
        loops = <<>> /\ ~quitNow /\ ~exitPosted /\ freed = "no" /\ NoClient

AfterExec == main = "gone" => quitNow \/ (loops = <<>> /\ NoClient)

(* The end has been decided.                                               *)
Ending == IdleBoxOpen \/ exitPosted \/ quitNow

(* By the code of the host, that is, and not by Qt; with every class object*)
(* out of reach.                                                           *)
Decided == Ending /\ ~reopened /\ freed # "failed" /\ ~windowQuit

EndingServesNobody ==
    /\ windowQuit => quitNow
    /\ counts /\ Decided => NoClient /\ ~SomeClassActive

SurrogateInv ==
    /\ Ranges /\ OneCallPerBox /\ ClientsCounted /\ BeforeExec /\ AfterExec
    /\ EndingServesNobody /\ FreedServesNobody

-----------------------------------------------------------------------------
(* A stack and the same with one loop more.                                *)
LEMMA Stacked ==
    ASSUME NEW s \in Seq(Frame), NEW f \in Frame, NEW t, t = <<f>> \o s
    PROVE  /\ t \in Seq(Frame) /\ t # <<>> /\ Head(t) = f /\ Tail(t) = s
           /\ Len(t) = Len(s) + 1 /\ Len(s) \in Nat
           /\ t[1] = f /\ \A k \in 1 .. Len(s) : t[k + 1] = s[k]
OBVIOUS

LEMMA Unstacked ==
    ASSUME NEW t \in Seq(Frame), t # <<>>
    PROVE  /\ Head(t) \in Frame /\ Tail(t) \in Seq(Frame)
           /\ t = <<Head(t)>> \o Tail(t)
<1>1. Head(t) \in Frame /\ Tail(t) \in Seq(Frame)
  OBVIOUS
<1>2. t = <<Head(t)>> \o Tail(t)
  OBVIOUS
<1> QED
  BY <1>1, <1>2

LEMMA BoxesStacked ==
    ASSUME NEW s \in Seq(Frame), NEW f \in Frame, NEW t, t = <<f>> \o s
    PROVE  /\ IsFiniteSet(LoadBoxes(s)) /\ Cardinality(LoadBoxes(s)) \in Nat
           /\ f # "load" => LoadBoxes(t) = LoadBoxes(s)
           /\ f = "load" => Cardinality(LoadBoxes(t)) = Cardinality(LoadBoxes(s)) + 1
           /\ (\E k \in DOMAIN t : t[k] = "idle") <=>
                 f = "idle" \/ \E k \in DOMAIN s : s[k] = "idle"
<1>1. /\ t \in Seq(Frame) /\ Len(t) = Len(s) + 1 /\ Len(s) \in Nat
      /\ t[1] = f /\ \A k \in 1 .. Len(s) : t[k + 1] = s[k]
      /\ DOMAIN s = 1 .. Len(s) /\ DOMAIN t = 1 .. Len(t)
  BY Stacked
<1>2. \A d \in 1 .. Len(s) : t[Len(t) + 1 - d] = s[Len(s) + 1 - d]
  <2> SUFFICES ASSUME NEW d \in 1 .. Len(s)
               PROVE  t[Len(t) + 1 - d] = s[Len(s) + 1 - d]
    OBVIOUS
  <2>1. Len(s) + 1 - d \in 1 .. Len(s) /\ Len(t) + 1 - d = (Len(s) + 1 - d) + 1
    BY <1>1
  <2> QED
    BY <1>1, <2>1
<1>3. t[Len(t) + 1 - (Len(s) + 1)] = f
  <2>1. Len(t) + 1 - (Len(s) + 1) = 1
    BY <1>1
  <2> QED
    BY <1>1, <2>1
<1>4. 1 .. Len(t) = (1 .. Len(s)) \cup {Len(s) + 1} /\ Len(s) + 1 \notin 1 .. Len(s)
  BY <1>1
<1>5. IsFiniteSet(LoadBoxes(s)) /\ Cardinality(LoadBoxes(s)) \in Nat
  <2>1. IsFiniteSet(1 .. Len(s))
    BY <1>1, FS_Interval
  <2> QED
    BY <2>1, FS_Subset, FS_CardinalityType DEF LoadBoxes
<1>6. f # "load" => LoadBoxes(t) = LoadBoxes(s)
  BY <1>2, <1>3, <1>4 DEF LoadBoxes
<1>7. f = "load" => Cardinality(LoadBoxes(t)) = Cardinality(LoadBoxes(s)) + 1
  <2>1. f = "load" => LoadBoxes(t) = LoadBoxes(s) \cup {Len(s) + 1}
    BY <1>2, <1>3, <1>4 DEF LoadBoxes
  <2>2. Len(s) + 1 \notin LoadBoxes(s)
    BY <1>4 DEF LoadBoxes
  <2>3. Cardinality(LoadBoxes(s) \cup {Len(s) + 1}) = Cardinality(LoadBoxes(s)) + 1
    BY <1>5, <2>2, FS_AddElement
  <2> QED
    BY <2>1, <2>3
<1>8. (\E k \in DOMAIN t : t[k] = "idle") => f = "idle" \/ \E k \in DOMAIN s : s[k] = "idle"
  <2> SUFFICES ASSUME NEW k \in DOMAIN t, t[k] = "idle", f # "idle"
               PROVE  \E j \in DOMAIN s : s[j] = "idle"
    OBVIOUS
  <2>1. k # 1 /\ k - 1 \in 1 .. Len(s) /\ (k - 1) + 1 = k
    BY <1>1
  <2>2. s[k - 1] = t[k]
    BY <1>1, <2>1
  <2> QED
    BY <1>1, <2>1, <2>2
<1>9. f = "idle" => \E k \in DOMAIN t : t[k] = "idle"
  <2>1. 1 \in DOMAIN t
    BY <1>1
  <2> QED
    BY <1>1, <2>1
<1>10. (\E k \in DOMAIN s : s[k] = "idle") => \E k \in DOMAIN t : t[k] = "idle"
  <2> SUFFICES ASSUME NEW k \in DOMAIN s, s[k] = "idle"
               PROVE  \E j \in DOMAIN t : t[j] = "idle"
    OBVIOUS
  <2>1. k + 1 \in DOMAIN t /\ t[k + 1] = "idle"
    BY <1>1
  <2> QED
    BY <2>1
<1> QED
  BY <1>5, <1>6, <1>7, <1>8, <1>9, <1>10

LEMMA Pushed ==
    ASSUME Ranges, NEW f \in Frame, Push(f)
    PROVE  /\ loops' \in Seq(Frame) /\ loops' # <<>>
           /\ f # "load" => LoadBoxes(loops') = LoadBoxes(loops)
           /\ f = "load" =>
                 Cardinality(LoadBoxes(loops')) = Cardinality(LoadBoxes(loops)) + 1
           /\ IdleBoxOpen' <=> f = "idle" \/ IdleBoxOpen
<1>1. loops \in Seq(Frame) /\ loops' = <<f>> \o loops
  BY DEF Ranges, Push
<1>2. PICK s : s = loops
  OBVIOUS
<1>3. PICK t : t = loops'
  OBVIOUS
<1>4. s \in Seq(Frame) /\ t = <<f>> \o s
  BY <1>1, <1>2, <1>3
<1>6. t \in Seq(Frame) /\ t # <<>>
  BY <1>4, Stacked
<1>5. /\ f # "load" => LoadBoxes(t) = LoadBoxes(s)
      /\ f = "load" => Cardinality(LoadBoxes(t)) = Cardinality(LoadBoxes(s)) + 1
      /\ (\E k \in DOMAIN t : t[k] = "idle") <=>
            f = "idle" \/ \E k \in DOMAIN s : s[k] = "idle"
  BY <1>4, BoxesStacked
<1> QED
  BY <1>2, <1>3, <1>5, <1>6 DEF IdleBoxOpen

LEMMA Popped ==
    ASSUME Ranges, NEW f \in Frame, Pop(f)
    PROVE  /\ loops # <<>> /\ loops' \in Seq(Frame)
           /\ Cardinality(LoadBoxes(loops')) \in Nat
           /\ f # "load" => LoadBoxes(loops') = LoadBoxes(loops)
           /\ f = "load" =>
                 Cardinality(LoadBoxes(loops)) = Cardinality(LoadBoxes(loops')) + 1
           /\ IdleBoxOpen <=> f = "idle" \/ IdleBoxOpen'
<1>1. loops \in Seq(Frame) /\ loops # <<>> /\ Head(loops) = f /\ loops' = Tail(loops)
  BY DEF Ranges, Pop, In
<1>2. loops' \in Seq(Frame) /\ loops = <<f>> \o loops'
  BY <1>1, Unstacked
<1>3. PICK t : t = loops
  OBVIOUS
<1>4. PICK s : s = loops'
  OBVIOUS
<1>5. s \in Seq(Frame) /\ t = <<f>> \o s
  BY <1>2, <1>3, <1>4
<1>6. /\ Cardinality(LoadBoxes(s)) \in Nat
      /\ f # "load" => LoadBoxes(t) = LoadBoxes(s)
      /\ f = "load" => Cardinality(LoadBoxes(t)) = Cardinality(LoadBoxes(s)) + 1
      /\ (\E k \in DOMAIN t : t[k] = "idle") <=>
            f = "idle" \/ \E k \in DOMAIN s : s[k] = "idle"
  BY <1>5, BoxesStacked
<1> QED
  BY <1>1, <1>2, <1>3, <1>4, <1>6 DEF IdleBoxOpen

LEMMA SuspendedQuiet == \A i \in Slots : Suspended(table)[i] # "active"
BY DEF Suspended

-----------------------------------------------------------------------------
LEMMA InitHolds == Init => SurrogateInv
<1> SUFFICES ASSUME Init PROVE SurrogateInv
  OBVIOUS
<1>1. /\ main = "construct" /\ loops = <<>> /\ creating = <<>> /\ objects = {}
      /\ refs = 0 /\ counts \in BOOLEAN
      /\ ~quitNow /\ ~exitPosted /\ freed = "no" /\ ~windowQuit
  BY SurrogateAssumption DEF Init, ComInit, RuntimeInit
<1>2. LoadBoxes(<<>>) = {}
  BY DEF LoadBoxes
<1>3. Cardinality({}) = 0 /\ IsFiniteSet({})
  BY FS_EmptySet
<1>4. Ranges
  BY <1>1, <1>3 DEF Ranges
<1>5. OneCallPerBox /\ ClientsCounted
  <2>1. Len(creating) = 0
    BY <1>1
  <2>2. Cardinality(LoadBoxes(loops)) = 0 /\ Cardinality(objects) = 0
    BY <1>1, <1>2, <1>3
  <2> QED
    BY <1>1, <2>1, <2>2 DEF OneCallPerBox, ClientsCounted
<1>6. BeforeExec /\ AfterExec /\ FreedServesNobody
  BY <1>1 DEF BeforeExec, AfterExec, FreedServesNobody, NoClient
<1>7. EndingServesNobody
  BY <1>1 DEF EndingServesNobody, Decided, Ending, IdleBoxOpen
<1> QED
  BY <1>4, <1>5, <1>6, <1>7 DEF SurrogateInv

(* The steps before and after the event loop.                              *)
LEMMA ConstructKeeps ==
    ASSUME SurrogateInv, Construct
    PROVE  SurrogateInv'
<1>1. /\ main = "construct" /\ main' \in {"gone", "start"}
      /\ UNCHANGED <<refs, loops, quitNow, exitPosted, counts, objects, creating,
                     freed, reopened, windowQuit>>
  BY DEF Construct, runtimeVars, qtVars, windowVars
<1>2. loops = <<>> /\ ~quitNow /\ ~exitPosted /\ freed = "no" /\ NoClient
      /\ ~windowQuit
  BY <1>1 DEF SurrogateInv, BeforeExec, EndingServesNobody
<1>3. Ranges' /\ OneCallPerBox' /\ ClientsCounted'
  BY <1>1 DEF SurrogateInv, Ranges, OneCallPerBox, ClientsCounted
<1>4. BeforeExec' /\ AfterExec' /\ FreedServesNobody'
  BY <1>1, <1>2 DEF BeforeExec, AfterExec, FreedServesNobody, NoClient
<1>5. EndingServesNobody'
  BY <1>1, <1>2 DEF EndingServesNobody, Decided, Ending, IdleBoxOpen
<1> QED
  BY <1>3, <1>4, <1>5 DEF SurrogateInv

LEMMA StartKeeps ==
    ASSUME SurrogateInv, StartExec
    PROVE  SurrogateInv'
<1>1. /\ main = "start" /\ main' = "exec" /\ Push("exec") /\ quitNow' = FALSE
      /\ UNCHANGED <<refs, table, exitPosted, counts, objects, creating,
                     freed, reopened, windowQuit>>
  BY DEF StartExec, comVars, windowVars
<1>2. loops = <<>> /\ ~quitNow /\ ~exitPosted /\ freed = "no" /\ NoClient
      /\ ~windowQuit
  BY <1>1 DEF SurrogateInv, BeforeExec, EndingServesNobody
<1>3. /\ loops' \in Seq(Frame) /\ LoadBoxes(loops') = LoadBoxes(loops)
      /\ IdleBoxOpen' <=> IdleBoxOpen
  <2>1. "exec" \in Frame
    BY DEF Frame
  <2> QED
    BY <1>1, <2>1, Pushed DEF SurrogateInv
<1>4. ~IdleBoxOpen
  BY <1>2 DEF IdleBoxOpen
<1>5. Ranges' /\ OneCallPerBox' /\ ClientsCounted'
  BY <1>1, <1>3 DEF SurrogateInv, Ranges, OneCallPerBox, ClientsCounted
<1>6. BeforeExec' /\ AfterExec' /\ FreedServesNobody'
  BY <1>1, <1>2 DEF BeforeExec, AfterExec, FreedServesNobody, NoClient
<1>7. EndingServesNobody'
  BY <1>1, <1>2, <1>3, <1>4 DEF EndingServesNobody, Decided, Ending
<1> QED
  BY <1>5, <1>6, <1>7 DEF SurrogateInv

LEMMA ExecReturnsKeeps ==
    ASSUME SurrogateInv, ExecReturns
    PROVE  SurrogateInv'
<1>1. /\ quitNow /\ Pop("exec") /\ main' = "gone"
      /\ UNCHANGED <<refs, table, quitNow, exitPosted, counts, objects, creating,
                     freed, reopened, windowQuit>>
  BY DEF ExecReturns, comVars, windowVars
<1>2. /\ loops' \in Seq(Frame) /\ LoadBoxes(loops') = LoadBoxes(loops)
  <2>1. "exec" \in Frame
    BY DEF Frame
  <2> QED
    BY <1>1, <2>1, Popped DEF SurrogateInv
<1>3. Ranges' /\ OneCallPerBox' /\ ClientsCounted'
  BY <1>1, <1>2 DEF SurrogateInv, Ranges, OneCallPerBox, ClientsCounted
<1>4. BeforeExec' /\ AfterExec' /\ FreedServesNobody'
  BY <1>1 DEF SurrogateInv, BeforeExec, AfterExec, FreedServesNobody,
              SomeClassActive
<1>5. EndingServesNobody'
  BY <1>1 DEF SurrogateInv, EndingServesNobody, Decided, Ending, NoClient,
              SomeClassActive
<1> QED
  BY <1>3, <1>4, <1>5 DEF SurrogateInv

(* Whatever a running loop delivers, the thread is in app.exec.            *)
LEMMA Delivered ==
    ASSUME SurrogateInv, Pumping
    PROVE  main = "exec" /\ ~quitNow
BY DEF SurrogateInv, Ranges, BeforeExec, AfterExec, Pumping

LEMMA LoadKeeps ==
    ASSUME SurrogateInv, NEW i \in Slots, LoadDllServer(i)
    PROVE  SurrogateInv'
<1>1. /\ Pumping /\ freed # "done"
      /\ reopened' = (reopened \/ IdleBoxOpen \/ exitPosted)
      /\ UNCHANGED <<refs, loops, quitNow, exitPosted, main, counts, objects, creating,
                     freed, windowQuit>>
  BY DEF LoadDllServer, runtimeVars, qtVars, windowVars
<1>2. main = "exec" /\ ~quitNow
  BY <1>1, Delivered
<1>3. Ranges' /\ OneCallPerBox' /\ ClientsCounted'
  BY <1>1 DEF SurrogateInv, Ranges, OneCallPerBox, ClientsCounted
<1>4. BeforeExec' /\ AfterExec' /\ FreedServesNobody'
  BY <1>1, <1>2 DEF BeforeExec, AfterExec, FreedServesNobody
<1>5. EndingServesNobody'
  <2>1. ~windowQuit
    BY <1>2 DEF SurrogateInv, EndingServesNobody
  <2> QED
    BY <1>1, <1>2, <2>1 DEF EndingServesNobody, Decided, Ending, IdleBoxOpen
<1> QED
  BY <1>3, <1>4, <1>5 DEF SurrogateInv

LEMMA FreeKeeps ==
    ASSUME SurrogateInv, FreeSurrogate
    PROVE  SurrogateInv'
<1>1. /\ Pumping /\ NoClient
      /\ UNCHANGED <<refs, loops, quitNow, main, counts, objects, creating,
                     reopened, windowQuit>>
  BY DEF FreeSurrogate, ComFrees, NoClient, windowVars
<1>2. main = "exec" /\ ~quitNow
  BY <1>1, Delivered
<1>3. Ranges' /\ OneCallPerBox' /\ ClientsCounted'
  BY <1>1 DEF SurrogateInv, Ranges, OneCallPerBox, ClientsCounted
<1>4. PICK kept \in Kept : /\ table' = Revoked(kept)
                         /\ freed' = IF kept = {} THEN "done" ELSE "failed"
  BY DEF FreeSurrogate
<1>5. freed' # "failed" => ~SomeClassActive'
  <2>1. freed' # "failed" => kept = {}
    BY <1>4
  <2> QED
    BY <1>4, <2>1 DEF Revoked, SomeClassActive
<1>6. freed' = "done" => freed' # "failed"
  OBVIOUS
<1>7. BeforeExec' /\ AfterExec' /\ FreedServesNobody' /\ EndingServesNobody'
  BY <1>1, <1>2, <1>5, <1>6
     DEF SurrogateInv, BeforeExec, AfterExec, FreedServesNobody,
         EndingServesNobody, Decided, NoClient
<1> QED
  BY <1>3, <1>7 DEF SurrogateInv

(* Clients come only while a class is active, which it is not when the end *)
(* has been decided and nothing was loaded since.                          *)
LEMMA ActivateKeeps ==
    ASSUME SurrogateInv, NEW c \in Clients, Activate(c)
    PROVE  SurrogateInv'
<1>1. /\ Pumping /\ SomeClassActive /\ c \notin objects /\ ComCountsOne
      /\ UNCHANGED <<table, quitNow, exitPosted, main, counts, freed, reopened,
                     windowQuit>>
  BY DEF Activate, ShowBox, windowVars
<1>2. main = "exec" /\ ~quitNow
  BY <1>1, Delivered
<1>3. freed # "done"
  BY <1>1 DEF SurrogateInv, FreedServesNobody
<1>4. Cardinality(objects) \in Nat /\ Len(creating) \in Nat /\ refs \in Int
      /\ IsFiniteSet(objects) /\ counts \in BOOLEAN
  BY FS_CardinalityType DEF SurrogateInv, Ranges
<1>5. refs' \in Int /\ (counts => refs' = refs + 1)
  BY <1>1, <1>4 DEF ComCountsOne
<1>6. BeforeExec' /\ AfterExec' /\ FreedServesNobody'
  BY <1>1, <1>2, <1>3 DEF BeforeExec, AfterExec, FreedServesNobody
<1>7. CASE objects' = objects \cup {c} /\ UNCHANGED <<loops, creating>>
  <2>1. IsFiniteSet(objects') /\ Cardinality(objects') = Cardinality(objects) + 1
    BY <1>1, <1>4, <1>7, FS_AddElement
  <2>2. Ranges' /\ OneCallPerBox'
    BY <1>1, <1>5, <1>7, <2>1 DEF SurrogateInv, Ranges, OneCallPerBox
  <2>3. ClientsCounted'
    BY <1>1, <1>4, <1>5, <1>7, <2>1 DEF SurrogateInv, ClientsCounted
  <2>4. EndingServesNobody'
    BY <1>1, <1>7 DEF SurrogateInv, EndingServesNobody, Decided, Ending,
                      IdleBoxOpen
  <2> QED
    BY <1>6, <2>2, <2>3, <2>4 DEF SurrogateInv
<1>8. CASE Push("load") /\ creating' = <<c>> \o creating /\ UNCHANGED objects
  <2>1. creating' \in Seq(Clients) /\ Len(creating') = Len(creating) + 1
    <3>1. creating \in Seq(Clients)
      BY DEF SurrogateInv, Ranges
    <3> QED
      BY <1>8, <3>1
  <2>2. /\ loops' \in Seq(Frame)
        /\ IdleBoxOpen' <=> IdleBoxOpen
        /\ Cardinality(LoadBoxes(loops')) = Cardinality(LoadBoxes(loops)) + 1
    <3>1. "load" \in Frame
      BY DEF Frame
    <3> QED
      BY <1>8, <3>1, Pushed DEF SurrogateInv
  <2>3. Ranges'
    <3>1. objects' = objects /\ counts' = counts /\ main' = main
      BY <1>1, <1>8
    <3> QED
      BY <1>2, <1>4, <1>5, <2>1, <2>2, <3>1 DEF Ranges
  <2>4. OneCallPerBox'
    BY <2>1, <2>2 DEF SurrogateInv, OneCallPerBox
  <2>5. ClientsCounted'
    BY <1>1, <1>4, <1>5, <1>8, <2>1 DEF SurrogateInv, ClientsCounted
  <2>6. EndingServesNobody'
    <3>1. ~(counts /\ Decided)
      BY <1>1 DEF SurrogateInv, EndingServesNobody
    <3>2. Ending' <=> Ending
      BY <1>1, <2>2 DEF Ending
    <3> QED
      BY <1>1, <3>1, <3>2 DEF SurrogateInv, EndingServesNobody, Decided
  <2> QED
    BY <1>6, <2>3, <2>4, <2>5, <2>6 DEF SurrogateInv
<1> QED
  BY <1>7, <1>8 DEF Activate, ShowBox

LEMMA LoadFailureKeeps ==
    ASSUME SurrogateInv, LoadFailureReturns
    PROVE  SurrogateInv'
<1>1. /\ Pop("load") /\ creating' = Tail(creating) /\ ComReleasesOne
      /\ UNCHANGED <<table, quitNow, exitPosted, main, counts, objects, freed,
                     reopened, windowQuit>>
  BY DEF LoadFailureReturns, CloseBox
<1>2. /\ loops # <<>> /\ loops' \in Seq(Frame)
      /\ Cardinality(LoadBoxes(loops')) \in Nat
      /\ Cardinality(LoadBoxes(loops)) = Cardinality(LoadBoxes(loops')) + 1
      /\ IdleBoxOpen <=> IdleBoxOpen'
  <2>1. "load" \in Frame /\ "load" # "idle"
    BY DEF Frame
  <2> QED
    BY <1>1, <2>1, Popped DEF SurrogateInv
<1>3. /\ creating \in Seq(Clients) /\ refs \in Int /\ counts \in BOOLEAN
      /\ IsFiniteSet(objects) /\ main \in {"construct", "start", "exec", "gone"}
  BY DEF SurrogateInv, Ranges
<1>4. Cardinality(objects) \in Nat
  BY <1>3, FS_CardinalityType
<1>5. Len(creating) = Cardinality(LoadBoxes(loops')) + 1
  BY <1>2 DEF SurrogateInv, OneCallPerBox
<1>6. /\ creating # <<>> /\ Len(creating) \in Nat
      /\ creating' \in Seq(Clients) /\ Len(creating') = Len(creating) - 1
  <2>1. Len(creating) \in Nat /\ Len(creating) # 0
    BY <1>2, <1>3, <1>5
  <2>2. creating # <<>>
    BY <2>1
  <2> QED
    BY <1>1, <1>3, <2>1, <2>2
<1>7. main \notin {"construct", "start"}
  BY <1>2 DEF SurrogateInv, BeforeExec
<1>8. freed # "done"
  BY <1>6 DEF SurrogateInv, FreedServesNobody
<1>9. refs' \in Int /\ (counts => refs' = refs - 1)
  BY <1>1, <1>3 DEF ComReleasesOne
<1>10. Ranges'
  <2>1. objects' = objects /\ counts' = counts /\ main' = main
    BY <1>1
  <2> QED
    BY <1>2, <1>3, <1>6, <1>9, <2>1 DEF Ranges
<1>11. OneCallPerBox'
  BY <1>2, <1>5, <1>6 DEF OneCallPerBox
<1>12. ClientsCounted'
  <2>1. counts => refs = Cardinality(objects) + Len(creating)
    BY DEF SurrogateInv, ClientsCounted
  <2>2. objects' = objects /\ counts' = counts
    BY <1>1
  <2> QED
    BY <1>3, <1>4, <1>6, <1>9, <2>1, <2>2 DEF ClientsCounted
<1>13. BeforeExec' /\ FreedServesNobody'
  BY <1>1, <1>7, <1>8 DEF BeforeExec, FreedServesNobody
<1>14. AfterExec'
  BY <1>1, <1>2 DEF SurrogateInv, AfterExec
<1>15. EndingServesNobody'
  <2>1. ~(counts /\ Decided)
    BY <1>6 DEF SurrogateInv, EndingServesNobody, Decided, NoClient
  <2>2. Ending' <=> Ending
    BY <1>1, <1>2 DEF Ending
  <2> QED
    BY <1>1, <2>1, <2>2 DEF SurrogateInv, EndingServesNobody, Decided
<1> QED
  BY <1>10, <1>11, <1>12, <1>13, <1>14, <1>15 DEF SurrogateInv

LEMMA ReleaseKeeps ==
    ASSUME SurrogateInv, NEW c \in Clients, Release(c)
    PROVE  SurrogateInv'
<1>1. /\ Pumping /\ c \in objects /\ objects' = objects \ {c} /\ ComReleasesOne
      /\ UNCHANGED <<table, loops, quitNow, exitPosted, main, counts, creating, freed,
                     reopened, windowQuit>>
  BY DEF Release, runtimeVars, qtVars, windowVars
<1>2. main = "exec"
  BY <1>1, Delivered
<1>3. /\ creating \in Seq(Clients) /\ refs \in Int /\ counts \in BOOLEAN
      /\ IsFiniteSet(objects) /\ loops \in Seq(Frame)
  BY DEF SurrogateInv, Ranges
<1>4. Cardinality(objects) \in Nat /\ Len(creating) \in Nat
  BY <1>3, FS_CardinalityType
<1>5. IsFiniteSet(objects') /\ Cardinality(objects') = Cardinality(objects) - 1
  BY <1>1, <1>3, FS_RemoveElement
<1>6. refs' \in Int /\ (counts => refs' = refs - 1)
  BY <1>1, <1>3 DEF ComReleasesOne
<1>7. Ranges' /\ OneCallPerBox'
  BY <1>1, <1>2, <1>3, <1>5, <1>6 DEF SurrogateInv, Ranges, OneCallPerBox
<1>8. ClientsCounted'
  BY <1>1, <1>3, <1>4, <1>5, <1>6 DEF SurrogateInv, ClientsCounted
<1>9. BeforeExec' /\ AfterExec'
  BY <1>1, <1>2 DEF BeforeExec, AfterExec
<1>10. objects # {}
  BY <1>1
<1>11. FreedServesNobody' /\ EndingServesNobody'
  <2>1. freed # "done" /\ ~(counts /\ Decided)
    BY <1>10 DEF SurrogateInv, EndingServesNobody, FreedServesNobody, NoClient
  <2>2. Ending' <=> Ending
    BY <1>1 DEF Ending, IdleBoxOpen
  <2> QED
    BY <1>1, <2>1, <2>2 DEF SurrogateInv, EndingServesNobody, Decided,
                            FreedServesNobody
<1> QED
  BY <1>7, <1>8, <1>9, <1>11 DEF SurrogateInv

(* The end is decided where the count is zero, and with it the class       *)
(* objects are suspended.                                                  *)
LEMMA NobodyCounted ==
    ASSUME SurrogateInv, counts, refs = 0
    PROVE  NoClient
<1>1. creating \in Seq(Clients) /\ IsFiniteSet(objects)
      /\ refs = Cardinality(objects) + Len(creating)
  BY DEF SurrogateInv, Ranges, ClientsCounted
<1>2. Cardinality(objects) \in Nat /\ Len(creating) \in Nat
  BY <1>1, FS_CardinalityType
<1>3. Cardinality(objects) = 0 /\ Len(creating) = 0
  BY <1>1, <1>2
<1>4. objects = {}
  BY <1>1, <1>3, FS_EmptySet
<1>5. creating = <<>>
  BY <1>1, <1>3
<1> QED
  BY <1>4, <1>5 DEF NoClient

LEMMA ExitKeeps ==
    ASSUME SurrogateInv, ExitStep
    PROVE  SurrogateInv'
<1>1. /\ Pumping /\ exitPosted /\ quitNow' = TRUE
      /\ UNCHANGED <<refs, table, loops, main, counts, objects, creating, freed, reopened, windowQuit>>
  BY DEF ExitStep, ProcessExit, comVars, windowVars, surrogateVars
<1>2. main = "exec"
  BY <1>1, Delivered
<1>3. Ranges' /\ OneCallPerBox' /\ ClientsCounted'
  BY <1>1 DEF SurrogateInv, Ranges, OneCallPerBox, ClientsCounted
<1>4. BeforeExec' /\ AfterExec' /\ FreedServesNobody'
  BY <1>1, <1>2 DEF SurrogateInv, BeforeExec, AfterExec, FreedServesNobody,
                    SomeClassActive
<1>5. EndingServesNobody'
  BY <1>1 DEF SurrogateInv, EndingServesNobody, Decided, Ending, NoClient,
              SomeClassActive
<1> QED
  BY <1>3, <1>4, <1>5 DEF SurrogateInv

LEMMA TimerKeeps ==
    ASSUME SurrogateInv, TimerStep
    PROVE  SurrogateInv'
<1>1. /\ Pumping /\ UNCHANGED <<refs, quitNow, main, counts, objects, creating, freed,
                                reopened, windowQuit>>
      /\ CoProbeServerProcess
  BY DEF TimerStep, CheckForExit, CheckForExitBusy, CheckForExitWarn,
         CheckForExitIdle, ShowBox, TimerFires, CoProbeServerProcess,
         surrogateVars, qtVars, windowVars
<1>2. main = "exec"
  BY <1>1, Delivered
<1>3. SomeClassActive' => SomeClassActive /\ refs # 0
  <2>1. table' = IF refs = 0 THEN Suspended(table) ELSE table
    BY <1>1 DEF CoProbeServerProcess
  <2> QED
    BY <2>1, SuspendedQuiet DEF SomeClassActive
<1>4. \/ /\ refs # 0 /\ UNCHANGED <<loops, exitPosted>>
      \/ /\ refs = 0 /\ Push("idle") /\ UNCHANGED exitPosted
      \/ /\ refs = 0 /\ exitPosted' = TRUE /\ UNCHANGED loops
  BY DEF TimerStep, CheckForExit, CheckForExitBusy, CheckForExitWarn,
         CheckForExitIdle, ShowBox, ExitApplicationLater, qtVars, windowVars
<1>5. /\ loops' \in Seq(Frame) /\ LoadBoxes(loops') = LoadBoxes(loops)
      /\ Ending' /\ refs # 0 => Ending
  <2>1. CASE refs # 0 /\ UNCHANGED <<loops, exitPosted>>
    BY <1>1, <2>1 DEF SurrogateInv, Ranges, Ending, IdleBoxOpen
  <2>2. CASE refs = 0 /\ Push("idle")
    <3>1. "idle" \in Frame
      BY DEF Frame
    <3> QED
      BY <2>2, <3>1, Pushed DEF SurrogateInv
  <2>3. CASE refs = 0 /\ UNCHANGED loops
    BY <2>3 DEF SurrogateInv, Ranges
  <2> QED
    BY <1>4, <2>1, <2>2, <2>3
<1>6. Ranges' /\ OneCallPerBox' /\ ClientsCounted'
  BY <1>1, <1>5 DEF SurrogateInv, Ranges, OneCallPerBox, ClientsCounted
<1>7. BeforeExec' /\ AfterExec'
  BY <1>1, <1>2 DEF BeforeExec, AfterExec
<1>8. FreedServesNobody'
  BY <1>1, <1>3 DEF SurrogateInv, FreedServesNobody
<1>9. EndingServesNobody'
  <2>1. CASE refs = 0
    <3>1. counts => NoClient
      BY <2>1, NobodyCounted
    <3> QED
      BY <1>1, <1>3, <2>1, <3>1 DEF SurrogateInv, EndingServesNobody, Decided,
                                    NoClient
  <2>2. CASE refs # 0
    BY <1>1, <1>3, <1>5, <2>2 DEF SurrogateInv, EndingServesNobody, Decided,
                                  NoClient
  <2> QED
    BY <2>1, <2>2
<1> QED
  BY <1>6, <1>7, <1>8, <1>9 DEF SurrogateInv

LEMMA IdleKeeps ==
    ASSUME SurrogateInv, IdleStep
    PROVE  SurrogateInv'
<1>1. /\ Pop("idle") /\ exitPosted' = TRUE
      /\ UNCHANGED <<refs, table, quitNow, main, counts, objects, creating, freed, reopened, windowQuit>>
  BY DEF IdleStep, IdleWarningReturns, CloseBox, ExitApplicationLater,
         comVars, surrogateVars
<1>2. /\ loops # <<>> /\ loops' \in Seq(Frame) /\ LoadBoxes(loops') = LoadBoxes(loops)
      /\ IdleBoxOpen
  <2>1. "idle" \in Frame
    BY DEF Frame
  <2> QED
    BY <1>1, <2>1, Popped DEF SurrogateInv
<1>3. main \notin {"construct", "start"} /\ (main = "gone" => quitNow)
  BY <1>2 DEF SurrogateInv, BeforeExec, AfterExec
<1>4. Ranges' /\ OneCallPerBox' /\ ClientsCounted'
  BY <1>1, <1>2 DEF SurrogateInv, Ranges, OneCallPerBox, ClientsCounted
<1>5. BeforeExec' /\ AfterExec' /\ FreedServesNobody'
  BY <1>1, <1>3 DEF SurrogateInv, BeforeExec, AfterExec, FreedServesNobody,
                    SomeClassActive
<1>6. EndingServesNobody'
  BY <1>1, <1>2 DEF SurrogateInv, EndingServesNobody, Decided, Ending,
                    NoClient, SomeClassActive
<1> QED
  BY <1>4, <1>5, <1>6 DEF SurrogateInv

(* Qt's own quit, after the last message box.                              *)
LEMMA QuitKeeps ==
    ASSUME SurrogateInv, QuitStep
    PROVE  SurrogateInv'
<1>1. /\ Pumping /\ quitNow' = TRUE
      /\ UNCHANGED <<refs, table, loops, exitPosted, main, counts, objects,
                     creating, freed, reopened>>
  BY DEF QuitStep, LastWindowQuits, comVars, surrogateVars
<1>2. windowQuit' \/ exitPosted
  BY Zenon DEF QuitStep, LastWindowQuits
<1>3. main = "exec" /\ ~quitNow /\ ~windowQuit
  BY <1>1, Delivered DEF SurrogateInv, EndingServesNobody
<1>4. Ranges' /\ OneCallPerBox' /\ ClientsCounted'
  BY <1>1 DEF SurrogateInv, Ranges, OneCallPerBox, ClientsCounted
<1>5. BeforeExec' /\ AfterExec' /\ FreedServesNobody'
  BY <1>1, <1>3 DEF SurrogateInv, BeforeExec, AfterExec, FreedServesNobody,
                    SomeClassActive
<1>6. EndingServesNobody'
  BY <1>1, <1>2, <1>3 DEF SurrogateInv, EndingServesNobody, Decided, Ending,
                          NoClient, SomeClassActive
<1> QED
  BY <1>4, <1>5, <1>6 DEF SurrogateInv

(* The surrogate with all its nested loops, for every behaviour.           *)
THEOREM SurrogateInductive == Init /\ [][Next]_vars => []SurrogateInv
<1>1. Init => SurrogateInv
  BY InitHolds
<1>2. SurrogateInv /\ [Next]_vars => SurrogateInv'
  <2> SUFFICES ASSUME SurrogateInv, [Next]_vars PROVE SurrogateInv'
    OBVIOUS
  <2>1. CASE UNCHANGED vars
    BY <2>1 DEF vars, comVars, runtimeVars, qtVars, windowVars, surrogateVars,
                SurrogateInv, Ranges, OneCallPerBox, ClientsCounted,
                BeforeExec, AfterExec, NoClient, EndingServesNobody, Decided,
                Ending, IdleBoxOpen, FreedServesNobody, SomeClassActive
  <2>2. CASE Construct \/ StartExec \/ ExecReturns
    BY <2>2, ConstructKeeps, StartKeeps, ExecReturnsKeeps
  <2>3. ASSUME NEW i \in Slots, LoadDllServer(i) PROVE SurrogateInv'
    BY <2>3, LoadKeeps
  <2>4. CASE FreeSurrogate
    BY <2>4, FreeKeeps
  <2>5. ASSUME NEW c \in Clients, Activate(c) \/ Release(c) PROVE SurrogateInv'
    BY <2>5, ActivateKeeps, ReleaseKeeps
  <2>6. CASE LoadFailureReturns
    BY <2>6, LoadFailureKeeps
  <2>7. CASE ExitStep \/ TimerStep \/ IdleStep \/ QuitStep
    BY <2>7, ExitKeeps, TimerKeeps, IdleKeeps, QuitKeeps
  <2>8. CASE Ended
    BY <2>1, <2>8 DEF Ended
  <2> QED
    BY <2>1, <2>2, <2>3, <2>4, <2>5, <2>6, <2>7, <2>8 DEF Next
<1> QED
  BY <1>1, <1>2, PTL

(* COM can rely on the answer of FreeSurrogate: after one that succeeded   *)
(* no class object is ever there again and nobody is served, whatever      *)
(* earlier calls failed to revoke.                                         *)
THEOREM FreedStaysFree == FairSpec => []FreedServesNobody
<1>1. SurrogateInv => FreedServesNobody
  BY DEF SurrogateInv
<1> QED
  BY <1>1, SurrogateInductive, PTL DEF FairSpec

(* When COM counts its clients, the process ends under one of them only if *)
(* a class was loaded after CheckForExit had decided, if a FreeSurrogate   *)
(* left a class object registered, or by Qt's own quit.                    *)
THEOREM AbandonedOnlyAfterLoad == FairSpec => []AbandonedOnlyIfReopened
<1>1. SurrogateInv => AbandonedOnlyIfReopened
  BY DEF SurrogateInv, AfterExec, EndingServesNobody, Decided, Ending,
         NoClient, AbandonedOnlyIfReopened
<1> QED
  BY <1>1, SurrogateInductive, PTL DEF FairSpec
=============================================================================
