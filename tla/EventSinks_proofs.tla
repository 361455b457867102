--------------------------- MODULE EventSinks_proofs ---------------------------
(***************************************************************************)
(* Theorems about EventSinks, for every set of sinks, every bound on the   *)
(* nesting, and every kind of control, client and machine.                 *)
(***************************************************************************)
EXTENDS EventSinks, SequenceTheorems, FiniteSetTheorems, TLAPS

(* Every sink that was ever wrapped has its own registration.              *)
Proper == \A s \in used : cookie[s] = s

(* A sink is wrapped before it is connected or called, and the cookie it   *)
(* was given then is the one every job of it uses.                         *)
Wrapped ==
    /\ alive \subseteq used /\ connected \subseteq used
    /\ \A d \in Depths : /\ stack[d].sink \in used
                         /\ stack[d].cookie = cookie[stack[d].sink]

(* The global table follows the sinks, and an Invoke keeps its sink, when  *)
(* the control does.                                                       *)
Registered ==
    /\ Registers => Proper
    /\ Proper => /\ git = alive /\ connected \subseteq alive
                 /\ setting.holds => \A d \in Depths : stack[d].sink \in alive

FailedOnlyWhenLost == Proper => \A d \in WithJob({"failed"}) : Lost(d)

(* The Invoke of a handler is below those the handler has raised.          *)
Enclosed == \A d \in Depths : stack[d].by < d

EInv == TypeOK /\ Wrapped /\ Registered /\ FailedOnlyWhenLost /\ Enclosed

-----------------------------------------------------------------------------
LEMMA FrontTypes ==
    ASSUME NEW T, NEW s \in Seq(T), s # <<>>
    PROVE  /\ Front(s) \in Seq(T)
           /\ Len(s) \in Nat /\ Len(s) > 0 /\ Len(Front(s)) = Len(s) - 1
           /\ \A k \in 1 .. Len(s) - 1 : Front(s)[k] = s[k]
           /\ Last(s) = s[Len(s)]
<1> DEFINE n == Len(s) - 1
<1>1. Len(s) \in Nat /\ Len(s) > 0 /\ n \in Nat
  OBVIOUS
<1>2. \A k \in 1 .. n : s[k] \in T /\ 1 + k - 1 = k
  BY <1>1
<1>3. n - 1 + 1 = n /\ (1 <= n \/ n = 0)
  <2> HIDE DEF n
  <2> QED
    BY <1>1
<1>4. /\ SubSeq(s, 1, n) \in Seq(T)
      /\ Len(SubSeq(s, 1, n)) = IF 1 <= n THEN n - 1 + 1 ELSE 0
      /\ \A k \in 1 .. n - 1 + 1 : SubSeq(s, 1, n)[k] = s[1 + k - 1]
  <2> HIDE DEF n
  <2>1. 1 \in Int /\ n \in Int
    BY <1>1
  <2> QED
    BY <1>2, <2>1, SubSeqProperties
<1>5. Len(SubSeq(s, 1, n)) = n
  BY <1>3, <1>4
<1>6. \A k \in 1 .. n : SubSeq(s, 1, n)[k] = s[k]
  <2> HIDE DEF n
  <2> QED
    BY <1>2, <1>3, <1>4
<1> QED
  BY <1>1, <1>4, <1>5, <1>6 DEF Front, Last

LEMMA Appended ==
    ASSUME NEW T, NEW s \in Seq(T), NEW e \in T
    PROVE  /\ Append(s, e) \in Seq(T)
           /\ Len(s) \in Nat /\ Len(Append(s, e)) = Len(s) + 1
           /\ \A k \in 1 .. Len(s) : Append(s, e)[k] = s[k]
           /\ Append(s, e)[Len(s) + 1] = e
OBVIOUS

(* What a step of a job changes: its state, and nothing of the call.       *)
LEMMA JobSet ==
    ASSUME TypeOK, NEW d \in Depths, NEW job \in Job, SetJob(d, job)
    PROVE  /\ stack' \in Seq(Call) /\ Len(stack') = Len(stack)
           /\ Depths' = Depths
           /\ \A e \in Depths : /\ stack'[e].sink = stack[e].sink
                                /\ stack'[e].cookie = stack[e].cookie
                                /\ stack'[e].by = stack[e].by
                                /\ stack'[e].job = IF e = d THEN job ELSE stack[e].job
<1>1. stack \in Seq(Call) /\ stack' = [stack EXCEPT ![d].job = job]
  BY DEF TypeOK, SetJob
<1>2. \A e \in Depths : stack[e] \in Call
  BY <1>1 DEF Depths
<1>3. [stack[d] EXCEPT !.job = job] \in Call
  BY <1>2 DEF Call
<1>4. stack' \in Seq(Call) /\ Len(stack') = Len(stack) /\ Depths' = Depths
  BY <1>1, <1>3 DEF Depths
<1>5. ASSUME NEW e \in Depths
      PROVE  stack'[e] = IF e = d THEN [stack[d] EXCEPT !.job = job] ELSE stack[e]
  BY <1>1, <1>5 DEF Depths
<1>6. \A e \in Depths : /\ stack'[e].sink = stack[e].sink
                        /\ stack'[e].cookie = stack[e].cookie
                        /\ stack'[e].by = stack[e].by
                        /\ stack'[e].job = IF e = d THEN job ELSE stack[e].job
  BY <1>2, <1>5 DEF Call
<1> QED
  BY <1>4, <1>6

-----------------------------------------------------------------------------
LEMMA InitEInv == Init => EInv
<1> SUFFICES ASSUME Init PROVE EInv
  OBVIOUS
<1>1. TypeOK
  BY SinksAssumption DEF Init, TypeOK, Cookie
<1> QED
  BY <1>1 DEF Init, EInv, Wrapped, Registered, Proper, FailedOnlyWhenLost,
              WithJob, Depths, Enclosed

(* A new sink: connected, or refused by the control.                       *)
LEMMA AdviseEInv ==
    ASSUME EInv, NEW s \in Sinks, Advise(s) \/ AdviseRefused(s)
    PROVE  EInv'
<1> USE DEF EInv
<1>1. /\ s \notin used /\ used' = used \cup {s} /\ UNCHANGED <<setting, stack, dead>>
      /\ Depths' = Depths
  BY DEF Advise, AdviseRefused, Depths
<1>2. /\ cookie' \in [Sinks -> Cookie]
      /\ \A t \in Sinks \ {s} : cookie'[t] = cookie[t]
      /\ Registers => cookie'[s] = s
  <2>1. PICK k \in Cookie : cookie' = [cookie EXCEPT ![s] = k]
    BY DEF Advise, AdviseRefused, CreateGlobalSink, Cookie
  <2>2. Registers => cookie' = [cookie EXCEPT ![s] = s]
    BY DEF Advise, AdviseRefused, CreateGlobalSink, Registers
  <2> QED
    BY <2>1, <2>2 DEF TypeOK
<1>3. \/ /\ connected' = connected \cup {s} /\ alive' = alive \cup {s}
         /\ git' = git \cup (IF cookie'[s] = s THEN {s} ELSE {})
      \/ UNCHANGED <<connected, alive>> /\ git' = git \ {cookie'[s]}
  BY DEF Advise, AdviseRefused
<1>4. TypeOK'
  BY <1>1, <1>2, <1>3 DEF TypeOK
<1>5. Wrapped'
  BY <1>1, <1>2, <1>3 DEF Wrapped, TypeOK
<1>6. Proper' => Proper /\ cookie'[s] = s
  BY <1>1, <1>2 DEF Proper, TypeOK
<1>7. Registers' => Proper'
  BY <1>1, <1>2 DEF Registers, Registered, Proper, TypeOK
<1>8. Registered'
  BY <1>1, <1>3, <1>6, <1>7 DEF Registered, Wrapped
<1>9. FailedOnlyWhenLost'
  <2> SUFFICES ASSUME Proper', NEW d \in Depths, stack[d].job = "failed"
               PROVE  \/ stack[d].sink \in dead
                      \/ ~setting.holds /\ stack[d].sink \notin connected'
    BY <1>1 DEF FailedOnlyWhenLost, Lost, WithJob, Proper
  <2>1. \/ stack[d].sink \in dead
        \/ ~setting.holds /\ stack[d].sink \notin connected
    BY <1>6 DEF FailedOnlyWhenLost, Lost, WithJob, Proper
  <2>2. stack[d].sink # s
    BY <1>1 DEF Wrapped
  <2> QED
    BY <1>3, <2>1, <2>2
<1>10. Enclosed'
  BY <1>1 DEF Enclosed
<1> QED
  BY <1>4, <1>5, <1>8, <1>9, <1>10

(* What goes when the last reference to a sink does.                       *)
LEMMA DestroyRegistered ==
    ASSUME EInv, NEW gone \in SUBSET used, Destroy(gone),
           UNCHANGED <<cookie, used>>
    PROVE  /\ alive' = alive \ gone
           /\ git' \subseteq git
           /\ Proper => git' = git \ gone
<1>1. Proper => {cookie[s] : s \in gone} = gone
  BY DEF Proper
<1> QED
  BY <1>1 DEF Destroy

LEMMA UnadviseEInv ==
    ASSUME EInv, NEW s \in Sinks, Unadvise(s)
    PROVE  EInv'
<1> USE DEF EInv
<1>1. /\ s \in connected /\ connected' = connected \ {s}
      /\ UNCHANGED <<setting, cookie, used, stack, dead>>
      /\ Depths' = Depths
  BY DEF Unadvise, Depths
<1> DEFINE gone == IF setting.holds /\ OnStack(s, stack) THEN {} ELSE {s}
<1>2. Destroy(gone) /\ gone \in SUBSET used
  BY <1>1 DEF Unadvise, Wrapped
<1>3. alive' = alive \ gone /\ git' \subseteq git /\ (Proper => git' = git \ gone)
  BY <1>1, <1>2, DestroyRegistered
<1>4. setting.holds => \A d \in Depths : stack[d].sink \notin gone
  BY DEF OnStack, Depths
<1>5. TypeOK'
  BY <1>1, <1>3 DEF TypeOK
<1>6. Wrapped'
  BY <1>1, <1>3 DEF Wrapped
<1>7. Registered'
  BY <1>1, <1>3, <1>4 DEF Registered, Registers, Proper
<1>8. FailedOnlyWhenLost'
  BY <1>1 DEF FailedOnlyWhenLost, Lost, WithJob, Proper
<1>9. Enclosed'
  BY <1>1 DEF Enclosed
<1> QED
  BY <1>5, <1>6, <1>7, <1>8, <1>9

LEMMA InvokeEInv ==
    ASSUME EInv, NEW s \in Sinks, NEW by \in 0 .. MaxDepth, Invoke(s, by)
    PROVE  EInv'
<1> USE DEF EInv
<1> DEFINE call == [sink |-> s, cookie |-> cookie[s], by |-> by, job |-> "queued"]
<1>1. /\ Len(stack) < MaxDepth /\ s \in connected
      /\ stack' = Append(stack, call)
      /\ UNCHANGED <<setting, connected, cookie, used, alive, git, dead>>
  BY DEF Invoke
<1>2. call \in Call /\ stack \in Seq(Call)
  BY DEF TypeOK, Call, Job
<1> HIDE DEF call
<1>3. /\ stack' \in Seq(Call) /\ Len(stack) \in Nat /\ Len(stack') = Len(stack) + 1
      /\ \A k \in 1 .. Len(stack) : stack'[k] = stack[k]
      /\ stack'[Len(stack) + 1] = call
  BY <1>1, <1>2, Appended
<1>4. /\ Depths = 1 .. Len(stack) /\ Depths' = 1 .. Len(stack) + 1
  BY <1>2, <1>3 DEF Depths
<1>5. \A d \in Depths' : \/ d \in Depths /\ stack'[d] = stack[d]
                         \/ stack'[d] = call
  BY <1>3, <1>4
<1>6. call.sink = s /\ call.cookie = cookie[s] /\ call.job = "queued"
  BY DEF call
<1>7. TypeOK'
  BY <1>1, <1>3, SinksAssumption DEF TypeOK
<1>8. Wrapped'
  BY <1>1, <1>5, <1>6 DEF Wrapped
<1>9. Registered'
  BY <1>1, <1>5, <1>6 DEF Registered, Registers, Proper
<1>10. FailedOnlyWhenLost'
  BY <1>1, <1>5, <1>6 DEF FailedOnlyWhenLost, Lost, WithJob, Proper
<1>11. Enclosed'
  <2>1. call.by = by /\ by < Len(stack) + 1
    <3>1. by = 0 \/ by \in Depths
      BY DEF Invoke, WithJob
    <3> QED
      BY <1>3, <1>4, <3>1 DEF call
  <2> QED
    BY <1>3, <1>4, <2>1 DEF Enclosed
<1> QED
  BY <1>7, <1>8, <1>9, <1>10, <1>11

(* The pool: a job starts, fetches the sink, and comes back.               *)
LEMMA JobEInv ==
    ASSUME EInv, NEW d \in Depths, StartJob(d) \/ FetchSink(d) \/ SinkReturns(d)
    PROVE  EInv'
<1> USE DEF EInv
<1>1. UNCHANGED <<setting, connected, cookie, used, alive, git, dead>>
  BY DEF StartJob, FetchSink, SinkReturns
<1>2. PICK job \in Job :
         /\ SetJob(d, job)
         /\ job = "failed" => ~Reachable(stack[d].cookie)
  BY DEF StartJob, FetchSink, SinkReturns, Job
<1>3. /\ stack' \in Seq(Call) /\ Len(stack') = Len(stack)
      /\ Depths' = Depths
      /\ \A e \in Depths : /\ stack'[e].sink = stack[e].sink
                           /\ stack'[e].cookie = stack[e].cookie
                           /\ stack'[e].by = stack[e].by
                           /\ stack'[e].job = IF e = d THEN job ELSE stack[e].job
  BY <1>2, JobSet
<1>4. TypeOK' /\ Wrapped' /\ Registered'
  BY <1>1, <1>3 DEF TypeOK, Wrapped, Registered, Registers, Proper
<1>5. FailedOnlyWhenLost'
  <2> SUFFICES ASSUME Proper, NEW e \in Depths, stack'[e].job = "failed"
               PROVE  \/ stack[e].sink \in dead
                      \/ ~setting.holds /\ stack[e].sink \notin connected
    BY <1>1, <1>3 DEF FailedOnlyWhenLost, Lost, WithJob, Proper
  <2>1. CASE e # d \/ stack[d].job = "failed"
    BY <1>3, <2>1 DEF FailedOnlyWhenLost, Lost, WithJob, Proper
  <2>2. CASE e = d
    <3>1. stack[d].cookie \notin git \ dead
      BY <1>2, <1>3, <2>2 DEF Reachable
    <3>2. stack[d].cookie = stack[d].sink /\ git = alive /\ connected \subseteq alive
          /\ (setting.holds => stack[d].sink \in alive)
      BY DEF Wrapped, Registered, Proper
    <3> QED
      BY <2>2, <3>1, <3>2
  <2> QED
    BY <2>1, <2>2
<1>6. Enclosed'
  BY <1>3 DEF Enclosed
<1> QED
  BY <1>4, <1>5, <1>6

LEMMA InvokeReturnsEInv ==
    ASSUME EInv, InvokeReturns
    PROVE  EInv'
<1> USE DEF EInv
<1>1. /\ stack # <<>> /\ stack' = Front(stack) /\ stack \in Seq(Call)
      /\ UNCHANGED <<setting, connected, cookie, used, dead>>
  BY DEF InvokeReturns, WaitIsOver, TypeOK
<1>2. /\ stack' \in Seq(Call) /\ Len(stack) \in Nat /\ Len(stack) > 0
      /\ Len(stack') = Len(stack) - 1
      /\ \A k \in 1 .. Len(stack) - 1 : stack'[k] = stack[k]
      /\ Last(stack) = stack[Len(stack)]
  BY <1>1, FrontTypes
<1>3. Depths = 1 .. Len(stack) /\ Depths' = 1 .. Len(stack) - 1
  BY <1>1, <1>2 DEF Depths
<1>4. \A d \in Depths' : d \in Depths /\ stack'[d] = stack[d]
  BY <1>2, <1>3
<1> DEFINE s == Last(stack).sink
           gone == IF setting.holds /\ s \notin connected /\ ~OnStack(s, stack')
                   THEN {s} ELSE {}
<1>5. Destroy(gone)
  BY DEF InvokeReturns
<1>6. gone \in SUBSET used /\ gone \cap connected = {}
  BY <1>2, <1>3 DEF Wrapped
<1>7. \A d \in Depths' : stack'[d].sink \notin gone
  BY DEF OnStack, Depths
<1> HIDE DEF gone
<1>8. alive' = alive \ gone /\ git' \subseteq git /\ (Proper => git' = git \ gone)
  BY <1>1, <1>5, <1>6, DestroyRegistered
<1>9. TypeOK'
  BY <1>1, <1>2, <1>8, SinksAssumption DEF TypeOK
<1>10. Wrapped'
  BY <1>1, <1>4, <1>8 DEF Wrapped
<1>11. Registered'
  BY <1>1, <1>4, <1>6, <1>7, <1>8 DEF Registered, Registers, Proper
<1>12. FailedOnlyWhenLost'
  BY <1>1, <1>4 DEF FailedOnlyWhenLost, Lost, WithJob, Proper
<1>13. Enclosed'
  BY <1>4 DEF Enclosed
<1> QED
  BY <1>9, <1>10, <1>11, <1>12, <1>13

LEMMA NextEInv == EInv /\ [Next]_vars => EInv'
<1> SUFFICES ASSUME EInv, [Next]_vars PROVE EInv'
  OBVIOUS
<1>1. ASSUME NEW s \in Sinks, ClientDies(s)
      PROVE  EInv'
  BY <1>1 DEF ClientDies, EInv, TypeOK, Wrapped, Registered, Registers, Proper,
              FailedOnlyWhenLost, Lost, WithJob, Depths, Enclosed
<1>2. CASE UNCHANGED vars
  BY <1>2 DEF vars, EInv, TypeOK, Wrapped, Registered, Registers, Proper,
              FailedOnlyWhenLost, Lost, WithJob, Depths, Enclosed
<1> QED
  BY <1>1, <1>2, AdviseEInv, UnadviseEInv, InvokeEInv, JobEInv,
     InvokeReturnsEInv DEF Next

THEOREM SinksInductive == Spec => []EInv
BY InitEInv, NextEInv, PTL DEF Spec

(* The variables stay in their ranges, whatever fails.                     *)
THEOREM SinksTyped == Spec => []TypeOK
<1>1. EInv => TypeOK
  BY DEF EInv
<1> QED
  BY <1>1, SinksInductive, PTL

(* With registrations that succeed, the global table holds a sink exactly  *)
(* as long as its HostEventSink exists, across refused Advises, Unadvises  *)
(* in the middle of an Invoke, nested Invokes and dying clients.           *)
THEOREM TableFollowsSinks == Spec => []GitMatchesSinks
<1>1. EInv => GitMatchesSinks
  BY DEF EInv, Registered, GitMatchesSinks
<1> QED
  BY <1>1, SinksInductive, PTL

(* With registrations that succeed and a control that references the sink  *)
(* it calls, the pool delivers every event to the sink it was raised on,   *)
(* while that sink exists.                                                 *)
THEOREM EventsFindTheirSink == Spec => []DeliveredToOwnSink
<1>1. EInv => DeliveredToOwnSink
  BY DEF EInv, Wrapped, Registered, Proper, DeliveredToOwnSink, WithJob
<1> QED
  BY <1>1, SinksInductive, PTL

(* An Invoke raised by a handler stands above the Invoke of the handler;   *)
(* so the innermost Invoke of a stack that hangs waits for no other one.   *)
LEMMA HungInnermost ==
    ASSUME EInv, Hung
    PROVE  Starved \/ Last(stack).job = "failed"
<1> USE DEF EInv
<1> DEFINE d == Len(stack)
<1>1. /\ stack \in Seq(Call) /\ stack # <<>> /\ Depths = 1 .. d /\ d \in Nat
      /\ d \in Depths /\ Last(stack) = stack[d]
  BY DEF TypeOK, Hung, Depths, Last
<1>2. stack[d].job \in Job /\ stack[d].job \notin {"signalled", "fetching"}
  <2>1. stack[d] \in Call
    BY <1>1
  <2>2. stack[d].job # "signalled"
    BY <1>1 DEF Hung, WaitIsOver
  <2>3. stack[d].job # "fetching"
    BY <1>1 DEF Hung, WithJob
  <2> QED
    BY <2>1, <2>2, <2>3 DEF Call
<1>3. stack[d].job # "calling"
  <2> SUFFICES ASSUME stack[d].job = "calling" PROVE FALSE
    OBVIOUS
  <2>1. PICK e \in Depths : stack[e].by = d
    BY <1>1 DEF Hung, Waiting, WithJob
  <2> QED
    BY <1>1, <2>1 DEF Enclosed
<1>4. CASE stack[d].job = "queued"
  <2>1. WithJob({"queued"}) # {}
    BY <1>1, <1>4 DEF WithJob
  <2>2. WithJob({"fetching", "calling"}) = Waiting
    BY DEF Hung, WithJob, Waiting
  <2>3. Cardinality(Waiting) \in Nat /\ setting.threads \in Nat
    <3>1. IsFiniteSet(Depths)
      BY <1>1, FS_Interval
    <3>2. IsFiniteSet(Waiting)
      BY <3>1, FS_Subset DEF Waiting, WithJob
    <3> QED
      BY <3>2, FS_CardinalityType, SinksAssumption DEF TypeOK, Setting
  <2> QED
    BY <2>1, <2>2, <2>3 DEF Hung, Starved
<1> QED
  BY <1>1, <1>2, <1>3, <1>4 DEF Job

(* Invokes hang only over a sink that is lost, to a client that is gone or *)
(* to an Unadvise on a control that does not reference its sinks, or when  *)
(* handlers that wait for nested Invokes have all threads of the pool.     *)
THEOREM HangsHaveCauses == Spec => []HungOnlyLostOrStarved
<1>1. EInv => HungOnlyLostOrStarved
  <2> SUFFICES ASSUME EInv, Proper
               PROVE  /\ \A d \in WithJob({"failed"}) : Lost(d)
                      /\ Hung => \/ Starved
                                 \/ /\ Last(stack).job = "failed"
                                    /\ Lost(Len(stack))
    BY DEF HungOnlyLostOrStarved, Proper
  <2>1. \A d \in WithJob({"failed"}) : Lost(d)
    BY DEF EInv, FailedOnlyWhenLost
  <2>2. Hung => Starved \/ Last(stack).job = "failed"
    BY HungInnermost
  <2>3. Hung /\ Last(stack).job = "failed" => Len(stack) \in WithJob({"failed"})
    BY DEF EInv, TypeOK, Hung, WithJob, Depths, Last
  <2> QED
    BY <2>1, <2>2, <2>3
<1> QED
  BY <1>1, SinksInductive, PTL
=============================================================================
