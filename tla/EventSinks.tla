----------------------------- MODULE EventSinks ------------------------------
(***************************************************************************)
(* The way of an event from a control to the sinks of the clients:         *)
(* HostConnectionPoint::Advise and Unadvise (connection_point.cc) wrap     *)
(* each client sink in a HostEventSink (sink.cc), whose Invoke hands the   *)
(* call to a thread of a pool and waits for it, while the apartment goes   *)
(* on taking calls.  So Invokes nest on the apartment's stack, a call that *)
(* arrives in between can change the connections, and a handler of a       *)
(* client can call back and raise the next event.                          *)
(*                                                                         *)
(* External: the control and its table of connections, COM's global        *)
(* interface table, the thread pool, and the clients.                      *)
(***************************************************************************)
EXTENDS Integers, Sequences, FiniteSets, SequencesExt

CONSTANTS
    Sinks,      \* client sinks, each advised at most once
    NoCookie,   \* the value 0 of m_cookie
    Stray,      \* a value of m_cookie the global table never gave out
    MaxDepth,   \* bound on the Invokes that are nested at a time
    Settings    \* kinds of control, client and machine to consider

FaultKinds == {"register", "advise", "death"}

Setting == [holds     : BOOLEAN,   \* the control references a sink it calls
            callbacks : BOOLEAN,   \* handlers call back into the host
            threads   : Nat \ {0}, \* QThreadPool::maxThreadCount
            faults    : SUBSET FaultKinds] \* what may go wrong

ASSUME SinksAssumption ==
    /\ NoCookie \notin Sinks /\ Stray \notin Sinks /\ NoCookie # Stray
    /\ MaxDepth \in Nat \ {0}
    /\ Settings \subseteq Setting

VARIABLES
    setting,    \* the setting this behaviour is about
    connected,  \* sinks in m_connections and in the control's own table
    cookie,     \* m_cookie of the HostEventSink of a sink; its own
                \* registration in the global table bears the sink's name
    used,       \* sinks that have been wrapped
    alive,      \* sinks whose HostEventSink exists
    git,        \* registrations in the global interface table
    stack,      \* the Invokes that wait in the apartment, the outermost first
    dead        \* sinks whose client process is gone

vars == <<setting, connected, cookie, used, alive, git, stack, dead>>

Cookie == Sinks \cup {NoCookie, Stray}

(* A job of the pool is queued, has a thread and is about to fetch the sink *)
(* from the global table, is in the client's handler, has signalled the    *)
(* event it was given, or has returned without doing so.                   *)
Job == {"queued", "fetching", "calling", "signalled", "failed"}

Call == [sink : Sinks, cookie : Cookie, by : 0 .. MaxDepth, job : Job]

Depths == DOMAIN stack

WithJob(jobs) == {d \in Depths : stack[d].job \in jobs}

SetJob(d, job) == stack' = [stack EXCEPT ![d].job = job]

(* Between two calls of its own the apartment takes another one, unless    *)
(* the wait of the innermost Invoke is over.                               *)
WaitIsOver == stack # <<>> /\ Last(stack).job = "signalled"

Dispatches == ~WaitIsOver

OnStack(s, calls) == \E d \in DOMAIN calls : calls[d].sink = s

(* Mutant: the destructor forgets the registration.                        *)
DestroyKeeping(gone) ==
    /\ alive' = alive \ gone
    /\ UNCHANGED git

(* ~HostEventSink: whatever m_cookie says is revoked.                      *)
Destroy(gone) ==
    /\ alive' = alive \ gone
    /\ git' = git \ {cookie[s] : s \in gone}

(***************************************************************************)
(* Advise: the new sink is registered in the global table and handed to    *)
(* the control.  When the registration fails, m_cookie is never written:   *)
(* the object is used with whatever was in that memory.                    *)
(***************************************************************************)
CreateGlobalSink(s) ==
    \/ cookie' = [cookie EXCEPT ![s] = s]
    \/ /\ "register" \in setting.faults
       /\ \E garbage \in Cookie \ {s} : cookie' = [cookie EXCEPT ![s] = garbage]

Advise(s) ==
    /\ Dispatches
    /\ s \notin used \cup dead
    /\ used' = used \cup {s}
    /\ CreateGlobalSink(s)
    /\ connected' = connected \cup {s}
    /\ alive' = alive \cup {s}
    /\ git' = git \cup (IF cookie'[s] = s THEN {s} ELSE {})
    /\ UNCHANGED <<setting, stack, dead>>

(* Mutant: a refused sink is not destroyed.                                *)
AdviseRefusedLeaks(s) ==
    /\ "advise" \in setting.faults
    /\ Dispatches
    /\ s \notin used \cup dead
    /\ used' = used \cup {s}
    /\ CreateGlobalSink(s)
    /\ git' = git \cup {cookie'[s]}
    /\ UNCHANGED <<setting, connected, alive, stack, dead>>

(* The control refuses: the sink is destroyed before Advise returns.       *)
AdviseRefused(s) ==
    /\ "advise" \in setting.faults
    /\ Dispatches
    /\ s \notin used \cup dead
    /\ used' = used \cup {s}
    /\ CreateGlobalSink(s)
    /\ git' = git \ {cookie'[s]}
    /\ UNCHANGED <<setting, connected, alive, stack, dead>>

(* Mutant: the sink is destroyed under an Invoke of it.                    *)
UnadviseDestroys(s) ==
    /\ Dispatches
    /\ s \in connected \ dead
    /\ connected' = connected \ {s}
    /\ Destroy({s})
    /\ UNCHANGED <<setting, cookie, used, stack, dead>>

(* Unadvise drops the references of the maps and of the control; an Invoke *)
(* under way may still hold one.                                           *)
Unadvise(s) ==
    /\ Dispatches
    /\ s \in connected \ dead
    /\ connected' = connected \ {s}
    /\ Destroy(IF setting.holds /\ OnStack(s, stack) THEN {} ELSE {s})
    /\ UNCHANGED <<setting, cookie, used, stack, dead>>

(***************************************************************************)
(* The control raises an event on a sink, on its own account (by = 0) or   *)
(* in a call made by the handler that the job at depth "by" is in.         *)
(* HostEventSink::Invoke queues the job and waits.                         *)
(***************************************************************************)
Invoke(s, by) ==
    /\ Dispatches
    /\ Len(stack) < MaxDepth
    /\ s \in connected
    /\ by = 0 \/ (setting.callbacks /\ by \in WithJob({"calling"}))
    /\ cookie[s] # NoCookie
    /\ stack' = Append(stack, [sink |-> s, cookie |-> cookie[s], by |-> by,
                               job |-> "queued"])
    /\ UNCHANGED <<setting, connected, cookie, used, alive, git, dead>>

(* The pool starts its jobs in order, as many as it has threads.           *)
StartJob(d) ==
    /\ d \in WithJob({"queued"})
    /\ \A e \in WithJob({"queued"}) : d <= e
    /\ Cardinality(WithJob({"fetching", "calling"})) < setting.threads
    /\ SetJob(d, "fetching")
    /\ UNCHANGED <<setting, connected, cookie, used, alive, git, dead>>

(* GetInterfaceFromGlobal, in the pool's thread: the registration may have *)
(* been revoked, or its client may be gone.                                *)
Reachable(c) == c \in git \ dead

FetchSink(d) ==
    /\ d \in WithJob({"fetching"})
    /\ SetJob(d, IF Reachable(stack[d].cookie) THEN "calling" ELSE "failed")
    /\ UNCHANGED <<setting, connected, cookie, used, alive, git, dead>>

(* Mutant: the job does not signal an event of a nested Invoke.            *)
SinkReturnsQuietly(d) ==
    /\ d \in WithJob({"calling"})
    /\ \A e \in Depths : stack[e].by # d
    /\ SetJob(d, IF d = 1 THEN "signalled" ELSE "failed")
    /\ UNCHANGED <<setting, connected, cookie, used, alive, git, dead>>

(* The handler returns, when the calls it made have, and SetEvent follows; *)
(* a client that has died returns an error, and SetEvent follows too.      *)
SinkReturns(d) ==
    /\ d \in WithJob({"calling"})
    /\ \A e \in Depths : stack[e].by # d
    /\ SetJob(d, "signalled")
    /\ UNCHANGED <<setting, connected, cookie, used, alive, git, dead>>

(* The innermost Invoke returns to the control, which lets the sink go.    *)
InvokeReturns ==
    /\ WaitIsOver
    /\ stack' = Front(stack)
    /\ LET s == Last(stack).sink
       IN Destroy(IF setting.holds /\ s \notin connected /\ ~OnStack(s, stack')
                  THEN {s} ELSE {})
    /\ UNCHANGED <<setting, connected, cookie, used, dead>>

(* The client of a sink dies.  Nobody unadvises its sink.                  *)
ClientDies(s) ==
    /\ "death" \in setting.faults
    /\ s \notin dead
    /\ dead' = dead \cup {s}
    /\ UNCHANGED <<setting, connected, cookie, used, alive, git, stack>>

Init ==
    /\ setting \in Settings
    /\ connected = {} /\ used = {} /\ alive = {} /\ git = {} /\ dead = {}
    /\ cookie = [s \in Sinks |-> NoCookie]
    /\ stack = <<>>

Next ==
    \/ \E s \in Sinks :
          \/ Advise(s) \/ AdviseRefused(s) \/ Unadvise(s) \/ ClientDies(s)
          \/ \E by \in 0 .. MaxDepth : Invoke(s, by)
    \/ \E d \in Depths : StartJob(d) \/ FetchSink(d) \/ SinkReturns(d)
    \/ InvokeReturns

Spec == Init /\ [][Next]_vars

(***************************************************************************)
(* Threads run, and handlers return: a handler may call back, but not for  *)
(* ever, which takes strong fairness.                                      *)
(***************************************************************************)
Fairness ==
    /\ WF_vars(InvokeReturns)
    /\ \A d \in 1 .. MaxDepth :
          WF_vars(StartJob(d)) /\ WF_vars(FetchSink(d)) /\ SF_vars(SinkReturns(d))

FairSpec == Spec /\ Fairness

-----------------------------------------------------------------------------
(* The variables stay in their ranges.                                     *)
TypeOK ==
    /\ setting \in Settings
    /\ connected \subseteq Sinks /\ used \subseteq Sinks /\ alive \subseteq Sinks
    /\ git \subseteq Sinks /\ dead \subseteq Sinks
    /\ cookie \in [Sinks -> Cookie]
    /\ stack \in Seq(Call) /\ Len(stack) <= MaxDepth

(* Every registration in the global table succeeds.                        *)
Registers == "register" \notin setting.faults

(* A sink is registered in the global table exactly as long as its         *)
(* HostEventSink exists: no registration is leaked, none is revoked under  *)
(* a sink that is still connected.  That takes registrations that succeed: *)
(* otherwise m_cookie may be another sink's, and revoke that one.          *)
GitMatchesSinks == Registers => git = alive /\ connected \subseteq alive

(* An event reaches the sink it was raised on, and only while the client   *)
(* has it connected or an Invoke of it is still under way, on a control    *)
(* that references the sink it calls.                                      *)
DeliveredToOwnSink ==
    Registers /\ setting.holds =>
        \A d \in WithJob({"calling"}) :
            stack[d].cookie = stack[d].sink /\ stack[d].sink \in alive

(* The sink an Invoke called is lost: its client is gone, or it was        *)
(* unadvised in the meantime and the control does not reference it.        *)
Lost(d) ==
    \/ stack[d].sink \in dead
    \/ ~setting.holds /\ stack[d].sink \notin connected

(* Handlers that wait for an Invoke they have raised.                      *)
Waiting == {d \in WithJob({"calling"}) : \E e \in Depths : stack[e].by = d}

Starved ==
    /\ WithJob({"queued"}) # {}
    /\ setting.threads <= Cardinality(Waiting)

(* Neither the innermost Invoke nor a thread of the pool can go on.        *)
Hung ==
    /\ stack # <<>> /\ ~WaitIsOver
    /\ WithJob({"fetching"}) = {} /\ WithJob({"calling"}) \subseteq Waiting
    /\ WithJob({"queued"}) # {} =>
          ~(Cardinality(WithJob({"fetching", "calling"})) < setting.threads)

(* With sinks whose registrations all succeeded, a job fails to signal     *)
(* only when its sink is lost; and Invokes hang only over a lost sink, or  *)
(* when the handlers of enclosing Invokes, waiting for Invokes of their    *)
(* own, have all threads of the pool and the next job is never started.    *)
HungOnlyLostOrStarved ==
    (\A s \in used : cookie[s] = s) =>
        /\ \A d \in WithJob({"failed"}) : Lost(d)
        /\ Hung => Starved \/ (Last(stack).job = "failed" /\ Lost(Len(stack)))

(* What it takes for all events to come back: registrations that succeed,  *)
(* clients that stay, a control that references the sink it calls, and a   *)
(* pool with a thread for each handler that waits for a nested event.      *)
Sound ==
    /\ setting.holds /\ setting.faults \cap {"register", "death"} = {}
    /\ setting.callbacks => setting.threads >= MaxDepth

(* Every Invoke returns: at every depth, the stack comes back below it.    *)
EveryInvokeReturns ==
    \A d \in 1 .. MaxDepth : Sound /\ Len(stack) >= d ~> Len(stack) < d
=============================================================================
