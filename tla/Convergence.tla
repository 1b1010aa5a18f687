---------------------------- MODULE Convergence ----------------------------
(***************************************************************************)
(* One convergence loop of Gas City: the root bead and its metadata, the   *)
(* wisps poured under it, and the controller that runs the handlers of     *)
(* internal/convergence one store call at a time.  A handler is a series   *)
(* of segments.  A segment reads the store, decides, and leaves in todo    *)
(* the store calls it makes, in the order of the code; each call is a step *)
(* of its own, so that an agent, a store failure or a crash can come       *)
(* between any two of them.  pc names the segment that runs once todo is   *)
(* empty.  The controller's event loop runs one handler at a time, which   *)
(* is the single-writer assumption stated at handler.go:142.               *)
(***************************************************************************)
EXTENDS Integers, Sequences, FiniteSets

CONSTANTS
  WispIds,        \* identifiers the store can give to wisps
  NoWisp,         \* the empty metadata value where a wisp is expected
  Configs,        \* the gate and trigger configurations a loop may have
  MaxIterations,  \* convergence.max_iterations
  ListsClosed,    \* does Store.Children list closed beads?
  MaxCrashes,     \* bound on controller crashes
  MaxFailures,    \* bound on store calls that return an error
  MaxPurges       \* bound on closed wisps the wisp GC deletes

GateConfigs ==
  [mode : {"manual", "condition", "hybrid"}, condition : BOOLEAN,
   onTimeout : {"iterate", "retry", "manual", "terminate"}, trigger : BOOLEAN]

ASSUME NoWispAssumption == NoWisp \notin WispIds
ASSUME WispIdsAssumption == IsFiniteSet(WispIds)
ASSUME ConfigsAssumption == Configs \subseteq GateConfigs
ASSUME MaxIterationsAssumption == MaxIterations \in Nat \ {0}
ASSUME ListsClosedAssumption == ListsClosed \in BOOLEAN
ASSUME BoundsAssumption ==
  MaxCrashes \in Nat /\ MaxFailures \in Nat /\ MaxPurges \in Nat

VARIABLES
  cfg,       \* the configuration the loop was created with; never changes
  bead,      \* status of the root bead
  meta,      \* convergence.* metadata of the root bead
  wisp,      \* the wisps: iteration in the idempotency key, and status
  index,     \* is the root bead in the adapter's activeIndex?
  reconcileDue, \* convergenceScope.needsStartupReconcile
  pc,        \* next segment of the running handler, "idle" or "down"
  todo,      \* store calls the running handler still has to make
  job,       \* local variables of the running handler
  used,      \* crashes, failures and purges so far
  hist       \* what happened, for the properties only

store == <<bead, meta, wisp>>
vars == <<cfg, bead, meta, wisp, index, reconcileDue, pc, todo, job, used, hist>>

Ids == WispIds \cup {NoWisp}
Live == {"active", "waiting_manual", "waiting_trigger"}
States == Live \cup {"", "creating", "terminated"}
Outcomes == {"pass", "fail", "timeout", "error"}
Reasons == {"approved", "no_convergence", "stopped", "partial_creation"}
Actors == {"controller", "operator", "recovery"}
Waits == {"manual", "hybrid_no_condition", "timeout", "sling_failure"}
Segments ==
  {"down", "idle", "startup", "reconcile", "activePour",
   "populate", "createPour", "rollback", "wispClosed", "specPour", "gate",
   "act", "burn", "opPour", "triggerPour", "stopForce",
   "stopCommit", "return", "error"}

-----------------------------------------------------------------------------
(* Reading the store. *)

Exists(w) == w \in WispIds /\ wisp[w].status \in {"spec", "open", "closed"}
Closed(w) == w \in WispIds /\ wisp[w].status = "closed"
IterOf(w) == IF Exists(w) THEN wisp[w].iter ELSE 0

ChildrenFilteredTwice == {w \in WispIds : Exists(w) /\ ~Closed(w)}

\* convergenceStoreAdapter.Children and FindByIdempotencyKey list the children
\* with beads.ListQuery, which leaves closed beads out unless IncludeClosed.
Children == {w \in WispIds : Exists(w) /\ (ListsClosed \/ ~Closed(w))}
FindByIdempotencyKey(i) == {w \in Children : wisp[w].iter = i}

Lowest(S) == {w \in S : \A u \in S : wisp[u].iter >= wisp[w].iter}

Highest(S) == {w \in S : \A u \in S : wisp[u].iter <= wisp[w].iter}
ClosedChildren == {w \in Children : Closed(w)}
ClosedCount == Cardinality(ClosedChildren)
HighestClosed == Highest(ClosedChildren)
HighestOpen == Highest(Children \ ClosedChildren)

ValidPendingNextWisp(i) ==
  IF /\ Exists(meta.pending_next_wisp)
     /\ ~Closed(meta.pending_next_wisp)
     /\ IterOf(meta.pending_next_wisp) = i
  THEN meta.pending_next_wisp ELSE NoWisp

RecoverCurrentActiveWisp ==
  IF Exists(meta.last_processed_wisp)
  THEN FindByIdempotencyKey(IterOf(meta.last_processed_wisp) + 1)
  ELSE IF HighestOpen # {} THEN HighestOpen ELSE HighestClosed

\* The wisp a handler takes for the active one: w itself, or the recovered one
\* when w was deleted, or none.
CurrentWisp(w) ==
  IF w = NoWisp \/ Exists(w) THEN {w}
  ELSE IF RecoverCurrentActiveWisp # {} THEN RecoverCurrentActiveWisp ELSE {NoWisp}

-----------------------------------------------------------------------------
(* Store calls.  A "set" aborts the handler when it fails, a "try" does not. *)

Call(k, f, v, n) == [k |-> k, f |-> f, v |-> v, n |-> n]
Set(f, v) == Call("set", f, v, 0)
Try(f, v) == Call("try", f, v, 0)
SetIteration(n) == Call("setIteration", "", "", n)
CloseRoot == Call("closeRoot", "", "", 0)
TryCloseRoot == Call("tryCloseRoot", "", "", 0)
CloseWisp(w) == Call("closeWisp", "", w, 0)
DeleteBead(w) == Call("delete", "", w, 0)
ActivateWisp(w) == Call("activate", "", w, 0)
EmitIteration(n, w) == Call("emitIteration", "", w, n)
EmitTerminated(r) == Call("emitTerminated", "", r, 0)

When(b, calls) == IF b THEN calls ELSE <<>>

\* Handler.commit: the writes in order, then the calls before the marker, then
\* the marker unless it is empty.
Commit(writes, preMarker, field, marker) ==
  writes \o preMarker \o When(marker # NoWisp, <<Set(field, marker)>>)

BurnKeepsBead(w) == When(w # NoWisp, <<Try("pending_next_wisp", NoWisp)>>)

BurnSpeculativeWisp(w) ==
  When(w # NoWisp, <<DeleteBead(w), Try("pending_next_wisp", NoWisp)>>)

ClearVerdict(b) ==
  When(b, <<Set("agent_verdict", ""), Set("agent_verdict_wisp", NoWisp)>>)

ClearPending(i) ==
  When(meta.pending_next_wisp # NoWisp /\ ValidPendingNextWisp(i) = NoWisp,
       <<Try("pending_next_wisp", NoWisp)>>)

PersistMarkerFirst(w, o) ==
  <<Set("gate_outcome_wisp", w), Set("gate_outcome", o), Set("gate_detail", o)>>

PersistGateOutcome(w, o) ==
  Commit(<<Set("gate_outcome", o), Set("gate_detail", o)>>, <<>>,
         "gate_outcome_wisp", w)

HoldWithoutState(w, n, reason) ==
  <<EmitIteration(n, w)>>
  \o Commit(<<Set("active_wisp", NoWisp), Set("waiting_reason", reason)>>, <<>>,
            "last_processed_wisp", w)

TransitionToWaitingManual(w, n, reason) ==
  <<EmitIteration(n, w)>>
  \o Commit(<<Set("active_wisp", NoWisp), Set("waiting_reason", reason),
              Set("state", "waiting_manual")>>, <<>>, "last_processed_wisp", w)

AwaitWithoutEvent(w, n, scoped) ==
  ClearVerdict(scoped)
  \o Commit(<<Set("active_wisp", NoWisp), Set("state", "waiting_trigger")>>,
            <<>>, "last_processed_wisp", w)

TransitionToWaitingTrigger(w, n, scoped) ==
  ClearVerdict(scoped) \o <<EmitIteration(n, w)>>
  \o Commit(<<Set("active_wisp", NoWisp), Set("state", "waiting_trigger")>>,
            <<>>, "last_processed_wisp", w)

IterateMarkerFirst(w, n, scoped, next) ==
  ClearVerdict(scoped) \o <<ActivateWisp(next), EmitIteration(n, w)>>
  \o <<Set("last_processed_wisp", w), Set("active_wisp", next),
       Try("pending_next_wisp", NoWisp)>>

Iterate(w, n, scoped, next) ==
  ClearVerdict(scoped) \o <<ActivateWisp(next), EmitIteration(n, w)>>
  \o Commit(<<Set("active_wisp", next)>>, <<>>, "last_processed_wisp", w)
  \o <<Try("pending_next_wisp", NoWisp)>>

TerminateWithOutcome(w, n, reason) ==
  <<EmitIteration(n, w), EmitTerminated(reason)>>
  \o Commit(<<Set("terminal_reason", "pass"), Set("terminal_actor", "controller"),
              Set("state", "terminated")>>,
            <<CloseRoot>>, "last_processed_wisp", w)

Terminate(w, n, reason) ==
  <<EmitIteration(n, w), EmitTerminated(reason)>>
  \o Commit(<<Set("terminal_reason", reason), Set("terminal_actor", "controller"),
              Set("state", "terminated")>>,
            <<CloseRoot>>, "last_processed_wisp", w)

CloseBeforeEvent(reason, events, marker) ==
  Commit(<<Set("terminal_reason", reason), Set("terminal_actor", "operator"),
           Set("waiting_reason", ""), Set("state", "terminated")>>,
         events \o <<CloseRoot, EmitTerminated(reason)>>,
         "last_processed_wisp", marker)

OperatorTerminal(reason, events, marker) ==
  Commit(<<Set("terminal_reason", reason), Set("terminal_actor", "operator"),
           Set("waiting_reason", ""), Set("state", "terminated")>>,
         events \o <<EmitTerminated(reason), CloseRoot>>,
         "last_processed_wisp", marker)

BackfillTerminalActor ==
  When(meta.terminal_actor = "", <<Set("terminal_actor", "recovery")>>)

CompleteWithDefault(last) ==
  BackfillTerminalActor
  \o <<EmitTerminated("no_convergence"), Set("state", "terminated"), CloseRoot>>
  \o When(last # NoWisp, <<Try("last_processed_wisp", last)>>)

CompleteTerminalTransition(last) ==
  BackfillTerminalActor
  \o <<EmitTerminated(meta.terminal_reason),
       Set("state", "terminated"), CloseRoot>>
  \o When(last # NoWisp, <<Try("last_processed_wisp", last)>>)

-----------------------------------------------------------------------------
(* Running a handler. *)

At(segment) == pc = segment /\ todo = <<>>
Run(calls, next) == todo' = calls /\ pc' = next
NoJob == [wisp |-> NoWisp, iter |-> 0, spec |-> NoWisp, pourErr |-> FALSE,
          outcome |-> "error", scoped |-> FALSE, forced |-> FALSE,
          caller |-> "event", onErr |-> "error"]
Start(caller, w, onErr) ==
  job' = [NoJob EXCEPT !.caller = caller, !.wisp = w, !.onErr = onErr]
Environment == <<cfg, index, reconcileDue, used>>

Unused == {w \in WispIds : wisp[w].status = "unused"}

PourWithoutLookup(i, status, w) ==
  /\ w \in Unused
  /\ wisp' = [wisp EXCEPT ![w] = [iter |-> i, status |-> status]]

\* A pour returns the wisp that carries the key when the store lists one, and
\* creates it otherwise.
Pour(i, status, w) ==
  \/ w \in FindByIdempotencyKey(i) /\ UNCHANGED wisp
  \/ /\ FindByIdempotencyKey(i) = {} /\ w \in Unused
     /\ wisp' = [wisp EXCEPT ![w] = [iter |-> i, status |-> status]]

\* A pour fails before it created the wisp, or after.  Where the caller then looks
\* the key up (calls = 2), the lookup has to fail as well for the wisp to be
\* missed.  A store out of identifiers refuses the pour.
PourFails(i, status, calls) ==
  \/ /\ FindByIdempotencyKey(i) = {} /\ Unused = {}
     /\ UNCHANGED <<wisp, used>>
  \/ /\ used.failures < MaxFailures
     /\ used' = [used EXCEPT !.failures = @ + 1]
     /\ UNCHANGED wisp
  \/ /\ used.failures + calls <= MaxFailures
     /\ used' = [used EXCEPT !.failures = @ + calls]
     /\ FindByIdempotencyKey(i) = {}
     /\ \E w \in Unused : Pour(i, status, w)

\* What a store call changes.  The adapter keeps activeIndex in step with the
\* calls that succeed.
Perform(c) ==
  \/ /\ c.k \in {"set", "try"}
     /\ meta' = [meta EXCEPT ![c.f] = c.v]
     /\ UNCHANGED <<bead, wisp, hist>>
  \/ /\ c.k = "setIteration"
     /\ meta' = [meta EXCEPT !.iteration = c.n]
     /\ UNCHANGED <<bead, wisp, hist>>
  \/ /\ c.k \in {"closeRoot", "tryCloseRoot"}
     /\ bead' = "closed"
     /\ UNCHANGED <<meta, wisp, hist>>
  \/ /\ c.k = "closeWisp"
     /\ wisp' = [wisp EXCEPT ![c.v].status = "closed"]
     /\ UNCHANGED <<bead, meta, hist>>
  \/ /\ c.k = "delete"
     /\ wisp' = [wisp EXCEPT ![c.v].status = "gone"]
     /\ UNCHANGED <<bead, meta, hist>>
  \/ /\ c.k = "activate"
     /\ wisp' = [wisp EXCEPT ![c.v].status = IF @ = "spec" THEN "open" ELSE @]
     /\ UNCHANGED <<bead, meta, hist>>
  \/ /\ c.k = "emitIteration"
     /\ hist' = [hist EXCEPT !.iterations = @ \cup {<<c.n, c.v>>}]
     /\ UNCHANGED <<bead, meta, wisp>>
  \/ /\ c.k = "emitTerminated"
     /\ hist' = [hist EXCEPT !.terminations = @ \cup {c.v}]
     /\ UNCHANGED <<bead, meta, wisp>>

BestEffort(c) == c.k \in {"try", "tryCloseRoot"}
Emits(c) == c.k \in {"emitIteration", "emitTerminated"}

StoreCall ==
  /\ todo # <<>>
  /\ Perform(Head(todo))
  /\ todo' = Tail(todo)
  /\ index' = (IF Head(todo).f = "state" THEN Head(todo).v \in Live
               ELSE index /\ Head(todo).k \notin {"closeRoot", "tryCloseRoot"})
  /\ UNCHANGED <<cfg, reconcileDue, pc, job, used>>

\* The call returns an error, whether or not the store had applied it.
StoreCallFails ==
  /\ todo # <<>> /\ ~Emits(Head(todo))
  /\ used.failures < MaxFailures
  /\ used' = [used EXCEPT !.failures = @ + 1]
  /\ Perform(Head(todo)) \/ UNCHANGED <<bead, meta, wisp, hist>>
  /\ IF BestEffort(Head(todo))
     THEN todo' = Tail(todo) /\ UNCHANGED pc
     ELSE Run(<<>>, job.onErr)
  /\ UNCHANGED <<cfg, index, reconcileDue, job>>

\* The handler returns to the event loop, to the startup reconciliation, or to
\* the StopHandler that is draining a completed iteration.
AfterReturn == [event |-> "idle", startup |-> "populate", drain |-> "stopForce"]
AfterError == [event |-> "idle", startup |-> "populate", drain |-> "idle"]

HandlerReturns ==
  /\ pc \in {"return", "error"} /\ todo = <<>>
  /\ pc' = IF pc = "return" THEN AfterReturn[job.caller] ELSE AfterError[job.caller]
  /\ job' = IF pc' = "stopForce" THEN [NoJob EXCEPT !.wisp = meta.active_wisp] ELSE NoJob
  /\ UNCHANGED <<store, todo, hist, Environment>>

-----------------------------------------------------------------------------
(* CreateHandler. *)

CreateHandler ==
  /\ At("idle") /\ bead = "absent"
  /\ bead' = "in_progress"
  /\ Start("event", NoWisp, "rollback")
  /\ IF cfg.trigger
     THEN Run(<<Set("state", "creating"), SetIteration(0),
                Set("state", "waiting_trigger")>>, "return")
     ELSE Run(<<Set("state", "creating"), Set("state", "active")>>, "createPour")
  /\ hist' = [hist EXCEPT !.released = IF cfg.trigger THEN @ ELSE @ \cup {1}]
  /\ UNCHANGED <<meta, wisp, Environment>>

CreatePour ==
  /\ At("createPour")
  /\ \/ \E w \in WispIds :
          /\ Pour(1, "open", w)
          /\ Run(<<Set("active_wisp", w), SetIteration(1)>>, "return")
          /\ UNCHANGED used
     \/ PourFails(1, "open", 1) /\ Run(<<>>, "rollback")
  /\ UNCHANGED <<cfg, bead, meta, index, reconcileDue, job, hist>>

CreateRollback ==
  /\ At("rollback")
  /\ Run(<<Try("state", "terminated"), TryCloseRoot>>, "return")
  /\ UNCHANGED <<store, job, hist, Environment>>

-----------------------------------------------------------------------------
(* HandleWispClosed. *)

HybridNeedsManual == cfg.mode = "hybrid" /\ ~cfg.condition
NeedsManualWithoutGate == cfg.mode = "manual" \/ HybridNeedsManual
MissingCondition == cfg.mode = "condition" /\ ~cfg.condition
ReplaysGate(w) == meta.gate_outcome_wisp = w

\* Steps 1 to 3: the guard, the dedup check, the iteration count, the
\* configuration.  What the guard does on a terminated loop is not modelled: no
\* caller gets there (DefensiveBranchesDead).
HandleWispClosed ==
  LET w == job.wisp
      n == IterOf(w)
      pending == ValidPendingNextWisp(n + 1)
      derived == When(ClosedCount # meta.iteration, <<SetIteration(ClosedCount)>>)
  IN /\ At("wispClosed") /\ meta.state # "terminated"
     /\ \/ /\ n <= IterOf(meta.last_processed_wisp)
           /\ Run(<<>>, "return")
           /\ UNCHANGED job
        \/ /\ n > IterOf(meta.last_processed_wisp)
           /\ MissingCondition /\ ~ReplaysGate(w)
           /\ Run(derived \o ClearPending(n + 1) \o BurnSpeculativeWisp(pending), "error")
           /\ UNCHANGED job
        \/ /\ n > IterOf(meta.last_processed_wisp)
           /\ ReplaysGate(w) \/ ~MissingCondition
           /\ Run(derived \o ClearPending(n + 1),
                  IF /\ n < MaxIterations /\ pending = NoWisp
                     /\ ~NeedsManualWithoutGate /\ ~cfg.trigger
                  THEN "specPour" ELSE "gate")
           /\ job' = [job EXCEPT !.iter = n, !.spec = pending,
                                 !.scoped = meta.agent_verdict_wisp = w]
     /\ UNCHANGED <<store, hist, Environment>>

\* Step 3b: the speculative pour.
SpeculativePour ==
  /\ At("specPour")
  /\ \/ \E w \in WispIds :
          /\ Pour(job.iter + 1, "spec", w)
          /\ job' = [job EXCEPT !.spec = w, !.onErr = "burn"]
          /\ Run(<<Set("pending_next_wisp", w)>>, "gate")
          /\ UNCHANGED used
     \/ /\ PourFails(job.iter + 1, "spec", 2)
        /\ job' = [job EXCEPT !.pourErr = TRUE]
        /\ Run(<<>>, "gate")
  /\ UNCHANGED <<cfg, bead, meta, index, reconcileDue, hist>>

\* Setting pending_next_wisp or persisting the outcome failed.
BurnAfterError ==
  /\ At("burn")
  /\ Run(BurnSpeculativeWisp(job.spec), "error")
  /\ job' = [job EXCEPT !.onErr = "error"]
  /\ UNCHANGED <<store, hist, Environment>>

\* Steps 4 and 5: replay the persisted outcome, hold for the operator, or run
\* the condition and persist what it returned.
EvaluateGate ==
  /\ At("gate")
  /\ \/ /\ ReplaysGate(job.wisp)
        /\ job' = [job EXCEPT !.outcome = meta.gate_outcome]
        /\ Run(<<>>, "act")
        /\ UNCHANGED hist
     \/ /\ ~ReplaysGate(job.wisp) /\ NeedsManualWithoutGate
        /\ job' = [job EXCEPT !.onErr = "error"]
        /\ hist' = [hist EXCEPT !.decided = @ \cup {job.wisp}]
        /\ Run(BurnSpeculativeWisp(job.spec)
               \o TransitionToWaitingManual(job.wisp, job.iter,
                    IF cfg.mode = "manual" THEN "manual" ELSE "hybrid_no_condition"),
               "return")
     \/ /\ ~ReplaysGate(job.wisp) /\ ~NeedsManualWithoutGate
        /\ \E o \in Outcomes :
             /\ job' = [job EXCEPT !.outcome = o, !.onErr = "burn"]
             /\ hist' = [hist EXCEPT !.returned[job.wisp] = @ \cup {o}]
             /\ Run(PersistGateOutcome(job.wisp, o), "act")
  /\ UNCHANGED <<store, Environment>>

\* Steps 7 to 9: what follows from the outcome.
TimeoutHolds == job.outcome = "timeout" /\ cfg.onTimeout = "manual"
GateApproves == job.outcome = "pass"

GivesUpOneLate ==
  /\ job.outcome # "pass" /\ ~TimeoutHolds
  /\ (job.outcome = "timeout" /\ cfg.onTimeout = "terminate") \/ job.iter > MaxIterations

GateGivesUp ==
  /\ job.outcome # "pass" /\ ~TimeoutHolds
  /\ (job.outcome = "timeout" /\ cfg.onTimeout = "terminate") \/ job.iter >= MaxIterations

ActOnOutcome ==
  /\ At("act")
  /\ \/ /\ TimeoutHolds
        /\ Run(BurnSpeculativeWisp(job.spec)
               \o TransitionToWaitingManual(job.wisp, job.iter, "timeout"), "return")
     \/ /\ GateApproves
        /\ Run(BurnSpeculativeWisp(job.spec)
               \o Terminate(job.wisp, job.iter, "approved"), "return")
     \/ /\ GateGivesUp
        /\ Run(BurnSpeculativeWisp(job.spec)
               \o Terminate(job.wisp, job.iter, "no_convergence"), "return")
     \/ /\ ~TimeoutHolds /\ ~GateApproves /\ ~GateGivesUp
        /\ \/ /\ job.pourErr
              /\ Run(TransitionToWaitingManual(job.wisp, job.iter, "sling_failure"), "return")
           \/ /\ ~job.pourErr /\ cfg.trigger
              /\ Run(TransitionToWaitingTrigger(job.wisp, job.iter, job.scoped), "return")
           \/ /\ ~job.pourErr /\ ~cfg.trigger
              /\ Run(Iterate(job.wisp, job.iter, job.scoped, job.spec), "return")
  /\ job' = [job EXCEPT !.onErr = "error"]
  /\ hist' = [hist EXCEPT
       !.decided = @ \cup {job.wisp},
       !.acted[job.wisp] = @ \cup {job.outcome},
       !.released = IF TimeoutHolds \/ GateApproves \/ GateGivesUp \/ job.pourErr \/ cfg.trigger
                    THEN @ ELSE @ \cup {job.iter + 1}]
  /\ UNCHANGED <<store, Environment>>

-----------------------------------------------------------------------------
(* The operator's requests. *)

ApproveAnyState ==
  /\ At("idle") /\ meta.state # ""
  /\ Start("event", NoWisp, "error")
  /\ Run(OperatorTerminal("approved", <<>>, meta.last_processed_wisp), "return")
  /\ UNCHANGED <<store, hist, Environment>>

ApproveHandler ==
  /\ At("idle") /\ meta.state = "waiting_manual"
  /\ Start("event", NoWisp, "error")
  /\ Run(OperatorTerminal("approved", <<>>, meta.last_processed_wisp), "return")
  /\ UNCHANGED <<store, hist, Environment>>

IterateAnyState ==
  /\ At("idle") /\ meta.state # ""
  /\ ClosedCount < MaxIterations
  /\ job' = [NoJob EXCEPT !.iter = ClosedCount + 1]
  /\ Run(<<>>, "opPour")
  /\ hist' = [hist EXCEPT !.released = @ \cup {ClosedCount + 1}]
  /\ UNCHANGED <<store, Environment>>

IterateHandler ==
  /\ At("idle") /\ meta.state = "waiting_manual"
  /\ ClosedCount < MaxIterations
  /\ job' = [NoJob EXCEPT !.iter = ClosedCount + 1,
       !.scoped = /\ meta.last_processed_wisp # NoWisp
                  /\ meta.agent_verdict_wisp = meta.last_processed_wisp]
  /\ Run(<<>>, "opPour")
  /\ hist' = [hist EXCEPT !.released = @ \cup {ClosedCount + 1}]
  /\ UNCHANGED <<store, Environment>>

IteratePour ==
  /\ At("opPour")
  /\ \/ \E w \in WispIds :
          /\ Pour(job.iter, "open", w)
          /\ Run(ClearVerdict(job.scoped)
                 \o <<Set("waiting_reason", ""), Set("state", "active"),
                      Set("active_wisp", w)>>, "return")
          /\ UNCHANGED used
     \/ PourFails(job.iter, "open", 2) /\ Run(<<>>, "error")
  /\ UNCHANGED <<cfg, bead, meta, index, reconcileDue, job, hist>>

\* Steps 1 and 2: an iteration that is already complete is processed first.
StopHandler ==
  /\ At("idle") /\ meta.state \in Live
  /\ \E w \in CurrentWisp(meta.active_wisp) :
       IF Closed(w)
       THEN Start("drain", w, "error") /\ Run(<<>>, "wispClosed")
       ELSE Start("event", w, "error") /\ Run(<<>>, "stopForce")
  /\ UNCHANGED <<store, hist, Environment>>

\* Step 3.
StopForceClose ==
  /\ At("stopForce")
  /\ \/ /\ meta.state = "terminated"
        /\ Run(<<>>, "return")
        /\ UNCHANGED <<job, hist>>
     \/ /\ meta.state # "terminated"
        /\ \E w \in CurrentWisp(job.wisp) :
             LET force == w # NoWisp /\ ~Closed(w)
             IN /\ job' = [job EXCEPT !.wisp = w, !.forced = force]
                /\ hist' = [hist EXCEPT !.decided = IF force THEN @ \cup {w} ELSE @]
                /\ Run(When(force, <<CloseWisp(w)>>), "stopCommit")
  /\ UNCHANGED <<store, Environment>>

\* Steps 4 to 10.
StopCommit ==
  /\ At("stopCommit")
  /\ Run(ClearVerdict(TRUE)
         \o OperatorTerminal("stopped",
              When(job.forced, <<EmitIteration(ClosedCount, job.wisp)>>),
              IF job.forced THEN job.wisp ELSE meta.last_processed_wisp), "return")
  /\ UNCHANGED <<store, job, hist, Environment>>

-----------------------------------------------------------------------------
(* HandleTrigger.  A condition that does not pass changes nothing. *)

HandleTrigger ==
  /\ At("idle") /\ ~reconcileDue /\ index
  /\ meta.state = "waiting_trigger"
  /\ ClosedCount + 1 <= MaxIterations
  /\ job' = [NoJob EXCEPT !.iter = ClosedCount + 1]
  /\ Run(<<>>, "triggerPour")
  /\ hist' = [hist EXCEPT !.released = @ \cup {ClosedCount + 1}]
  /\ UNCHANGED <<store, Environment>>

AdvanceFromTrigger ==
  /\ At("triggerPour")
  /\ \/ \E w \in WispIds :
          /\ Pour(job.iter, "open", w)
          /\ Run(<<ActivateWisp(w), SetIteration(job.iter),
                   Set("active_wisp", w), Set("state", "active")>>, "return")
          /\ UNCHANGED used
     \/ PourFails(job.iter, "open", 2) /\ Run(<<>>, "error")
  /\ UNCHANGED <<cfg, bead, meta, index, reconcileDue, job, hist>>

-----------------------------------------------------------------------------
(* The reconciler. *)

Reconciling(state) == At("reconcile") /\ meta.state = state

\* No configuration is written before state=creating, so there is no formula
\* to pour and no wisp to adopt: the path ends in an error.
ReconcileMissingState ==
  /\ Reconciling("")
  /\ FindByIdempotencyKey(1) = {}
  /\ Run(<<>>, "error")
  /\ UNCHANGED <<store, job, hist, Environment>>

ReconcileCreating ==
  /\ Reconciling("creating")
  /\ Run(<<Set("terminal_reason", "partial_creation"), Set("terminal_actor", "recovery"),
           Set("state", "terminated"), CloseRoot>>, "return")
  /\ UNCHANGED <<store, job, hist, Environment>>

ReconcileLeavesOpen ==
  /\ Reconciling("terminated")
  /\ Run(BackfillTerminalActor, "return")
  /\ UNCHANGED <<store, job, hist, Environment>>

ReconcileTerminatedNotClosed ==
  /\ Reconciling("terminated")
  /\ Run(BackfillTerminalActor
         \o <<EmitTerminated(IF meta.terminal_reason = "" THEN "no_convergence"
                             ELSE meta.terminal_reason), CloseRoot>>, "return")
  /\ UNCHANGED <<store, job, hist, Environment>>

\* The terminal transition of a loop that has a terminal_reason is completed,
\* whatever the state.
ReconcileTerminalReason ==
  /\ At("reconcile") /\ meta.state \in Live /\ meta.terminal_reason # ""
  /\ \E last \in IF HighestClosed = {} THEN {NoWisp} ELSE HighestClosed :
       Run(CompleteTerminalTransition(last), "return")
  /\ UNCHANGED <<store, job, hist, Environment>>

ReconcileWaitingManual ==
  /\ Reconciling("waiting_manual") /\ meta.terminal_reason = ""
  /\ \/ /\ meta.waiting_reason # ""
        /\ \E w \in IF HighestClosed = {} THEN {meta.last_processed_wisp} ELSE HighestClosed :
             Run(When(w # meta.last_processed_wisp, <<Set("last_processed_wisp", w)>>),
                 "return")
     \/ /\ meta.waiting_reason = ""
        /\ Run(When(HighestClosed # {}, <<Set("waiting_reason", "manual")>>), "return")
  /\ UNCHANGED <<store, job, hist, Environment>>

ReconcileWaitingTrigger ==
  /\ Reconciling("waiting_trigger") /\ meta.terminal_reason = ""
  /\ Run(<<>>, "return")
  /\ UNCHANGED <<store, job, hist, Environment>>

ReconcileActive ==
  /\ Reconciling("active") /\ meta.terminal_reason = ""
  /\ \E w \in CurrentWisp(meta.active_wisp) :
       LET recovered == When(w # meta.active_wisp, <<Set("active_wisp", w)>>)
           next == ClosedCount + 1
       IN \/ /\ w # NoWisp /\ (~Closed(w) \/ w = meta.last_processed_wisp)
             /\ Run(recovered, "return")
             /\ UNCHANGED job
          \/ /\ Closed(w) /\ w # meta.last_processed_wisp
             /\ job' = [job EXCEPT !.wisp = w]
             /\ Run(recovered, "wispClosed")
          \/ /\ w = NoWisp
             /\ job' = [job EXCEPT !.iter = next, !.spec = ValidPendingNextWisp(next)]
             /\ Run(ClearPending(next), "activePour")
  /\ UNCHANGED <<store, hist, Environment>>

ReconcilePour ==
  /\ At("activePour")
  /\ \/ \E w \in WispIds :
          /\ IF job.spec # NoWisp THEN w = job.spec /\ UNCHANGED wisp
             ELSE Pour(job.iter, "open", w)
          /\ Run(<<ActivateWisp(w), Set("active_wisp", w),
                   Try("pending_next_wisp", NoWisp)>>, "return")
          /\ UNCHANGED used
     \/ /\ job.spec = NoWisp
        /\ PourFails(job.iter, "open", 1) /\ Run(<<>>, "error")
  /\ UNCHANGED <<cfg, bead, meta, index, reconcileDue, job, hist>>

-----------------------------------------------------------------------------
(* The controller around the handlers. *)

\* convergenceTickScope: a loop whose active wisp is closed or gone.
TickActive ==
  /\ At("idle") /\ ~reconcileDue /\ index
  /\ meta.state = "active" /\ meta.active_wisp # NoWisp
  /\ Start("event", meta.active_wisp, "error")
  /\ \/ Closed(meta.active_wisp) /\ Run(<<>>, "wispClosed")
     \/ ~Exists(meta.active_wisp) /\ Run(<<>>, "reconcile")
  /\ UNCHANGED <<store, hist, Environment>>

\* convergenceStartupReconcileScope, on startup or on the tick that finds it due.
StartupReconcile ==
  /\ At("startup") \/ (At("idle") /\ reconcileDue)
  /\ \/ /\ Run(<<>>, IF bead = "in_progress" THEN "reconcile" ELSE "populate")
        /\ Start("startup", NoWisp, "error")
        /\ UNCHANGED <<used, index, reconcileDue>>
     \/ /\ used.failures < MaxFailures
        /\ used' = [used EXCEPT !.failures = @ + 1]
        /\ Run(<<>>, "idle")
        /\ reconcileDue' = TRUE /\ index' = FALSE
        /\ UNCHANGED job
  /\ UNCHANGED <<cfg, store, hist>>

PopulateIndex ==
  /\ At("populate")
  /\ \/ /\ index' = (bead = "in_progress" /\ meta.state \in Live)
        /\ reconcileDue' = FALSE
        /\ UNCHANGED used
     \/ /\ used.failures < MaxFailures
        /\ used' = [used EXCEPT !.failures = @ + 1]
        /\ reconcileDue' = TRUE /\ index' = FALSE
  /\ Run(<<>>, "idle")
  /\ job' = NoJob
  /\ UNCHANGED <<cfg, store, hist>>

\* rebuildConvergenceHandler.
Reload ==
  /\ At("idle")
  /\ reconcileDue' = TRUE /\ index' = FALSE
  /\ UNCHANGED <<cfg, store, pc, todo, job, used, hist>>

Crash ==
  /\ pc # "down"
  /\ used.crashes < MaxCrashes
  /\ used' = [used EXCEPT !.crashes = @ + 1]
  /\ Run(<<>>, "down")
  /\ job' = NoJob
  /\ index' = FALSE /\ reconcileDue' = FALSE
  /\ UNCHANGED <<cfg, store, hist>>

Restart ==
  /\ At("down")
  /\ Run(<<>>, "startup")
  /\ UNCHANGED <<store, job, hist, Environment>>

\* wispGC.runGC, between two handlers: a closed wisp past its TTL is deleted.
PurgeWisp(w) ==
  /\ At("idle") /\ Closed(w)
  /\ used.purges < MaxPurges
  /\ used' = [used EXCEPT !.purges = @ + 1]
  /\ wisp' = [wisp EXCEPT ![w].status = "purged"]
  /\ UNCHANGED <<cfg, bead, meta, index, reconcileDue, pc, todo, job, hist>>

-----------------------------------------------------------------------------
(* The agents, which the controller does not schedule. *)

AgentVerdict(w) ==
  /\ wisp[w].status = "open" /\ meta.agent_verdict_wisp # w
  /\ meta' = [meta EXCEPT !.agent_verdict = "given", !.agent_verdict_wisp = w]
  /\ UNCHANGED <<cfg, bead, wisp, index, reconcileDue, pc, todo, job, used, hist>>

AgentCloses(w) ==
  /\ wisp[w].status = "open"
  /\ wisp' = [wisp EXCEPT ![w].status = "closed"]
  /\ UNCHANGED <<cfg, bead, meta, index, reconcileDue, pc, todo, job, used, hist>>

-----------------------------------------------------------------------------

Init ==
  /\ cfg \in Configs
  /\ bead = "absent"
  /\ meta = [state |-> "", iteration |-> 0, active_wisp |-> NoWisp,
             last_processed_wisp |-> NoWisp, pending_next_wisp |-> NoWisp,
             agent_verdict |-> "", agent_verdict_wisp |-> NoWisp,
             gate_outcome |-> "", gate_detail |-> "", gate_outcome_wisp |-> NoWisp,
             terminal_reason |-> "", terminal_actor |-> "", waiting_reason |-> ""]
  /\ wisp = [w \in WispIds |-> [iter |-> 0, status |-> "unused"]]
  /\ index = FALSE /\ reconcileDue = FALSE
  /\ pc = "idle" /\ todo = <<>> /\ job = NoJob
  /\ used = [crashes |-> 0, failures |-> 0, purges |-> 0]
  /\ hist = [released |-> {}, decided |-> {}, acted |-> [w \in WispIds |-> {}],
             returned |-> [w \in WispIds |-> {}], iterations |-> {}, terminations |-> {}]

\* The steps of a handler that is running, and those that start one.
HandlerStep ==
  \/ StoreCall \/ HandlerReturns
  \/ CreatePour \/ CreateRollback
  \/ HandleWispClosed \/ SpeculativePour \/ BurnAfterError \/ EvaluateGate \/ ActOnOutcome
  \/ IteratePour \/ StopForceClose \/ StopCommit \/ AdvanceFromTrigger
  \/ ReconcileMissingState \/ ReconcileCreating \/ ReconcileTerminatedNotClosed
  \/ ReconcileTerminalReason \/ ReconcileWaitingManual \/ ReconcileWaitingTrigger
  \/ ReconcileActive \/ ReconcilePour \/ PopulateIndex
Tick == TickActive \/ HandleTrigger \/ StartupReconcile
Request == CreateHandler \/ ApproveHandler \/ IterateHandler \/ StopHandler

Next ==
  \/ HandlerStep \/ Tick \/ Request
  \/ StoreCallFails \/ Crash \/ Restart \/ Reload
  \/ \E w \in WispIds : PurgeWisp(w) \/ AgentVerdict(w) \/ AgentCloses(w)

Spec == Init /\ [][Next]_vars

\* The event loop keeps running handlers and ticks, a supervisor restarts a
\* controller that died, and an agent finishes the work it was given.  Nothing
\* says that a trigger condition ever passes or that an operator ever answers.
Fairness ==
  /\ WF_vars(HandlerStep \/ TickActive \/ StartupReconcile)
  /\ WF_vars(Restart)
  /\ \A w \in WispIds : WF_vars(AgentCloses(w))

FairSpec == Spec /\ Fairness

-----------------------------------------------------------------------------
(* Properties. *)

Fields ==
  {"state", "active_wisp", "last_processed_wisp", "pending_next_wisp", "agent_verdict",
   "agent_verdict_wisp", "gate_outcome", "gate_detail", "gate_outcome_wisp",
   "terminal_reason", "terminal_actor", "waiting_reason"}

\* The values the handlers write to each metadata field but the iteration count.
FieldValues(f) ==
  CASE f = "state" -> States \ {""}
    [] f \in {"active_wisp", "last_processed_wisp", "pending_next_wisp",
              "agent_verdict_wisp"} -> Ids
    [] f = "gate_outcome_wisp" -> WispIds
    [] f = "agent_verdict" -> {""}
    [] f \in {"gate_outcome", "gate_detail"} -> Outcomes
    [] f = "terminal_reason" -> Reasons
    [] f = "terminal_actor" -> Actors
    [] f = "waiting_reason" -> Waits \cup {""}

\* The store calls the handlers make.
Calls ==
  {c \in [k : {"set", "try", "setIteration", "closeRoot", "tryCloseRoot", "closeWisp",
               "delete", "activate", "emitIteration", "emitTerminated"},
          f : Fields \cup {""},
          v : Ids \cup States \cup Outcomes \cup Reasons \cup Actors \cup Waits,
          n : Nat] :
     /\ c.k \in {"set", "try"} => c.f \in Fields /\ c.v \in FieldValues(c.f)
     /\ c.k \notin {"set", "try"} => c.f = ""
     /\ c.k = "try" => c.f \in {"state", "pending_next_wisp", "last_processed_wisp"}
     /\ c.k \in {"closeWisp", "delete", "activate", "emitIteration"} => c.v \in WispIds
     /\ c.k = "emitTerminated" => c.v \in Reasons}

MetaRecords ==
  [state : States, iteration : Nat, active_wisp : Ids,
   last_processed_wisp : Ids, pending_next_wisp : Ids,
   agent_verdict : {"", "given"}, agent_verdict_wisp : Ids,
   gate_outcome : Outcomes \cup {""}, gate_detail : Outcomes \cup {""},
   gate_outcome_wisp : Ids, terminal_reason : Reasons \cup {""},
   terminal_actor : Actors \cup {""}, waiting_reason : Waits \cup {""}]
WispRecords ==
  [iter : Nat, status : {"unused", "spec", "open", "closed", "gone", "purged"}]
JobRecords ==
  [wisp : Ids, iter : Nat, spec : Ids, pourErr : BOOLEAN, outcome : Outcomes,
   scoped : BOOLEAN, forced : BOOLEAN, caller : {"event", "startup", "drain"},
   onErr : {"error", "burn", "rollback"}]
HistRecords ==
  [released : SUBSET Nat, decided : SUBSET WispIds, acted : [WispIds -> SUBSET Outcomes],
   returned : [WispIds -> SUBSET Outcomes], iterations : SUBSET (Nat \X WispIds),
   terminations : SUBSET Reasons]

\* Every variable holds a value the code can give it; in particular a store
\* call only ever writes a metadata field with a value of that field.
TypeOK ==
  /\ cfg \in Configs
  /\ bead \in {"absent", "in_progress", "closed"}
  /\ meta \in MetaRecords
  /\ wisp \in [WispIds -> WispRecords]
  /\ index \in BOOLEAN /\ reconcileDue \in BOOLEAN
  /\ pc \in Segments
  /\ todo \in Seq(Calls)
  /\ job \in JobRecords
  /\ used \in [crashes : Nat, failures : Nat, purges : Nat]
  /\ hist \in HistRecords

\* A loop runs an iteration only when something decided that it may: creation
\* for the first, and for each later one a gate that did not pass, an operator
\* or a trigger.  Recovery never starts an iteration of its own.
NoUnreleasedIteration ==
  Exists(meta.active_wisp) => IterOf(meta.active_wisp) \in hist.released

\* max_iterations bounds the loop: agents are given at most that many wisps.
IterationBudget ==
  Cardinality({w \in WispIds : wisp[w].status \in {"open", "closed", "purged"}})
    <= MaxIterations

\* An iteration that completed was decided on (by its gate, by a hold for the
\* operator, or by a forced stop) before a later iteration is the active one.
NoSkippedIteration ==
  \A w \in WispIds :
    Closed(w) /\ IterOf(w) < IterOf(meta.active_wisp) => w \in hist.decided

\* However often HandleWispClosed is replayed for a wisp, it acts on one gate
\* outcome, and one that the gate returned for that wisp.
GateDecidedOnce ==
  \A w \in WispIds :
    /\ \A o, p \in hist.acted[w] : o = p
    /\ hist.acted[w] \subseteq hist.returned[w]

\* All the Terminated events of a loop (they share one event ID) give the same
\* reason, and that is the reason recorded on the root once it is terminated,
\* if one is: the rollback of a failed creation records none.
TerminatedEventsAgree ==
  /\ \A r, s \in hist.terminations : r = s
  /\ meta.state = "terminated" /\ meta.terminal_reason # ""
       => hist.terminations \subseteq {meta.terminal_reason}

\* The Terminated event is TierCritical: a root that is closed, other than one
\* whose creation was abandoned, has emitted it.
TerminatedDelivered ==
  bead = "closed" /\ meta.terminal_reason \notin {"", "partial_creation"}
    => hist.terminations # {}

\* The Iteration event is TierCritical: a wisp the dedup marker names has had its
\* event, with its own iteration number, before the marker was written.
IterationDelivered ==
  LET w == meta.last_processed_wisp
  IN Exists(w) => <<IterOf(w), w>> \in hist.iterations

\* Two wisps of a loop are never open to agents at the same time.
OneOpenWisp ==
  \A u, w \in WispIds :
    wisp[u].status = "open" /\ wisp[w].status = "open" => u = w

\* One wisp per idempotency key.
UniqueIdempotencyKeys ==
  \A u, w \in WispIds :
    Exists(u) /\ Exists(w) /\ wisp[u].iter = wisp[w].iter => u = w

\* A closed root has no wisp left that is open or waiting to be activated.
NoOrphanedWork ==
  bead = "closed" /\ pc = "idle" => \A w \in WispIds : Exists(w) => Closed(w)

\* The two branches the code calls unreachable are: HandleWispClosed is never
\* entered on a terminated loop, and iterate always has a speculative wisp.
DefensiveBranchesDead ==
  /\ pc = "wispClosed" /\ todo = <<>> => meta.state # "terminated"
  /\ At("act") /\ job.spec = NoWisp
       => \/ TimeoutHolds \/ GateApproves \/ GateGivesUp
          \/ job.pourErr \/ cfg.trigger

\* The loop goes through the states of LoopLifecycle and no others, whatever
\* crashes and however often the reconciler repairs it.
Lifecycle ==
  INSTANCE LoopLifecycle WITH triggered <- cfg.trigger, state <- meta.state, root <- bead
RefinesLifecycle == Lifecycle!LoopSpec

\* A terminated loop stays terminated, with the same reason, and its root is
\* never reopened.
TerminationIsFinal ==
  [][/\ meta.state = "terminated" => /\ meta'.state = "terminated"
                                     /\ meta'.terminal_reason = meta.terminal_reason
     /\ bead = "closed" => bead' = "closed"]_vars

\* The dedup marker never goes back to an earlier iteration.
MarkerMonotone ==
  [][IterOf(meta.last_processed_wisp)' >= IterOf(meta.last_processed_wisp)]_vars

\* The controller never erases the verdict an agent gave for a wisp that is
\* still open.
VerdictKept ==
  [][\A w \in WispIds :
       /\ wisp[w].status = "open" /\ meta.agent_verdict_wisp = w
       /\ meta.agent_verdict = "given" /\ wisp'[w].status = "open"
       => meta'.agent_verdict = "given"]_vars

\* The closed wisp of an active loop is always processed: the loop moves on to
\* another wisp, to a wait, or to its end.
ClosedWispProcessed ==
  \A w \in WispIds :
    meta.state = "active" /\ meta.active_wisp = w /\ Closed(w)
      ~> meta.active_wisp # w \/ meta.state = "terminated"

\* A terminated loop always gets its root closed.
TerminatedRootCloses ==
  meta.state = "terminated" ~> bead = "closed"

=============================================================================
