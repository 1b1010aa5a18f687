------------------------- MODULE ConvergenceProofs -------------------------
(***************************************************************************)
(* Proofs about Convergence, for every set of wisps, every configuration,  *)
(* every iteration budget and any number of crashes, failures and purges:  *)
(* type correctness, that the branches the code calls unreachable are, and *)
(* that termination is final.  The inductive invariant IInv says which     *)
(* store calls can be left in todo, and what the handler's local variables *)
(* hold, in each segment.                                                  *)
(***************************************************************************)
EXTENDS Convergence, FiniteSetTheorems, SequenceTheorems, TLAPS

\* The call that ends the loop, and the calls grouped by what they do to a loop
\* that has ended: those that leave its state and reason alone, those that can
\* come before the end, and those that are harmless after it.
Ends(c) == c.f = "state" /\ c.v = "terminated"
Ordinary == {c \in Calls : c.f # "gate_outcome_wisp"}
Quiet == {c \in Ordinary : c.f \notin {"state", "terminal_reason"}}
Opening == {c \in Calls : ~Ends(c)}
Before == Ordinary \cap Opening
Ended == {c \in Calls : c.f # "terminal_reason" /\ (c.f = "state" => c.v = "terminated")}
GateCalls == {c \in Calls : c.f \in {"gate_outcome", "gate_detail", "gate_outcome_wisp"}}

EndsOnce(calls) ==
  \A i, j \in 1..Len(calls) : i < j /\ Ends(calls[i]) => calls[j] \in Quiet

Closing(calls) == calls \in Seq(Ordinary) /\ EndsOnce(calls)

\* The segments that still decide something about a loop that has not ended.
Working ==
  {"createPour", "wispClosed", "specPour", "gate", "act", "opPour", "triggerPour",
   "activePour", "stopCommit"}

\* gate_outcome_wisp names a wisp only when gate_outcome holds its outcome.
GateRecorded ==
  /\ meta.gate_outcome = "" \/ NeedsManualWithoutGate => meta.gate_outcome_wisp = NoWisp
  /\ pc # "act" => todo \in Seq(Ordinary)
  /\ pc = "act" =>
       /\ ~NeedsManualWithoutGate /\ todo \in Seq(GateCalls)
       /\ todo # <<>> /\ meta.gate_outcome = "" => Head(todo).f = "gate_outcome"

\* What HandleWispClosed and StopHandler know of their wisp and of the next one.
LocalsOK ==
  /\ pc \in {"wispClosed", "specPour", "gate", "act"} => job.wisp \in WispIds
  /\ pc = "stopCommit" /\ job.forced => job.wisp \in WispIds
  /\ pc \in {"gate", "act"} /\ job.iter < MaxIterations
       /\ ~NeedsManualWithoutGate /\ ~cfg.trigger
       => job.spec \in WispIds \/ job.pourErr

\* The writes left of a handler never reopen a loop that has ended.
EndingOK ==
  /\ pc \in Working => meta.state # "terminated"
  /\ pc # "return" => todo \in Seq(Opening)
  /\ EndsOnce(todo)
  /\ meta.state = "terminated" => todo \in Seq(Ended)

\* Nothing happens to a loop before CreateHandler opens its root.
Uncreated ==
  bead = "absent" =>
    meta.state = "" /\ todo = <<>> /\ pc \in {"idle", "down", "startup", "populate"}

IInv == TypeOK /\ GateRecorded /\ LocalsOK /\ EndingOK

-----------------------------------------------------------------------------
(* Sequences of calls. *)

\* Calls that never end the loop, followed by a run that ends it at most once, end
\* it at most once; so does such a run followed by calls that leave the end alone.
LEMMA OpeningThen ==
  ASSUME NEW s \in Seq(Opening), NEW t \in Seq(Calls), EndsOnce(t)
  PROVE  EndsOnce(s \o t)
<1> SUFFICES ASSUME NEW i \in 1..Len(s \o t), NEW j \in 1..Len(s \o t), i < j,
                    Ends((s \o t)[i])
             PROVE  (s \o t)[j] \in Quiet
  BY DEF EndsOnce
<1>1. i > Len(s)
  <2>1. i <= Len(s) => (s \o t)[i] = s[i] /\ s[i] \in Opening
    OBVIOUS
  <2> QED BY <2>1 DEF Opening
<1>2. (s \o t)[i] = t[i - Len(s)] /\ (s \o t)[j] = t[j - Len(s)]
  BY <1>1
<1> QED BY <1>1, <1>2 DEF EndsOnce

LEMMA ThenQuiet ==
  ASSUME NEW s \in Seq(Calls), EndsOnce(s), NEW t \in Seq(Quiet)
  PROVE  EndsOnce(s \o t)
<1> SUFFICES ASSUME NEW i \in 1..Len(s \o t), NEW j \in 1..Len(s \o t), i < j,
                    Ends((s \o t)[i])
             PROVE  (s \o t)[j] \in Quiet
  BY DEF EndsOnce
<1>1. CASE j > Len(s)
  <2>1. (s \o t)[j] = t[j - Len(s)] /\ j - Len(s) \in 1..Len(t)
    BY <1>1
  <2> QED BY <2>1
<1>2. CASE j <= Len(s)
  <2>1. (s \o t)[j] = s[j] /\ (s \o t)[i] = s[i]
    BY <1>2
  <2> QED BY <1>2, <2>1 DEF EndsOnce
<1> QED BY <1>1, <1>2

LEMMA OpeningEndsOnce ==
  ASSUME NEW s \in Seq(Opening)
  PROVE  EndsOnce(s)
BY DEF EndsOnce, Opening

\* The classes of calls are nested.
LEMMA Classes ==
  /\ Quiet \subseteq Ordinary /\ Quiet \subseteq Opening /\ Quiet \subseteq Ended
  /\ Quiet \subseteq Before /\ Before \subseteq Ordinary /\ Before \subseteq Opening
  /\ GateCalls \subseteq Opening /\ Ordinary \subseteq Calls
BY DEF Before, Quiet, Ordinary, Opening, Ended, GateCalls, Ends

LEMMA SeqSubset ==
  ASSUME NEW S, NEW T, S \subseteq T
  PROVE  Seq(S) \subseteq Seq(T)
OBVIOUS

LEMMA Narrowed ==
  ASSUME NEW S, NEW T, NEW s \in Seq(S), \A i \in 1..Len(s) : s[i] \in T
  PROVE  s \in Seq(T)
<1>1. s \in [1..Len(s) -> T] /\ Len(s) \in Nat
  OBVIOUS
<1> QED BY <1>1, SeqDef

LEMMA Tuples ==
  ASSUME NEW S
  PROVE  /\ <<>> \in Seq(S)
         /\ \A a \in S : <<a>> \in Seq(S)
         /\ \A a, b \in S : <<a, b>> \in Seq(S)
         /\ \A a, b, c \in S : <<a, b, c>> \in Seq(S)
         /\ \A a, b, c, d \in S : <<a, b, c, d>> \in Seq(S)
OBVIOUS

LEMMA WhenType ==
  ASSUME NEW S, NEW b, NEW s \in Seq(S)
  PROVE  When(b, s) \in Seq(S)
BY DEF When

\* The calls of the handlers, by class.
LEMMA QuietCalls ==
  /\ \A w \in Ids : /\ Set("active_wisp", w) \in Quiet
                    /\ Set("last_processed_wisp", w) \in Quiet
                    /\ Try("last_processed_wisp", w) \in Quiet
                    /\ Set("pending_next_wisp", w) \in Quiet
                    /\ Try("pending_next_wisp", w) \in Quiet
                    /\ Set("agent_verdict_wisp", w) \in Quiet
  /\ Set("agent_verdict", "") \in Quiet
  /\ \A r \in Waits \cup {""} : Set("waiting_reason", r) \in Quiet
  /\ \A a \in Actors : Set("terminal_actor", a) \in Quiet
  /\ \A n \in Nat : SetIteration(n) \in Quiet
  /\ \A w \in WispIds : /\ CloseWisp(w) \in Quiet /\ DeleteBead(w) \in Quiet
                        /\ ActivateWisp(w) \in Quiet
                        /\ \A n \in Nat : EmitIteration(n, w) \in Quiet
  /\ \A r \in Reasons : EmitTerminated(r) \in Quiet
  /\ CloseRoot \in Quiet /\ TryCloseRoot \in Quiet
<1> USE DEF Quiet, Ordinary, Calls, Fields, Call, Set, Try
<1>1. ASSUME NEW w \in Ids
      PROVE  /\ Set("active_wisp", w) \in Quiet
             /\ Set("last_processed_wisp", w) \in Quiet
             /\ Try("last_processed_wisp", w) \in Quiet
             /\ Set("pending_next_wisp", w) \in Quiet
             /\ Try("pending_next_wisp", w) \in Quiet
             /\ Set("agent_verdict_wisp", w) \in Quiet
  BY DEF FieldValues
<1>2. Set("agent_verdict", "") \in Quiet
  BY DEF FieldValues, States
<1>3. \A r \in Waits \cup {""} : Set("waiting_reason", r) \in Quiet
  BY DEF FieldValues, States
<1>4. \A a \in Actors : Set("terminal_actor", a) \in Quiet
  BY DEF FieldValues
<1>5. \A n \in Nat : SetIteration(n) \in Quiet
  BY DEF SetIteration, States
<1>6. ASSUME NEW w \in WispIds
      PROVE  /\ CloseWisp(w) \in Quiet /\ DeleteBead(w) \in Quiet
             /\ ActivateWisp(w) \in Quiet
             /\ \A n \in Nat : EmitIteration(n, w) \in Quiet
  BY DEF CloseWisp, DeleteBead, ActivateWisp, EmitIteration, Ids
<1>7. \A r \in Reasons : EmitTerminated(r) \in Quiet
  BY DEF EmitTerminated
<1>8. CloseRoot \in Quiet /\ TryCloseRoot \in Quiet
  BY DEF CloseRoot, TryCloseRoot, States
<1> HIDE DEF Quiet, Ordinary, Calls, Fields, Call, Set, Try
<1> QED BY <1>1, <1>2, <1>3, <1>4, <1>5, <1>6, <1>7, <1>8

LEMMA StateCalls ==
  /\ \A x \in {"creating", "active", "waiting_manual", "waiting_trigger"} :
       Set("state", x) \in Before
  /\ Set("state", "terminated") \in Ordinary /\ Try("state", "terminated") \in Ordinary \cap Ended
  /\ \A r \in Reasons : Set("terminal_reason", r) \in Before
BY DEF Before, Ordinary, Opening, Ended, Ends, Calls, Fields, FieldValues, States, Live,
       Call, Set, Try

LEMMA GateCallsTypes ==
  /\ \A o \in Outcomes : Set("gate_outcome", o) \in GateCalls /\ Set("gate_detail", o) \in GateCalls
  /\ \A w \in WispIds : Set("gate_outcome_wisp", w) \in GateCalls
BY DEF GateCalls, Calls, Fields, FieldValues, Ids, Call, Set

-----------------------------------------------------------------------------
(* What each run of calls is made of. *)

LEMMA QuietRuns ==
  /\ \A w \in Ids : BurnSpeculativeWisp(w) \in Seq(Quiet)
  /\ \A b : ClearVerdict(b) \in Seq(Quiet)
  /\ \A i : ClearPending(i) \in Seq(Quiet)
  /\ BackfillTerminalActor \in Seq(Quiet)
<1> NoWisp \in Ids
  BY DEF Ids
<1>1. ASSUME NEW w \in Ids
      PROVE  BurnSpeculativeWisp(w) \in Seq(Quiet)
  <2>1. CASE w \in WispIds
    <3>1. <<DeleteBead(w), Try("pending_next_wisp", NoWisp)>> \in Seq(Quiet)
      BY <2>1, QuietCalls, Tuples
    <3> QED BY <3>1, Tuples DEF BurnSpeculativeWisp, When
  <2>2. CASE w = NoWisp
    BY <2>2, Tuples DEF BurnSpeculativeWisp, When
  <2> QED BY <2>1, <2>2 DEF Ids
<1>2. ASSUME NEW b
      PROVE  ClearVerdict(b) \in Seq(Quiet)
  BY QuietCalls, Tuples, WhenType DEF ClearVerdict
<1>3. ASSUME NEW i
      PROVE  ClearPending(i) \in Seq(Quiet)
  BY QuietCalls, Tuples, WhenType DEF ClearPending
<1>4. BackfillTerminalActor \in Seq(Quiet)
  BY QuietCalls, Tuples, WhenType DEF BackfillTerminalActor, Actors
<1> QED BY <1>1, <1>2, <1>3, <1>4

LEMMA QuietIsBefore == Seq(Quiet) \subseteq Seq(Before)
BY Classes, SeqSubset

LEMMA ConcatType ==
  ASSUME NEW S, NEW s \in Seq(S), NEW t \in Seq(S)
  PROVE  s \o t \in Seq(S)
OBVIOUS

LEMMA CommitType ==
  ASSUME NEW S, NEW writes \in Seq(S), NEW pre \in Seq(S), NEW field, NEW marker,
         marker # NoWisp => Set(field, marker) \in S
  PROVE  Commit(writes, pre, field, marker) \in Seq(S)
<1>1. When(marker # NoWisp, <<Set(field, marker)>>) \in Seq(S)
  BY Tuples DEF When
<1> QED BY <1>1, ConcatType DEF Commit

LEMMA WaitingManualRun ==
  ASSUME NEW w \in WispIds, NEW n \in Nat, NEW reason \in Waits
  PROVE  TransitionToWaitingManual(w, n, reason) \in Seq(Before)
<1>1. /\ Set("active_wisp", NoWisp) \in Before /\ Set("waiting_reason", reason) \in Before
      /\ Set("last_processed_wisp", w) \in Before /\ EmitIteration(n, w) \in Before
  BY QuietCalls, Classes DEF Ids
<1>2. <<Set("active_wisp", NoWisp), Set("waiting_reason", reason),
        Set("state", "waiting_manual")>> \in Seq(Before)
  BY <1>1, StateCalls, Tuples
<1>3. Commit(<<Set("active_wisp", NoWisp), Set("waiting_reason", reason),
               Set("state", "waiting_manual")>>, <<>>, "last_processed_wisp", w) \in Seq(Before)
  BY <1>1, <1>2, Tuples, CommitType
<1> QED BY <1>1, <1>3, Tuples, ConcatType DEF TransitionToWaitingManual

LEMMA WaitingTriggerRun ==
  ASSUME NEW w \in WispIds, NEW n \in Nat, NEW scoped
  PROVE  TransitionToWaitingTrigger(w, n, scoped) \in Seq(Before)
<1>1. /\ Set("active_wisp", NoWisp) \in Before
      /\ Set("last_processed_wisp", w) \in Before /\ EmitIteration(n, w) \in Before
  BY QuietCalls, Classes DEF Ids
<1>2. <<Set("active_wisp", NoWisp), Set("state", "waiting_trigger")>> \in Seq(Before)
  BY <1>1, StateCalls, Tuples
<1>3. Commit(<<Set("active_wisp", NoWisp), Set("state", "waiting_trigger")>>, <<>>,
             "last_processed_wisp", w) \in Seq(Before)
  BY <1>1, <1>2, Tuples, CommitType
<1>4. ClearVerdict(scoped) \in Seq(Before) /\ <<EmitIteration(n, w)>> \in Seq(Before)
  BY <1>1, QuietRuns, QuietIsBefore, Tuples
<1> QED BY <1>3, <1>4, ConcatType DEF TransitionToWaitingTrigger

LEMMA IterateRun ==
  ASSUME NEW w \in WispIds, NEW n \in Nat, NEW scoped, NEW next \in WispIds
  PROVE  Iterate(w, n, scoped, next) \in Seq(Quiet)
<1>1. /\ Set("active_wisp", next) \in Quiet /\ Set("last_processed_wisp", w) \in Quiet
      /\ EmitIteration(n, w) \in Quiet /\ ActivateWisp(next) \in Quiet
      /\ Try("pending_next_wisp", NoWisp) \in Quiet
  BY QuietCalls DEF Ids
<1>2. Commit(<<Set("active_wisp", next)>>, <<>>, "last_processed_wisp", w) \in Seq(Quiet)
  BY <1>1, Tuples, CommitType
<1>3. /\ ClearVerdict(scoped) \in Seq(Quiet)
      /\ <<ActivateWisp(next), EmitIteration(n, w)>> \in Seq(Quiet)
      /\ <<Try("pending_next_wisp", NoWisp)>> \in Seq(Quiet)
  BY <1>1, QuietRuns, Tuples
<1> QED BY <1>2, <1>3, ConcatType DEF Iterate

LEMMA PersistRun ==
  ASSUME NEW w \in WispIds, NEW o \in Outcomes
  PROVE  /\ PersistGateOutcome(w, o) \in Seq(GateCalls)
         /\ PersistGateOutcome(w, o) # <<>>
         /\ Head(PersistGateOutcome(w, o)).f = "gate_outcome"
<1>1. <<Set("gate_outcome", o), Set("gate_detail", o)>> \in Seq(GateCalls)
  BY GateCallsTypes, Tuples
<1>2. PersistGateOutcome(w, o) \in Seq(GateCalls)
  BY <1>1, GateCallsTypes, Tuples, CommitType DEF PersistGateOutcome
<1> DEFINE writes == <<Set("gate_outcome", o), Set("gate_detail", o)>>
           marker == When(w # NoWisp, <<Set("gate_outcome_wisp", w)>>)
<1>3. PersistGateOutcome(w, o) = writes \o <<>> \o marker /\ marker \in Seq(GateCalls)
  BY GateCallsTypes, Tuples, WhenType DEF PersistGateOutcome, Commit
<1>4. writes \in Seq(GateCalls) /\ Len(writes) = 2 /\ writes[1] = Set("gate_outcome", o)
  BY <1>1
<1> HIDE DEF writes, marker
<1>5. PersistGateOutcome(w, o) # <<>> /\ Head(PersistGateOutcome(w, o)) = writes[1]
  BY <1>3, <1>4
<1> QED BY <1>2, <1>4, <1>5 DEF Set, Call

LEMMA EndingTuples ==
  /\ \A a, b \in Opening, c \in Calls : EndsOnce(<<a, b, c>>)
  /\ \A a, b, d \in Opening, c \in Calls : EndsOnce(<<a, b, d, c>>)
  /\ \A a \in Opening, c \in Calls, q \in Quiet : EndsOnce(<<a, c, q>>)
  /\ \A a, b \in Opening, c \in Calls, q \in Quiet : EndsOnce(<<a, b, c, q>>)
  /\ \A c \in Calls, q \in Quiet : EndsOnce(<<c, q>>)
BY DEF EndsOnce, Opening

LEMMA ClosingThenQuiet ==
  ASSUME NEW s, Closing(s), NEW t \in Seq(Quiet)
  PROVE  Closing(s \o t)
<1>1. s \in Seq(Calls) /\ t \in Seq(Ordinary)
  BY Classes, SeqSubset DEF Closing
<1> QED BY <1>1, ThenQuiet, ConcatType DEF Closing

LEMMA BeforeThenClosing ==
  ASSUME NEW s \in Seq(Before), NEW t, Closing(t)
  PROVE  Closing(s \o t)
<1>1. s \in Seq(Opening) /\ s \in Seq(Ordinary) /\ t \in Seq(Calls)
  BY Classes, SeqSubset DEF Closing
<1> QED BY <1>1, OpeningThen, ConcatType DEF Closing

LEMMA ClosingCommit ==
  ASSUME NEW writes, Closing(writes), NEW pre \in Seq(Quiet), NEW marker \in Ids
  PROVE  Closing(Commit(writes, pre, "last_processed_wisp", marker))
<1>1. When(marker # NoWisp, <<Set("last_processed_wisp", marker)>>) \in Seq(Quiet)
  BY QuietCalls, Tuples, WhenType
<1> QED BY <1>1, ClosingThenQuiet DEF Commit

LEMMA TerminateRun ==
  ASSUME NEW w \in WispIds, NEW n \in Nat, NEW reason \in Reasons
  PROVE  Closing(Terminate(w, n, reason))
<1> DEFINE writes == <<Set("terminal_reason", reason), Set("terminal_actor", "controller"),
                       Set("state", "terminated")>>
<1>1. /\ Set("terminal_reason", reason) \in Before /\ Set("terminal_actor", "controller") \in Before
      /\ Set("state", "terminated") \in Ordinary
      /\ EmitIteration(n, w) \in Before /\ EmitTerminated(reason) \in Before
      /\ CloseRoot \in Quiet
  BY QuietCalls, StateCalls, Classes DEF Actors
<1>2. Closing(writes)
  BY <1>1, EndingTuples, Tuples, Classes DEF Closing
<1> HIDE DEF writes
<1>3. Closing(Commit(writes, <<CloseRoot>>, "last_processed_wisp", w))
  BY <1>1, <1>2, Tuples, ClosingCommit DEF Ids
<1>4. <<EmitIteration(n, w), EmitTerminated(reason)>> \in Seq(Before)
  BY <1>1, Tuples
<1> QED BY <1>3, <1>4, BeforeThenClosing DEF Terminate, writes

LEMMA OperatorTerminalRun ==
  ASSUME NEW reason \in Reasons, NEW events \in Seq(Quiet), NEW marker \in Ids
  PROVE  Closing(OperatorTerminal(reason, events, marker))
<1> DEFINE writes == <<Set("terminal_reason", reason), Set("terminal_actor", "operator"),
                       Set("waiting_reason", ""), Set("state", "terminated")>>
<1>1. /\ Set("terminal_reason", reason) \in Before /\ Set("terminal_actor", "operator") \in Before
      /\ Set("waiting_reason", "") \in Before /\ Set("state", "terminated") \in Ordinary
      /\ EmitTerminated(reason) \in Quiet /\ CloseRoot \in Quiet
  BY QuietCalls, StateCalls, Classes DEF Actors
<1>2. Closing(writes)
  BY <1>1, EndingTuples, Tuples, Classes DEF Closing
<1> HIDE DEF writes
<1>3. events \o <<EmitTerminated(reason), CloseRoot>> \in Seq(Quiet)
  BY <1>1, Tuples, ConcatType
<1> QED BY <1>2, <1>3, ClosingCommit DEF OperatorTerminal, writes

LEMMA CompleteRun ==
  ASSUME meta.terminal_reason \in Reasons, NEW last \in Ids
  PROVE  Closing(CompleteTerminalTransition(last))
<1> DEFINE middle == <<EmitTerminated(meta.terminal_reason), Set("state", "terminated"), CloseRoot>>
<1>1. /\ EmitTerminated(meta.terminal_reason) \in Before
      /\ Set("state", "terminated") \in Ordinary /\ CloseRoot \in Quiet
  BY QuietCalls, StateCalls, Classes
<1>2. Closing(middle)
  BY <1>1, EndingTuples, Tuples, Classes DEF Closing
<1> HIDE DEF middle
<1>3. Closing(BackfillTerminalActor \o middle)
  BY <1>2, QuietRuns, QuietIsBefore, BeforeThenClosing
<1>4. When(last # NoWisp, <<Try("last_processed_wisp", last)>>) \in Seq(Quiet)
  BY QuietCalls, Tuples, WhenType
<1> QED BY <1>3, <1>4, ClosingThenQuiet DEF CompleteTerminalTransition, middle

-----------------------------------------------------------------------------
(* Reading and writing the store. *)

LEMMA ReadTypes ==
  ASSUME TypeOK
  PROVE  /\ ClosedCount \in Nat
         /\ \A w \in Ids : IterOf(w) \in Nat
         /\ \A i : ValidPendingNextWisp(i) \in Ids
         /\ HighestClosed \subseteq WispIds
         /\ \A w \in Ids : CurrentWisp(w) \subseteq Ids
<1>1. ClosedCount \in Nat
  <2>1. ClosedChildren \subseteq WispIds
    BY DEF ClosedChildren, Children
  <2> QED BY <2>1, WispIdsAssumption, FS_Subset, FS_CardinalityType DEF ClosedCount
<1>2. \A w \in Ids : IterOf(w) \in Nat
  BY DEF TypeOK, WispRecords, IterOf, Exists
<1>3. \A i : ValidPendingNextWisp(i) \in Ids
  BY DEF TypeOK, MetaRecords, ValidPendingNextWisp, Ids
<1>4. HighestClosed \subseteq WispIds /\ RecoverCurrentActiveWisp \subseteq WispIds
  BY DEF HighestClosed, HighestOpen, Highest, ClosedChildren, Children,
         RecoverCurrentActiveWisp, FindByIdempotencyKey
<1>5. \A w \in Ids : CurrentWisp(w) \subseteq Ids
  BY <1>4 DEF CurrentWisp, Ids
<1> QED BY <1>1, <1>2, <1>3, <1>4, <1>5

LEMMA StatusType ==
  ASSUME TypeOK, NEW w \in WispIds,
         NEW status \in {"unused", "spec", "open", "closed", "gone", "purged"}
  PROVE  [wisp EXCEPT ![w].status = status] \in [WispIds -> WispRecords]
<1>1. [wisp[w] EXCEPT !.status = status] \in WispRecords
  BY DEF TypeOK, WispRecords
<1> QED BY <1>1 DEF TypeOK

LEMMA PerformTypes ==
  ASSUME TypeOK, NEW c \in Calls, Perform(c)
  PROVE  /\ bead' \in {"absent", "in_progress", "closed"} /\ meta' \in MetaRecords
         /\ wisp' \in [WispIds -> WispRecords] /\ hist' \in HistRecords
<1>1. CASE /\ c.k \in {"set", "try"}
           /\ meta' = [meta EXCEPT ![c.f] = c.v]
           /\ UNCHANGED <<bead, wisp, hist>>
  <2>1. c.f \in Fields /\ c.v \in FieldValues(c.f)
    BY <1>1 DEF Calls
  <2> USE DEF TypeOK, MetaRecords, FieldValues, Ids
  <2>2. CASE c.f = "state"
    BY <1>1, <2>1, <2>2
  <2>3. CASE c.f = "active_wisp"
    BY <1>1, <2>1, <2>3
  <2>4. CASE c.f = "last_processed_wisp"
    BY <1>1, <2>1, <2>4
  <2>5. CASE c.f = "pending_next_wisp"
    BY <1>1, <2>1, <2>5
  <2>6. CASE c.f = "agent_verdict"
    BY <1>1, <2>1, <2>6
  <2>7. CASE c.f = "agent_verdict_wisp"
    BY <1>1, <2>1, <2>7
  <2>8. CASE c.f = "gate_outcome"
    BY <1>1, <2>1, <2>8
  <2>9. CASE c.f = "gate_detail"
    BY <1>1, <2>1, <2>9
  <2>10. CASE c.f = "gate_outcome_wisp"
    BY <1>1, <2>1, <2>10
  <2>11. CASE c.f = "terminal_reason"
    BY <1>1, <2>1, <2>11
  <2>12. CASE c.f = "terminal_actor"
    BY <1>1, <2>1, <2>12
  <2>13. CASE c.f = "waiting_reason"
    BY <1>1, <2>1, <2>13
  <2> QED BY <2>1, <2>2, <2>3, <2>4, <2>5, <2>6, <2>7,
             <2>8, <2>9, <2>10, <2>11, <2>12, <2>13 DEF Fields
<1>2. CASE /\ c.k = "setIteration"
           /\ meta' = [meta EXCEPT !.iteration = c.n]
           /\ UNCHANGED <<bead, wisp, hist>>
  BY <1>2 DEF TypeOK, MetaRecords, Calls
<1>3. CASE /\ c.k \in {"closeRoot", "tryCloseRoot"}
           /\ bead' = "closed"
           /\ UNCHANGED <<meta, wisp, hist>>
  BY <1>3 DEF TypeOK
<1>4. CASE /\ c.k \in {"closeWisp", "delete", "activate"}
           /\ UNCHANGED <<bead, meta, hist>>
           /\ \/ wisp' = [wisp EXCEPT ![c.v].status = "closed"]
              \/ wisp' = [wisp EXCEPT ![c.v].status = "gone"]
              \/ wisp' = [wisp EXCEPT ![c.v].status = IF @ = "spec" THEN "open" ELSE @]
  <2>1. c.v \in WispIds
    BY <1>4 DEF Calls
  <2>2. wisp' \in [WispIds -> WispRecords]
    <3>1. wisp[c.v].status \in {"unused", "spec", "open", "closed", "gone", "purged"}
      BY <2>1 DEF TypeOK, WispRecords
    <3>2. CASE wisp' = [wisp EXCEPT ![c.v].status = "closed"]
      BY <2>1, <3>2, StatusType
    <3>3. CASE wisp' = [wisp EXCEPT ![c.v].status = "gone"]
      BY <2>1, <3>3, StatusType
    <3>4. CASE wisp' = [wisp EXCEPT ![c.v].status = IF @ = "spec" THEN "open" ELSE @]
      <4> DEFINE status == IF wisp[c.v].status = "spec" THEN "open" ELSE wisp[c.v].status
      <4>1. status \in {"unused", "spec", "open", "closed", "gone", "purged"}
        BY <3>1
      <4>2. wisp' = [wisp EXCEPT ![c.v].status = status]
        BY <3>4
      <4> QED BY <2>1, <4>1, <4>2, StatusType
    <3> QED BY <1>4, <3>2, <3>3, <3>4
  <2> QED BY <1>4, <2>2 DEF TypeOK
<1>5. CASE /\ c.k = "emitIteration"
           /\ hist' = [hist EXCEPT !.iterations = @ \cup {<<c.n, c.v>>}]
           /\ UNCHANGED <<bead, meta, wisp>>
  <2>1. <<c.n, c.v>> \in Nat \X WispIds
    BY <1>5 DEF Calls
  <2>2. hist' \in HistRecords
    BY <1>5, <2>1 DEF TypeOK, HistRecords
  <2> QED BY <1>5, <2>2 DEF TypeOK
<1>6. CASE /\ c.k = "emitTerminated"
           /\ hist' = [hist EXCEPT !.terminations = @ \cup {c.v}]
           /\ UNCHANGED <<bead, meta, wisp>>
  <2>1. c.v \in Reasons
    BY <1>6 DEF Calls
  <2>2. hist' \in HistRecords
    BY <1>6, <2>1 DEF TypeOK, HistRecords
  <2> QED BY <1>6, <2>2 DEF TypeOK
<1> QED BY <1>1, <1>2, <1>3, <1>4, <1>5, <1>6 DEF Perform

\* A call changes a metadata field only if it names the field.
LEMMA PerformMeta ==
  ASSUME TypeOK, NEW c \in Calls, Perform(c),
         NEW f \in {"state", "terminal_reason", "gate_outcome", "gate_outcome_wisp"}
  PROVE  meta'[f] = IF c.f = f THEN c.v ELSE meta[f]
<1>1. c.f # "" <=> c.k \in {"set", "try"}
  BY DEF Calls, Fields
<1>2. CASE c.k \in {"set", "try"}
  BY <1>2 DEF Perform, TypeOK, MetaRecords
<1>3. CASE c.k = "setIteration"
  BY <1>1, <1>3 DEF Perform, TypeOK, MetaRecords
<1>4. CASE c.k \notin {"set", "try", "setIteration"}
  BY <1>1, <1>4 DEF Perform
<1> QED BY <1>2, <1>3, <1>4

LEMMA TailOf ==
  ASSUME NEW S, NEW s \in Seq(S), s # <<>>
  PROVE  /\ Head(s) \in S /\ Tail(s) \in Seq(S)
         /\ Len(Tail(s)) = Len(s) - 1
         /\ \A i \in 1..Len(Tail(s)) : i + 1 \in 1..Len(s) /\ Tail(s)[i] = s[i + 1]
         /\ Head(s) = s[1] /\ 1 \in 1..Len(s)
OBVIOUS

\* The call that names the wisp in gate_outcome_wisp comes after the one that
\* writes its outcome.
LEMMA CallKeepsGate ==
  ASSUME IInv, todo # <<>>, Perform(Head(todo)), UNCHANGED cfg
  PROVE  /\ pc = "act" => meta'.gate_outcome # ""
         /\ meta'.gate_outcome = "" \/ NeedsManualWithoutGate' => meta'.gate_outcome_wisp = NoWisp
<1> DEFINE c == Head(todo)
<1>1. c \in Calls /\ TypeOK
  BY TailOf DEF IInv, TypeOK
<1>2. /\ meta'.gate_outcome = IF c.f = "gate_outcome" THEN c.v ELSE meta.gate_outcome
      /\ meta'.gate_outcome_wisp
           = IF c.f = "gate_outcome_wisp" THEN c.v ELSE meta.gate_outcome_wisp
  BY <1>1, PerformMeta
<1>3. c.f = "gate_outcome" => c.v # ""
  BY <1>1 DEF Calls, Fields, FieldValues, Outcomes
<1>4. NeedsManualWithoutGate' = NeedsManualWithoutGate
  BY DEF NeedsManualWithoutGate, HybridNeedsManual
<1>5. CASE pc = "act"
  <2>1. ~NeedsManualWithoutGate /\ (meta.gate_outcome = "" => c.f = "gate_outcome")
    BY <1>5 DEF IInv, GateRecorded
  <2> QED BY <1>2, <1>3, <1>4, <2>1
<1>6. CASE pc # "act"
  <2>1. c \in Ordinary
    BY <1>6, TailOf DEF IInv, GateRecorded
  <2>2. c.f # "gate_outcome_wisp"
    BY <2>1 DEF Ordinary
  <2> HIDE DEF c
  <2> QED BY <1>2, <1>3, <1>4, <1>6, <2>2 DEF IInv, GateRecorded
<1> QED BY <1>5, <1>6

\* Making the next call of todo, or giving it up where an error is only logged.
LEMMA CallKeepsInv ==
  ASSUME IInv, todo # <<>>,
         \/ Perform(Head(todo))
         \/ BestEffort(Head(todo)) /\ UNCHANGED <<bead, meta, wisp, hist>>,
         todo' = Tail(todo), UNCHANGED <<cfg, pc, job>>
  PROVE  GateRecorded' /\ LocalsOK' /\ EndingOK'
<1> DEFINE c == Head(todo)
<1>1. c \in Calls /\ todo \in Seq(Calls) /\ TypeOK
  BY TailOf DEF IInv, TypeOK
<1>2. \A f \in {"state", "terminal_reason", "gate_outcome", "gate_outcome_wisp"} :
        \/ meta'[f] = IF c.f = f THEN c.v ELSE meta[f]
        \/ BestEffort(c) /\ meta'[f] = meta[f]
  BY <1>1, PerformMeta
<1> HIDE DEF c
<1>3. GateRecorded'
  <2>1. CASE pc = "act"
    <3>1. todo \in Seq(GateCalls) /\ c \in GateCalls /\ Tail(todo) \in Seq(GateCalls)
      BY <2>1, TailOf DEF IInv, GateRecorded, c
    <3>2. ~BestEffort(c)
      BY <3>1 DEF GateCalls, Calls, BestEffort
    <3>3. ~NeedsManualWithoutGate'
      BY <2>1 DEF IInv, GateRecorded, NeedsManualWithoutGate, HybridNeedsManual
    <3> QED BY <2>1, <3>1, <3>2, <3>3, CallKeepsGate DEF GateRecorded, c
  <2>2. CASE pc # "act"
    <3>1. Tail(todo) \in Seq(Ordinary)
      BY <2>2, TailOf DEF IInv, GateRecorded
    <3>2. meta'.gate_outcome = "" \/ NeedsManualWithoutGate' => meta'.gate_outcome_wisp = NoWisp
      BY CallKeepsGate DEF IInv, GateRecorded, NeedsManualWithoutGate, HybridNeedsManual
    <3> QED BY <2>2, <3>1, <3>2 DEF GateRecorded
  <2> QED BY <2>1, <2>2
<1>4. LocalsOK'
  BY DEF IInv, LocalsOK, NeedsManualWithoutGate, HybridNeedsManual
<1>5. EndingOK'
  <2>1. EndsOnce(Tail(todo))
    <3> SUFFICES ASSUME NEW i \in 1..Len(Tail(todo)), NEW j \in 1..Len(Tail(todo)), i < j,
                        Ends(Tail(todo)[i])
                 PROVE  Tail(todo)[j] \in Quiet
      BY DEF EndsOnce
    <3>1. /\ Tail(todo)[i] = todo[i + 1] /\ Tail(todo)[j] = todo[j + 1]
          /\ i + 1 \in 1..Len(todo) /\ j + 1 \in 1..Len(todo)
      BY <1>1, TailOf
    <3> QED BY <3>1 DEF IInv, EndingOK, EndsOnce
  <2>2. pc # "return" => c \in Opening /\ Tail(todo) \in Seq(Opening)
    BY TailOf DEF IInv, EndingOK, c
  <2>3. pc \in Working => meta'.state # "terminated"
    <3>1. pc \in Working => ~Ends(c) /\ meta.state # "terminated"
      BY <2>2 DEF Opening, Working, IInv, EndingOK
    <3> QED BY <1>2, <3>1 DEF Ends
  <2>4. meta'.state = "terminated" => Tail(todo) \in Seq(Ended)
    <3>1. CASE meta.state = "terminated"
      BY <3>1, TailOf DEF IInv, EndingOK
    <3>2. CASE meta.state # "terminated" /\ meta'.state = "terminated"
      <4>1. Ends(c) /\ c = todo[1]
        BY <1>1, <1>2, <3>2, TailOf DEF Ends, c
      <4>2. \A i \in 1..Len(Tail(todo)) : Tail(todo)[i] \in Quiet
        <5> SUFFICES ASSUME NEW i \in 1..Len(Tail(todo)) PROVE Tail(todo)[i] \in Quiet
          OBVIOUS
        <5>1. /\ Tail(todo)[i] = todo[i + 1] /\ i + 1 \in 1..Len(todo)
              /\ 1 \in 1..Len(todo) /\ 1 < i + 1
          BY <1>1, TailOf
        <5> QED BY <4>1, <5>1 DEF IInv, EndingOK, EndsOnce
      <4>3. Tail(todo) \in Seq(Quiet)
        BY <1>1, <4>2, TailOf, Narrowed
      <4> QED BY <4>3, Classes, SeqSubset
    <3> QED BY <3>1, <3>2
  <2> QED BY <2>1, <2>2, <2>3, <2>4 DEF EndingOK
<1> QED BY <1>3, <1>4, <1>5

-----------------------------------------------------------------------------
(* Starting a run of calls. *)

LEMMA RunKeepsInv ==
  ASSUME IInv, NEW calls, NEW next, Run(calls, next), UNCHANGED <<cfg, meta>>,
         TypeOK', LocalsOK', next # "act", Closing(calls),
         next # "return" => calls \in Seq(Opening),
         next \in Working => meta.state # "terminated",
         meta.state = "terminated" => calls \in Seq(Ended)
  PROVE  IInv'
<1>1. GateRecorded'
  BY DEF IInv, GateRecorded, Run, Closing, NeedsManualWithoutGate, HybridNeedsManual
<1>2. EndingOK'
  BY DEF IInv, EndingOK, Run, Closing
<1> QED BY <1>1, <1>2 DEF IInv

LEMMA RunBefore ==
  ASSUME IInv, NEW calls \in Seq(Before), NEW next, Run(calls, next), UNCHANGED <<cfg, meta>>,
         TypeOK', LocalsOK', next # "act", meta.state # "terminated"
  PROVE  IInv'
<1>1. calls \in Seq(Ordinary) /\ calls \in Seq(Opening)
  BY Classes, SeqSubset
<1> QED BY <1>1, OpeningEndsOnce, RunKeepsInv DEF Closing

LEMMA RunQuiet ==
  ASSUME IInv, NEW calls \in Seq(Quiet), NEW next, Run(calls, next), UNCHANGED <<cfg, meta>>,
         TypeOK', LocalsOK', next # "act", next \in Working => meta.state # "terminated"
  PROVE  IInv'
<1>1. calls \in Seq(Ordinary) /\ calls \in Seq(Opening) /\ calls \in Seq(Ended)
  BY Classes, SeqSubset
<1> QED BY <1>1, OpeningEndsOnce, RunKeepsInv DEF Closing

LEMMA RunClosing ==
  ASSUME IInv, NEW calls, Closing(calls), Run(calls, "return"), UNCHANGED <<cfg, meta>>,
         TypeOK', LocalsOK', meta.state # "terminated"
  PROVE  IInv'
BY RunKeepsInv

\* Runs of each class are sequences of calls.
LEMMA RunTypes ==
  /\ Seq(Quiet) \subseteq Seq(Calls) /\ Seq(Before) \subseteq Seq(Calls)
  /\ \A calls : Closing(calls) => calls \in Seq(Calls)
<1>1. Quiet \subseteq Calls /\ Before \subseteq Calls /\ Ordinary \subseteq Calls
  BY Classes
<1> QED BY <1>1, SeqSubset DEF Closing

LEMMA PourTypes ==
  ASSUME TypeOK, NEW i \in Nat, NEW status \in {"spec", "open"}, NEW w, Pour(i, status, w)
  PROVE  w \in WispIds /\ wisp' \in [WispIds -> WispRecords]
BY DEF Pour, FindByIdempotencyKey, Children, Unused, TypeOK, WispRecords

LEMMA PourFailsTypes ==
  ASSUME TypeOK, NEW i \in Nat, NEW status \in {"spec", "open"}, NEW calls \in Nat,
         PourFails(i, status, calls)
  PROVE  /\ wisp' \in [WispIds -> WispRecords]
         /\ used' \in [crashes : Nat, failures : Nat, purges : Nat]
<1>1. CASE UNCHANGED <<wisp, used>>
  BY <1>1 DEF TypeOK
<1>2. CASE used' = [used EXCEPT !.failures = @ + 1] /\ UNCHANGED wisp
  BY <1>2 DEF TypeOK
<1>3. CASE /\ used' = [used EXCEPT !.failures = @ + calls]
           /\ \E w \in Unused : Pour(i, status, w)
  BY <1>3, PourTypes DEF TypeOK
<1> QED BY <1>1, <1>2, <1>3 DEF PourFails

-----------------------------------------------------------------------------
(* The invariant is kept by every step. *)

LEMMA StoreCallInv == IInv /\ StoreCall => IInv'
<1> SUFFICES ASSUME IInv, StoreCall PROVE IInv'
  OBVIOUS
<1>1. Head(todo) \in Calls /\ Tail(todo) \in Seq(Calls)
  BY TailOf DEF IInv, TypeOK, StoreCall
<1>2. index' \in BOOLEAN
  <2>1. CASE Head(todo).f = "state"
    <3>1. index' = (Head(todo).v \in Live)
      BY <2>1 DEF StoreCall
    <3>2. (Head(todo).v \in Live) \in BOOLEAN
      OBVIOUS
    <3> QED BY <3>1, <3>2
  <2>2. CASE Head(todo).f # "state"
    <3>1. index' = (index /\ Head(todo).k \notin {"closeRoot", "tryCloseRoot"})
      BY <2>2 DEF StoreCall
    <3> QED BY <3>1, Zenon
  <2> QED BY <2>1, <2>2
<1>3. TypeOK'
  BY <1>1, <1>2, PerformTypes DEF IInv, TypeOK, StoreCall
<1> QED BY <1>3, CallKeepsInv DEF IInv, StoreCall

LEMMA StoreCallFailsInv == IInv /\ StoreCallFails => IInv'
<1> SUFFICES ASSUME IInv, StoreCallFails PROVE IInv'
  OBVIOUS
<1>1. Head(todo) \in Calls /\ Tail(todo) \in Seq(Calls)
  BY TailOf DEF IInv, TypeOK, StoreCallFails
<1>2. /\ bead' \in {"absent", "in_progress", "closed"} /\ meta' \in MetaRecords
      /\ wisp' \in [WispIds -> WispRecords] /\ hist' \in HistRecords
  BY <1>1, PerformTypes DEF IInv, TypeOK, StoreCallFails
<1>3. used' \in [crashes : Nat, failures : Nat, purges : Nat]
  BY DEF IInv, TypeOK, StoreCallFails
<1>4. CASE BestEffort(Head(todo))
  <2>1. todo' = Tail(todo) /\ UNCHANGED <<cfg, pc, job>>
    BY <1>4 DEF StoreCallFails
  <2>2. TypeOK'
    BY <1>1, <1>2, <1>3, <2>1 DEF IInv, TypeOK, StoreCallFails
  <2> QED BY <1>4, <2>1, <2>2, CallKeepsInv DEF IInv, StoreCallFails
<1>5. CASE ~BestEffort(Head(todo))
  <2>1. todo' = <<>> /\ pc' = job.onErr /\ UNCHANGED <<cfg, job>>
    BY <1>5 DEF StoreCallFails, Run
  <2>2. pc' \in {"error", "burn", "rollback"}
    BY <2>1 DEF IInv, TypeOK, JobRecords
  <2>3. TypeOK'
    BY <1>2, <1>3, <2>1, <2>2, Tuples DEF IInv, TypeOK, StoreCallFails, Segments
  <2>4. LocalsOK'
    BY <2>2 DEF LocalsOK
  <2>5. EndingOK'
    BY <2>1, <2>2, Tuples, OpeningEndsOnce DEF EndingOK, Working
  <2>6. meta'.gate_outcome = "" \/ NeedsManualWithoutGate' => meta'.gate_outcome_wisp = NoWisp
    BY <2>1, CallKeepsGate
       DEF IInv, GateRecorded, StoreCallFails, NeedsManualWithoutGate, HybridNeedsManual
  <2>7. GateRecorded'
    BY <2>1, <2>2, <2>6, Tuples DEF GateRecorded
  <2> QED BY <2>3, <2>4, <2>5, <2>7 DEF IInv
<1> QED BY <1>4, <1>5

LEMMA NoJobType == NoJob \in JobRecords /\ NoJob.wisp = NoWisp
BY DEF NoJob, JobRecords, Ids, Outcomes

\* The type invariant after a step that only starts a run.
LEMMA FrameType ==
  ASSUME TypeOK, NEW calls \in Seq(Calls), NEW next \in Segments, Run(calls, next),
         UNCHANGED <<store, Environment>>, job' \in JobRecords, hist' \in HistRecords
  PROVE  TypeOK' /\ UNCHANGED <<cfg, meta>>
BY DEF TypeOK, Run, store, Environment

LEMMA HandlerReturnsInv == IInv /\ HandlerReturns => IInv'
<1> SUFFICES ASSUME IInv, HandlerReturns PROVE IInv'
  OBVIOUS
<1>1. pc' \in {"idle", "populate", "stopForce"}
  BY DEF IInv, TypeOK, JobRecords, HandlerReturns, AfterReturn, AfterError
<1>2. job' \in JobRecords
  BY NoJobType DEF IInv, TypeOK, HandlerReturns, MetaRecords, JobRecords
<1>3. TypeOK'
  BY <1>1, <1>2 DEF IInv, TypeOK, HandlerReturns, store, Environment, Segments
<1>4. Run(<<>>, pc') /\ UNCHANGED <<cfg, meta>>
  BY DEF HandlerReturns, store, Environment, Run
<1>5. LocalsOK'
  BY <1>1 DEF LocalsOK
<1> QED BY <1>1, <1>3, <1>4, <1>5, Tuples, RunQuiet DEF Working

LEMMA CreateHandlerInv == IInv /\ Uncreated /\ CreateHandler => IInv'
<1> SUFFICES ASSUME IInv, Uncreated, CreateHandler PROVE IInv'
  OBVIOUS
<1>1. TypeOK /\ meta.state # "terminated" /\ UNCHANGED <<cfg, meta>>
  BY DEF IInv, Uncreated, CreateHandler, Environment
<1>2. job' \in JobRecords /\ hist' \in HistRecords /\ bead' = "in_progress"
  <2>1. job' \in JobRecords
    BY NoJobType DEF CreateHandler, Start, JobRecords, Ids
  <2>2. hist' \in HistRecords
    <3>1. (IF cfg.trigger THEN hist.released ELSE hist.released \cup {1}) \in SUBSET Nat
      BY <1>1 DEF TypeOK, HistRecords
    <3> QED BY <1>1, <3>1 DEF CreateHandler, TypeOK, HistRecords
  <2> QED BY <2>1, <2>2 DEF CreateHandler
<1>3. /\ Set("state", "creating") \in Before /\ Set("state", "active") \in Before
      /\ Set("state", "waiting_trigger") \in Before /\ SetIteration(0) \in Before
  BY QuietCalls, StateCalls, Classes
<1>4. /\ <<Set("state", "creating"), SetIteration(0), Set("state", "waiting_trigger")>> \in Seq(Before)
      /\ <<Set("state", "creating"), Set("state", "active")>> \in Seq(Before)
  BY <1>3, Tuples
<1>5. ASSUME NEW calls \in Seq(Before), NEW next \in {"return", "createPour"}, Run(calls, next)
      PROVE  IInv'
  <2>1. TypeOK'
    BY <1>1, <1>2, <1>5, RunTypes DEF TypeOK, CreateHandler, Run, Environment, Segments
  <2> QED BY <1>1, <1>5, <2>1, RunBefore DEF LocalsOK, Run
<1> QED BY <1>4, <1>5 DEF CreateHandler

LEMMA CreatePourInv == IInv /\ CreatePour => IInv'
<1> SUFFICES ASSUME IInv, CreatePour PROVE IInv'
  OBVIOUS
<1>1. TypeOK /\ meta.state # "terminated"
  BY DEF IInv, CreatePour, At, EndingOK, Working
<1>2. ASSUME NEW w \in WispIds, Pour(1, "open", w),
             Run(<<Set("active_wisp", w), SetIteration(1)>>, "return"), UNCHANGED used
      PROVE  IInv'
  <2>1. <<Set("active_wisp", w), SetIteration(1)>> \in Seq(Quiet)
    BY QuietCalls, Tuples DEF Ids
  <2>2. wisp' \in [WispIds -> WispRecords]
    BY <1>1, <1>2, PourTypes
  <2>3. TypeOK'
    BY <1>1, <1>2, <2>1, <2>2, RunTypes DEF TypeOK, CreatePour, Run, Segments
  <2> QED BY <1>2, <2>1, <2>3, RunQuiet DEF LocalsOK, Run, CreatePour, Working
<1>3. ASSUME PourFails(1, "open", 1), Run(<<>>, "rollback")
      PROVE  IInv'
  <2>1. TypeOK'
    BY <1>1, <1>3, PourFailsTypes, Tuples DEF TypeOK, CreatePour, Run, Segments
  <2> QED BY <1>3, <2>1, Tuples, RunQuiet DEF LocalsOK, Run, CreatePour, Working
<1> QED BY <1>2, <1>3 DEF CreatePour

LEMMA CreateRollbackInv == IInv /\ CreateRollback => IInv'
<1> SUFFICES ASSUME IInv, CreateRollback PROVE IInv'
  OBVIOUS
<1> DEFINE calls == <<Try("state", "terminated"), TryCloseRoot>>
<1>1. Try("state", "terminated") \in Ordinary \cap Ended /\ TryCloseRoot \in Quiet
  BY QuietCalls, StateCalls
<1>2. Closing(calls) /\ calls \in Seq(Ended)
  BY <1>1, Classes, EndingTuples, Tuples DEF Closing
<1>3. Run(calls, "return") /\ UNCHANGED <<cfg, meta>>
  BY DEF CreateRollback, store, Environment
<1> HIDE DEF calls
<1>4. TypeOK'
  BY <1>2, <1>3, RunTypes DEF IInv, TypeOK, CreateRollback, Run, store, Environment, Segments
<1> QED BY <1>2, <1>3, <1>4, RunKeepsInv DEF LocalsOK, Run, Working

LEMMA HandleWispClosedInv == IInv /\ HandleWispClosed => IInv'
<1> SUFFICES ASSUME IInv, HandleWispClosed PROVE IInv'
  OBVIOUS
<1> DEFINE w == job.wisp
           n == IterOf(w)
           pending == ValidPendingNextWisp(n + 1)
           derived == When(ClosedCount # meta.iteration, <<SetIteration(ClosedCount)>>)
<1>1. /\ TypeOK /\ meta.state # "terminated" /\ w \in WispIds
      /\ n \in Nat /\ pending \in Ids /\ UNCHANGED <<store, hist, Environment>>
  BY ReadTypes DEF IInv, LocalsOK, HandleWispClosed, At, Ids
<1>2. /\ derived \in Seq(Quiet) /\ derived \o ClearPending(n + 1) \in Seq(Quiet)
      /\ derived \o ClearPending(n + 1) \o BurnSpeculativeWisp(pending) \in Seq(Quiet)
  <2>1. derived \in Seq(Quiet)
    BY <1>1, ReadTypes, QuietCalls, Tuples, WhenType
  <2> QED BY <1>1, <2>1, QuietRuns, ConcatType
<1>3. hist' \in HistRecords /\ job \in JobRecords
  BY <1>1 DEF TypeOK
<1>4. ASSUME NEW calls \in Seq(Quiet), NEW next \in {"return", "error"}, Run(calls, next),
             UNCHANGED job
      PROVE  IInv'
  <2>1. TypeOK' /\ UNCHANGED <<cfg, meta>>
    BY <1>1, <1>3, <1>4, RunTypes, FrameType DEF Segments
  <2> QED BY <1>1, <1>4, <2>1, RunQuiet DEF LocalsOK, Run
<1>5. ASSUME job' = [job EXCEPT !.iter = n, !.spec = pending,
                                !.scoped = meta.agent_verdict_wisp = w],
             Run(derived \o ClearPending(n + 1),
                 IF /\ n < MaxIterations /\ pending = NoWisp
                    /\ ~NeedsManualWithoutGate /\ ~cfg.trigger
                 THEN "specPour" ELSE "gate")
      PROVE  IInv'
  <2> DEFINE next == IF /\ n < MaxIterations /\ pending = NoWisp
                        /\ ~NeedsManualWithoutGate /\ ~cfg.trigger
                     THEN "specPour" ELSE "gate"
  <2>1. (meta.agent_verdict_wisp = w) \in BOOLEAN
    OBVIOUS
  <2>2. job' \in JobRecords /\ job'.wisp = w /\ job'.iter = n /\ job'.spec = pending
    BY <1>1, <1>3, <1>5, <2>1 DEF JobRecords
  <2>3. next \in {"specPour", "gate"} /\ Run(derived \o ClearPending(n + 1), next)
    BY <1>5
  <2>4. TypeOK' /\ UNCHANGED <<cfg, meta>>
    BY <1>1, <1>2, <1>3, <2>2, <2>3, RunTypes, FrameType DEF Segments
  <2>5. next = "gate" =>
          (n < MaxIterations /\ ~NeedsManualWithoutGate /\ ~cfg.trigger => pending \in WispIds)
    BY <1>1 DEF Ids
  <2>6. NeedsManualWithoutGate' = NeedsManualWithoutGate
    BY <2>4 DEF NeedsManualWithoutGate, HybridNeedsManual
  <2>7. LocalsOK'
    BY <1>1, <2>2, <2>3, <2>4, <2>5, <2>6 DEF LocalsOK, Run
  <2> HIDE DEF next
  <2> QED BY <1>1, <1>2, <2>3, <2>4, <2>7, RunQuiet
<1> QED BY <1>2, <1>4, <1>5, Tuples DEF HandleWispClosed

LEMMA SpeculativePourInv == IInv /\ SpeculativePour => IInv'
<1> SUFFICES ASSUME IInv, SpeculativePour PROVE IInv'
  OBVIOUS
<1>1. /\ TypeOK /\ meta.state # "terminated" /\ job \in JobRecords /\ job.wisp \in WispIds
      /\ job.iter + 1 \in Nat /\ UNCHANGED <<cfg, meta>>
  <2>1. TypeOK /\ pc = "specPour" /\ UNCHANGED <<cfg, meta>>
    BY DEF IInv, SpeculativePour, At
  <2>2. meta.state # "terminated" /\ job.wisp \in WispIds
    BY <2>1 DEF IInv, LocalsOK, EndingOK, Working
  <2>3. job \in JobRecords /\ job.iter + 1 \in Nat
    BY <2>1 DEF TypeOK, JobRecords
  <2> QED BY <2>1, <2>2, <2>3
<1>2. ASSUME NEW w \in WispIds, Pour(job.iter + 1, "spec", w),
             job' = [job EXCEPT !.spec = w, !.onErr = "burn"],
             Run(<<Set("pending_next_wisp", w)>>, "gate"), UNCHANGED used
      PROVE  IInv'
  <2>1. <<Set("pending_next_wisp", w)>> \in Seq(Quiet)
    BY QuietCalls, Tuples DEF Ids
  <2>2. wisp' \in [WispIds -> WispRecords]
    BY <1>1, <1>2, PourTypes
  <2>3. job' \in JobRecords /\ job'.wisp = job.wisp /\ job'.spec = w
    BY <1>1, <1>2 DEF JobRecords, Ids
  <2>4. TypeOK'
    BY <1>1, <1>2, <2>1, <2>2, <2>3, RunTypes DEF TypeOK, SpeculativePour, Run, Segments
  <2>5. LocalsOK'
    BY <1>1, <1>2, <2>3 DEF LocalsOK, Run
  <2> QED BY <1>1, <1>2, <2>1, <2>4, <2>5, RunQuiet
<1>3. ASSUME PourFails(job.iter + 1, "spec", 2), job' = [job EXCEPT !.pourErr = TRUE],
             Run(<<>>, "gate")
      PROVE  IInv'
  <2>1. job' \in JobRecords /\ job'.wisp = job.wisp /\ job'.pourErr
    BY <1>1, <1>3 DEF JobRecords
  <2>2. TypeOK'
    BY <1>1, <1>3, <2>1, PourFailsTypes, Tuples DEF TypeOK, SpeculativePour, Run, Segments
  <2>3. LocalsOK'
    BY <1>1, <1>3, <2>1 DEF LocalsOK, Run
  <2> QED BY <1>1, <1>3, <2>2, <2>3, Tuples, RunQuiet
<1> QED BY <1>2, <1>3 DEF SpeculativePour

LEMMA BurnAfterErrorInv == IInv /\ BurnAfterError => IInv'
<1> SUFFICES ASSUME IInv, BurnAfterError PROVE IInv'
  OBVIOUS
<1>1. BurnSpeculativeWisp(job.spec) \in Seq(Quiet)
  BY QuietRuns DEF IInv, TypeOK, JobRecords
<1>2. job' \in JobRecords /\ hist' \in HistRecords
  BY DEF IInv, TypeOK, BurnAfterError, JobRecords
<1>3. TypeOK' /\ UNCHANGED <<cfg, meta>>
  BY <1>1, <1>2, RunTypes, FrameType DEF IInv, BurnAfterError, Segments
<1> QED BY <1>1, <1>3, RunQuiet DEF BurnAfterError, LocalsOK, Run, Working

LEMMA EvaluateGateInv == IInv /\ EvaluateGate => IInv'
<1> SUFFICES ASSUME IInv, EvaluateGate PROVE IInv'
  OBVIOUS
<1>1. pc = "gate" /\ TypeOK /\ UNCHANGED <<store, Environment>> /\ UNCHANGED <<cfg, meta>>
  BY DEF IInv, EvaluateGate, At, store, Environment
<1>2. /\ meta.state # "terminated" /\ job.wisp \in WispIds
      /\ job \in JobRecords /\ job.iter \in Nat /\ job.spec \in Ids /\ hist \in HistRecords
  BY <1>1 DEF IInv, TypeOK, LocalsOK, EndingOK, Working, JobRecords
<1>3. NeedsManualWithoutGate' = NeedsManualWithoutGate
  BY <1>1 DEF NeedsManualWithoutGate, HybridNeedsManual
<1>4. ASSUME NEW calls \in Seq(GateCalls), NEW o \in Outcomes, Run(calls, "act"),
             calls # <<>> => Head(calls).f = "gate_outcome",
             ~NeedsManualWithoutGate, hist' \in HistRecords,
             job' \in JobRecords, UNCHANGED <<job.wisp, job.iter, job.spec, job.pourErr>>
      PROVE  IInv'
  <2>1. GateCalls \subseteq Calls /\ GateCalls \subseteq Opening
    BY Classes DEF GateCalls
  <2>2. calls \in Seq(Calls) /\ calls \in Seq(Opening)
    BY <2>1, SeqSubset
  <2>3. TypeOK'
    BY <1>1, <1>4, <2>2, FrameType DEF Segments
  <2>4. GateRecorded'
    BY <1>1, <1>3, <1>4 DEF IInv, GateRecorded, Run
  <2>5. LocalsOK'
    BY <1>1, <1>2, <1>3, <1>4 DEF IInv, LocalsOK, Run
  <2>6. EndingOK'
    BY <1>1, <1>2, <1>4, <2>2, OpeningEndsOnce DEF EndingOK, Run
  <2> QED BY <2>3, <2>4, <2>5, <2>6 DEF IInv
<1>5. CASE /\ ReplaysGate(job.wisp)
           /\ job' = [job EXCEPT !.outcome = meta.gate_outcome]
           /\ Run(<<>>, "act") /\ UNCHANGED hist
  <2>1. meta.gate_outcome_wisp # NoWisp
    BY <1>2, <1>5, NoWispAssumption DEF ReplaysGate
  <2>2. ~NeedsManualWithoutGate /\ meta.gate_outcome # ""
    BY <2>1 DEF IInv, GateRecorded
  <2>3. meta.gate_outcome \in Outcomes
    BY <1>1, <2>2 DEF TypeOK, MetaRecords
  <2>4. job' \in JobRecords /\ UNCHANGED <<job.wisp, job.iter, job.spec, job.pourErr>>
    BY <1>2, <1>5, <2>3 DEF JobRecords
  <2> QED BY <1>2, <1>4, <1>5, <2>2, <2>3, <2>4, Tuples
<1>6. CASE /\ ~NeedsManualWithoutGate
           /\ \E o \in Outcomes :
                /\ job' = [job EXCEPT !.outcome = o, !.onErr = "burn"]
                /\ hist' = [hist EXCEPT !.returned[job.wisp] = @ \cup {o}]
                /\ Run(PersistGateOutcome(job.wisp, o), "act")
  <2>1. PICK o \in Outcomes :
          /\ job' = [job EXCEPT !.outcome = o, !.onErr = "burn"]
          /\ hist' = [hist EXCEPT !.returned[job.wisp] = @ \cup {o}]
          /\ Run(PersistGateOutcome(job.wisp, o), "act")
    BY <1>6
  <2>2. job' \in JobRecords /\ UNCHANGED <<job.wisp, job.iter, job.spec, job.pourErr>>
    BY <1>2, <2>1 DEF JobRecords
  <2>3. hist' \in HistRecords
    BY <1>2, <2>1 DEF HistRecords
  <2> QED BY <1>2, <1>4, <1>6, <2>1, <2>2, <2>3, PersistRun
<1>7. CASE /\ job' = [job EXCEPT !.onErr = "error"]
           /\ hist' = [hist EXCEPT !.decided = @ \cup {job.wisp}]
           /\ Run(BurnSpeculativeWisp(job.spec)
                  \o TransitionToWaitingManual(job.wisp, job.iter,
                       IF cfg.mode = "manual" THEN "manual" ELSE "hybrid_no_condition"),
                  "return")
  <2> DEFINE calls == BurnSpeculativeWisp(job.spec)
                      \o TransitionToWaitingManual(job.wisp, job.iter,
                           IF cfg.mode = "manual" THEN "manual" ELSE "hybrid_no_condition")
  <2>1. calls \in Seq(Before)
    BY <1>2, QuietRuns, QuietIsBefore, WaitingManualRun, ConcatType DEF Waits
  <2> HIDE DEF calls
  <2>2. job' \in JobRecords /\ hist' \in HistRecords /\ Run(calls, "return")
    BY <1>2, <1>7 DEF JobRecords, HistRecords, calls
  <2>3. TypeOK'
    BY <1>1, <2>1, <2>2, RunTypes, FrameType DEF Segments
  <2> QED BY <1>1, <1>2, <2>1, <2>2, <2>3, RunBefore DEF LocalsOK, Run
<1> QED BY <1>5, <1>6, <1>7 DEF EvaluateGate

LEMMA ActOnOutcomeInv == IInv /\ ActOnOutcome => IInv'
<1> SUFFICES ASSUME IInv, ActOnOutcome PROVE IInv'
  OBVIOUS
<1>1. pc = "act" /\ TypeOK /\ UNCHANGED <<store, Environment>> /\ UNCHANGED <<cfg, meta>>
  BY DEF IInv, ActOnOutcome, At, store, Environment
<1>2. /\ meta.state # "terminated" /\ job.wisp \in WispIds /\ job.outcome \in Outcomes
      /\ job \in JobRecords /\ job.iter \in Nat /\ job.spec \in Ids /\ hist \in HistRecords
  BY <1>1 DEF IInv, TypeOK, LocalsOK, EndingOK, Working, JobRecords
<1>3. job' \in JobRecords
  BY <1>2 DEF ActOnOutcome, JobRecords
<1>4. hist' \in HistRecords
  <2> DEFINE released == IF \/ TimeoutHolds \/ GateApproves \/ GateGivesUp
                            \/ job.pourErr \/ cfg.trigger
                         THEN hist.released ELSE hist.released \cup {job.iter + 1}
  <2>1. /\ released \in SUBSET Nat /\ hist.decided \cup {job.wisp} \in SUBSET WispIds
        /\ hist.acted[job.wisp] \cup {job.outcome} \in SUBSET Outcomes
    BY <1>2 DEF HistRecords
  <2>2. hist' = [hist EXCEPT !.decided = @ \cup {job.wisp},
                             !.acted[job.wisp] = @ \cup {job.outcome},
                             !.released = released]
    BY <1>2 DEF ActOnOutcome, HistRecords
  <2> HIDE DEF released
  <2> QED BY <1>2, <2>1, <2>2 DEF HistRecords
<1>5. BurnSpeculativeWisp(job.spec) \in Seq(Quiet) /\ BurnSpeculativeWisp(job.spec) \in Seq(Before)
  BY <1>2, QuietRuns, QuietIsBefore
<1>6. ASSUME NEW calls \in Seq(Before), Run(calls, "return")
      PROVE  IInv'
  <2>1. TypeOK'
    BY <1>1, <1>3, <1>4, <1>6, RunTypes, FrameType DEF Segments
  <2> QED BY <1>1, <1>2, <1>6, <2>1, RunBefore DEF LocalsOK, Run
<1>7. ASSUME NEW reason \in Reasons,
             Run(BurnSpeculativeWisp(job.spec) \o Terminate(job.wisp, job.iter, reason), "return")
      PROVE  IInv'
  <2> DEFINE calls == BurnSpeculativeWisp(job.spec) \o Terminate(job.wisp, job.iter, reason)
  <2>1. Closing(calls)
    BY <1>2, <1>5, TerminateRun, BeforeThenClosing
  <2> HIDE DEF calls
  <2>2. Run(calls, "return")
    BY <1>7 DEF calls
  <2>3. TypeOK'
    BY <1>1, <1>3, <1>4, <2>1, <2>2, RunTypes, FrameType DEF Segments
  <2> QED BY <1>1, <1>2, <2>1, <2>2, <2>3, RunClosing DEF LocalsOK, Run
<1>8. CASE TimeoutHolds /\ Run(BurnSpeculativeWisp(job.spec)
               \o TransitionToWaitingManual(job.wisp, job.iter, "timeout"), "return")
  <2>1. BurnSpeculativeWisp(job.spec)
          \o TransitionToWaitingManual(job.wisp, job.iter, "timeout") \in Seq(Before)
    BY <1>2, <1>5, WaitingManualRun, ConcatType DEF Waits
  <2> QED BY <1>6, <1>8, <2>1
<1>9. CASE /\ ~TimeoutHolds /\ ~GateApproves /\ ~GateGivesUp /\ job.pourErr
           /\ Run(TransitionToWaitingManual(job.wisp, job.iter, "sling_failure"), "return")
  BY <1>2, <1>6, <1>9, WaitingManualRun DEF Waits
<1>10. CASE Run(TransitionToWaitingTrigger(job.wisp, job.iter, job.scoped), "return")
  BY <1>2, <1>6, <1>10, WaitingTriggerRun
<1>11. CASE /\ ~TimeoutHolds /\ ~GateApproves /\ ~GateGivesUp /\ ~job.pourErr /\ ~cfg.trigger
            /\ Run(Iterate(job.wisp, job.iter, job.scoped, job.spec), "return")
  <2>1. job.iter < MaxIterations
    BY <1>2, <1>11, MaxIterationsAssumption DEF GateGivesUp, GateApproves
  <2>2. job.spec \in WispIds
    BY <1>1, <1>11, <2>1 DEF IInv, LocalsOK, GateRecorded
  <2>3. Iterate(job.wisp, job.iter, job.scoped, job.spec) \in Seq(Before)
    BY <1>2, <2>2, IterateRun, QuietIsBefore
  <2> QED BY <1>6, <1>11, <2>3
<1> QED BY <1>7, <1>8, <1>9, <1>10, <1>11 DEF ActOnOutcome, Reasons

LEMMA ApproveHandlerInv == IInv /\ ApproveHandler => IInv'
<1> SUFFICES ASSUME IInv, ApproveHandler PROVE IInv'
  OBVIOUS
<1> DEFINE calls == OperatorTerminal("approved", <<>>, meta.last_processed_wisp)
<1>1. TypeOK /\ meta.state # "terminated" /\ meta.last_processed_wisp \in Ids
  BY DEF IInv, TypeOK, MetaRecords, ApproveHandler
<1>2. Closing(calls)
  BY <1>1, Tuples, OperatorTerminalRun DEF Reasons
<1> HIDE DEF calls
<1>3. Run(calls, "return") /\ UNCHANGED <<store, Environment, hist>>
  BY DEF ApproveHandler, calls
<1>4. job' \in JobRecords /\ hist' \in HistRecords
  BY <1>1, <1>3, NoJobType DEF ApproveHandler, Start, JobRecords, Ids, TypeOK
<1>5. TypeOK' /\ UNCHANGED <<cfg, meta>>
  BY <1>1, <1>2, <1>3, <1>4, RunTypes, FrameType DEF Segments
<1> QED BY <1>1, <1>2, <1>3, <1>5, RunClosing DEF LocalsOK, Run

\* IterateHandler and HandleTrigger: the decision, then the pour.
LEMMA ReleaseType ==
  ASSUME TypeOK, NEW b \in BOOLEAN,
         job' = [NoJob EXCEPT !.iter = ClosedCount + 1, !.scoped = b],
         hist' = [hist EXCEPT !.released = @ \cup {ClosedCount + 1}]
  PROVE  job' \in JobRecords /\ hist' \in HistRecords
<1>1. ClosedCount + 1 \in Nat
  BY ReadTypes
<1> QED BY <1>1, NoJobType DEF TypeOK, JobRecords, HistRecords

LEMMA IterateHandlerInv == IInv /\ IterateHandler => IInv'
<1> SUFFICES ASSUME IInv, IterateHandler PROVE IInv'
  OBVIOUS
<1>1. /\ TypeOK /\ meta.state # "terminated" /\ Run(<<>>, "opPour")
      /\ UNCHANGED <<store, Environment>>
  BY DEF IInv, IterateHandler
<1>2. job' \in JobRecords /\ hist' \in HistRecords
  <2>1. (/\ meta.last_processed_wisp # NoWisp
         /\ meta.agent_verdict_wisp = meta.last_processed_wisp) \in BOOLEAN
    OBVIOUS
  <2> QED BY <1>1, <2>1, ReleaseType DEF IterateHandler
<1>3. TypeOK' /\ UNCHANGED <<cfg, meta>>
  BY <1>1, <1>2, Tuples, FrameType DEF Segments
<1>4. <<>> \in Seq(Quiet) /\ LocalsOK'
  BY <1>1, Tuples DEF LocalsOK, Run
<1> QED BY <1>1, <1>3, <1>4, RunQuiet

LEMMA HandleTriggerInv == IInv /\ HandleTrigger => IInv'
<1> SUFFICES ASSUME IInv, HandleTrigger PROVE IInv'
  OBVIOUS
<1>1. /\ TypeOK /\ meta.state # "terminated" /\ Run(<<>>, "triggerPour")
      /\ UNCHANGED <<store, Environment>>
  BY DEF IInv, HandleTrigger
<1>2. job' \in JobRecords /\ hist' \in HistRecords
  <2>1. ClosedCount + 1 \in Nat
    BY <1>1, ReadTypes
  <2> QED BY <1>1, <2>1, NoJobType DEF HandleTrigger, TypeOK, JobRecords, HistRecords
<1>3. TypeOK' /\ UNCHANGED <<cfg, meta>>
  BY <1>1, <1>2, Tuples, FrameType DEF Segments
<1>4. <<>> \in Seq(Quiet) /\ LocalsOK'
  BY <1>1, Tuples DEF LocalsOK, Run
<1> QED BY <1>1, <1>3, <1>4, RunQuiet

\* What a pour leaves to prove: the run that follows it, or the error.
LEMMA PourKeepsInv ==
  ASSUME IInv, pc \in {"opPour", "triggerPour", "activePour"},
         UNCHANGED <<cfg, bead, meta, index, reconcileDue, job, hist>>,
         \/ /\ \E w \in WispIds : wisp' = wisp \/ Pour(job.iter, "open", w)
            /\ UNCHANGED used
            /\ \E calls \in Seq(Before) : Run(calls, "return")
         \/ \E n \in Nat : PourFails(job.iter, "open", n) /\ Run(<<>>, "error")
  PROVE  IInv'
<1>1. TypeOK /\ meta.state # "terminated" /\ job.iter \in Nat
  BY DEF IInv, TypeOK, EndingOK, Working, JobRecords
<1>2. /\ wisp' \in [WispIds -> WispRecords]
      /\ used' \in [crashes : Nat, failures : Nat, purges : Nat]
  BY <1>1, PourTypes, PourFailsTypes DEF TypeOK
<1>3. PICK calls \in Seq(Before), next \in {"return", "error"} : Run(calls, next)
  BY Tuples
<1>4. TypeOK'
  BY <1>1, <1>2, <1>3, RunTypes DEF TypeOK, Run, Segments
<1> QED BY <1>1, <1>3, <1>4, RunBefore DEF LocalsOK, Run

LEMMA IteratePourInv == IInv /\ IteratePour => IInv'
<1> SUFFICES ASSUME IInv, IteratePour PROVE IInv'
  OBVIOUS
<1>1. ASSUME NEW w \in WispIds
      PROVE  ClearVerdict(job.scoped)
             \o <<Set("waiting_reason", ""), Set("state", "active"), Set("active_wisp", w)>>
               \in Seq(Before)
  <2>1. /\ Set("waiting_reason", "") \in Before /\ Set("state", "active") \in Before
        /\ Set("active_wisp", w) \in Before
    BY QuietCalls, StateCalls, Classes DEF Ids
  <2>2. <<Set("waiting_reason", ""), Set("state", "active"), Set("active_wisp", w)>>
          \in Seq(Before)
    BY <2>1, Tuples
  <2> QED BY <2>2, QuietRuns, QuietIsBefore, ConcatType
<1>2. pc = "opPour" /\ UNCHANGED <<cfg, bead, meta, index, reconcileDue, job, hist>>
  BY DEF IteratePour, At
<1>3. CASE \E w \in WispIds :
             /\ Pour(job.iter, "open", w)
             /\ Run(ClearVerdict(job.scoped)
                \o <<Set("waiting_reason", ""), Set("state", "active"), Set("active_wisp", w)>>, "return")
             /\ UNCHANGED used
  BY <1>1, <1>2, <1>3, PourKeepsInv
<1>4. CASE PourFails(job.iter, "open", 2) /\ Run(<<>>, "error")
  <2>1. 2 \in Nat
    OBVIOUS
  <2> QED BY <1>2, <1>4, <2>1, PourKeepsInv
<1> QED BY <1>3, <1>4 DEF IteratePour

LEMMA AdvanceFromTriggerInv == IInv /\ AdvanceFromTrigger => IInv'
<1> SUFFICES ASSUME IInv, AdvanceFromTrigger PROVE IInv'
  OBVIOUS
<1>1. ASSUME NEW w \in WispIds
      PROVE  <<ActivateWisp(w), SetIteration(job.iter), Set("active_wisp", w),
               Set("state", "active")>> \in Seq(Before)
  <2>1. /\ ActivateWisp(w) \in Before /\ SetIteration(job.iter) \in Before
        /\ Set("state", "active") \in Before /\ Set("active_wisp", w) \in Before
    BY QuietCalls, StateCalls, Classes DEF Ids, IInv, TypeOK, JobRecords
  <2> QED BY <2>1, Tuples
<1>2. pc = "triggerPour" /\ UNCHANGED <<cfg, bead, meta, index, reconcileDue, job, hist>>
  BY DEF AdvanceFromTrigger, At
<1>3. CASE \E w \in WispIds :
             /\ Pour(job.iter, "open", w)
             /\ Run(<<ActivateWisp(w), SetIteration(job.iter), Set("active_wisp", w),
                  Set("state", "active")>>, "return")
             /\ UNCHANGED used
  BY <1>1, <1>2, <1>3, PourKeepsInv
<1>4. CASE PourFails(job.iter, "open", 2) /\ Run(<<>>, "error")
  <2>1. 2 \in Nat
    OBVIOUS
  <2> QED BY <1>2, <1>4, <2>1, PourKeepsInv
<1> QED BY <1>3, <1>4 DEF AdvanceFromTrigger

LEMMA ReconcilePourInv == IInv /\ ReconcilePour => IInv'
<1> SUFFICES ASSUME IInv, ReconcilePour PROVE IInv'
  OBVIOUS
<1>1. ASSUME NEW w \in WispIds
      PROVE  <<ActivateWisp(w), Set("active_wisp", w), Try("pending_next_wisp", NoWisp)>>
               \in Seq(Before)
  <2>1. /\ ActivateWisp(w) \in Before /\ Set("active_wisp", w) \in Before
        /\ Try("pending_next_wisp", NoWisp) \in Before
    BY QuietCalls, Classes DEF Ids
  <2> QED BY <2>1, Tuples
<1>2. 1 \in Nat
  OBVIOUS
<1> QED BY <1>1, <1>2, PourKeepsInv DEF ReconcilePour, At

LEMMA StopHandlerInv == IInv /\ StopHandler => IInv'
<1> SUFFICES ASSUME IInv, StopHandler PROVE IInv'
  OBVIOUS
<1>1. TypeOK /\ meta.state # "terminated" /\ UNCHANGED <<store, Environment, hist>>
  BY DEF IInv, StopHandler, Live
<1>2. PICK w \in CurrentWisp(meta.active_wisp) :
        IF Closed(w)
        THEN Start("drain", w, "error") /\ Run(<<>>, "wispClosed")
        ELSE Start("event", w, "error") /\ Run(<<>>, "stopForce")
  BY DEF StopHandler
<1>3. w \in Ids /\ (Closed(w) => w \in WispIds)
  BY <1>1, ReadTypes DEF TypeOK, MetaRecords, Closed
<1>4. PICK next \in {"wispClosed", "stopForce"} :
        Run(<<>>, next) /\ (next = "wispClosed" => w \in WispIds)
  BY <1>2, <1>3
<1>5. job' \in JobRecords /\ job'.wisp = w /\ hist' \in HistRecords
  <2>1. PICK caller \in {"event", "drain"} : Start(caller, w, "error")
    BY <1>2
  <2> QED BY <1>1, <1>3, <2>1, NoJobType DEF Start, JobRecords, TypeOK
<1>6. TypeOK' /\ UNCHANGED <<cfg, meta>>
  BY <1>1, <1>4, <1>5, Tuples, FrameType DEF Segments
<1>7. <<>> \in Seq(Quiet) /\ LocalsOK'
  BY <1>4, <1>5, Tuples DEF LocalsOK, Run
<1> QED BY <1>1, <1>4, <1>6, <1>7, RunQuiet

LEMMA StopForceCloseInv == IInv /\ StopForceClose => IInv'
<1> SUFFICES ASSUME IInv, StopForceClose PROVE IInv'
  OBVIOUS
<1>1. /\ TypeOK /\ job \in JobRecords /\ hist \in HistRecords
      /\ UNCHANGED <<store, Environment>>
  BY DEF IInv, TypeOK, StopForceClose
<1>2. CASE Run(<<>>, "return") /\ UNCHANGED <<job, hist>>
  <2>1. TypeOK' /\ UNCHANGED <<cfg, meta>>
    BY <1>1, <1>2, Tuples, FrameType DEF Segments
  <2>2. <<>> \in Seq(Quiet) /\ LocalsOK'
    BY <1>2, Tuples DEF LocalsOK, Run
  <2> QED BY <1>2, <2>1, <2>2, RunQuiet DEF Working
<1>3. ASSUME meta.state # "terminated", NEW w \in CurrentWisp(job.wisp), NEW force \in BOOLEAN,
             force = (w # NoWisp /\ ~Closed(w)),
             job' = [job EXCEPT !.wisp = w, !.forced = force],
             hist' = [hist EXCEPT !.decided = IF force THEN @ \cup {w} ELSE @],
             Run(When(force, <<CloseWisp(w)>>), "stopCommit")
      PROVE  IInv'
  <2>1. w \in Ids /\ (force => w \in WispIds)
    BY <1>1, <1>3, ReadTypes DEF JobRecords, Ids
  <2>2. job' \in JobRecords /\ job'.wisp = w /\ job'.forced = force
    BY <1>1, <1>3, <2>1 DEF JobRecords
  <2>3. hist' \in HistRecords
    <3>1. (IF force THEN hist.decided \cup {w} ELSE hist.decided) \in SUBSET WispIds
      BY <1>1, <2>1 DEF HistRecords
    <3> QED BY <1>1, <1>3, <3>1 DEF HistRecords
  <2>4. When(force, <<CloseWisp(w)>>) \in Seq(Quiet)
    <3>1. CASE force
      BY <2>1, <3>1, QuietCalls, Tuples DEF When
    <3>2. CASE ~force
      BY <3>2, Tuples DEF When
    <3> QED BY <3>1, <3>2
  <2>5. TypeOK' /\ UNCHANGED <<cfg, meta>>
    BY <1>1, <1>3, <2>2, <2>3, <2>4, RunTypes, FrameType DEF Segments
  <2>6. LocalsOK'
    BY <1>3, <2>1, <2>2 DEF LocalsOK, Run
  <2> QED BY <1>3, <2>4, <2>5, <2>6, RunQuiet
<1>4. \A w : (w # NoWisp /\ ~Closed(w)) \in BOOLEAN
  OBVIOUS
<1> QED BY <1>2, <1>3, <1>4 DEF StopForceClose

LEMMA StopCommitInv == IInv /\ StopCommit => IInv'
<1> SUFFICES ASSUME IInv, StopCommit PROVE IInv'
  OBVIOUS
<1> DEFINE events == When(job.forced, <<EmitIteration(ClosedCount, job.wisp)>>)
           marker == IF job.forced THEN job.wisp ELSE meta.last_processed_wisp
           calls == ClearVerdict(TRUE) \o OperatorTerminal("stopped", events, marker)
<1>1. /\ TypeOK /\ pc = "stopCommit" /\ Run(calls, "return")
      /\ UNCHANGED <<store, job, hist, Environment>>
  BY DEF IInv, StopCommit, At
<1>2. meta.state # "terminated" /\ (job.forced => job.wisp \in WispIds)
  BY <1>1 DEF IInv, EndingOK, Working, LocalsOK
<1>3. events \in Seq(Quiet)
  <2>1. CASE job.forced
    BY <1>1, <1>2, <2>1, ReadTypes, QuietCalls, Tuples DEF When
  <2>2. CASE ~job.forced
    BY <2>2, Tuples DEF When
  <2> QED BY <2>1, <2>2
<1>4. marker \in Ids
  BY <1>1 DEF TypeOK, JobRecords, MetaRecords
<1> HIDE DEF events, marker
<1>5. Closing(calls)
  BY <1>3, <1>4, QuietRuns, QuietIsBefore, OperatorTerminalRun, BeforeThenClosing DEF Reasons
<1> HIDE DEF calls
<1>6. TypeOK' /\ UNCHANGED <<cfg, meta>>
  BY <1>1, <1>5, RunTypes, FrameType DEF Segments, TypeOK
<1> QED BY <1>1, <1>2, <1>5, <1>6, RunClosing DEF LocalsOK, Run

\* The runs of the reconciler.
LEMMA ReconcileRun ==
  ASSUME IInv, NEW calls, NEW next \in {"return", "error"}, Run(calls, next),
         UNCHANGED <<store, job, hist, Environment>>,
         \/ calls \in Seq(Quiet)
         \/ Closing(calls) /\ next = "return" /\ meta.state # "terminated"
  PROVE  IInv'
<1>1. TypeOK' /\ UNCHANGED <<cfg, meta>>
  BY RunTypes, FrameType DEF IInv, TypeOK, Segments
<1>2. LocalsOK'
  BY DEF LocalsOK, Run
<1> QED BY <1>1, <1>2, RunQuiet, RunClosing DEF Working

LEMMA ReconcileMissingStateInv == IInv /\ ReconcileMissingState => IInv'
<1>1. <<>> \in Seq(Quiet)
  BY Tuples
<1> QED BY <1>1, ReconcileRun DEF ReconcileMissingState

LEMMA ReconcileWaitingTriggerInv == IInv /\ ReconcileWaitingTrigger => IInv'
<1>1. <<>> \in Seq(Quiet)
  BY Tuples
<1> QED BY <1>1, ReconcileRun DEF ReconcileWaitingTrigger

LEMMA ReconcileCreatingInv == IInv /\ ReconcileCreating => IInv'
<1> DEFINE calls == <<Set("terminal_reason", "partial_creation"), Set("terminal_actor", "recovery"),
                      Set("state", "terminated"), CloseRoot>>
<1>1. /\ Set("terminal_reason", "partial_creation") \in Before
      /\ Set("terminal_actor", "recovery") \in Before
      /\ Set("state", "terminated") \in Ordinary /\ CloseRoot \in Quiet
  BY QuietCalls, StateCalls, Classes DEF Actors, Reasons
<1>2. Closing(calls)
  BY <1>1, EndingTuples, Tuples, Classes DEF Closing
<1> HIDE DEF calls
<1>3. ReconcileCreating => /\ Run(calls, "return") /\ meta.state # "terminated"
                           /\ UNCHANGED <<store, job, hist, Environment>>
  BY DEF ReconcileCreating, Reconciling, calls
<1> QED BY <1>2, <1>3, ReconcileRun

LEMMA ReconcileTerminatedNotClosedInv == IInv /\ ReconcileTerminatedNotClosed => IInv'
<1> SUFFICES ASSUME IInv, ReconcileTerminatedNotClosed PROVE IInv'
  OBVIOUS
<1> DEFINE reason == IF meta.terminal_reason = "" THEN "no_convergence" ELSE meta.terminal_reason
           calls == BackfillTerminalActor \o <<EmitTerminated(reason), CloseRoot>>
<1>1. reason \in Reasons
  BY DEF IInv, TypeOK, MetaRecords, Reasons
<1> HIDE DEF reason
<1>2. <<EmitTerminated(reason), CloseRoot>> \in Seq(Quiet)
  BY <1>1, QuietCalls, Tuples
<1>3. calls \in Seq(Quiet)
  BY <1>2, QuietRuns, ConcatType
<1>4. Run(calls, "return") /\ UNCHANGED <<store, job, hist, Environment>>
  BY DEF ReconcileTerminatedNotClosed, reason
<1> HIDE DEF calls
<1> QED BY <1>3, <1>4, ReconcileRun

LEMMA ReconcileTerminalReasonInv == IInv /\ ReconcileTerminalReason => IInv'
<1> SUFFICES ASSUME IInv, ReconcileTerminalReason PROVE IInv'
  OBVIOUS
<1>1. PICK last \in IF HighestClosed = {} THEN {NoWisp} ELSE HighestClosed :
        Run(CompleteTerminalTransition(last), "return")
  BY DEF ReconcileTerminalReason
<1>2. last \in Ids /\ meta.terminal_reason \in Reasons /\ meta.state # "terminated"
  BY ReadTypes DEF IInv, TypeOK, MetaRecords, ReconcileTerminalReason, Ids, Live
<1>3. Closing(CompleteTerminalTransition(last))
  BY <1>2, CompleteRun
<1> QED BY <1>1, <1>2, <1>3, ReconcileRun DEF ReconcileTerminalReason

LEMMA ReconcileWaitingManualInv == IInv /\ ReconcileWaitingManual => IInv'
<1> SUFFICES ASSUME IInv, ReconcileWaitingManual PROVE IInv'
  OBVIOUS
<1>1. UNCHANGED <<store, job, hist, Environment>>
  BY DEF ReconcileWaitingManual
<1>2. CASE \E w \in IF HighestClosed = {} THEN {meta.last_processed_wisp} ELSE HighestClosed :
             Run(When(w # meta.last_processed_wisp, <<Set("last_processed_wisp", w)>>), "return")
  <2>1. PICK w \in IF HighestClosed = {} THEN {meta.last_processed_wisp} ELSE HighestClosed :
             Run(When(w # meta.last_processed_wisp, <<Set("last_processed_wisp", w)>>), "return")
    BY <1>2
  <2>2. w \in Ids
    BY ReadTypes DEF IInv, TypeOK, MetaRecords, Ids
  <2>3. When(w # meta.last_processed_wisp, <<Set("last_processed_wisp", w)>>) \in Seq(Quiet)
    BY <2>2, QuietCalls, Tuples, WhenType
  <2> QED BY <1>1, <2>1, <2>3, ReconcileRun
<1>3. CASE Run(When(HighestClosed # {}, <<Set("waiting_reason", "manual")>>), "return")
  <2>1. When(HighestClosed # {}, <<Set("waiting_reason", "manual")>>) \in Seq(Quiet)
    BY QuietCalls, Tuples, WhenType DEF Waits
  <2> QED BY <1>1, <1>3, <2>1, ReconcileRun
<1> QED BY <1>2, <1>3 DEF ReconcileWaitingManual

LEMMA ReconcileActiveInv == IInv /\ ReconcileActive => IInv'
<1> SUFFICES ASSUME IInv, ReconcileActive PROVE IInv'
  OBVIOUS
<1>1. /\ TypeOK /\ meta.state # "terminated" /\ job \in JobRecords /\ hist' \in HistRecords
      /\ UNCHANGED <<store, Environment>>
  BY DEF IInv, TypeOK, ReconcileActive, Reconciling
<1>2. PICK w \in CurrentWisp(meta.active_wisp) :
        LET recovered == When(w # meta.active_wisp, <<Set("active_wisp", w)>>)
            next == ClosedCount + 1
        IN \/ Run(recovered, "return") /\ UNCHANGED job
           \/ /\ Closed(w) /\ job' = [job EXCEPT !.wisp = w]
              /\ Run(recovered, "wispClosed")
           \/ /\ job' = [job EXCEPT !.iter = next, !.spec = ValidPendingNextWisp(next)]
              /\ Run(ClearPending(next), "activePour")
  BY DEF ReconcileActive
<1> DEFINE recovered == When(w # meta.active_wisp, <<Set("active_wisp", w)>>)
           next == ClosedCount + 1
<1>3. w \in Ids /\ next \in Nat /\ ValidPendingNextWisp(next) \in Ids
  <2>1. meta.active_wisp \in Ids
    BY <1>1 DEF TypeOK, MetaRecords
  <2> QED BY <1>1, <2>1, ReadTypes
<1>4. recovered \in Seq(Quiet) /\ ClearPending(next) \in Seq(Quiet)
  BY <1>3, QuietCalls, QuietRuns, Tuples, WhenType
<1>5. ASSUME NEW calls \in Seq(Quiet), NEW segment \in {"return", "wispClosed", "activePour"},
             Run(calls, segment), job' \in JobRecords,
             segment = "wispClosed" => job'.wisp \in WispIds
      PROVE  IInv'
  <2>1. TypeOK' /\ UNCHANGED <<cfg, meta>>
    BY <1>1, <1>5, RunTypes, FrameType DEF Segments
  <2>2. LocalsOK'
    BY <1>5 DEF LocalsOK, Run
  <2> QED BY <1>1, <1>5, <2>1, <2>2, RunQuiet
<1>6. CASE Run(recovered, "return") /\ UNCHANGED job
  BY <1>1, <1>4, <1>5, <1>6
<1>7. CASE Closed(w) /\ job' = [job EXCEPT !.wisp = w] /\ Run(recovered, "wispClosed")
  <2>1. job' \in JobRecords /\ job'.wisp \in WispIds
    BY <1>1, <1>3, <1>7 DEF JobRecords, Closed
  <2> QED BY <1>4, <1>5, <1>7, <2>1
<1>8. CASE /\ job' = [job EXCEPT !.iter = next, !.spec = ValidPendingNextWisp(next)]
           /\ Run(ClearPending(next), "activePour")
  <2>1. job' \in JobRecords
    BY <1>1, <1>3, <1>8 DEF JobRecords
  <2> QED BY <1>4, <1>5, <1>8, <2>1
<1> QED BY <1>2, <1>6, <1>7, <1>8

LEMMA TickActiveInv == IInv /\ TickActive => IInv'
<1> SUFFICES ASSUME IInv, TickActive PROVE IInv'
  OBVIOUS
<1>1. TypeOK /\ meta.state # "terminated" /\ UNCHANGED <<store, hist, Environment>>
  BY DEF IInv, TickActive
<1>2. job' \in JobRecords /\ job'.wisp = meta.active_wisp /\ hist' \in HistRecords
  BY <1>1, NoJobType DEF TickActive, Start, TypeOK, MetaRecords, JobRecords
<1>3. PICK next \in {"wispClosed", "reconcile"} :
        Run(<<>>, next) /\ (next = "wispClosed" => meta.active_wisp \in WispIds)
  BY DEF TickActive, Closed
<1>4. TypeOK' /\ UNCHANGED <<cfg, meta>>
  BY <1>1, <1>2, <1>3, Tuples, FrameType DEF Segments
<1>5. <<>> \in Seq(Quiet) /\ LocalsOK'
  BY <1>2, <1>3, Tuples DEF LocalsOK, Run
<1> QED BY <1>1, <1>3, <1>4, <1>5, RunQuiet

\* The steps of the controller that leave no handler running.
LEMMA IdleKeepsInv ==
  ASSUME IInv, UNCHANGED <<cfg, store, hist>>, job' \in JobRecords,
         index' \in BOOLEAN, reconcileDue' \in BOOLEAN,
         used' \in [crashes : Nat, failures : Nat, purges : Nat],
         NEW next \in {"idle", "down", "startup", "reconcile", "populate"}, Run(<<>>, next)
  PROVE  IInv'
<1>1. TypeOK' /\ UNCHANGED <<cfg, meta>>
  BY Tuples DEF IInv, TypeOK, store, Run, Segments
<1>2. <<>> \in Seq(Quiet) /\ LocalsOK'
  BY Tuples DEF LocalsOK, Run
<1> QED BY <1>1, <1>2, RunQuiet DEF Working

LEMMA StartupReconcileInv == IInv /\ StartupReconcile => IInv'
<1> SUFFICES ASSUME IInv, StartupReconcile PROVE IInv'
  OBVIOUS
<1>1. job' \in JobRecords
  BY NoJobType DEF IInv, TypeOK, StartupReconcile, Start, JobRecords, Ids
<1>2. /\ index' \in BOOLEAN /\ reconcileDue' \in BOOLEAN
      /\ used' \in [crashes : Nat, failures : Nat, purges : Nat]
  <2>1. CASE UNCHANGED <<used, index, reconcileDue>>
    BY <2>1 DEF IInv, TypeOK
  <2>2. CASE /\ used' = [used EXCEPT !.failures = @ + 1]
             /\ reconcileDue' = TRUE /\ index' = FALSE
    <3>1. used' \in [crashes : Nat, failures : Nat, purges : Nat]
      BY <2>2 DEF IInv, TypeOK
    <3> QED BY <2>2, <3>1, Zenon
  <2> QED BY <2>1, <2>2 DEF StartupReconcile
<1>3. PICK next \in {"idle", "reconcile", "populate"} : Run(<<>>, next)
  BY DEF StartupReconcile
<1> QED BY <1>1, <1>2, <1>3, IdleKeepsInv DEF StartupReconcile

LEMMA PopulateIndexInv == IInv /\ PopulateIndex => IInv'
<1> SUFFICES ASSUME IInv, PopulateIndex PROVE IInv'
  OBVIOUS
<1>1. index' \in BOOLEAN
  <2>1. (bead = "in_progress" /\ meta.state \in Live) \in BOOLEAN
    OBVIOUS
  <2> QED BY <2>1 DEF PopulateIndex
<1>2. reconcileDue' \in BOOLEAN
  BY Zenon DEF PopulateIndex
<1>3. used' \in [crashes : Nat, failures : Nat, purges : Nat]
  <2>1. CASE UNCHANGED used
    BY <2>1 DEF IInv, TypeOK
  <2>2. CASE used' = [used EXCEPT !.failures = @ + 1]
    BY <2>2 DEF IInv, TypeOK
  <2> QED BY <2>1, <2>2 DEF PopulateIndex
<1> QED BY <1>1, <1>2, <1>3, NoJobType, IdleKeepsInv DEF PopulateIndex

LEMMA CrashInv == IInv /\ Crash => IInv'
<1> SUFFICES ASSUME IInv, Crash PROVE IInv'
  OBVIOUS
<1>1. used' \in [crashes : Nat, failures : Nat, purges : Nat]
  BY DEF IInv, TypeOK, Crash
<1> QED BY <1>1, NoJobType, IdleKeepsInv DEF Crash

LEMMA RestartInv == IInv /\ Restart => IInv'
BY IdleKeepsInv DEF Restart, Environment, IInv, TypeOK

LEMMA ReloadInv == IInv /\ Reload => IInv'
<1> SUFFICES ASSUME IInv, Reload PROVE IInv'
  OBVIOUS
<1>1. Run(<<>>, "idle")
  BY DEF Reload, At, Run
<1> QED BY <1>1, IdleKeepsInv DEF Reload, IInv, TypeOK

\* A purge or an agent changes neither the handler nor the state of the loop.
LEMMA OutsideKeepsInv ==
  ASSUME IInv, TypeOK', UNCHANGED <<cfg, pc, todo, job, meta.state, meta.gate_outcome,
                                    meta.gate_outcome_wisp>>
  PROVE  IInv'
<1>1. GateRecorded'
  BY DEF IInv, GateRecorded, NeedsManualWithoutGate, HybridNeedsManual
<1>2. LocalsOK' /\ EndingOK'
  BY DEF IInv, LocalsOK, EndingOK, NeedsManualWithoutGate, HybridNeedsManual
<1> QED BY <1>1, <1>2 DEF IInv

LEMMA OutsideInv ==
  ASSUME IInv, NEW w \in WispIds, PurgeWisp(w) \/ AgentVerdict(w) \/ AgentCloses(w)
  PROVE  IInv'
<1>1. TypeOK
  BY DEF IInv
<1>2. CASE PurgeWisp(w)
  <2>1. wisp' \in [WispIds -> WispRecords]
    BY <1>1, <1>2, StatusType DEF PurgeWisp
  <2>2. used' \in [crashes : Nat, failures : Nat, purges : Nat]
    BY <1>1, <1>2 DEF PurgeWisp, TypeOK
  <2>3. TypeOK'
    BY <1>1, <1>2, <2>1, <2>2 DEF TypeOK, PurgeWisp
  <2> QED BY <1>2, <2>3, OutsideKeepsInv DEF PurgeWisp
<1>3. CASE AgentVerdict(w)
  <2>1. /\ meta' \in MetaRecords
        /\ UNCHANGED <<meta.state, meta.gate_outcome, meta.gate_outcome_wisp>>
    BY <1>1, <1>3 DEF TypeOK, AgentVerdict, MetaRecords, Ids
  <2>2. TypeOK'
    BY <1>1, <1>3, <2>1 DEF TypeOK, AgentVerdict
  <2> QED BY <1>3, <2>1, <2>2, OutsideKeepsInv DEF AgentVerdict
<1>4. CASE AgentCloses(w)
  <2>1. wisp' \in [WispIds -> WispRecords]
    BY <1>1, <1>4, StatusType DEF AgentCloses
  <2>2. TypeOK'
    BY <1>1, <1>4, <2>1 DEF TypeOK, AgentCloses
  <2> QED BY <1>4, <2>2, OutsideKeepsInv DEF AgentCloses
<1> QED BY <1>2, <1>3, <1>4

-----------------------------------------------------------------------------
(* Before the root is opened. *)

LEMMA UncreatedInv == TypeOK /\ Uncreated /\ [Next]_vars => Uncreated'
<1> SUFFICES ASSUME TypeOK, Uncreated, [Next]_vars, bead' = "absent"
             PROVE  meta'.state = "" /\ todo' = <<>> /\ pc' \in {"idle", "down", "startup", "populate"}
  BY DEF Uncreated
<1> USE DEF Uncreated, At, Run, store, Environment
<1>1. CASE StoreCall \/ StoreCallFails
  BY <1>1 DEF StoreCall, StoreCallFails, Perform
<1>2. CASE HandlerReturns
  BY <1>2 DEF HandlerReturns
<1>3. CASE CreateHandler \/ CreatePour \/ CreateRollback
  BY <1>3 DEF CreateHandler, CreatePour, CreateRollback
<1>4. CASE HandleWispClosed \/ SpeculativePour \/ BurnAfterError \/ EvaluateGate \/ ActOnOutcome
  BY <1>4 DEF HandleWispClosed, SpeculativePour, BurnAfterError, EvaluateGate, ActOnOutcome
<1>5. CASE ApproveHandler \/ IterateHandler \/ IteratePour
  BY <1>5 DEF ApproveHandler, IterateHandler, IteratePour
<1>6. CASE StopHandler \/ StopForceClose \/ StopCommit
  BY <1>6 DEF StopHandler, StopForceClose, StopCommit, Live
<1>7. CASE HandleTrigger \/ AdvanceFromTrigger
  BY <1>7 DEF HandleTrigger, AdvanceFromTrigger
<1>8. CASE ReconcileMissingState \/ ReconcileCreating \/ ReconcileTerminatedNotClosed
           \/ ReconcileTerminalReason \/ ReconcileWaitingManual \/ ReconcileWaitingTrigger
           \/ ReconcileActive \/ ReconcilePour
  BY <1>8 DEF ReconcileMissingState, ReconcileCreating, ReconcileTerminatedNotClosed,
              ReconcileTerminalReason, ReconcileWaitingManual, ReconcileWaitingTrigger,
              ReconcileActive, ReconcilePour, Reconciling
<1>9. CASE TickActive \/ StartupReconcile \/ PopulateIndex
  BY <1>9 DEF TickActive, StartupReconcile, PopulateIndex
<1>10. CASE Crash \/ Restart \/ Reload
  BY <1>10 DEF Crash, Restart, Reload
<1>11. ASSUME NEW w \in WispIds, PurgeWisp(w) \/ AgentVerdict(w) \/ AgentCloses(w)
       PROVE  meta'.state = "" /\ todo' = <<>> /\ pc' \in {"idle", "down", "startup", "populate"}
  <2>1. CASE PurgeWisp(w) \/ AgentCloses(w)
    BY <2>1 DEF PurgeWisp, AgentCloses
  <2>2. CASE AgentVerdict(w)
    BY <2>2 DEF AgentVerdict, TypeOK, MetaRecords
  <2> QED BY <1>11, <2>1, <2>2
<1>12. CASE UNCHANGED vars
  BY <1>12 DEF vars
<1> QED BY <1>1, <1>2, <1>3, <1>4, <1>5, <1>6, <1>7, <1>8, <1>9, <1>10, <1>11, <1>12
        DEF Next, HandlerStep, Tick, Request

-----------------------------------------------------------------------------
(* Theorems. *)

LEMMA InitInv == Init => IInv /\ Uncreated
<1> SUFFICES ASSUME Init PROVE IInv /\ Uncreated
  OBVIOUS
<1>1. wisp \in [WispIds -> WispRecords] /\ hist \in HistRecords
  BY DEF Init, WispRecords, HistRecords
<1>2. meta \in MetaRecords /\ meta.gate_outcome_wisp = NoWisp /\ meta.state = ""
  BY DEF Init, MetaRecords, States, Ids
<1>3. TypeOK
  BY <1>1, <1>2, NoJobType, Tuples DEF Init, TypeOK, Segments
<1>4. GateRecorded /\ LocalsOK /\ EndingOK /\ Uncreated
  BY <1>2, Tuples, OpeningEndsOnce DEF Init, GateRecorded, LocalsOK, EndingOK, Uncreated, Working
<1> QED BY <1>3, <1>4 DEF IInv

LEMMA NextInv == IInv /\ Uncreated /\ [Next]_vars => IInv'
<1> SUFFICES ASSUME IInv, Uncreated, [Next]_vars PROVE IInv'
  OBVIOUS
<1>1. CASE HandlerStep
  BY <1>1, StoreCallInv, HandlerReturnsInv, CreatePourInv, CreateRollbackInv,
     HandleWispClosedInv, SpeculativePourInv, BurnAfterErrorInv, EvaluateGateInv,
     ActOnOutcomeInv, IteratePourInv, StopForceCloseInv, StopCommitInv,
     AdvanceFromTriggerInv, ReconcileMissingStateInv, ReconcileCreatingInv,
     ReconcileTerminatedNotClosedInv, ReconcileTerminalReasonInv,
     ReconcileWaitingManualInv, ReconcileWaitingTriggerInv, ReconcileActiveInv,
     ReconcilePourInv, PopulateIndexInv
     DEF HandlerStep
<1>2. CASE Tick \/ Request
  BY <1>2, TickActiveInv, HandleTriggerInv, StartupReconcileInv, CreateHandlerInv,
     ApproveHandlerInv, IterateHandlerInv, StopHandlerInv DEF Tick, Request
<1>3. CASE StoreCallFails \/ Crash \/ Restart \/ Reload
  BY <1>3, StoreCallFailsInv, CrashInv, RestartInv, ReloadInv
<1>4. CASE \E w \in WispIds : PurgeWisp(w) \/ AgentVerdict(w) \/ AgentCloses(w)
  BY <1>4, OutsideInv
<1>5. CASE UNCHANGED vars
  <2>1. TypeOK'
    BY <1>5 DEF vars, IInv, TypeOK
  <2> QED BY <1>5, <2>1, OutsideKeepsInv DEF vars
<1> QED BY <1>1, <1>2, <1>3, <1>4, <1>5 DEF Next

LEMMA Invariance == Spec => [](IInv /\ Uncreated)
<1>1. IInv => TypeOK
  BY DEF IInv
<1> QED BY <1>1, InitInv, NextInv, UncreatedInv, PTL DEF Spec

\* Every variable keeps its type, and every store call a handler makes is one the
\* store has, on a field and with a value of that field.
THEOREM TypeCorrect == Spec => []TypeOK
<1>1. IInv => TypeOK
  BY DEF IInv
<1> QED BY <1>1, Invariance, PTL

\* The two branches that HandleWispClosed calls unreachable (a terminated loop, and
\* iterate without a speculative wisp) are never taken.
THEOREM DefensiveBranchesAreDead == Spec => []DefensiveBranchesDead
<1>1. IInv => DefensiveBranchesDead
  <2> SUFFICES ASSUME IInv PROVE DefensiveBranchesDead
    OBVIOUS
  <2>1. pc = "wispClosed" => meta.state # "terminated"
    BY DEF IInv, EndingOK, Working
  <2>2. ASSUME At("act"), job.spec = NoWisp
        PROVE  \/ TimeoutHolds \/ GateApproves \/ GateGivesUp
               \/ job.pourErr \/ cfg.trigger
    <3>1. pc = "act" /\ ~NeedsManualWithoutGate /\ job.spec \notin WispIds /\ job.iter \in Nat
      BY <2>2, NoWispAssumption DEF At, IInv, GateRecorded, TypeOK, JobRecords
    <3>2. job.iter < MaxIterations => job.pourErr \/ cfg.trigger
      BY <3>1 DEF IInv, LocalsOK
    <3> QED BY <3>1, <3>2, MaxIterationsAssumption DEF GateGivesUp, GateApproves
  <2> QED BY <2>1, <2>2 DEF DefensiveBranchesDead
<1> QED BY <1>1, Invariance, PTL

\* No step of any handler, of the reconciler, or of an agent takes a terminated loop
\* out of its state or changes its reason, and none reopens a closed root.
LEMMA StepKeepsTermination ==
  ASSUME IInv, [Next]_vars
  PROVE  /\ meta.state = "terminated" => /\ meta'.state = "terminated"
                                         /\ meta'.terminal_reason = meta.terminal_reason
         /\ bead = "closed" => bead' = "closed"
<1> DEFINE Kept == /\ meta.state = "terminated" =>
                        /\ meta'.state = "terminated"
                        /\ meta'.terminal_reason = meta.terminal_reason
                   /\ bead = "closed" => bead' = "closed"
<1> SUFFICES Kept
  OBVIOUS
<1>1. ASSUME todo # <<>>, Perform(Head(todo))
      PROVE  Kept
  <2> DEFINE c == Head(todo)
  <2>1. c \in Calls /\ TypeOK
    BY <1>1, TailOf DEF IInv, TypeOK
  <2>2. /\ meta'.state = IF c.f = "state" THEN c.v ELSE meta.state
        /\ meta'.terminal_reason = IF c.f = "terminal_reason" THEN c.v ELSE meta.terminal_reason
    BY <1>1, <2>1, PerformMeta
  <2>3. meta.state = "terminated" => c \in Ended
    BY <1>1, TailOf DEF IInv, EndingOK
  <2>4. bead = "closed" => bead' = "closed"
    BY <1>1 DEF Perform
  <2> HIDE DEF c
  <2> QED BY <2>2, <2>3, <2>4 DEF Ended
<1>2. CASE UNCHANGED <<meta, bead>>
  BY <1>2
<1>3. CASE StoreCall \/ StoreCallFails
  BY <1>1, <1>2, <1>3 DEF StoreCall, StoreCallFails
<1>4. CASE CreateHandler
  BY <1>4 DEF CreateHandler
<1>5. CASE \E w \in WispIds : AgentVerdict(w)
  BY <1>5 DEF AgentVerdict, IInv, TypeOK, MetaRecords
<1>6. CASE HandlerStep /\ ~StoreCall
  BY <1>2, <1>6
     DEF HandlerStep, HandlerReturns, CreatePour, CreateRollback, HandleWispClosed,
         SpeculativePour, BurnAfterError, EvaluateGate, ActOnOutcome, IteratePour,
         StopForceClose, StopCommit, AdvanceFromTrigger, ReconcileMissingState,
         ReconcileCreating, ReconcileTerminatedNotClosed, ReconcileTerminalReason,
         ReconcileWaitingManual, ReconcileWaitingTrigger, ReconcileActive, ReconcilePour,
         PopulateIndex, store
<1>7. CASE Tick \/ ApproveHandler \/ IterateHandler \/ StopHandler
  BY <1>2, <1>7 DEF Tick, TickActive, HandleTrigger, StartupReconcile, ApproveHandler,
                    IterateHandler, StopHandler, store
<1>8. CASE Crash \/ Restart \/ Reload \/ \E w \in WispIds : PurgeWisp(w) \/ AgentCloses(w)
  BY <1>2, <1>8 DEF Crash, Restart, Reload, PurgeWisp, AgentCloses, store
<1>9. CASE UNCHANGED vars
  BY <1>2, <1>9 DEF vars
<1> HIDE DEF Kept
<1> QED BY <1>3, <1>4, <1>5, <1>6, <1>7, <1>8, <1>9 DEF Next, Request

\* A loop that has terminated stays so, whatever crashes, store errors, operator
\* requests and reconciliations follow.
THEOREM TerminationFinal == Spec => TerminationIsFinal
<1>1. IInv /\ [Next]_vars =>
        [/\ meta.state = "terminated" => /\ meta'.state = "terminated"
                                         /\ meta'.terminal_reason = meta.terminal_reason
         /\ bead = "closed" => bead' = "closed"]_vars
  BY StepKeepsTermination
<1> QED BY <1>1, Invariance, PTL DEF Spec, TerminationIsFinal

=============================================================================
