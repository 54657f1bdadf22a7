----------------------------- MODULE AgentProofs -----------------------------
(***************************************************************************)
(* Proofs about Agent: Run composed with the state machine, Send and the   *)
(* error collector, for every number of snapshots, retries, time units and *)
(* calls from outside.                                                     *)
(*                                                                         *)
(* A step of the agent is a step of the transport, or one that changes the *)
(* error collector only; what TransportProofs shows of the transport       *)
(* carries over.                                                           *)
(***************************************************************************)
EXTENDS Agent, TransportProofs, FiniteSetTheorems

StartPcs == {"start", "sync", "toRunning", "setReady"}

\* Where Run is tells whether a Send is under way, how many snapshots were built, and
\* that there is room for the one it is about to take.
FlowInv ==
    /\ runPc = "sending" <=> sendPc # "idle"
    /\ built = IF runPc = "send" THEN snap + 1 ELSE snap
    /\ runPc \in StartPcs => snap = 0
    /\ runPc \in {"build", "send", "resume"} => snap < MaxSends
    /\ runPc = "dispatch" /\ seenState \notin TerminalStates => snap < MaxSends
    /\ runPc \in {"sending", "account"} => snap > 0

\* Before the agent is ready nobody but Run changes its state.
ReadyInv ==
    runPc \in StartPcs => ~ready /\ snapAtStop = -1

\* Run has decided to take a snapshot and has not called Send yet.
Decided ==
    \/ runPc \in {"build", "send"}
    \/ runPc = "dispatch" /\ seenState \notin TerminalStates

\* A stop lasts: the state stays terminal and Run is never about to overwrite it.  It
\* leaves room for one Send, and for none once it was called.
StopInv ==
    snapAtStop >= 0 =>
        /\ smState \in TerminalStates
        /\ ~OverwritesState
        /\ snap <= snapAtStop + 1
        /\ Decided => snap <= snapAtStop

\* Since the cancellation no time passes in Run but that of one sleep of a Send and that
\* of StopAll.
PromptInv ==
    /\ sinceCancel > 0 => ctxDone
    /\ sinceCancel <= LongestSleep + stopTime
    /\ sendPc = "loop" /\ attempt > 0 => sinceCancel = 0
    /\ sendPc \in {"post", "wait"} => sinceCancel = 0
    /\ sendPc = "sleep" => sinceCancel + timer <= LongestSleep

\* StopAll runs once the loop is over.
StopTimeInv == ~LoopOver => stopTime = 0

\* The error collector's entry and the age of the last failure agree.
AgeInv ==
    IF Expired(failAge)
       THEN BackendUnreachable \in DOMAIN entries => Expired(entries[BackendUnreachable])
       ELSE BackendUnreachable \in DOMAIN entries /\ entries[BackendUnreachable] = failAge

\* The sends that have returned, and how the first n of them ended.
Completed == IF runPc \in {"sending", "account"} THEN snap - 1 ELSE snap
SentIn(f, n) == {s \in 1 .. n : f[s] = "sent"}
FailedIn(f, n) == {s \in 1 .. n : f[s] \notin {"none", "sent"}}
LocalIn(f, n) == {s \in 1 .. n : f[s] \in LocalErrors}

\* A Send that has returned has an outcome.
OutcomeInv ==
    \A s \in Snapshots : s < snap \/ (s = snap /\ sendPc = "idle") => outcome[s] # "none"

\* The agent counts the completed sends, the transport's metrics the posted ones too.
CountInv ==
    /\ totalCount = Completed
    /\ totalCount = sentCount + failedCount
    /\ sentCount = Cardinality(SentIn(outcome, Completed))
    /\ failedCount = Cardinality(FailedIn(outcome, Completed))
    /\ sendTotal.success = Cardinality(SentIn(outcome, snap))
    /\ sendTotal.error + Cardinality(LocalIn(outcome, snap)) = Cardinality(FailedIn(outcome, snap))

\* The previous counters are those of the newest snapshot.
HealthInv ==
    /\ prevSent = IF built = 0 THEN 0 ELSE reports[built].sent
    /\ prevFailed = IF built = 0 THEN 0 ELSE reports[built].failed
    /\ prevSent <= sentCount /\ prevFailed <= failedCount
    /\ HealthCountsCompletedSends

------------------------------------------------------------------------------
(* The transport's invariants hold of the composition.                      *)

\* What a step of the agent is to the transport.
LEMMA TransportPart ==
    ASSUME [Next]_vars
    PROVE  \/ [TransportNext]_transportVars
           \/ /\ UNCHANGED <<ctxDone, sendVars, wireVars, backendVars>>
              /\ Report(InformerSyncTimeout) \/ GetActiveErrors
<1>1. CASE UNCHANGED transportVars
  BY <1>1
<1>2. CASE SyncIncomplete \/ BuildSnapshot
  BY <1>2 DEF SyncIncomplete, BuildSnapshot
<1>3. CASE CallSend \/ RunSend \/ Shutdown \/ Backend
  BY <1>3 DEF CallSend, RunSend, Shutdown, Backend, TransportNext
<1>4. CASE Tick
  BY <1>4 DEF Tick, TransportNext, TransportTick
<1>5. CASE StartCollectors \/ StartFailed \/ SyncCompleted \/ EnterRunning \/ SetReady
  BY <1>1, <1>5 DEF StartCollectors, StartFailed, SyncCompleted, EnterRunning, SetReady, RunOnly
<1>6. CASE LoopCanceled \/ OnTick \/ DispatchRunning \/ DispatchBackoff \/ ResumeFromBackoff
  BY <1>1, <1>6 DEF LoopCanceled, OnTick, DispatchRunning, DispatchBackoff, ResumeFromBackoff,
     RunOnly
<1>7. CASE DispatchTerminal \/ Recheck \/ StopCollectors \/ AccountFailure \/ AccountSuccess
  BY <1>1, <1>7 DEF DispatchTerminal, Recheck, StopCollectors, AccountFailure, AccountSuccess,
     RunOnly
<1>8. CASE CheckStateAfterSend \/ HandleSuccess \/ ExternalStatus
  BY <1>1, <1>8 DEF CheckStateAfterSend, HandleSuccess, ExternalStatus, RunOnly
<1> QED
  BY <1>1, <1>2, <1>3, <1>4, <1>5, <1>6, <1>7, <1>8 DEF Next, RunStep, vars

\* Expiring old errors keeps the error collector's map well formed.
LEMMA ExpiryType ==
    ASSUME EntriesType, GetActiveErrors
    PROVE  EntriesType'
  BY DEF EntriesType, GetActiveErrors, ActiveErrors

\* The transport's inductive invariant.
WireInv == TransportTypeOK /\ DeliveryInv /\ OrderInv

\* It holds initially.
LEMMA WireInit == Init => WireInv
  BY InitInv, InitOrder DEF Init, WireInv

\* Every step of the agent preserves it.
LEMMA WireNext ==
    ASSUME WireInv, [Next]_vars
    PROVE  WireInv'
<1>1. CASE [TransportNext]_transportVars
  BY <1>1, NextInv, OrderNext DEF WireInv
<1>2. CASE /\ UNCHANGED <<ctxDone, sendVars, wireVars, backendVars>>
           /\ Report(InformerSyncTimeout) \/ GetActiveErrors
  <2>1. EntriesType'
    <3>1. InformerSyncTimeout \in ErrKeys
      BY DEF ErrKeys
    <3> QED BY <1>2, <3>1, ReportType, ExpiryType DEF WireInv, TransportTypeOK
  <2>2. SendType' /\ ResultType' /\ WireType'
    BY <1>2 DEF WireInv, TransportTypeOK, SendType, ResultType, WireType, sendVars, wireVars,
       backendVars
  <2>3. LoopInv' /\ StoreInv' /\ OrderInv'
    BY <1>2 DEF WireInv, DeliveryInv, LoopInv, StoreInv, OrderInv, sendVars, wireVars,
       backendVars
  <2> QED BY <2>1, <2>2, <2>3 DEF WireInv, TransportTypeOK, DeliveryInv
<1> QED
  BY <1>1, <1>2, TransportPart

------------------------------------------------------------------------------
(* Where Run is.                                                            *)

\* A step of a Send under way stays with its snapshot, and leaves the other outcomes.
LEMMA SendStepFrame ==
    ASSUME SendStep
    PROVE  /\ sendPc # "idle"
           /\ UNCHANGED <<snap, ctxDone>>
           /\ sendPc' # "idle" => UNCHANGED <<outcome, sendTotal, entries>>
           /\ sendPc' = "idle" => RecordResult
<1>1. CASE LoopHead \/ Wake \/ CheckContext \/ Post
  BY <1>1 DEF LoopHead, Wake, CheckContext, Post
<1>2. CASE PostCanceled \/ RequestFailed \/ ResponseRejected \/ ResponseAccepted
  BY <1>2 DEF PostCanceled, RequestFailed, ResponseRejected, ResponseAccepted, AttemptFailed
<1>3. CASE RecordResult
  BY <1>3 DEF RecordResult
<1> QED
  BY <1>1, <1>2, <1>3 DEF SendStep

\* Every step keeps Run's position, its sends and its snapshots in line.
LEMMA FlowNext ==
    ASSUME WireInv, RunType, FlowInv, [Next]_vars
    PROVE  FlowInv'
<1>s. snap \in Nat /\ MaxSends \in Nat /\ snap <= MaxSends
  BY TransportAssumption DEF WireInv, TransportTypeOK, SendType
<1>r. resumeAt \in {"select", "recheck"}
  BY DEF RunType
<1> USE DEF FlowInv, StartPcs, TerminalStates, transportVars, sendVars, healthVars, RunOnly
<1>1. CASE StartCollectors \/ StartFailed \/ SyncCompleted \/ SyncIncomplete
  BY <1>1 DEF StartCollectors, StartFailed, SyncCompleted, SyncIncomplete
<1>2. CASE EnterRunning \/ SetReady
  <2>1. /\ runPc' \in {"setReady", "build"} /\ runPc \in {"toRunning", "setReady"}
        /\ UNCHANGED <<sendPc, snap, built, seenState>>
    BY <1>2 DEF EnterRunning, SetReady
  <2>2. snap = 0 /\ 0 < MaxSends
    BY <2>1, <1>s, AgentAssumption
  <2> QED
    BY <2>1, <2>2
<1>3. CASE LoopCanceled \/ DispatchRunning \/ DispatchTerminal
  BY <1>3 DEF LoopCanceled, DispatchRunning, DispatchTerminal
<1>4. CASE OnTick
  BY <1>4 DEF OnTick
<1>5. CASE DispatchBackoff \/ ResumeFromBackoff
  BY <1>5 DEF DispatchBackoff, ResumeFromBackoff
<1>6. CASE Recheck \/ StopCollectors \/ CheckStateAfterSend \/ HandleSuccess
  BY <1>6, <1>r DEF Recheck, StopCollectors, CheckStateAfterSend, HandleSuccess
<1>7. CASE BuildSnapshot
  BY <1>7, <1>s DEF BuildSnapshot
<1>8. CASE CallSend
  BY <1>8, <1>s DEF CallSend, SendBegin, SendRejected
<1>9. CASE RunSend
  BY <1>9, SendStepFrame DEF RunSend
<1>10. CASE AccountFailure \/ AccountSuccess
  BY <1>10, <1>r DEF AccountFailure, AccountSuccess
<1>11. CASE ExternalStatus \/ Shutdown
  BY <1>11 DEF ExternalStatus, Shutdown, Cancel
<1>12. CASE Backend
  BY <1>12 DEF Backend, BackendServes, Serve
<1>13. CASE Tick
  BY <1>13 DEF Tick, SendElapses
<1>14. CASE UNCHANGED vars
  BY <1>14 DEF vars
<1> QED
  BY <1>1, <1>2, <1>3, <1>4, <1>5, <1>6, <1>7, <1>8, <1>9, <1>10, <1>11, <1>12, <1>13, <1>14
     DEF Next, RunStep

\* Every step keeps Run's locals within their types.
LEMMA RunTypeNext ==
    ASSUME RunType, StateMachineType, [Next]_vars
    PROVE  RunType'
<1>m. smState \in AgentStates
  BY DEF StateMachineType
<1> USE DEF RunType, RunPcs, RunOnly
<1>1. CASE StartCollectors \/ StartFailed \/ SyncCompleted \/ SyncIncomplete
  BY <1>1 DEF StartCollectors, StartFailed, SyncCompleted, SyncIncomplete
<1>2. CASE EnterRunning \/ SetReady \/ LoopCanceled
  BY <1>2 DEF EnterRunning, SetReady, LoopCanceled
<1>3. CASE OnTick
  BY <1>3, <1>m DEF OnTick
<1>4. CASE DispatchRunning \/ DispatchBackoff \/ ResumeFromBackoff \/ DispatchTerminal
  BY <1>4 DEF DispatchRunning, DispatchBackoff, ResumeFromBackoff, DispatchTerminal
<1>5. CASE Recheck \/ StopCollectors \/ BuildSnapshot \/ CallSend \/ RunSend
  BY <1>5 DEF Recheck, StopCollectors, BuildSnapshot, CallSend, RunSend
<1>6. CASE AccountFailure \/ AccountSuccess \/ CheckStateAfterSend \/ HandleSuccess
  BY <1>6 DEF AccountFailure, AccountSuccess, CheckStateAfterSend, HandleSuccess
<1>7. CASE ExternalStatus \/ Shutdown \/ Backend \/ Tick \/ UNCHANGED vars
  BY <1>7 DEF ExternalStatus, Shutdown, Backend, Tick, vars
<1> QED
  BY <1>1, <1>2, <1>3, <1>4, <1>5, <1>6, <1>7 DEF Next, RunStep

\* A status leaves the state machine well formed.
LEMMA HandleType ==
    ASSUME StateMachineType, NEW status, NEW retryAfter \in {0, 1},
           HandleHTTPStatus(status, retryAfter)
    PROVE  StateMachineType'
<1>1. ASSUME NEW reason \in Reasons, NEW default \in Nat, EnterBackoff(reason, retryAfter, default)
      PROVE  StateMachineType'
  <2>1. backoffLeft' \in Int /\ backoffLeft' >= -1
    BY <1>1 DEF EnterBackoff
  <2> QED BY <1>1, <2>1 DEF EnterBackoff, StateMachineType, AgentStates
<1>2. ASSUME NEW state \in AgentStates, NEW reason \in Reasons, TransitionTo(state, reason)
      PROVE  StateMachineType'
  BY <1>2 DEF TransitionTo, StateMachineType
<1> QED
  <2>1. /\ {"running", "stopped", "exiting", smState} \subseteq AgentStates
        /\ {"", "authentication failed", "agent deprecated", "server error"} \subseteq Reasons
        /\ {"quota exceeded", "rate limited"} \subseteq Reasons
    BY DEF StateMachineType, AgentStates, Reasons
  <2>2. QuotaBackoff \in Nat /\ RateBackoff \in Nat
    BY BackoffAssumption
  <2>3. CASE status = 402 /\ EnterBackoff("quota exceeded", retryAfter, QuotaBackoff)
    BY <1>1, <2>1, <2>2, <2>3
  <2>4. CASE status = 429 /\ EnterBackoff("rate limited", retryAfter, RateBackoff)
    BY <1>1, <2>1, <2>2, <2>4
  <2>5. CASE \/ TransitionTo("running", "")
             \/ TransitionTo("stopped", "authentication failed")
             \/ TransitionTo("exiting", "agent deprecated")
             \/ TransitionTo(smState, "server error")
    BY <1>2, <2>1, <2>5
  <2> QED BY <2>3, <2>4, <2>5 DEF HandleHTTPStatus

\* Every step keeps the state machine well formed.
LEMMA StateTypeNext ==
    ASSUME StateMachineType, [Next]_vars
    PROVE  StateMachineType'
<1>1. CASE EnterRunning \/ ResumeFromBackoff
  <2>1. \E reason \in Reasons : TransitionTo("running", reason)
    BY <1>1 DEF EnterRunning, ResumeFromBackoff, Reasons
  <2> QED BY <2>1 DEF TransitionTo, StateMachineType, AgentStates
<1>2. CASE HandleSuccess
  BY <1>2, HandleType DEF HandleSuccess
<1>3. CASE ExternalStatus
  BY <1>3, HandleType DEF ExternalStatus
<1>4. CASE Tick
  <2>1. /\ UNCHANGED <<smState, smReason>>
        /\ backoffLeft' = IF backoffLeft < 0 THEN backoffLeft ELSE backoffLeft - 1
    BY <1>4 DEF Tick, BackoffElapses
  <2>2. backoffLeft \in Int /\ backoffLeft >= -1
    BY DEF StateMachineType
  <2>3. backoffLeft' \in Int /\ backoffLeft' >= -1
    BY <2>1, <2>2
  <2> QED BY <2>1, <2>3 DEF StateMachineType
<1>5. CASE UNCHANGED smVars
  BY <1>5 DEF smVars, StateMachineType
<1>6. CASE StartCollectors \/ StartFailed \/ SyncCompleted \/ SyncIncomplete \/ SetReady
  BY <1>5, <1>6 DEF StartCollectors, StartFailed, SyncCompleted, SyncIncomplete, SetReady
<1>7. CASE LoopCanceled \/ OnTick \/ DispatchRunning \/ DispatchBackoff \/ DispatchTerminal
  BY <1>5, <1>7 DEF LoopCanceled, OnTick, DispatchRunning, DispatchBackoff, DispatchTerminal
<1>8. CASE Recheck \/ StopCollectors \/ BuildSnapshot \/ CallSend \/ RunSend
  BY <1>5, <1>8 DEF Recheck, StopCollectors, BuildSnapshot, CallSend, RunSend
<1>9. CASE AccountFailure \/ AccountSuccess \/ CheckStateAfterSend
  BY <1>5, <1>9 DEF AccountFailure, AccountSuccess, CheckStateAfterSend
<1>10. CASE Shutdown \/ Backend \/ UNCHANGED vars
  BY <1>5, <1>10 DEF Shutdown, Backend, vars
<1> QED
  BY <1>1, <1>2, <1>3, <1>4, <1>6, <1>7, <1>8, <1>9, <1>10 DEF Next, RunStep

\* Every step keeps the two flags flags.
LEMMA FlagTypeNext ==
    ASSUME FlagType, [Next]_vars
    PROVE  FlagType'
<1>1. CASE UNCHANGED <<ready, tickPending, allStarted>>
  BY <1>1 DEF FlagType
<1>2. CASE StartCollectors \/ SetReady \/ OnTick \/ StopCollectors
  BY <1>2 DEF StartCollectors, SetReady, OnTick, StopCollectors, RunOnly, tickerVars, FlagType
<1>3. CASE Tick
  BY <1>3 DEF Tick, TickerElapses, tickerVars, FlagType
<1>4. CASE StartFailed \/ SyncCompleted \/ SyncIncomplete \/ EnterRunning
  BY <1>1, <1>4 DEF StartFailed, SyncCompleted, SyncIncomplete, EnterRunning, RunOnly,
     tickerVars
<1>5. CASE LoopCanceled \/ DispatchRunning \/ DispatchBackoff \/ ResumeFromBackoff
           \/ DispatchTerminal \/ Recheck
  BY <1>1, <1>5 DEF LoopCanceled, DispatchRunning, DispatchBackoff, ResumeFromBackoff,
     DispatchTerminal, Recheck, RunOnly, tickerVars
<1>6. CASE BuildSnapshot \/ CallSend \/ RunSend
  BY <1>1, <1>6 DEF BuildSnapshot, CallSend, RunSend, tickerVars
<1>7. CASE AccountFailure \/ AccountSuccess \/ CheckStateAfterSend \/ HandleSuccess
  BY <1>1, <1>7 DEF AccountFailure, AccountSuccess, CheckStateAfterSend, HandleSuccess, RunOnly,
     tickerVars
<1>8. CASE ExternalStatus \/ Shutdown \/ Backend \/ UNCHANGED vars
  BY <1>1, <1>8 DEF ExternalStatus, Shutdown, Backend, vars, tickerVars
<1> QED
  BY <1>2, <1>3, <1>4, <1>5, <1>6, <1>7, <1>8 DEF Next, RunStep

------------------------------------------------------------------------------
(* Stopping.                                                                *)

\* Every step keeps the start-up free of other holders of the state machine.
LEMMA ReadyNext ==
    ASSUME RunType, ReadyInv, [Next]_vars
    PROVE  ReadyInv'
<1>r. resumeAt \in {"select", "recheck"}
  BY DEF RunType
<1>1. CASE runPc' \notin StartPcs
  BY <1>1 DEF ReadyInv
<1>2. CASE UNCHANGED <<runPc, ready, snapAtStop>>
  BY <1>2 DEF ReadyInv
<1>3. CASE StartCollectors \/ SyncCompleted \/ SyncIncomplete
  BY <1>3 DEF StartCollectors, SyncCompleted, SyncIncomplete, RunOnly, historyVars, ReadyInv,
     StartPcs
<1>4. CASE EnterRunning
  BY <1>4 DEF EnterRunning, RunOnly, historyVars, ReadyInv, StartPcs
<1>5. CASE StartFailed \/ SetReady \/ LoopCanceled \/ OnTick
  BY <1>1, <1>5 DEF StartFailed, SetReady, LoopCanceled, OnTick, StartPcs
<1>6. CASE DispatchRunning \/ DispatchBackoff \/ ResumeFromBackoff \/ DispatchTerminal
  BY <1>1, <1>6 DEF DispatchRunning, DispatchBackoff, ResumeFromBackoff, DispatchTerminal,
     StartPcs
<1>7. CASE Recheck \/ StopCollectors \/ BuildSnapshot \/ CallSend \/ RunSend
  BY <1>1, <1>7 DEF Recheck, StopCollectors, BuildSnapshot, CallSend, RunSend, StartPcs
<1>8. CASE AccountFailure \/ AccountSuccess \/ CheckStateAfterSend \/ HandleSuccess
  BY <1>1, <1>8, <1>r DEF AccountFailure, AccountSuccess, CheckStateAfterSend, HandleSuccess,
     StartPcs
<1>9. CASE ExternalStatus
  BY <1>9 DEF ExternalStatus, ReadyInv
<1>10. CASE Shutdown \/ Backend \/ Tick \/ UNCHANGED vars
  BY <1>2, <1>10 DEF Shutdown, Backend, Tick, historyVars, vars
<1> QED
  BY <1>3, <1>4, <1>5, <1>6, <1>7, <1>8, <1>9, <1>10 DEF Next, RunStep

\* Every step keeps a stop, and keeps to one Send after it.
LEMMA StopNext ==
    ASSUME WireInv, RunType, CounterType, ReadyInv, StopInv, [Next]_vars
    PROVE  StopInv'
<1>s. snap \in Nat /\ snapAtStop \in Int
  BY TransportAssumption DEF WireInv, TransportTypeOK, SendType, CounterType
<1>r. resumeAt \in {"select", "recheck"}
  BY DEF RunType
<1> USE DEF RunOnly, transportVars, sendVars, historyVars
<1>0. CASE ~(snapAtStop' >= 0)
  BY <1>0 DEF StopInv
<1>1. CASE /\ UNCHANGED <<smState, snap, snapAtStop>>
           /\ Decided' => Decided
           /\ OverwritesState' => OverwritesState
  BY <1>1 DEF StopInv
<1>2. CASE StartCollectors \/ StartFailed \/ SyncCompleted \/ SyncIncomplete \/ EnterRunning
           \/ SetReady
  <2>1. snapAtStop' = -1
    BY <1>2 DEF StartCollectors, StartFailed, SyncCompleted, SyncIncomplete, EnterRunning,
       SetReady, ReadyInv, StartPcs
  <2> QED BY <1>0, <2>1
<1>3. CASE ResumeFromBackoff \/ HandleSuccess \/ DispatchBackoff
  <2>1. OverwritesState /\ UNCHANGED snapAtStop
    BY <1>3 DEF ResumeFromBackoff, HandleSuccess, DispatchBackoff, OverwritesState
  <2> QED BY <1>0, <2>1 DEF StopInv
<1>4. CASE CheckStateAfterSend
  <2>1. UNCHANGED <<smState, snap, snapAtStop, seenState>>
    BY <1>4 DEF CheckStateAfterSend, smVars
  <2>2. CASE smState \in TerminalStates
    <3>1. runPc' \in {"select", "recheck"}
      BY <1>4, <1>r, <2>2 DEF CheckStateAfterSend
    <3> QED BY <1>1, <2>1, <3>1 DEF Decided, OverwritesState
  <2>3. CASE smState \notin TerminalStates
    BY <1>0, <2>1, <2>3 DEF StopInv
  <2> QED BY <2>2, <2>3
<1>5. CASE OnTick
  <2>1. UNCHANGED <<smState, snap, snapAtStop>> /\ runPc' = "dispatch" /\ seenState' = smState
    BY <1>5 DEF OnTick, smVars
  <2>2. CASE smState \in TerminalStates
    BY <1>1, <2>1, <2>2 DEF Decided, OverwritesState, TerminalStates
  <2>3. CASE smState \notin TerminalStates
    BY <1>0, <2>1, <2>3 DEF StopInv
  <2> QED BY <2>2, <2>3
<1>6. CASE DispatchRunning
  BY <1>1, <1>6 DEF DispatchRunning, smVars, Decided, OverwritesState, TerminalStates
<1>7. CASE LoopCanceled \/ DispatchTerminal
  BY <1>1, <1>7 DEF LoopCanceled, DispatchTerminal, smVars, Decided, OverwritesState
<1>8. CASE Recheck \/ StopCollectors
  BY <1>1, <1>8 DEF Recheck, StopCollectors, smVars, Decided, OverwritesState
<1>9. CASE AccountFailure \/ AccountSuccess
  <2>1. UNCHANGED <<smState, snap, snapAtStop>> /\ runPc' \in {"select", "recheck", "checkState"}
    BY <1>9, <1>r DEF AccountFailure, AccountSuccess, smVars
  <2> QED BY <1>1, <2>1 DEF Decided, OverwritesState
<1>10. CASE BuildSnapshot
  BY <1>1, <1>10 DEF BuildSnapshot, smVars, Decided, OverwritesState
<1>11. CASE CallSend
  <2>1. /\ UNCHANGED <<smState, snapAtStop>> /\ snap' = snap + 1 /\ runPc = "send"
        /\ runPc' \in {"sending", "account"}
    BY <1>11 DEF CallSend, SendBegin, SendRejected, smVars
  <2>2. Decided /\ ~Decided' /\ ~OverwritesState'
    BY <2>1 DEF Decided, OverwritesState
  <2>3. snapAtStop >= 0 => snap + 1 <= snapAtStop + 1
    BY <1>s, <2>2 DEF StopInv
  <2> QED BY <2>1, <2>2, <2>3 DEF StopInv
<1>12. CASE RunSend
  <2>1. UNCHANGED <<smState, snap, snapAtStop>> /\ runPc' \in {"sending", "account"}
    BY <1>12, SendStepFrame DEF RunSend, smVars
  <2> QED BY <1>1, <2>1 DEF Decided, OverwritesState
<1>13. CASE ExternalStatus
  <2>1. UNCHANGED <<snap, runPc, seenState>>
    BY <1>13 DEF ExternalStatus
  <2>2. snapAtStop' = IF smState' \notin TerminalStates \/ OverwritesState THEN -1
                      ELSE IF snapAtStop >= 0 THEN snapAtStop ELSE snap
    BY <1>13 DEF ExternalStatus
  <2>3. CASE smState' \notin TerminalStates \/ OverwritesState
    BY <1>0, <2>2, <2>3
  <2>4. CASE smState' \in TerminalStates /\ ~OverwritesState
    <3>1. ~OverwritesState' /\ (Decided' <=> Decided)
      BY <2>1, <2>4 DEF OverwritesState, Decided
    <3>2. CASE snapAtStop >= 0
      BY <2>1, <2>2, <2>4, <3>1, <3>2 DEF StopInv
    <3>3. CASE ~(snapAtStop >= 0)
      BY <1>s, <2>1, <2>2, <2>4, <3>1, <3>3 DEF StopInv
    <3> QED BY <3>2, <3>3
  <2> QED BY <2>3, <2>4
<1>14. CASE Shutdown \/ Backend
  BY <1>1, <1>14 DEF Shutdown, Cancel, Backend, BackendServes, Serve, smVars, Decided,
     OverwritesState
<1>15. CASE Tick
  BY <1>1, <1>15 DEF Tick, SendElapses, BackoffElapses, Decided, OverwritesState
<1>16. CASE UNCHANGED vars
  BY <1>1, <1>16 DEF vars, smVars, Decided, OverwritesState
<1> QED
  BY <1>2, <1>3, <1>4, <1>5, <1>6, <1>7, <1>8, <1>9, <1>10, <1>11, <1>12, <1>13, <1>14, <1>15,
     <1>16 DEF Next, RunStep

\* A step of the agent lets time count after the cancellation only inside a sleep and
\* in StopAll.
LEMMA SinceCancelStep ==
    ASSUME FlowInv, [Next]_vars
    PROVE  \/ UNCHANGED <<sinceCancel, stopTime>>
           \/ /\ sinceCancel' = sinceCancel + 1 /\ stopTime' = stopTime + 1 /\ ctxDone
              /\ runPc = "stopping"
              /\ UNCHANGED <<runPc, sendPc, ctxDone, attempt, timer>>
           \/ /\ sinceCancel' = sinceCancel + 1 /\ ctxDone
              /\ sendPc = "sleep" /\ timer > 0 /\ timer' = timer - 1
              /\ UNCHANGED <<runPc, sendPc, ctxDone, attempt, stopTime>>
<1>1. CASE Tick
  <2>1. CASE ~ctxDone
    BY <1>1, <2>1 DEF Tick
  <2>2. CASE ctxDone /\ runPc = "stopping"
    <3>1. sendPc = "idle"
      BY <2>2 DEF FlowInv
    <3> QED BY <1>1, <2>2, <3>1 DEF Tick, SendElapses, SendBlocked
  <2>3. CASE ctxDone /\ runPc # "stopping"
    <3>1. sendPc # "idle"
      BY <1>1, <2>3 DEF Tick, Waiting
    <3> QED BY <1>1, <2>3, <3>1 DEF Tick, SendElapses, SendBlocked, Untimed
  <2> QED BY <2>1, <2>2, <2>3
<1>2. CASE UNCHANGED historyVars
  BY <1>2 DEF historyVars
<1>3. CASE StartCollectors \/ StartFailed \/ SyncCompleted \/ SyncIncomplete \/ EnterRunning
           \/ SetReady
  BY <1>2, <1>3 DEF StartCollectors, StartFailed, SyncCompleted, SyncIncomplete, EnterRunning,
     SetReady, RunOnly
<1>4. CASE LoopCanceled \/ OnTick \/ DispatchRunning \/ DispatchBackoff \/ ResumeFromBackoff
           \/ DispatchTerminal \/ Recheck \/ StopCollectors
  BY <1>2, <1>4 DEF LoopCanceled, OnTick, DispatchRunning, DispatchBackoff, ResumeFromBackoff,
     DispatchTerminal, Recheck, StopCollectors, RunOnly
<1>5. CASE BuildSnapshot \/ CallSend \/ RunSend
  BY <1>5 DEF BuildSnapshot, CallSend, RunSend, historyVars
<1>6. CASE AccountFailure \/ AccountSuccess \/ CheckStateAfterSend \/ HandleSuccess
  BY <1>2, <1>6 DEF AccountFailure, AccountSuccess, CheckStateAfterSend, HandleSuccess, RunOnly
<1>7. CASE ExternalStatus \/ Shutdown \/ Backend \/ UNCHANGED vars
  BY <1>7 DEF ExternalStatus, Shutdown, Backend, vars, historyVars
<1> QED
  BY <1>1, <1>3, <1>4, <1>5, <1>6, <1>7 DEF Next, RunStep

\* Every step keeps the shutdown prompt.
LEMMA PromptNext ==
    ASSUME WireInv, FlowInv, CounterType, PromptInv, [Next]_vars
    PROVE  PromptInv'
<1>t. SendType /\ LoopInv
  BY DEF WireInv, TransportTypeOK, DeliveryInv
<1>a. attempt \in 0 .. MaxRetries + 1 /\ timer \in Nat /\ sinceCancel \in Nat
      /\ stopTime \in Nat
  BY <1>t, AgentAssumption DEF SendType, CounterType
<1>l. LongestSleep \in Nat /\ MaxRetries \in Nat
  BY LongestSleepNat, TransportAssumption
<1>1. CASE /\ sinceCancel' = sinceCancel + 1 /\ ctxDone
           /\ sendPc = "sleep" /\ timer > 0 /\ timer' = timer - 1
           /\ UNCHANGED <<sendPc, ctxDone, attempt, stopTime>>
  <2>1. sinceCancel' + timer' = sinceCancel + timer /\ timer' \in Nat
    BY <1>a, <1>1
  <2>2. sinceCancel + timer <= LongestSleep
    BY <1>1 DEF PromptInv
  <2>3. sinceCancel' <= LongestSleep + stopTime'
    BY <1>a, <1>l, <1>1, <2>1, <2>2
  <2> QED BY <1>1, <2>1, <2>2, <2>3 DEF PromptInv
<1>2. CASE UNCHANGED <<sinceCancel, stopTime, ctxDone, sendPc, attempt, timer>>
  BY <1>2 DEF PromptInv
<1>3. ASSUME UNCHANGED <<sinceCancel, stopTime>>, TransportNext PROVE PromptInv'
  <2>1. CASE SendRejected
    BY <1>2, <1>3, <2>1 DEF SendRejected
  <2>2. CASE SendBegin
    <3>1. sendPc' = "loop" /\ attempt' = 0 /\ UNCHANGED ctxDone
      BY <2>2 DEF SendBegin
    <3> QED BY <1>3, <3>1 DEF PromptInv
  <2>3. CASE LoopHead
    <3>1. sendPc = "loop" /\ UNCHANGED ctxDone
      BY <2>3 DEF LoopHead
    <3>2. CASE sendPc' = "sleep" /\ timer' \in sleepWithBackoff(attempt - 1) /\ attempt \in 1 .. MaxRetries
      <4>1. /\ 2^(attempt - 1) \in Nat /\ 2^(attempt - 1) <= LongestSleep
            /\ timer' \in Nat /\ timer' <= 2^(attempt - 1)
        BY <3>2, SleepTime
      <4>2. sinceCancel' = 0
        BY <1>3, <3>1, <3>2 DEF PromptInv
      <4>3. timer' <= LongestSleep
        BY <1>l, <4>1
      <4>4. \A m, n \in Nat : m = 0 => m + n = n
        OBVIOUS
      <4>5. sinceCancel' + timer' = timer'
        BY <4>1, <4>2, <4>4, Zenon
      <4>6. sinceCancel' + timer' <= LongestSleep
        BY <4>3, <4>5, Zenon
      <4> QED BY <1>3, <3>1, <3>2, <4>6 DEF PromptInv
    <3>3. CASE sendPc' \in {"record", "check"}
      BY <1>3, <3>1, <3>3 DEF PromptInv
    <3>4. maxAttempts - 1 = MaxRetries
      BY <1>l DEF maxAttempts
    <3> QED BY <2>3, <3>2, <3>3, <3>4 DEF LoopHead
  <2>4. CASE Wake
    <3>1. sendPc' = "check" /\ UNCHANGED ctxDone
      BY <2>4 DEF Wake
    <3> QED BY <1>3, <3>1 DEF PromptInv
  <2>5. CASE CheckContext
    <3>1. UNCHANGED ctxDone
      BY <2>5 DEF CheckContext
    <3>2. CASE ctxDone
      <4>1. sendPc' = "record"
        BY <2>5, <3>2 DEF CheckContext
      <4> QED BY <1>3, <3>1, <4>1 DEF PromptInv
    <3>3. CASE ~ctxDone
      <4>1. sendPc' = "post"
        BY <2>5, <3>3 DEF CheckContext
      <4>2. sinceCancel = 0
        BY <1>a, <3>3 DEF PromptInv
      <4> QED BY <1>3, <3>1, <4>1, <4>2 DEF PromptInv
    <3> QED BY <3>2, <3>3
  <2>6. ASSUME NEW err, AttemptFailed(err), sendPc \in {"post", "wait"} PROVE PromptInv'
    <3>1. UNCHANGED ctxDone /\ sendPc' \in {"loop", "record"} /\ sinceCancel = 0
      BY <2>6 DEF AttemptFailed, PromptInv
    <3> QED BY <1>3, <3>1 DEF PromptInv
  <2>7. CASE Post
    <3>1. sendPc = "post" /\ sendPc' = "wait" /\ UNCHANGED ctxDone
      BY <2>7 DEF Post
    <3> QED BY <1>3, <3>1 DEF PromptInv
  <2>8. CASE PostCanceled \/ RequestFailed \/ ResponseRejected
    BY <2>6, <2>8 DEF PostCanceled, RequestFailed, ResponseRejected
  <2>9. CASE ResponseAccepted \/ RecordResult
    <3>1. sendPc' \in {"record", "idle"} /\ UNCHANGED ctxDone
      BY <2>9 DEF ResponseAccepted, RecordResult
    <3> QED BY <1>3, <3>1 DEF PromptInv
  <2>10. CASE BackendServes
    BY <1>2, <1>3, <2>10 DEF BackendServes, Serve, sendVars
  <2>11. CASE Cancel
    <3>1. UNCHANGED <<sendPc, attempt, timer>> /\ ctxDone'
      BY <2>11 DEF Cancel, sendVars
    <3> QED BY <1>3, <3>1 DEF PromptInv
  <2>12. CASE TransportTick
    <3>1. UNCHANGED <<sendPc, attempt, ctxDone>> /\ (timer' = timer \/ timer' = timer - 1)
      BY <2>12 DEF TransportTick, SendElapses
    <3> QED BY <1>a, <1>l, <1>3, <3>1 DEF PromptInv
  <2> QED
    BY <1>3, <2>1, <2>2, <2>3, <2>4, <2>5, <2>7, <2>8, <2>9, <2>10, <2>11, <2>12
       DEF TransportNext, SendStep
<1>4. CASE /\ sinceCancel' = sinceCancel + 1 /\ stopTime' = stopTime + 1 /\ ctxDone
           /\ runPc = "stopping"
           /\ UNCHANGED <<sendPc, ctxDone, attempt, timer>>
  <2>1. sendPc = "idle"
    BY <1>4 DEF FlowInv
  <2>2. sinceCancel <= LongestSleep + stopTime
    BY DEF PromptInv
  <2>3. sinceCancel' <= LongestSleep + stopTime'
    BY <1>a, <1>l, <1>4, <2>2
  <2> QED BY <1>4, <2>1, <2>3 DEF PromptInv
<1> QED
  <2>1. CASE UNCHANGED <<sinceCancel, stopTime>>
    <3>1. CASE UNCHANGED <<ctxDone, sendVars>>
      BY <1>2, <2>1, <3>1 DEF sendVars
    <3> QED BY <1>3, <2>1, <3>1, TransportPart DEF transportVars
  <2> QED BY <1>1, <1>4, <2>1, SinceCancelStep

\* The loop, once over, stays so.
LEMMA OverStep ==
    ASSUME LoopOver, [Next]_vars
    PROVE  LoopOver'
<1> USE DEF LoopOver
<1>1. CASE UNCHANGED runPc
  BY <1>1
<1>2. CASE StopCollectors
  BY <1>2 DEF StopCollectors
<1>3. CASE StartCollectors \/ StartFailed \/ SyncCompleted \/ SyncIncomplete \/ EnterRunning
           \/ SetReady
  BY <1>3 DEF StartCollectors, StartFailed, SyncCompleted, SyncIncomplete, EnterRunning, SetReady
<1>4. CASE LoopCanceled \/ OnTick \/ DispatchRunning \/ DispatchBackoff \/ ResumeFromBackoff
           \/ DispatchTerminal \/ Recheck
  BY <1>4 DEF LoopCanceled, OnTick, DispatchRunning, DispatchBackoff, ResumeFromBackoff,
     DispatchTerminal, Recheck
<1>5. CASE BuildSnapshot \/ CallSend \/ RunSend \/ AccountFailure \/ AccountSuccess
           \/ CheckStateAfterSend \/ HandleSuccess
  BY <1>5 DEF BuildSnapshot, CallSend, RunSend, AccountFailure, AccountSuccess,
     CheckStateAfterSend, HandleSuccess
<1>6. CASE ExternalStatus \/ Shutdown \/ Backend \/ Tick \/ UNCHANGED vars
  BY <1>1, <1>6 DEF ExternalStatus, Shutdown, Backend, Tick, vars
<1> QED
  BY <1>2, <1>3, <1>4, <1>5, <1>6 DEF Next, RunStep

\* Every step counts StopAll's time in StopAll only.
LEMMA StopTimeNext ==
    ASSUME FlowInv, StopTimeInv, [Next]_vars
    PROVE  StopTimeInv'
<1>1. CASE UNCHANGED stopTime
  BY <1>1, OverStep DEF StopTimeInv
<1>2. CASE runPc = "stopping" /\ UNCHANGED runPc
  BY <1>2 DEF StopTimeInv, LoopOver
<1> QED
  BY <1>1, <1>2, SinceCancelStep

------------------------------------------------------------------------------
(* The error a snapshot reports.                                            *)

\* The age of the last failure and the map change together.
LEMMA AgeNext ==
    ASSUME WireInv, CounterType, AgeInv, [Next]_vars
    PROVE  AgeInv'
<1>d. DefaultTTL \in Nat /\ failAge \in 0 .. DefaultTTL + 1
  BY TTLAssumption DEF CounterType
<1>e. EntriesType
  BY DEF WireInv, TransportTypeOK
<1>k. BackendUnreachable # InformerSyncTimeout
  BY DEF BackendUnreachable, InformerSyncTimeout, ErrKey
<1>1. CASE UNCHANGED <<entries, failAge>>
  BY <1>1 DEF AgeInv
<1>2. CASE SyncIncomplete
  <2>1. UNCHANGED failAge /\ Report(InformerSyncTimeout)
    BY <1>2 DEF SyncIncomplete, historyVars
  <2>2. /\ BackendUnreachable \in DOMAIN entries' <=> BackendUnreachable \in DOMAIN entries
        /\ BackendUnreachable \in DOMAIN entries =>
              entries'[BackendUnreachable] = entries[BackendUnreachable]
    BY <1>k, <2>1 DEF Report
  <2> QED BY <2>1, <2>2 DEF AgeInv
<1>3. CASE BuildSnapshot
  <2>1. UNCHANGED failAge /\ GetActiveErrors
    BY <1>3 DEF BuildSnapshot, historyVars
  <2>2. /\ BackendUnreachable \in DOMAIN entries' <=>
              (BackendUnreachable \in DOMAIN entries /\ ~Expired(entries[BackendUnreachable]))
        /\ BackendUnreachable \in DOMAIN entries' =>
              entries'[BackendUnreachable] = entries[BackendUnreachable]
    BY <2>1 DEF GetActiveErrors, ActiveErrors
  <2> QED BY <2>1, <2>2 DEF AgeInv
<1>4. CASE RunSend
  <2>1. CASE sendPc' # "idle"
    BY <1>1, <1>4, <2>1, SendStepFrame DEF RunSend
  <2>2. CASE sendPc' = "idle"
    <3>1. RecordResult /\ UNCHANGED snap
      BY <1>4, <2>2, SendStepFrame DEF RunSend
    <3>2. snap \in Snapshots /\ outcome \in [Snapshots -> Outcomes] /\ lastErr \in SendErrors \cup {"nil"}
      BY <3>1, TransportAssumption DEF WireInv, TransportTypeOK, DeliveryInv, LoopInv, SendType,
         ResultType, RecordResult, Snapshots
    <3>3. CASE lastErr # "nil"
      <4>1. Report(BackendUnreachable) /\ outcome'[snap] = lastErr /\ lastErr \in SendErrors
        BY <3>1, <3>2, <3>3 DEF RecordResult
      <4>2. failAge' = 0
        BY <1>4, <2>2, <4>1 DEF RunSend
      <4>3. BackendUnreachable \in DOMAIN entries' /\ entries'[BackendUnreachable] = 0
        BY <4>1 DEF Report
      <4>4. ~Expired(0)
        BY <1>d DEF Expired
      <4> QED BY <4>2, <4>3, <4>4 DEF AgeInv
    <3>4. CASE lastErr = "nil"
      <4>1. UNCHANGED entries /\ outcome'[snap] = "sent"
        BY <3>1, <3>2, <3>4 DEF RecordResult
      <4>2. UNCHANGED failAge
        BY <1>4, <4>1, ErrorFacts DEF RunSend
      <4> QED BY <1>1, <4>1, <4>2
    <3> QED BY <3>3, <3>4
  <2> QED BY <2>1, <2>2
<1>5. CASE Tick
  <2>1. /\ AgeEntries /\ failAge' = IF Expired(failAge) THEN failAge ELSE failAge + 1
    BY <1>5 DEF Tick
  <2>2. /\ DOMAIN entries' = DOMAIN entries
        /\ BackendUnreachable \in DOMAIN entries =>
              entries'[BackendUnreachable] =
                 IF Expired(entries[BackendUnreachable]) THEN entries[BackendUnreachable]
                                                         ELSE entries[BackendUnreachable] + 1
    BY <2>1 DEF AgeEntries
  <2>3. CASE Expired(failAge)
    BY <2>1, <2>2, <2>3 DEF AgeInv
  <2>4. CASE ~Expired(failAge)
    <3>1. /\ BackendUnreachable \in DOMAIN entries'
          /\ entries'[BackendUnreachable] = failAge' /\ failAge' = failAge + 1
      BY <2>1, <2>2, <2>4 DEF AgeInv
    <3> QED BY <3>1 DEF AgeInv
  <2> QED BY <2>3, <2>4
<1>6. CASE UNCHANGED transportVars /\ UNCHANGED failAge
  BY <1>1, <1>6 DEF transportVars
<1>7. CASE StartCollectors \/ StartFailed \/ SyncCompleted \/ EnterRunning \/ SetReady
  BY <1>6, <1>7 DEF StartCollectors, StartFailed, SyncCompleted, EnterRunning, SetReady, RunOnly,
     historyVars
<1>8. CASE LoopCanceled \/ OnTick \/ DispatchRunning \/ DispatchBackoff \/ ResumeFromBackoff
           \/ DispatchTerminal \/ Recheck \/ StopCollectors
  BY <1>6, <1>8 DEF LoopCanceled, OnTick, DispatchRunning, DispatchBackoff, ResumeFromBackoff,
     DispatchTerminal, Recheck, StopCollectors, RunOnly, historyVars
<1>9. CASE AccountFailure \/ AccountSuccess \/ CheckStateAfterSend \/ HandleSuccess
  BY <1>6, <1>9 DEF AccountFailure, AccountSuccess, CheckStateAfterSend, HandleSuccess, RunOnly,
     historyVars
<1>10. CASE CallSend
  BY <1>1, <1>10 DEF CallSend, SendBegin, SendRejected, historyVars
<1>11. CASE Shutdown \/ Backend
  BY <1>1, <1>11 DEF Shutdown, Cancel, Backend, BackendServes, Serve, historyVars
<1>12. CASE ExternalStatus \/ UNCHANGED vars
  BY <1>6, <1>12 DEF ExternalStatus, vars, historyVars
<1> QED
  BY <1>2, <1>3, <1>4, <1>5, <1>7, <1>8, <1>9, <1>10, <1>11, <1>12 DEF Next, RunStep

------------------------------------------------------------------------------
(* The counters.                                                            *)

\* The sets of outcomes are finite, and one more snapshot adds at most itself.
LEMMA CountStep ==
    ASSUME NEW f, NEW n \in Nat
    PROVE  /\ Cardinality(SentIn(f, n)) \in Nat
           /\ Cardinality(FailedIn(f, n)) \in Nat
           /\ Cardinality(LocalIn(f, n)) \in Nat
           /\ Cardinality(SentIn(f, n + 1)) =
                 Cardinality(SentIn(f, n)) + (IF f[n + 1] = "sent" THEN 1 ELSE 0)
           /\ Cardinality(FailedIn(f, n + 1)) =
                 Cardinality(FailedIn(f, n)) + (IF f[n + 1] \notin {"none", "sent"} THEN 1 ELSE 0)
           /\ Cardinality(LocalIn(f, n + 1)) =
                 Cardinality(LocalIn(f, n)) + (IF f[n + 1] \in LocalErrors THEN 1 ELSE 0)
<1>1. ASSUME NEW S \in SUBSET (1 .. n)
      PROVE  /\ Cardinality(S) \in Nat
             /\ Cardinality(S \cup {n + 1}) = Cardinality(S) + 1
  <2>1. IsFiniteSet(1 .. n)
    BY FS_Interval
  <2>2. IsFiniteSet(S)
    BY <2>1, FS_Subset
  <2>3. n + 1 \notin S
    OBVIOUS
  <2> QED BY <2>2, <2>3, FS_AddElement, FS_CardinalityType
<1>2. /\ SentIn(f, n) \in SUBSET (1 .. n)
      /\ FailedIn(f, n) \in SUBSET (1 .. n)
      /\ LocalIn(f, n) \in SUBSET (1 .. n)
  BY DEF SentIn, FailedIn, LocalIn
<1>3. /\ Cardinality(SentIn(f, n)) \in Nat
      /\ Cardinality(FailedIn(f, n)) \in Nat
      /\ Cardinality(LocalIn(f, n)) \in Nat
  BY <1>1, <1>2
<1>4. SentIn(f, n + 1) = IF f[n + 1] = "sent" THEN SentIn(f, n) \cup {n + 1} ELSE SentIn(f, n)
  BY DEF SentIn
<1>5. FailedIn(f, n + 1) = IF f[n + 1] \notin {"none", "sent"} THEN FailedIn(f, n) \cup {n + 1}
                                                             ELSE FailedIn(f, n)
  BY DEF FailedIn
<1>6. LocalIn(f, n + 1) = IF f[n + 1] \in LocalErrors THEN LocalIn(f, n) \cup {n + 1}
                                                      ELSE LocalIn(f, n)
  BY DEF LocalIn
<1>7. Cardinality(SentIn(f, n + 1)) =
         Cardinality(SentIn(f, n)) + (IF f[n + 1] = "sent" THEN 1 ELSE 0)
  BY <1>1, <1>2, <1>3, <1>4
<1>8. Cardinality(FailedIn(f, n + 1)) =
         Cardinality(FailedIn(f, n)) + (IF f[n + 1] \notin {"none", "sent"} THEN 1 ELSE 0)
  BY <1>1, <1>2, <1>3, <1>5
<1>9. Cardinality(LocalIn(f, n + 1)) =
         Cardinality(LocalIn(f, n)) + (IF f[n + 1] \in LocalErrors THEN 1 ELSE 0)
  BY <1>1, <1>2, <1>3, <1>6
<1> QED
  BY <1>3, <1>7, <1>8, <1>9

\* Later outcomes do not matter.
LEMMA CountSame ==
    ASSUME NEW f, NEW g, NEW n \in Nat, \A s \in 1 .. n : f[s] = g[s]
    PROVE  /\ SentIn(f, n) = SentIn(g, n)
           /\ FailedIn(f, n) = FailedIn(g, n)
           /\ LocalIn(f, n) = LocalIn(g, n)
  BY DEF SentIn, FailedIn, LocalIn

\* No outcome at all, no count.
LEMMA CountNone == ASSUME NEW f
                   PROVE  /\ Cardinality(SentIn(f, 0)) = 0
                          /\ Cardinality(FailedIn(f, 0)) = 0
                          /\ Cardinality(LocalIn(f, 0)) = 0
<1>1. SentIn(f, 0) = {} /\ FailedIn(f, 0) = {} /\ LocalIn(f, 0) = {}
  BY DEF SentIn, FailedIn, LocalIn
<1> QED
  BY <1>1, FS_EmptySet

\* Every step gives each Send that returns an outcome.
LEMMA OutcomeNext ==
    ASSUME WireInv, OutcomeInv, [Next]_vars
    PROVE  OutcomeInv'
<1>s. snap \in Nat /\ outcome \in [Snapshots -> Outcomes] /\ lastErr \in SendErrors \cup {"nil"}
  BY TransportAssumption DEF WireInv, TransportTypeOK, SendType, ResultType
<1>1. CASE UNCHANGED <<snap, outcome>> /\ (sendPc' = "idle" => sendPc = "idle")
  BY <1>1 DEF OutcomeInv
<1>2. CASE SendRejected \/ SendBegin
  <2>1. /\ sendPc = "idle" /\ snap' = snap + 1
        /\ \A s \in Snapshots : s # snap + 1 => outcome'[s] = outcome[s]
    BY <1>2, <1>s DEF SendRejected, SendBegin
  <2>2. sendPc' = "idle" => snap + 1 \in Snapshots /\ outcome'[snap + 1] \in LocalErrors
    BY <1>2, <1>s, TransportAssumption DEF SendRejected, SendBegin, Snapshots
  <2>3. \A s \in Snapshots : s < snap + 1 => s # snap + 1 /\ (s < snap \/ s = snap)
    BY <1>s DEF Snapshots
  <2>4. \A s \in Snapshots : s < snap + 1 => outcome'[s] # "none"
    BY <2>1, <2>3 DEF OutcomeInv
  <2>5. sendPc' = "idle" => outcome'[snap + 1] # "none"
    BY <2>2, LocalFacts
  <2> QED BY <2>1, <2>4, <2>5 DEF OutcomeInv
<1>3. CASE SendStep
  <2>1. UNCHANGED snap
    BY <1>3, SendStepFrame
  <2>2. CASE sendPc' # "idle"
    BY <1>1, <1>3, <2>1, <2>2, SendStepFrame
  <2>3. CASE sendPc' = "idle"
    <3>1. RecordResult
      BY <1>3, <2>3, SendStepFrame
    <3>2. PICK res \in SendErrors \cup {"sent"} : outcome' = [outcome EXCEPT ![snap] = res]
      BY <1>s, <3>1 DEF RecordResult
    <3>3. res # "none"
      BY <3>2 DEF SendErrors, NonRetryableErrors, RetryableErrors
    <3>4. \A s \in Snapshots : outcome'[s] = IF s = snap THEN res ELSE outcome[s]
      BY <1>s, <3>2
    <3>5. \A s \in Snapshots : s < snap => s # snap
      BY <1>s DEF Snapshots
    <3> QED BY <2>1, <3>3, <3>4, <3>5 DEF OutcomeInv
  <2> QED BY <2>2, <2>3
<1>4. CASE BackendServes \/ Cancel \/ TransportTick
  BY <1>1, <1>4 DEF BackendServes, Serve, Cancel, TransportTick, SendElapses, sendVars
<1>5. CASE UNCHANGED sendVars
  BY <1>1, <1>5 DEF sendVars
<1> QED
  BY <1>2, <1>3, <1>4, <1>5, TransportPart DEF TransportNext, transportVars

\* The steps outside doSnapshot leave its counters, its outcomes and its health alone.
LEMMA QuietStep ==
    ASSUME RunType, FlowInv, [Next]_vars
    PROVE  \/ BuildSnapshot \/ CallSend \/ RunSend \/ AccountFailure \/ AccountSuccess
           \/ /\ UNCHANGED <<snap, outcome, sendTotal, counterVars, healthVars>>
              /\ runPc' \in {"sending", "account"} <=> runPc \in {"sending", "account"}
<1>r. resumeAt \in {"select", "recheck"}
  BY DEF RunType
<1>1. CASE StartCollectors \/ StartFailed \/ SyncCompleted \/ SyncIncomplete
  BY <1>1 DEF StartCollectors, StartFailed, SyncCompleted, SyncIncomplete, RunOnly,
     transportVars, sendVars
<1>2. CASE EnterRunning \/ SetReady \/ LoopCanceled \/ OnTick
  BY <1>2 DEF EnterRunning, SetReady, LoopCanceled, OnTick, RunOnly, transportVars, sendVars
<1>3. CASE DispatchRunning \/ DispatchBackoff \/ ResumeFromBackoff \/ DispatchTerminal
  BY <1>3 DEF DispatchRunning, DispatchBackoff, ResumeFromBackoff, DispatchTerminal, RunOnly,
     transportVars, sendVars
<1>4. CASE Recheck \/ StopCollectors \/ CheckStateAfterSend \/ HandleSuccess
  BY <1>4, <1>r DEF Recheck, StopCollectors, CheckStateAfterSend, HandleSuccess, RunOnly,
     transportVars, sendVars
<1>5. CASE ExternalStatus \/ Shutdown
  BY <1>5 DEF ExternalStatus, Shutdown, Cancel, transportVars, sendVars
<1>6. CASE Backend
  BY <1>6 DEF Backend, BackendServes, Serve, sendVars
<1>7. CASE Tick
  BY <1>7 DEF Tick, SendElapses
<1>8. CASE UNCHANGED vars
  BY <1>8 DEF vars, transportVars, sendVars
<1> QED
  BY <1>1, <1>2, <1>3, <1>4, <1>5, <1>6, <1>7, <1>8 DEF Next, RunStep

\* Every step keeps the counters in line with the outcomes.
LEMMA CountNext ==
    ASSUME WireInv, RunType, FlowInv, OutcomeInv, CountInv, [Next]_vars
    PROVE  CountInv'
<1>s. /\ snap \in 0 .. MaxSends /\ snap \in Nat /\ MaxSends \in Nat
      /\ outcome \in [Snapshots -> Outcomes]
      /\ lastErr \in SendErrors \cup {"nil"}
      /\ sendTotal \in [success : Nat, error : Nat]
  BY TransportAssumption DEF WireInv, TransportTypeOK, SendType, ResultType
<1>r. resumeAt \in {"select", "recheck"}
  BY DEF RunType
<1>1. CASE /\ UNCHANGED <<snap, outcome, sendTotal, counterVars>>
           /\ runPc' \in {"sending", "account"} <=> runPc \in {"sending", "account"}
  <2>1. Completed' = Completed
    BY <1>1 DEF Completed
  <2> QED BY <1>1, <2>1 DEF CountInv, counterVars
<1>2. CASE BuildSnapshot
  BY <1>1, <1>2 DEF BuildSnapshot, sendVars
<1>3. CASE CallSend
  <2>0. PICK n \in Nat : n = snap
    BY <1>s
  <2>1. /\ UNCHANGED <<sendTotal, counterVars>> /\ snap' = n + 1 /\ runPc = "send"
        /\ runPc' \in {"sending", "account"}
        /\ n + 1 \in Snapshots
    BY <1>3, <1>s, <2>0 DEF CallSend, SendBegin, SendRejected, Snapshots
  <2>2. Completed = n /\ Completed' = n
    BY <2>0, <2>1 DEF Completed
  <2>3. \A s \in 1 .. n : outcome'[s] = outcome[s]
    <3>1. \A s \in 1 .. n : s \in Snapshots /\ s # n + 1
      BY <1>s, <2>0 DEF Snapshots
    <3> QED BY <1>3, <1>s, <2>0, <3>1 DEF CallSend, SendBegin, SendRejected
  <2>4. /\ SentIn(outcome', n) = SentIn(outcome, n)
        /\ FailedIn(outcome', n) = FailedIn(outcome, n)
        /\ LocalIn(outcome', n) = LocalIn(outcome, n)
    BY <2>3, CountSame
  <2>5. outcome'[n + 1] # "sent" /\ (outcome'[n + 1] \notin {"none", "sent"} <=> outcome'[n + 1] \in LocalErrors)
    <3>1. CASE SendBegin
      <4>1. n + 1 > snap
        BY <2>0
      <4>2. outcome'[n + 1] = "none"
        BY <2>1, <3>1, <4>1 DEF SendBegin, WireInv, OrderInv
      <4> QED BY <4>2, LocalFacts
    <3>2. CASE SendRejected
      <4>1. outcome'[n + 1] \in LocalErrors
        BY <1>s, <2>0, <2>1, <3>2 DEF SendRejected
      <4> QED BY <4>1, LocalFacts
    <3> QED BY <1>3, <3>1, <3>2 DEF CallSend
  <2>6. /\ Cardinality(LocalIn(outcome, n)) \in Nat /\ Cardinality(FailedIn(outcome, n)) \in Nat
        /\ Cardinality(SentIn(outcome, n)) \in Nat
    BY CountStep
  <2>7. Cardinality(SentIn(outcome', n + 1)) = Cardinality(SentIn(outcome, n))
    BY <2>4, <2>5, <2>6, CountStep
  <2>8. sendTotal.error + Cardinality(LocalIn(outcome', n + 1)) = Cardinality(FailedIn(outcome', n + 1))
    <3>1. sendTotal.error + Cardinality(LocalIn(outcome, n)) = Cardinality(FailedIn(outcome, n))
      BY <2>0 DEF CountInv
    <3>2. sendTotal.error \in Nat
      BY <1>s
    <3>3. CASE outcome'[n + 1] \in LocalErrors
      <4>1. Cardinality(LocalIn(outcome', n + 1)) = Cardinality(LocalIn(outcome, n)) + 1
        BY <2>4, <3>3, CountStep
      <4>2. Cardinality(FailedIn(outcome', n + 1)) = Cardinality(FailedIn(outcome, n)) + 1
        BY <2>4, <2>5, <3>3, CountStep
      <4> QED BY <2>6, <3>1, <3>2, <4>1, <4>2
    <3>4. CASE outcome'[n + 1] \notin LocalErrors
      <4>1. Cardinality(LocalIn(outcome', n + 1)) = Cardinality(LocalIn(outcome, n))
        BY <2>4, <2>6, <3>4, CountStep
      <4>2. Cardinality(FailedIn(outcome', n + 1)) = Cardinality(FailedIn(outcome, n))
        BY <2>4, <2>5, <2>6, <3>4, CountStep
      <4> QED BY <3>1, <4>1, <4>2
    <3> QED BY <3>3, <3>4
  <2> QED BY <2>0, <2>1, <2>2, <2>4, <2>7, <2>8 DEF CountInv, counterVars
<1>4. CASE RunSend
  <2>1. SendStep /\ runPc = "sending" /\ runPc' \in {"sending", "account"} /\ UNCHANGED counterVars
    BY <1>4 DEF RunSend
  <2>2. CASE sendPc' # "idle"
    BY <1>1, <2>1, <2>2, SendStepFrame
  <2>3. CASE sendPc' = "idle"
    <3>1. RecordResult /\ UNCHANGED snap
      BY <2>1, <2>3, SendStepFrame
    <3>2. sendPc # "idle" /\ snap \in Snapshots
      BY <1>s, <2>1, TransportAssumption DEF FlowInv, Snapshots
    <3>3. PICK n \in Nat : n + 1 = snap
      <4>1. snap - 1 \in Nat /\ (snap - 1) + 1 = snap
        BY <1>s, <3>2 DEF Snapshots
      <4> QED BY <4>1
    <3>4. Completed = n /\ Completed' = n
      BY <2>1, <3>1, <3>3 DEF Completed
    <3>5. outcome[n + 1] = "none"
      BY <3>2, <3>3 DEF WireInv, OrderInv
    <3>6. \A s \in 1 .. n : outcome'[s] = outcome[s]
      <4>1. \A s \in 1 .. n : s \in Snapshots /\ s # snap
        BY <1>s, <3>3 DEF Snapshots
      <4> QED BY <1>s, <3>1, <4>1 DEF RecordResult
    <3>7. /\ SentIn(outcome', n) = SentIn(outcome, n)
          /\ FailedIn(outcome', n) = FailedIn(outcome, n)
          /\ LocalIn(outcome', n) = LocalIn(outcome, n)
      BY <3>6, CountSame
    <3>8. /\ Cardinality(LocalIn(outcome, n)) \in Nat /\ Cardinality(FailedIn(outcome, n)) \in Nat
          /\ Cardinality(SentIn(outcome, n)) \in Nat
      BY CountStep
    <3>9. /\ Cardinality(SentIn(outcome, n + 1)) = Cardinality(SentIn(outcome, n))
          /\ Cardinality(FailedIn(outcome, n + 1)) = Cardinality(FailedIn(outcome, n))
          /\ Cardinality(LocalIn(outcome, n + 1)) = Cardinality(LocalIn(outcome, n))
      BY <3>5, <3>8, CountStep, LocalFacts
    <3>10. /\ sendTotal.success = Cardinality(SentIn(outcome, n))
           /\ sendTotal.error + Cardinality(LocalIn(outcome, n)) = Cardinality(FailedIn(outcome, n))
      BY <3>3, <3>9 DEF CountInv
    <3>11. CASE lastErr = "nil"
      <4>1. outcome'[n + 1] = "sent" /\ sendTotal' = [sendTotal EXCEPT !.success = @ + 1]
        BY <1>s, <3>1, <3>2, <3>3, <3>11 DEF RecordResult
      <4>2. sendTotal'.success = sendTotal.success + 1 /\ sendTotal'.error = sendTotal.error
        BY <1>s, <4>1
      <4>3. /\ Cardinality(SentIn(outcome', n + 1)) = Cardinality(SentIn(outcome, n)) + 1
            /\ Cardinality(FailedIn(outcome', n + 1)) = Cardinality(FailedIn(outcome, n))
            /\ Cardinality(LocalIn(outcome', n + 1)) = Cardinality(LocalIn(outcome, n))
        BY <3>7, <3>8, <4>1, CountStep, LocalFacts
      <4> QED BY <2>1, <3>1, <3>3, <3>4, <3>7, <3>10, <4>2, <4>3 DEF CountInv, counterVars
    <3>12. CASE lastErr # "nil"
      <4>1. /\ outcome'[n + 1] = lastErr /\ lastErr \in SendErrors
            /\ sendTotal' = [sendTotal EXCEPT !.error = @ + 1]
        BY <1>s, <3>1, <3>2, <3>3, <3>12 DEF RecordResult
      <4>2. sendTotal'.success = sendTotal.success /\ sendTotal'.error = sendTotal.error + 1
        BY <1>s, <4>1
      <4>3. lastErr \notin LocalErrors /\ lastErr \notin {"none", "sent"}
        BY <4>1, LocalFacts DEF SendErrors, NonRetryableErrors, RetryableErrors
      <4>4. /\ Cardinality(SentIn(outcome', n + 1)) = Cardinality(SentIn(outcome, n))
            /\ Cardinality(FailedIn(outcome', n + 1)) = Cardinality(FailedIn(outcome, n)) + 1
            /\ Cardinality(LocalIn(outcome', n + 1)) = Cardinality(LocalIn(outcome, n))
        BY <3>7, <3>8, <4>1, <4>3, CountStep
      <4>5. sendTotal'.error + Cardinality(LocalIn(outcome', n + 1)) = Cardinality(FailedIn(outcome', n + 1))
        BY <1>s, <3>8, <3>10, <4>2, <4>4
      <4> QED BY <2>1, <3>1, <3>3, <3>4, <3>7, <3>10, <4>2, <4>4, <4>5 DEF CountInv, counterVars
    <3> QED BY <3>11, <3>12
  <2> QED BY <2>2, <2>3
<1>5. CASE AccountFailure \/ AccountSuccess
  <2>1. /\ UNCHANGED <<snap, outcome, sendTotal, sendPc>> /\ runPc = "account"
        /\ runPc' \notin {"sending", "account"} /\ totalCount' = totalCount + 1
    BY <1>5, <1>r DEF AccountFailure, AccountSuccess, transportVars, sendVars
  <2>2. snap \in Snapshots
    BY <1>s, <2>1, TransportAssumption DEF FlowInv, Snapshots
  <2>3. PICK n \in Nat : n + 1 = snap
    <3>1. snap - 1 \in Nat /\ (snap - 1) + 1 = snap
      BY <1>s, <2>2 DEF Snapshots
    <3> QED BY <3>1
  <2>4. Completed = n /\ Completed' = n + 1
    BY <2>1, <2>3 DEF Completed
  <2>5. outcome[n + 1] # "none"
    BY <2>1, <2>2, <2>3 DEF OutcomeInv, FlowInv
  <2>6. /\ Cardinality(FailedIn(outcome, n)) \in Nat /\ Cardinality(SentIn(outcome, n)) \in Nat
    BY CountStep
  <2>7. /\ totalCount = n /\ totalCount = sentCount + failedCount
        /\ sentCount = Cardinality(SentIn(outcome, n))
        /\ failedCount = Cardinality(FailedIn(outcome, n))
    BY <2>4 DEF CountInv
  <2>8. CASE AccountFailure
    <3>1. outcome[n + 1] \notin {"none", "sent"} /\ failedCount' = failedCount + 1 /\ UNCHANGED sentCount
      BY <2>3, <2>8 DEF AccountFailure, Failed
    <3>2. /\ Cardinality(SentIn(outcome, n + 1)) = Cardinality(SentIn(outcome, n))
          /\ Cardinality(FailedIn(outcome, n + 1)) = Cardinality(FailedIn(outcome, n)) + 1
      BY <2>6, <3>1, CountStep
    <3>3. totalCount' = sentCount' + failedCount' /\ totalCount' = n + 1
      BY <2>1, <2>6, <2>7, <3>1
    <3> QED BY <2>1, <2>3, <2>4, <2>7, <3>1, <3>2, <3>3 DEF CountInv
  <2>9. CASE AccountSuccess
    <3>1. outcome[n + 1] = "sent" /\ sentCount' = sentCount + 1 /\ UNCHANGED failedCount
      BY <2>3, <2>5, <2>9 DEF AccountSuccess, Failed
    <3>2. /\ Cardinality(SentIn(outcome, n + 1)) = Cardinality(SentIn(outcome, n)) + 1
          /\ Cardinality(FailedIn(outcome, n + 1)) = Cardinality(FailedIn(outcome, n))
      BY <2>6, <3>1, CountStep
    <3>3. totalCount' = sentCount' + failedCount' /\ totalCount' = n + 1
      BY <2>1, <2>6, <2>7, <3>1
    <3> QED BY <2>1, <2>3, <2>4, <2>7, <3>1, <3>2, <3>3 DEF CountInv
  <2> QED BY <1>5, <2>8, <2>9
<1> QED
  BY <1>1, <1>2, <1>3, <1>4, <1>5, QuietStep

\* Every step keeps the counters and clocks within their types.
LEMMA CounterTypeNext ==
    ASSUME WireInv, CounterType, [Next]_vars
    PROVE  CounterType'
<1>s. snap \in 0 .. MaxSends /\ DefaultTTL \in Nat /\ SnapshotInterval \in Nat \ {0} /\ MaxExternal \in Nat
  BY TTLAssumption, AgentAssumption DEF WireInv, TransportTypeOK, SendType
<1> USE DEF counterVars, healthVars, historyVars, tickerVars, RunOnly
<1>1. CASE UNCHANGED <<tickerVars, counterVars, prevSent, prevFailed, historyVars, externalLeft>>
  BY <1>1 DEF CounterType
<1>2. CASE StartCollectors \/ StartFailed \/ SyncCompleted \/ SyncIncomplete \/ EnterRunning
  BY <1>1, <1>2 DEF StartCollectors, StartFailed, SyncCompleted, SyncIncomplete, EnterRunning
<1>3. CASE SetReady \/ StopCollectors
  <2>1. tickLeft' \in 0 .. SnapshotInterval
    BY <1>3, <1>s DEF SetReady, StopCollectors
  <2> QED BY <1>3, <2>1 DEF SetReady, StopCollectors, CounterType
<1>4. CASE OnTick
  BY <1>4 DEF OnTick, CounterType
<1>5. CASE LoopCanceled \/ DispatchRunning \/ DispatchBackoff \/ ResumeFromBackoff
           \/ DispatchTerminal \/ Recheck
  BY <1>1, <1>5 DEF LoopCanceled, DispatchRunning, DispatchBackoff, ResumeFromBackoff,
     DispatchTerminal, Recheck
<1>6. CASE BuildSnapshot
  BY <1>6 DEF BuildSnapshot, CounterType
<1>7. CASE CallSend
  BY <1>1, <1>7 DEF CallSend
<1>8. CASE RunSend
  <2>1. failAge' \in 0 .. DefaultTTL + 1
    BY <1>8, <1>s DEF RunSend, CounterType
  <2> QED BY <1>8, <2>1 DEF RunSend, CounterType
<1>9. CASE AccountFailure \/ AccountSuccess
  BY <1>9 DEF AccountFailure, AccountSuccess, CounterType
<1>10. CASE CheckStateAfterSend \/ HandleSuccess
  BY <1>1, <1>10 DEF CheckStateAfterSend, HandleSuccess
<1>11. CASE ExternalStatus
  <2>1. externalLeft' \in 0 .. MaxExternal
    BY <1>11, <1>s DEF ExternalStatus, CounterType
  <2>2. snapAtStop' \in -1 .. MaxSends
    <3>1. snapAtStop' \in {-1, snapAtStop, snap}
      BY <1>11 DEF ExternalStatus
    <3>2. snapAtStop \in -1 .. MaxSends /\ MaxSends \in Nat
      BY TransportAssumption DEF CounterType
    <3> QED BY <1>s, <3>1, <3>2
  <2> QED BY <1>11, <2>1, <2>2 DEF ExternalStatus, CounterType
<1>12. CASE Shutdown \/ Backend \/ UNCHANGED vars
  BY <1>1, <1>12 DEF Shutdown, Backend, vars
<1>13. CASE Tick
  <2>1. tickLeft' \in 0 .. SnapshotInterval
    BY <1>13, <1>s DEF Tick, TickerElapses, CounterType
  <2>2. failAge' \in 0 .. DefaultTTL + 1
    BY <1>13, <1>s DEF Tick, Expired, CounterType
  <2>3. sinceCancel' \in Nat
    BY <1>13 DEF Tick, CounterType
  <2>4. stopTime' \in 0 .. MaxStopTime
    <3>1. stopTime \in 0 .. MaxStopTime /\ MaxStopTime \in Nat
      BY AgentAssumption DEF CounterType
    <3>2. CASE ctxDone /\ runPc = "stopping"
      <4>1. stopTime < MaxStopTime /\ stopTime' = stopTime + 1
        BY <1>13, <3>2 DEF Tick, Waiting
      <4> QED BY <3>1, <4>1
    <3>3. CASE ~(ctxDone /\ runPc = "stopping")
      BY <1>13, <3>1, <3>3 DEF Tick
    <3> QED BY <3>2, <3>3
  <2> QED BY <1>13, <2>1, <2>2, <2>3, <2>4 DEF Tick, CounterType
<1> QED
  BY <1>2, <1>3, <1>4, <1>5, <1>6, <1>7, <1>8, <1>9, <1>10, <1>11, <1>12, <1>13
     DEF Next, RunStep

------------------------------------------------------------------------------
(* The health a snapshot carries.                                           *)

\* What a snapshot built now would carry is well formed.
LEMMA PopulateType ==
    ASSUME EntriesType, StateMachineType, FlagType, CounterType,
           prevSent <= sentCount, prevFailed <= failedCount
    PROVE  populateHealth \in Healths
<1>1. sentCount - prevSent \in Nat /\ failedCount - prevFailed \in Nat
  BY DEF CounterType
<1>2. sentCount \in Nat /\ failedCount \in Nat /\ totalCount \in Nat
  BY DEF CounterType
<1>3. smState \in AgentStates /\ ready \in BOOLEAN
  BY DEF StateMachineType, FlagType
<1>4. ActiveErrorCodes \in SUBSET {"BACKEND_UNREACHABLE", "INFORMER_SYNC_TIMEOUT"}
  BY DEF ActiveErrorCodes, ActiveErrors, EntriesType, ErrKeys, BackendUnreachable,
     InformerSyncTimeout, ErrKey
<1> QED
  BY <1>1, <1>2, <1>3, <1>4 DEF populateHealth, Healths

\* The sets HealthCountsCompletedSends speaks of are those the counters count.
LEMMA BeforeFacts ==
    ASSUME NEW s
    PROVE  /\ SentBefore(s) = SentIn(outcome, s - 1)
           /\ FailedBefore(s) = FailedIn(outcome, s - 1)
  BY DEF SentBefore, FailedBefore, SentIn, FailedIn, Failed

\* Steps that build no snapshot and touch no outcome before the newest one.
LEMMA HealthFrame ==
    ASSUME HealthType, CounterType, CounterType', HealthInv,
           UNCHANGED healthVars, sentCount <= sentCount', failedCount <= failedCount',
           \A t \in 1 .. built - 1 : outcome'[t] = outcome[t]
    PROVE  HealthType' /\ HealthInv'
<1>1. HealthType'
  BY DEF HealthType, healthVars
<1>2. prevSent' <= sentCount' /\ prevFailed' <= failedCount'
  <2>1. /\ prevSent <= sentCount /\ prevFailed <= failedCount
        /\ UNCHANGED <<prevSent, prevFailed>>
    BY DEF HealthInv, healthVars
  <2> QED BY <2>1 DEF CounterType
<1>3. HealthCountsCompletedSends'
  <2> SUFFICES ASSUME NEW s \in 1 .. built
               PROVE  SentBefore(s)' = SentBefore(s) /\ FailedBefore(s)' = FailedBefore(s)
    BY DEF HealthCountsCompletedSends, HealthInv, healthVars
  <2>1. \A t \in 1 .. s - 1 : t \in 1 .. built - 1
    BY DEF HealthType
  <2> QED BY <2>1 DEF SentBefore, FailedBefore, Failed
<1> QED
  BY <1>1, <1>2, <1>3 DEF HealthInv, healthVars

\* Every step keeps the health of the snapshots built so far true.
LEMMA HealthNext ==
    ASSUME WireInv, RunType, StateMachineType, FlagType, CounterType, CounterType', HealthType,
           FlowInv, CountInv, HealthInv, [Next]_vars
    PROVE  HealthType' /\ HealthInv'
<1>s. /\ snap \in 0 .. MaxSends /\ snap \in Nat /\ MaxSends \in Nat
      /\ outcome \in [Snapshots -> Outcomes]
  BY TransportAssumption DEF WireInv, TransportTypeOK, SendType, ResultType
<1>n. sentCount \in Nat /\ failedCount \in Nat
  BY DEF CounterType
<1>1. CASE UNCHANGED <<outcome, counterVars, healthVars>>
  BY <1>1, <1>n, HealthFrame DEF counterVars
<1>2. CASE CallSend
  <2>1. UNCHANGED <<counterVars, healthVars>> /\ built = snap + 1
    BY <1>2 DEF CallSend, FlowInv
  <2>2. \A t \in 1 .. built - 1 : t \in Snapshots /\ t # snap + 1
    BY <1>s, <2>1 DEF Snapshots
  <2>3. \A t \in 1 .. built - 1 : outcome'[t] = outcome[t]
    BY <1>2, <1>s, <2>2 DEF CallSend, SendBegin, SendRejected
  <2> QED BY <1>n, <2>1, <2>3, HealthFrame DEF counterVars
<1>3. CASE RunSend
  <2>1. UNCHANGED <<counterVars, healthVars>> /\ built = snap /\ SendStep
    BY <1>3 DEF RunSend, FlowInv
  <2>2. \A t \in 1 .. built - 1 : t \in Snapshots /\ t # snap
    BY <1>s, <2>1 DEF Snapshots
  <2>3. \A t \in 1 .. built - 1 : outcome'[t] = outcome[t]
    <3>1. CASE sendPc' # "idle"
      BY <2>1, <3>1, SendStepFrame
    <3>2. CASE sendPc' = "idle"
      <4>1. RecordResult
        BY <2>1, <3>2, SendStepFrame
      <4> QED BY <1>s, <2>2, <4>1 DEF RecordResult
    <3> QED BY <3>1, <3>2
  <2> QED BY <1>n, <2>1, <2>3, HealthFrame DEF counterVars
<1>4. CASE AccountFailure \/ AccountSuccess
  <2>1. /\ UNCHANGED <<healthVars, outcome>>
        /\ sentCount' = sentCount \/ sentCount' = sentCount + 1
        /\ failedCount' = failedCount \/ failedCount' = failedCount + 1
    BY <1>4 DEF AccountFailure, AccountSuccess, transportVars, sendVars
  <2>2. sentCount <= sentCount' /\ failedCount <= failedCount'
    BY <1>n, <2>1
  <2> QED BY <2>1, <2>2, HealthFrame
<1>5. CASE BuildSnapshot
  <2>0. PICK n \in Nat : n = snap
    BY <1>s
  <2>1. /\ UNCHANGED <<outcome, counterVars>> /\ runPc = "build" /\ built = n /\ built' = n + 1
        /\ n < MaxSends
        /\ reports' = [reports EXCEPT ![n + 1] = populateHealth]
        /\ prevSent' = sentCount /\ prevFailed' = failedCount
    BY <1>5, <2>0 DEF BuildSnapshot, FlowInv, sendVars
  <2>2. n + 1 \in Snapshots /\ n + 1 \in 0 .. MaxSends
    BY <1>s, <2>1 DEF Snapshots
  <2>3. prevSent <= sentCount /\ prevFailed <= failedCount
    BY DEF HealthInv
  <2>4. populateHealth \in Healths
    BY <2>3, PopulateType DEF WireInv, TransportTypeOK
  <2>5. HealthType'
    BY <2>1, <2>2, <2>4 DEF HealthType
  <2>6. /\ reports'[n + 1] = populateHealth
        /\ \A s \in 1 .. n : reports'[s] = reports[s]
    <3>1. reports \in [Snapshots -> Healths]
      BY DEF HealthType
    <3>2. \A s \in 1 .. n : s \in Snapshots /\ s # n + 1
      BY <1>s, <2>0 DEF Snapshots
    <3> QED BY <2>1, <2>2, <3>1, <3>2
  <2>7. /\ populateHealth.sent = sentCount /\ populateHealth.failed = failedCount
        /\ populateHealth.total = totalCount
        /\ populateHealth.sentDelta = sentCount - prevSent
        /\ populateHealth.failedDelta = failedCount - prevFailed
    BY DEF populateHealth
  <2>8. /\ totalCount = n /\ sentCount = Cardinality(SentIn(outcome, n))
        /\ failedCount = Cardinality(FailedIn(outcome, n))
    BY <2>0, <2>1 DEF CountInv, Completed
  <2>9. (n + 1) - 1 = n /\ n + 1 # 0
    OBVIOUS
  <2>10. /\ prevSent' = reports'[built'].sent /\ prevFailed' = reports'[built'].failed
         /\ built' # 0
         /\ prevSent' <= sentCount' /\ prevFailed' <= failedCount'
    BY <1>n, <2>1, <2>6, <2>7, <2>9 DEF counterVars
  <2>11. \A s \in 1 .. n + 1 : SentBefore(s)' = SentBefore(s) /\ FailedBefore(s)' = FailedBefore(s)
    BY <2>1 DEF SentBefore, FailedBefore, Failed
  <2>12. ASSUME NEW s \in 1 .. n + 1
         PROVE  /\ reports'[s].sent = Cardinality(SentBefore(s))
                /\ reports'[s].failed = Cardinality(FailedBefore(s))
                /\ reports'[s].total = s - 1
                /\ s > 1 => /\ reports'[s].sentDelta = reports'[s].sent - reports'[s - 1].sent
                            /\ reports'[s].failedDelta = reports'[s].failed - reports'[s - 1].failed
    <3>1. CASE s \in 1 .. n
      <4>1. s > 1 => s - 1 \in 1 .. n
        BY <3>1
      <4> QED BY <2>1, <2>6, <3>1, <4>1 DEF HealthInv, HealthCountsCompletedSends
    <3>2. CASE s = n + 1
      <4>1. SentBefore(s) = SentIn(outcome, n) /\ FailedBefore(s) = FailedIn(outcome, n)
        BY <2>9, <3>2, BeforeFacts
      <4>2. s > 1 => /\ n # 0 /\ s - 1 = n /\ n \in 1 .. n
        BY <3>2
      <4>3. n # 0 => prevSent = reports[n].sent /\ prevFailed = reports[n].failed
        BY <2>1 DEF HealthInv
      <4> QED BY <2>6, <2>7, <2>8, <2>9, <3>2, <4>1, <4>2, <4>3
    <3> QED BY <3>1, <3>2
  <2>13. HealthCountsCompletedSends'
    BY <2>1, <2>11, <2>12 DEF HealthCountsCompletedSends
  <2> QED BY <2>5, <2>10, <2>13 DEF HealthInv
<1> QED
  BY <1>1, <1>2, <1>3, <1>4, <1>5, QuietStep

------------------------------------------------------------------------------
(* The inductive invariant and what follows from it.                        *)

LocalTypes == StateMachineType /\ RunType /\ FlagType /\ CounterType /\ HealthType

AgentInv ==
    /\ WireInv /\ LocalTypes
    /\ FlowInv /\ ReadyInv /\ StopInv /\ PromptInv /\ StopTimeInv /\ AgeInv
    /\ OutcomeInv /\ CountInv /\ HealthInv

\* The invariant holds initially.
LEMMA AgentInit == Init => AgentInv
<1> SUFFICES ASSUME Init PROVE AgentInv
  OBVIOUS
<1>n. /\ MaxSends \in Nat /\ MaxSends > 0 /\ DefaultTTL \in Nat /\ SnapshotInterval \in Nat
      /\ MaxExternal \in Nat /\ LongestSleep \in Nat /\ MaxStopTime \in Nat
  BY TransportAssumption, AgentAssumption, TTLAssumption, LongestSleepNat
<1>1. WireInv
  BY WireInit
<1>2. StateMachineType /\ RunType /\ FlagType
  <2>1. smState \in AgentStates /\ smReason \in Reasons
    BY DEF Init, StateMachineInit, AgentStates, Reasons
  <2>2. backoffLeft \in Int /\ backoffLeft >= -1
    <3>1. backoffLeft = -1
      BY DEF Init, StateMachineInit
    <3> QED BY <3>1, SMT
  <2>3. RunType
    BY DEF Init, RunType, RunPcs, AgentStates
  <2>4. FlagType
    BY DEF Init, FlagType
  <2> QED BY <2>1, <2>2, <2>3, <2>4 DEF StateMachineType
<1>3. CounterType
  BY <1>n DEF Init, CounterType
<1>4. HealthType
  <2>1. NoHealth \in Healths
    BY DEF NoHealth, Healths, AgentStates
  <2> QED BY <1>n, <2>1 DEF Init, HealthType
<1>5. snap = 0 /\ sendPc = "idle" /\ attempt = 0 /\ sendTotal = [success |-> 0, error |-> 0]
  BY DEF Init, TransportInit
<1>6. FlowInv /\ ReadyInv /\ StopInv
  <2>1. FlowInv
    BY <1>n, <1>5 DEF Init, FlowInv, StartPcs
  <2>2. snapAtStop = -1 /\ ~ready
    BY DEF Init
  <2>3. ~(snapAtStop >= 0)
    BY <2>2
  <2> QED BY <2>1, <2>2, <2>3 DEF ReadyInv, StopInv
<1>7. PromptInv /\ StopTimeInv
  BY <1>n, <1>5 DEF Init, PromptInv, StopTimeInv
<1>8. AgeInv
  <2>1. Expired(failAge) /\ DOMAIN entries = {}
    BY <1>n DEF Init, TransportInit, ErrorCollectorInit, Expired
  <2> QED BY <2>1 DEF AgeInv
<1>9. OutcomeInv
  BY <1>n, <1>5 DEF OutcomeInv, Snapshots
<1>10. CountInv
  <2>1. Completed = 0
    BY <1>5 DEF Init, Completed
  <2>2. sentCount = 0 /\ failedCount = 0 /\ totalCount = 0
    BY DEF Init
  <2>3. sendTotal.success = 0 /\ sendTotal.error = 0
    BY <1>5
  <2> QED BY <1>5, <2>1, <2>2, <2>3, CountNone DEF CountInv
<1>11. HealthInv
  BY DEF Init, HealthInv, HealthCountsCompletedSends
<1> QED
  BY <1>1, <1>2, <1>3, <1>4, <1>6, <1>7, <1>8, <1>9, <1>10, <1>11 DEF AgentInv, LocalTypes

\* Every step preserves the invariant.
LEMMA AgentNext ==
    ASSUME AgentInv, [Next]_vars
    PROVE  AgentInv'
<1>1. /\ WireInv /\ StateMachineType /\ RunType /\ FlagType /\ CounterType /\ HealthType
      /\ FlowInv /\ ReadyInv /\ StopInv /\ PromptInv /\ StopTimeInv /\ AgeInv
      /\ OutcomeInv /\ CountInv /\ HealthInv
  BY DEF AgentInv, LocalTypes
<1>2. WireInv' /\ StateMachineType' /\ RunType' /\ FlagType' /\ CounterType'
  BY <1>1, WireNext, StateTypeNext, RunTypeNext, FlagTypeNext, CounterTypeNext
<1>3. FlowInv' /\ ReadyInv' /\ StopInv' /\ PromptInv' /\ StopTimeInv' /\ AgeInv'
  BY <1>1, FlowNext, ReadyNext, StopNext, PromptNext, StopTimeNext, AgeNext
<1>4. OutcomeInv' /\ CountInv'
  BY <1>1, OutcomeNext, CountNext
<1>5. HealthType' /\ HealthInv'
  BY <1>1, <1>2, HealthNext
<1> QED
  BY <1>2, <1>3, <1>4, <1>5 DEF AgentInv, LocalTypes

\* The invariant holds of every behaviour of the agent.
LEMMA AgentInvariance == Spec => []AgentInv
<1>1. AgentInv /\ [Next]_vars => AgentInv'
  BY AgentNext
<1> QED
  BY AgentInit, <1>1, PTL DEF Spec

\* Type correctness of the composed agent.
THEOREM AgentTypeCorrect == Spec => []TypeOK
<1>1. AgentInv => TypeOK
  BY DEF AgentInv, LocalTypes, WireInv, TypeOK
<1> QED
  BY <1>1, AgentInvariance, PTL

\* After a stop that Run was not about to overwrite, at most one more snapshot leaves.
THEOREM AtMostOneSnapshotAfterStopHolds == Spec => []AtMostOneSnapshotAfterStop
<1>1. AgentInv => AtMostOneSnapshotAfterStop
  BY DEF AgentInv, StopInv, AtMostOneSnapshotAfterStop
<1> QED
  BY <1>1, AgentInvariance, PTL

\* From SIGTERM to the end of the loop no more time passes than one sleep, and to the
\* return of Run no more than StopAll's bound on top of it.
THEOREM PromptShutdownHolds == Spec => []PromptShutdown
<1>1. AgentInv => PromptShutdown
  <2> SUFFICES ASSUME PromptInv, StopTimeInv, CounterType
               PROVE  /\ ~LoopOver => sinceCancel <= LongestSleep
                      /\ sinceCancel <= LongestSleep + MaxStopTime
    BY DEF AgentInv, LocalTypes, PromptShutdown, LongestSleep
  <2>1. /\ sinceCancel \in Nat /\ stopTime \in 0 .. MaxStopTime /\ LongestSleep \in Nat
        /\ MaxStopTime \in Nat
    BY LongestSleepNat, AgentAssumption DEF CounterType
  <2>2. sinceCancel <= LongestSleep + stopTime /\ (~LoopOver => stopTime = 0)
    BY DEF PromptInv, StopTimeInv
  <2> QED BY <2>1, <2>2
<1> QED
  BY <1>1, AgentInvariance, PTL

\* The health of each snapshot tells how the sends before it ended.
THEOREM HealthCountsCompletedSendsHolds == Spec => []HealthCountsCompletedSends
<1>1. AgentInv => HealthCountsCompletedSends
  BY DEF AgentInv, HealthInv
<1> QED
  BY <1>1, AgentInvariance, PTL

\* Between sends the agent's counters, the transport's metrics and the outcomes agree.
THEOREM CountersAgreeHolds == Spec => []CountersAgree
<1>1. AgentInv => CountersAgree
  <2> SUFFICES ASSUME AgentInv, runPc \in {"select", "dispatch", "resume", "recheck", "stopping",
                                           "returned"}
               PROVE  /\ totalCount = snap
                      /\ sentCount = sendTotal.success
                      /\ failedCount = sendTotal.error
                            + Cardinality({s \in Snapshots : outcome[s] \in LocalErrors})
                      /\ totalCount = sentCount + failedCount
    BY DEF CountersAgree
  <2>1. Completed = snap
    BY DEF Completed
  <2>2. CountInv /\ WireInv
    BY DEF AgentInv
  <2>3. {s \in Snapshots : outcome[s] \in LocalErrors} = LocalIn(outcome, snap)
    <3>1. snap \in 0 .. MaxSends /\ MaxSends \in Nat
      BY <2>2, TransportAssumption DEF WireInv, TransportTypeOK, SendType
    <3>2. \A s \in Snapshots : s \in 1 .. snap \/ s > snap
      BY <3>1 DEF Snapshots
    <3>3. \A s \in Snapshots : s > snap => outcome[s] \notin LocalErrors
      BY <2>2, LocalFacts DEF WireInv, OrderInv
    <3>4. \A s \in 1 .. snap : s \in Snapshots
      BY <3>1 DEF Snapshots
    <3> QED BY <3>2, <3>3, <3>4 DEF LocalIn
  <2> QED BY <2>1, <2>2, <2>3 DEF CountInv
<1> QED
  BY <1>1, AgentInvariance, PTL

\* A snapshot is only built by BuildSnapshot.
LEMMA OnlyBuildBuilds ==
    ASSUME RunType, FlowInv, [Next]_vars, built' # built
    PROVE  BuildSnapshot
  BY QuietStep DEF CallSend, RunSend, AccountFailure, AccountSuccess, healthVars

\* The health of a snapshot lists BACKEND_UNREACHABLE exactly when a send over the network
\* failed within the TTL.
THEOREM HealthTellsRecentFailuresHolds == Spec => HealthTellsRecentFailures
<1>1. AgentInv /\ [Next]_vars =>
         [built' # built =>
             ("BACKEND_UNREACHABLE" \in reports'[built'].codes <=> ~Expired(failAge))]_vars
  <2> SUFFICES ASSUME AgentInv, [Next]_vars, built' # built
               PROVE  "BACKEND_UNREACHABLE" \in reports'[built'].codes <=> ~Expired(failAge)
    OBVIOUS
  <2>1. /\ RunType /\ FlowInv /\ AgeInv /\ HealthType /\ EntriesType
        /\ snap \in 0 .. MaxSends /\ MaxSends \in Nat
    BY TransportAssumption DEF AgentInv, LocalTypes, WireInv, TransportTypeOK, SendType
  <2>2. BuildSnapshot
    BY <2>1, OnlyBuildBuilds
  <2>3. /\ built' = built + 1 /\ reports' = [reports EXCEPT ![built + 1] = populateHealth]
        /\ built = snap /\ snap < MaxSends
    BY <2>1, <2>2 DEF BuildSnapshot, FlowInv
  <2>4. built + 1 \in Snapshots
    BY <2>1, <2>3 DEF Snapshots
  <2>5. reports'[built'] = populateHealth
    BY <2>1, <2>3, <2>4 DEF HealthType
  <2>6. reports'[built'].codes = ActiveErrorCodes
    BY <2>5 DEF populateHealth
  <2>7. "BACKEND_UNREACHABLE" \in ActiveErrorCodes <=> BackendUnreachable \in ActiveErrors
    BY <2>1 DEF ActiveErrorCodes, ActiveErrors, EntriesType, ErrKeys, BackendUnreachable,
       InformerSyncTimeout, ErrKey
  <2>8. BackendUnreachable \in ActiveErrors <=> ~Expired(failAge)
    BY <2>1 DEF ActiveErrors, AgeInv
  <2> QED BY <2>6, <2>7, <2>8
<1> QED
  BY <1>1, AgentInvariance, PTL DEF Spec, HealthTellsRecentFailures

\* The agent as a whole, whatever cancels, stops or restarts its sends, keeps the
\* transport's promise: snapshots in order, one at a time, sent implies stored.
THEOREM AgentImplementsDelivery == Spec => Delivery!DeliverySafety
<1>1. Init => Delivery!DeliveryInit
  BY InitDelivery DEF Init
<1>2. AgentInv /\ AgentInv' /\ [Next]_vars => [Delivery!DeliveryNext]_(Delivery!deliveryVars)
  <2> SUFFICES ASSUME AgentInv, AgentInv', [Next]_vars
               PROVE  [Delivery!DeliveryNext]_(Delivery!deliveryVars)
    OBVIOUS
  <2>1. TransportTypeOK /\ DeliveryInv /\ OrderInv /\ OrderInv'
    BY DEF AgentInv, WireInv
  <2>2. CASE [TransportNext]_transportVars
    BY <2>1, <2>2, DeliveryStep
  <2>3. CASE UNCHANGED <<ctxDone, sendVars, wireVars, backendVars>>
    <3>1. UNCHANGED <<snap, outcome, sendPc, ingested>>
      BY <2>3 DEF sendVars, backendVars
    <3>2. \A s \in Snapshots : StageOf(s)' = StageOf(s)
      BY <3>1, StageFrame
    <3> QED BY <3>1, <3>2 DEF Delivery!deliveryVars
  <2> QED BY <2>2, <2>3, TransportPart
<1> QED
  BY <1>1, <1>2, AgentInvariance, PTL DEF Spec, Delivery!DeliverySafety

=============================================================================
