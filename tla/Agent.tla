-------------------------------- MODULE Agent --------------------------------
(***************************************************************************)
(* internal/agent/agent.go: Agent.Run and doSnapshot, composed with the    *)
(* state machine, transport.Client and the error collector they drive.     *)
(*                                                                         *)
(* Run is one goroutine; main's signal goroutine cancels its context, the  *)
(* health server reads ready and latestSnapshot, and another holder of the *)
(* state machine may call HandleHTTPStatus at any moment (the agent's tests *)
(* do; main does not, so ExternalStatuses = {} is the deployed agent).     *)
(*                                                                         *)
(* The collectors are what StartAll, WaitForSync and StopAll return here,  *)
(* and how long StopAll takes; Registry models them.                       *)
(***************************************************************************)
EXTENDS Transport, StateMachine

CONSTANTS
    SnapshotInterval,   \* config.SnapshotInterval, in model time units
    MaxStopTime,        \* what StopAll takes after a cancellation (StopAllTimeBound)
    ExternalStatuses,   \* statuses other holders feed to the state machine
    MaxExternal         \* bound: how many such calls

\* Run takes its first snapshot before the first tick, so the bound allows one.
ASSUME AgentAssumption ==
    /\ MaxSends > 0
    /\ SnapshotInterval \in Nat \ {0}
    /\ MaxStopTime \in Nat
    /\ ExternalStatuses \subseteq 100 .. 599
    /\ MaxExternal \in Nat

VARIABLES
    runPc,          \* where Run is
    resumeAt,       \* where Run continues after the current doSnapshot
    seenState,      \* Run's local copy of the state, read when the tick arrived
    runErr,         \* what Run returned: "none", "nil", "start", "ctx"
    allStarted,     \* StartAll returned nil, and not a PartialStartError
    ready,          \* Agent.ready, read by /readyz
    tickPending,    \* a tick is in the ticker's channel (capacity 1)
    tickLeft,       \* time left to the next tick, 0 before the ticker exists
    sentCount,      \* Agent.snapshotsSent
    failedCount,    \* Agent.snapshotsFailed
    totalCount,     \* Agent.snapshotsTotal
    prevSent,       \* Agent.prevSnapshotsSent
    prevFailed,     \* Agent.prevSnapshotsFailed
    built,          \* number of snapshots built; the newest is Agent.latestSnapshot
    reports,        \* the health each snapshot was built with
    failAge,        \* history: age of the last network failure, saturating
    externalLeft,   \* bound: external calls still allowed
    snapAtStop,     \* history: snap when an external call stopped the agent, or -1
    sinceCancel,    \* history: time since the context was canceled
    stopTime        \* history: time StopAll has taken since then

counterVars == <<sentCount, failedCount, totalCount>>
healthVars == <<prevSent, prevFailed, built, reports>>
tickerVars == <<tickPending, tickLeft>>
historyVars == <<failAge, sinceCancel, stopTime, snapAtStop>>
vars == <<transportVars, smVars, runPc, resumeAt, seenState, runErr, ready, allStarted,
          tickerVars, counterVars, healthVars, historyVars, externalLeft>>

NoHealth ==
    [sent |-> 0, failed |-> 0, total |-> 0, sentDelta |-> 0, failedDelta |-> 0,
     state |-> "starting", informersSynced |-> FALSE, codes |-> {}]

Init ==
    /\ TransportInit
    /\ StateMachineInit
    /\ runPc = "start"
    /\ resumeAt = "select"
    /\ seenState = "starting"
    /\ runErr = "none"
    /\ allStarted = FALSE
    /\ ready = FALSE
    /\ tickPending = FALSE
    /\ tickLeft = 0
    /\ sentCount = 0 /\ failedCount = 0 /\ totalCount = 0
    /\ prevSent = 0 /\ prevFailed = 0
    /\ built = 0
    /\ reports = [s \in Snapshots |-> NoHealth]
    /\ failAge = DefaultTTL + 1
    /\ externalLeft = MaxExternal
    /\ snapAtStop = -1
    /\ sinceCancel = 0
    /\ stopTime = 0

------------------------------------------------------------------------------
(* Run: start-up.                                                           *)

\* Run moves on and changes nothing else but what the action itself names.
RunOnly ==
    UNCHANGED <<transportVars, tickerVars, counterVars, healthVars, historyVars,
                externalLeft>>

\* StartAll: no error, or a PartialStartError, which Run only logs.
StartCollectors ==
    /\ runPc = "start"
    /\ runPc' = "sync"
    /\ allStarted' \in BOOLEAN
    /\ RunOnly
    /\ UNCHANGED <<smVars, resumeAt, seenState, runErr, ready>>

\* StartAll: every collector failed.  Run returns before StopAll is deferred.
StartFailed ==
    /\ runPc = "start"
    /\ runPc' = "returned"
    /\ runErr' = "start"
    /\ RunOnly
    /\ UNCHANGED <<smVars, resumeAt, seenState, ready, allStarted>>

SyncCompleted ==
    /\ runPc = "sync"
    /\ runPc' = "toRunning"
    /\ RunOnly
    /\ UNCHANGED <<smVars, resumeAt, seenState, runErr, ready, allStarted>>

\* The sync timeout or the cancellation of its parent: report and continue.
SyncIncomplete ==
    /\ runPc = "sync"
    /\ runPc' = "toRunning"
    /\ Report(InformerSyncTimeout)
    /\ UNCHANGED <<ctxDone, sendVars, wireVars, backendVars, smVars, resumeAt, seenState,
                   runErr, ready, tickerVars, counterVars, healthVars, historyVars,
                   externalLeft, allStarted>>

EnterRunning ==
    /\ runPc = "toRunning"
    /\ runPc' = "setReady"
    /\ TransitionTo("running", "informers synced")
    /\ RunOnly
    /\ UNCHANGED <<resumeAt, seenState, runErr, ready, allStarted>>

\* ready is set and the ticker created; the first snapshot follows at once.
SetReady ==
    /\ runPc = "setReady"
    /\ runPc' = "build"
    /\ resumeAt' = "select"
    /\ ready' = TRUE
    /\ tickLeft' = SnapshotInterval
    /\ UNCHANGED <<transportVars, smVars, seenState, runErr, tickPending, counterVars,
                   healthVars, historyVars, externalLeft, allStarted>>

------------------------------------------------------------------------------
(* Run: the loop.                                                           *)

\* Mutant: break in place of return, which leaves the select and not the loop.
MutBreakLeavesSelect ==
    /\ runPc = "select"
    /\ ctxDone
    /\ runPc' = IF snap < MaxSends THEN "dispatch" ELSE "select"
    /\ seenState' = smState
    /\ RunOnly
    /\ UNCHANGED <<smVars, resumeAt, runErr, ready, allStarted>>

LoopCanceled ==
    /\ runPc = "select"
    /\ ctxDone
    /\ runPc' = "stopping"
    /\ runErr' = "ctx"
    /\ RunOnly
    /\ UNCHANGED <<smVars, resumeAt, seenState, ready, allStarted>>

\* A tick is received and the state read.  After MaxSends snapshots only a tick that
\* ends the loop is considered.
OnTick ==
    /\ runPc = "select"
    /\ tickPending
    /\ snap < MaxSends \/ smState \in TerminalStates
    /\ tickPending' = FALSE
    /\ seenState' = smState
    /\ runPc' = "dispatch"
    /\ UNCHANGED <<transportVars, smVars, resumeAt, runErr, ready, tickLeft, counterVars,
                   healthVars, historyVars, externalLeft, allStarted>>

\* Mutant: everything but a backoff takes a snapshot.
MutDefaultSnapshots ==
    /\ runPc = "dispatch"
    /\ seenState # "backoff"
    /\ runPc' = "build"
    /\ resumeAt' = "recheck"
    /\ RunOnly
    /\ UNCHANGED <<smVars, seenState, runErr, ready, allStarted>>

DispatchRunning ==
    /\ runPc = "dispatch"
    /\ seenState = "running"
    /\ runPc' = "build"
    /\ resumeAt' = "recheck"
    /\ RunOnly
    /\ UNCHANGED <<smVars, seenState, runErr, ready, allStarted>>

DispatchBackoff ==
    /\ runPc = "dispatch"
    /\ seenState = "backoff"
    /\ runPc' = IF IsBackoffExpired THEN "resume" ELSE "recheck"
    /\ RunOnly
    /\ UNCHANGED <<smVars, resumeAt, seenState, runErr, ready, allStarted>>

ResumeFromBackoff ==
    /\ runPc = "resume"
    /\ TransitionTo("running", "backoff expired")
    /\ runPc' = "build"
    /\ resumeAt' = "recheck"
    /\ RunOnly
    /\ UNCHANGED <<seenState, runErr, ready, allStarted>>

DispatchTerminal ==
    /\ runPc = "dispatch"
    /\ seenState \in TerminalStates
    /\ runPc' = "stopping"
    /\ runErr' = "nil"
    /\ RunOnly
    /\ UNCHANGED <<smVars, resumeAt, seenState, ready, allStarted>>

Recheck ==
    /\ runPc = "recheck"
    /\ IF smState \in TerminalStates
          THEN runPc' = "stopping" /\ runErr' = "nil"
          ELSE runPc' = "select" /\ UNCHANGED runErr
    /\ RunOnly
    /\ UNCHANGED <<smVars, resumeAt, seenState, ready, allStarted>>

\* The deferred ticker.Stop and StopAll, which waits for ever for a collector whose
\* Start failed (Registry).
StopCollectors ==
    /\ runPc = "stopping"
    /\ allStarted
    /\ runPc' = "returned"
    /\ tickPending' = FALSE
    /\ tickLeft' = 0
    /\ UNCHANGED <<transportVars, smVars, resumeAt, seenState, runErr, ready, counterVars,
                   healthVars, historyVars, externalLeft, allStarted>>

------------------------------------------------------------------------------
(* doSnapshot.                                                              *)

\* The agent's part of populateHealth: it runs before the send, so the counters are
\* those of the doSnapshots that have completed.
populateHealth ==
    [sent |-> sentCount, failed |-> failedCount, total |-> totalCount,
     sentDelta |-> sentCount - prevSent, failedDelta |-> failedCount - prevFailed,
     state |-> smState, informersSynced |-> ready, codes |-> ActiveErrorCodes]

\* Mutant: prevSnapshotsFailed is not moved up.
MutPrevFailedKept ==
    /\ runPc = "build"
    /\ runPc' = "send"
    /\ built' = built + 1
    /\ reports' = [reports EXCEPT ![built + 1] = populateHealth]
    /\ prevSent' = sentCount
    /\ GetActiveErrors
    /\ UNCHANGED <<ctxDone, sendVars, wireVars, backendVars, smVars, resumeAt, seenState,
                   runErr, ready, tickerVars, counterVars, historyVars, externalLeft,
                   prevFailed, allStarted>>

\* Build, populateHealth (which expires old errors) and latestSnapshot.Store.
BuildSnapshot ==
    /\ runPc = "build"
    /\ runPc' = "send"
    /\ built' = built + 1
    /\ reports' = [reports EXCEPT ![built + 1] = populateHealth]
    /\ prevSent' = sentCount
    /\ prevFailed' = failedCount
    /\ GetActiveErrors
    /\ UNCHANGED <<ctxDone, sendVars, wireVars, backendVars, smVars, resumeAt, seenState,
                   runErr, ready, allStarted, tickerVars, counterVars, historyVars,
                   externalLeft>>

CallSend ==
    /\ runPc = "send"
    /\ \/ SendBegin /\ runPc' = "sending"
       \/ SendRejected /\ runPc' = "account"
    /\ UNCHANGED <<smVars, resumeAt, seenState, runErr, ready, tickerVars, counterVars,
                   healthVars, historyVars, externalLeft, allStarted>>

RunSend ==
    /\ runPc = "sending"
    /\ SendStep
    /\ runPc' = IF sendPc' = "idle" THEN "account" ELSE "sending"
    /\ failAge' = IF sendPc' = "idle" /\ outcome'[snap] \in SendErrors THEN 0 ELSE failAge
    /\ UNCHANGED <<smVars, resumeAt, seenState, runErr, ready, tickerVars, counterVars,
                   healthVars, sinceCancel, stopTime, snapAtStop, externalLeft, allStarted>>

\* Mutant: a snapshot that was never posted is not counted as failed.
MutRejectedNotCounted ==
    /\ runPc = "account"
    /\ Failed(snap)
    /\ totalCount' = totalCount + 1
    /\ failedCount' = IF outcome[snap] \in LocalErrors THEN failedCount ELSE failedCount + 1
    /\ runPc' = resumeAt
    /\ UNCHANGED <<transportVars, smVars, resumeAt, seenState, runErr, ready, tickerVars,
                   sentCount, healthVars, historyVars, externalLeft, allStarted>>

\* Mutant: a failed send ends the loop.
MutFailureEndsRun ==
    /\ runPc = "account"
    /\ Failed(snap)
    /\ totalCount' = totalCount + 1
    /\ failedCount' = failedCount + 1
    /\ runPc' = "stopping"
    /\ UNCHANGED <<transportVars, smVars, resumeAt, seenState, runErr, ready, tickerVars,
                   sentCount, healthVars, historyVars, externalLeft, allStarted>>

\* The counters once Send has returned.  An error ends doSnapshot here: no status
\* reaches the state machine.
AccountFailure ==
    /\ runPc = "account"
    /\ Failed(snap)
    /\ totalCount' = totalCount + 1
    /\ failedCount' = failedCount + 1
    /\ runPc' = resumeAt
    /\ UNCHANGED <<transportVars, smVars, resumeAt, seenState, runErr, ready, tickerVars,
                   sentCount, healthVars, historyVars, externalLeft, allStarted>>

AccountSuccess ==
    /\ runPc = "account"
    /\ ~Failed(snap)
    /\ totalCount' = totalCount + 1
    /\ sentCount' = sentCount + 1
    /\ runPc' = "checkState"
    /\ UNCHANGED <<transportVars, smVars, resumeAt, seenState, runErr, ready, tickerVars,
                   failedCount, healthVars, historyVars, externalLeft, allStarted>>

\* Mutant: the state is not looked at after a successful send.
MutAlwaysHandle200 ==
    /\ runPc = "checkState"
    /\ runPc' = "handle200"
    /\ RunOnly
    /\ UNCHANGED <<smVars, resumeAt, seenState, runErr, ready, allStarted>>

CheckStateAfterSend ==
    /\ runPc = "checkState"
    /\ runPc' = IF smState \in TerminalStates THEN resumeAt ELSE "handle200"
    /\ RunOnly
    /\ UNCHANGED <<smVars, resumeAt, seenState, runErr, ready, allStarted>>

HandleSuccess ==
    /\ runPc = "handle200"
    /\ HandleHTTPStatus(200, 0)
    /\ runPc' = resumeAt
    /\ RunOnly
    /\ UNCHANGED <<resumeAt, seenState, runErr, ready, allStarted>>

------------------------------------------------------------------------------
(* The other actors and time.                                               *)

\* Run has looked at the state and goes on to overwrite it with running: after the
\* state check of doSnapshot, or once it has seen a backoff.
OverwritesState ==
    \/ runPc \in {"handle200", "resume"}
    \/ runPc = "dispatch" /\ seenState = "backoff"

\* Another goroutine that holds the state machine; the tests wait until the agent
\* is ready before they use it.  A stop counts from the call that made it, unless Run
\* was about to overwrite it, until another call undoes it.
ExternalStatus ==
    /\ externalLeft > 0
    /\ ready
    /\ runPc # "returned"
    /\ \E status \in ExternalStatuses, retryAfter \in {0, 1} :
          HandleHTTPStatus(status, retryAfter)
    /\ externalLeft' = externalLeft - 1
    /\ snapAtStop' = IF smState' \notin TerminalStates \/ OverwritesState THEN -1
                     ELSE IF snapAtStop >= 0 THEN snapAtStop ELSE snap
    /\ UNCHANGED <<transportVars, runPc, resumeAt, seenState, runErr, ready, tickerVars,
                   counterVars, healthVars, failAge, sinceCancel, stopTime, allStarted>>

Shutdown ==
    /\ runPc # "returned"
    /\ Cancel
    /\ UNCHANGED <<smVars, runPc, resumeAt, seenState, runErr, ready, tickerVars,
                   counterVars, healthVars, historyVars, externalLeft, allStarted>>

Backend ==
    /\ BackendServes
    /\ UNCHANGED <<smVars, runPc, resumeAt, seenState, runErr, ready, tickerVars,
                   counterVars, healthVars, historyVars, externalLeft, allStarted>>

\* Run lets time pass while it waits for the sync, in select, inside Send and in StopAll.
\* After a cancellation StopAll has its bound; before one a poll may hold it up for any
\* time.  What follows when it hangs is left out.
Waiting ==
    \/ runPc = "sync" /\ ~ctxDone
    \/ runPc = "stopping" /\ allStarted /\ (ctxDone => stopTime < MaxStopTime)
    \/ runPc = "select" /\ ~ctxDone /\ ~tickPending
    \/ runPc = "sending" /\ sendPc # "idle"

\* The ticker drops a tick nobody has received.
TickerElapses ==
    IF tickLeft = 0
       THEN UNCHANGED tickerVars
       ELSE IF tickLeft = 1
            THEN tickPending' = TRUE /\ tickLeft' = SnapshotInterval
            ELSE UNCHANGED tickPending /\ tickLeft' = tickLeft - 1

Tick ==
    /\ Waiting
    /\ SendElapses
    /\ AgeEntries
    /\ BackoffElapses
    /\ TickerElapses
    /\ failAge' = IF Expired(failAge) THEN failAge ELSE failAge + 1
    /\ sinceCancel' = IF ctxDone THEN sinceCancel + 1 ELSE sinceCancel
    /\ stopTime' = IF ctxDone /\ runPc = "stopping" THEN stopTime + 1 ELSE stopTime
    /\ UNCHANGED <<runPc, resumeAt, seenState, runErr, ready, allStarted, counterVars,
                   healthVars, snapAtStop, externalLeft>>

RunStep ==
    \/ StartCollectors \/ StartFailed \/ SyncCompleted \/ SyncIncomplete
    \/ EnterRunning \/ SetReady
    \/ LoopCanceled \/ OnTick
    \/ DispatchRunning \/ DispatchBackoff \/ ResumeFromBackoff \/ DispatchTerminal
    \/ Recheck \/ StopCollectors
    \/ BuildSnapshot \/ CallSend \/ RunSend
    \/ AccountFailure \/ AccountSuccess \/ CheckStateAfterSend \/ HandleSuccess

Next == RunStep \/ ExternalStatus \/ Shutdown \/ Backend \/ Tick

\* Run's goroutine is scheduled and the clock advances.  Nothing is assumed of the
\* backend, of signals or of other holders of the state machine, nor of a StopAll that
\* no cancellation hurries: a poll that the API server does not answer holds it up.
RunDue == SendDue /\ (runPc = "stopping" => ctxDone)

Spec == Init /\ [][Next]_vars /\ WF_vars(RunStep /\ RunDue) /\ WF_vars(Tick)
------------------------------------------------------------------------------
(* Properties.                                                              *)

Healths ==
    [sent : Nat, failed : Nat, total : Nat, sentDelta : Nat, failedDelta : Nat,
     state : AgentStates, informersSynced : BOOLEAN,
     codes : SUBSET {"BACKEND_UNREACHABLE", "INFORMER_SYNC_TIMEOUT"}]

RunPcs ==
    {"start", "sync", "toRunning", "setReady", "select", "dispatch", "resume", "recheck",
     "stopping", "returned", "build", "send", "sending", "account", "checkState",
     "handle200"}

RunType ==
    /\ runPc \in RunPcs
    /\ resumeAt \in {"select", "recheck"}
    /\ seenState \in AgentStates
    /\ runErr \in {"none", "nil", "start", "ctx"}

FlagType ==
    /\ ready \in BOOLEAN
    /\ allStarted \in BOOLEAN
    /\ tickPending \in BOOLEAN

CounterType ==
    /\ tickLeft \in 0 .. SnapshotInterval
    /\ sentCount \in Nat /\ failedCount \in Nat /\ totalCount \in Nat
    /\ prevSent \in Nat /\ prevFailed \in Nat
    /\ failAge \in 0 .. DefaultTTL + 1
    /\ externalLeft \in 0 .. MaxExternal
    /\ snapAtStop \in -1 .. MaxSends
    /\ sinceCancel \in Nat
    /\ stopTime \in 0 .. MaxStopTime

HealthType ==
    /\ built \in 0 .. MaxSends
    /\ reports \in [Snapshots -> Healths]

\* Type invariant of the whole agent.
TypeOK ==
    /\ TransportTypeOK
    /\ StateMachineType
    /\ RunType /\ FlagType /\ CounterType /\ HealthType

SentBefore(s) == {t \in 1 .. s - 1 : outcome[t] = "sent"}
FailedBefore(s) == {t \in 1 .. s - 1 : Failed(t)}

\* "Counters reflect completed operations only": the health a snapshot carries tells
\* exactly how the sends before it ended, whatever their attempts, and its deltas are
\* the change since the snapshot built before it.
HealthCountsCompletedSends ==
    \A s \in 1 .. built :
        LET h == reports[s] IN
        /\ h.sent = Cardinality(SentBefore(s))
        /\ h.failed = Cardinality(FailedBefore(s))
        /\ h.total = s - 1
        /\ s > 1 => /\ h.sentDelta = h.sent - reports[s - 1].sent
                    /\ h.failedDelta = h.failed - reports[s - 1].failed

\* The agent's counters, the Prometheus counters of the transport and the outcomes
\* agree between sends; a snapshot rejected locally is a failure that the transport's
\* metrics do not count.
CountersAgree ==
    runPc \in {"select", "dispatch", "resume", "recheck", "stopping", "returned"} =>
        /\ totalCount = snap
        /\ sentCount = sendTotal.success
        /\ failedCount = sendTotal.error
                         + Cardinality({s \in Snapshots : outcome[s] \in LocalErrors})
        /\ totalCount = sentCount + failedCount

\* The health of a snapshot lists BACKEND_UNREACHABLE exactly when a send over the
\* network failed within the error TTL.
HealthTellsRecentFailures ==
    [][built' # built =>
          ("BACKEND_UNREACHABLE" \in reports'[built'].codes <=> ~Expired(failAge))]_vars

LoopOver == runPc \in {"stopping", "returned"}

\* From SIGTERM to the end of the loop no more time passes than the longest sleep
\* between two attempts, as every other wait of the loop ends at once; when every
\* collector has started, the deferred StopAll adds its own bound and no more.
PromptShutdown ==
    LET longestSleep == IF MaxRetries = 0 THEN 0 ELSE 2^(MaxRetries - 1)
    IN  /\ ~LoopOver => sinceCancel <= longestSleep
        /\ allStarted => sinceCancel <= longestSleep + MaxStopTime

\* SIGTERM always ends Run's loop, and Run itself unless some collector's Start had
\* failed: then Run, which went on after the PartialStartError, is left in StopAll.
ShutdownReturns == ctxDone ~> (runPc = "returned" \/ (runPc = "stopping" /\ ~allStarted))

Refused(s) == outcome[s] \in Refusals

\* Failures that may pass do not wedge the loop: unless it is canceled, could not start,
\* or the backend has refused a snapshot for good (AuthFailureIsFinal), the agent goes
\* on to send as many snapshots as the bound allows, after a partial start as well.
KeepsSending ==
    <>(snap = MaxSends \/ ctxDone \/ runErr = "start" \/ \E s \in Snapshots : Refused(s))

\* Run leaves its loop after another holder of the state machine has stopped it, unless
\* that holder undoes the stop.  A stop that comes when Run is about to overwrite the
\* state is not covered: the code loses it (agent.go:226-231 and 157-163).
StopHonoured == (snapAtStop >= 0) ~> (LoopOver \/ snapAtStop < 0)

\* After such a stop at most one more snapshot leaves, the one whose doSnapshot had
\* already been decided; nothing Run does afterwards puts the agent back to work.
AtMostOneSnapshotAfterStop == snapAtStop >= 0 => snap <= snapAtStop + 1

\* A backoff ends: the agent leaves it once it has expired.
BackoffEnds ==
    (smState = "backoff") ~> (smState # "backoff" \/ LoopOver \/ snap = MaxSends)

------------------------------------------------------------------------------
(* What the documentation says and the code does not do.                    *)

\* docs/troubleshooting.md: a 401 stops the agent, and "Once the agent reaches
\* `stopped`, it does not retry": no snapshot is sent after one was refused with 401.
AuthFailureIsFinal ==
    \A s \in Snapshots : outcome[s] = "authentication failed" => snap = s

=============================================================================
