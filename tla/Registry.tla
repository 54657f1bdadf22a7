------------------------------- MODULE Registry -------------------------------
(***************************************************************************)
(* internal/collector: the Registry and the life of the collectors it      *)
(* holds, driven by Agent.Run: StartAll, WaitForSync, the main loop, the   *)
(* deferred StopAll.                                                       *)
(*                                                                         *)
(* An informer collector (internal/collector/resource) runs its informer   *)
(* in a goroutine that restarts it up to informerMaxRetries times and then *)
(* closes done.  A poller (internal/collector/metrics and gpu) polls in a  *)
(* goroutine that ends on stopCh or on its context.  Stop closes stopCh    *)
(* and waits for done.  A unit of time is the 5 seconds of the linear      *)
(* backoff; the informer itself and the polled API are external.           *)
(***************************************************************************)
EXTENDS Integers, Sequences, FiniteSets

CONSTANTS
    Informers,            \* informer collectors
    Pollers,              \* polling collectors
    Order,                \* the order of registration, and so of StopAll
    StartFailures,        \* informers whose Start may fail in AddEventHandler
    InformerMaxRetries,   \* informerMaxRetries, 3 in the code
    Stoppers,             \* callers of StopAll; "run" is Agent.Run's defer
    MaxPolls              \* bound: polls of one poller

Collectors == Informers \cup Pollers

ASSUME RegistryAssumption ==
    /\ Informers \cap Pollers = {}
    /\ IsFiniteSet(Collectors)
    /\ Order \in Seq(Collectors)
    /\ \A c \in Collectors : \E i \in 1 .. Len(Order) : Order[i] = c
    /\ Len(Order) = Cardinality(Collectors)
    /\ StartFailures \subseteq Informers
    /\ InformerMaxRetries \in Nat
    /\ "run" \in Stoppers
    /\ MaxPolls \in Nat \ {0}

VARIABLES
    ctxDone,       \* the context of Run and of the pollers
    mainPc,        \* where Run is
    started,       \* Registry.started
    startRes,      \* result of each collector's Start
    syncExpired,   \* the sync context is done
    syncRes,       \* result of each collector's WaitForSync
    syncOk,        \* WaitForSync of the registry returned no error
    hasSynced,     \* the informer has its initial list; the poller polled once
    stopCh,        \* closed?
    done,          \* closed?
    panicked,      \* a closed channel was closed again
    gPc,           \* the collector's goroutine
    attempt,       \* informer: attempt of the recovery loop
    sleepLeft,     \* informer: time left of its sleep
    polls,         \* poller: number of polls
    stopPc,        \* callers of StopAll
    stopIdx,       \* the collector each caller is stopping
    stopElapsed    \* history: time a StopAll has been running

mainVars == <<mainPc, startRes, syncExpired, syncRes, syncOk>>
chanVars == <<stopCh, done, panicked>>
goVars == <<gPc, attempt, sleepLeft, polls, hasSynced>>
stopVars == <<stopPc, stopIdx, started>>
vars == <<ctxDone, mainVars, chanVars, goVars, stopVars, stopElapsed>>

Init ==
    /\ ctxDone = FALSE
    /\ mainPc = "start"
    /\ started = FALSE
    /\ startRes = [c \in Collectors |-> "none"]
    /\ syncExpired = FALSE
    /\ syncRes = [c \in Collectors |-> "none"]
    /\ syncOk = FALSE
    /\ hasSynced = [c \in Collectors |-> FALSE]
    /\ stopCh = [c \in Collectors |-> FALSE]
    /\ done = [c \in Collectors |-> FALSE]
    /\ panicked = FALSE
    /\ gPc = [c \in Collectors |-> "none"]
    /\ attempt = [c \in Collectors |-> 0]
    /\ sleepLeft = [c \in Collectors |-> 0]
    /\ polls = [c \in Collectors |-> 0]
    /\ stopPc = [p \in Stoppers |-> "idle"]
    /\ stopIdx = [p \in Stoppers |-> 0]
    /\ stopElapsed = 0

------------------------------------------------------------------------------
(* StartAll.                                                                *)

\* started is set before any collector is started; one goroutine per collector.
StartAllBegin ==
    /\ mainPc = "start"
    /\ started' = TRUE
    /\ startRes' = [c \in Collectors |-> "pending"]
    /\ mainPc' = "starting"
    /\ UNCHANGED <<ctxDone, syncExpired, syncRes, syncOk, chanVars, goVars, stopPc, stopIdx,
                   stopElapsed>>

\* Start launches the collector's goroutine.
StartSucceeds(c) ==
    /\ startRes[c] = "pending"
    /\ startRes' = [startRes EXCEPT ![c] = "ok"]
    /\ gPc' = [gPc EXCEPT ![c] = IF c \in Informers THEN "run" ELSE "poll"]
    /\ UNCHANGED <<ctxDone, mainPc, syncExpired, syncRes, syncOk, chanVars, attempt,
                   sleepLeft, polls, hasSynced, stopVars, stopElapsed>>

\* AddEventHandler fails: Start returns before runInformerWithRecovery.
StartFails(c) ==
    /\ c \in StartFailures
    /\ startRes[c] = "pending"
    /\ startRes' = [startRes EXCEPT ![c] = "err"]
    /\ UNCHANGED <<ctxDone, mainPc, syncExpired, syncRes, syncOk, chanVars, goVars, stopVars,
                   stopElapsed>>

FailedStarts == {c \in Collectors : startRes[c] = "err"}

\* All results are in.  A partial failure is logged; if all failed Run returns, with
\* no StopAll deferred.  (With no collectors registered the code returns nil.)
StartAllReturns ==
    /\ mainPc = "starting"
    /\ \A c \in Collectors : startRes[c] # "pending"
    /\ mainPc' = IF FailedStarts = Collectors /\ Collectors # {} THEN "startFailed"
                                                               ELSE "sync"
    /\ UNCHANGED <<ctxDone, startRes, syncExpired, syncRes, syncOk, chanVars, goVars,
                   stopVars, stopElapsed>>

------------------------------------------------------------------------------
(* WaitForSync.                                                             *)

\* InformerSyncTimeout, or the cancellation of the parent context.
SyncContextExpires ==
    /\ mainPc = "sync"
    /\ ~syncExpired
    /\ syncExpired' = TRUE
    /\ UNCHANGED <<ctxDone, mainPc, startRes, syncRes, syncOk, chanVars, goVars, stopVars,
                   stopElapsed>>

\* Mutant: a wait ended by its context reports no error.
MutTimeoutIsSync(c) ==
    /\ mainPc = "sync"
    /\ syncRes[c] = "none"
    /\ hasSynced[c] \/ syncExpired
    /\ syncRes' = [syncRes EXCEPT ![c] = "ok"]
    /\ UNCHANGED <<ctxDone, mainPc, startRes, syncExpired, syncOk, chanVars, goVars,
                   stopVars, stopElapsed>>

\* One collector's WaitForSync returns: its cache is synced, or the context is done.
CollectorSyncReturns(c) ==
    /\ mainPc = "sync"
    /\ syncRes[c] = "none"
    /\ \/ hasSynced[c] /\ syncRes' = [syncRes EXCEPT ![c] = "ok"]
       \/ syncExpired /\ syncRes' = [syncRes EXCEPT ![c] = "err"]
    /\ UNCHANGED <<ctxDone, mainPc, startRes, syncExpired, syncOk, chanVars, goVars,
                   stopVars, stopElapsed>>

\* Every collector has answered; any error makes the sync incomplete and Run goes on.
WaitForSyncReturns ==
    /\ mainPc = "sync"
    /\ \A c \in Collectors : syncRes[c] # "none"
    /\ syncOk' = (\A c \in Collectors : syncRes[c] = "ok")
    /\ mainPc' = "loop"
    /\ UNCHANGED <<ctxDone, startRes, syncExpired, syncRes, chanVars, goVars, stopVars,
                   stopElapsed>>

------------------------------------------------------------------------------
(* StopAll.                                                                 *)

\* Mutant: started is not reset.
MutStartedNotReset(p) ==
    /\ stopPc[p] = "idle"
    /\ p = "run" => mainPc = "loop" /\ ctxDone
    /\ IF started /\ Len(Order) > 0
          THEN /\ stopPc' = [stopPc EXCEPT ![p] = "close"]
               /\ stopIdx' = [stopIdx EXCEPT ![p] = 1]
          ELSE /\ stopPc' = [stopPc EXCEPT ![p] = "returned"]
               /\ UNCHANGED stopIdx
    /\ mainPc' = IF p = "run" THEN "stopping" ELSE mainPc
    /\ UNCHANGED <<ctxDone, startRes, syncExpired, syncRes, syncOk, chanVars, goVars,
                   stopElapsed, started>>

\* Run's defer runs when the loop has seen the cancellation; another goroutine may
\* call StopAll at any time.  Only the caller that finds started set does the work.
StopAllCall(p) ==
    /\ stopPc[p] = "idle"
    /\ p = "run" => mainPc = "loop" /\ ctxDone
    /\ IF started /\ Len(Order) > 0
          THEN /\ stopPc' = [stopPc EXCEPT ![p] = "close"]
               /\ stopIdx' = [stopIdx EXCEPT ![p] = 1]
          ELSE /\ stopPc' = [stopPc EXCEPT ![p] = "returned"]
               /\ UNCHANGED stopIdx
    /\ started' = FALSE
    /\ mainPc' = IF p = "run" THEN "stopping" ELSE mainPc
    /\ UNCHANGED <<ctxDone, startRes, syncExpired, syncRes, syncOk, chanVars, goVars,
                   stopElapsed>>

\* Stop, first half: an informer closes stopCh under a sync.Once, a poller without.
StopClose(p) ==
    LET c == Order[stopIdx[p]] IN
    /\ stopPc[p] = "close"
    /\ panicked' = (panicked \/ (c \in Pollers /\ stopCh[c]))
    /\ stopCh' = [stopCh EXCEPT ![c] = TRUE]
    /\ stopPc' = [stopPc EXCEPT ![p] = "await"]
    /\ UNCHANGED <<ctxDone, mainVars, done, goVars, stopIdx, started, stopElapsed>>

\* Mutant: Stop only closes stopCh.
MutStopDoesNotWait(p) ==
    /\ stopPc[p] = "await"
    /\ IF stopIdx[p] = Len(Order)
          THEN stopPc' = [stopPc EXCEPT ![p] = "finished"] /\ UNCHANGED stopIdx
          ELSE /\ stopPc' = [stopPc EXCEPT ![p] = "close"]
               /\ stopIdx' = [stopIdx EXCEPT ![p] = @ + 1]
    /\ UNCHANGED <<ctxDone, mainVars, chanVars, goVars, started, stopElapsed>>

\* Stop, second half: <-done.  Then the next collector.
StopAwait(p) ==
    LET c == Order[stopIdx[p]] IN
    /\ stopPc[p] = "await"
    /\ done[c]
    /\ IF stopIdx[p] = Len(Order)
          THEN stopPc' = [stopPc EXCEPT ![p] = "finished"] /\ UNCHANGED stopIdx
          ELSE /\ stopPc' = [stopPc EXCEPT ![p] = "close"]
               /\ stopIdx' = [stopIdx EXCEPT ![p] = @ + 1]
    /\ UNCHANGED <<ctxDone, mainVars, chanVars, goVars, started, stopElapsed>>

------------------------------------------------------------------------------
(* The collectors' goroutines.                                              *)

\* The informer's initial list arrives.
InformerSyncs(c) ==
    /\ c \in Informers
    /\ gPc[c] = "run"
    /\ ~hasSynced[c]
    /\ hasSynced' = [hasSynced EXCEPT ![c] = TRUE]
    /\ UNCHANGED <<ctxDone, mainVars, chanVars, gPc, attempt, sleepLeft, polls, stopVars,
                   stopElapsed>>

\* informer.Run returns because stopCh is closed, or unexpectedly.
InformerRunReturns(c) ==
    /\ c \in Informers
    /\ gPc[c] = "run"
    /\ gPc' = [gPc EXCEPT ![c] = "check"]
    /\ UNCHANGED <<ctxDone, mainVars, chanVars, attempt, sleepLeft, polls, hasSynced,
                   stopVars, stopElapsed>>

\* Mutant: the recovery loop does not look at stopCh.
MutRecoveryIgnoresStop(c) == attempt[c] = InformerMaxRetries

\* Mutant: the informer is not run again.
MutNoRestart(c) == TRUE

\* Asked to stop, or out of retries.
GivesUp(c) == stopCh[c] \/ attempt[c] = InformerMaxRetries

\* Mutant: done is closed after the loop, without a defer, so return skips it.
MutCloseNotDeferred(c) ==
    /\ gPc' = [gPc EXCEPT ![c] = "exited"]
    /\ done' = [done EXCEPT ![c] = ~stopCh[c]]

\* A goroutine ends, and its deferred close(done) runs.
Exit(c) ==
    /\ gPc' = [gPc EXCEPT ![c] = "exited"]
    /\ done' = [done EXCEPT ![c] = TRUE]

\* informer.Run has returned: the goroutine ends, or sleeps, longer each time, before
\* the informer is run again.
InformerDecides(c) ==
    /\ gPc[c] = "check"
    /\ IF GivesUp(c)
          THEN Exit(c) /\ UNCHANGED <<attempt, sleepLeft>>
          ELSE /\ gPc' = [gPc EXCEPT ![c] = "sleep"]
               /\ attempt' = [attempt EXCEPT ![c] = @ + 1]
               /\ sleepLeft' = [sleepLeft EXCEPT ![c] = attempt[c] + 1]
               /\ UNCHANGED done
    /\ UNCHANGED <<ctxDone, mainVars, stopCh, panicked, polls, hasSynced, stopVars,
                   stopElapsed>>

InformerWakes(c) ==
    /\ gPc[c] = "sleep"
    /\ sleepLeft[c] = 0
    /\ gPc' = [gPc EXCEPT ![c] = "run"]
    /\ UNCHANGED <<ctxDone, mainVars, chanVars, attempt, sleepLeft, polls, hasSynced,
                   stopVars, stopElapsed>>

\* A poll returns, with or without an error; the first one closes synced either way.
PollReturns(c) ==
    /\ gPc[c] = "poll"
    /\ gPc' = [gPc EXCEPT ![c] = "loop"]
    /\ polls' = [polls EXCEPT ![c] = @ + 1]
    /\ hasSynced' = [hasSynced EXCEPT ![c] = TRUE]
    /\ UNCHANGED <<ctxDone, mainVars, chanVars, attempt, sleepLeft, stopVars, stopElapsed>>

PollAgain(c) ==
    /\ gPc[c] = "loop"
    /\ polls[c] < MaxPolls
    /\ gPc' = [gPc EXCEPT ![c] = "poll"]
    /\ UNCHANGED <<ctxDone, mainVars, chanVars, attempt, sleepLeft, polls, hasSynced,
                   stopVars, stopElapsed>>

PollerExits(c) ==
    /\ gPc[c] = "loop"
    /\ stopCh[c] \/ ctxDone
    /\ Exit(c)
    /\ UNCHANGED <<ctxDone, mainVars, stopCh, panicked, attempt, sleepLeft, polls, hasSynced,
                   stopVars, stopElapsed>>

------------------------------------------------------------------------------
Cancel ==
    /\ ~ctxDone
    /\ ctxDone' = TRUE
    /\ UNCHANGED <<mainVars, chanVars, goVars, stopVars, stopElapsed>>

\* Something that takes no time is ready to happen.
Urgent ==
    \/ \E c \in Collectors :
          \/ gPc[c] = "check"
          \/ gPc[c] = "run" /\ stopCh[c]
          \/ gPc[c] = "sleep" /\ sleepLeft[c] = 0
          \/ gPc[c] = "poll" /\ ctxDone
          \/ gPc[c] = "loop" /\ (stopCh[c] \/ ctxDone)
    \/ \E p \in Stoppers :
          \/ stopPc[p] = "close"
          \/ stopPc[p] = "await" /\ done[Order[stopIdx[p]]]
    \/ mainPc = "sync" /\ ctxDone
    \/ mainPc = "loop" /\ ctxDone

StopInProgress == \E p \in Stoppers : stopPc[p] \in {"close", "await"}

\* Time passes while some informer sleeps.
Tick ==
    /\ ~Urgent
    /\ \E c \in Collectors : sleepLeft[c] > 0
    /\ sleepLeft' = [c \in Collectors |-> IF sleepLeft[c] > 0 THEN sleepLeft[c] - 1 ELSE 0]
    /\ stopElapsed' = IF StopInProgress /\ mainPc = "stopping" THEN stopElapsed + 1
                                                              ELSE stopElapsed
    /\ UNCHANGED <<ctxDone, mainVars, chanVars, gPc, attempt, polls, hasSynced, stopVars>>

MainStep ==
    \/ StartAllBegin
    \/ \E c \in Collectors : StartSucceeds(c) \/ StartFails(c)
    \/ StartAllReturns
    \/ SyncContextExpires
    \/ \E c \in Collectors : CollectorSyncReturns(c)
    \/ WaitForSyncReturns

StopStep(p) == StopAllCall(p) \/ StopClose(p) \/ StopAwait(p)

CollectorStep(c) ==
    \/ InformerSyncs(c)
    \/ InformerRunReturns(c)
    \/ InformerDecides(c)
    \/ InformerWakes(c)
    \/ PollReturns(c)
    \/ PollAgain(c)
    \/ PollerExits(c)

\* What a collector's goroutine does for certain: it is scheduled, its sleep and its
\* API call end, and informer.Run returns once stopCh is closed.
Proceeds(c) ==
    \/ stopCh[c] /\ InformerRunReturns(c)
    \/ InformerDecides(c)
    \/ InformerWakes(c)
    \/ PollReturns(c)
    \/ PollerExits(c)

Next ==
    \/ MainStep
    \/ \E p \in Stoppers : StopStep(p)
    \/ \E c \in Collectors : CollectorStep(c)
    \/ Cancel
    \/ Tick

Spec ==
    /\ Init
    /\ [][Next]_vars
    /\ WF_vars(MainStep)
    /\ WF_vars(StopStep("run"))
    /\ \A c \in Collectors : WF_vars(Proceeds(c))
    /\ WF_vars(Tick)

------------------------------------------------------------------------------
(* Reports.                                                                 *)

\* IsHealthy of both kinds of collector.
Healthy(c) == done[c] => stopCh[c]

\* HealthReport: the stale list the health of a snapshot carries.
Stale == {c \in Collectors : ~Healthy(c)}

------------------------------------------------------------------------------
(* Properties.                                                              *)

FlagType ==
    /\ ctxDone \in BOOLEAN
    /\ started \in BOOLEAN
    /\ syncExpired \in BOOLEAN
    /\ syncOk \in BOOLEAN
    /\ hasSynced \in [Collectors -> BOOLEAN]
    /\ stopCh \in [Collectors -> BOOLEAN]
    /\ done \in [Collectors -> BOOLEAN]
    /\ panicked \in BOOLEAN

MainType ==
    /\ mainPc \in {"start", "starting", "sync", "loop", "stopping", "startFailed"}
    /\ startRes \in [Collectors -> {"none", "pending", "ok", "err"}]
    /\ syncRes \in [Collectors -> {"none", "ok", "err"}]

GoType ==
    /\ gPc \in [Collectors -> {"none", "run", "check", "sleep", "poll", "loop", "exited"}]
    /\ attempt \in [Collectors -> 0 .. InformerMaxRetries]
    /\ sleepLeft \in [Collectors -> 0 .. InformerMaxRetries]
    /\ polls \in [Collectors -> 0 .. MaxPolls]

StopType ==
    /\ stopPc \in [Stoppers -> {"idle", "close", "await", "finished", "returned"}]
    /\ stopIdx \in [Stoppers -> 0 .. Len(Order)]
    /\ stopElapsed \in Nat

\* Type invariant of the registry and its collectors.
TypeOK == FlagType /\ MainType /\ GoType /\ StopType

\* StopAll is safe to call from several goroutines and several times: no channel is
\* closed twice although a poller's Stop does not guard its close.
NoDoubleClose == ~panicked

\* When the StopAll that does the work returns, no collector goroutine is left, even
\* if StopAll ran concurrently with StartAll or with the recovery of an informer.
StopAllLeavesNothingRunning ==
    (\E p \in Stoppers : stopPc[p] = "finished") =>
        \A c \in Collectors : gPc[c] = "exited" /\ done[c]

\* After a cancellation StopAll takes at most one full backoff per informer: the
\* collectors are stopped one after the other and a sleep is not interrupted.  (With a
\* collector whose Start failed it waits for ever.)
StopAllTimeBound ==
    FailedStarts = {} => stopElapsed <= Cardinality(Informers) * InformerMaxRetries

\* WaitForSync returns no error only when every collector, those whose Start failed
\* included, has its initial data.
SyncOkMeansAllSynced == syncOk => \A c \in Collectors : hasSynced[c]

\* What the health of a snapshot lists as stale has a reason: an informer that was run
\* as often as its retries allow, never one that was only asked to stop, or a poller that
\* left because the agent's context was canceled.
StaleExplained ==
    \A c \in Stale :
        IF c \in Informers THEN attempt[c] = InformerMaxRetries /\ ~stopCh[c] ELSE ctxDone

\* The shutdown is not stuck: once the context is canceled in the main loop the deferred
\* StopAll returns, if every collector was started, while others call StopAll too and
\* whatever the informers do.
StopAllReturns ==
    (mainPc = "loop" /\ ctxDone /\ FailedStarts = {})
        ~> (stopPc["run"] \in {"finished", "returned"})

\* The same with partial start failures, with which Run "continues with partial data".
PartialStartStops ==
    (mainPc = "loop" /\ ctxDone) ~> (stopPc["run"] \in {"finished", "returned"})

=============================================================================
