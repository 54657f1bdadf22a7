---------------------------- MODULE RegistryProofs ----------------------------
(***************************************************************************)
(* Proofs about Registry, for every set of collectors, every order of      *)
(* registration, every number of retries and every set of callers of       *)
(* StopAll.                                                                *)
(***************************************************************************)
EXTENDS Registry, FiniteSetTheorems, TLAPS

\* Callers of StopAll that found started set and do, or did, the work.
Working(p) == stopPc[p] \in {"close", "await", "finished"}

\* The caller p of StopAll is past closing the stopCh of the collector at i, or past
\* waiting for it.
ClosedBy(p, i) ==
    \/ stopPc[p] = "close" /\ i < stopIdx[p]
    \/ stopPc[p] = "await" /\ i <= stopIdx[p]
    \/ stopPc[p] = "finished"
AwaitedBy(p, i) ==
    \/ stopPc[p] \in {"close", "await"} /\ i < stopIdx[p]
    \/ stopPc[p] = "finished"

\* StartAll runs once, and what a goroutine does agrees with what Start returned.
LifeInv ==
    /\ mainPc = "start" => ~started /\ \A c \in Collectors : startRes[c] = "none"
    /\ mainPc = "starting" => \A c \in Collectors : startRes[c] # "none"
    /\ mainPc \notin {"start", "starting"} =>
          \A c \in Collectors : startRes[c] \in {"ok", "err"}
    /\ \A c \in Collectors :
          /\ gPc[c] = "none" <=> startRes[c] # "ok"
          /\ done[c] <=> gPc[c] = "exited"
          /\ gPc[c] \in {"run", "check", "sleep"} => c \in Informers
          /\ gPc[c] \in {"poll", "loop"} => c \in Pollers
          /\ gPc[c] = "poll" => polls[c] < MaxPolls
          /\ gPc[c] = "none" => polls[c] = 0
          /\ sleepLeft[c] > 0 => gPc[c] = "sleep"

\* One caller of StopAll does the work, closes in the order of registration and waits
\* for each collector before it goes on to the next.
StopInv ==
    /\ started => \A p \in Stoppers : ~Working(p)
    /\ mainPc = "start" => \A p \in Stoppers : ~Working(p)
    /\ \A p, q \in Stoppers : Working(p) /\ Working(q) => p = q
    /\ \A p \in Stoppers : stopPc[p] \in {"close", "await"} => stopIdx[p] \in 1 .. Len(Order)
    /\ \A c \in Collectors : stopCh[c] =>
          \E p \in Stoppers, i \in 1 .. Len(Order) : Order[i] = c /\ ClosedBy(p, i)
    /\ \A p \in Stoppers, i \in 1 .. Len(Order) : ClosedBy(p, i) => stopCh[Order[i]]
    /\ \A p \in Stoppers, i \in 1 .. Len(Order) : AwaitedBy(p, i) => done[Order[i]]
    /\ mainPc = "stopping" => ctxDone

\* What WaitForSync has seen stays true, and a goroutine left for a reason that stays.
ReportInv ==
    /\ \A c \in Collectors : syncRes[c] = "ok" => hasSynced[c]
    /\ syncOk => \A c \in Collectors : syncRes[c] = "ok"
    /\ \A c \in Collectors : done[c] /\ ~stopCh[c] =>
          IF c \in Informers THEN attempt[c] = InformerMaxRetries ELSE ctxDone

RegistryInv == LifeInv /\ StopInv /\ ReportInv /\ ~panicked

------------------------------------------------------------------------------
(* The order of registration.                                               *)

\* Every collector is registered, once.
LEMMA OrderFacts ==
    /\ Len(Order) \in Nat
    /\ \A i \in 1 .. Len(Order) : Order[i] \in Collectors
    /\ \A c \in Collectors : \E i \in 1 .. Len(Order) : Order[i] = c
    /\ \A i, j \in 1 .. Len(Order) : Order[i] = Order[j] => i = j
<1>1. Len(Order) \in Nat /\ Order \in [1 .. Len(Order) -> Collectors]
  BY RegistryAssumption
<1>2. Order \in Surjection(1 .. Len(Order), Collectors)
  BY <1>1, RegistryAssumption DEF Surjection
<1>3. IsFiniteSet(1 .. Len(Order)) /\ Cardinality(1 .. Len(Order)) = Len(Order)
  BY <1>1, FS_Interval
<1>4. Order \in Injection(1 .. Len(Order), Collectors)
  BY <1>2, <1>3, FS_SurjSameCardinalityImpliesInj, RegistryAssumption
<1>5. \A i, j \in 1 .. Len(Order) : Order[i] = Order[j] => i = j
  BY <1>1, <1>4 DEF Injection, IsInjective
<1> QED
  BY <1>1, <1>5, RegistryAssumption

------------------------------------------------------------------------------
(* Types.                                                                   *)

\* The bounds of the model are numbers.
LEMMA BoundsType == InformerMaxRetries \in Nat /\ MaxPolls \in Nat /\ MaxPolls > 0
  BY RegistryAssumption

\* The initial state is well typed.
LEMMA InitType == Init => TypeOK
<1> SUFFICES ASSUME Init PROVE TypeOK
  OBVIOUS
<1>1. FlagType
  BY DEF Init, FlagType
<1>2. MainType
  BY DEF Init, MainType
<1>3. GoType
  BY BoundsType DEF Init, GoType
<1>4. StopType
  BY OrderFacts DEF Init, StopType
<1> QED
  BY <1>1, <1>2, <1>3, <1>4 DEF TypeOK

\* A step keeps the flags flags.
LEMMA FlagNext ==
    ASSUME TypeOK, Next
    PROVE  FlagType'
<1> USE DEF TypeOK, FlagType, mainVars, chanVars, goVars, stopVars
<1>1. CASE MainStep
  BY <1>1 DEF MainStep, StartAllBegin, StartSucceeds, StartFails, StartAllReturns,
              SyncContextExpires, CollectorSyncReturns, WaitForSyncReturns
<1>2. ASSUME NEW p \in Stoppers, StopStep(p) PROVE FlagType'
  <2>1. CASE StopAllCall(p)
    BY <2>1 DEF StopAllCall
  <2>2. CASE StopClose(p)
    BY <2>2 DEF StopClose
  <2>3. CASE StopAwait(p)
    BY <2>3 DEF StopAwait
  <2> QED BY <1>2, <2>1, <2>2, <2>3 DEF StopStep
<1>3. ASSUME NEW c \in Collectors, CollectorStep(c) PROVE FlagType'
  BY <1>3 DEF CollectorStep, InformerSyncs, InformerRunReturns, InformerDecides, Exit,
              InformerWakes, PollReturns, PollAgain, PollerExits
<1>4. CASE Cancel
  BY <1>4 DEF Cancel
<1>5. CASE Tick
  BY <1>5 DEF Tick
<1> QED
  BY <1>1, <1>2, <1>3, <1>4, <1>5 DEF Next

\* A step keeps the main goroutine's variables well typed.
LEMMA MainNext ==
    ASSUME TypeOK, Next
    PROVE  MainType'
<1> USE DEF TypeOK, MainType, mainVars, chanVars, goVars, stopVars
<1>1. CASE MainStep
  BY <1>1 DEF MainStep, StartAllBegin, StartSucceeds, StartFails, StartAllReturns,
              SyncContextExpires, CollectorSyncReturns, WaitForSyncReturns
<1>2. ASSUME NEW p \in Stoppers, StopStep(p) PROVE MainType'
  BY <1>2 DEF StopStep, StopAllCall, StopClose, StopAwait
<1>3. ASSUME NEW c \in Collectors, CollectorStep(c) PROVE MainType'
  BY <1>3 DEF CollectorStep, InformerSyncs, InformerRunReturns, InformerDecides, Exit,
              InformerWakes, PollReturns, PollAgain, PollerExits
<1>4. CASE Cancel \/ Tick
  BY <1>4 DEF Cancel, Tick
<1> QED
  BY <1>1, <1>2, <1>3, <1>4 DEF Next

\* A step keeps the goroutines' variables well typed: an informer sleeps only while it
\* has retries left, and a poller polls only below the bound.
LEMMA GoNext ==
    ASSUME TypeOK, LifeInv, Next
    PROVE  GoType'
<1> USE BoundsType DEF TypeOK, GoType, mainVars, chanVars, goVars, stopVars
<1>1. CASE MainStep
  BY <1>1 DEF MainStep, StartAllBegin, StartSucceeds, StartFails, StartAllReturns,
              SyncContextExpires, CollectorSyncReturns, WaitForSyncReturns
<1>2. ASSUME NEW p \in Stoppers, StopStep(p) PROVE GoType'
  BY <1>2 DEF StopStep, StopAllCall, StopClose, StopAwait
<1>3. ASSUME NEW c \in Collectors, CollectorStep(c) PROVE GoType'
  <2>1. CASE InformerDecides(c)
    BY <2>1 DEF InformerDecides, GivesUp, Exit
  <2>2. CASE PollReturns(c)
    BY <2>2 DEF PollReturns, LifeInv
  <2>3. CASE InformerSyncs(c) \/ InformerRunReturns(c) \/ InformerWakes(c) \/ PollAgain(c)
                \/ PollerExits(c)
    BY <2>3 DEF InformerSyncs, InformerRunReturns, InformerWakes, PollAgain, PollerExits, Exit
  <2> QED BY <1>3, <2>1, <2>2, <2>3 DEF CollectorStep
<1>4. CASE Cancel
  BY <1>4 DEF Cancel
<1>5. CASE Tick
  BY <1>5 DEF Tick
<1> QED
  BY <1>1, <1>2, <1>3, <1>4, <1>5 DEF Next

\* A step keeps the variables of StopAll well typed.
LEMMA StopTypeNext ==
    ASSUME TypeOK, StopInv, Next
    PROVE  StopType'
<1> USE OrderFacts DEF TypeOK, StopType, mainVars, chanVars, goVars, stopVars
<1>1. CASE MainStep
  BY <1>1 DEF MainStep, StartAllBegin, StartSucceeds, StartFails, StartAllReturns,
              SyncContextExpires, CollectorSyncReturns, WaitForSyncReturns
<1>2. ASSUME NEW p \in Stoppers, StopStep(p) PROVE StopType'
  <2>1. CASE StopAllCall(p)
    BY <2>1 DEF StopAllCall
  <2>2. CASE StopClose(p)
    BY <2>2 DEF StopClose
  <2>3. CASE StopAwait(p)
    BY <2>3 DEF StopAwait, StopInv
  <2> QED BY <1>2, <2>1, <2>2, <2>3 DEF StopStep
<1>3. ASSUME NEW c \in Collectors, CollectorStep(c) PROVE StopType'
  BY <1>3 DEF CollectorStep, InformerSyncs, InformerRunReturns, InformerDecides, Exit,
              InformerWakes, PollReturns, PollAgain, PollerExits
<1>4. CASE Cancel \/ Tick
  BY <1>4 DEF Cancel, Tick
<1> QED
  BY <1>1, <1>2, <1>3, <1>4 DEF Next

------------------------------------------------------------------------------
(* The inductive invariant.                                                 *)

\* It holds initially.
LEMMA InitInv == Init => RegistryInv
  BY OrderFacts DEF Init, RegistryInv, LifeInv, StopInv, ReportInv, Working, ClosedBy,
                    AwaitedBy

\* Every step keeps goroutines and the results of Start in agreement.
LEMMA LifeNext ==
    ASSUME TypeOK, LifeInv, Next
    PROVE  LifeInv'
<1> USE BoundsType DEF LifeInv, mainVars, chanVars, goVars, stopVars
<1>t. FlagType /\ MainType /\ GoType
  BY DEF TypeOK
<1>1. CASE MainStep
  <2>1. CASE StartAllBegin
    BY <1>t, <2>1 DEF StartAllBegin, FlagType, MainType, GoType
  <2>2. ASSUME NEW c \in Collectors, StartSucceeds(c) PROVE LifeInv'
    <3>1. /\ startRes' = [startRes EXCEPT ![c] = "ok"]
          /\ gPc' = [gPc EXCEPT ![c] = IF c \in Informers THEN "run" ELSE "poll"]
          /\ UNCHANGED <<mainPc, started, done, polls, sleepLeft>>
      BY <2>2 DEF StartSucceeds
    <3>2. startRes[c] = "pending"
      BY <2>2 DEF StartSucceeds
    <3>5. mainPc = "starting"
      BY <1>t, <3>2 DEF MainType
    <3>6. gPc[c] = "none" /\ ~done[c] /\ polls[c] = 0 /\ ~(sleepLeft[c] > 0)
      BY <3>2
    <3>3. (gPc'[c] = "run" /\ c \in Informers) \/ (gPc'[c] = "poll" /\ c \in Pollers)
      <4>1. gPc'[c] = IF c \in Informers THEN "run" ELSE "poll"
        BY <1>t, <3>1 DEF GoType
      <4>2. c \in Informers \/ c \in Pollers
        BY DEF Collectors
      <4> QED BY <4>1, <4>2
    <3>4. /\ \A d \in Collectors \ {c} : gPc'[d] = gPc[d] /\ startRes'[d] = startRes[d]
          /\ startRes'[c] = "ok"
      BY <1>t, <3>1 DEF GoType, MainType
    <3>7. polls[c] < MaxPolls
      BY <3>6
    <3> QED BY <3>1, <3>3, <3>4, <3>5, <3>6, <3>7
  <2>3. ASSUME NEW c \in Collectors, StartFails(c) PROVE LifeInv'
    BY <1>t, <2>3 DEF StartFails, FlagType, MainType, GoType
  <2>4. CASE StartAllReturns
    BY <1>t, <2>4 DEF StartAllReturns, FlagType, MainType, GoType
  <2>5. CASE SyncContextExpires
    BY <2>5 DEF SyncContextExpires
  <2>6. ASSUME NEW c \in Collectors, CollectorSyncReturns(c) PROVE LifeInv'
    BY <2>6 DEF CollectorSyncReturns
  <2>7. CASE WaitForSyncReturns
    BY <2>7 DEF WaitForSyncReturns
  <2> QED BY <1>1, <2>1, <2>2, <2>3, <2>4, <2>5, <2>6, <2>7 DEF MainStep
<1>2. ASSUME NEW p \in Stoppers, StopStep(p) PROVE LifeInv'
  BY <1>t, <1>2 DEF StopStep, StopAllCall, StopClose, StopAwait
<1>3. ASSUME NEW c \in Collectors, CollectorStep(c) PROVE LifeInv'
  <2> USE <1>t DEF FlagType, GoType
  <2>1. CASE InformerSyncs(c)
    BY <2>1 DEF InformerSyncs
  <2>2. CASE InformerRunReturns(c)
    BY <2>2 DEF InformerRunReturns
  <2>3. CASE InformerDecides(c)
    BY <2>3 DEF InformerDecides, Exit
  <2>4. CASE InformerWakes(c)
    BY <2>4 DEF InformerWakes
  <2>5. CASE PollReturns(c)
    BY <2>5 DEF PollReturns
  <2>6. CASE PollAgain(c)
    BY <2>6 DEF PollAgain
  <2>7. CASE PollerExits(c)
    BY <2>7 DEF PollerExits, Exit
  <2> QED BY <1>3, <2>1, <2>2, <2>3, <2>4, <2>5, <2>6, <2>7 DEF CollectorStep
<1>4. CASE Cancel
  BY <1>4 DEF Cancel
<1>5. CASE Tick
  BY <1>t, <1>5 DEF Tick, GoType
<1> QED
  BY <1>1, <1>2, <1>3, <1>4, <1>5 DEF Next

\* Every step keeps what reports say true.
LEMMA ReportNext ==
    ASSUME TypeOK, LifeInv, ReportInv, Next
    PROVE  ReportInv'
<1> USE DEF ReportInv, mainVars, chanVars, goVars, stopVars
<1>t. FlagType /\ MainType /\ GoType
  BY DEF TypeOK
<1>1. CASE MainStep
  <2>1. ASSUME NEW c \in Collectors, CollectorSyncReturns(c) PROVE ReportInv'
    BY <1>t, <2>1 DEF CollectorSyncReturns, MainType
  <2>2. CASE WaitForSyncReturns
    BY <2>2 DEF WaitForSyncReturns
  <2>3. CASE UNCHANGED <<syncRes, syncOk, hasSynced, done, stopCh, attempt, ctxDone>>
    BY <2>3
  <2> QED BY <1>1, <2>1, <2>2, <2>3 DEF MainStep, StartAllBegin, StartSucceeds, StartFails,
                 StartAllReturns, SyncContextExpires
<1>2. ASSUME NEW p \in Stoppers, StopStep(p) PROVE ReportInv'
  BY <1>2, <1>t DEF StopStep, StopAllCall, StopClose, StopAwait, FlagType
<1>3. ASSUME NEW c \in Collectors, CollectorStep(c) PROVE ReportInv'
  <2> USE <1>t DEF FlagType, GoType
  <2>1. CASE InformerSyncs(c)
    BY <2>1 DEF InformerSyncs
  <2>2. CASE InformerRunReturns(c)
    BY <2>2 DEF InformerRunReturns
  <2>3. CASE InformerDecides(c)
    BY <2>3 DEF InformerDecides, Exit, GivesUp, LifeInv
  <2>4. CASE InformerWakes(c)
    BY <2>4 DEF InformerWakes
  <2>5. CASE PollReturns(c)
    BY <2>5 DEF PollReturns
  <2>6. CASE PollAgain(c)
    BY <2>6 DEF PollAgain
  <2>7. CASE PollerExits(c)
    BY <2>7, RegistryAssumption DEF PollerExits, Exit, LifeInv
  <2> QED BY <1>3, <2>1, <2>2, <2>3, <2>4, <2>5, <2>6, <2>7 DEF CollectorStep
<1>4. CASE Cancel
  BY <1>4 DEF Cancel
<1>5. CASE Tick
  BY <1>5 DEF Tick
<1> QED
  BY <1>1, <1>2, <1>3, <1>4, <1>5 DEF Next

\* What a step that is not one of StopAll has to show.
LEMMA StopFrame ==
    ASSUME StopInv, UNCHANGED <<stopPc, stopIdx, stopCh>>,
           \A c \in Collectors : done[c] => done'[c],
           started' => started \/ mainPc = "start",
           mainPc' = "start" => mainPc = "start",
           mainPc' = "stopping" => mainPc = "stopping",
           ctxDone => ctxDone'
    PROVE  StopInv'
<1>1. \A p \in Stoppers : Working(p)' <=> Working(p)
  BY DEF Working
<1>2. \A p \in Stoppers, i \in 1 .. Len(Order) :
         (ClosedBy(p, i)' <=> ClosedBy(p, i)) /\ (AwaitedBy(p, i)' <=> AwaitedBy(p, i))
  BY DEF ClosedBy, AwaitedBy
<1>3. \A p \in Stoppers, i \in 1 .. Len(Order) : AwaitedBy(p, i)' => done'[Order[i]]
  BY <1>2, OrderFacts DEF StopInv
<1>4. \A c \in Collectors : stopCh'[c] =>
         \E p \in Stoppers, i \in 1 .. Len(Order) : Order[i] = c /\ ClosedBy(p, i)'
  BY <1>2 DEF StopInv
<1>7. \A p \in Stoppers, i \in 1 .. Len(Order) : ClosedBy(p, i)' => stopCh'[Order[i]]
  BY <1>2 DEF StopInv
<1>5. /\ started' => \A p \in Stoppers : ~Working(p)'
      /\ mainPc' = "start" => \A p \in Stoppers : ~Working(p)'
      /\ mainPc' = "stopping" => ctxDone'
  BY <1>1 DEF StopInv
<1>6. /\ \A p, q \in Stoppers : Working(p)' /\ Working(q)' => p = q
      /\ \A p \in Stoppers : stopPc'[p] \in {"close", "await"} => stopIdx'[p] \in 1 .. Len(Order)
  BY <1>1 DEF StopInv
<1> QED
  BY <1>3, <1>4, <1>5, <1>6, <1>7 DEF StopInv

\* Every step keeps StopAll in order.
LEMMA StopNext ==
    ASSUME TypeOK, LifeInv, StopInv, Next
    PROVE  StopInv'
<1>t. FlagType /\ MainType /\ StopType
  BY DEF TypeOK
<1>1. CASE MainStep
  <2> USE <1>1 DEF MainStep, StartAllBegin, StartSucceeds, StartFails, StartAllReturns,
                 SyncContextExpires, CollectorSyncReturns, WaitForSyncReturns, stopVars
  <2>1. UNCHANGED <<stopPc, stopIdx, stopCh, done, ctxDone>>
    BY DEF chanVars
  <2>2. /\ started' = started \/ mainPc = "start"
        /\ mainPc' = "start" => mainPc = "start"
        /\ mainPc' # "stopping" \/ mainPc' = mainPc
    OBVIOUS
  <2> HIDE <1>1
  <2> QED BY <2>1, <2>2, StopFrame
<1>2. ASSUME NEW p \in Stoppers, StopAllCall(p) PROVE StopInv'
  <2> USE <1>2 DEF StopAllCall, chanVars, goVars
  <2>1. \A q \in Stoppers \ {p} : stopPc'[q] = stopPc[q] /\ stopIdx'[q] = stopIdx[q]
    BY <1>t DEF StopType
  <2>2. ~Working(p)
    BY DEF Working
  <2>3. ~started' /\ UNCHANGED <<stopCh, done, ctxDone>>
    OBVIOUS
  <2>4. CASE started /\ Len(Order) > 0
    <3>1. stopPc'[p] = "close" /\ stopIdx'[p] = 1
      BY <1>t, <2>4 DEF StopType
    <3>2. \A q \in Stoppers : ~Working(q)
      BY <2>4 DEF StopInv
    <3>3. \A c \in Collectors : ~stopCh[c]
      BY <3>2 DEF StopInv, Working, ClosedBy
    <3>4. \A q \in Stoppers : Working(q)' => q = p
      BY <3>2, <2>1 DEF Working
    <3>5. mainPc' # "start"
      BY <2>4 DEF LifeInv
    <3>6. \A q \in Stoppers, i \in 1 .. Len(Order) : ~AwaitedBy(q, i)' /\ ~ClosedBy(q, i)'
      BY <3>1, <3>4, OrderFacts DEF AwaitedBy, ClosedBy, Working
    <3>7. \A q \in Stoppers : stopPc'[q] \in {"close", "await"} => stopIdx'[q] \in 1 .. Len(Order)
      BY <3>1, <3>4, <2>4, OrderFacts DEF Working
    <3>8. mainPc' = "stopping" => ctxDone'
      BY DEF StopInv
    <3> QED BY <2>3, <3>3, <3>4, <3>5, <3>6, <3>7, <3>8 DEF StopInv
  <2>5. CASE ~(started /\ Len(Order) > 0)
    <3>1. stopPc'[p] = "returned" /\ stopIdx' = stopIdx
      BY <1>t, <2>5 DEF StopType
    <3>2. \A q \in Stoppers : Working(q)' <=> Working(q)
      BY <2>1, <2>2, <3>1 DEF Working
    <3>3. \A q \in Stoppers, i \in 1 .. Len(Order) :
             (ClosedBy(q, i)' <=> ClosedBy(q, i)) /\ (AwaitedBy(q, i)' <=> AwaitedBy(q, i))
      BY <2>1, <3>1 DEF ClosedBy, AwaitedBy
    <3>4. \A q \in Stoppers : stopPc'[q] \in {"close", "await"} => stopIdx'[q] \in 1 .. Len(Order)
      BY <2>1, <3>1 DEF StopInv
    <3>5. mainPc' = "stopping" => ctxDone'
      BY DEF StopInv
    <3>6. mainPc' = "start" => mainPc = "start"
      OBVIOUS
    <3> QED BY <2>3, <3>2, <3>3, <3>4, <3>5, <3>6 DEF StopInv
  <2> QED BY <2>4, <2>5
<1>3. ASSUME NEW p \in Stoppers, StopClose(p) PROVE StopInv'
  <2> DEFINE c == Order[stopIdx[p]]
  <2>1. stopIdx[p] \in 1 .. Len(Order) /\ stopPc[p] = "close" /\ c \in Collectors
    BY <1>3, OrderFacts DEF StopInv, StopClose
  <2>2. /\ stopPc' = [stopPc EXCEPT ![p] = "await"]
        /\ stopCh' = [stopCh EXCEPT ![c] = TRUE]
        /\ UNCHANGED <<stopIdx, started, mainPc, ctxDone, done>>
    BY <1>3 DEF StopClose, mainVars, chanVars
  <2> HIDE DEF c
  <2>3. \A q \in Stoppers \ {p} : stopPc'[q] = stopPc[q]
    BY <1>t, <2>2 DEF StopType
  <2>4. stopPc'[p] = "await"
    BY <1>t, <2>2 DEF StopType
  <2>5. \A q \in Stoppers : Working(q)' <=> Working(q)
    BY <2>1, <2>3, <2>4 DEF Working
  <2>6. \A q \in Stoppers, i \in 1 .. Len(Order) :
           (ClosedBy(q, i) => ClosedBy(q, i)') /\ (AwaitedBy(q, i)' => AwaitedBy(q, i))
    BY <1>t, <2>1, <2>2, <2>3, <2>4 DEF ClosedBy, AwaitedBy, StopType
  <2>7. ASSUME NEW d \in Collectors, stopCh'[d]
        PROVE  \E q \in Stoppers, i \in 1 .. Len(Order) : Order[i] = d /\ ClosedBy(q, i)'
    <3>1. CASE d = c
      BY <3>1, <2>1, <2>2, <2>4 DEF ClosedBy, c
    <3>2. CASE d # c
      <4>1. stopCh[d]
        BY <1>t, <2>2, <2>7, <3>2 DEF FlagType
      <4> QED BY <4>1, <2>6 DEF StopInv
    <3> QED BY <3>1, <3>2
  <2>8. \A q \in Stoppers : stopPc'[q] \in {"close", "await"} => stopIdx'[q] \in 1 .. Len(Order)
    BY <2>1, <2>2, <2>3 DEF StopInv
  <2>9. ASSUME NEW q \in Stoppers, NEW i \in 1 .. Len(Order), ClosedBy(q, i)'
        PROVE  stopCh'[Order[i]]
    <3>1. ClosedBy(q, i) \/ Order[i] = c
      BY <1>t, <2>1, <2>2, <2>3, <2>4, <2>9 DEF ClosedBy, StopType, c
    <3>2. stopCh[Order[i]] \/ Order[i] = c
      BY <3>1 DEF StopInv
    <3> QED BY <1>t, <2>2, <3>2, OrderFacts DEF FlagType
  <2> QED BY <2>2, <2>5, <2>6, <2>7, <2>8, <2>9 DEF StopInv
<1>4. ASSUME NEW p \in Stoppers, StopAwait(p) PROVE StopInv'
  <2>1. /\ stopIdx[p] \in 1 .. Len(Order) /\ stopPc[p] = "await"
        /\ done[Order[stopIdx[p]]]
        /\ UNCHANGED <<stopCh, started, mainPc, ctxDone, done>>
    BY <1>4 DEF StopInv, StopAwait, mainVars, chanVars
  <2>2. \A q \in Stoppers \ {p} : stopPc'[q] = stopPc[q] /\ stopIdx'[q] = stopIdx[q]
    BY <1>t, <1>4 DEF StopAwait, StopType
  <2>3. \/ stopIdx[p] = Len(Order) /\ stopPc'[p] = "finished"
        \/ stopIdx[p] < Len(Order) /\ stopPc'[p] = "close" /\ stopIdx'[p] = stopIdx[p] + 1
    BY <1>t, <1>4, <2>1, OrderFacts DEF StopAwait, StopType
  <2>4. \A q \in Stoppers : Working(q)' <=> Working(q)
    BY <2>1, <2>2, <2>3 DEF Working
  <2>5. \A q \in Stoppers, i \in 1 .. Len(Order) : ClosedBy(q, i)' <=> ClosedBy(q, i)
    BY <2>1, <2>2, <2>3, OrderFacts DEF ClosedBy
  <2>6. \A q \in Stoppers, i \in 1 .. Len(Order) :
           AwaitedBy(q, i)' => AwaitedBy(q, i) \/ i = stopIdx[p]
    BY <2>1, <2>2, <2>3, OrderFacts DEF AwaitedBy
  <2>7. \A q \in Stoppers : stopPc'[q] \in {"close", "await"} => stopIdx'[q] \in 1 .. Len(Order)
    BY <2>1, <2>2, <2>3, OrderFacts DEF StopInv
  <2> QED BY <2>1, <2>4, <2>5, <2>6, <2>7 DEF StopInv
<1>5. ASSUME NEW c \in Collectors, CollectorStep(c) PROVE StopInv'
  <2>1. \A d \in Collectors : done[d] => done'[d]
    BY <1>t, <1>5 DEF CollectorStep, InformerSyncs, InformerRunReturns, InformerDecides,
       Exit, InformerWakes, PollReturns, PollAgain, PollerExits, chanVars, FlagType
  <2>2. UNCHANGED <<stopPc, stopIdx, stopCh, started, mainPc, ctxDone>>
    BY <1>5 DEF CollectorStep, InformerSyncs, InformerRunReturns, InformerDecides,
       InformerWakes, PollReturns, PollAgain, PollerExits, mainVars, chanVars, stopVars
  <2> QED BY <2>1, <2>2, StopFrame
<1>6. CASE Cancel \/ Tick
  BY <1>6, StopFrame DEF Cancel, Tick, mainVars, chanVars, stopVars
<1> QED
  BY <1>1, <1>2, <1>3, <1>4, <1>5, <1>6 DEF Next, StopStep

\* Every step preserves the invariant.  The only unguarded close is of the stopCh of a
\* poller: had it been closed before, the caller would already have been past it.
LEMMA NextInv ==
    ASSUME TypeOK, RegistryInv, [Next]_vars
    PROVE  TypeOK' /\ RegistryInv'
<1>1. CASE UNCHANGED vars
  BY <1>1 DEF vars, mainVars, chanVars, goVars, stopVars, TypeOK, FlagType, MainType,
     GoType, StopType, RegistryInv, LifeInv, StopInv, ReportInv, Working, ClosedBy, AwaitedBy
<1>2. CASE Next
  <2>1. TypeOK'
    BY <1>2, FlagNext, MainNext, GoNext, StopTypeNext DEF TypeOK, RegistryInv
  <2>2. LifeInv' /\ StopInv' /\ ReportInv'
    BY <1>2, LifeNext, StopNext, ReportNext DEF RegistryInv
  <2>3. ~panicked'
    <3>1. ASSUME NEW p \in Stoppers, StopClose(p) PROVE ~stopCh[Order[stopIdx[p]]]
      <4>1. stopPc[p] = "close" /\ stopIdx[p] \in 1 .. Len(Order) /\ Working(p)
        BY <3>1 DEF StopClose, RegistryInv, StopInv, Working
      <4> SUFFICES ASSUME stopCh[Order[stopIdx[p]]] PROVE FALSE
        OBVIOUS
      <4>2. PICK q \in Stoppers, i \in 1 .. Len(Order) :
               Order[i] = Order[stopIdx[p]] /\ ClosedBy(q, i)
        BY <4>1, OrderFacts DEF RegistryInv, StopInv
      <4>3. i = stopIdx[p]
        BY <4>1, <4>2, OrderFacts
      <4>4. q = p
        BY <4>1, <4>2 DEF RegistryInv, StopInv, Working, ClosedBy
      <4> QED BY <4>1, <4>2, <4>3, <4>4 DEF ClosedBy
    <3>2. ASSUME NEW p \in Stoppers, StopStep(p) PROVE ~panicked'
      BY <3>1, <3>2 DEF StopStep, StopAllCall, StopClose, StopAwait, chanVars, RegistryInv
    <3>3. CASE MainStep
      BY <3>3 DEF MainStep, StartAllBegin, StartSucceeds, StartFails, StartAllReturns,
         SyncContextExpires, CollectorSyncReturns, WaitForSyncReturns, chanVars, RegistryInv
    <3>4. ASSUME NEW c \in Collectors, CollectorStep(c) PROVE ~panicked'
      BY <3>4 DEF CollectorStep, InformerSyncs, InformerRunReturns, InformerDecides,
         InformerWakes, PollReturns, PollAgain, PollerExits, chanVars, RegistryInv
    <3>5. CASE Cancel \/ Tick
      BY <3>5 DEF Cancel, Tick, chanVars, RegistryInv
    <3> QED BY <1>2, <3>2, <3>3, <3>4, <3>5 DEF Next
  <2> QED BY <2>1, <2>2, <2>3 DEF RegistryInv
<1> QED
  BY <1>1, <1>2

\* The invariant holds throughout.
LEMMA Invariance == Spec => [](TypeOK /\ RegistryInv)
<1>1. TypeOK /\ RegistryInv /\ [Next]_vars => (TypeOK /\ RegistryInv)'
  BY NextInv
<1> QED
  BY InitType, InitInv, <1>1, PTL DEF Spec

------------------------------------------------------------------------------
(* What it means.                                                           *)

\* Type correctness of the registry and its collectors.
THEOREM RegistryTypeCorrect == Spec => []TypeOK
  BY Invariance, PTL

\* No channel is closed twice, whoever calls StopAll and when.
THEOREM NoDoubleCloseHolds == Spec => []NoDoubleClose
<1>1. RegistryInv => NoDoubleClose
  BY DEF RegistryInv, NoDoubleClose
<1> QED
  BY <1>1, Invariance, PTL

\* The StopAll that does the work leaves no goroutine behind.
THEOREM StopAllLeavesNothingRunningHolds == Spec => []StopAllLeavesNothingRunning
<1>1. RegistryInv => StopAllLeavesNothingRunning
  <2> SUFFICES ASSUME RegistryInv, NEW p \in Stoppers, stopPc[p] = "finished",
                      NEW c \in Collectors
               PROVE  gPc[c] = "exited" /\ done[c]
    BY DEF StopAllLeavesNothingRunning
  <2>1. PICK i \in 1 .. Len(Order) : Order[i] = c
    BY OrderFacts
  <2>2. done[c]
    BY <2>1 DEF RegistryInv, StopInv, AwaitedBy
  <2> QED BY <2>2 DEF RegistryInv, LifeInv
<1> QED
  BY <1>1, Invariance, PTL

\* A WaitForSync without error means that every collector has its initial data.
THEOREM SyncOkMeansAllSyncedHolds == Spec => []SyncOkMeansAllSynced
<1>1. RegistryInv => SyncOkMeansAllSynced
  BY DEF RegistryInv, ReportInv, SyncOkMeansAllSynced
<1> QED
  BY <1>1, Invariance, PTL

\* A collector is reported stale only for one of the two reasons there are.
THEOREM StaleExplainedHolds == Spec => []StaleExplained
<1>1. RegistryInv => StaleExplained
  BY DEF RegistryInv, ReportInv, StaleExplained, Stale, Healthy
<1> QED
  BY <1>1, Invariance, PTL

------------------------------------------------------------------------------
(* How long StopAll takes.                                                  *)

\* The informers registered at k and after it.
Remaining(k) == {i \in k .. Len(Order) : Order[i] \in Informers}
Budget(n) == n * InformerMaxRetries

\* The time StopAll has taken, what is left of the sleep it waits for, and a full
\* backoff for each informer it has yet to stop are within the bound.
TimeInv ==
    FailedStarts = {} =>
        /\ stopElapsed > 0 => \E p \in Stoppers : Working(p)
        /\ \A p \in Stoppers :
              /\ stopPc[p] = "close" =>
                    stopElapsed + Budget(Cardinality(Remaining(stopIdx[p])))
                        <= Budget(Cardinality(Informers))
              /\ stopPc[p] = "await" =>
                    stopElapsed + sleepLeft[Order[stopIdx[p]]]
                        + Budget(Cardinality(Remaining(stopIdx[p] + 1)))
                        <= Budget(Cardinality(Informers))
              /\ stopPc[p] = "finished" => stopElapsed <= Budget(Cardinality(Informers))

\* The registered informers are the informers.
LEMMA RemainingAll == Cardinality(Remaining(1)) = Cardinality(Informers)
<1> DEFINE f == [i \in Remaining(1) |-> Order[i]]
<1>1. IsFiniteSet(Remaining(1))
  <2>1. IsFiniteSet(1 .. Len(Order))
    BY OrderFacts, FS_Interval
  <2> QED BY <2>1, FS_Subset DEF Remaining
<1>2. f \in Bijection(Remaining(1), Informers)
  <2>1. f \in [Remaining(1) -> Informers]
    BY DEF Remaining
  <2>2. \A i, j \in Remaining(1) : f[i] = f[j] => i = j
    BY OrderFacts DEF Remaining
  <2>3. \A c \in Informers : \E i \in Remaining(1) : f[i] = c
    BY OrderFacts DEF Remaining, Collectors
  <2> QED BY <2>1, <2>2, <2>3 DEF Bijection, Injection, Surjection, IsInjective
<1>3. ExistsBijection(Remaining(1), Informers)
  BY <1>2 DEF ExistsBijection
<1> QED
  BY <1>1, <1>3, FS_Bijection

\* Going on to the next collector leaves one informer less, if it was one.
LEMMA RemainingNext ==
    ASSUME NEW k \in 1 .. Len(Order)
    PROVE  /\ Cardinality(Remaining(k + 1)) \in Nat
           /\ Cardinality(Remaining(k)) = Cardinality(Remaining(k + 1))
                                          + (IF Order[k] \in Informers THEN 1 ELSE 0)
<1>1. IsFiniteSet(Remaining(k + 1))
  <2>1. IsFiniteSet(k + 1 .. Len(Order))
    BY OrderFacts, FS_Interval
  <2> QED BY <2>1, FS_Subset DEF Remaining
<1>2. Cardinality(Remaining(k + 1)) \in Nat
  BY <1>1, FS_CardinalityType
<1>3. CASE Order[k] \in Informers
  <2>1. Remaining(k) = Remaining(k + 1) \cup {k}
    BY <1>3, OrderFacts DEF Remaining
  <2>2. k \notin Remaining(k + 1)
    BY OrderFacts DEF Remaining
  <2> QED BY <1>1, <1>2, <1>3, <2>1, <2>2, FS_AddElement
<1>4. CASE Order[k] \notin Informers
  <2>1. Remaining(k) = Remaining(k + 1)
    BY <1>4, OrderFacts DEF Remaining
  <2> QED BY <1>2, <1>4, <2>1
<1> QED
  BY <1>3, <1>4

\* A budget is a number, and one informer more adds one full backoff.
LEMMA BudgetFacts ==
    ASSUME NEW n \in Nat
    PROVE  Budget(n) \in Nat /\ Budget(n + 1) = Budget(n) + InformerMaxRetries
  BY BoundsType DEF Budget

\* The number of informers is a number.
LEMMA InformersFinite == Cardinality(Informers) \in Nat
<1>1. IsFiniteSet(Informers)
  BY RegistryAssumption, FS_Subset DEF Collectors
<1> QED
  BY <1>1, FS_CardinalityType

\* The budgets at a position of the order are numbers.
LEMMA PositionFacts ==
    ASSUME NEW k \in 1 .. Len(Order)
    PROVE  /\ Order[k] \in Collectors
           /\ Budget(Cardinality(Remaining(k))) \in Nat
           /\ Budget(Cardinality(Remaining(k + 1))) \in Nat
<1>1. Order[k] \in Collectors
  BY OrderFacts
<1>2. Cardinality(Remaining(k + 1)) \in Nat
  BY RemainingNext
<1>3. Cardinality(Remaining(k)) \in Nat
  BY <1>2, RemainingNext
<1> QED
  BY <1>1, <1>2, <1>3, BudgetFacts

\* A sleep is a number of units of time.
LEMMA SleepNat ==
    ASSUME GoType, NEW c \in Collectors
    PROVE  sleepLeft[c] \in Nat
  BY BoundsType DEF GoType

\* A Start that has failed stays failed.
LEMMA FailedStartsGrow ==
    ASSUME TypeOK, LifeInv, [Next]_vars, FailedStarts' = {}
    PROVE  FailedStarts = {}
<1>1. CASE StartAllBegin
  BY <1>1 DEF StartAllBegin, LifeInv, FailedStarts
<1>2. ASSUME NEW c \in Collectors, StartSucceeds(c) \/ StartFails(c) PROVE FailedStarts = {}
  BY <1>2 DEF StartSucceeds, StartFails, FailedStarts, TypeOK, MainType
<1>3. CASE UNCHANGED startRes
  BY <1>3 DEF FailedStarts
<1> QED
  BY <1>1, <1>2, <1>3 DEF Next, MainStep, StopStep, CollectorStep, vars, mainVars,
     StartAllReturns, SyncContextExpires, CollectorSyncReturns, WaitForSyncReturns,
     StopAllCall, StopClose, StopAwait, InformerSyncs, InformerRunReturns, InformerDecides,
     InformerWakes, PollReturns, PollAgain, PollerExits, Cancel, Tick

\* Steps that neither belong to StopAll nor lengthen the sleep it waits for.
LEMMA TimeFrame ==
    ASSUME TypeOK, TypeOK', StopInv, TimeInv, FailedStarts = {},
           UNCHANGED <<stopPc, stopIdx, stopElapsed>>,
           \A p \in Stoppers : stopPc[p] = "await" =>
               sleepLeft'[Order[stopIdx[p]]] <= sleepLeft[Order[stopIdx[p]]]
    PROVE  TimeInv'
<1>0. /\ stopElapsed \in Nat /\ Budget(Cardinality(Informers)) \in Nat
      /\ \A c \in Collectors : sleepLeft[c] \in Nat
      /\ \A c \in Collectors : sleepLeft'[c] \in Nat
  <2>1. StopType /\ GoType /\ GoType'
    BY DEF TypeOK
  <2>2. Budget(Cardinality(Informers)) \in Nat
    BY BudgetFacts, InformersFinite
  <2>3. \A c \in Collectors : sleepLeft[c] \in Nat
    BY <2>1, SleepNat
  <2>4. \A c \in Collectors : sleepLeft'[c] \in Nat
    BY <2>1, BoundsType DEF GoType
  <2> QED BY <2>1, <2>2, <2>3, <2>4 DEF StopType
<1>1. ASSUME NEW p \in Stoppers, stopPc[p] = "await"
      PROVE  /\ sleepLeft[Order[stopIdx[p]]] \in Nat /\ sleepLeft'[Order[stopIdx[p]]] \in Nat
             /\ Budget(Cardinality(Remaining(stopIdx[p] + 1))) \in Nat
  <2>1. stopIdx[p] \in 1 .. Len(Order)
    BY <1>1 DEF StopInv
  <2> QED BY <1>0, <2>1, PositionFacts
<1>2. \A p \in Stoppers : Working(p)' <=> Working(p)
  BY DEF Working
<1>3. \A p \in Stoppers : stopPc[p] = "await" =>
         stopElapsed + sleepLeft'[Order[stopIdx[p]]]
             + Budget(Cardinality(Remaining(stopIdx[p] + 1))) <= Budget(Cardinality(Informers))
  BY <1>0, <1>1 DEF TimeInv
<1> QED
  BY <1>2, <1>3 DEF TimeInv

\* A unit of time that counts is one the awaited informer sleeps.
LEMMA AwaitedSleeps ==
    ASSUME TypeOK, LifeInv, StopInv, FailedStarts = {}, Tick, mainPc = "stopping",
           NEW p \in Stoppers, stopPc[p] = "await"
    PROVE  sleepLeft[Order[stopIdx[p]]] > 0
<1> DEFINE c == Order[stopIdx[p]]
<1>1. c \in Collectors /\ stopCh[c] /\ ctxDone
  BY OrderFacts DEF StopInv, ClosedBy, TypeOK, StopType
<1> HIDE DEF c
<1>2. ~Urgent
  BY DEF Tick
<1>3. gPc[c] # "none"
  BY <1>1 DEF LifeInv, FailedStarts
<1>4. ~done[c]
  BY <1>2 DEF Urgent, c
<1>5. gPc[c] \notin {"check", "run", "poll", "loop"}
  BY <1>1, <1>2 DEF Urgent
<1>6. gPc[c] = "sleep"
  BY <1>1, <1>3, <1>4, <1>5 DEF LifeInv, TypeOK, GoType
<1>7. sleepLeft[c] # 0
  BY <1>1, <1>2, <1>6 DEF Urgent
<1>8. sleepLeft[c] \in Nat
  BY <1>1, BoundsType DEF TypeOK, GoType
<1> QED
  BY <1>7, <1>8 DEF c

\* Every step keeps StopAll within its time.
LEMMA TimeNext ==
    ASSUME TypeOK, TypeOK', RegistryInv, TimeInv, [Next]_vars
    PROVE  TimeInv'
<1> SUFFICES ASSUME FailedStarts' = {} PROVE TimeInv'
  BY DEF TimeInv
<1>f. FailedStarts = {} /\ LifeInv /\ StopInv
  BY FailedStartsGrow DEF RegistryInv
<1>t. StopType /\ GoType /\ StopType' /\ GoType'
  BY DEF TypeOK
<1>b. Budget(Cardinality(Informers)) \in Nat
  BY BudgetFacts, InformersFinite
<1>1. ASSUME NEW p \in Stoppers, StopAllCall(p) PROVE TimeInv'
  <2>1. UNCHANGED <<stopElapsed, sleepLeft>>
    BY <1>1 DEF StopAllCall, goVars
  <2>2. \A q \in Stoppers \ {p} : stopPc'[q] = stopPc[q] /\ stopIdx'[q] = stopIdx[q]
    BY <1>1, <1>t DEF StopAllCall, StopType
  <2>3. CASE started /\ Len(Order) > 0
    <3>1. stopPc'[p] = "close" /\ stopIdx'[p] = 1
      BY <1>1, <1>t, <2>3 DEF StopAllCall, StopType
    <3>2. \A q \in Stoppers : ~Working(q)
      BY <2>3, <1>f DEF StopInv
    <3>3. stopElapsed = 0
      BY <1>f, <1>t, <3>2 DEF TimeInv, StopType
    <3>4. stopElapsed' + Budget(Cardinality(Remaining(stopIdx'[p]))) <= Budget(Cardinality(Informers))
      BY <1>b, <2>1, <3>1, <3>3, RemainingAll
    <3>5. \A q \in Stoppers \ {p} : stopPc'[q] \notin {"close", "await", "finished"}
      BY <2>2, <3>2 DEF Working
    <3> QED BY <2>1, <3>1, <3>3, <3>4, <3>5 DEF TimeInv
  <2>4. CASE ~(started /\ Len(Order) > 0)
    <3>1. stopPc'[p] = "returned" /\ stopPc[p] = "idle"
      BY <1>1, <1>t, <2>4 DEF StopAllCall, StopType
    <3>2. \A q \in Stoppers : Working(q)' <=> Working(q)
      BY <2>2, <3>1 DEF Working
    <3> QED BY <1>f, <2>1, <2>2, <3>1, <3>2 DEF TimeInv
  <2> QED BY <2>3, <2>4
<1>2. ASSUME NEW p \in Stoppers, StopClose(p) PROVE TimeInv'
  <2> DEFINE k == stopIdx[p]
  <2>1. k \in 1 .. Len(Order) /\ stopPc[p] = "close" /\ Order[k] \in Collectors
    BY <1>2, <1>f, OrderFacts DEF StopClose, StopInv
  <2>2. /\ UNCHANGED <<stopElapsed, sleepLeft, stopIdx>>
        /\ stopPc'[p] = "await"
        /\ \A q \in Stoppers \ {p} : stopPc'[q] = stopPc[q]
    BY <1>2, <1>t DEF StopClose, goVars, StopType
  <2>3. \A q \in Stoppers : Working(q)' <=> Working(q)
    BY <2>1, <2>2 DEF Working
  <2> HIDE DEF k
  <2>4. /\ sleepLeft[Order[k]] \in 0 .. InformerMaxRetries
        /\ Order[k] \notin Informers => sleepLeft[Order[k]] = 0
    BY <1>f, <1>t, <2>1, BoundsType DEF LifeInv, GoType
  <2>5. Cardinality(Remaining(k + 1)) \in Nat /\ stopElapsed \in Nat /\ InformerMaxRetries \in Nat
    BY <1>t, <2>1, RemainingNext, BoundsType DEF StopType
  <2>6. Budget(Cardinality(Remaining(k + 1))) \in Nat
    BY <2>5, BudgetFacts
  <2>7. sleepLeft[Order[k]] + Budget(Cardinality(Remaining(k + 1))) <= Budget(Cardinality(Remaining(k)))
    <3>1. CASE Order[k] \in Informers
      <4>1. Cardinality(Remaining(k)) = Cardinality(Remaining(k + 1)) + 1
        BY <2>1, <3>1, RemainingNext
      <4>2. Budget(Cardinality(Remaining(k))) = Budget(Cardinality(Remaining(k + 1))) + InformerMaxRetries
        BY <2>5, <4>1, BudgetFacts
      <4> QED BY <2>4, <2>5, <2>6, <4>2
    <3>2. CASE Order[k] \notin Informers
      <4>1. Cardinality(Remaining(k)) = Cardinality(Remaining(k + 1))
        BY <2>1, <2>5, <3>2, RemainingNext
      <4> QED BY <2>4, <2>6, <3>2, <4>1
    <3> QED BY <3>1, <3>2
  <2>8. Budget(Cardinality(Remaining(k))) \in Nat
    <3>1. Cardinality(Remaining(k)) \in Nat
      BY <2>1, RemainingNext
    <3> QED BY <3>1, BudgetFacts
  <2>9. stopElapsed + Budget(Cardinality(Remaining(k))) <= Budget(Cardinality(Informers))
    BY <1>f, <2>1 DEF TimeInv, k
  <2>10. stopElapsed + sleepLeft[Order[k]] + Budget(Cardinality(Remaining(k + 1)))
            <= Budget(Cardinality(Informers))
    BY <1>b, <2>4, <2>5, <2>6, <2>7, <2>8, <2>9
  <2> QED BY <1>f, <2>2, <2>3, <2>10 DEF TimeInv, k
<1>3. ASSUME NEW p \in Stoppers, StopAwait(p) PROVE TimeInv'
  <2> DEFINE k == stopIdx[p]
  <2>1. k \in 1 .. Len(Order) /\ stopPc[p] = "await" /\ Order[k] \in Collectors
    BY <1>3, <1>f, OrderFacts DEF StopAwait, StopInv
  <2>2. /\ UNCHANGED <<stopElapsed, sleepLeft>>
        /\ \A q \in Stoppers \ {p} : stopPc'[q] = stopPc[q] /\ stopIdx'[q] = stopIdx[q]
        /\ \/ stopPc'[p] = "finished"
           \/ stopPc'[p] = "close" /\ stopIdx'[p] = k + 1
    BY <1>3, <1>t DEF StopAwait, goVars, StopType
  <2>3. \A q \in Stoppers : Working(q)' <=> Working(q)
    BY <2>1, <2>2 DEF Working
  <2>4. /\ sleepLeft[Order[k]] \in Nat /\ stopElapsed \in Nat
        /\ Budget(Cardinality(Remaining(k + 1))) \in Nat
    BY <1>t, <2>1, PositionFacts, SleepNat DEF StopType
  <2>5. stopElapsed + sleepLeft[Order[k]] + Budget(Cardinality(Remaining(k + 1)))
           <= Budget(Cardinality(Informers))
    BY <1>f, <2>1 DEF TimeInv
  <2>6. /\ stopElapsed <= Budget(Cardinality(Informers))
        /\ stopElapsed + Budget(Cardinality(Remaining(k + 1))) <= Budget(Cardinality(Informers))
    BY <1>b, <2>4, <2>5
  <2> HIDE DEF k
  <2> QED BY <1>f, <2>2, <2>3, <2>6 DEF TimeInv
<1>4. ASSUME NEW c \in Collectors, InformerDecides(c) PROVE TimeInv'
  <2>1. UNCHANGED <<stopPc, stopIdx, stopElapsed>>
    BY <1>4 DEF InformerDecides, stopVars
  <2>2. ASSUME NEW p \in Stoppers, stopPc[p] = "await"
        PROVE  sleepLeft'[Order[stopIdx[p]]] = sleepLeft[Order[stopIdx[p]]]
    <3>1. stopCh[Order[stopIdx[p]]]
      BY <1>f, <1>t, <2>2 DEF StopInv, ClosedBy, StopType
    <3>2. stopCh[c] => UNCHANGED sleepLeft
      BY <1>4 DEF InformerDecides, GivesUp
    <3>3. ~stopCh[c] => c # Order[stopIdx[p]]
      BY <3>1
    <3>4. c # Order[stopIdx[p]] => sleepLeft'[Order[stopIdx[p]]] = sleepLeft[Order[stopIdx[p]]]
      <4>1. Order[stopIdx[p]] \in Collectors
        BY <1>f, <2>2, PositionFacts DEF StopInv
      <4>2. \/ UNCHANGED sleepLeft
            \/ sleepLeft' = [sleepLeft EXCEPT ![c] = attempt[c] + 1]
        BY <1>4 DEF InformerDecides
      <4>3. sleepLeft \in [Collectors -> 0 .. InformerMaxRetries]
        BY <1>t DEF GoType
      <4> QED BY <4>1, <4>2, <4>3
    <3> QED BY <3>2, <3>3, <3>4
  <2>3. ASSUME NEW p \in Stoppers, stopPc[p] = "await"
        PROVE  sleepLeft'[Order[stopIdx[p]]] <= sleepLeft[Order[stopIdx[p]]]
    <3>1. sleepLeft[Order[stopIdx[p]]] \in Nat
      BY <1>f, <1>t, <2>3, OrderFacts, BoundsType DEF StopInv, GoType
    <3> QED BY <2>2, <2>3, <3>1
  <2> QED BY <1>f, <2>1, <2>3, TimeFrame
<1>5. CASE Tick
  <2>1. /\ UNCHANGED <<stopPc, stopIdx>>
        /\ \A c \in Collectors : sleepLeft'[c] = IF sleepLeft[c] > 0 THEN sleepLeft[c] - 1 ELSE 0
        /\ stopElapsed' = IF StopInProgress /\ mainPc = "stopping" THEN stopElapsed + 1 ELSE stopElapsed
    BY <1>5 DEF Tick, stopVars
  <2>2. ASSUME NEW p \in Stoppers, stopPc[p] = "await"
        PROVE  /\ Order[stopIdx[p]] \in Collectors
               /\ sleepLeft[Order[stopIdx[p]]] \in Nat
               /\ Budget(Cardinality(Remaining(stopIdx[p] + 1))) \in Nat
    BY <1>f, <1>t, <2>2, PositionFacts, SleepNat DEF StopInv
  <2>3. CASE StopInProgress /\ mainPc = "stopping"
    <3>1. stopElapsed' = stopElapsed + 1 /\ stopElapsed \in Nat
      BY <1>t, <2>1, <2>3 DEF StopType
    <3>2. PICK p \in Stoppers : stopPc[p] = "await"
      BY <1>5, <2>3 DEF StopInProgress, Tick, Urgent
    <3>3. \A q \in Stoppers : Working(q) => q = p
      BY <1>f, <3>2 DEF StopInv, Working
    <3>4. sleepLeft[Order[stopIdx[p]]] > 0
      BY <1>5, <1>f, <2>3, <3>2, AwaitedSleeps
    <3>5. sleepLeft'[Order[stopIdx[p]]] = sleepLeft[Order[stopIdx[p]]] - 1
      BY <2>1, <2>2, <3>2, <3>4
    <3>6. stopElapsed + sleepLeft[Order[stopIdx[p]]] + Budget(Cardinality(Remaining(stopIdx[p] + 1)))
             <= Budget(Cardinality(Informers))
      BY <1>f, <3>2 DEF TimeInv
    <3>7. stopElapsed' + sleepLeft'[Order[stopIdx[p]]] + Budget(Cardinality(Remaining(stopIdx[p] + 1)))
             <= Budget(Cardinality(Informers))
      BY <1>b, <2>2, <3>1, <3>2, <3>5, <3>6
    <3>8. Working(p)'
      BY <2>1, <3>2 DEF Working
    <3>9. \A q \in Stoppers : stopPc[q] \in {"close", "await", "finished"} => q = p
      BY <3>3 DEF Working
    <3> QED BY <2>1, <3>2, <3>7, <3>8, <3>9 DEF TimeInv
  <2>4. CASE ~(StopInProgress /\ mainPc = "stopping")
    <3>1. ASSUME NEW p \in Stoppers, stopPc[p] = "await"
          PROVE  sleepLeft'[Order[stopIdx[p]]] <= sleepLeft[Order[stopIdx[p]]]
      BY <2>1, <2>2, <3>1
    <3> QED BY <1>f, <2>1, <2>4, <3>1, TimeFrame
  <2> QED BY <2>3, <2>4
<1>6. CASE UNCHANGED <<stopPc, stopIdx, stopElapsed, sleepLeft>>
  <2>1. ASSUME NEW p \in Stoppers, stopPc[p] = "await"
        PROVE  sleepLeft'[Order[stopIdx[p]]] <= sleepLeft[Order[stopIdx[p]]]
    BY <1>6, <1>f, <1>t, <2>1, OrderFacts, BoundsType DEF StopInv, GoType
  <2> QED BY <1>f, <1>6, <2>1, TimeFrame
<1> QED
  <2>1. CASE MainStep
    BY <2>1, <1>6 DEF MainStep, StartAllBegin, StartSucceeds, StartFails, StartAllReturns,
       SyncContextExpires, CollectorSyncReturns, WaitForSyncReturns, goVars, stopVars
  <2>2. ASSUME NEW p \in Stoppers, StopStep(p) PROVE TimeInv'
    BY <2>2, <1>1, <1>2, <1>3 DEF StopStep
  <2>3. ASSUME NEW c \in Collectors, CollectorStep(c) PROVE TimeInv'
    BY <2>3, <1>4, <1>6 DEF CollectorStep, InformerSyncs, InformerRunReturns, InformerWakes,
       PollReturns, PollAgain, PollerExits, stopVars
  <2>4. CASE Cancel \/ UNCHANGED vars
    BY <2>4, <1>6 DEF Cancel, vars, goVars, stopVars
  <2> QED BY <2>1, <2>2, <2>3, <2>4, <1>5 DEF Next

\* When every collector was started, StopAll takes no longer than a full backoff for
\* each informer.
THEOREM StopAllTimeBoundHolds == Spec => []StopAllTimeBound
<1>1. Init => TimeInv
  BY DEF Init, TimeInv
<1>2. TypeOK /\ TypeOK' /\ RegistryInv /\ TimeInv /\ [Next]_vars => TimeInv'
  BY TimeNext
<1>3. TypeOK /\ RegistryInv /\ TimeInv => StopAllTimeBound
  <2> SUFFICES ASSUME TypeOK, StopInv, TimeInv, FailedStarts = {}
               PROVE  stopElapsed <= Budget(Cardinality(Informers))
    BY DEF RegistryInv, StopAllTimeBound, Budget
  <2>1. Budget(Cardinality(Informers)) \in Nat /\ stopElapsed \in Nat
    BY BudgetFacts, InformersFinite DEF TypeOK, StopType
  <2>2. CASE stopElapsed > 0
    <3>1. PICK p \in Stoppers : Working(p)
      BY <2>2 DEF TimeInv
    <3>2. CASE stopPc[p] = "finished"
      BY <3>2 DEF TimeInv
    <3>3. CASE stopPc[p] \in {"close", "await"}
      <4>1. stopIdx[p] \in 1 .. Len(Order) /\ Order[stopIdx[p]] \in Collectors
        BY <3>3, OrderFacts DEF StopInv
      <4>3. /\ Budget(Cardinality(Remaining(stopIdx[p]))) \in Nat
            /\ Budget(Cardinality(Remaining(stopIdx[p] + 1))) \in Nat
            /\ sleepLeft[Order[stopIdx[p]]] \in Nat
        BY <4>1, PositionFacts, SleepNat DEF TypeOK
      <4> QED BY <2>1, <3>3, <4>3 DEF TimeInv
    <3> QED BY <3>1, <3>2, <3>3 DEF Working
  <2> QED BY <2>1, <2>2
<1> QED
  BY <1>1, <1>2, <1>3, Invariance, PTL DEF Spec

=============================================================================
