--------------------------- MODULE TransportProofs ---------------------------
(***************************************************************************)
(* Proofs about Transport, for every number of sends, retries and time     *)
(* units and every set of backend statuses.                                *)
(***************************************************************************)
EXTENDS Transport, SumProofs, TLAPS

\* The backoffs of the attempts are numbers, double, and grow.
LEMMA PowerFacts ==
    /\ 2^0 = 1
    /\ \A n \in 0 .. MaxRetries : 2^n \in Nat
    /\ \A n \in 1 .. MaxRetries : 2^n = 2 * 2^(n - 1)
    /\ \A m, n \in 0 .. MaxRetries : m <= n => 2^m <= 2^n
<1>1. MaxRetries \in Nat
  BY TransportAssumption
<1>2. \A n \in Nat : n + 1 <= MaxRetries => 2^(n + 1) = 2 * 2^n
  <2>1. ASSUME NEW n \in Nat, n + 1 <= MaxRetries PROVE 2^(n + 1) = 2 * 2^n
    <3>1. PICK k : k = n + 1
      OBVIOUS
    <3>2. k \in 1 .. MaxRetries /\ k - 1 = n
      BY <1>1, <2>1, <3>1
    <3> QED BY <3>1, <3>2, PowerAssumption
  <2> QED BY <2>1
<1>3. \A n \in 0 .. MaxRetries : 2^n \in Nat
  <2> DEFINE P == {n \in Nat : n <= MaxRetries => 2^n \in Nat}
  <2>1. 0 \in P
    BY PowerAssumption
  <2>2. ASSUME NEW n \in Nat, n \in P PROVE n + 1 \in P
    BY <1>1, <1>2, <2>2
  <2> HIDE DEF P
  <2>3. Nat \subseteq P
    BY <2>1, <2>2, NumberInduction
  <2> QED BY <1>1, <2>3 DEF P
<1>4. ASSUME NEW m \in 0 .. MaxRetries, NEW n \in 0 .. MaxRetries, m <= n PROVE 2^m <= 2^n
  <2> DEFINE P == {k \in Nat : m + k <= MaxRetries => 2^m <= 2^(m + k)}
  <2>1. 0 \in P
    BY <1>1, <1>3
  <2>2. ASSUME NEW k \in Nat, k \in P PROVE k + 1 \in P
    <3> SUFFICES ASSUME m + (k + 1) <= MaxRetries PROVE 2^m <= 2^(m + (k + 1))
      OBVIOUS
    <3>1. PICK j : j = m + k
      OBVIOUS
    <3>2. /\ j \in Nat /\ j + 1 <= MaxRetries /\ j + 1 = m + (k + 1)
          /\ j \in 0 .. MaxRetries
      BY <1>1, <3>1
    <3>3. 2^m <= 2^j
      BY <1>1, <2>2, <3>1, <3>2
    <3>4. 2^m \in Nat /\ 2^j \in Nat /\ 2^(j + 1) = 2 * 2^j
      BY <1>2, <1>3, <3>2
    <3> QED BY <3>2, <3>3, <3>4
  <2>3. Nat \subseteq P
    <3> HIDE DEF P
    <3> QED BY <2>1, <2>2, NumberInduction
  <2>4. PICK k \in Nat : n = m + k
    <3>1. n - m \in Nat /\ n = m + (n - m)
      BY <1>1, <1>4
    <3> QED BY <3>1
  <2>5. k \in P
    BY <2>3
  <2> QED BY <1>4, <2>4, <2>5
<1> QED
  BY <1>3, <1>4, PowerAssumption

\* A sleep is no longer than its power of two, where the duration wraps too.
LEMMA SleepBound ==
    ASSUME NEW n \in 0 .. MaxRetries, NEW t \in sleepWithBackoff(n)
    PROVE  t \in Nat /\ t <= 2^n
<1>1. 2^n \in Nat
  BY PowerFacts
<1>2. CASE n < 34
  BY <1>1, <1>2 DEF sleepWithBackoff
<1>3. CASE n >= 34
  <2>1. 34 \in 0 .. MaxRetries
    BY <1>3, TransportAssumption
  <2>2. 2^34 \in Nat /\ 2^34 <= 2^n
    BY <1>3, <2>1, PowerFacts
  <2>3. ~(n < 34)
    BY <1>3, TransportAssumption
  <2>4. t \in 0 .. 2^34
    BY <2>3, Zenon DEF sleepWithBackoff
  <2> QED BY <1>1, <2>2, <2>4
<1> QED
  BY <1>2, <1>3, TransportAssumption

\* Every status but 200 is turned into an error the retry loop knows.
LEMMA StatusErrorType ==
    ASSUME NEW status \in 0 .. 599, status # 200
    PROVE  StatusError(status) \in NonRetryableErrors \cup RetryableErrors
  BY DEF StatusError, NonRetryableErrors, RetryableErrors

\* Membership facts about the sets of errors.
LEMMA ErrorFacts ==
    /\ NonRetryableErrors \cup RetryableErrors \subseteq SendErrors
    /\ "nil" \notin SendErrors /\ "sent" \notin SendErrors
    /\ "context canceled" \in SendErrors
    /\ SendErrors \subseteq Outcomes /\ LocalErrors \subseteq Outcomes
    /\ "none" \in Outcomes /\ "sent" \in Outcomes /\ "sent" \notin LocalErrors
    /\ {"request failed", "decode"} \subseteq RetryableErrors
    /\ NonRetryableErrors \cap (RetryableErrors \cup {"nil"}) = {}
  BY DEF NonRetryableErrors, RetryableErrors, SendErrors, LocalErrors, Outcomes

\* Reporting keeps the error collector's map well formed.
LEMMA ReportType ==
    ASSUME EntriesType, NEW key \in ErrKeys, Report(key)
    PROVE  EntriesType'
  BY TTLAssumption DEF EntriesType, Report

\* Time keeps the error collector's map well formed: ages saturate.
LEMMA AgeType ==
    ASSUME EntriesType, AgeEntries
    PROVE  EntriesType'
  BY TTLAssumption DEF EntriesType, AgeEntries, Expired

\* The inductive invariant holds initially.
LEMMA InitInv == TransportInit => TransportTypeOK /\ DeliveryInv
<1> SUFFICES ASSUME TransportInit PROVE TransportTypeOK /\ DeliveryInv
  OBVIOUS
<1> USE TransportAssumption, TTLAssumption DEF TransportInit
<1>1. EntriesType
  BY DEF ErrorCollectorInit, EntriesType
<1>2. SendType
  <2>1. ctxDone \in BOOLEAN /\ sendPc \in {"idle", "loop", "sleep", "check", "post", "wait", "record"}
    OBVIOUS
  <2>2. snap \in 0 .. MaxSends /\ attempt \in 0 .. MaxRetries + 1
    OBVIOUS
  <2>3. lastErr \in SendErrors \cup {"nil"} /\ timer \in Nat /\ elapsed \in Nat /\ grace \in Nat
    OBVIOUS
  <2> QED BY <2>1, <2>2, <2>3 DEF SendType
<1>3. ResultType
  <2>1. sendTotal \in [success : Nat, error : Nat]
    OBVIOUS
  <2>2. outcome \in [Snapshots -> Outcomes]
    BY ErrorFacts
  <2>3. lastSendStats \in 0 .. MaxSends
    OBVIOUS
  <2> QED BY <2>1, <2>2, <2>3 DEF ResultType
<1>4. WireType
  BY DEF WireType
<1>5. LoopInv /\ StoreInv
  BY DEF LoopInv, StoreInv
<1> QED
  BY <1>1, <1>2, <1>3, <1>4, <1>5 DEF TransportTypeOK, DeliveryInv

\* What an action that leaves entries alone has to establish.
LEMMA Assemble ==
    ASSUME TransportTypeOK, UNCHANGED entries,
           SendType', ResultType', WireType', LoopInv', StoreInv'
    PROVE  TransportTypeOK' /\ DeliveryInv'
  BY DEF TransportTypeOK, DeliveryInv, EntriesType

\* Every step preserves the inductive invariant.
LEMMA NextInv ==
    ASSUME TransportTypeOK, DeliveryInv, [TransportNext]_transportVars
    PROVE  TransportTypeOK' /\ DeliveryInv'
<1> USE TransportAssumption, TTLAssumption DEF Snapshots
<1>t. EntriesType /\ SendType /\ ResultType /\ WireType /\ LoopInv /\ StoreInv
  BY DEF TransportTypeOK, DeliveryInv
<1>0. CASE UNCHANGED transportVars
  BY <1>0 DEF transportVars, sendVars, wireVars, backendVars, EntriesType, SendType,
              ResultType, WireType, LoopInv, StoreInv, TransportTypeOK, DeliveryInv
<1>1. CASE SendRejected
  <2> USE <1>1, <1>t DEF SendRejected, wireVars, backendVars
  <2>0. PICK err \in LocalErrors : outcome' = [outcome EXCEPT ![snap + 1] = err]
    OBVIOUS
  <2>1. SendType' /\ LoopInv'
    BY DEF SendType, LoopInv
  <2>2. ResultType'
    BY <2>0, ErrorFacts DEF ResultType
  <2>3. WireType'
    BY DEF WireType
  <2>4. StoreInv'
    <3>1. \A s \in Snapshots : outcome'[s] = "sent" => outcome[s] = "sent"
      BY <2>0, ErrorFacts DEF ResultType
    <3> QED BY <3>1 DEF StoreInv, LoopInv
  <2> QED BY <2>1, <2>2, <2>3, <2>4, Assemble
<1>2. CASE SendBegin
  <2> USE <1>2, <1>t DEF SendBegin, wireVars, backendVars
  <2>1. SendType' /\ LoopInv'
    BY DEF SendType, LoopInv
  <2>2. ResultType' /\ WireType'
    BY DEF ResultType, WireType
  <2>3. StoreInv'
    BY DEF StoreInv, LoopInv
  <2> QED BY <2>1, <2>2, <2>3, Assemble
<1>3. CASE LoopHead
  <2> USE <1>3, <1>t DEF LoopHead, maxAttempts, wireVars, backendVars
  <2>0. timer' \in Nat
    <3>1. CASE attempt \in 1 .. MaxRetries /\ timer' \in sleepWithBackoff(attempt - 1)
      <4>1. attempt - 1 \in 0 .. MaxRetries
        BY <3>1
      <4> QED BY <3>1, <4>1, SleepBound
    <3>2. CASE UNCHANGED timer
      BY <3>2 DEF SendType
    <3> QED BY <3>1, <3>2
  <2>1. SendType' /\ LoopInv'
    BY <2>0 DEF SendType, LoopInv
  <2>2. ResultType' /\ WireType'
    BY DEF ResultType, WireType
  <2>3. StoreInv'
    BY DEF StoreInv, LoopInv, SendType
  <2> QED BY <2>1, <2>2, <2>3, Assemble
<1>4. CASE Wake
  <2> USE <1>4, <1>t DEF Wake, wireVars, backendVars
  <2>1. SendType' /\ LoopInv'
    BY DEF SendType, LoopInv
  <2>2. ResultType' /\ WireType'
    BY DEF ResultType, WireType
  <2>3. StoreInv'
    BY DEF StoreInv
  <2> QED BY <2>1, <2>2, <2>3, Assemble
<1>5. CASE CheckContext
  <2> USE <1>5, <1>t DEF CheckContext, wireVars, backendVars
  <2>1. SendType' /\ LoopInv'
    <3>1. CASE ctxDone
      BY <3>1, ErrorFacts DEF SendType, LoopInv
    <3>2. CASE ~ctxDone
      BY <3>2 DEF SendType, LoopInv
    <3> QED BY <3>1, <3>2
  <2>2. ResultType' /\ WireType'
    BY DEF ResultType, WireType
  <2>3. StoreInv'
    BY DEF StoreInv
  <2> QED BY <2>1, <2>2, <2>3, Assemble
<1>6. ASSUME NEW err \in NonRetryableErrors \cup RetryableErrors, AttemptFailed(err),
             sendPc \in {"post", "wait"}
      PROVE  TransportTypeOK' /\ DeliveryInv'
  <2>5. err # "nil" /\ err \in SendErrors
    <3>1. err \in NonRetryableErrors \cup RetryableErrors
      BY <1>6
    <3>2. err \in SendErrors
      BY <3>1, ErrorFacts
    <3> QED BY <3>2, ErrorFacts
  <2>6. ~isNonRetryableError(err) => err \in RetryableErrors
    BY <1>6, Zenon DEF isNonRetryableError
  <2> USE <1>6, <1>t DEF AttemptFailed, backendVars
  <2>0. attempt \in 0 .. MaxRetries
    BY DEF SendType, LoopInv
  <2>1. SendType' /\ LoopInv'
    BY <2>0, <2>5, <2>6 DEF SendType, LoopInv
  <2>2. ResultType' /\ WireType'
    BY DEF ResultType, WireType
  <2>3. StoreInv'
    BY <2>5 DEF StoreInv
  <2> QED BY <2>1, <2>2, <2>3, Assemble
<1>7. CASE Post
  <2> USE <1>7, <1>t DEF Post, backendVars
  <2> DEFINE req == [snap |-> snap, attempt |-> attempt, key |-> snap]
  <2>0. req \in Requests /\ req.key = req.snap /\ net' = net \cup {req}
    BY DEF SendType, LoopInv, Requests, IdempotencyKey
  <2>1. SendType' /\ LoopInv'
    BY DEF SendType, LoopInv
  <2>2. ResultType'
    BY DEF ResultType
  <2>3. WireType'
    BY <2>0 DEF WireType
  <2>4. StoreInv'
    BY <2>0 DEF StoreInv
  <2> QED BY <2>1, <2>2, <2>3, <2>4, Assemble
<1>8. CASE PostCanceled
  BY <1>6, <1>8, ErrorFacts DEF PostCanceled
<1>9. CASE RequestFailed
  BY <1>6, <1>9, ErrorFacts DEF RequestFailed
<1>10. CASE ResponseRejected
  <2>1. (IF reply = 200 THEN "decode" ELSE StatusError(reply))
           \in NonRetryableErrors \cup RetryableErrors
    <3>1. reply \in 0 .. 599
      BY <1>t DEF WireType
    <3> QED BY <3>1, StatusErrorType, ErrorFacts
  <2> QED BY <2>1, <1>6, <1>10 DEF ResponseRejected
<1>11. CASE ResponseAccepted
  <2> USE <1>11, <1>t DEF ResponseAccepted, backendVars
  <2>1. SendType' /\ LoopInv'
    BY DEF SendType, LoopInv
  <2>2. ResultType' /\ WireType'
    BY DEF ResultType, WireType
  <2>3. StoreInv'
    BY DEF StoreInv
  <2> QED BY <2>1, <2>2, <2>3, Assemble
<1>12. CASE RecordResult
  <2> USE <1>12, <1>t DEF RecordResult, wireVars, backendVars
  <2>0. snap \in Snapshots
    BY DEF SendType, LoopInv
  <2>1. SendType' /\ LoopInv' /\ WireType'
    BY DEF SendType, LoopInv, WireType
  <2>2. EntriesType'
    <3>1. BackendUnreachable \in ErrKeys
      BY DEF ErrKeys
    <3> QED BY <3>1, ReportType DEF EntriesType
  <2>3. ResultType' /\ StoreInv'
    <3>1. CASE lastErr # "nil"
      <4>1. lastErr \in Outcomes /\ lastErr # "sent"
        BY <3>1, ErrorFacts DEF SendType
      <4>2. ResultType'
        BY <4>1, <3>1, <2>0 DEF ResultType
      <4>3. \A s \in Snapshots : outcome'[s] = "sent" => outcome[s] = "sent"
        BY <4>1, <3>1, <2>0 DEF ResultType
      <4> QED BY <4>2, <4>3 DEF StoreInv
    <3>2. CASE lastErr = "nil"
      <4>1. ResultType'
        <5>1. "sent" \in Outcomes
          BY ErrorFacts
        <5>2. outcome' = [outcome EXCEPT ![snap] = "sent"] /\ lastSendStats' = snap
          BY <3>2
        <5>3. sendTotal' = [sendTotal EXCEPT !.success = @ + 1]
          BY <3>2
        <5>4. outcome' \in [Snapshots -> Outcomes] /\ lastSendStats' \in 0 .. MaxSends
          BY <5>1, <5>2, <2>0 DEF ResultType
        <5>5. sendTotal' \in [success : Nat, error : Nat]
          BY <5>3 DEF ResultType
        <5> QED BY <5>4, <5>5 DEF ResultType
      <4>2. \A s \in Snapshots : outcome'[s] = "sent" => s = snap \/ outcome[s] = "sent"
        BY <3>2, <2>0 DEF ResultType
      <4> QED BY <4>1, <4>2, <3>2 DEF StoreInv
    <3> QED BY <3>1, <3>2
  <2> QED BY <2>1, <2>2, <2>3 DEF TransportTypeOK, DeliveryInv
<1>13. CASE BackendServes
  <2>1. PICK req \in net, status \in BackendStatuses, stored \in BOOLEAN :
           Serve(req, status, stored)
    BY <1>13 DEF BackendServes
  <2> USE <2>1, <1>t DEF Serve, backendVars, sendVars
  <2>2. req \in Requests /\ req.snap \in 1 .. MaxSends /\ req.key = req.snap
    BY DEF WireType, StoreInv, Requests
  <2>3. SendType' /\ ResultType'
    BY DEF SendType, ResultType
  <2>4. WireType'
    <3>1. reply' \in BackendStatuses \cup {0} /\ net' \subseteq Requests
      BY DEF WireType
    <3>2. CASE stored /\ req.key \notin seenKeys
      <4>1. /\ seenKeys' = seenKeys \cup {req.key}
            /\ ingested' = [ingested EXCEPT ![req.snap] = @ + 1]
        BY <3>2
      <4>2. ingested' \in [Snapshots -> Nat]
        BY <4>1, <2>2 DEF WireType
      <4>3. seenKeys' \subseteq Nat
        <5>1. req.key \in Nat /\ seenKeys \subseteq Nat
          BY <2>2 DEF WireType
        <5> QED BY <4>1, <5>1
      <4> QED BY <3>1, <4>2, <4>3 DEF WireType
    <3>3. CASE ~(stored /\ req.key \notin seenKeys)
      BY <3>1, <3>3 DEF WireType
    <3> QED BY <3>2, <3>3
  <2>5. LoopInv'
    BY DEF LoopInv
  <2>6. StoreInv'
    BY <2>2 DEF StoreInv, WireType
  <2> QED BY <2>3, <2>4, <2>5, <2>6, Assemble
<1>14. CASE Cancel
  BY <1>14, <1>t, Assemble DEF Cancel, sendVars, wireVars, backendVars, SendType,
               ResultType, WireType, LoopInv, StoreInv
<1>15. CASE TransportTick
  <2> USE <1>15, <1>t DEF TransportTick, SendElapses, SendBlocked, wireVars, backendVars
  <2>1. EntriesType'
    BY AgeType
  <2>2. SendType'
    BY DEF SendType
  <2>3. ResultType' /\ WireType' /\ LoopInv' /\ StoreInv'
    BY DEF ResultType, WireType, LoopInv, StoreInv
  <2> QED BY <2>1, <2>2, <2>3 DEF TransportTypeOK, DeliveryInv
<1> QED
  BY <1>0, <1>1, <1>2, <1>3, <1>4, <1>5, <1>7, <1>8, <1>9, <1>10, <1>11, <1>12, <1>13,
     <1>14, <1>15 DEF TransportNext, SendStep

\* Type correctness of Send, the wire and the backend.
THEOREM TransportTypeCorrect == TransportSpec => []TransportTypeOK
<1>1. TransportTypeOK /\ DeliveryInv /\ [TransportNext]_transportVars
         => TransportTypeOK' /\ DeliveryInv'
  BY NextInv
<1> QED
  BY InitInv, <1>1, PTL DEF TransportSpec

\* A snapshot is stored at most once, and one that Send reported as sent is stored,
\* for any number of retries, late requests and refusals.
THEOREM StoredExactlyOnceHolds == TransportSpec => []StoredExactlyOnce
<1>1. TransportTypeOK /\ DeliveryInv /\ [TransportNext]_transportVars
         => TransportTypeOK' /\ DeliveryInv'
  BY NextInv
<1>2. DeliveryInv => StoredExactlyOnce
  BY DEF DeliveryInv, StoreInv, StoredExactlyOnce
<1> QED
  BY InitInv, <1>1, <1>2, PTL DEF TransportSpec

\* A status that would be refused again is never retried: none of its errors is one
\* that the loop goes on with.
LEMMA RefusalsEndTheLoop == Refusals \cap (RetryableErrors \cup {"nil"}) = {}
<1>1. \A status \in RefusalStatuses : StatusError(status) \in NonRetryableErrors
  <2>1. StatusError(401) \in NonRetryableErrors
    BY DEF StatusError, NonRetryableErrors
  <2>2. StatusError(402) \in NonRetryableErrors
    BY DEF StatusError, NonRetryableErrors
  <2>3. StatusError(403) \in NonRetryableErrors
    BY DEF StatusError, NonRetryableErrors
  <2>4. StatusError(404) \in NonRetryableErrors
    BY DEF StatusError, NonRetryableErrors
  <2>5. StatusError(410) \in NonRetryableErrors
    BY DEF StatusError, NonRetryableErrors
  <2>6. StatusError(411) \in NonRetryableErrors
    BY DEF StatusError, NonRetryableErrors
  <2>7. StatusError(413) \in NonRetryableErrors
    BY DEF StatusError, NonRetryableErrors
  <2>8. StatusError(415) \in NonRetryableErrors
    BY DEF StatusError, NonRetryableErrors
  <2> QED
    BY <2>1, <2>2, <2>3, <2>4, <2>5, <2>6, <2>7, <2>8 DEF RefusalStatuses
<1> QED
  BY <1>1, ErrorFacts DEF Refusals

\* No step but Post puts a request on the wire.
LEMMA OnlyPostSends ==
    ASSUME [TransportNext]_transportVars, net' \ net # {}
    PROVE  Post
  BY DEF TransportNext, SendStep, transportVars, wireVars, backendVars, sendVars,
         SendRejected, SendBegin, LoopHead, Wake, CheckContext, AttemptFailed, PostCanceled,
         RequestFailed, ResponseRejected, ResponseAccepted, RecordResult, BackendServes,
         Serve, Cancel, TransportTick, SendElapses

\* No request leaves for a snapshot that was refused, nor on a canceled context.
THEOREM NoRequestAfterRefusalHolds == TransportSpec => NoRequestAfterRefusal
<1>1. TransportTypeOK /\ DeliveryInv /\ [TransportNext]_transportVars
         => TransportTypeOK' /\ DeliveryInv'
  BY NextInv
<1>2. ASSUME DeliveryInv, [TransportNext]_transportVars
      PROVE  [\A req \in net' \ net : lastErr \notin Refusals /\ ~ctxDone]_transportVars
  <2> SUFFICES ASSUME NEW req \in net' \ net
               PROVE  lastErr \notin Refusals /\ ~ctxDone
    OBVIOUS
  <2>1. Post
    BY <1>2, OnlyPostSends
  <2>2. lastErr \in RetryableErrors \cup {"nil"}
    BY <1>2, <2>1 DEF Post, DeliveryInv, LoopInv
  <2> QED BY <2>1, <2>2, RefusalsEndTheLoop DEF Post
<1> QED
  BY InitInv, <1>1, <1>2, PTL DEF TransportSpec, NoRequestAfterRefusal

------------------------------------------------------------------------------
(* How long a Send takes.                                                   *)

Requested(n) == n * RequestTimeout
LongestSend == Requested(MaxRetries + 1) + 2^MaxRetries - 1
LongestSleep == IF MaxRetries = 0 THEN 0 ELSE 2^(MaxRetries - 1)

\* Attempt n comes after n requests and the sleeps 1 + 2 + ... + 2^(n-1).
BeforeAttempt(n) == Requested(n) + 2^n - 1

\* What has elapsed, with what is left of the current wait, is within the time of the
\* attempts made so far and of the sleeps between them.
ElapsedInv ==
    /\ sendPc = "idle" => elapsed = 0
    /\ sendPc = "loop" =>
          elapsed <= IF attempt = 0 THEN 0 ELSE Requested(attempt) + 2^(attempt - 1) - 1
    /\ sendPc = "sleep" => elapsed + timer <= BeforeAttempt(attempt)
    /\ sendPc \in {"check", "post"} => elapsed <= BeforeAttempt(attempt)
    /\ sendPc = "wait" => elapsed + timer <= BeforeAttempt(attempt) + RequestTimeout
    /\ sendPc = "record" => elapsed <= LongestSend

\* Without a request timeout nothing bounds what has elapsed.
TimedInv == RequestTimeout > 0 => ElapsedInv

\* A Send that goes on after the cancellation has not let time pass since, but for the
\* sleep it was in or about to begin.
GraceInv ==
    /\ sendPc \in {"idle", "loop", "post", "wait"} => grace = 0
    /\ ~ctxDone => grace = 0
    /\ sendPc = "sleep" => grace + timer <= LongestSleep
    /\ grace <= LongestSleep

\* The time of the requests is a number and grows by one timeout per attempt.
LEMMA RequestedFacts ==
    ASSUME NEW n \in Nat
    PROVE  /\ Requested(n) \in Nat
           /\ Requested(n + 1) = Requested(n) + RequestTimeout
           /\ \A m \in Nat : m <= n => Requested(m) <= Requested(n)
  BY TransportAssumption DEF Requested

\* The attempt that is made last ends within the time of the longest Send.
LEMMA AttemptTime ==
    ASSUME NEW n \in 0 .. MaxRetries
    PROVE  /\ BeforeAttempt(n) \in Nat
           /\ BeforeAttempt(n) + RequestTimeout = Requested(n + 1) + 2^n - 1
           /\ BeforeAttempt(n) + RequestTimeout <= LongestSend
           /\ LongestSend \in Nat
<1>1. /\ Requested(n) \in Nat /\ Requested(n + 1) \in Nat /\ Requested(MaxRetries + 1) \in Nat
      /\ Requested(n + 1) = Requested(n) + RequestTimeout
      /\ Requested(n + 1) <= Requested(MaxRetries + 1)
  <2>1. n \in Nat /\ n + 1 \in Nat /\ MaxRetries + 1 \in Nat /\ n + 1 <= MaxRetries + 1
    BY TransportAssumption
  <2>2. Requested(n) \in Nat /\ Requested(n + 1) = Requested(n) + RequestTimeout
    BY <2>1, RequestedFacts
  <2>3. Requested(n + 1) \in Nat
    BY <2>1, RequestedFacts
  <2>4. Requested(MaxRetries + 1) \in Nat /\ Requested(n + 1) <= Requested(MaxRetries + 1)
    BY <2>1, RequestedFacts
  <2> QED BY <2>2, <2>3, <2>4
<1>2. 2^n \in Nat /\ 2^MaxRetries \in Nat /\ 1 <= 2^n /\ 2^n <= 2^MaxRetries
  <2>1. 0 \in 0 .. MaxRetries /\ MaxRetries \in 0 .. MaxRetries /\ 0 <= n /\ n <= MaxRetries
    BY TransportAssumption
  <2>2. 2^n \in Nat /\ 2^MaxRetries \in Nat
    BY <2>1, PowerFacts
  <2>3. 2^0 <= 2^n /\ 2^n <= 2^MaxRetries
    BY <2>1, PowerFacts
  <2> QED BY <2>2, <2>3, PowerFacts
<1>3. RequestTimeout \in Nat
  BY TransportAssumption
<1> QED
  BY <1>1, <1>2, <1>3 DEF BeforeAttempt, LongestSend

\* The sleep before attempt n fits between the end of the attempt before it and it, and
\* is no longer than the longest one.
LEMMA SleepTime ==
    ASSUME NEW n \in 1 .. MaxRetries
    PROVE  /\ 2^(n - 1) \in Nat /\ LongestSleep \in Nat
           /\ BeforeAttempt(n) = Requested(n) + 2^(n - 1) - 1 + 2^(n - 1)
           /\ 2^(n - 1) <= LongestSleep
           /\ \A t \in sleepWithBackoff(n - 1) : t \in Nat /\ t <= 2^(n - 1)
<1>1. n - 1 \in 0 .. MaxRetries /\ MaxRetries - 1 \in 0 .. MaxRetries /\ n - 1 <= MaxRetries - 1
  BY TransportAssumption
<1>2. 2^(n - 1) \in Nat /\ 2^(MaxRetries - 1) \in Nat /\ 2^(n - 1) <= 2^(MaxRetries - 1)
  BY <1>1, PowerFacts
<1>3. 2^n = 2 * 2^(n - 1) /\ MaxRetries # 0
  BY TransportAssumption, PowerFacts
<1>4. Requested(n) \in Nat
  BY RequestedFacts
<1>5. \A t \in sleepWithBackoff(n - 1) : t \in Nat /\ t <= 2^(n - 1)
  BY <1>1, SleepBound
<1> QED
  BY <1>2, <1>3, <1>4, <1>5 DEF BeforeAttempt, LongestSleep

\* The longest sleep is a number.
LEMMA LongestSleepNat == LongestSleep \in Nat
  BY TransportAssumption, PowerFacts DEF LongestSleep

\* Initially no time has passed.
LEMMA InitTime == TransportInit => ElapsedInv /\ GraceInv
  BY LongestSleepNat DEF TransportInit, ElapsedInv, GraceInv

\* Every step keeps Send within its time.
LEMMA ElapsedNext ==
    ASSUME SendType, LoopInv, RequestTimeout > 0, ElapsedInv, [TransportNext]_transportVars
    PROVE  ElapsedInv'
<1>a. attempt \in 0 .. MaxRetries + 1 /\ timer \in Nat /\ elapsed \in Nat
  BY DEF SendType
<1>r. RequestTimeout \in Nat /\ MaxRetries \in Nat
  BY TransportAssumption
<1>1. CASE SendRejected
  BY <1>1 DEF SendRejected, ElapsedInv
<1>2. CASE SendBegin
  BY <1>2 DEF SendBegin, ElapsedInv
<1>3. CASE LoopHead
  <2>0. sendPc = "loop" /\ UNCHANGED <<elapsed, attempt>>
    BY <1>3 DEF LoopHead
  <2>1. CASE attempt >= maxAttempts
    <3>1. sendPc' = "record" /\ attempt = MaxRetries + 1
      BY <1>3, <1>a, <1>r, <2>1 DEF LoopHead, maxAttempts
    <3>2. elapsed <= Requested(MaxRetries + 1) + 2^MaxRetries - 1
      BY <1>a, <1>r, <2>0, <3>1 DEF ElapsedInv
    <3> QED BY <2>0, <3>1, <3>2 DEF ElapsedInv, LongestSend
  <2>2. CASE attempt = 0
    <3>1. sendPc' = "check"
      BY <1>3, <1>r, <2>2 DEF LoopHead, maxAttempts
    <3>2. elapsed <= 0
      BY <2>0, <2>2 DEF ElapsedInv
    <3>3. BeforeAttempt(0) \in Nat
      BY <1>r, AttemptTime
    <3>4. elapsed' <= BeforeAttempt(attempt')
      BY <1>a, <2>0, <2>2, <3>2, <3>3
    <3> QED BY <3>1, <3>4 DEF ElapsedInv
  <2>3. CASE attempt \in 1 .. MaxRetries
    <3>1. sendPc' = "sleep" /\ timer' \in sleepWithBackoff(attempt - 1)
      BY <1>3, <1>r, <2>3 DEF LoopHead, maxAttempts
    <3>2. elapsed <= Requested(attempt) + 2^(attempt - 1) - 1
      BY <2>0, <2>3 DEF ElapsedInv
    <3>3. /\ BeforeAttempt(attempt) = Requested(attempt) + 2^(attempt - 1) - 1 + 2^(attempt - 1)
          /\ 2^(attempt - 1) \in Nat
          /\ timer' \in Nat /\ timer' <= 2^(attempt - 1)
      BY <2>3, <3>1, SleepTime
    <3>4. Requested(attempt) \in Nat
      BY <2>3, RequestedFacts
    <3>5. elapsed' + timer' <= BeforeAttempt(attempt')
      BY <1>a, <2>0, <3>1, <3>2, <3>3, <3>4
    <3> QED BY <3>1, <3>5 DEF ElapsedInv
  <2> QED BY <1>a, <1>r, <2>1, <2>2, <2>3 DEF maxAttempts
<1>4. CASE Wake
  <2>1. sendPc = "sleep" /\ sendPc' = "check" /\ timer = 0 /\ UNCHANGED <<elapsed, attempt>>
    BY <1>4 DEF Wake
  <2> QED BY <1>a, <2>1 DEF ElapsedInv
<1>5. CASE CheckContext
  <2>1. /\ sendPc = "check" /\ sendPc' \in {"post", "record"} /\ UNCHANGED <<elapsed, attempt>>
        /\ attempt \in 0 .. MaxRetries
    <3>1. sendPc = "check" /\ UNCHANGED <<elapsed, attempt>>
      BY <1>5 DEF CheckContext
    <3>2. sendPc' \in {"post", "record"}
      BY <1>5, Zenon DEF CheckContext
    <3>3. attempt <= MaxRetries
      BY <3>1 DEF LoopInv
    <3> QED BY <1>a, <1>r, <3>1, <3>2, <3>3
  <2>2. elapsed <= BeforeAttempt(attempt)
    BY <2>1 DEF ElapsedInv
  <2>3. BeforeAttempt(attempt) \in Nat /\ BeforeAttempt(attempt) <= LongestSend /\ LongestSend \in Nat
    BY <1>r, <2>1, AttemptTime
  <2>4. elapsed <= LongestSend
    BY <1>a, <2>2, <2>3
  <2> QED BY <2>1, <2>2, <2>4 DEF ElapsedInv
<1>6. ASSUME NEW err, AttemptFailed(err), sendPc \in {"post", "wait"} PROVE ElapsedInv'
  <2>1. /\ attempt \in 0 .. MaxRetries
        /\ UNCHANGED elapsed
        /\ \/ sendPc' = "record"
           \/ sendPc' = "loop" /\ attempt' = attempt + 1
    BY <1>6, <1>a DEF AttemptFailed, LoopInv
  <2>2. /\ BeforeAttempt(attempt) \in Nat /\ LongestSend \in Nat
        /\ BeforeAttempt(attempt) + RequestTimeout <= LongestSend
        /\ BeforeAttempt(attempt) + RequestTimeout = Requested(attempt + 1) + 2^attempt - 1
    BY <2>1, AttemptTime
  <2>3. elapsed <= BeforeAttempt(attempt) + RequestTimeout
    BY <1>a, <1>r, <1>6, <2>2 DEF ElapsedInv
  <2>4. CASE sendPc' = "record"
    <3>1. elapsed' <= LongestSend
      BY <1>a, <1>r, <2>1, <2>2, <2>3
    <3> QED BY <2>4, <3>1 DEF ElapsedInv
  <2>5. CASE sendPc' = "loop" /\ attempt' = attempt + 1
    <3>1. attempt' # 0 /\ attempt' - 1 = attempt
      BY <1>a, <2>5
    <3>2. elapsed' <= Requested(attempt') + 2^(attempt' - 1) - 1
      BY <2>1, <2>2, <2>3, <2>5, <3>1
    <3> QED BY <2>5, <3>1, <3>2 DEF ElapsedInv
  <2> QED BY <2>1, <2>4, <2>5
<1>7. CASE Post
  <2>1. /\ sendPc = "post" /\ sendPc' = "wait" /\ timer' = RequestTimeout
        /\ UNCHANGED <<elapsed, attempt>> /\ attempt \in 0 .. MaxRetries
    BY <1>7, <1>a DEF Post, LoopInv
  <2>2. elapsed <= BeforeAttempt(attempt) /\ BeforeAttempt(attempt) \in Nat
    BY <2>1, AttemptTime DEF ElapsedInv
  <2>3. elapsed' + timer' <= BeforeAttempt(attempt') + RequestTimeout
    BY <1>a, <1>r, <2>1, <2>2
  <2> QED BY <2>1, <2>3 DEF ElapsedInv
<1>8. CASE PostCanceled \/ RequestFailed \/ ResponseRejected
  BY <1>6, <1>8 DEF PostCanceled, RequestFailed, ResponseRejected
<1>9. CASE ResponseAccepted
  <2>1. /\ sendPc = "wait" /\ sendPc' = "record" /\ UNCHANGED elapsed
        /\ attempt \in 0 .. MaxRetries
    BY <1>9, <1>a DEF ResponseAccepted, LoopInv
  <2>2. /\ BeforeAttempt(attempt) \in Nat /\ LongestSend \in Nat
        /\ BeforeAttempt(attempt) + RequestTimeout <= LongestSend
    BY <2>1, AttemptTime
  <2>3. elapsed + timer <= BeforeAttempt(attempt) + RequestTimeout
    BY <2>1 DEF ElapsedInv
  <2>4. elapsed' <= LongestSend
    BY <1>a, <1>r, <2>1, <2>2, <2>3
  <2> QED BY <2>1, <2>4 DEF ElapsedInv
<1>10. CASE RecordResult
  BY <1>10 DEF RecordResult, ElapsedInv
<1>11. CASE TransportTick
  <2>1. UNCHANGED <<sendPc, attempt>>
    BY <1>11 DEF TransportTick, SendElapses
  <2>2. CASE sendPc = "idle" /\ UNCHANGED <<timer, elapsed, grace>>
    BY <2>1, <2>2 DEF ElapsedInv
  <2>3. CASE SendBlocked /\ timer > 0 /\ timer' = timer - 1 /\ elapsed' = elapsed + 1
    <3>1. sendPc \in {"sleep", "wait"} /\ elapsed' + timer' = elapsed + timer
      BY <1>a, <2>3 DEF SendBlocked
    <3> QED BY <2>1, <3>1 DEF ElapsedInv
  <2>4. ~Untimed
    BY DEF Untimed
  <2> QED BY <1>11, <2>2, <2>3, <2>4 DEF TransportTick, SendElapses
<1>12. CASE UNCHANGED <<sendPc, attempt, timer, elapsed>>
  BY <1>12 DEF ElapsedInv
<1> QED
  BY <1>1, <1>2, <1>3, <1>4, <1>5, <1>7, <1>8, <1>9, <1>10, <1>11, <1>12
     DEF TransportNext, SendStep, BackendServes, Serve, Cancel, sendVars, transportVars

\* Every step keeps the delay of the shutdown within the longest sleep.
LEMMA GraceNext ==
    ASSUME SendType, LoopInv, GraceInv, [TransportNext]_transportVars
    PROVE  GraceInv'
<1>a. attempt \in 0 .. MaxRetries + 1 /\ timer \in Nat /\ grace \in Nat
  BY DEF SendType
<1>l. LongestSleep \in Nat /\ MaxRetries \in Nat
  BY LongestSleepNat, TransportAssumption
<1>1. CASE SendRejected \/ SendBegin
  BY <1>1 DEF SendRejected, SendBegin, GraceInv
<1>2. CASE LoopHead
  <2>1. sendPc = "loop" /\ UNCHANGED <<grace, ctxDone>> /\ grace = 0
    BY <1>2 DEF LoopHead, GraceInv
  <2>2. CASE sendPc' = "sleep" /\ timer' \in sleepWithBackoff(attempt - 1) /\ attempt \in 1 .. MaxRetries
    <3>1. /\ 2^(attempt - 1) \in Nat /\ 2^(attempt - 1) <= LongestSleep
          /\ timer' \in Nat /\ timer' <= 2^(attempt - 1)
      BY <2>2, SleepTime
    <3>2. grace' + timer' <= LongestSleep
      <4>1. timer' \in Nat /\ timer' <= LongestSleep
        BY <1>l, <3>1
      <4>2. grace' \in Nat /\ grace' <= 0
        BY <2>1
      <4>3. \A g, s, l \in Nat : g <= 0 /\ s <= l => g + s <= l
        OBVIOUS
      <4> QED BY <1>l, <4>1, <4>2, <4>3, Zenon
    <3> QED BY <1>l, <2>1, <2>2, <3>2 DEF GraceInv
  <2>3. CASE sendPc' \in {"record", "check"}
    BY <1>l, <2>1, <2>3 DEF GraceInv
  <2>4. maxAttempts - 1 = MaxRetries
    BY <1>l DEF maxAttempts
  <2> QED BY <1>2, <2>2, <2>3, <2>4 DEF LoopHead
<1>3. CASE Wake
  <2>1. sendPc' = "check" /\ UNCHANGED <<grace, ctxDone>>
    BY <1>3 DEF Wake
  <2> QED BY <2>1 DEF GraceInv
<1>4. CASE CheckContext
  <2>1. UNCHANGED <<grace, ctxDone>>
    BY <1>4 DEF CheckContext
  <2>2. CASE ctxDone
    <3>1. sendPc' = "record"
      BY <1>4, <2>2 DEF CheckContext
    <3> QED BY <2>1, <3>1 DEF GraceInv
  <2>3. CASE ~ctxDone
    <3>1. sendPc' = "post"
      BY <1>4, <2>3 DEF CheckContext
    <3>2. grace = 0
      BY <2>3 DEF GraceInv
    <3> QED BY <2>1, <3>1, <3>2 DEF GraceInv
  <2> QED BY <2>2, <2>3
<1>5. ASSUME NEW err, AttemptFailed(err), sendPc \in {"post", "wait"} PROVE GraceInv'
  <2>1. UNCHANGED <<grace, ctxDone>> /\ sendPc' \in {"loop", "record"}
    BY <1>5 DEF AttemptFailed
  <2> QED BY <1>5, <2>1 DEF GraceInv
<1>6. CASE Post
  <2>1. sendPc = "post" /\ sendPc' = "wait" /\ UNCHANGED <<grace, ctxDone>>
    BY <1>6 DEF Post
  <2> QED BY <2>1 DEF GraceInv
<1>7. CASE PostCanceled \/ RequestFailed \/ ResponseRejected
  BY <1>5, <1>7 DEF PostCanceled, RequestFailed, ResponseRejected
<1>8. CASE ResponseAccepted
  <2>1. sendPc' = "record" /\ UNCHANGED <<grace, ctxDone>>
    BY <1>8 DEF ResponseAccepted
  <2> QED BY <2>1 DEF GraceInv
<1>9. CASE RecordResult
  <2>1. sendPc' = "idle" /\ grace' = 0
    BY <1>9 DEF RecordResult
  <2> QED BY <1>l, <2>1 DEF GraceInv
<1>10. CASE Cancel
  <2>1. UNCHANGED <<sendPc, timer, grace>> /\ ctxDone'
    BY <1>10 DEF Cancel, sendVars
  <2> QED BY <2>1 DEF GraceInv
<1>11. CASE TransportTick
  <2>1. UNCHANGED <<sendPc, ctxDone>>
    BY <1>11 DEF TransportTick, SendElapses
  <2>2. CASE sendPc = "idle" /\ UNCHANGED <<timer, elapsed, grace>>
    BY <2>1, <2>2 DEF GraceInv
  <2>3. CASE SendBlocked /\ (timer > 0 \/ Untimed)
             /\ timer' = (IF Untimed THEN timer ELSE timer - 1)
             /\ grace' = IF ctxDone THEN grace + 1 ELSE grace
    <3>1. CASE ctxDone
      <4>0. sendPc = "sleep" /\ ~Untimed
        BY <2>3, <3>1 DEF SendBlocked, Untimed
      <4>1. sendPc = "sleep" /\ grace' + timer' = grace + timer /\ timer' \in Nat
        BY <1>a, <2>3, <3>1, <4>0
      <4>2. grace + timer <= LongestSleep
        BY <4>1 DEF GraceInv
      <4>3. grace' <= LongestSleep
        BY <1>a, <1>l, <2>3, <3>1, <4>1, <4>2
      <4> QED BY <2>1, <3>1, <4>1, <4>2, <4>3 DEF GraceInv
    <3>2. CASE ~ctxDone
      <4>1. grace' = grace /\ (timer' = timer \/ timer' = timer - 1)
        BY <2>3, <3>2
      <4> QED BY <1>a, <1>l, <2>1, <4>1 DEF GraceInv
    <3> QED BY <3>1, <3>2
  <2> QED BY <1>11, <2>2, <2>3 DEF TransportTick, SendElapses
<1>12. CASE UNCHANGED <<sendPc, timer, grace, ctxDone>>
  BY <1>12 DEF GraceInv
<1> QED
  BY <1>1, <1>2, <1>3, <1>4, <1>6, <1>7, <1>8, <1>9, <1>10, <1>11, <1>12
     DEF TransportNext, SendStep, BackendServes, Serve, sendVars, transportVars

\* The two time invariants along every behaviour.
LEMMA TimeInvariance == TransportSpec => [](TransportTypeOK /\ DeliveryInv /\ TimedInv /\ GraceInv)
<1>1. TransportTypeOK /\ DeliveryInv /\ TimedInv /\ GraceInv /\ [TransportNext]_transportVars
         => TransportTypeOK' /\ DeliveryInv' /\ TimedInv' /\ GraceInv'
  <2> SUFFICES ASSUME TransportTypeOK, DeliveryInv, TimedInv, GraceInv,
                      [TransportNext]_transportVars
               PROVE  TransportTypeOK' /\ DeliveryInv' /\ TimedInv' /\ GraceInv'
    OBVIOUS
  <2>1. SendType /\ LoopInv
    BY DEF TransportTypeOK, DeliveryInv
  <2>2. TimedInv'
    BY <2>1, ElapsedNext DEF TimedInv
  <2> QED BY <2>1, <2>2, NextInv, GraceNext
<1>2. TransportInit => TimedInv
  BY InitTime DEF TimedInv
<1> QED
  BY InitInv, InitTime, <1>1, <1>2, PTL DEF TransportSpec

\* With a request timeout, a Send takes no longer than its attempts and the sleeps
\* between them.
THEOREM SendTimeBoundHolds == TransportSpec => []SendTimeBound
<1>1. TransportTypeOK /\ DeliveryInv /\ TimedInv => SendTimeBound
  <2> SUFFICES ASSUME SendType, LoopInv, ElapsedInv PROVE elapsed <= LongestSend
    BY DEF TransportTypeOK, DeliveryInv, TimedInv, SendTimeBound, LongestSend, Requested
  <2>a. attempt \in 0 .. MaxRetries + 1 /\ timer \in Nat /\ elapsed \in Nat
    BY DEF SendType
  <2>r. RequestTimeout \in Nat /\ MaxRetries \in Nat /\ LongestSend \in Nat
    BY AttemptTime, TransportAssumption
  <2>1. CASE sendPc \in {"idle", "record"}
    BY <2>1, <2>r DEF ElapsedInv
  <2>2. CASE sendPc \in {"sleep", "check", "post", "wait"}
    <3>1. attempt \in 0 .. MaxRetries
      BY <2>a, <2>r, <2>2 DEF LoopInv
    <3>2. BeforeAttempt(attempt) \in Nat /\ BeforeAttempt(attempt) + RequestTimeout <= LongestSend
      BY <3>1, AttemptTime
    <3>3. elapsed <= BeforeAttempt(attempt) + RequestTimeout
      BY <2>a, <2>r, <2>2, <3>2 DEF ElapsedInv
    <3> QED BY <2>a, <2>r, <3>2, <3>3
  <2>3. CASE sendPc = "loop"
    <3>1. CASE attempt = 0
      BY <2>a, <2>r, <2>3, <3>1 DEF ElapsedInv
    <3>2. CASE attempt # 0
      <4>1. attempt - 1 \in 0 .. MaxRetries /\ attempt - 1 + 1 = attempt
        BY <2>a, <2>r, <3>2
      <4>2. /\ BeforeAttempt(attempt - 1) + RequestTimeout = Requested(attempt) + 2^(attempt - 1) - 1
            /\ BeforeAttempt(attempt - 1) + RequestTimeout <= LongestSend
            /\ BeforeAttempt(attempt - 1) \in Nat
        BY <4>1, AttemptTime
      <4>3. elapsed <= Requested(attempt) + 2^(attempt - 1) - 1
        BY <2>3, <3>2 DEF ElapsedInv
      <4> QED BY <2>a, <2>r, <4>2, <4>3
    <3> QED BY <3>1, <3>2
  <2> QED BY <2>1, <2>2, <2>3 DEF SendType
<1> QED
  BY <1>1, TimeInvariance, PTL

\* A running Send delays the shutdown by no more than its longest sleep.
THEOREM ShutdownDelayBoundHolds == TransportSpec => []ShutdownDelayBound
<1>1. GraceInv => ShutdownDelayBound
  BY DEF GraceInv, ShutdownDelayBound, LongestSleep
<1> QED
  BY <1>1, TimeInvariance, PTL

------------------------------------------------------------------------------
(* Send implements the promise of SnapshotDelivery.                         *)

\* What the refinement needs besides DeliveryInv: snapshots are handled in order, and
\* no request of a locally rejected or of a future snapshot is on the wire.
OrderInv ==
    /\ \A s \in Snapshots : s > snap => outcome[s] = "none"
    /\ sendPc # "idle" => outcome[snap] = "none"
    /\ \A req \in net : req.snap <= snap /\ outcome[req.snap] \notin LocalErrors

\* The snapshots the backend holds.
StoredMap == {s \in Snapshots : ingested[s] > 0}

\* The errors of a local rejection are neither outcomes of a posted snapshot nor none.
LEMMA LocalFacts ==
    LocalErrors \cap (SendErrors \cup {"none", "sent", "nil"}) = {}
  BY DEF LocalErrors, SendErrors, NonRetryableErrors, RetryableErrors

\* Initially nothing was sent.
LEMMA InitOrder == TransportInit => OrderInv
  BY TransportAssumption DEF TransportInit, OrderInv, Snapshots

\* Every step keeps the order.
LEMMA OrderNext ==
    ASSUME TransportTypeOK, DeliveryInv, OrderInv, [TransportNext]_transportVars
    PROVE  OrderInv'
<1>t. SendType /\ ResultType /\ WireType /\ LoopInv
  BY DEF TransportTypeOK, DeliveryInv
<1>s. snap \in 0 .. MaxSends /\ MaxSends \in Nat
  BY <1>t, TransportAssumption DEF SendType
<1>q. \A req \in net : req.snap \in Snapshots
  BY <1>t DEF WireType, Requests
<1>o. outcome \in [Snapshots -> Outcomes]
  BY <1>t DEF ResultType
<1>1. CASE SendRejected
  <2>1. /\ sendPc = "idle" /\ sendPc' = "idle" /\ snap' = snap + 1 /\ UNCHANGED net
        /\ snap + 1 \in Snapshots
    BY <1>1, <1>s DEF SendRejected, wireVars, Snapshots
  <2>2. \A s \in Snapshots : s # snap + 1 => outcome'[s] = outcome[s]
    BY <1>1, <1>o DEF SendRejected
  <2>3. \A s \in Snapshots : s > snap + 1 => outcome'[s] = "none"
    BY <1>s, <2>2 DEF OrderInv, Snapshots
  <2>4. \A req \in net : req.snap <= snap + 1 /\ outcome'[req.snap] \notin LocalErrors
    <3> SUFFICES ASSUME NEW req \in net
                 PROVE  req.snap <= snap + 1 /\ outcome'[req.snap] \notin LocalErrors
      OBVIOUS
    <3>1. req.snap \in Snapshots /\ req.snap <= snap /\ outcome[req.snap] \notin LocalErrors
      BY <1>q DEF OrderInv
    <3>2. req.snap # snap + 1 /\ req.snap <= snap + 1
      BY <1>s, <3>1 DEF Snapshots
    <3> QED BY <2>2, <3>1, <3>2
  <2> QED BY <2>1, <2>3, <2>4 DEF OrderInv
<1>2. CASE SendBegin
  <2>1. /\ snap' = snap + 1 /\ UNCHANGED <<net, outcome>> /\ snap + 1 \in Snapshots
    BY <1>2, <1>s DEF SendBegin, wireVars, Snapshots
  <2>2. snap + 1 > snap /\ \A s \in Snapshots : s > snap + 1 => s > snap
    BY <1>s DEF Snapshots
  <2>3. \A req \in net : req.snap <= snap + 1
    BY <1>s, <1>q DEF OrderInv, Snapshots
  <2> QED BY <2>1, <2>2, <2>3 DEF OrderInv
<1>3. CASE Post
  <2>1. /\ UNCHANGED <<snap, outcome>> /\ sendPc = "post"
        /\ net' = net \cup {[snap |-> snap, attempt |-> attempt, key |-> IdempotencyKey(snap, attempt)]}
    BY <1>3 DEF Post
  <2>2. outcome[snap] = "none" /\ "none" \notin LocalErrors
    BY <2>1, LocalFacts DEF OrderInv
  <2>3. \A req \in net' : req \in net \/ req.snap = snap
    BY <2>1
  <2>4. \A req \in net' : req.snap <= snap /\ outcome[req.snap] \notin LocalErrors
    BY <1>s, <2>2, <2>3 DEF OrderInv
  <2> QED BY <2>1, <2>2, <2>4 DEF OrderInv
<1>4. CASE RecordResult
  <2>1. /\ sendPc = "record" /\ sendPc' = "idle" /\ UNCHANGED <<snap, net>>
        /\ snap \in Snapshots
    BY <1>4, <1>s, <1>t DEF RecordResult, wireVars, LoopInv, Snapshots
  <2>2. PICK res \in SendErrors \cup {"sent"} : outcome' = [outcome EXCEPT ![snap] = res]
    BY <1>4, <1>t DEF RecordResult, SendType
  <2>3. \A s \in Snapshots : outcome'[s] = IF s = snap THEN res ELSE outcome[s]
    BY <1>o, <2>2
  <2>4. \A s \in Snapshots : s > snap => outcome'[s] = "none"
    BY <1>s, <2>3 DEF OrderInv, Snapshots
  <2>5. \A req \in net : outcome'[req.snap] \notin LocalErrors
    BY <1>q, <2>2, <2>3, LocalFacts DEF OrderInv
  <2> QED BY <2>1, <2>4, <2>5 DEF OrderInv
<1>5. CASE BackendServes
  <2>1. UNCHANGED <<sendPc, snap, outcome>> /\ net' \subseteq net
    BY <1>5 DEF BackendServes, Serve, sendVars
  <2> QED BY <2>1 DEF OrderInv
<1>6. CASE UNCHANGED <<snap, outcome, net>> /\ (sendPc = "idle" <=> sendPc' = "idle")
  BY <1>6 DEF OrderInv
<1>7. CASE LoopHead \/ Wake \/ CheckContext
  BY <1>6, <1>7 DEF LoopHead, Wake, CheckContext, wireVars
<1>8. CASE PostCanceled \/ RequestFailed \/ ResponseRejected \/ ResponseAccepted
  BY <1>6, <1>8 DEF PostCanceled, RequestFailed, ResponseRejected, ResponseAccepted,
                    AttemptFailed
<1>9. CASE Cancel \/ TransportTick \/ UNCHANGED transportVars
  BY <1>6, <1>9 DEF Cancel, TransportTick, SendElapses, transportVars, sendVars, wireVars
<1> QED
  BY <1>1, <1>2, <1>3, <1>4, <1>5, <1>7, <1>8, <1>9 DEF TransportNext, SendStep

\* The mapped stage, read as a table: the cases of StageOf exclude each other.
LEMMA StageFacts ==
    ASSUME SendType, OrderInv, NEW s \in Snapshots
    PROVE  /\ s > snap => StageOf(s) = "pending"
           /\ s = snap /\ sendPc # "idle" => StageOf(s) = "sending"
           /\ ~(s > snap) /\ ~(s = snap /\ sendPc # "idle") =>
                 /\ outcome[s] = "sent" => StageOf(s) = "sent"
                 /\ outcome[s] \in LocalErrors => StageOf(s) = "rejected"
                 /\ outcome[s] \notin LocalErrors \cup {"sent"} => StageOf(s) = "failed"
<1>1. snap \in Nat /\ s \in Nat
  BY TransportAssumption DEF SendType, Snapshots
<1>2. s = snap => ~(s > snap)
  BY <1>1
<1>3. CASE s > snap
  <2>1. outcome[s] = "none" /\ s # snap
    BY <1>2, <1>3 DEF OrderInv
  <2> QED BY <1>3, <2>1, LocalFacts DEF StageOf
<1>4. CASE s = snap /\ sendPc # "idle"
  <2>1. outcome[s] = "none" /\ ~(s > snap)
    BY <1>2, <1>4 DEF OrderInv
  <2> QED BY <1>4, <2>1, LocalFacts DEF StageOf
<1>5. CASE ~(s > snap) /\ ~(s = snap /\ sendPc # "idle")
  BY <1>5, LocalFacts DEF StageOf
<1> QED
  BY <1>3, <1>4, <1>5

\* The abstract initial state.
LEMMA InitDelivery == TransportInit => Delivery!DeliveryInit
<1> SUFFICES ASSUME TransportInit PROVE Delivery!DeliveryInit
  OBVIOUS
<1>1. \A s \in Snapshots : StageOf(s) = "pending"
  <2>1. OrderInv /\ SendType
    BY InitOrder, InitInv DEF TransportTypeOK
  <2>2. \A s \in Snapshots : s > snap
    BY TransportAssumption DEF TransportInit, Snapshots
  <2> QED BY <2>1, <2>2, StageFacts
<1>2. \A s \in Snapshots : ~(ingested[s] > 0)
  BY DEF TransportInit
<1> QED
  BY <1>1, <1>2 DEF Delivery!DeliveryInit

\* What is stored only changes when the backend serves a request.
LEMMA StageFrame ==
    ASSUME UNCHANGED <<snap, outcome>>, sendPc = "idle" <=> sendPc' = "idle"
    PROVE  \A s \in Snapshots : StageOf(s)' = StageOf(s)
  BY DEF StageOf

\* Every step of Send, the wire and the backend is a step of the promise, or none.
LEMMA DeliveryStep ==
    ASSUME TransportTypeOK, DeliveryInv, OrderInv, OrderInv', [TransportNext]_transportVars
    PROVE  [Delivery!DeliveryNext]_(Delivery!deliveryVars)
<1>t. SendType /\ ResultType /\ WireType /\ LoopInv /\ StoreInv
  BY DEF TransportTypeOK, DeliveryInv
<1>s. snap \in 0 .. MaxSends /\ MaxSends \in Nat
  BY <1>t, TransportAssumption DEF SendType
<1>o. outcome \in [Snapshots -> Outcomes]
  BY <1>t DEF ResultType
<1>6. CASE UNCHANGED <<snap, outcome, ingested>> /\ (sendPc = "idle" <=> sendPc' = "idle")
  <2>1. \A s \in Snapshots : StageOf(s)' = StageOf(s)
    BY <1>6, StageFrame
  <2> QED BY <1>6, <2>1 DEF Delivery!deliveryVars
<1>1. CASE SendRejected \/ SendBegin
  <2>0. PICK n \in Snapshots : n = snap + 1
    BY <1>1, <1>s DEF SendRejected, SendBegin, Snapshots
  <2>1. /\ sendPc = "idle" /\ snap' = n /\ n \in Snapshots /\ UNCHANGED ingested
        /\ \A s \in Snapshots : s < n \/ s = n \/ s > n
        /\ \A s \in Snapshots : s < n <=> ~(s > snap)
    BY <1>1, <1>s, <2>0 DEF SendRejected, SendBegin, backendVars, Snapshots
  <2>2. StageOf(n) = "pending"
    BY <1>s, <1>t, <2>0, <2>1, StageFacts
  <2>3. \A s \in Snapshots : s < n => StageOf(s) \in {"sent", "rejected", "failed"}
    BY <1>t, <2>1, StageFacts
  <2>4. \A s \in Snapshots : StageOf(s) # "sending" /\ (s < n => StageOf(s) # "pending")
    BY <1>t, <2>1, <2>3, StageFacts
  <2>5. Delivery!IsNext(n)
    BY <2>1, <2>2, <2>4 DEF Delivery!IsNext
  <2>6. \A s \in Snapshots : s # n => outcome'[s] = outcome[s]
    BY <1>1, <1>o, <2>0 DEF SendRejected, SendBegin
  <2>7. \A s \in Snapshots : s # n => StageOf(s)' = StageOf(s)
    <3> SUFFICES ASSUME NEW s \in Snapshots, s # n PROVE StageOf(s)' = StageOf(s)
      OBVIOUS
    <3>1. (s > n) <=> (s > snap)
      BY <1>s, <2>0, <2>1 DEF Snapshots
    <3> QED BY <2>1, <2>6, <3>1 DEF StageOf
  <2>8. CASE SendRejected
    <3>1. sendPc' = "idle" /\ outcome'[n] \in LocalErrors
      BY <1>o, <2>0, <2>1, <2>8 DEF SendRejected
    <3>2. ~(n > n)
      BY <2>1 DEF Snapshots
    <3>3. StageOf(n)' = "rejected"
      BY <2>1, <3>1, <3>2, LocalFacts DEF StageOf
    <3>4. Delivery!Reject(n)
      BY <2>1, <2>5, <2>7, <3>3 DEF Delivery!Reject
    <3> QED BY <2>1, <3>4 DEF Delivery!DeliveryNext
  <2>9. CASE SendBegin
    <3>1. sendPc' = "loop" /\ outcome'[n] = "none"
      <4>1. n > snap
        BY <1>s, <2>0
      <4> QED BY <2>1, <2>9, <4>1 DEF SendBegin, OrderInv
    <3>2. ~(n > n)
      BY <2>1 DEF Snapshots
    <3>3. StageOf(n)' = "sending"
      BY <2>1, <3>1, <3>2, LocalFacts DEF StageOf
    <3>4. Delivery!Begin(n)
      BY <2>1, <2>5, <2>7, <3>3 DEF Delivery!Begin
    <3> QED BY <2>1, <3>4 DEF Delivery!DeliveryNext
  <2> QED BY <1>1, <2>8, <2>9
<1>2. CASE RecordResult
  <2>1. /\ sendPc = "record" /\ sendPc' = "idle" /\ UNCHANGED <<snap, ingested>>
        /\ snap \in Snapshots /\ ~(snap > snap)
    BY <1>2, <1>s, <1>t DEF RecordResult, backendVars, LoopInv, Snapshots
  <2>2. StageOf(snap) = "sending"
    BY <1>t, <2>1, StageFacts
  <2>3. \A s \in Snapshots : s # snap => outcome'[s] = outcome[s]
    BY <1>2, <1>o DEF RecordResult
  <2>4. \A s \in Snapshots : s # snap => StageOf(s)' = StageOf(s)
    BY <2>1, <2>3 DEF StageOf
  <2>5. CASE lastErr = "nil"
    <3>1. outcome'[snap] = "sent"
      BY <1>2, <1>o, <2>1, <2>5 DEF RecordResult
    <3>2. StageOf(snap)' = "sent"
      BY <2>1, <3>1, LocalFacts DEF StageOf
    <3>3. ingested[snap] > 0
      BY <1>t, <2>1, <2>5 DEF StoreInv
    <3>4. Delivery!Finish(snap)
      BY <2>1, <2>2, <2>4, <3>2, <3>3 DEF Delivery!Finish
    <3> QED BY <2>1, <3>4 DEF Delivery!DeliveryNext
  <2>6. CASE lastErr # "nil"
    <3>1. outcome'[snap] = lastErr /\ lastErr \in SendErrors
      BY <1>2, <1>o, <1>t, <2>1, <2>6 DEF RecordResult, SendType
    <3>2. lastErr # "sent" /\ lastErr \notin LocalErrors
      BY <3>1, LocalFacts, ErrorFacts
    <3>3. StageOf(snap)' = "failed"
      BY <2>1, <3>1, <3>2 DEF StageOf
    <3>4. Delivery!Finish(snap)
      BY <2>1, <2>2, <2>4, <3>3 DEF Delivery!Finish
    <3> QED BY <2>1, <3>4 DEF Delivery!DeliveryNext
  <2> QED BY <2>5, <2>6
<1>3. CASE BackendServes
  <2>1. PICK req \in net, status \in BackendStatuses, stored \in BOOLEAN :
           Serve(req, status, stored)
    BY <1>3 DEF BackendServes
  <2>2. UNCHANGED <<sendPc, snap, outcome>>
    BY <2>1 DEF Serve, sendVars
  <2>3. CASE UNCHANGED ingested
    BY <1>6, <2>2, <2>3
  <2>4. CASE ingested' = [ingested EXCEPT ![req.snap] = @ + 1]
    <3>1. req.snap \in Snapshots /\ req.snap <= snap /\ outcome[req.snap] \notin LocalErrors
      BY <1>t DEF WireType, Requests, OrderInv
    <3>2. StageOf(req.snap) \in {"sending", "sent", "failed"}
      <4>1. ~(req.snap > snap)
        BY <1>s, <3>1 DEF Snapshots
      <4> QED BY <1>t, <3>1, <4>1, StageFacts
    <3>3. \A s \in Snapshots : StageOf(s)' = StageOf(s)
      BY <2>2, StageFrame
    <3>4. \A s \in Snapshots : ingested'[s] > 0 <=> (ingested[s] > 0 \/ s = req.snap)
      BY <1>t, <2>4, <3>1 DEF WireType
    <3>5. StoredMap' = StoredMap \cup {req.snap}
      BY <3>1, <3>4 DEF StoredMap
    <3>6. Delivery!Store(req.snap)
      BY <3>1, <3>2, <3>3, <3>5 DEF Delivery!Store, StoredMap
    <3> QED BY <3>1, <3>6 DEF Delivery!DeliveryNext
  <2> QED BY <2>1, <2>3, <2>4 DEF Serve, backendVars
<1>7. CASE LoopHead \/ Wake \/ CheckContext \/ Post
  BY <1>6, <1>7 DEF LoopHead, Wake, CheckContext, Post, backendVars
<1>8. CASE PostCanceled \/ RequestFailed \/ ResponseRejected \/ ResponseAccepted
  BY <1>6, <1>8 DEF PostCanceled, RequestFailed, ResponseRejected, ResponseAccepted,
                    AttemptFailed, backendVars
<1>9. CASE Cancel \/ TransportTick \/ UNCHANGED transportVars
  BY <1>6, <1>9 DEF Cancel, TransportTick, SendElapses, transportVars, sendVars, backendVars
<1> QED
  BY <1>1, <1>2, <1>3, <1>7, <1>8, <1>9 DEF TransportNext, SendStep

\* Send, with its attempts, timeouts and late requests, implements the safety part of
\* the promise of SnapshotDelivery.
THEOREM ImplementsDeliverySafety == TransportSpec => Delivery!DeliverySafety
<1>1. TransportTypeOK /\ DeliveryInv /\ OrderInv /\ [TransportNext]_transportVars
         => TransportTypeOK' /\ DeliveryInv' /\ OrderInv'
  BY NextInv, OrderNext
<1>2. TransportTypeOK /\ DeliveryInv /\ OrderInv /\ OrderInv' /\ [TransportNext]_transportVars
         => [Delivery!DeliveryNext]_(Delivery!deliveryVars)
  BY DeliveryStep
<1> QED
  BY InitInv, InitOrder, InitDelivery, <1>1, <1>2, PTL DEF TransportSpec, Delivery!DeliverySafety

=============================================================================
