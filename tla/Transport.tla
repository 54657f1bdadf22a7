------------------------------ MODULE Transport ------------------------------
(***************************************************************************)
(* internal/transport: Client.Send, the only path by which a snapshot      *)
(* leaves the agent, with the network and the ingest backend it talks to.  *)
(*                                                                         *)
(* Send encodes the snapshot once, then posts it up to MaxRetries + 1      *)
(* times, sleeping 2^(attempt-1) seconds before each retry and checking    *)
(* the context before each attempt.  A request the client has given up on  *)
(* stays in the network: the backend may still serve it, after the retry.  *)
(*                                                                         *)
(* Time is relative: timer is what is left of the current sleep or request *)
(* timeout.  Local computation takes no time.  The network and the backend *)
(* are external and modelled from how Send uses them.                      *)
(***************************************************************************)
EXTENDS ErrorCollector, FiniteSets

CONSTANTS
    MaxSends,         \* bound: number of Send calls, the snapshots are 1 .. MaxSends
    MaxRetries,       \* config.MaxRetries
    RequestTimeout,   \* config.RequestTimeout, in model time units; 0: no timeout
    BackendStatuses   \* the HTTP statuses the backend may answer with

\* Validate demands MaxRetries >= 0 and nothing of RequestTimeout: zero, and whatever
\* is negative, is no timeout to net/http.  MaxRetries + 1 is taken not to wrap an int.
ASSUME TransportAssumption ==
    /\ MaxSends \in Nat
    /\ MaxRetries \in Nat
    /\ RequestTimeout \in Nat
    /\ BackendStatuses \subseteq 100 .. 599

\* What the powers of two of the backoffs are.
ASSUME PowerAssumption ==
    /\ 2^0 = 1
    /\ \A n \in 1 .. MaxRetries : 2^n = 2 * 2^(n - 1)

VARIABLES
    ctxDone,     \* the context main cancels on SIGTERM / SIGINT
    sendPc,      \* where Send is; "idle" outside of it
    snap,        \* number of Send calls so far; the snapshot being sent
    attempt,     \* Send's attempt
    lastErr,     \* Send's lastErr, "nil" when there is none
    timer,       \* time left of the sleep or of the request
    reply,       \* status of the response that reached the client, 0 if none
    net,         \* requests on their way to the backend
    seenKeys,    \* backend: idempotency keys already served with success
    ingested,    \* backend: how many times each snapshot was stored
    outcome,     \* what Send returned for each snapshot
    sendTotal,   \* metrics.SnapshotSendTotal by label
    lastSendStats, \* Client.lastSendStats: the snapshot whose sizes it holds, 0 if none
    elapsed,     \* history: time since the current Send began
    grace        \* history: time the current Send has run since cancellation

sendVars == <<sendPc, snap, attempt, lastErr, timer, outcome, sendTotal,
              lastSendStats, elapsed, grace>>
wireVars == <<reply, net>>
backendVars == <<seenKeys, ingested>>
transportVars == <<ctxDone, sendVars, wireVars, backendVars, entries>>

Snapshots == 1 .. MaxSends

------------------------------------------------------------------------------
(* Errors.                                                                  *)

\* The category of the error ParseResponse builds from a status other than 200.
StatusError(status) ==
    CASE status \in {401, 403} -> "authentication failed"
      [] status = 402 -> "quota exceeded"
      [] status = 404 -> "protocol mismatch"
      [] status = 410 -> "agent deprecated"
      [] status = 411 -> "length required"
      [] status = 413 -> "payload too large"
      [] status = 415 -> "unsupported encoding"
      [] status = 429 -> "rate limited"
      [] status >= 500 -> "server error"
      [] OTHER -> "unexpected status"

NonRetryableErrors ==
    {"authentication failed", "quota exceeded", "agent deprecated", "protocol mismatch",
     "unsupported encoding", "length required", "payload too large"}

\* Mutant: the text ParseResponse gives a 401 is not among the ones matched.
MutAuthIsRetryable(err) == err \in NonRetryableErrors \ {"authentication failed"}

isNonRetryableError(err) == err \in NonRetryableErrors

\* "request failed": http.Client.Do returned an error (connection, timeout or
\* cancellation); "decode": a 200 whose body is not a SnapshotResponse.
RetryableErrors ==
    {"rate limited", "server error", "unexpected status", "request failed", "decode"}

\* encodeSnapshot failed, or the compressed body is over maxCompressedBodyBytes.
LocalErrors == {"encode failed", "over size cap"}

SendErrors == NonRetryableErrors \cup RetryableErrors \cup {"context canceled"}
Outcomes == {"none", "sent"} \cup LocalErrors \cup SendErrors

Failed(s) == outcome[s] \notin {"none", "sent"}

\* Mutant: a fresh key for every attempt.
MutKeyPerAttempt(s, a) == s + MaxSends * a

\* Every attempt of one Send carries the snapshot's id as Idempotency-Key.
IdempotencyKey(s, a) == s

------------------------------------------------------------------------------
TransportInit ==
    /\ ErrorCollectorInit
    /\ ctxDone = FALSE
    /\ sendPc = "idle"
    /\ snap = 0
    /\ attempt = 0
    /\ lastErr = "nil"
    /\ timer = 0
    /\ reply = 0
    /\ net = {}
    /\ seenKeys = {}
    /\ ingested = [s \in Snapshots |-> 0]
    /\ outcome = [s \in Snapshots |-> "none"]
    /\ sendTotal = [success |-> 0, error |-> 0]
    /\ lastSendStats = 0
    /\ elapsed = 0
    /\ grace = 0

(* Send is called and the snapshot is rejected before any request: the     *)
(* error is returned at once, past neither the metrics nor the report.     *)
SendRejected ==
    /\ sendPc = "idle"
    /\ snap < MaxSends
    /\ snap' = snap + 1
    /\ \E err \in LocalErrors : outcome' = [outcome EXCEPT ![snap + 1] = err]
    /\ UNCHANGED <<ctxDone, sendPc, attempt, lastErr, timer, sendTotal, lastSendStats,
                   elapsed, grace, wireVars, backendVars, entries>>

\* Send is called and the encoded snapshot is within the cap.
SendBegin ==
    /\ sendPc = "idle"
    /\ snap < MaxSends
    /\ snap' = snap + 1
    /\ sendPc' = "loop"
    /\ attempt' = 0
    /\ lastErr' = "nil"
    /\ UNCHANGED <<ctxDone, timer, outcome, sendTotal, lastSendStats, elapsed, grace,
                   wireVars, backendVars, entries>>

maxAttempts == MaxRetries + 1

\* Mutant: the sleep before the first retry is that of the second.
MutSleepTwiceAsLong(n) == {2^(n + 1)}

\* How long the sleep may take.  From n = 34 on time.Duration(2^n) * time.Second wraps:
\* to a negative value, for which Sleep returns at once, or to one below 2^34 seconds.
sleepWithBackoff(n) == IF n < 34 THEN {2^n} ELSE 0 .. 2^34

\* The head of the retry loop, up to the start of the sleep before a retry.
LoopHead ==
    /\ sendPc = "loop"
    /\ \/ /\ attempt >= maxAttempts
          /\ sendPc' = "record"
          /\ UNCHANGED timer
       \/ /\ attempt = 0
          /\ sendPc' = "check"
          /\ UNCHANGED timer
       \/ /\ attempt \in 1 .. maxAttempts - 1
          /\ sendPc' = "sleep"
          /\ timer' \in sleepWithBackoff(attempt - 1)
    /\ UNCHANGED <<ctxDone, snap, attempt, lastErr, outcome, sendTotal, lastSendStats,
                   elapsed, grace, wireVars, backendVars, entries>>

\* time.Sleep returns; nothing else ends it.
Wake ==
    /\ sendPc = "sleep"
    /\ timer = 0
    /\ sendPc' = "check"
    /\ UNCHANGED <<ctxDone, snap, attempt, lastErr, timer, outcome, sendTotal,
                   lastSendStats, elapsed, grace, wireVars, backendVars, entries>>

\* Mutant: no look at the context before an attempt.
MutNoContextCheck ==
    /\ sendPc = "check"
    /\ sendPc' = "post"
    /\ UNCHANGED <<ctxDone, snap, attempt, lastErr, timer, outcome, sendTotal, lastSendStats,
                   elapsed, grace, wireVars, backendVars, entries>>

CheckContext ==
    /\ sendPc = "check"
    /\ IF ctxDone
          THEN sendPc' = "record" /\ lastErr' = "context canceled"
          ELSE sendPc' = "post" /\ UNCHANGED lastErr
    /\ UNCHANGED <<ctxDone, snap, attempt, timer, outcome, sendTotal, lastSendStats,
                   elapsed, grace, wireVars, backendVars, entries>>

\* Mutant: the error is kept only when it ends the loop.
MutRetryForgetsError(err) ==
    /\ lastErr' = IF isNonRetryableError(err) THEN err ELSE "nil"
    /\ reply' = 0
    /\ timer' = 0
    /\ IF isNonRetryableError(err)
          THEN sendPc' = "record" /\ UNCHANGED attempt
          ELSE sendPc' = "loop" /\ attempt' = attempt + 1
    /\ UNCHANGED <<ctxDone, snap, outcome, sendTotal, lastSendStats,
                   elapsed, grace, net, backendVars, entries>>

\* What the loop does with the error of an attempt: break, or go on to the next one.
AttemptFailed(err) ==
    /\ lastErr' = err
    /\ reply' = 0
    /\ timer' = 0
    /\ IF isNonRetryableError(err)
          THEN sendPc' = "record" /\ UNCHANGED attempt
          ELSE sendPc' = "loop" /\ attempt' = attempt + 1
    /\ UNCHANGED <<ctxDone, snap, outcome, sendTotal, lastSendStats,
                   elapsed, grace, net, backendVars, entries>>

\* doSend hands the request to net/http, which sends nothing on a canceled context.
Post ==
    /\ sendPc = "post"
    /\ ~ctxDone
    /\ sendPc' = "wait"
    /\ timer' = RequestTimeout
    /\ net' = net \cup {[snap |-> snap, attempt |-> attempt,
                         key |-> IdempotencyKey(snap, attempt)]}
    /\ UNCHANGED <<ctxDone, snap, attempt, lastErr, outcome, sendTotal, lastSendStats,
                   elapsed, grace, reply, backendVars, entries>>

PostCanceled ==
    /\ sendPc = "post"
    /\ ctxDone
    /\ AttemptFailed("request failed")

\* Do returns an error while the request is out: the connection broke, the
\* timeout fired or the context was canceled.  The request may be served later.
RequestFailed ==
    /\ sendPc = "wait"
    /\ AttemptFailed("request failed")

\* ParseResponse rejects the response: an error status, or a 200 it cannot decode.
ResponseRejected ==
    /\ sendPc = "wait"
    /\ reply # 0
    /\ AttemptFailed(IF reply = 200 THEN "decode" ELSE StatusError(reply))

ResponseAccepted ==
    /\ sendPc = "wait"
    /\ reply = 200
    /\ lastErr' = "nil"
    /\ reply' = 0
    /\ timer' = 0
    /\ sendPc' = "record"
    /\ UNCHANGED <<ctxDone, snap, attempt, outcome, sendTotal, lastSendStats,
                   elapsed, grace, net, backendVars, entries>>

\* After the loop: metrics, then the error report or the send statistics, and return.
RecordResult ==
    /\ sendPc = "record"
    /\ sendPc' = "idle"
    /\ IF lastErr # "nil"
          THEN /\ outcome' = [outcome EXCEPT ![snap] = lastErr]
               /\ sendTotal' = [sendTotal EXCEPT !.error = @ + 1]
               /\ Report(BackendUnreachable)
               /\ UNCHANGED lastSendStats
          ELSE /\ outcome' = [outcome EXCEPT ![snap] = "sent"]
               /\ sendTotal' = [sendTotal EXCEPT !.success = @ + 1]
               /\ lastSendStats' = snap
               /\ UNCHANGED entries
    /\ elapsed' = 0
    /\ grace' = 0
    /\ UNCHANGED <<ctxDone, snap, attempt, lastErr, timer, wireVars, backendVars>>

------------------------------------------------------------------------------
(* The backend and the environment.                                         *)

\* The backend stores a snapshot when it answers 200, and may have stored it when
\* it answers 5xx; a key it has already stored is not stored again.
MayStore(status) == status = 200 \/ status >= 500

Serve(req, status, stored) ==
    /\ req \in net
    /\ stored => MayStore(status)
    /\ status = 200 => stored
    /\ net' = net \ {req}
    /\ IF stored /\ req.key \notin seenKeys
          THEN /\ seenKeys' = seenKeys \cup {req.key}
               /\ ingested' = [ingested EXCEPT ![req.snap] = @ + 1]
          ELSE UNCHANGED backendVars
    /\ reply' = IF sendPc = "wait" /\ req.snap = snap /\ req.attempt = attempt
                   THEN status ELSE reply
    /\ UNCHANGED <<ctxDone, sendVars, entries>>

BackendServes ==
    \E req \in net, status \in BackendStatuses, stored \in BOOLEAN :
        Serve(req, status, stored)

\* SIGTERM or SIGINT: main's signal goroutine cancels the context, once.
Cancel ==
    /\ ~ctxDone
    /\ ctxDone' = TRUE
    /\ UNCHANGED <<sendVars, wireVars, backendVars, entries>>

\* Mutant: the request is made without the context, so only its timeout ends it.
MutRequestIgnoresContext == sendPc \in {"sleep", "wait"}

\* Send lets time pass only in a sleep or in an outstanding request; net/http gives
\* up a request whose context is canceled without waiting for its timeout.
SendBlocked == sendPc = "sleep" \/ (sendPc = "wait" /\ ~ctxDone)

\* A request without timeout has no timer, and may take any time.
Untimed == sendPc = "wait" /\ RequestTimeout = 0

SendElapses ==
    /\ \/ sendPc = "idle" /\ UNCHANGED <<timer, elapsed, grace>>
       \/ /\ SendBlocked
          /\ timer > 0 \/ Untimed
          /\ timer' = IF Untimed THEN timer ELSE timer - 1
          /\ elapsed' = elapsed + 1
          /\ grace' = IF ctxDone THEN grace + 1 ELSE grace
    /\ UNCHANGED <<ctxDone, sendPc, snap, attempt, lastErr, outcome, sendTotal,
                   lastSendStats, wireVars, backendVars>>

TransportTick == SendElapses /\ AgeEntries

\* The steps of a Send in progress, after it was called.
SendStep ==
    \/ LoopHead
    \/ Wake
    \/ CheckContext
    \/ Post
    \/ PostCanceled
    \/ RequestFailed
    \/ ResponseRejected
    \/ ResponseAccepted
    \/ RecordResult

TransportNext ==
    \/ SendRejected
    \/ SendBegin
    \/ SendStep
    \/ BackendServes
    \/ Cancel
    \/ TransportTick

\* The agent's goroutine keeps running and the clock keeps advancing; nothing is
\* assumed of the backend or of the network, so that a request without timeout may
\* stay open until the context is canceled.
SendDue == Untimed => reply # 0 \/ ctxDone

TransportSpec ==
    /\ TransportInit
    /\ [][TransportNext]_transportVars
    /\ WF_transportVars(SendStep /\ SendDue)
    /\ WF_transportVars(TransportTick)

------------------------------------------------------------------------------
(* Properties.                                                              *)

Requests ==
    [snap : Snapshots, attempt : 0 .. MaxRetries, key : Nat]

SendType ==
    /\ ctxDone \in BOOLEAN
    /\ sendPc \in {"idle", "loop", "sleep", "check", "post", "wait", "record"}
    /\ snap \in 0 .. MaxSends
    /\ attempt \in 0 .. MaxRetries + 1
    /\ lastErr \in SendErrors \cup {"nil"}
    /\ timer \in Nat
    /\ elapsed \in Nat
    /\ grace \in Nat

ResultType ==
    /\ outcome \in [Snapshots -> Outcomes]
    /\ sendTotal \in [success : Nat, error : Nat]
    /\ lastSendStats \in 0 .. MaxSends

WireType ==
    /\ reply \in BackendStatuses \cup {0}
    /\ net \subseteq Requests
    /\ seenKeys \subseteq Nat
    /\ ingested \in [Snapshots -> Nat]

\* Type invariant of Send, the wire and the backend.
TransportTypeOK == EntriesType /\ SendType /\ ResultType /\ WireType

\* A Send that returned without an error stored its snapshot at the backend, and
\* no snapshot is stored twice, however many attempts and late requests there were
\* (the retry loop, and Idempotency-Key being the same on every attempt).
StoredExactlyOnce ==
    \A s \in Snapshots :
        /\ outcome[s] = "sent" => ingested[s] = 1
        /\ ingested[s] <= 1

\* The retry loop: a response is only kept while its request is awaited, no request
\* is made beyond the last attempt, and a retry remembers the error it is due to,
\* which is one that is worth a retry.
LoopInv ==
    /\ sendPc # "idle" => snap > 0
    /\ sendPc # "wait" => reply = 0
    /\ sendPc \in {"loop", "sleep", "check", "post", "wait"} =>
          /\ lastErr \in RetryableErrors \cup {"nil"}
          /\ attempt > 0 => lastErr # "nil"
    /\ sendPc \in {"sleep", "check", "post", "wait"} => attempt <= MaxRetries

\* The backend: a request's key is its snapshot's id, so a key that was stored counts
\* its snapshot once; a reply of 200, and a loop left without error, are evidence
\* that the current snapshot is stored.
StoreInv ==
    /\ \A req \in net : req.key = req.snap
    /\ \A s \in Snapshots : ingested[s] = IF s \in seenKeys THEN 1 ELSE 0
    /\ \A s \in Snapshots : outcome[s] = "sent" => s \in seenKeys
    /\ reply = 200 => snap \in seenKeys
    /\ sendPc = "record" /\ lastErr = "nil" => snap \in seenKeys

\* The inductive strengthening of StoredExactlyOnce: the loop can only run out of
\* attempts with an error, so Send ends without one only after a stored reply.
DeliveryInv == LoopInv /\ StoreInv

\* With a request timeout, Send never takes longer than its attempts and its sleeps:
\* MaxRetries + 1 request timeouts and the sleeps 1 + 2 + ... + 2^(MaxRetries-1).
SendTimeBound ==
    RequestTimeout > 0 => elapsed <= (MaxRetries + 1) * RequestTimeout + 2^MaxRetries - 1

\* After SIGTERM a running Send delays shutdown by at most the longest sleep: the
\* sleep cannot be interrupted, but the context is checked right after it.
ShutdownDelayBound ==
    grace <= IF MaxRetries = 0 THEN 0 ELSE 2^(MaxRetries - 1)

\* The statuses "where retry would fail identically (auth, quota, protocol, size)".
RefusalStatuses == {401, 402, 403, 404, 410, 411, 413, 415}
Refusals == {StatusError(status) : status \in RefusalStatuses}

\* A refusal ends the Send: no further request for that snapshot leaves, which takes
\* isNonRetryableError to recognise the texts ParseResponse writes, and no request
\* leaves once the context is canceled.
NoRequestAfterRefusal ==
    [][\A req \in net' \ net : lastErr \notin Refusals /\ ~ctxDone]_transportVars

------------------------------------------------------------------------------
(* Refinement: what the caller and the backend know of each snapshot.       *)

StageOf(s) ==
    CASE s > snap -> "pending"
      [] s = snap /\ sendPc # "idle" -> "sending"
      [] outcome[s] = "sent" -> "sent"
      [] outcome[s] \in LocalErrors -> "rejected"
      [] OTHER -> "failed"

Delivery == INSTANCE SnapshotDelivery
    WITH stage <- [s \in Snapshots |-> StageOf(s)],
         stored <- {s \in Snapshots : ingested[s] > 0}

\* Send, with its attempts, timeouts and late requests, implements the promise of
\* SnapshotDelivery: in order, one at a time, sent implies stored, every Send ends.
ImplementsDelivery == Delivery!DeliverySpec
=============================================================================
