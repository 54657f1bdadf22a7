---------------------------- MODULE StateMachine ----------------------------
(***************************************************************************)
(* internal/agent/state.go: the agent's lifecycle state.  Every method     *)
(* holds the mutex for its whole body, so each is one step.  The code      *)
(* stores backoffUntil; here backoffLeft is what is left of it, -1 once    *)
(* Now() is strictly after it (and before any backoff was set).            *)
(***************************************************************************)
EXTENDS Integers

CONSTANTS
    QuotaBackoff,   \* the 5 minutes of HTTP 402 without Retry-After, in model units
    RateBackoff     \* the 30 seconds of HTTP 429 without Retry-After

ASSUME BackoffAssumption == QuotaBackoff \in Nat /\ RateBackoff \in Nat

VARIABLES smState, smReason, backoffLeft

smVars == <<smState, smReason, backoffLeft>>

AgentStates == {"starting", "running", "backoff", "stopped", "exiting"}
TerminalStates == {"stopped", "exiting"}

StateMachineInit ==
    /\ smState = "starting"
    /\ smReason = ""
    /\ backoffLeft = -1

TransitionTo(state, reason) ==
    /\ smState' = state
    /\ smReason' = reason
    /\ UNCHANGED backoffLeft

EnterBackoff(reason, retryAfter, default) ==
    /\ smState' = "backoff"
    /\ smReason' = reason
    /\ backoffLeft' = IF retryAfter = 0 THEN default ELSE retryAfter

(* A 410 also calls cancelFunc, which Agent.Run sets to a function that     *)
(* does nothing.  Other statuses change nothing.                            *)
HandleHTTPStatus(status, retryAfter) ==
    \/ status = 200 /\ TransitionTo("running", "")
    \/ status \in {401, 403} /\ TransitionTo("stopped", "authentication failed")
    \/ status = 402 /\ EnterBackoff("quota exceeded", retryAfter, QuotaBackoff)
    \/ status = 410 /\ TransitionTo("exiting", "agent deprecated")
    \/ status = 429 /\ EnterBackoff("rate limited", retryAfter, RateBackoff)
    \/ status >= 500 /\ TransitionTo(smState, "server error")

\* Mutant: the comparison of Now() with backoffUntil is inverted.
MutBackoffInverted == backoffLeft >= 0

IsBackoffExpired == backoffLeft < 0

\* One unit of time passes.
BackoffElapses ==
    /\ backoffLeft' = IF backoffLeft < 0 THEN backoffLeft ELSE backoffLeft - 1
    /\ UNCHANGED <<smState, smReason>>

\* The reasons the state machine and Run give.
Reasons ==
    {"", "informers synced", "backoff expired", "authentication failed", "quota exceeded",
     "agent deprecated", "rate limited", "server error"}

StateMachineType ==
    /\ smState \in AgentStates
    /\ smReason \in Reasons
    /\ backoffLeft \in Int /\ backoffLeft >= -1
=============================================================================
