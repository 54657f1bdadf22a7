--------------------------- MODULE ErrorCollector ---------------------------
(***************************************************************************)
(* internal/errors: the map of active agent errors.  An error is keyed by  *)
(* its code and component; an entry not re-reported within defaultTTL is   *)
(* expired and is deleted by the next reader.                              *)
(*                                                                         *)
(* The code stores the instant of the last report and compares Now() with  *)
(* it; here an entry is its age, which the passing of time increments and  *)
(* which saturates one past the TTL.                                       *)
(***************************************************************************)
EXTENDS Integers

CONSTANT DefaultTTL     \* defaultTTL, in model time units

ASSUME TTLAssumption == DefaultTTL \in Nat

VARIABLE entries        \* ErrorCollector.entries: key -> age of the last report

ErrKey(code, component) == <<code, component>>

\* The two reporters of the agent: transport.Send and the wait for informer sync.
BackendUnreachable == ErrKey("BACKEND_UNREACHABLE", "transport")
InformerSyncTimeout == ErrKey("INFORMER_SYNC_TIMEOUT", "agent")
ErrKeys == {BackendUnreachable, InformerSyncTimeout}

Expired(age) == age > DefaultTTL

ErrorCollectorInit == entries = [k \in {} |-> 0]

\* Mutant: an error that is already active is not refreshed.
MutReportKeepsOld(key) ==
    entries' = [k \in DOMAIN entries \cup {key} |->
                    IF k \in DOMAIN entries THEN entries[k] ELSE 0]

Report(key) ==
    entries' = [k \in DOMAIN entries \cup {key} |-> IF k = key THEN 0 ELSE entries[k]]

\* The entries a reader returns.
ActiveErrors == {k \in DOMAIN entries : ~Expired(entries[k])}

\* GetActiveErrors deletes what it finds expired and returns ActiveErrors.
GetActiveErrors == entries' = [k \in ActiveErrors |-> entries[k]]

\* GetActiveErrorCodes returns each code once, whatever the component.
ActiveErrorCodes == {k[1] : k \in ActiveErrors}

\* One unit of time passes.
AgeEntries ==
    entries' = [k \in DOMAIN entries |->
                    IF Expired(entries[k]) THEN entries[k] ELSE entries[k] + 1]

EntriesType ==
    /\ DOMAIN entries \in SUBSET ErrKeys
    /\ \A k \in DOMAIN entries : entries[k] \in 0 .. DefaultTTL + 1
=============================================================================
