----------------------------- MODULE WasmRunner -----------------------------
(***************************************************************************)
(* The browser runner: runFeff starts a dedicated worker for each          *)
(* calculation and returns a promise.                                      *)
(*                                                                         *)
(* The page is one thread: the handlers of messages, of worker errors and  *)
(* of the abort signal run to their ends, but onLog, the caller's own, may *)
(* abort the signal or throw.  The workers run beside it.  A worker's      *)
(* messages arrive in order; terminating it throws away what has not       *)
(* arrived, but for an error event that is on its way already.             *)
(*                                                                         *)
(* The first of resolve and reject settles a promise, the others do        *)
(* nothing.  Several calculations may share one signal.                    *)
(***************************************************************************)
EXTENDS Naturals, Sequences

CONSTANTS
    Calls,      \* the calls of runFeff
    Signalled,  \* those given the signal
    MaxLogs     \* pieces of output of one calculation

ASSUME RunnerAssumption == Signalled \subseteq Calls /\ MaxLogs \in Nat

VARIABLES
    aborted,    \* the signal is aborted
    promise,    \* of each call: "none", "pending", "resolved" or "rejected"
    worker,     \* "none", "new", "running", "done" or "dead"
    listener,   \* the abort listener is registered
    outbox,     \* messages of the worker that have not arrived
    fault,      \* an error event is on its way
    logs,       \* pieces of output the calculation has written
    heard       \* pieces onLog was called with

vars == <<aborted, promise, worker, listener, outbox, fault, logs, heard>>

Init ==
    /\ aborted = FALSE
    /\ promise = [c \in Calls |-> "none"]
    /\ worker = [c \in Calls |-> "none"]
    /\ listener = [c \in Calls |-> FALSE]
    /\ outbox = [c \in Calls |-> << >>]
    /\ fault = [c \in Calls |-> FALSE]
    /\ logs = [c \in Calls |-> 0]
    /\ heard = [c \in Calls |-> 0]

-----------------------------------------------------------------------------
(* The page. *)

WorkersWithout_Running(closed) ==
    [c \in Calls |-> IF c \in closed /\ worker[c] # "running" THEN "dead" ELSE worker[c]]

\* worker.terminate()
WorkersWithout(closed) ==
    [c \in Calls |-> IF c \in closed THEN "dead" ELSE worker[c]]

\* cleanup, for each of some calls.
Cleanup(closed) ==
    /\ worker' = WorkersWithout(closed)
    /\ listener' = [c \in Calls |-> c \notin closed /\ listener[c]]
    /\ outbox' = [c \in Calls |-> IF c \in closed THEN << >> ELSE outbox[c]]

\* resolve or reject, for each of some calls.
Settle(settled, as) ==
    promise' = [c \in Calls |-> IF c \in settled /\ promise[c] = "pending" THEN as
                                ELSE promise[c]]

Listening == {c \in Calls : listener[c]}

\* runFeff with an aborted signal: no worker.
CallAborted(c) ==
    /\ promise[c] = "none"
    /\ c \in Signalled /\ aborted
    /\ promise' = [promise EXCEPT ![c] = "rejected"]
    /\ UNCHANGED <<aborted, worker, listener, outbox, fault, logs, heard>>

\* runFeff: worker, listener, handlers, and the message to the worker.
Call(c) ==
    /\ promise[c] = "none"
    /\ ~(c \in Signalled /\ aborted)
    /\ promise' = [promise EXCEPT ![c] = "pending"]
    /\ worker' = [worker EXCEPT ![c] = "new"]
    /\ listener' = [listener EXCEPT ![c] = c \in Signalled]
    /\ UNCHANGED <<aborted, outbox, fault, logs, heard>>

\* There can be no worker, or it cannot be sent the files: the promise is
\* rejected and nothing stays behind.
CallFails(c) ==
    /\ promise[c] = "none"
    /\ ~(c \in Signalled /\ aborted)
    /\ promise' = [promise EXCEPT ![c] = "rejected"]
    /\ worker' \in {worker, [worker EXCEPT ![c] = "dead"]}
    /\ UNCHANGED <<aborted, listener, outbox, fault, logs, heard>>

\* The signal is aborted by the caller, its listeners run.
Abort ==
    /\ ~aborted
    /\ aborted' = TRUE
    /\ Cleanup(Listening)
    /\ Settle(Listening, "rejected")
    /\ UNCHANGED <<fault, logs, heard>>

\* A log arrives; onLog may abort the signal, and it may throw.
DeliverLog(c) ==
    /\ outbox[c] # << >>
    /\ Head(outbox[c]) = "log"
    /\ heard' = [heard EXCEPT ![c] = @ + 1]
    /\ \E aborts \in {aborted, TRUE}, throws \in BOOLEAN :
        LET closed == (IF throws THEN {c} ELSE {})
                      \cup (IF aborts # aborted THEN Listening ELSE {})
        IN  /\ aborted' = aborts
            /\ worker' = WorkersWithout(closed)
            /\ listener' = [d \in Calls |-> d \notin closed /\ listener[d]]
            /\ outbox' = [d \in Calls |-> IF d \in closed THEN << >>
                                          ELSE IF d = c THEN Tail(outbox[c])
                                          ELSE outbox[d]]
            /\ Settle(closed, "rejected")
    /\ UNCHANGED <<fault, logs>>

Outcome_Raw(message) == message

Outcome(message) == IF message = "result" THEN "resolved" ELSE "rejected"

\* A result or an error message arrives.
DeliverLast(c) ==
    /\ outbox[c] # << >>
    /\ Head(outbox[c]) \in {"result", "error"}
    /\ Cleanup({c})
    /\ Settle({c}, Outcome(Head(outbox[c])))
    /\ UNCHANGED <<aborted, fault, logs, heard>>

\* An error event arrives, perhaps after the worker was terminated.
DeliverFault(c) ==
    /\ fault[c]
    /\ fault' = [fault EXCEPT ![c] = FALSE]
    /\ Cleanup({c})
    /\ Settle({c}, "rejected")
    /\ UNCHANGED <<aborted, logs, heard>>

-----------------------------------------------------------------------------
(* The workers. *)

Posted_ResultsOnly(c, message) ==
    IF message = "log" THEN outbox[c] ELSE Append(outbox[c], message)

\* postMessage in the worker.
Posted(c, message) == Append(outbox[c], message)

Complaint_Swallowed(c) == outbox[c]

\* What the worker posts when it catches an error.
Complaint(c) == Append(outbox[c], "error")

\* The program is fetched, compiled and started on files of its own.
Load(c) ==
    /\ worker[c] = "new"
    /\ worker' = [worker EXCEPT ![c] = "running"]
    /\ UNCHANGED <<aborted, promise, listener, outbox, fault, logs, heard>>

Write(c) ==
    /\ worker[c] = "running"
    /\ logs[c] < MaxLogs
    /\ logs' = [logs EXCEPT ![c] = @ + 1]
    /\ outbox' = [outbox EXCEPT ![c] = Posted(c, "log")]
    /\ UNCHANGED <<aborted, promise, worker, listener, fault, heard>>

\* The program ends, with any exit code, and its report can be read.
Finish(c) ==
    /\ worker[c] = "running"
    /\ worker' = [worker EXCEPT ![c] = "done"]
    /\ outbox' = [outbox EXCEPT ![c] = Posted(c, "result")]
    /\ UNCHANGED <<aborted, promise, listener, fault, logs, heard>>

\* The fetch, a file name, the program or its report is at fault.
Fail(c) ==
    /\ worker[c] \in {"new", "running"}
    /\ worker' = [worker EXCEPT ![c] = "done"]
    /\ outbox' = [outbox EXCEPT ![c] = Complaint(c)]
    /\ UNCHANGED <<aborted, promise, listener, fault, logs, heard>>

\* The worker's own script cannot be loaded.
Crash(c) ==
    /\ worker[c] = "new"
    /\ worker' = [worker EXCEPT ![c] = "done"]
    /\ fault' = [fault EXCEPT ![c] = TRUE]
    /\ UNCHANGED <<aborted, promise, listener, outbox, logs, heard>>

PageTask(c) == DeliverLog(c) \/ DeliverLast(c) \/ DeliverFault(c)

WorkerStep(c) == Load(c) \/ Write(c) \/ Finish(c) \/ Fail(c) \/ Crash(c)

Next ==
    \/ Abort
    \/ \E c \in Calls :
        \/ CallAborted(c) \/ Call(c) \/ CallFails(c)
        \/ PageTask(c)
        \/ WorkerStep(c)

Spec == Init /\ [][Next]_vars

\* The page's event loop turns, programs end: whatever is on its way arrives.
Fairness == \A c \in Calls : WF_vars(PageTask(c)) /\ WF_vars(WorkerStep(c))

FairSpec == Spec /\ Fairness

-----------------------------------------------------------------------------
(* Properties. *)

TypeOK ==
    /\ aborted \in BOOLEAN
    /\ promise \in [Calls -> {"none", "pending", "resolved", "rejected"}]
    /\ worker \in [Calls -> {"none", "new", "running", "done", "dead"}]
    /\ listener \in [Calls -> BOOLEAN]
    /\ outbox \in [Calls -> Seq({"log", "result", "error"})]
    /\ fault \in [Calls -> BOOLEAN]
    /\ logs \in [Calls -> 0 .. MaxLogs]
    /\ heard \in [Calls -> Nat]

\* A promise that is settled, by whichever of messages, errors, the signal and
\* a throwing onLog came first, has left no worker, no listener and no message
\* that onLog could still be called with; and no calculation outlives the
\* abort of its signal.
SettledIsClean ==
    \A c \in Calls :
        /\ promise[c] \in {"resolved", "rejected"} =>
            /\ worker[c] \in {"none", "dead"}
            /\ ~listener[c]
            /\ outbox[c] = << >>
        /\ aborted /\ c \in Signalled => promise[c] # "pending"

\* The caller of a promise that resolves has heard all output before.
HeardBeforeResult ==
    \A c \in Calls : promise[c] = "resolved" => heard[c] = logs[c]

\* Every promise is settled.
EveryCallSettles ==
    \A c \in Calls : promise[c] = "pending" ~> promise[c] \in {"resolved", "rejected"}
=============================================================================
