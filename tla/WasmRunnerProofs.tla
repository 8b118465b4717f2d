--------------------------- MODULE WasmRunnerProofs ---------------------------
(***************************************************************************)
(* Theorems about the browser runner, for any number of calculations under *)
(* one signal and any amount of output.                                    *)
(*                                                                         *)
(* The inductive invariant says of each call where its worker, its         *)
(* listener and its messages are: while the promise is pending, what the   *)
(* worker has written is what onLog has heard and what is in the queue,    *)
(* and only the last message of the queue can end the call.                *)
(***************************************************************************)
EXTENDS WasmRunner, SequenceTheorems, TLAPS

Messages == {"log", "result", "error"}
Settled == {"resolved", "rejected"}

\* Only the last message of a queue ends the call.
OneLast(q) == \A i \in 1 .. Len(q) - 1 : q[i] = "log"

\* The worker has posted how the call ends.
Ended(q) == q # << >> /\ q[Len(q)] # "log"

\* The pieces of output in a queue.
LogsIn(q) == IF Ended(q) THEN Len(q) - 1 ELSE Len(q)

\* A call that has not been made has left nothing.
Fresh(c) ==
    promise[c] = "none" =>
        /\ worker[c] = "none"
        /\ ~listener[c]
        /\ ~fault[c]
        /\ outbox[c] = << >>
        /\ logs[c] = 0
        /\ heard[c] = 0

\* While its promise is pending, a call has a worker, a listener exactly when
\* it was given the signal, and its output is in order.
Pending(c) ==
    promise[c] = "pending" =>
        /\ worker[c] \in {"new", "running", "done"}
        /\ listener[c] <=> c \in Signalled
        /\ c \in Signalled => ~aborted
        /\ OneLast(outbox[c])
        /\ worker[c] # "done" => ~Ended(outbox[c])
        /\ heard[c] + LogsIn(outbox[c]) = logs[c]

\* A settled call has left nothing, and heard all if it succeeded.
Closed(c) ==
    promise[c] \in Settled =>
        /\ worker[c] \in {"none", "dead"}
        /\ ~listener[c]
        /\ outbox[c] = << >>
        /\ promise[c] = "resolved" => heard[c] = logs[c]

CallInv(c) == Fresh(c) /\ Pending(c) /\ Closed(c)

RunnerInv == TypeOK /\ \A c \in Calls : CallInv(c)

-----------------------------------------------------------------------------
(* Queues. *)

\* A piece of output appended to a queue that has not ended counts once.
LEMMA PostLog ==
    ASSUME NEW q \in Seq(Messages), OneLast(q), ~Ended(q)
    PROVE  LET r == Append(q, "log") IN
           r \in Seq(Messages) /\ OneLast(r) /\ ~Ended(r) /\ LogsIn(r) = LogsIn(q) + 1
<1> DEFINE r == Append(q, "log")
<1>1. r \in Seq(Messages) /\ Len(r) = Len(q) + 1 /\ r[Len(r)] = "log"
    BY DEF Messages
<1>2. ASSUME NEW i \in 1 .. Len(r) - 1
      PROVE  r[i] = "log"
    <2>1. i \in 1 .. Len(q) /\ r[i] = q[i]
        BY <1>1
    <2>2. CASE i = Len(q)
        BY <2>1, <2>2 DEF Ended
    <2>3. CASE i # Len(q)
        BY <2>1, <2>3 DEF OneLast
    <2> QED
        BY <2>2, <2>3
<1>3. ~Ended(r)
    BY <1>1 DEF Ended
<1> QED
    BY <1>1, <1>2, <1>3 DEF OneLast, LogsIn

\* A last message appended to a queue that has not ended counts for nothing.
LEMMA PostLast ==
    ASSUME NEW q \in Seq(Messages), OneLast(q), ~Ended(q),
           NEW m \in Messages \ {"log"}
    PROVE  LET r == Append(q, m) IN
           r \in Seq(Messages) /\ OneLast(r) /\ Ended(r) /\ LogsIn(r) = LogsIn(q)
<1> DEFINE r == Append(q, m)
<1>1. r \in Seq(Messages) /\ Len(r) = Len(q) + 1 /\ r[Len(r)] = m
    OBVIOUS
<1>2. ASSUME NEW i \in 1 .. Len(r) - 1
      PROVE  r[i] = "log"
    <2>1. i \in 1 .. Len(q) /\ r[i] = q[i]
        BY <1>1
    <2>2. CASE i = Len(q)
        BY <2>1, <2>2 DEF Ended
    <2>3. CASE i # Len(q)
        BY <2>1, <2>3 DEF OneLast
    <2> QED
        BY <2>2, <2>3
<1>3. r # << >> /\ Ended(r)
    BY <1>1 DEF Ended
<1> QED
    BY <1>1, <1>2, <1>3 DEF OneLast, LogsIn

\* Taking a piece of output from the head of a queue takes one.
LEMMA TakeLog ==
    ASSUME NEW q \in Seq(Messages), q # << >>, Head(q) = "log", OneLast(q)
    PROVE  LET r == Tail(q) IN
           r \in Seq(Messages) /\ OneLast(r) /\ (Ended(r) <=> Ended(q))
           /\ LogsIn(q) = LogsIn(r) + 1
<1> DEFINE r == Tail(q)
<1>1. r \in Seq(Messages) /\ Len(r) = Len(q) - 1 /\ Len(q) \in Nat \ {0}
      /\ q[1] = "log" /\ \A i \in 1 .. Len(r) : r[i] = q[i + 1]
    BY HeadTailProperties, EmptySeq
<1> HIDE DEF r
<1>2. OneLast(r)
    BY <1>1 DEF OneLast
<1>3. CASE Len(q) = 1
    <2>1. r = << >> /\ q[Len(q)] = "log"
        BY <1>1, <1>3, EmptySeq
    <2> QED
        BY <2>1, <1>1, <1>2, <1>3 DEF Ended, LogsIn, r
<1>4. CASE Len(q) # 1
    <2>1. Len(r) \in 1 .. Len(r) /\ Len(r) + 1 = Len(q)
        BY <1>1, <1>4
    <2>2. r # << >> /\ r[Len(r)] = q[Len(q)]
        BY <2>1, <1>1, EmptySeq
    <2> QED
        BY <2>2, <1>1, <1>2, <1>4 DEF Ended, LogsIn, r
<1> QED
    BY <1>3, <1>4

\* When the last message is at the head of the queue, no output is behind it.
LEMMA LastIsAlone ==
    ASSUME NEW q \in Seq(Messages), q # << >>, Head(q) # "log", OneLast(q)
    PROVE  LogsIn(q) = 0
<1>1. Len(q) \in Nat \ {0} /\ Head(q) = q[1]
    OBVIOUS
<1>2. ASSUME Len(q) # 1
      PROVE  FALSE
    <2> DEFINE n == Len(q)
    <2>0. n \in Nat \ {0} /\ n # 1
        BY <1>1, <1>2
    <2> HIDE DEF n
    <2>1. 1 \in 1 .. n - 1
        BY <2>0
    <2> QED
        BY <2>1, <1>1 DEF OneLast, n
<1> QED
    BY <1>1, <1>2 DEF LogsIn, Ended

-----------------------------------------------------------------------------
(* What a step can do to one call. *)

\* What the state of a call is: one of three kinds.
LEMMA PromiseCases ==
    ASSUME TypeOK, NEW c \in Calls
    PROVE  promise[c] = "none" \/ promise[c] = "pending" \/ promise[c] \in Settled
BY DEF TypeOK, Settled

\* A call with a listener or a message is pending, one with a fault was made.
LEMMA TracesOfPending ==
    ASSUME TypeOK, NEW c \in Calls, CallInv(c)
    PROVE  /\ listener[c] => promise[c] = "pending"
           /\ outbox[c] # << >> => promise[c] = "pending"
           /\ fault[c] => promise[c] # "none"
           /\ worker[c] \in {"new", "running"} => promise[c] = "pending"
<1>1. CASE promise[c] = "none"
    BY <1>1 DEF CallInv, Fresh
<1>2. CASE promise[c] = "pending"
    BY <1>2
<1>3. CASE promise[c] \in Settled
    BY <1>3 DEF CallInv, Closed, Settled
<1> QED
    BY <1>1, <1>2, <1>3, PromiseCases

\* A step that does not touch a call keeps its invariant.
LEMMA Untouched ==
    ASSUME NEW d \in Calls, CallInv(d),
           promise'[d] = promise[d], worker'[d] = worker[d],
           listener'[d] = listener[d], outbox'[d] = outbox[d],
           fault'[d] = fault[d], logs'[d] = logs[d], heard'[d] = heard[d],
           promise[d] = "pending" /\ d \in Signalled => aborted' = aborted
    PROVE  CallInv(d)'
BY DEF CallInv, Fresh, Pending, Closed

\* Cleanup, with a rejection, is the end of a call that was made.
LEMMA Shut ==
    ASSUME NEW d \in Calls, CallInv(d), promise[d] = "pending" \/ promise[d] \in Settled,
           promise'[d] = IF promise[d] = "pending" THEN "rejected" ELSE promise[d],
           worker'[d] = "dead", listener'[d] = FALSE, outbox'[d] = << >>,
           logs'[d] = logs[d], promise[d] = "pending" \/ heard'[d] = heard[d]
    PROVE  CallInv(d)'
<1>1. promise'[d] \in Settled
    BY DEF Settled
<1>2. promise'[d] = "resolved" => heard'[d] = logs'[d]
    BY DEF CallInv, Closed, Settled
<1>3. promise'[d] # "none" /\ promise'[d] # "pending"
    BY <1>1 DEF Settled
<1> QED
    BY <1>1, <1>2, <1>3 DEF CallInv, Fresh, Pending, Closed

-----------------------------------------------------------------------------
(* The steps. *)

\* runFeff in its three outcomes.
LEMMA CallStep ==
    ASSUME RunnerInv, NEW c \in Calls, CallAborted(c) \/ Call(c) \/ CallFails(c)
    PROVE  RunnerInv'
<1> USE DEF RunnerInv
<1>1. /\ worker[c] = "none" /\ ~listener[c] /\ ~fault[c] /\ outbox[c] = << >>
      /\ logs[c] = 0 /\ heard[c] = 0
    BY DEF CallInv, Fresh, CallAborted, Call, CallFails
<1>2. CASE CallAborted(c)
    <2>1. TypeOK'
        BY <1>2 DEF TypeOK, CallAborted
    <2>2. CallInv(c)'
        BY <1>1, <1>2 DEF CallAborted, CallInv, Fresh, Pending, Closed, Settled, TypeOK
    <2>3. ASSUME NEW d \in Calls, d # c
          PROVE  CallInv(d)'
        BY <1>2, <2>3, Untouched DEF CallAborted, TypeOK
    <2> QED
        BY <2>1, <2>2, <2>3
<1>3. CASE Call(c)
    <2>1. TypeOK'
        BY <1>3 DEF TypeOK, Call
    <2>2. /\ promise'[c] = "pending" /\ worker'[c] = "new"
          /\ listener'[c] = (c \in Signalled)
          /\ c \in Signalled => ~aborted'
        BY <1>3 DEF Call, TypeOK
    <2>3. OneLast(outbox'[c]) /\ ~Ended(outbox'[c]) /\ LogsIn(outbox'[c]) = 0
          /\ heard'[c] = 0 /\ logs'[c] = 0
        BY <1>1, <1>3 DEF Call, OneLast, Ended, LogsIn
    <2>4. CallInv(c)'
        <3>1. heard'[c] + LogsIn(outbox'[c]) = logs'[c]
            BY <2>3
        <3>2. Pending(c)'
            BY <2>2, <2>3, <3>1 DEF Pending
        <3>3. Fresh(c)' /\ Closed(c)'
            BY <2>2 DEF Fresh, Closed, Settled
        <3> QED
            BY <3>2, <3>3 DEF CallInv
    <2>5. ASSUME NEW d \in Calls, d # c
          PROVE  CallInv(d)'
        BY <1>3, <2>5, Untouched DEF Call, TypeOK
    <2> QED
        BY <2>1, <2>4, <2>5
<1>4. CASE CallFails(c)
    <2>1. TypeOK'
        BY <1>4 DEF TypeOK, CallFails
    <2>2. promise'[c] = "rejected" /\ worker'[c] \in {"none", "dead"}
        BY <1>1, <1>4 DEF CallFails, TypeOK
    <2>3. CallInv(c)'
        BY <1>1, <1>4, <2>2 DEF CallFails, CallInv, Fresh, Pending, Closed, Settled
    <2>4. ASSUME NEW d \in Calls, d # c
          PROVE  CallInv(d)'
        BY <1>4, <2>4, Untouched DEF CallFails, TypeOK
    <2> QED
        BY <2>1, <2>3, <2>4
<1> QED
    BY <1>2, <1>3, <1>4

\* The abort of the signal ends every call that listens to it.
LEMMA AbortStep ==
    ASSUME RunnerInv, Abort
    PROVE  RunnerInv'
<1> USE DEF RunnerInv
<1>1. TypeOK'
    BY EmptySeq DEF TypeOK, Abort, Cleanup, WorkersWithout, Settle, Messages
<1>2. ASSUME NEW d \in Calls
      PROVE  CallInv(d)'
    <2>1. CASE d \in Listening
        <3>1. promise[d] = "pending"
            BY <2>1, TracesOfPending DEF Listening
        <3> QED
            BY <2>1, <3>1, Shut DEF Abort, Cleanup, WorkersWithout, Settle, TypeOK
    <2>2. CASE d \notin Listening
        <3>1. ~(promise[d] = "pending" /\ d \in Signalled)
            BY <2>2 DEF Listening, CallInv, Pending
        <3>2. listener'[d] = listener[d]
            BY <2>2 DEF Abort, Cleanup, TypeOK
        <3> QED
            BY <2>2, <3>1, <3>2, Untouched DEF Abort, Cleanup, WorkersWithout, Settle, TypeOK
    <2> QED
        BY <2>1, <2>2
<1> QED
    BY <1>1, <1>2

\* A piece of output arrives, and onLog may abort or throw.
LEMMA LogStep ==
    ASSUME RunnerInv, NEW c \in Calls, DeliverLog(c)
    PROVE  RunnerInv'
<1> USE DEF RunnerInv
<1>1. PICK aborts \in {aborted, TRUE}, throws \in BOOLEAN :
        LET closed == (IF throws THEN {c} ELSE {})
                      \cup (IF aborts # aborted THEN Listening ELSE {})
        IN  /\ aborted' = aborts
            /\ worker' = WorkersWithout(closed)
            /\ listener' = [d \in Calls |-> d \notin closed /\ listener[d]]
            /\ outbox' = [d \in Calls |-> IF d \in closed THEN << >>
                                          ELSE IF d = c THEN Tail(outbox[c])
                                          ELSE outbox[d]]
            /\ Settle(closed, "rejected")
    BY DEF DeliverLog
<1> DEFINE closed == (IF throws THEN {c} ELSE {})
                     \cup (IF aborts # aborted THEN Listening ELSE {})
<1>2. /\ promise[c] = "pending" /\ outbox[c] \in Seq(Messages)
      /\ outbox[c] # << >> /\ Head(outbox[c]) = "log"
    BY TracesOfPending DEF DeliverLog, TypeOK, Messages
<1>3. heard' = [heard EXCEPT ![c] = heard[c] + 1] /\ fault' = fault /\ logs' = logs
    BY DEF DeliverLog
<1>4. closed \subseteq Listening \cup {c}
    OBVIOUS
<1>5. aborts # aborted => Listening \subseteq closed
    OBVIOUS
<1>6. /\ aborted' = aborts
      /\ \A d \in Calls :
            /\ worker'[d] = IF d \in closed THEN "dead" ELSE worker[d]
            /\ listener'[d] = (d \notin closed /\ listener[d])
            /\ outbox'[d] = IF d \in closed THEN << >>
                            ELSE IF d = c THEN Tail(outbox[c]) ELSE outbox[d]
            /\ promise'[d] = IF d \in closed /\ promise[d] = "pending" THEN "rejected"
                             ELSE promise[d]
    BY <1>1 DEF WorkersWithout, Settle
<1> HIDE DEF closed
<1>7. TypeOK'
    <2>1. promise' \in [Calls -> {"none", "pending", "resolved", "rejected"}]
        BY <1>1 DEF Settle, TypeOK
    <2>2. worker' \in [Calls -> {"none", "new", "running", "done", "dead"}]
        BY <1>1 DEF WorkersWithout, TypeOK
    <2>3. aborted' \in BOOLEAN /\ listener' \in [Calls -> BOOLEAN]
        BY <1>1 DEF TypeOK
    <2>4. outbox' \in [Calls -> Seq({"log", "result", "error"})]
        <3>1. Tail(outbox[c]) \in Seq(Messages) /\ << >> \in Seq(Messages)
            BY <1>2, HeadTailProperties, EmptySeq
        <3> QED
            BY <1>1, <3>1 DEF TypeOK, Messages
    <2>5. heard' \in [Calls -> Nat]
        BY <1>3 DEF TypeOK
    <2> QED
        BY <2>1, <2>2, <2>3, <2>4, <2>5, <1>3 DEF TypeOK
<1>8. ASSUME NEW d \in Calls
      PROVE  CallInv(d)'
    <2>1. CASE d \in closed
        <3>1. promise[d] = "pending"
            BY <1>2, <1>4, <2>1, TracesOfPending DEF Listening
        <3> QED
            BY <1>3, <1>6, <2>1, <3>1, Shut DEF TypeOK
    <2>2. CASE d \notin closed
        <3>1. listener'[d] = listener[d]
            BY <1>6, <2>2 DEF TypeOK
        <3>2. promise[d] = "pending" /\ d \in Signalled => aborted' = aborted
            BY <1>5, <1>6, <2>2 DEF Listening, CallInv, Pending
        <3>3. promise'[d] = promise[d] /\ worker'[d] = worker[d]
            BY <1>6, <2>2
        <3>4. CASE d # c
            BY <1>3, <1>6, <2>2, <3>1, <3>2, <3>3, <3>4, Untouched DEF TypeOK
        <3>5. CASE d = c
            <4>0. outbox'[c] = Tail(outbox[c])
                BY <1>6, <2>2, <3>5
            <4>1. /\ OneLast(outbox'[c])
                  /\ Ended(outbox'[c]) <=> Ended(outbox[c])
                  /\ LogsIn(outbox[c]) = LogsIn(outbox'[c]) + 1
                BY <1>2, <4>0, TakeLog DEF CallInv, Pending
            <4>2. outbox'[c] \in Seq(Messages)
                BY <1>7 DEF TypeOK, Messages
            <4>3. heard[c] \in Nat /\ logs[c] \in Nat /\ heard'[c] = heard[c] + 1
                  /\ logs'[c] = logs[c] /\ LogsIn(outbox'[c]) \in Int
                BY <1>3, <4>2, LenProperties DEF TypeOK, LogsIn
            <4>4. heard'[c] + LogsIn(outbox'[c]) = logs'[c]
                BY <1>2, <4>1, <4>3 DEF CallInv, Pending
            <4> QED
                BY <1>2, <3>1, <3>2, <3>3, <3>5, <4>1, <4>4
                DEF CallInv, Fresh, Pending, Closed, Settled
        <3> QED
            BY <3>4, <3>5
    <2> QED
        BY <2>1, <2>2
<1> QED
    BY <1>7, <1>8

\* The last message or an error event arrives.
LEMMA EndStep ==
    ASSUME RunnerInv, NEW c \in Calls, DeliverLast(c) \/ DeliverFault(c)
    PROVE  RunnerInv'
<1> USE DEF RunnerInv
<1>1. promise[c] = "pending" \/ promise[c] \in Settled
    BY TracesOfPending, PromiseCases DEF DeliverLast, DeliverFault, TypeOK
<1>2. /\ logs' = logs /\ heard' = heard /\ aborted' = aborted
      /\ fault' \in {fault, [fault EXCEPT ![c] = FALSE]}
      /\ worker' = WorkersWithout({c})
      /\ listener' = [d \in Calls |-> d \notin {c} /\ listener[d]]
      /\ outbox' = [d \in Calls |-> IF d \in {c} THEN << >> ELSE outbox[d]]
    BY DEF DeliverLast, DeliverFault, Cleanup
<1>3. PICK as \in Settled : Settle({c}, as)
    BY DEF DeliverLast, DeliverFault, Outcome, Settled
<1>4. TypeOK'
    <2>1. promise' \in [Calls -> {"none", "pending", "resolved", "rejected"}]
        BY <1>3 DEF Settle, Settled, TypeOK
    <2>2. worker' \in [Calls -> {"none", "new", "running", "done", "dead"}]
        BY <1>2 DEF WorkersWithout, TypeOK
    <2>3. listener' \in [Calls -> BOOLEAN] /\ fault' \in [Calls -> BOOLEAN]
        BY <1>2 DEF TypeOK
    <2>4. outbox' \in [Calls -> Seq({"log", "result", "error"})]
        BY <1>2, EmptySeq DEF TypeOK
    <2> QED
        BY <1>2, <2>1, <2>2, <2>3, <2>4 DEF TypeOK
<1>5. ASSUME NEW d \in Calls, d # c
      PROVE  CallInv(d)'
    <2>1. listener'[d] = listener[d] /\ fault'[d] = fault[d]
        BY <1>2, <1>5 DEF TypeOK
    <2>2. promise'[d] = promise[d] /\ worker'[d] = worker[d] /\ outbox'[d] = outbox[d]
        BY <1>2, <1>3, <1>5 DEF Settle, WorkersWithout, TypeOK
    <2> QED
        BY <1>2, <2>1, <2>2, Untouched
<1>6. worker'[c] = "dead" /\ listener'[c] = FALSE /\ outbox'[c] = << >>
    BY <1>2 DEF WorkersWithout
<1>7. CASE DeliverFault(c)
    <2>1. promise'[c] = IF promise[c] = "pending" THEN "rejected" ELSE promise[c]
        BY <1>7 DEF DeliverFault, Settle
    <2> QED
        BY <1>1, <1>2, <1>4, <1>5, <1>6, <2>1, Shut
<1>8. CASE DeliverLast(c)
    <2>1. /\ promise[c] = "pending" /\ outbox[c] \in Seq(Messages)
          /\ outbox[c] # << >> /\ Head(outbox[c]) # "log"
        BY <1>8, TracesOfPending DEF DeliverLast, TypeOK, Messages
    <2>2. LogsIn(outbox[c]) = 0
        BY <2>1, LastIsAlone DEF CallInv, Pending
    <2>3. heard[c] + LogsIn(outbox[c]) = logs[c]
        BY <2>1 DEF CallInv, Pending
    <2>4. heard'[c] = logs'[c]
        BY <1>2, <2>2, <2>3 DEF TypeOK
    <2>5. promise'[c] \in Settled
        BY <1>3, <2>1 DEF Settle
    <2>6. Fresh(c)' /\ Pending(c)'
        BY <2>5 DEF Fresh, Pending, Settled
    <2>7. Closed(c)'
        BY <1>6, <2>4 DEF Closed
    <2> QED
        BY <1>4, <1>5, <2>6, <2>7 DEF CallInv
<1> QED
    BY <1>7, <1>8

\* The worker goes on.
LEMMA WorkStep ==
    ASSUME RunnerInv, NEW c \in Calls, WorkerStep(c)
    PROVE  RunnerInv'
<1> USE DEF RunnerInv
<1>1. /\ promise[c] = "pending" /\ worker[c] \in {"new", "running"}
      /\ outbox[c] \in Seq(Messages) /\ OneLast(outbox[c]) /\ ~Ended(outbox[c])
    BY TracesOfPending DEF WorkerStep, Load, Write, Finish, Fail, Crash, CallInv,
        Pending, TypeOK, Messages
<1>2. promise' = promise /\ listener' = listener /\ heard' = heard /\ aborted' = aborted
    BY DEF WorkerStep, Load, Write, Finish, Fail, Crash
<1>3. /\ worker'[c] \in {"running", "done"}
      /\ worker' \in [Calls -> {"none", "new", "running", "done", "dead"}]
      /\ fault' \in [Calls -> BOOLEAN]
    BY DEF WorkerStep, Load, Write, Finish, Fail, Crash, TypeOK
<1>4. /\ outbox' \in [Calls -> Seq({"log", "result", "error"})]
      /\ logs' \in [Calls -> 0 .. MaxLogs]
      /\ OneLast(outbox'[c])
      /\ worker'[c] # "done" => ~Ended(outbox'[c])
      /\ heard'[c] + LogsIn(outbox'[c]) = logs'[c]
    <2>1. heard[c] + LogsIn(outbox[c]) = logs[c]
        BY <1>1 DEF CallInv, Pending
    <2>2. heard[c] \in Nat /\ logs[c] \in 0 .. MaxLogs /\ LogsIn(outbox[c]) \in Int
          /\ MaxLogs \in Nat
        BY <1>1, LenProperties, RunnerAssumption DEF TypeOK, LogsIn
    <2>3. CASE Load(c) \/ Crash(c)
        <3>1. outbox' = outbox /\ logs' = logs
            BY <2>3 DEF Load, Crash
        <3> QED
            BY <1>1, <1>2, <2>1, <3>1 DEF TypeOK
    <2>4. CASE Write(c)
        <3>1. /\ outbox' = [outbox EXCEPT ![c] = Append(outbox[c], "log")]
              /\ logs' = [logs EXCEPT ![c] = logs[c] + 1]
              /\ logs[c] < MaxLogs
            BY <2>4 DEF Write, Posted
        <3>2. Append(outbox[c], "log") \in Seq(Messages)
              /\ OneLast(Append(outbox[c], "log")) /\ ~Ended(Append(outbox[c], "log"))
              /\ LogsIn(Append(outbox[c], "log")) = LogsIn(outbox[c]) + 1
            BY <1>1, PostLog
        <3>3. outbox' \in [Calls -> Seq({"log", "result", "error"})]
              /\ outbox'[c] = Append(outbox[c], "log")
            BY <3>1, <3>2 DEF TypeOK, Messages
        <3>4. logs' \in [Calls -> 0 .. MaxLogs] /\ logs'[c] = logs[c] + 1
            BY <2>2, <3>1 DEF TypeOK
        <3>5. heard'[c] + LogsIn(outbox'[c]) = logs'[c]
            BY <1>2, <2>1, <2>2, <3>2, <3>3, <3>4
        <3> QED
            BY <3>2, <3>3, <3>4, <3>5
    <2>5. CASE Finish(c) \/ Fail(c)
        <3>1. PICK m \in {"result", "error"} :
                /\ outbox' = [outbox EXCEPT ![c] = Append(outbox[c], m)]
                /\ logs' = logs
                /\ worker'[c] = "done"
            BY <2>5 DEF Finish, Fail, Posted, Complaint, TypeOK
        <3>2. Append(outbox[c], m) \in Seq(Messages) /\ OneLast(Append(outbox[c], m))
              /\ LogsIn(Append(outbox[c], m)) = LogsIn(outbox[c])
            BY <1>1, PostLast DEF Messages
        <3>3. outbox' \in [Calls -> Seq({"log", "result", "error"})]
              /\ outbox'[c] = Append(outbox[c], m)
            BY <3>1, <3>2 DEF TypeOK, Messages
        <3>4. heard'[c] + LogsIn(outbox'[c]) = logs'[c]
            BY <1>2, <2>1, <3>1, <3>2, <3>3
        <3> QED
            BY <3>1, <3>2, <3>3, <3>4 DEF TypeOK
    <2> QED
        BY <2>3, <2>4, <2>5 DEF WorkerStep
<1>5. TypeOK'
    BY <1>2, <1>3, <1>4 DEF TypeOK
<1>6. CallInv(c)'
    <2>1. promise'[c] = "pending" /\ worker'[c] \in {"new", "running", "done"}
        BY <1>1, <1>2, <1>3
    <2>2. listener'[c] <=> c \in Signalled
        BY <1>1, <1>2 DEF CallInv, Pending
    <2>3. c \in Signalled => ~aborted'
        BY <1>1, <1>2 DEF CallInv, Pending
    <2>4. Pending(c)'
        BY <1>4, <2>1, <2>2, <2>3 DEF Pending
    <2>5. Fresh(c)' /\ Closed(c)'
        BY <2>1 DEF Fresh, Closed, Settled
    <2> QED
        BY <2>4, <2>5 DEF CallInv
<1>7. ASSUME NEW d \in Calls, d # c
      PROVE  CallInv(d)'
    <2>1. worker'[d] = worker[d] /\ outbox'[d] = outbox[d] /\ fault'[d] = fault[d]
          /\ logs'[d] = logs[d]
        BY <1>7 DEF WorkerStep, Load, Write, Finish, Fail, Crash, TypeOK
    <2> QED
        BY <1>2, <2>1, Untouched
<1> QED
    BY <1>5, <1>6, <1>7

-----------------------------------------------------------------------------
(* The theorems. *)

\* The invariant holds for any number of calculations and any output.
THEOREM RunnerInvariant == Spec => []RunnerInv
<1>1. Init => RunnerInv
    <2> SUFFICES ASSUME Init PROVE RunnerInv
        OBVIOUS
    <2>1. TypeOK
        <3>1. 0 \in 0 .. MaxLogs /\ << >> \in Seq({"log", "result", "error"})
            BY EmptySeq, RunnerAssumption
        <3> QED
            BY <3>1 DEF Init, TypeOK
    <2>2. ASSUME NEW c \in Calls
          PROVE  CallInv(c)
        BY DEF Init, CallInv, Fresh, Pending, Closed, Settled
    <2> QED
        BY <2>1, <2>2 DEF RunnerInv
<1>2. RunnerInv /\ [Next]_vars => RunnerInv'
    <2> SUFFICES ASSUME RunnerInv, [Next]_vars PROVE RunnerInv'
        OBVIOUS
    <2>1. CASE Abort
        BY <2>1, AbortStep
    <2>2. ASSUME NEW c \in Calls, CallAborted(c) \/ Call(c) \/ CallFails(c)
          PROVE  RunnerInv'
        BY <2>2, CallStep
    <2>3. ASSUME NEW c \in Calls, PageTask(c)
          PROVE  RunnerInv'
        BY <2>3, LogStep, EndStep DEF PageTask
    <2>4. ASSUME NEW c \in Calls, WorkerStep(c)
          PROVE  RunnerInv'
        BY <2>4, WorkStep
    <2>5. CASE UNCHANGED vars
        BY <2>5 DEF vars, RunnerInv, TypeOK, CallInv, Fresh, Pending, Closed
    <2> QED
        BY <2>1, <2>2, <2>3, <2>4, <2>5 DEF Next
<1> QED
    BY <1>1, <1>2, PTL DEF Spec

\* Type correctness.
THEOREM TypeCorrect == Spec => []TypeOK
<1>1. RunnerInv => TypeOK
    BY DEF RunnerInv
<1> QED
    BY <1>1, RunnerInvariant, PTL

\* cleanup: whatever settles a promise first leaves no worker, listener or
\* message, and no calculation outlives the abort of its signal.
THEOREM SettledCallsAreClean == Spec => []SettledIsClean
<1>1. RunnerInv => SettledIsClean
    BY DEF RunnerInv, CallInv, Closed, Pending, SettledIsClean, Settled
<1> QED
    BY <1>1, RunnerInvariant, PTL

\* worker.onmessage: when the result arrives onLog was called with all output.
THEOREM ResultComesLast == Spec => []HeardBeforeResult
<1>1. RunnerInv => HeardBeforeResult
    BY DEF RunnerInv, CallInv, Closed, HeardBeforeResult, Settled
<1> QED
    BY <1>1, RunnerInvariant, PTL

-----------------------------------------------------------------------------
(* No call is forgotten. *)

\* Something is going on for the call: its worker runs, or an answer of the
\* worker or the browser is on its way.
Moving(c) == worker[c] \in {"new", "running"} \/ outbox[c] # << >> \/ fault[c]

\* A worker that is through has said how the call ends.
Said(c) ==
    promise[c] = "pending" /\ worker[c] = "done" => Ended(outbox[c]) \/ fault[c]

NoneForgotten == \A c \in Calls : promise[c] = "pending" => Moving(c)

WorkLeft == [new |-> 4, running |-> 2, done |-> 0, dead |-> 0, none |-> 0]

FaultLeft(c) == IF fault[c] THEN 1 ELSE 0

\* What is at most left to do for a call: its worker's steps, with the arrival
\* of what they post, and the arrival of what is on its way.
Left(c) ==
    WorkLeft[worker[c]] + 2 * (MaxLogs - logs[c]) + Len(outbox[c]) + FaultLeft(c)

\* While a call stays pending no step adds to what is left of it, and each of
\* its own takes from it.
CallsShrink ==
    [][\A c \in Calls : promise[c] = "pending" /\ promise'[c] = "pending" =>
            /\ Left(c)' <= Left(c)
            /\ PageTask(c) \/ WorkerStep(c) => Left(c)' < Left(c)]_vars

\* The terms of the measure are numbers.
LEMMA LeftFacts ==
    ASSUME TypeOK, NEW c \in Calls
    PROVE  /\ WorkLeft[worker[c]] \in Nat
           /\ MaxLogs \in Nat /\ logs[c] \in Nat /\ logs[c] <= MaxLogs
           /\ outbox[c] \in Seq(Messages) /\ Len(outbox[c]) \in Nat
           /\ FaultLeft(c) \in Nat
           /\ Left(c) \in Nat
<1>1. \A w \in {"none", "new", "running", "done", "dead"} : WorkLeft[w] \in Nat
    BY DEF WorkLeft
<1>2. worker[c] \in {"none", "new", "running", "done", "dead"}
    BY DEF TypeOK
<1>3. WorkLeft[worker[c]] \in Nat
    BY <1>1, <1>2
<1>4. MaxLogs \in Nat /\ logs[c] \in Nat /\ logs[c] <= MaxLogs
    BY RunnerAssumption DEF TypeOK
<1>5. outbox[c] \in Seq(Messages) /\ Len(outbox[c]) \in Nat
    BY LenProperties DEF TypeOK, Messages
<1>6. FaultLeft(c) \in Nat
    BY DEF FaultLeft
<1>7. 2 * (MaxLogs - logs[c]) \in Nat
    BY <1>4
<1>8. ASSUME NEW a \in Nat, NEW b \in Nat, NEW e \in Nat, NEW f \in Nat
      PROVE  a + b + e + f \in Nat
    OBVIOUS
<1>9. Left(c) \in Nat
    BY <1>3, <1>5, <1>6, <1>7, <1>8 DEF Left
<1> QED
    BY <1>3, <1>4, <1>5, <1>6, <1>9

\* So is what is left after a step.
LEMMA LeftNatNext ==
    ASSUME TypeOK', NEW c \in Calls
    PROVE  Left(c)' \in Nat
<1>1. \A w \in {"none", "new", "running", "done", "dead"} : WorkLeft[w] \in Nat
    BY DEF WorkLeft
<1>2. worker'[c] \in {"none", "new", "running", "done", "dead"}
    BY DEF TypeOK
<1>3. PICK w \in Nat : w = WorkLeft[worker'[c]]
    BY <1>1, <1>2
<1>4. PICK l \in Nat : l = logs'[c] /\ l <= MaxLogs
    BY RunnerAssumption DEF TypeOK
<1>5. PICK o \in Nat : o = Len(outbox'[c])
    BY LenProperties DEF TypeOK
<1>6. PICK f \in Nat : f = FaultLeft(c)'
    BY DEF FaultLeft
<1>7. Left(c)' = w + 2 * (MaxLogs - l) + o + f
    BY <1>3, <1>4, <1>5, <1>6 DEF Left
<1> QED
    BY <1>4, <1>7, RunnerAssumption

\* A step of the worker uses up more than the message it posts.
LEMMA WorkerShrinks ==
    ASSUME TypeOK, TypeOK', NEW c \in Calls, WorkerStep(c)
    PROVE  Left(c)' < Left(c)
<1>1. /\ logs[c] \in Nat /\ MaxLogs \in Nat /\ logs[c] <= MaxLogs
      /\ outbox[c] \in Seq(Messages) /\ Len(outbox[c]) \in Nat
    BY LeftFacts
<1>2. \A m \in Messages : Len(Append(outbox[c], m)) = Len(outbox[c]) + 1
    BY <1>1
<1>3. WorkLeft["new"] = 4 /\ WorkLeft["running"] = 2 /\ WorkLeft["done"] = 0
    BY DEF WorkLeft
<1>4. PICK w, l, o, f, w1, l1, o1, f1 \in Nat :
        /\ w = WorkLeft[worker[c]] /\ w1 = WorkLeft[worker'[c]]
        /\ l = logs[c] /\ l1 = logs'[c] /\ l <= MaxLogs /\ l1 <= MaxLogs
        /\ o = Len(outbox[c]) /\ o1 = Len(outbox'[c])
        /\ f = FaultLeft(c) /\ f1 = FaultLeft(c)'
    <2>1. /\ WorkLeft[worker'[c]] \in Nat /\ logs'[c] \in Nat /\ logs'[c] <= MaxLogs
          /\ Len(outbox'[c]) \in Nat /\ FaultLeft(c)' \in Nat
        <3>1. \A x \in {"none", "new", "running", "done", "dead"} : WorkLeft[x] \in Nat
            BY DEF WorkLeft
        <3>2. worker'[c] \in {"none", "new", "running", "done", "dead"}
            BY DEF TypeOK
        <3>3. logs'[c] \in Nat /\ logs'[c] <= MaxLogs
            BY RunnerAssumption DEF TypeOK
        <3>4. outbox'[c] \in Seq(Messages)
            BY DEF TypeOK, Messages
        <3>5. Len(outbox'[c]) \in Nat /\ FaultLeft(c)' \in Nat
            BY <3>4, LenProperties DEF FaultLeft
        <3> QED
            BY <3>1, <3>2, <3>3, <3>5
    <2> QED
        BY <2>1, LeftFacts
<1>5. /\ Left(c) = w + 2 * (MaxLogs - l) + o + f
      /\ Left(c)' = w1 + 2 * (MaxLogs - l1) + o1 + f1
    BY <1>4 DEF Left
<1>6. CASE Load(c)
    <2>1. worker[c] = "new" /\ worker'[c] = "running" /\ logs' = logs /\ outbox' = outbox
          /\ fault' = fault
        BY <1>6 DEF Load, TypeOK
    <2>2. w = 4 /\ w1 = 2 /\ l1 = l /\ o1 = o /\ f1 = f
        BY <1>3, <1>4, <2>1 DEF FaultLeft
    <2> QED
        BY <1>1, <1>5, <2>2
<1>7. CASE Write(c)
    <2>1. worker' = worker /\ logs'[c] = logs[c] + 1 /\ logs[c] < MaxLogs
          /\ outbox'[c] = Append(outbox[c], "log") /\ fault' = fault
        BY <1>7 DEF Write, Posted, TypeOK
    <2>2. Len(outbox'[c]) = Len(outbox[c]) + 1
        BY <1>2, <2>1 DEF Messages
    <2>3. w1 = w /\ l1 = l + 1 /\ o1 = o + 1 /\ f1 = f
        BY <1>4, <2>1, <2>2 DEF FaultLeft
    <2>4. 2 * (MaxLogs - l1) = 2 * (MaxLogs - l) - 2
        BY <1>1, <2>3
    <2>5. 2 * (MaxLogs - l) \in Int
        BY <1>1
    <2> QED
        BY <1>5, <2>3, <2>4, <2>5
<1>8. CASE Finish(c) \/ Fail(c)
    <2>1. worker[c] \in {"new", "running"} /\ worker'[c] = "done" /\ logs' = logs
          /\ fault' = fault
        BY <1>8 DEF Finish, Fail, TypeOK
    <2>2. \E m \in Messages : outbox'[c] = Append(outbox[c], m)
        BY <1>8 DEF Finish, Fail, Posted, Complaint, Messages, TypeOK
    <2>3. Len(outbox'[c]) = Len(outbox[c]) + 1
        BY <1>2, <2>2
    <2>4. w >= 2 /\ w1 = 0 /\ l1 = l /\ o1 = o + 1 /\ f1 = f
        BY <1>3, <1>4, <2>1, <2>3 DEF FaultLeft
    <2> QED
        BY <1>1, <1>5, <2>4
<1>9. CASE Crash(c)
    <2>1. worker[c] = "new" /\ worker'[c] = "done" /\ logs' = logs /\ outbox' = outbox
          /\ fault'[c] = TRUE
        BY <1>9 DEF Crash, TypeOK
    <2>2. w = 4 /\ w1 = 0 /\ l1 = l /\ o1 = o /\ f1 <= 1
        BY <1>3, <1>4, <2>1 DEF FaultLeft
    <2> QED
        BY <1>1, <1>5, <2>2
<1> QED
    BY <1>6, <1>7, <1>8, <1>9 DEF WorkerStep

\* A task of the page that leaves its call pending is the arrival of a log.
LEMMA PageTakes ==
    ASSUME RunnerInv, NEW c \in Calls, PageTask(c),
           promise[c] = "pending", promise'[c] = "pending"
    PROVE  /\ outbox[c] # << >> /\ Head(outbox[c]) = "log"
           /\ outbox'[c] = Tail(outbox[c])
           /\ worker'[c] = worker[c] /\ fault'[c] = fault[c] /\ logs'[c] = logs[c]
<1>1. ~DeliverLast(c) /\ ~DeliverFault(c)
    BY DEF DeliverLast, DeliverFault, Settle, Outcome
<1>2. DeliverLog(c)
    BY <1>1 DEF PageTask
<1>3. PICK closed \in SUBSET Calls :
        /\ worker' = WorkersWithout(closed)
        /\ outbox' = [d \in Calls |-> IF d \in closed THEN << >>
                                      ELSE IF d = c THEN Tail(outbox[c])
                                      ELSE outbox[d]]
        /\ Settle(closed, "rejected")
    BY <1>2 DEF DeliverLog, Listening
<1>4. c \notin closed
    BY <1>3 DEF Settle
<1> QED
    BY <1>2, <1>3, <1>4 DEF DeliverLog, WorkersWithout

\* No other step touches what a call that stays pending has left.
LEMMA OthersLeaveIt ==
    ASSUME RunnerInv, [Next]_vars, NEW c \in Calls, ~PageTask(c), ~WorkerStep(c),
           promise[c] = "pending", promise'[c] = "pending"
    PROVE  /\ worker'[c] = worker[c] /\ outbox'[c] = outbox[c]
           /\ fault'[c] = fault[c] /\ logs'[c] = logs[c]
<1> USE DEF RunnerInv
<1>1. CASE UNCHANGED vars
    BY <1>1 DEF vars
<1>2. CASE Abort
    <2>1. c \notin Listening
        BY <1>2 DEF Abort, Settle
    <2> QED
        BY <1>2, <2>1 DEF Abort, Cleanup, WorkersWithout
<1>3. ASSUME NEW d \in Calls, CallAborted(d) \/ Call(d) \/ CallFails(d)
      PROVE  /\ worker'[c] = worker[c] /\ outbox'[c] = outbox[c]
             /\ fault'[c] = fault[c] /\ logs'[c] = logs[c]
    BY <1>3 DEF CallAborted, Call, CallFails, TypeOK
<1>4. ASSUME NEW d \in Calls, DeliverLog(d)
      PROVE  /\ worker'[c] = worker[c] /\ outbox'[c] = outbox[c]
             /\ fault'[c] = fault[c] /\ logs'[c] = logs[c]
    <2>1. d # c
        BY <1>4 DEF PageTask
    <2>2. PICK closed \in SUBSET Calls :
            /\ worker' = WorkersWithout(closed)
            /\ outbox' = [e \in Calls |-> IF e \in closed THEN << >>
                                          ELSE IF e = d THEN Tail(outbox[d])
                                          ELSE outbox[e]]
            /\ Settle(closed, "rejected")
        BY <1>4 DEF DeliverLog, Listening
    <2>3. c \notin closed
        BY <2>2 DEF Settle
    <2> QED
        BY <1>4, <2>1, <2>2, <2>3 DEF DeliverLog, WorkersWithout
<1>5. ASSUME NEW d \in Calls, DeliverLast(d) \/ DeliverFault(d)
      PROVE  /\ worker'[c] = worker[c] /\ outbox'[c] = outbox[c]
             /\ fault'[c] = fault[c] /\ logs'[c] = logs[c]
    <2>1. d # c
        BY <1>5 DEF PageTask
    <2> QED
        BY <1>5, <2>1 DEF DeliverLast, DeliverFault, Cleanup, WorkersWithout, TypeOK
<1>6. ASSUME NEW d \in Calls, WorkerStep(d)
      PROVE  /\ worker'[c] = worker[c] /\ outbox'[c] = outbox[c]
             /\ fault'[c] = fault[c] /\ logs'[c] = logs[c]
    <2>1. d # c
        BY <1>6
    <2> QED
        BY <1>6, <2>1 DEF WorkerStep, Load, Write, Finish, Fail, Crash, TypeOK
<1> QED
    BY <1>1, <1>2, <1>3, <1>4, <1>5, <1>6 DEF Next, PageTask

\* A worker that is through has said how the call ends, and keeps having said.
LEMMA SaidStep ==
    ASSUME RunnerInv, [Next]_vars, NEW c \in Calls, Said(c)
    PROVE  Said(c)'
<1> USE DEF RunnerInv
<1> SUFFICES ASSUME promise'[c] = "pending", worker'[c] = "done"
             PROVE  Ended(outbox'[c]) \/ fault'[c]
    BY DEF Said
<1>1. CASE promise[c] # "pending"
    <2>1. \A d \in Calls : promise'[d] = "pending" => promise[d] = "pending" \/ Call(d)
        <3>1. ASSUME NEW as, NEW closed, Settle(closed, as), as \in Settled
              PROVE  \A d \in Calls : promise'[d] = "pending" => promise[d] = "pending"
            BY <3>1 DEF Settle, Settled
        <3>2. CASE UNCHANGED vars
            BY <3>2 DEF vars
        <3>3. CASE Abort
            BY <3>1, <3>3 DEF Abort, Settled
        <3>4. ASSUME NEW e \in Calls, CallAborted(e) \/ Call(e) \/ CallFails(e)
              PROVE  \A d \in Calls : promise'[d] = "pending" => promise[d] = "pending" \/ Call(d)
            BY <3>4 DEF CallAborted, Call, CallFails, TypeOK
        <3>5. ASSUME NEW e \in Calls, PageTask(e)
              PROVE  \A d \in Calls : promise'[d] = "pending" => promise[d] = "pending"
            <4>1. \E closed, as : Settle(closed, as) /\ as \in Settled
                BY <3>5 DEF PageTask, DeliverLog, DeliverLast, DeliverFault, Outcome, Settled
            <4> QED
                BY <3>1, <4>1
        <3>6. ASSUME NEW e \in Calls, WorkerStep(e)
              PROVE  promise' = promise
            BY <3>6 DEF WorkerStep, Load, Write, Finish, Fail, Crash
        <3> QED
            BY <3>2, <3>3, <3>4, <3>5, <3>6 DEF Next
    <2>2. Call(c)
        BY <1>1, <2>1
    <2> QED
        BY <2>2 DEF Call, TypeOK
<1>2. CASE promise[c] = "pending" /\ PageTask(c)
    <2>1. /\ outbox[c] # << >> /\ Head(outbox[c]) = "log"
          /\ outbox'[c] = Tail(outbox[c])
          /\ worker'[c] = worker[c] /\ fault'[c] = fault[c]
        BY <1>2, PageTakes
    <2>2. outbox[c] \in Seq(Messages) /\ OneLast(outbox[c])
        BY <1>2 DEF TypeOK, Messages, CallInv, Pending
    <2>3. Ended(outbox'[c]) <=> Ended(outbox[c])
        BY <2>1, <2>2, TakeLog
    <2> QED
        BY <1>2, <2>1, <2>3 DEF Said
<1>3. CASE promise[c] = "pending" /\ WorkerStep(c)
    <2>1. /\ outbox[c] \in Seq(Messages) /\ OneLast(outbox[c]) /\ ~Ended(outbox[c])
        BY <1>3 DEF WorkerStep, Load, Write, Finish, Fail, Crash, CallInv,
            Pending, TypeOK, Messages
    <2>2. ~Load(c) /\ ~Write(c)
        BY DEF Load, Write, TypeOK
    <2>3. CASE Finish(c) \/ Fail(c)
        <3>1. PICK m \in {"result", "error"} : outbox'[c] = Append(outbox[c], m)
            BY <2>3 DEF Finish, Fail, Posted, Complaint, TypeOK
        <3> QED
            BY <2>1, <3>1, PostLast DEF Messages
    <2>4. CASE Crash(c)
        BY <2>4 DEF Crash, TypeOK
    <2> QED
        BY <1>3, <2>2, <2>3, <2>4 DEF WorkerStep
<1>4. CASE promise[c] = "pending" /\ ~PageTask(c) /\ ~WorkerStep(c)
    BY <1>4, OthersLeaveIt DEF Said
<1> QED
    BY <1>1, <1>2, <1>3, <1>4

\* runFeff, worker.onmessage and worker.onerror: no call is ever left without
\* something that will move it on.  While its promise is pending its worker is
\* at work or an answer is on its way, whatever the other calls, the signal and
\* onLog do; and what is left of it is bounded, is not added to by anybody and
\* gets less with each of its own steps, so that the last of them settles it.
THEOREM NoCallIsForgotten ==
    Spec => [](NoneForgotten /\ \A c \in Calls : Left(c) \in Nat) /\ CallsShrink
<1>1. Init => \A c \in Calls : Said(c)
    BY DEF Init, Said
<1>2. RunnerInv /\ (\A c \in Calls : Said(c)) /\ [Next]_vars => (\A c \in Calls : Said(c))'
    BY SaidStep
<1>3. RunnerInv /\ (\A c \in Calls : Said(c)) =>
        NoneForgotten /\ \A c \in Calls : Left(c) \in Nat
    <2> SUFFICES ASSUME RunnerInv, \A c \in Calls : Said(c), NEW c \in Calls
                 PROVE  (promise[c] = "pending" => Moving(c)) /\ Left(c) \in Nat
        BY DEF NoneForgotten
    <2>1. Left(c) \in Nat
        BY LeftFacts DEF RunnerInv
    <2>2. promise[c] = "pending" => Moving(c)
        BY DEF RunnerInv, CallInv, Pending, Said, Moving, Ended
    <2> QED
        BY <2>1, <2>2
<1>4. RunnerInv /\ RunnerInv' /\ [Next]_vars =>
        \A c \in Calls : promise[c] = "pending" /\ promise'[c] = "pending" =>
            /\ Left(c)' <= Left(c)
            /\ PageTask(c) \/ WorkerStep(c) => Left(c)' < Left(c)
    <2> SUFFICES ASSUME RunnerInv, RunnerInv', [Next]_vars, NEW c \in Calls,
                        promise[c] = "pending", promise'[c] = "pending"
                 PROVE  /\ Left(c)' <= Left(c)
                        /\ PageTask(c) \/ WorkerStep(c) => Left(c)' < Left(c)
        OBVIOUS
    <2>0. PICK x \in Nat : x = Left(c)
        BY LeftFacts DEF RunnerInv
    <2>1. CASE WorkerStep(c)
        <3>1. Left(c)' < Left(c)
            BY <2>1, WorkerShrinks DEF RunnerInv
        <3>2. PICK y \in Nat : y = Left(c)'
            BY LeftNatNext DEF RunnerInv
        <3> QED
            BY <2>0, <3>1, <3>2
    <2>2. CASE PageTask(c)
        <3>1. /\ outbox[c] # << >> /\ outbox'[c] = Tail(outbox[c])
              /\ worker'[c] = worker[c] /\ fault'[c] = fault[c] /\ logs'[c] = logs[c]
            BY <2>2, PageTakes
        <3>2. PICK n \in Nat : Len(outbox[c]) = n + 1 /\ Len(outbox'[c]) = n
            <4>1. outbox[c] \in Seq(Messages)
                BY DEF RunnerInv, TypeOK, Messages
            <4>2. Len(outbox[c]) \in Nat \ {0} /\ Len(outbox'[c]) = Len(outbox[c]) - 1
                BY <3>1, <4>1, HeadTailProperties, EmptySeq
            <4> QED
                BY <4>2
        <3>3. PICK w \in Nat, k \in Nat, f \in Nat :
                /\ w = WorkLeft[worker[c]] /\ k = 2 * (MaxLogs - logs[c])
                /\ f = FaultLeft(c)
            BY LeftFacts DEF RunnerInv
        <3>4. Left(c) = w + k + (n + 1) + f
            BY <3>2, <3>3 DEF Left
        <3>5. Left(c)' = w + k + n + f
            BY <3>1, <3>2, <3>3 DEF Left, FaultLeft
        <3> QED
            BY <3>4, <3>5
    <2>3. CASE ~PageTask(c) /\ ~WorkerStep(c)
        <3>1. Left(c)' = Left(c)
            BY <2>3, OthersLeaveIt DEF Left, FaultLeft
        <3> QED
            BY <2>0, <2>3, <3>1
    <2> QED
        BY <2>1, <2>2, <2>3
<1> QED
    BY <1>1, <1>2, <1>3, <1>4, RunnerInvariant, PTL DEF Spec, CallsShrink
===============================================================================
