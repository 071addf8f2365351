---------------------------- MODULE AccrualClient ----------------------------
(***************************************************************************)
(* What the workers ask of the accrual system and when: the answer of the  *)
(* system as the client reads it (Retry-After in machine words), the       *)
(* pause that "too many requests" imposes on the pool, and the delay until *)
(* an event that failed is tried again.                                    *)
(*                                                                         *)
(* How events travel between queue, main loop, workers and callbacks is in *)
(* OrderProcessor; here an event that is over is due again, or forgotten,  *)
(* in the step that ends it.  So is what becomes of an order that cannot   *)
(* be postponed although it is in the queue.  Time is counted in ticks,    *)
(* and an instant by the ticks until it comes: 0 for an instant that is    *)
(* past.  A tick stands for the nanosecond of time.Duration, scaled with   *)
(* Half.                                                                   *)
(***************************************************************************)
EXTENDS Integers, FiniteSets

CONSTANTS
  Events,     \* the events, one per order
  PoolSize,   \* workers
  Half,       \* half the values of a machine word (2^63 in the code)
  Second,     \* ticks in a second (10^9 in the code)
  Headers,    \* the values of Retry-After that are tried
  NoHeader,   \* a "too many requests" without Retry-After
  Configs,    \* the OrderEventDelayConfigs that are tried
  MaxRetries  \* bound: retries are not counted beyond it

ASSUME AccrualAssumption ==
  /\ IsFiniteSet(Events)
  /\ PoolSize \in Nat \ {0} /\ MaxRetries \in Nat
  /\ \E bits \in 1 .. Half : Half = 2 ^ bits
  /\ Half \in Nat \ {0, 1} /\ Second \in 1 .. Half - 1
  /\ NoHeader \notin Int /\ Headers \subseteq Int \union {NoHeader}
  /\ Configs \subseteq [initialDelay : 1 .. Half - 1,
                        maxJitter : 1 .. Half - 1,
                        maxDelay : 0 .. Half - 1,
                        minRetriesUntilBackOff : Nat]

VARIABLES
  config,        \* the OrderEventDelayConfig of the processor
  cancelled,     \* the context that Run was called with has expired
  settled,       \* the orders whose final status is stored: not in the queue
  pausedUntil,   \* orderEventWorkerContext.pausedUntil
  at,            \* where an event is: "queued", with a worker, or "done"
  wake,          \* process_after of a queued event, timer of a waiting worker
  retries,       \* OrderEvent.retries
  \* History of what the accrual system asked for and answered:
  quietUntil,    \* until when its last "too many requests" wants no request
  sentTooEarly,  \* requests sent to it since then, and before quietUntil
  final          \* the orders it has given a final status for

vars == <<config, cancelled, settled, pausedUntil, at, wake, retries,
          quietUntil, sentTooEarly, final>>

-----------------------------------------------------------------------------
(* Durations *)

MaxDuration == Half - 1
Wrap(n) == ((n + Half) % (2 * Half)) - Half
AtMost(n, bound) == IF n > bound THEN bound ELSE n

\* time.Now().Add: a duration that is not positive is over at once.
After(duration) == IF duration > 0 THEN duration ELSE 0
Later(ticks) == After(ticks - 1)

-----------------------------------------------------------------------------
(* The client: apiclient *)

FinalStatuses == {"INVALID", "PROCESSED"}
KnownStatuses == FinalStatuses \union {"REGISTERED", "PROCESSING"}

\* What can come back from the accrual system; code 0 is no response at all.
Responses ==
  [code : {200}, status : KnownStatuses \union {"unknown"}]
    \union [code : {0, 204, 500}]
    \union [code : {429}, header : Headers]

\* Mutant of ProcessRetryAfterHeader: seconds are taken for nanoseconds.
RetryAfterInTicks(header) ==
  IF header = NoHeader THEN 0 ELSE AtMost(header, MaxDuration)

\* ParseUint fails on what is no number or does not fit the word. The product is
\* the one of the machine.
ProcessRetryAfterHeader(header) ==
  CASE header = NoHeader -> 0
    [] header # NoHeader /\ header \notin 0 .. 2 * Half - 1 -> Second
    [] header \in 0 .. MaxDuration -> Wrap(header * Second)
    [] header \in Half .. 2 * Half - 1 -> MaxDuration

\* Mutant of GetOrderStatus: ToOrder lets an unknown status through.
UnknownStatusAccepted(response) ==
  CASE response.code = 200 -> response.status
    [] response.code = 204 -> "not found by accrual"
    [] response.code = 429 -> "rate limit"
    [] OTHER -> "error"

\* The status of the order, or the error.
GetOrderStatus(response) ==
  CASE response.code = 200 /\ response.status \in KnownStatuses -> response.status
    [] response.code = 204 -> "not found by accrual"
    [] response.code = 429 -> "rate limit"
    [] OTHER -> "error"

-----------------------------------------------------------------------------
(* The delay of a retry: OrderEventDelayConfig and retry-go *)

FloorLog2(n) == CHOOSE k \in 0 .. n : 2 ^ k <= n /\ n < 2 ^ (k + 1)

\* Mutant of MaxBackOffN: the limit of the shift ignores the initial delay.
MaxBackOffNOfOne(c) == FloorLog2(Half) - 1

MaxBackOffN(c) == FloorLog2(Half) - 1 - FloorLog2(c.initialDelay)

RandomDelays(c) == 0 .. c.maxJitter - 1
BackOffDelay(n, c) == Wrap(c.initialDelay * 2 ^ AtMost(n, MaxBackOffN(c)))

\* CombineDelay adds without sign and stops at the largest duration.
CombineDelay(first, second) ==
  AtMost((first % (2 * Half)) + (second % (2 * Half)), MaxDuration)

\* The delays getDelayFn may come to at the n-th failure.
DelayFn(n, c) ==
  IF n < c.minRetriesUntilBackOff
  THEN RandomDelays(c)
  ELSE {CombineDelay(BackOffDelay(n, c), random) : random \in RandomDelays(c)}

NextDelays(n, c) ==
  {IF c.maxDelay > 0 THEN AtMost(d, c.maxDelay) ELSE d : d \in DelayFn(n, c)}

\* GetRetryableEvent gives up when there is no error. The two errors it also
\* gives up on are not those of the accrual system: its "not found" is an error
\* of another package.
Retryable(err) == err \notin {"none", "discarded", "order not found"}

-----------------------------------------------------------------------------
(* The pool *)

Init ==
  /\ config \in Configs
  /\ cancelled = FALSE /\ settled = {}
  /\ pausedUntil = 0 /\ quietUntil = 0 /\ sentTooEarly = 0
  /\ at = [e \in Events |-> "queued"]
  /\ wake = [e \in Events |-> 0]
  /\ retries = [e \in Events |-> 0]
  /\ final = {}

WithWorker == {e \in Events : at[e] \in {"taken", "waiting", "asked"}}

\* Mutant of TakeEvent: one worker more than the pool has.
TakeEventWithSpareWorker(e) ==
  /\ at[e] = "queued" /\ wake[e] = 0
  /\ Cardinality(WithWorker) <= PoolSize
  /\ at' = [at EXCEPT ![e] = "taken"]
  /\ UNCHANGED <<config, cancelled, settled, pausedUntil, wake, retries,
                 quietUntil, sentTooEarly, final>>

\* A due event goes to an idle worker. When the context has expired these are the
\* events that the main loop has sent already.
TakeEvent(e) ==
  /\ at[e] = "queued" /\ wake[e] = 0
  /\ Cardinality(WithWorker) < PoolSize
  /\ at' = [at EXCEPT ![e] = "taken"]
  /\ UNCHANGED <<config, cancelled, settled, pausedUntil, wake, retries,
                 quietUntil, sentTooEarly, final>>

\* processCallback: an event that failed is postponed, unless the context has expired
\* or the order has left the queue; any other is over.
Report(e, err) ==
  IF Retryable(err) /\ ~cancelled /\ e \notin settled'
  THEN \E d \in NextDelays(retries[e] + 1, config) :
         /\ at' = [at EXCEPT ![e] = "queued"]
         /\ wake' = [wake EXCEPT ![e] = After(d)]
         /\ retries' = [retries EXCEPT ![e] = AtMost(@ + 1, MaxRetries)]
  ELSE /\ at' = [at EXCEPT ![e] = "done"]
       /\ wake' = [wake EXCEPT ![e] = 0]
       /\ UNCHANGED retries

\* What a report without an answer leaves alone.
NoAnswer == UNCHANGED <<config, cancelled, settled, pausedUntil, quietUntil,
                        sentTooEarly, final>>

\* handleIncoming after the context has expired, or processEvent for an order that
\* has its final status: there is no error and no request.
NothingToAsk(e) ==
  /\ at[e] = "taken"
  /\ cancelled \/ e \in settled
  /\ NoAnswer
  /\ Report(e, "none")

\* Mutant of WaitUntilUnpaused: the pause is not waited for.
DoNotWait(e) ==
  /\ at[e] = "taken"
  /\ at' = [at EXCEPT ![e] = "waiting"]
  /\ UNCHANGED <<config, cancelled, settled, pausedUntil, wake, retries,
                 quietUntil, sentTooEarly, final>>

\* The status was read and the order is still open: the worker reads pausedUntil,
\* once, and starts a timer.
WaitUntilUnpaused(e) ==
  /\ at[e] = "taken" /\ e \notin settled
  /\ at' = [at EXCEPT ![e] = "waiting"]
  /\ wake' = [wake EXCEPT ![e] = pausedUntil]
  /\ UNCHANGED <<config, cancelled, settled, pausedUntil, retries, quietUntil,
                 sentTooEarly, final>>

\* The status cannot be read, or the timeout of the event or the end of the context
\* ends the wait.
Interrupted(e) ==
  /\ at[e] \in {"taken", "waiting"}
  /\ NoAnswer
  /\ Report(e, "error")

SendRequest(e) ==
  /\ at[e] = "waiting" /\ wake[e] = 0 /\ ~cancelled
  /\ at' = [at EXCEPT ![e] = "asked"]
  /\ sentTooEarly' = IF quietUntil > 0 THEN sentTooEarly + 1 ELSE sentTooEarly
  /\ UNCHANGED <<config, cancelled, settled, pausedUntil, wake, retries,
                 quietUntil, final>>

\* The pause the accrual system asks for, in arithmetic without limit. Numbers of
\* seconds whose product the code cannot represent ask for nothing here.
Requested(header) ==
  CASE header = NoHeader -> 0
    [] header # NoHeader /\ header \notin 0 .. 2 * Half - 1 -> Second
    [] header \in 0 .. MaxDuration /\ header * Second <= MaxDuration -> header * Second
    [] header \in Half .. 2 * Half - 1 -> MaxDuration
    [] OTHER -> 0

\* Only "too many requests" touches the pause, with the last word of the system.
SetPausedUntil(response) ==
  IF GetOrderStatus(response) = "rate limit"
  THEN /\ pausedUntil' = After(ProcessRetryAfterHeader(response.header))
       /\ quietUntil' = After(Requested(response.header))
       /\ sentTooEarly' = 0
  ELSE UNCHANGED <<pausedUntil, quietUntil, sentTooEarly>>

\* The answers that close an order; a status that is not known would be written as
\* invalid.
Closing == FinalStatuses \union {"unknown"}

\* processAccrualClientOrder writes the status, which may fail. A status that is not
\* final means "not ready".
ResultOf(answer) ==
  CASE answer \in {"REGISTERED", "PROCESSING"} -> {"error", "not ready"}
    [] answer \in Closing -> {"error", "none"}
    [] OTHER -> {answer}

\* A write that fails may have been committed all the same.
Settle(e, answer, err) ==
  \/ answer \in Closing /\ settled' = settled \union {e}
  \/ err # "none" /\ UNCHANGED settled

ReceiveResponse(e) ==
  /\ at[e] = "asked"
  /\ \E response \in Responses :
       /\ SetPausedUntil(response)
       /\ \E err \in ResultOf(GetOrderStatus(response)) :
            Settle(e, GetOrderStatus(response), err) /\ Report(e, err)
       /\ final' = IF response.code = 200 /\ response.status \in FinalStatuses
                   THEN final \union {e} ELSE final
  /\ UNCHANGED <<config, cancelled>>

\* The application ends the context, for good.
Cancel ==
  /\ cancelled' = TRUE
  /\ UNCHANGED <<config, settled, pausedUntil, at, wake, retries, quietUntil,
                 sentTooEarly, final>>

Tick ==
  /\ wake' = [e \in Events |-> Later(wake[e])]
  /\ pausedUntil' = Later(pausedUntil)
  /\ quietUntil' = Later(quietUntil)
  /\ UNCHANGED <<config, cancelled, settled, at, retries, sentTooEarly, final>>

Next ==
  \/ \E e \in Events :
       \/ TakeEvent(e) \/ NothingToAsk(e) \/ WaitUntilUnpaused(e)
       \/ Interrupted(e) \/ SendRequest(e) \/ ReceiveResponse(e)
  \/ Cancel \/ Tick

Spec == Init /\ [][Next]_vars

-----------------------------------------------------------------------------
(* Properties *)

\* Every variable keeps to its values, and the pool to its size.
TypeOK ==
  /\ config \in Configs
  /\ cancelled \in BOOLEAN /\ settled \subseteq Events
  /\ pausedUntil \in 0 .. MaxDuration
  /\ at \in [Events -> {"queued", "taken", "waiting", "asked", "done"}]
  /\ wake \in [Events -> 0 .. MaxDuration]
  /\ retries \in [Events -> 0 .. MaxRetries]
  /\ quietUntil \in 0 .. MaxDuration
  /\ sentTooEarly \in Nat
  /\ final \subseteq Events
  /\ Cardinality(WithWorker) <= PoolSize

\* While the accrual system wants quiet it sees at most one more request of every
\* other worker, the one whose wait was already under way: the pause is shared,
\* as long as the system asked for, and nobody asks twice before it is over.
QuietDuringPause == sentTooEarly < PoolSize

\* Why: a worker that reads pausedUntil waits until the system wants requests again,
\* so only those that read it before, one for each other worker, ask too early.
EarlyWaiters == {e \in Events : at[e] = "waiting" /\ wake[e] < quietUntil}
PauseCoversQuiet ==
  /\ quietUntil <= pausedUntil
  /\ sentTooEarly + Cardinality(EarlyWaiters) < PoolSize

\* What an event is postponed for when it has failed n times: at least the initial
\* delay, doubled n times, until the cap or half of the largest duration is reached.
ExpectedDelay(n) ==
  LET doubled == AtMost(config.initialDelay * 2 ^ n, Half \div 2)
  IN  IF n < config.minRetriesUntilBackOff THEN 0
      ELSE IF config.maxDelay > 0 THEN AtMost(doubled, config.maxDelay) ELSE doubled

\* Retries are spaced as configured, however many there have been: a delay follows
\* the back-off, stays under the cap and never wraps round to a short one.
BackOffHolds ==
  [][\A e \in Events :
       at[e] # "queued" /\ at'[e] = "queued" =>
         /\ wake'[e] >= ExpectedDelay(retries'[e])
         /\ config.maxDelay > 0 => wake'[e] <= config.maxDelay]_vars

\* As long as the processor runs, an event is forgotten exactly when a final status
\* of the accrual system is stored: an order the system does not know yet, an error,
\* an unknown status, a write that failed are asked about again, and a closed order is
\* not. Once the context has expired events are dropped wherever they are
\* (handleIncoming, processCallback); their orders stay in the queue, which is
\* QueueMatchesStatus of OrderProcessor.
OnlyFinalAnswersEnd ==
  /\ settled \subseteq final
  /\ \A e \in Events :
       /\ e \in settled => at[e] = "done"
       /\ at[e] = "done" => e \in settled \/ cancelled
=============================================================================
