------------------------- MODULE AccrualClientProofs -------------------------
(***************************************************************************)
(* Proofs about AccrualClient for any set of events, any pool, any width   *)
(* of a word and any headers.                                              *)
(***************************************************************************)
EXTENDS AccrualClient, InductionFacts

\* What the argument needs of the types: nothing is said of the timers of events
\* that no worker holds, which come from the arithmetic of the back-off.
PoolTyped ==
  /\ at \in [Events -> {"queued", "taken", "waiting", "asked", "done"}]
  /\ wake = [e \in Events |-> wake[e]]
  /\ \A e \in Events : at[e] = "waiting" => wake[e] \in Nat
  /\ pausedUntil \in Nat /\ quietUntil \in Nat /\ sentTooEarly \in Nat
  /\ Cardinality(WithWorker) <= PoolSize

QuietInv == PoolTyped /\ PauseCoversQuiet

-----------------------------------------------------------------------------
(* The pause is at least what the accrual system asked for *)

\* The remainder of a number below the divisor is the number.
LEMMA SmallRemainder ==
  ASSUME NEW d \in Nat \ {0}, NEW n \in 0 .. d - 1
  PROVE  n % d = n
  OBVIOUS

\* Arithmetic of the machine is exact where the product can be represented.
LEMMA WrapExact ==
  ASSUME NEW n \in 0 .. MaxDuration
  PROVE  Wrap(n) = n
<1>1. n + Half \in 0 .. 2 * Half - 1 /\ 2 * Half \in Nat \ {0}
  BY AccrualAssumption DEF MaxDuration
<1>2. (n + Half) % (2 * Half) = n + Half
  BY <1>1, SmallRemainder
<1> QED BY <1>2, AccrualAssumption DEF Wrap, MaxDuration

\* ProcessRetryAfterHeader never pauses for less than what was asked for.
LEMMA PauseLongEnough ==
  ASSUME NEW h \in Headers
  PROVE  /\ After(Requested(h)) \in Nat
         /\ After(ProcessRetryAfterHeader(h)) \in Nat
         /\ After(Requested(h)) <= After(ProcessRetryAfterHeader(h))
<1> USE AccrualAssumption
<1> h \in Int \/ h = NoHeader
  OBVIOUS
<1>1. CASE h = NoHeader
  BY <1>1 DEF After, Requested, ProcessRetryAfterHeader
<1>2. CASE h # NoHeader /\ h \notin 0 .. 2 * Half - 1
  BY <1>2 DEF After, Requested, ProcessRetryAfterHeader, MaxDuration
<1>3. CASE h \in Half .. 2 * Half - 1
  BY <1>3 DEF After, Requested, ProcessRetryAfterHeader, MaxDuration
<1>4. CASE h \in 0 .. MaxDuration
  <2>1. h \in Nat /\ h * Second \in Nat /\ h # NoHeader
    BY <1>4 DEF MaxDuration
  <2>2. ProcessRetryAfterHeader(h) = Wrap(h * Second)
    BY <1>4, <2>1 DEF ProcessRetryAfterHeader, MaxDuration
  <2>3. Wrap(h * Second) \in Int
    BY <2>1 DEF Wrap
  <2>4. CASE h * Second <= MaxDuration
    <3>1. Requested(h) = h * Second
      BY <1>4, <2>1, <2>4 DEF Requested, MaxDuration
    <3>2. Wrap(h * Second) = h * Second
      BY <2>1, <2>4, WrapExact DEF MaxDuration
    <3> QED BY <2>1, <2>2, <3>1, <3>2 DEF After
  <2>5. CASE ~(h * Second <= MaxDuration)
    <3>1. Requested(h) = 0
      BY <1>4, <2>1, <2>5 DEF Requested, MaxDuration
    <3> QED BY <2>2, <2>3, <3>1 DEF After
  <2> QED BY <2>4, <2>5
<1> QED BY <1>1, <1>2, <1>3, <1>4 DEF MaxDuration

-----------------------------------------------------------------------------
(* The pool *)

\* Sets of events can be counted,
LEMMA EventSetsFinite ==
  ASSUME NEW S \in SUBSET Events
  PROVE  IsFiniteSet(S) /\ Cardinality(S) \in Nat
BY AccrualAssumption, FS_Subset, FS_CardinalityType

\* and a part of one has no more events.
LEMMA Smaller ==
  ASSUME NEW T \in SUBSET Events, NEW S \in SUBSET T
  PROVE  Cardinality(S) <= Cardinality(T)
BY EventSetsFinite, FS_Subset

\* A report takes the event from its worker and starts no wait.
LEMMA ReportLeavesPool ==
  ASSUME PoolTyped, NEW e \in Events, NEW err, Report(e, err)
  PROVE  /\ at' \in [Events -> {"queued", "taken", "waiting", "asked", "done"}]
         /\ at'[e] \notin {"taken", "waiting", "asked"}
         /\ wake' = [f \in Events |-> wake'[f]]
         /\ \A f \in Events \ {e} : at'[f] = at[f] /\ wake'[f] = wake[f]
<1>1. CASE Retryable(err) /\ ~cancelled /\ e \notin settled'
  <2>1. PICK d : /\ at' = [at EXCEPT ![e] = "queued"]
                 /\ wake' = [wake EXCEPT ![e] = After(d)]
    BY <1>1 DEF Report
  <2>2. at' \in [Events -> {"queued", "taken", "waiting", "asked", "done"}]
    BY <2>1 DEF PoolTyped
  <2>3. wake' = [f \in Events |-> IF f = e THEN After(d) ELSE wake[f]]
    BY <2>1 DEF PoolTyped
  <2> QED BY <2>1, <2>2, <2>3 DEF PoolTyped
<1>2. CASE ~(Retryable(err) /\ ~cancelled /\ e \notin settled')
  <2>1. at' = [at EXCEPT ![e] = "done"] /\ wake' = [wake EXCEPT ![e] = 0]
    BY <1>2 DEF Report
  <2>2. wake' = [f \in Events |-> IF f = e THEN 0 ELSE wake[f]]
    BY <2>1 DEF PoolTyped
  <2> QED BY <2>1, <2>2 DEF PoolTyped
<1> QED BY <1>1, <1>2

\* The workers at work and the early waiters, when an event is reported.
LEMMA ReportShrinks ==
  ASSUME PoolTyped, NEW e \in Events, NEW err, Report(e, err)
  PROVE  WithWorker' \subseteq WithWorker \ {e}
BY ReportLeavesPool DEF WithWorker

-----------------------------------------------------------------------------
(* The invariant *)

\* At first nobody asks and no quiet is wanted.
LEMMA QuietInit == Init => QuietInv
<1> SUFFICES ASSUME Init PROVE QuietInv
  OBVIOUS
<1>1. WithWorker = {} /\ EarlyWaiters = {}
  BY DEF Init, WithWorker, EarlyWaiters
<1> QED
  BY <1>1, FS_EmptySet, AccrualAssumption
  DEF Init, QuietInv, PoolTyped, PauseCoversQuiet

\* No step makes the pause too short, nor the early waits too many.
LEMMA QuietStep == QuietInv /\ [Next]_vars => QuietInv'
<1> SUFFICES ASSUME QuietInv, [Next]_vars PROVE QuietInv'
  OBVIOUS
<1> USE AccrualAssumption DEF QuietInv
<1> /\ WithWorker \in SUBSET Events /\ WithWorker' \in SUBSET Events
    /\ EarlyWaiters \in SUBSET WithWorker
  BY DEF WithWorker, EarlyWaiters
<1> /\ Cardinality(WithWorker) \in Nat /\ Cardinality(EarlyWaiters) \in Nat
    /\ EarlyWaiters' \in SUBSET WithWorker'
  BY EventSetsFinite DEF WithWorker, EarlyWaiters
<1> /\ Cardinality(WithWorker') \in Nat /\ Cardinality(EarlyWaiters') \in Nat
  BY EventSetsFinite
<1>1. ASSUME NEW e \in Events, TakeEvent(e)
      PROVE  QuietInv'
  <2>1. WithWorker' = WithWorker \union {e} /\ EarlyWaiters' = EarlyWaiters
    BY <1>1 DEF TakeEvent, WithWorker, EarlyWaiters, PoolTyped
  <2>2. Cardinality(WithWorker') <= PoolSize
    <3>1. Cardinality(WithWorker \union {e}) <= Cardinality(WithWorker) + 1
      BY EventSetsFinite, FS_AddElement
    <3>2. Cardinality(WithWorker) < PoolSize
      BY <1>1 DEF TakeEvent
    <3>3. Cardinality(WithWorker') <= Cardinality(WithWorker) + 1
      BY <2>1, <3>1
    <3> QED BY <3>2, <3>3
  <2> QED BY <1>1, <2>1, <2>2 DEF TakeEvent, PoolTyped, PauseCoversQuiet
<1>2. ASSUME NEW e \in Events, WaitUntilUnpaused(e)
      PROVE  QuietInv'
  <2>1. /\ wake' = [f \in Events |-> IF f = e THEN pausedUntil ELSE wake[f]]
        /\ at' = [at EXCEPT ![e] = "waiting"]
        /\ UNCHANGED <<pausedUntil, quietUntil, sentTooEarly>>
    BY <1>2 DEF WaitUntilUnpaused, PoolTyped
  <2>2. WithWorker' = WithWorker
    BY <1>2, <2>1 DEF WaitUntilUnpaused, WithWorker, PoolTyped
  <2>3. EarlyWaiters' \in SUBSET EarlyWaiters
    BY <2>1 DEF EarlyWaiters, PoolTyped, PauseCoversQuiet
  <2>4. Cardinality(EarlyWaiters') <= Cardinality(EarlyWaiters)
    BY <2>3, Smaller
  <2> QED BY <2>1, <2>2, <2>4 DEF PoolTyped, PauseCoversQuiet
<1>3. ASSUME NEW e \in Events, NothingToAsk(e) \/ Interrupted(e)
      PROVE  QuietInv'
  <2>1. PICK err : Report(e, err) /\ UNCHANGED <<pausedUntil, quietUntil, sentTooEarly>>
    BY <1>3 DEF NothingToAsk, Interrupted, NoAnswer
  <2>2. WithWorker' \in SUBSET WithWorker /\ EarlyWaiters' \in SUBSET EarlyWaiters
    BY <2>1, ReportLeavesPool, ReportShrinks DEF EarlyWaiters
  <2>3. /\ Cardinality(WithWorker') <= Cardinality(WithWorker)
        /\ Cardinality(EarlyWaiters') <= Cardinality(EarlyWaiters)
    BY <2>2, Smaller
  <2>4. PoolTyped'
    BY <2>1, <2>3, ReportLeavesPool DEF PoolTyped
  <2> QED BY <2>1, <2>3, <2>4 DEF PoolTyped, PauseCoversQuiet
<1>4. ASSUME NEW e \in Events, SendRequest(e)
      PROVE  QuietInv'
  <2>1. WithWorker' = WithWorker /\ EarlyWaiters' = EarlyWaiters \ {e}
    BY <1>4 DEF SendRequest, WithWorker, EarlyWaiters, PoolTyped
  <2>2. PoolTyped'
    BY <1>4, <2>1 DEF SendRequest, PoolTyped
  <2>3. CASE quietUntil > 0
    <3>1. e \in EarlyWaiters
      BY <1>4, <2>3 DEF SendRequest, EarlyWaiters, PoolTyped
    <3>2. Cardinality(EarlyWaiters') = Cardinality(EarlyWaiters) - 1
      BY <2>1, <3>1, EventSetsFinite, FS_RemoveElement
    <3> QED BY <1>4, <2>2, <2>3, <3>2 DEF SendRequest, PoolTyped, PauseCoversQuiet
  <2>4. CASE ~(quietUntil > 0)
    <3>1. Cardinality(EarlyWaiters') <= Cardinality(EarlyWaiters)
      BY <2>1, Smaller
    <3> QED BY <1>4, <2>2, <2>4, <3>1 DEF SendRequest, PoolTyped, PauseCoversQuiet
  <2> QED BY <2>3, <2>4
<1>5. ASSUME NEW e \in Events, ReceiveResponse(e)
      PROVE  QuietInv'
  <2>1. PICK response \in Responses :
          /\ SetPausedUntil(response)
          /\ \E err \in ResultOf(GetOrderStatus(response)) : Report(e, err)
    BY <1>5 DEF ReceiveResponse
  <2>2. PICK err : Report(e, err)
    BY <2>1
  <2>3. WithWorker' \in SUBSET (WithWorker \ {e})
    BY <2>2, ReportShrinks
  <2>4. e \in WithWorker
    BY <1>5 DEF ReceiveResponse, WithWorker
  <2>5. /\ Cardinality(WithWorker \ {e}) = Cardinality(WithWorker) - 1
        /\ Cardinality(WithWorker') <= Cardinality(WithWorker \ {e})
    BY <2>3, <2>4, EventSetsFinite, FS_RemoveElement, Smaller
  <2>6. CASE GetOrderStatus(response) = "rate limit"
    <3>1. response.code = 429
      BY <2>1, <2>6 DEF GetOrderStatus, KnownStatuses, FinalStatuses
    <3>2. response.header \in Headers
      BY <2>1, <3>1 DEF Responses
    <3>3. /\ pausedUntil' = After(ProcessRetryAfterHeader(response.header))
          /\ quietUntil' = After(Requested(response.header))
          /\ sentTooEarly' = 0
      BY <2>1, <2>6 DEF SetPausedUntil
    <3>4. pausedUntil' \in Nat /\ quietUntil' \in Nat /\ quietUntil' <= pausedUntil'
      BY <3>2, <3>3, PauseLongEnough
    <3>5. Cardinality(EarlyWaiters') <= Cardinality(WithWorker')
      BY Smaller
    <3>6. PoolTyped'
      BY <2>2, <2>5, <3>3, <3>4, ReportLeavesPool DEF PoolTyped
    <3> QED BY <2>5, <3>3, <3>4, <3>5, <3>6 DEF PoolTyped, PauseCoversQuiet
  <2>7. CASE GetOrderStatus(response) # "rate limit"
    <3>1. UNCHANGED <<pausedUntil, quietUntil, sentTooEarly>>
      BY <2>1, <2>7 DEF SetPausedUntil
    <3>2. EarlyWaiters' \in SUBSET EarlyWaiters
      BY <2>2, <3>1, ReportLeavesPool DEF EarlyWaiters
    <3>3. Cardinality(EarlyWaiters') <= Cardinality(EarlyWaiters)
      BY <3>2, Smaller
    <3>4. PoolTyped'
      BY <2>2, <2>5, <3>1, ReportLeavesPool DEF PoolTyped
    <3> QED BY <3>1, <3>3, <3>4 DEF PoolTyped, PauseCoversQuiet
  <2> QED BY <2>6, <2>7
<1>6. CASE Tick
  <2>1. WithWorker' = WithWorker
    BY <1>6 DEF Tick, WithWorker
  <2>2. EarlyWaiters' \in SUBSET EarlyWaiters
    BY <1>6 DEF Tick, EarlyWaiters, PoolTyped, Later, After
  <2>3. Cardinality(EarlyWaiters') <= Cardinality(EarlyWaiters)
    BY <2>2, Smaller
  <2> QED BY <1>6, <2>1, <2>3 DEF Tick, PoolTyped, PauseCoversQuiet, Later, After
<1>7. CASE Cancel \/ UNCHANGED vars
  BY <1>7 DEF Cancel, vars, PoolTyped, PauseCoversQuiet, WithWorker, EarlyWaiters
<1> QED
  BY <1>1, <1>2, <1>3, <1>4, <1>5, <1>6, <1>7 DEF Next

\* Behind QuietDuringPause: whoever reads the pause waits for as long as the
\* accrual system asked, and the others are fewer than the pool.
THEOREM SpecPauseCoversQuiet == Spec => []PauseCoversQuiet
<1>1. QuietInv => PauseCoversQuiet
  BY DEF QuietInv
<1> QED BY <1>1, QuietInit, QuietStep, PTL DEF Spec

\* During a pause the accrual system sees at most one request of every other worker,
\* for any pool, any width of a word and any Retry-After.
THEOREM SpecQuietDuringPause == Spec => []QuietDuringPause
<1>1. QuietInv => QuietDuringPause
  <2> SUFFICES ASSUME QuietInv PROVE QuietDuringPause
    OBVIOUS
  <2>1. EarlyWaiters \in SUBSET Events
    BY DEF EarlyWaiters
  <2>2. Cardinality(EarlyWaiters) \in Nat
    BY <2>1, EventSetsFinite
  <2> QED
    BY <2>2, AccrualAssumption DEF QuietInv, PoolTyped, PauseCoversQuiet, QuietDuringPause
<1> QED BY <1>1, QuietInit, QuietStep, PTL DEF Spec

-----------------------------------------------------------------------------
(* Which answers end an event *)

\* Every answer that closes no order is an error that is tried again.
LEMMA OtherAnswersRetried ==
  ASSUME NEW answer \in {"REGISTERED", "PROCESSING", "not found by accrual",
                         "rate limit", "error"},
         NEW err \in ResultOf(answer)
  PROVE  answer \notin Closing /\ Retryable(err)
<1>1. answer \notin Closing
  BY DEF Closing, FinalStatuses
<1>2. CASE answer \in {"REGISTERED", "PROCESSING"}
  <2>1. err \in {"error", "not ready"}
    BY <1>1, <1>2 DEF ResultOf
  <2> QED BY <1>1, <2>1 DEF Retryable
<1>3. CASE answer \notin {"REGISTERED", "PROCESSING"}
  <2>1. ResultOf(answer) = {answer}
    BY <1>1, <1>3 DEF ResultOf
  <2>2. err \in {"not found by accrual", "rate limit", "error"}
    BY <1>3, <2>1
  <2> QED BY <1>1, <2>2 DEF Retryable
<1> QED BY <1>2, <1>3

\* No answer but a final status of a known order closes one.
LEMMA OnlyFinalCloses ==
  ASSUME NEW response \in Responses
  PROVE  \/ /\ response.code = 200 /\ response.status \in FinalStatuses
            /\ GetOrderStatus(response) \in Closing
         \/ GetOrderStatus(response) \in {"REGISTERED", "PROCESSING",
                "not found by accrual", "rate limit", "error"}
<1>1. CASE response \in [code : {200}, status : KnownStatuses \union {"unknown"}]
  <2>1. response.code = 200 /\ response.status \in KnownStatuses \union {"unknown"}
    BY <1>1
  <2> DEFINE status == response.status
  <2>2. status \in FinalStatuses \/ status \in {"REGISTERED", "PROCESSING", "unknown"}
    BY <2>1 DEF KnownStatuses
  <2>3. CASE status \in {"REGISTERED", "PROCESSING"}
    BY <2>1, <2>3 DEF GetOrderStatus, KnownStatuses
  <2>4. CASE status = "unknown"
    BY <2>1, <2>4 DEF GetOrderStatus, KnownStatuses, FinalStatuses
  <2>5. CASE status \in FinalStatuses
    <3>1. GetOrderStatus(response) = response.status
      BY <2>1, <2>5 DEF GetOrderStatus, KnownStatuses
    <3> QED BY <2>1, <2>5, <3>1 DEF Closing
  <2> QED BY <2>1, <2>2, <2>3, <2>4, <2>5
<1>2. ASSUME response.code \in {0, 204, 500, 429}
      PROVE  GetOrderStatus(response) \in {"not found by accrual", "rate limit", "error"}
  <2>1. CASE response.code = 204
    BY <2>1 DEF GetOrderStatus
  <2>2. CASE response.code = 429
    BY <2>2 DEF GetOrderStatus
  <2>3. CASE response.code \in {0, 500}
    <3>1. response.code # 200 /\ response.code # 204 /\ response.code # 429
      BY <2>3
    <3> QED BY <3>1 DEF GetOrderStatus
  <2> QED BY <1>2, <2>1, <2>2, <2>3
<1>3. CASE response \in [code : {0, 204, 500}]
  <2>1. response.code \in {0, 204, 500, 429}
    BY <1>3
  <2> QED BY <2>1, <1>2
<1>4. CASE response \in [code : {429}, header : Headers]
  <2>1. response.code \in {0, 204, 500, 429}
    BY <1>4
  <2> QED BY <2>1, <1>2
<1> QED BY <1>1, <1>3, <1>4 DEF Responses

\* A report ends an event only when it has no error, its order is closed, or the
\* context has expired; and it leaves no closed order open.
LEMMA ReportEnds ==
  ASSUME PoolTyped, NEW e \in Events, NEW err, Report(e, err)
  PROVE  /\ at'[e] = "done" => ~Retryable(err) \/ cancelled \/ e \in settled'
         /\ e \in settled' => at'[e] = "done"
BY DEF Report, PoolTyped

\* Typing tells that a report moves no event but its own.
LEMMA FinalStep == QuietInv /\ OnlyFinalAnswersEnd /\ [Next]_vars => OnlyFinalAnswersEnd'
<1> SUFFICES ASSUME QuietInv, OnlyFinalAnswersEnd, [Next]_vars
             PROVE  OnlyFinalAnswersEnd'
  OBVIOUS
<1> USE DEF QuietInv, OnlyFinalAnswersEnd
<1>1. ASSUME NEW e \in Events, TakeEvent(e) PROVE OnlyFinalAnswersEnd'
  BY <1>1 DEF TakeEvent, PoolTyped
<1>2. ASSUME NEW e \in Events, WaitUntilUnpaused(e) PROVE OnlyFinalAnswersEnd'
  BY <1>2 DEF WaitUntilUnpaused, PoolTyped
<1>3. ASSUME NEW e \in Events, NothingToAsk(e) \/ Interrupted(e)
      PROVE  OnlyFinalAnswersEnd'
  <2>1. \E err : Report(e, err) /\ (Retryable(err) \/ cancelled \/ e \in settled)
    <3>1. CASE NothingToAsk(e)
      BY <3>1 DEF NothingToAsk
    <3>2. CASE Interrupted(e)
      <4>1. Retryable("error") /\ Report(e, "error")
        BY <3>2 DEF Interrupted, Retryable
      <4> QED BY <4>1
    <3> QED BY <1>3, <3>1, <3>2
  <2>2. settled' = settled /\ final' = final /\ cancelled' = cancelled
    BY <1>3 DEF NothingToAsk, Interrupted, NoAnswer
  <2>3. \A f \in Events \ {e} : at'[f] = at[f]
    BY <2>1, ReportLeavesPool
  <2>4. PICK err : Report(e, err) /\ (Retryable(err) \/ cancelled \/ e \in settled)
    BY <2>1
  <2> QED BY <2>2, <2>3, <2>4, ReportEnds
<1>4. ASSUME NEW e \in Events, SendRequest(e) PROVE OnlyFinalAnswersEnd'
  BY <1>4 DEF SendRequest, PoolTyped
<1>5. ASSUME NEW e \in Events, ReceiveResponse(e) PROVE OnlyFinalAnswersEnd'
  <2>1. PICK response \in Responses :
          /\ \E err \in ResultOf(GetOrderStatus(response)) :
               Settle(e, GetOrderStatus(response), err) /\ Report(e, err)
          /\ final' = IF response.code = 200 /\ response.status \in FinalStatuses
                      THEN final \union {e} ELSE final
    BY <1>5 DEF ReceiveResponse
  <2> DEFINE answer == GetOrderStatus(response)
  <2>2. PICK err \in ResultOf(answer) : Settle(e, answer, err) /\ Report(e, err)
    BY <2>1
  <2>3. final \subseteq final' /\ cancelled' = cancelled
    BY <1>5, <2>1 DEF ReceiveResponse
  <2>4. \A f \in Events \ {e} : at'[f] = at[f]
    BY <2>2, ReportLeavesPool
  <2>5. /\ settled' = settled \/ (settled' = settled \union {e} /\ answer \in Closing)
        /\ err = "none" => settled' = settled \union {e}
    BY <2>2 DEF Settle
  <2>6. ASSUME answer \in Closing PROVE e \in final'
    <3>1. answer \notin {"REGISTERED", "PROCESSING", "not found by accrual",
                          "rate limit", "error"}
      BY <2>6 DEF Closing, FinalStatuses
    <3>2. response.code = 200 /\ response.status \in FinalStatuses
      BY <2>1, <3>1, OnlyFinalCloses
    <3> QED BY <2>1, <3>2
  <2>7. Retryable(err) \/ e \in settled'
    <3>1. CASE answer \in Closing
      <4>1. answer \notin {"REGISTERED", "PROCESSING"}
        BY <3>1 DEF Closing, FinalStatuses
      <4>2. err \in {"error", "none"}
        BY <2>2, <3>1, <4>1 DEF ResultOf
      <4> QED BY <2>5, <4>2 DEF Retryable
    <3>2. CASE answer \notin Closing
      <4>1. answer \in {"REGISTERED", "PROCESSING", "not found by accrual",
                        "rate limit", "error"}
        BY <2>1, <3>2, OnlyFinalCloses
      <4> QED BY <2>2, <4>1, OtherAnswersRetried
    <3> QED BY <3>1, <3>2
  <2>8. settled' \subseteq final'
    BY <2>3, <2>5, <2>6
  <2>9. (e \in settled' => at'[e] = "done") /\ (at'[e] = "done" => e \in settled' \/ cancelled)
    BY <2>2, <2>7, ReportEnds
  <2> QED BY <2>3, <2>4, <2>5, <2>8, <2>9
<1>6. CASE Tick
  BY <1>6 DEF Tick
<1>7. CASE Cancel \/ UNCHANGED vars
  BY <1>7 DEF Cancel, vars
<1> QED
  BY <1>1, <1>2, <1>3, <1>4, <1>5, <1>6, <1>7 DEF Next

\* As long as the context has not expired, no event is forgotten before a final
\* status that the accrual system has given is stored, whatever it answers and however
\* often an event fails; and none is kept after that.
THEOREM SpecOnlyFinalAnswersEnd == Spec => []OnlyFinalAnswersEnd
<1>1. Init => OnlyFinalAnswersEnd
  BY DEF Init, OnlyFinalAnswersEnd
<1> QED BY <1>1, QuietInit, QuietStep, FinalStep, PTL DEF Spec

-----------------------------------------------------------------------------
(* The arithmetic of the back-off *)

\* The logarithm is that of the power of two at or below a number.
LEMMA FloorLog2Is ==
  ASSUME NEW n \in Nat \ {0}
  PROVE  /\ FloorLog2(n) \in Nat
         /\ 2 ^ FloorLog2(n) <= n /\ n < 2 ^ (FloorLog2(n) + 1)
<1>1. \E k \in 0 .. n : 2 ^ k <= n /\ n < 2 ^ (k + 1)
  BY BetweenPowers
<1>2. /\ FloorLog2(n) \in 0 .. n
      /\ 2 ^ FloorLog2(n) <= n /\ n < 2 ^ (FloorLog2(n) + 1)
  BY <1>1 DEF FloorLog2
<1> QED BY <1>2

\* A delay is shifted by no more than the bits above its highest one, short of
\* the sign.
LEMMA ShiftLimit ==
  ASSUME NEW c \in Configs
  PROVE  \E k \in Nat :
           /\ 2 ^ k <= c.initialDelay /\ c.initialDelay < 2 ^ (k + 1)
           /\ MaxBackOffN(c) \in Nat
           /\ 2 ^ (k + 1 + MaxBackOffN(c)) = Half
<1>1. c.initialDelay \in 1 .. Half - 1 /\ Half \in Nat \ {0, 1}
  BY AccrualAssumption
<1>2. PICK k \in Nat : /\ k = FloorLog2(c.initialDelay)
                       /\ 2 ^ k <= c.initialDelay /\ c.initialDelay < 2 ^ (k + 1)
  BY <1>1, FloorLog2Is
<1>3. PICK bits \in 1 .. Half : Half = 2 ^ bits
  BY AccrualAssumption
<1>4. PICK w \in Nat : w = FloorLog2(Half) /\ 2 ^ w <= Half /\ Half < 2 ^ (w + 1)
  BY <1>1, FloorLog2Is
<1>5. w = bits
  <2>1. 2 ^ bits \in Nat /\ 2 ^ w \in Nat /\ bits < w + 1
    BY <1>3, <1>4, PowerNat, PowerOrder
  <2>2. w < bits + 1
    <3>1. 2 ^ (bits + 1) = 2 * 2 ^ bits
      BY PowerDoubles
    <3>2. 2 ^ w < 2 ^ (bits + 1)
      BY <1>1, <1>3, <1>4, <2>1, <3>1
    <3> QED BY <3>2, PowerOrder
  <2> QED BY <2>1, <2>2
<1>6. k < w
  <2>1. 2 ^ k < 2 ^ w
    BY <1>1, <1>2, <1>3, <1>5, PowerNat
  <2> QED BY <2>1, PowerOrder
<1>7. MaxBackOffN(c) = w - 1 - k
  BY <1>2, <1>4 DEF MaxBackOffN
<1>8. MaxBackOffN(c) \in Nat /\ k + 1 + MaxBackOffN(c) = w
  BY <1>6, <1>7
<1> QED BY <1>2, <1>3, <1>5, <1>8

\* The back-off of the n-th failure: never wraps round, and has doubled n times,
\* or to half of the largest duration and more.
LEMMA BackOffExact ==
  ASSUME NEW c \in Configs, NEW n \in Nat, NEW m \in 0 .. n
  PROVE  /\ BackOffDelay(n, c) \in 0 .. MaxDuration
         /\ AtMost(c.initialDelay * 2 ^ m, Half \div 2) <= BackOffDelay(n, c)
<1>1. PICK x \in Nat : x = c.initialDelay
  BY AccrualAssumption
<1>2. PICK k \in Nat, limit \in Nat :
        /\ 2 ^ k <= x /\ x < 2 ^ (k + 1)
        /\ limit = MaxBackOffN(c) /\ 2 ^ (k + 1 + limit) = Half
  BY <1>1, ShiftLimit
<1>3. PICK s \in Nat : s = AtMost(n, limit)
  BY DEF AtMost
<1>4. s <= limit /\ (s = n \/ s = limit)
  BY <1>3 DEF AtMost
<1>5. Half \in Nat \ {0, 1} /\ 2 ^ s \in Nat /\ 2 ^ m \in Nat /\ 2 ^ limit \in Nat
  BY AccrualAssumption, PowerNat
<1>6. x * 2 ^ s \in 0 .. MaxDuration
  <2>1. x * 2 ^ s < 2 ^ (k + 1 + s)
    BY <1>2, Doubling
  <2>2. 2 ^ (k + 1 + s) <= Half
    <3>1. k + 1 + s \in 0 .. k + 1 + limit /\ k + 1 + limit \in Nat
      BY <1>4
    <3> QED BY <1>2, <3>1, PowerMonotone
  <2>3. x * 2 ^ s \in Nat /\ 2 ^ (k + 1 + s) \in Nat
    BY <1>5, PowerNat
  <2> QED BY <1>5, <2>1, <2>2, <2>3 DEF MaxDuration
<1>7. BackOffDelay(n, c) = x * 2 ^ s
  <2>1. BackOffDelay(n, c) = Wrap(x * 2 ^ s)
    BY <1>1, <1>2, <1>3 DEF BackOffDelay
  <2> QED BY <1>6, <2>1, WrapExact
<1>8. CASE s = n
  <2>1. 2 ^ m <= 2 ^ n /\ 2 ^ n \in Nat
    BY PowerMonotone, PowerNat
  <2>2. x * 2 ^ m <= x * 2 ^ s
    <3>1. PICK p \in Nat, q \in Nat : p = 2 ^ m /\ q = 2 ^ s /\ p <= q
      BY <1>5, <1>8, <2>1
    <3>2. x * q = x * p + x * (q - p) /\ x * (q - p) \in Nat /\ x * p \in Nat
      BY <3>1
    <3> QED BY <3>1, <3>2
  <2>3. x * 2 ^ m \in Nat /\ x * 2 ^ s \in Nat /\ Half \div 2 \in Int
    BY <1>5
  <2>4. AtMost(x * 2 ^ m, Half \div 2) <= x * 2 ^ m
    BY <2>3 DEF AtMost
  <2>5. AtMost(x * 2 ^ m, Half \div 2) \in Int
    BY <2>3 DEF AtMost
  <2>6. AtMost(x * 2 ^ m, Half \div 2) <= x * 2 ^ s
    BY <2>2, <2>3, <2>4, <2>5
  <2> QED BY <1>1, <1>6, <1>7, <2>6
<1>9. CASE s = limit
  <2>1. 2 ^ (k + limit) <= x * 2 ^ s
    BY <1>2, <1>9, Doubling
  <2>2. Half = 2 * 2 ^ (k + limit) /\ 2 ^ (k + limit) \in Nat
    <3>1. k + 1 + limit = (k + limit) + 1
      OBVIOUS
    <3> QED BY <1>2, <3>1, PowerDoubles, PowerNat
  <2>3. Half \div 2 = 2 ^ (k + limit)
    <3>1. \A q \in Nat : (2 * q) \div 2 = q
      OBVIOUS
    <3> QED BY <2>2, <3>1
  <2>4. x * 2 ^ m \in Nat /\ x * 2 ^ s \in Nat
    BY <1>5
  <2>5. AtMost(x * 2 ^ m, Half \div 2) <= Half \div 2
    BY <2>2, <2>3, <2>4 DEF AtMost
  <2>6. AtMost(x * 2 ^ m, Half \div 2) \in Int
    BY <2>2, <2>3, <2>4 DEF AtMost
  <2>7. AtMost(x * 2 ^ m, Half \div 2) <= x * 2 ^ s
    BY <2>1, <2>2, <2>3, <2>4, <2>5, <2>6
  <2> QED BY <1>1, <1>6, <1>7, <2>7
<1> QED BY <1>4, <1>8, <1>9

\* The sum of two durations is one, and no shorter than either.
LEMMA CombineLonger ==
  ASSUME NEW d \in 0 .. MaxDuration, NEW r \in 0 .. MaxDuration
  PROVE  CombineDelay(d, r) \in 0 .. MaxDuration /\ d <= CombineDelay(d, r)
<1>1. Half \in Nat \ {0, 1} /\ 2 * Half \in Nat \ {0}
  BY AccrualAssumption
<1>2. d \in 0 .. 2 * Half - 1 /\ r \in 0 .. 2 * Half - 1
  BY <1>1 DEF MaxDuration
<1>3. d % (2 * Half) = d /\ r % (2 * Half) = r
  BY <1>1, <1>2, SmallRemainder
<1> QED BY <1>1, <1>3 DEF CombineDelay, AtMost, MaxDuration

\* The delay of the n-th failure, whatever the jitter.
LEMMA DelayHolds ==
  ASSUME TypeOK, NEW n \in Nat, NEW m \in 0 .. n, NEW d \in NextDelays(n, config)
  PROVE  /\ d \in 0 .. MaxDuration
         /\ ExpectedDelay(m) <= d
         /\ config.maxDelay > 0 => d <= config.maxDelay
<1>1. /\ config \in Configs /\ Half \in Nat \ {0, 1}
      /\ config.maxJitter \in 1 .. Half - 1 /\ config.maxDelay \in 0 .. Half - 1
      /\ config.minRetriesUntilBackOff \in Nat
  BY AccrualAssumption DEF TypeOK
<1>2. PICK e \in DelayFn(n, config) :
        d = IF config.maxDelay > 0 THEN AtMost(e, config.maxDelay) ELSE e
  BY DEF NextDelays
<1>3. PICK t \in Int : t = AtMost(config.initialDelay * 2 ^ m, Half \div 2)
  <2>1. config.initialDelay * 2 ^ m \in Int
    <3>1. config.initialDelay \in Int /\ 2 ^ m \in Int
      BY <1>1, AccrualAssumption, PowerNat
    <3> QED BY <3>1
  <2>2. Half \div 2 \in Int
    BY <1>1
  <2> QED BY <2>1, <2>2 DEF AtMost
<1>4. e \in 0 .. MaxDuration /\ (n >= config.minRetriesUntilBackOff => t <= e)
  <2>1. CASE n < config.minRetriesUntilBackOff
    BY <1>1, <2>1 DEF DelayFn, RandomDelays, MaxDuration
  <2>2. CASE ~(n < config.minRetriesUntilBackOff)
    <3>1. PICK r \in RandomDelays(config) : e = CombineDelay(BackOffDelay(n, config), r)
      BY <2>2 DEF DelayFn
    <3>2. r \in 0 .. MaxDuration
      BY <1>1, <3>1 DEF RandomDelays, MaxDuration
    <3>3. BackOffDelay(n, config) \in 0 .. MaxDuration /\ t <= BackOffDelay(n, config)
      BY <1>1, <1>3, BackOffExact
    <3>4. e \in 0 .. MaxDuration /\ BackOffDelay(n, config) <= e
      BY <3>1, <3>2, <3>3, CombineLonger
    <3>5. MaxDuration \in Int
      BY <1>1 DEF MaxDuration
    <3> QED BY <1>3, <3>3, <3>4, <3>5
  <2> QED BY <2>1, <2>2
<1>5. d \in 0 .. MaxDuration /\ (config.maxDelay > 0 => d <= config.maxDelay)
  BY <1>1, <1>2, <1>4 DEF AtMost, MaxDuration
<1>6. ExpectedDelay(m) <= d
  <2>1. CASE m < config.minRetriesUntilBackOff
    BY <1>1, <1>5, <2>1 DEF ExpectedDelay, MaxDuration
  <2>2. CASE ~(m < config.minRetriesUntilBackOff)
    <3>1. t <= e
      BY <1>1, <1>4, <2>2
    <3>2. ExpectedDelay(m) = IF config.maxDelay > 0 THEN AtMost(t, config.maxDelay) ELSE t
      BY <1>3, <2>2 DEF ExpectedDelay
    <3> QED BY <1>1, <1>2, <1>3, <1>4, <3>1, <3>2 DEF AtMost, MaxDuration
  <2> QED BY <2>1, <2>2
<1> QED BY <1>5, <1>6

-----------------------------------------------------------------------------
(* Types, and the delays that are set *)

\* A report of a failure sets the delay of the next attempt.
LEMMA ReportDelays ==
  ASSUME TypeOK, NEW e \in Events, NEW err, Report(e, err)
  PROVE  /\ at' \in [Events -> {"queued", "taken", "waiting", "asked", "done"}]
         /\ wake' \in [Events -> 0 .. MaxDuration]
         /\ retries' \in [Events -> 0 .. MaxRetries]
         /\ at'[e] = "queued" => /\ wake'[e] >= ExpectedDelay(retries'[e])
                                 /\ config.maxDelay > 0 => wake'[e] <= config.maxDelay
         /\ \A f \in Events \ {e} : at'[f] = at[f]
<1>1. CASE Retryable(err) /\ ~cancelled /\ e \notin settled'
  <2>1. PICK d \in NextDelays(retries[e] + 1, config) :
          /\ at' = [at EXCEPT ![e] = "queued"]
          /\ wake' = [wake EXCEPT ![e] = After(d)]
          /\ retries' = [retries EXCEPT ![e] = AtMost(@ + 1, MaxRetries)]
    BY <1>1 DEF Report
  <2>2. PICK n \in Nat : n = retries[e] + 1
    BY DEF TypeOK
  <2>3. PICK m \in 0 .. n : m = AtMost(n, MaxRetries) /\ m \in 0 .. MaxRetries
    BY AccrualAssumption DEF AtMost
  <2>4. /\ at' = [at EXCEPT ![e] = "queued"]
        /\ wake' = [wake EXCEPT ![e] = After(d)]
        /\ retries' = [retries EXCEPT ![e] = m]
    BY <2>1, <2>2, <2>3
  <2>5. /\ d \in 0 .. MaxDuration /\ ExpectedDelay(m) <= d
        /\ config.maxDelay > 0 => d <= config.maxDelay
    BY <2>2, DelayHolds
  <2>6. After(d) = d
    BY <2>5 DEF After
  <2> QED BY <2>3, <2>4, <2>5, <2>6 DEF TypeOK
<1>2. CASE ~(Retryable(err) /\ ~cancelled /\ e \notin settled')
  <2>1. 0 \in 0 .. MaxDuration
    BY AccrualAssumption DEF MaxDuration
  <2>2. /\ at' = [at EXCEPT ![e] = "done"]
        /\ wake' = [wake EXCEPT ![e] = 0] /\ retries' = retries
    BY <1>2 DEF Report
  <2> QED BY <2>1, <2>2 DEF TypeOK
<1> QED BY <1>1, <1>2

\* No pause is longer than a duration can be.
LEMMA PauseTyped ==
  ASSUME NEW h \in Headers
  PROVE  /\ After(ProcessRetryAfterHeader(h)) \in 0 .. MaxDuration
         /\ After(Requested(h)) \in 0 .. MaxDuration
<1>1. /\ Half \in Nat \ {0, 1} /\ Second \in 1 .. Half - 1 /\ MaxDuration = Half - 1
      /\ NoHeader \notin Int
      /\ (h \in Int /\ h # NoHeader) \/ h = NoHeader
  BY AccrualAssumption DEF MaxDuration
<1>2. ASSUME h \in 0 .. MaxDuration, h # NoHeader
      PROVE  After(Wrap(h * Second)) \in 0 .. MaxDuration
  <2>1. h * Second \in Nat
    BY <1>1, <1>2
  <2>2. (h * Second + Half) % (2 * Half) \in 0 .. 2 * Half - 1
    BY <1>1, <2>1
  <2>3. Wrap(h * Second) \in -Half .. Half - 1
    BY <1>1, <2>2 DEF Wrap
  <2> QED BY <1>1, <2>3 DEF After
<1>3. After(ProcessRetryAfterHeader(h)) \in 0 .. MaxDuration
  <2>1. CASE h \in 0 .. MaxDuration /\ h # NoHeader
    <3>1. ProcessRetryAfterHeader(h) = Wrap(h * Second)
      BY <1>1, <2>1 DEF ProcessRetryAfterHeader
    <3> QED BY <1>2, <2>1, <3>1
  <2>2. CASE h = NoHeader
    <3>1. ProcessRetryAfterHeader(h) = 0
      BY <1>1, <2>2 DEF ProcessRetryAfterHeader
    <3> QED BY <1>1, <3>1 DEF After
  <2>3. CASE h # NoHeader /\ h \notin 0 .. 2 * Half - 1
    <3>1. ProcessRetryAfterHeader(h) = Second
      BY <1>1, <2>3 DEF ProcessRetryAfterHeader
    <3> QED BY <1>1, <3>1 DEF After
  <2>4. CASE h # NoHeader /\ h \in Half .. 2 * Half - 1
    <3>1. ProcessRetryAfterHeader(h) = MaxDuration
      BY <1>1, <2>4 DEF ProcessRetryAfterHeader
    <3> QED BY <1>1, <3>1 DEF After
  <2> QED BY <1>1, <2>1, <2>2, <2>3, <2>4
<1>4. After(Requested(h)) \in 0 .. MaxDuration
  <2>1. CASE h \in 0 .. MaxDuration /\ h # NoHeader
    <3>1. h * Second \in Nat
      BY <1>1, <2>1
    <3>2. Requested(h) = IF h * Second <= MaxDuration THEN h * Second ELSE 0
      BY <1>1, <2>1, <3>1 DEF Requested
    <3> QED BY <1>1, <3>1, <3>2 DEF After
  <2>2. CASE ~(h \in 0 .. MaxDuration) \/ h = NoHeader
    BY <1>1, <2>2 DEF Requested, After
  <2> QED BY <2>1, <2>2
<1> QED BY <1>3, <1>4

\* The types hold at first.
LEMMA InitTypeOK == Init => TypeOK
<1> SUFFICES ASSUME Init PROVE TypeOK
  OBVIOUS
<1>1. WithWorker = {}
  BY DEF Init, WithWorker
<1>2. cancelled \in BOOLEAN /\ settled \subseteq Events /\ final \subseteq Events
  BY DEF Init
<1>3. 0 \in 0 .. MaxDuration /\ 0 \in 0 .. MaxRetries
  BY AccrualAssumption DEF MaxDuration
<1>4. Cardinality(WithWorker) <= PoolSize
  BY <1>1, FS_EmptySet, AccrualAssumption
<1> QED BY <1>2, <1>3, <1>4 DEF Init, TypeOK

\* An event goes back to the queue only with a delay that follows the back-off.
Postponed(e) ==
  at[e] # "queued" /\ at'[e] = "queued" =>
    /\ wake'[e] >= ExpectedDelay(retries'[e])
    /\ config.maxDelay > 0 => wake'[e] <= config.maxDelay

\* QuietInv counts the events that are with a worker.
LEMMA StepTyped ==
  ASSUME TypeOK, QuietInv', [Next]_vars
  PROVE  TypeOK' /\ \A e \in Events : Postponed(e)
<1> USE DEF TypeOK
<1>0. Cardinality(WithWorker)' <= PoolSize
  BY DEF QuietInv, PoolTyped
<1>1. ASSUME NEW e \in Events, NothingToAsk(e) \/ Interrupted(e)
      PROVE  TypeOK' /\ \A f \in Events : Postponed(f)
  <2>1. PICK err : Report(e, err) /\ NoAnswer
    BY <1>1 DEF NothingToAsk, Interrupted
  <2> QED BY <1>0, <2>1, ReportDelays DEF Postponed, NoAnswer
<1>2. ASSUME NEW e \in Events, ReceiveResponse(e)
      PROVE  TypeOK' /\ \A f \in Events : Postponed(f)
  <2>1. PICK response \in Responses :
          /\ SetPausedUntil(response)
          /\ \E err \in ResultOf(GetOrderStatus(response)) :
               Settle(e, GetOrderStatus(response), err) /\ Report(e, err)
          /\ final' = IF response.code = 200 /\ response.status \in FinalStatuses
                      THEN final \union {e} ELSE final
    BY <1>2 DEF ReceiveResponse
  <2>2. PICK err : Settle(e, GetOrderStatus(response), err) /\ Report(e, err)
    BY <2>1
  <2>3. /\ pausedUntil' \in 0 .. MaxDuration /\ quietUntil' \in 0 .. MaxDuration
        /\ sentTooEarly' \in Nat
    <3>1. CASE GetOrderStatus(response) = "rate limit"
      <4>1. response.code = 429
        BY <2>1, <3>1 DEF GetOrderStatus, KnownStatuses, FinalStatuses
      <4>2. response.header \in Headers
        BY <2>1, <4>1 DEF Responses
      <4>3. /\ pausedUntil' = After(ProcessRetryAfterHeader(response.header))
            /\ quietUntil' = After(Requested(response.header))
            /\ sentTooEarly' = 0
        BY <2>1, <3>1 DEF SetPausedUntil
      <4>4. /\ After(ProcessRetryAfterHeader(response.header)) \in 0 .. MaxDuration
            /\ After(Requested(response.header)) \in 0 .. MaxDuration
        BY <4>2, PauseTyped
      <4> QED BY ONLY <4>3, <4>4
    <3>2. CASE GetOrderStatus(response) # "rate limit"
      BY <2>1, <3>2 DEF SetPausedUntil
    <3> QED BY <3>1, <3>2
  <2>4. /\ final' \subseteq Events /\ settled' \subseteq Events
        /\ config' = config /\ cancelled' = cancelled
    BY <1>2, <2>1, <2>2 DEF ReceiveResponse, Settle
  <2>5. /\ at' \in [Events -> {"queued", "taken", "waiting", "asked", "done"}]
        /\ wake' \in [Events -> 0 .. MaxDuration]
        /\ retries' \in [Events -> 0 .. MaxRetries]
        /\ \A f \in Events : Postponed(f)
    BY <2>2, ReportDelays DEF Postponed
  <2> QED BY <1>0, <2>3, <2>4, <2>5
<1>3. ASSUME NEW e \in Events, TakeEvent(e)
      PROVE  TypeOK' /\ \A f \in Events : Postponed(f)
  BY <1>0, <1>3 DEF TakeEvent, Postponed
<1>4. ASSUME NEW e \in Events, WaitUntilUnpaused(e)
      PROVE  TypeOK' /\ \A f \in Events : Postponed(f)
  BY <1>0, <1>4 DEF WaitUntilUnpaused, Postponed
<1>5. ASSUME NEW e \in Events, SendRequest(e)
      PROVE  TypeOK' /\ \A f \in Events : Postponed(f)
  BY <1>0, <1>5 DEF SendRequest, Postponed
<1>6. CASE Tick
  <2>1. \A n \in 0 .. MaxDuration : Later(n) \in 0 .. MaxDuration
    BY AccrualAssumption DEF Later, After, MaxDuration
  <2> QED BY <1>0, <1>6, <2>1 DEF Tick, Postponed
<1>7. CASE Cancel \/ UNCHANGED vars
  BY <1>0, <1>7 DEF Cancel, vars, Postponed
<1> QED
  BY <1>1, <1>2, <1>3, <1>4, <1>5, <1>6, <1>7 DEF Next

\* Every timer and pause is a duration a machine word holds, and no more events
\* are with workers than the pool has, for any pool and any width of a word.
THEOREM SpecTypeOK == Spec => []TypeOK
<1>1. TypeOK /\ QuietInv /\ [Next]_vars => TypeOK'
  BY QuietStep, StepTyped
<1> QED BY <1>1, InitTypeOK, QuietInit, QuietStep, PTL DEF Spec

\* However often an event has failed, its next attempt is at least the initial
\* delay doubled as often away, up to the cap or half of the largest duration, for
\* any configuration and any width of a word: the shift never overflows.
THEOREM SpecBackOffHolds == Spec => BackOffHolds
<1>1. TypeOK /\ QuietInv /\ [Next]_vars => (\A e \in Events : Postponed(e))
  BY QuietStep, StepTyped
<1>2. (\A e \in Events : Postponed(e)) =>
        \A e \in Events :
          at[e] # "queued" /\ at'[e] = "queued" =>
            /\ wake'[e] >= ExpectedDelay(retries'[e])
            /\ config.maxDelay > 0 => wake'[e] <= config.maxDelay
  BY DEF Postponed
<1> QED BY <1>1, <1>2, QuietInit, QuietStep, SpecTypeOK, PTL DEF Spec, BackOffHolds
=============================================================================
