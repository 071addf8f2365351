--------------------------- MODULE OrderProcessor ---------------------------
(***************************************************************************)
(* The asynchronous order processor (internal/gophermart/service/workers): *)
(* the Run goroutine (the "main loop"), a pool of workers, the goroutine   *)
(* that processes their callbacks, the upload handlers that notify the     *)
(* processor of new orders, the wake-up timer, and the durable queue the   *)
(* processor shares with everybody, at the granularity of one database     *)
(* transaction per step.                                                   *)
(*                                                                         *)
(* Every goroutine has a program counter; a step is the code between two   *)
(* points where another goroutine can be observed (a channel operation, a  *)
(* database or HTTP call, a critical section of the state's mutex).        *)
(*                                                                         *)
(* Instants are kept as the ticks left until they come, so that a state    *)
(* does not depend on how long the program has run: Tick lowers them all.  *)
(***************************************************************************)
EXTENDS Integers, Sequences, FiniteSets

CONSTANTS
  Orders,     \* order numbers users may upload
  Workers,    \* the workers of the pool; the pool size is their number
  NoOrder,    \* stands for "no event" in a goroutine's hands
  MaxDelay,   \* longest retry delay, in ticks
  MaxPause,   \* longest Retry-After of the accrual system, in ticks
  Lag,        \* how far past an instant is told apart from "longer ago"
  Preload,    \* config.EnableOrderPreloadingOnStart
  Faults      \* what may go wrong: see FaultKinds

\* "read"   a database read may fail, or an event's deadline pass before it,
\* "write"  a database write may fail, committed or not,
\* "cancel" the application may be told to stop (the Run context is cancelled),
\* "rerun"  Run may be called again on the same OrderProcessor,
\* "crash"  the process may die and start anew.
FaultKinds == {"read", "write", "cancel", "rerun", "crash"}

ASSUME ConstantsAssumption ==
  /\ NoOrder \notin Orders
  /\ Workers # {} /\ IsFiniteSet(Workers)
  /\ MaxDelay \in Nat /\ MaxPause \in Nat /\ Lag \in Nat
  /\ Preload \in BOOLEAN
  /\ Faults \subseteq FaultKinds

VARIABLES
  \* -- the database --
  status,          \* orders.status, "ABSENT" without a row
  queued,          \* orders with a row in processable_orders
  due,             \* ticks until processable_orders.process_after
  credits,         \* how often the accrual of an order reached a balance
  \* -- orderProcessorState --
  notifyCh,        \* notifyCh (capacity 1) holds a notification
  ordersInFlight, pendingOrders,
  nextWakeupTime,  \* ticks until it, never below -Lag
  wakeupTimer,     \* ticks until it fires, 0: fired and unread, Off: not armed
  isRunning,
  hasStarted,      \* startedCh exists (and is closed)
  \* -- the Run goroutine --
  ctxDone, runPc, runEvent, excludeIDs,
  \* -- channels between the goroutines --
  workCh, workClosed,
  callbackCh,      \* the one slot of callbackCh (capacity 1), or NoResult
  callbackClosed,
  \* -- worker goroutines --
  workerPc, workerEvent, workerAnswer, workerErr,
  workerWait,      \* ticks until the timer of waitUntilUnpaused fires
  pausedUntil,     \* ticks until orderEventWorkerContext.pausedUntil
  \* -- the callback goroutine --
  callbackPc, callbackEvent,
  processAfter,    \* ticks until the next attempt of callbackEvent
  \* -- upload handlers: one per order, up to the end of NewOrderArrived --
  uploadPc

dbVars == <<status, queued, due, credits>>
stateVars == <<ordersInFlight, pendingOrders, nextWakeupTime, wakeupTimer,
               isRunning, hasStarted>>
runVars == <<runPc, runEvent, excludeIDs>>
chanVars == <<workCh, workClosed, callbackCh, callbackClosed>>
workerVars == <<workerPc, workerEvent, workerAnswer, workerErr, workerWait>>
callbackVars == <<callbackPc, callbackEvent, processAfter>>
vars == <<dbVars, stateVars, notifyCh, ctxDone, runVars, chanVars, workerVars,
          pausedUntil, callbackVars, uploadPc>>

-----------------------------------------------------------------------------
(* Helpers *)

Processable == {"NEW", "PROCESSING"}
Statuses == Processable \cup {"ABSENT", "INVALID", "PROCESSED"}

Off == -1
NoResult == [order |-> NoOrder, err |-> "nil"]

\* processAccrualClientOrder treats REGISTERED like PROCESSING.
Answers == {"PROCESSING", "PROCESSED", "INVALID"}

PoolSize == Cardinality(Workers)

\* A countdown stops at its floor.
Later(x, floor) == IF x > floor THEN x - 1 ELSE floor
AtLeastZero(x) == IF x > 0 THEN x ELSE 0

\* A call fails by itself, or because its context is cancelled.
MayFail(call) == call \in Faults \/ ctxDone

\* getDelayFn: everything but success is retried. ErrOrderEventDiscarded is
\* never produced, and domain.ErrOrderNotFound cannot be: rows of orders are
\* never deleted.
Retryable(err) == err # "nil"

HasFinished == hasStarted /\ ordersInFlight = {} /\ pendingOrders = {}

-----------------------------------------------------------------------------
(* Initial states: the program has just been started on an empty database. *)

FreshProcess ==
  /\ notifyCh = FALSE
  /\ ordersInFlight = {} /\ pendingOrders = {}
  /\ nextWakeupTime = -Lag /\ wakeupTimer = Off
  /\ isRunning = FALSE /\ hasStarted = FALSE
  /\ ctxDone = FALSE
  /\ runPc = IF Preload THEN "trigger" ELSE "start"
  /\ runEvent = NoOrder /\ excludeIDs = {}
  /\ workCh = <<>> /\ workClosed = TRUE
  /\ callbackCh = NoResult /\ callbackClosed = TRUE
  /\ workerPc = [w \in Workers |-> "exited"]
  /\ workerEvent = [w \in Workers |-> NoOrder]
  /\ workerAnswer = [w \in Workers |-> "none"]
  /\ workerErr = [w \in Workers |-> "nil"]
  /\ workerWait = [w \in Workers |-> 0]
  /\ pausedUntil = 0
  /\ callbackPc = "exited" /\ callbackEvent = NoOrder /\ processAfter = 0
  /\ uploadPc = [o \in Orders |-> "idle"]

Init ==
  /\ status = [o \in Orders |-> "ABSENT"]
  /\ queued = {}
  /\ due = [o \in Orders |-> 0]
  /\ credits = [o \in Orders |-> 0]
  /\ FreshProcess

-----------------------------------------------------------------------------
(* The database, one transaction per operator. *)

\* transactionCreateOrder: a NEW order and its row in processable_orders.
CreateOrder(o) ==
  /\ status' = [status EXCEPT ![o] = "NEW"]
  /\ queued' = queued \cup {o}
  /\ due' = [due EXCEPT ![o] = 0]
  /\ UNCHANGED credits

\* The update does not look at the current status.
MarkOrderProcessing(o) ==
  /\ status' = [status EXCEPT ![o] = "PROCESSING"]
  /\ UNCHANGED <<queued, due, credits>>

\* Mutant of MarkOrderInvalid: the row is not removed from the queue.
MarkOrderInvalidKeepsRow(o) ==
  /\ status' = [status EXCEPT ![o] = "INVALID"]
  /\ UNCHANGED <<queued, due, credits>>

MarkOrderInvalid(o) ==
  /\ status' = [status EXCEPT ![o] = "INVALID"]
  /\ queued' = queued \ {o}
  /\ UNCHANGED <<due, credits>>

\* Status, accrual, balance and removal from the queue in one transaction.
MarkOrderProcessed(o) ==
  /\ status' = [status EXCEPT ![o] = "PROCESSED"]
  /\ credits' = [credits EXCEPT ![o] = @ + 1]
  /\ queued' = queued \ {o}
  /\ UNCHANGED due

\* Mutant of NextProcessableOrders: the query ignores its exclude list.
AllProcessableOrders(exclude) ==
  {o \in queued : status[o] \in Processable /\ due[o] = 0}

\* Orders the query of GetNextProcessableOrder can return. ORDER BY chooses
\* among rows that are all due; the choice is left open here.
NextProcessableOrders(exclude) ==
  {o \in queued \ exclude : status[o] \in Processable /\ due[o] = 0}

-----------------------------------------------------------------------------
(* TriggerQueueProcessing: empty the notification channel, then send. *)

DrainNotifyCh == notifyCh' = FALSE

SendNotification ==
  /\ ~notifyCh
  /\ notifyCh' = TRUE

\* OrderManager.CreateOrder in a handler's goroutine. An order that exists
\* already changes nothing. A commit whose answer is lost makes the handler
\* return an error although the order exists, and nobody is notified.
Upload(o) ==
  /\ uploadPc[o] = "idle" /\ status[o] = "ABSENT"
  /\ CreateOrder(o)
  /\ \/ uploadPc' = [uploadPc EXCEPT ![o] = "trigger"]
     \/ "write" \in Faults /\ UNCHANGED uploadPc
  /\ UNCHANGED <<stateVars, notifyCh, ctxDone, runVars, chanVars, workerVars,
                 pausedUntil, callbackVars>>

UploadTrigger(o) ==
  /\ uploadPc[o] = "trigger"
  /\ DrainNotifyCh
  /\ uploadPc' = [uploadPc EXCEPT ![o] = "notify"]
  /\ UNCHANGED <<dbVars, stateVars, ctxDone, runVars, chanVars, workerVars,
                 pausedUntil, callbackVars>>

UploadNotify(o) ==
  /\ uploadPc[o] = "notify"
  /\ SendNotification
  /\ uploadPc' = [uploadPc EXCEPT ![o] = "idle"]
  /\ UNCHANGED <<dbVars, stateVars, ctxDone, runVars, chanVars, workerVars,
                 pausedUntil, callbackVars>>

-----------------------------------------------------------------------------
(* Run: start-up *)

\* startEnqueueingProcessableOrders, when preloading is enabled.
RunTrigger ==
  /\ runPc = "trigger"
  /\ DrainNotifyCh
  /\ runPc' = "notify"
  /\ UNCHANGED <<dbVars, stateVars, ctxDone, runEvent, excludeIDs, chanVars,
                 workerVars, pausedUntil, callbackVars, uploadPc>>

RunNotify ==
  /\ runPc = "notify"
  /\ SendNotification
  /\ runPc' = "start"
  /\ UNCHANGED <<dbVars, stateVars, ctxDone, runEvent, excludeIDs, chanVars,
                 workerVars, pausedUntil, callbackVars, uploadPc>>

\* startWorkers with fresh channels, then orderProcessorState.Start.
StartWorkers ==
  /\ runPc = "start"
  /\ workCh' = <<>> /\ workClosed' = FALSE
  /\ callbackCh' = NoResult /\ callbackClosed' = FALSE
  /\ workerPc' = [w \in Workers |-> "receive"]
  /\ callbackPc' = "receive"
  /\ isRunning' = TRUE /\ hasStarted' = TRUE
  /\ runPc' = "select"
  /\ UNCHANGED <<dbVars, ordersInFlight, pendingOrders, nextWakeupTime,
                 wakeupTimer, notifyCh, ctxDone, runEvent, excludeIDs,
                 workerEvent, workerAnswer, workerErr, workerWait, pausedUntil,
                 callbackEvent, processAfter, uploadPc>>

-----------------------------------------------------------------------------
(* Run: mainLoop and processQueue *)

\* The three cases of the select statement; any that is ready may be taken.
SelectNotification ==
  /\ runPc = "select" /\ notifyCh
  /\ notifyCh' = FALSE
  /\ runPc' = "next"
  /\ UNCHANGED <<dbVars, stateVars, ctxDone, runEvent, excludeIDs, chanVars,
                 workerVars, pausedUntil, callbackVars, uploadPc>>

SelectWakeup ==
  /\ runPc = "select" /\ wakeupTimer = 0
  /\ wakeupTimer' = Off
  /\ runPc' = "next"
  /\ UNCHANGED <<dbVars, ordersInFlight, pendingOrders, nextWakeupTime,
                 isRunning, hasStarted, notifyCh, ctxDone, runEvent,
                 excludeIDs, chanVars, workerVars, pausedUntil, callbackVars,
                 uploadPc>>

SelectDone ==
  /\ runPc = "select" /\ ctxDone
  /\ runPc' = "stop"
  /\ UNCHANGED <<dbVars, stateVars, notifyCh, ctxDone, runEvent, excludeIDs,
                 chanVars, workerVars, pausedUntil, callbackVars, uploadPc>>

\* The loop condition of processQueue, then NextEvent up to the snapshot
\* getOrdersInFlight takes for the query.
NextEvent ==
  /\ runPc = "next"
  /\ \/ ctxDone /\ runPc' = "select" /\ UNCHANGED excludeIDs
     \/ ~ctxDone /\ runPc' = "query" /\ excludeIDs' = ordersInFlight
  /\ UNCHANGED <<dbVars, stateVars, notifyCh, ctxDone, runEvent, chanVars,
                 workerVars, pausedUntil, callbackVars, uploadPc>>

\* GetNextProcessableOrder: an order, none, or an error. The last two end
\* processQueue.
GetNextProcessableOrder ==
  /\ runPc = "query"
  /\ \/ \E o \in NextProcessableOrders(excludeIDs) :
          runEvent' = o /\ runPc' = "admit"
     \/ /\ NextProcessableOrders(excludeIDs) = {} \/ MayFail("read")
        /\ runPc' = "select" /\ UNCHANGED runEvent
  /\ excludeIDs' = {}
  /\ UNCHANGED <<dbVars, stateVars, notifyCh, ctxDone, chanVars, workerVars,
                 pausedUntil, callbackVars, uploadPc>>

\* Mutants of AdmitEvent: the order is not recorded as in flight, or stays
\* recorded as pending.
AdmitEventUncounted ==
  /\ runPc = "admit"
  /\ pendingOrders' = pendingOrders \ {runEvent}
  /\ runPc' = "take"
  /\ UNCHANGED <<dbVars, ordersInFlight, nextWakeupTime, wakeupTimer, isRunning,
                 hasStarted, notifyCh, ctxDone, runEvent, excludeIDs, chanVars,
                 workerVars, pausedUntil, callbackVars, uploadPc>>

AdmitEventStillPending ==
  /\ runPc = "admit"
  /\ ordersInFlight' = ordersInFlight \cup {runEvent}
  /\ runPc' = "take"
  /\ UNCHANGED <<dbVars, pendingOrders, nextWakeupTime, wakeupTimer, isRunning,
                 hasStarted, notifyCh, ctxDone, runEvent, excludeIDs, chanVars,
                 workerVars, pausedUntil, callbackVars, uploadPc>>

\* incrementEventsInFlight and removePendingOrder.
AdmitEvent ==
  /\ runPc = "admit"
  /\ ordersInFlight' = ordersInFlight \cup {runEvent}
  /\ pendingOrders' = pendingOrders \ {runEvent}
  /\ runPc' = "take"
  /\ UNCHANGED <<dbVars, nextWakeupTime, wakeupTimer, isRunning, hasStarted,
                 notifyCh, ctxDone, runEvent, excludeIDs, chanVars, workerVars,
                 pausedUntil, callbackVars, uploadPc>>

\* Mutant of TakeEvent: one event per notification, no loop in processQueue.
TakeOneEvent ==
  /\ runPc = "take" /\ Len(workCh) < PoolSize
  /\ workCh' = Append(workCh, runEvent)
  /\ runEvent' = NoOrder
  /\ runPc' = "select"
  /\ UNCHANGED <<dbVars, stateVars, notifyCh, ctxDone, excludeIDs, workClosed,
                 callbackCh, callbackClosed, workerVars, pausedUntil,
                 callbackVars, uploadPc>>

\* A send on workCh: blocks while its buffer of poolSize events is full.
TakeEvent ==
  /\ runPc = "take" /\ Len(workCh) < PoolSize
  /\ workCh' = Append(workCh, runEvent)
  /\ runEvent' = NoOrder
  /\ runPc' = "next"
  /\ UNCHANGED <<dbVars, stateVars, notifyCh, ctxDone, excludeIDs, workClosed,
                 callbackCh, callbackClosed, workerVars, pausedUntil,
                 callbackVars, uploadPc>>

-----------------------------------------------------------------------------
(* Run: shutdown *)

\* orderProcessorState.Stop. It leaves nextWakeupTime as it is.
Stop ==
  /\ runPc = "stop"
  /\ pendingOrders' = {}
  /\ wakeupTimer' = Off
  /\ isRunning' = FALSE
  /\ runPc' = "close"
  /\ UNCHANGED <<dbVars, ordersInFlight, nextWakeupTime, hasStarted, notifyCh,
                 ctxDone, runEvent, excludeIDs, chanVars, workerVars,
                 pausedUntil, callbackVars, uploadPc>>

\* orderEventWorkerPool.Wait up to wg.Wait.
CloseWorkCh ==
  /\ runPc = "close"
  /\ workClosed' = TRUE
  /\ runPc' = "waitWorkers"
  /\ UNCHANGED <<dbVars, stateVars, notifyCh, ctxDone, runEvent, excludeIDs,
                 workCh, callbackCh, callbackClosed, workerVars, pausedUntil,
                 callbackVars, uploadPc>>

\* Mutant of WaitWorkers: callbackCh is closed without waiting for the workers.
CloseCallbackChAtOnce ==
  /\ runPc = "waitWorkers"
  /\ callbackClosed' = TRUE
  /\ runPc' = "waitCallbacks"
  /\ UNCHANGED <<dbVars, stateVars, notifyCh, ctxDone, runEvent, excludeIDs,
                 workCh, workClosed, callbackCh, workerVars, pausedUntil,
                 callbackVars, uploadPc>>

\* wg.Wait of the pool, then close(callbackCh).
WaitWorkers ==
  /\ runPc = "waitWorkers"
  /\ \A w \in Workers : workerPc[w] = "exited"
  /\ callbackClosed' = TRUE
  /\ runPc' = "waitCallbacks"
  /\ UNCHANGED <<dbVars, stateVars, notifyCh, ctxDone, runEvent, excludeIDs,
                 workCh, workClosed, callbackCh, workerVars, pausedUntil,
                 callbackVars, uploadPc>>

\* wg.Wait for the callback goroutine; Run returns.
WaitCallbacks ==
  /\ runPc = "waitCallbacks"
  /\ callbackPc = "exited"
  /\ runPc' = "returned"
  /\ UNCHANGED <<dbVars, stateVars, notifyCh, ctxDone, runEvent, excludeIDs,
                 chanVars, workerVars, pausedUntil, callbackVars, uploadPc>>

-----------------------------------------------------------------------------
(* orderEventWorker *)

\* callbackOnDone is next, with the given error.
Report(w, err) ==
  /\ workerPc' = [workerPc EXCEPT ![w] = "report"]
  /\ workerErr' = [workerErr EXCEPT ![w] = err]

\* Mutant of WorkerReceive: after a cancellation the event is dropped without a
\* call of callbackOnDone.
WorkerReceiveDrops(w) ==
  /\ workerPc[w] = "receive" /\ workCh # <<>>
  /\ workCh' = Tail(workCh)
  /\ IF ctxDone
     THEN UNCHANGED <<workerPc, workerEvent>>
     ELSE /\ workerPc' = [workerPc EXCEPT ![w] = "check"]
          /\ workerEvent' = [workerEvent EXCEPT ![w] = Head(workCh)]
  /\ UNCHANGED <<dbVars, stateVars, notifyCh, ctxDone, runVars, workClosed,
                 callbackCh, callbackClosed, workerAnswer, workerErr,
                 workerWait, pausedUntil, callbackVars, uploadPc>>

\* range incomingCh and handleIncoming: after a cancellation the events that
\* are left are reported without being processed.
WorkerReceive(w) ==
  /\ workerPc[w] = "receive" /\ workCh # <<>>
  /\ workCh' = Tail(workCh)
  /\ workerEvent' = [workerEvent EXCEPT ![w] = Head(workCh)]
  /\ IF ctxDone
     THEN Report(w, "nil")
     ELSE workerPc' = [workerPc EXCEPT ![w] = "check"] /\ UNCHANGED workerErr
  /\ UNCHANGED <<dbVars, stateVars, notifyCh, ctxDone, runVars, workClosed,
                 callbackCh, callbackClosed, workerAnswer, workerWait,
                 pausedUntil, callbackVars, uploadPc>>

WorkerExit(w) ==
  /\ workerPc[w] = "receive" /\ workCh = <<>> /\ workClosed
  /\ workerPc' = [workerPc EXCEPT ![w] = "exited"]
  /\ UNCHANGED <<dbVars, stateVars, notifyCh, ctxDone, runVars, chanVars,
                 workerEvent, workerAnswer, workerErr, workerWait, pausedUntil,
                 callbackVars, uploadPc>>

\* shouldProcessEvent: reads the status again. waitUntilUnpaused then reads
\* pausedUntil once and starts its own timer.
ShouldProcessEvent(w) ==
  /\ workerPc[w] = "check"
  /\ \/ /\ status[workerEvent[w]] \in Processable
        /\ workerPc' = [workerPc EXCEPT ![w] = "wait"]
        /\ workerWait' = [workerWait EXCEPT ![w] = pausedUntil]
        /\ UNCHANGED workerErr
     \/ /\ status[workerEvent[w]] \notin Processable
        /\ Report(w, "nil")
        /\ UNCHANGED workerWait
     \/ MayFail("read") /\ Report(w, "error") /\ UNCHANGED workerWait
  /\ UNCHANGED <<dbVars, stateVars, notifyCh, ctxDone, runVars, chanVars,
                 workerEvent, workerAnswer, pausedUntil, callbackVars,
                 uploadPc>>

\* The event's deadline passes or the context is cancelled before the request
\* is sent.
WaitInterrupted(w) ==
  /\ workerPc[w] = "wait" /\ MayFail("read")
  /\ Report(w, "error")
  /\ workerWait' = [workerWait EXCEPT ![w] = 0]
  /\ UNCHANGED <<dbVars, stateVars, notifyCh, ctxDone, runVars, chanVars,
                 workerEvent, workerAnswer, pausedUntil, callbackVars,
                 uploadPc>>

\* The request to the accrual system: an answer, an error, or "too many
\* requests", which pauses the pool for whatever the last such answer says.
MakeAccrualClientRequest(w) ==
  /\ workerPc[w] = "wait" /\ workerWait[w] = 0 /\ ~ctxDone
  /\ \/ \E answer \in Answers :
          /\ workerAnswer' = [workerAnswer EXCEPT ![w] = answer]
          /\ workerPc' = [workerPc EXCEPT ![w] = "apply"]
          /\ UNCHANGED <<workerErr, pausedUntil>>
     \/ Report(w, "error") /\ UNCHANGED <<workerAnswer, pausedUntil>>
     \/ /\ \E retryAfter \in 0 .. MaxPause : pausedUntil' = retryAfter
        /\ Report(w, "error") /\ UNCHANGED workerAnswer
  /\ UNCHANGED <<dbVars, stateVars, notifyCh, ctxDone, runVars, chanVars,
                 workerEvent, workerWait, callbackVars, uploadPc>>

\* What a successful call does to the order the answer is about (the accrual
\* system answers for the order it was asked about).
ApplyAnswer(answer, o) ==
  \/ answer = "PROCESSING" /\ MarkOrderProcessing(o)
  \/ answer = "PROCESSED" /\ MarkOrderProcessed(o)
  \/ answer = "INVALID" /\ MarkOrderInvalid(o)

\* Only a final answer that was recorded is a success; ErrOrderIsNotReady and
\* any failure are not. A call that fails may have been committed or not.
ProcessAccrualClientOrder(w) ==
  /\ workerPc[w] = "apply"
  /\ \/ /\ ApplyAnswer(workerAnswer[w], workerEvent[w])
        /\ Report(w, IF workerAnswer[w] = "PROCESSING" THEN "error" ELSE "nil")
     \/ /\ MayFail("write")
        /\ ApplyAnswer(workerAnswer[w], workerEvent[w]) \/ UNCHANGED dbVars
        /\ Report(w, "error")
  /\ workerAnswer' = [workerAnswer EXCEPT ![w] = "none"]
  /\ UNCHANGED <<stateVars, notifyCh, ctxDone, runVars, chanVars, workerEvent,
                 workerWait, pausedUntil, callbackVars, uploadPc>>

\* callbackOnDone: a send on callbackCh, blocking while its slot is taken.
CallbackOnDone(w) ==
  /\ workerPc[w] = "report" /\ callbackCh = NoResult
  /\ callbackCh' = [order |-> workerEvent[w], err |-> workerErr[w]]
  /\ workerPc' = [workerPc EXCEPT ![w] = "receive"]
  /\ workerEvent' = [workerEvent EXCEPT ![w] = NoOrder]
  /\ workerErr' = [workerErr EXCEPT ![w] = "nil"]
  /\ UNCHANGED <<dbVars, stateVars, notifyCh, ctxDone, runVars, workCh,
                 workClosed, callbackClosed, workerAnswer, workerWait,
                 pausedUntil, callbackVars, uploadPc>>

-----------------------------------------------------------------------------
(* The callback goroutine *)

\* Mutants of CallbackReceive: the delay is not capped at its maximum, or a
\* result that needs no retry is dropped before DecrementEventsInFlight.
CallbackReceiveUncapped ==
  /\ callbackPc = "receive" /\ callbackCh # NoResult
  /\ callbackCh' = NoResult
  /\ callbackEvent' = callbackCh.order
  /\ IF ctxDone \/ ~Retryable(callbackCh.err)
     THEN callbackPc' = "decrement" /\ UNCHANGED processAfter
     ELSE callbackPc' = "postpone" /\ processAfter' \in 0 .. MaxDelay + 1
  /\ UNCHANGED <<dbVars, stateVars, notifyCh, ctxDone, runVars, workCh,
                 workClosed, callbackClosed, workerVars, pausedUntil, uploadPc>>

CallbackReceiveForgets ==
  /\ callbackPc = "receive" /\ callbackCh # NoResult
  /\ callbackCh' = NoResult
  /\ IF ctxDone \/ ~Retryable(callbackCh.err)
     THEN UNCHANGED callbackVars
     ELSE /\ callbackEvent' = callbackCh.order
          /\ callbackPc' = "postpone" /\ processAfter' \in 0 .. MaxDelay
  /\ UNCHANGED <<dbVars, stateVars, notifyCh, ctxDone, runVars, workCh,
                 workClosed, callbackClosed, workerVars, pausedUntil, uploadPc>>

\* range callbackCh, and processCallback up to the database call. The time of
\* the next attempt is fixed here, before the call.
CallbackReceive ==
  /\ callbackPc = "receive" /\ callbackCh # NoResult
  /\ callbackCh' = NoResult
  /\ callbackEvent' = callbackCh.order
  /\ IF ctxDone \/ ~Retryable(callbackCh.err)
     THEN callbackPc' = "decrement" /\ UNCHANGED processAfter
     ELSE callbackPc' = "postpone" /\ processAfter' \in 0 .. MaxDelay
  /\ UNCHANGED <<dbVars, stateVars, notifyCh, ctxDone, runVars, workCh,
                 workClosed, callbackClosed, workerVars, pausedUntil, uploadPc>>

\* Mutant of CallbackExit: the goroutine ends as soon as the context does.
CallbackExitOnDone ==
  /\ callbackPc = "receive" /\ ctxDone
  /\ callbackPc' = "exited"
  /\ UNCHANGED <<dbVars, stateVars, notifyCh, ctxDone, runVars, chanVars,
                 workerVars, pausedUntil, callbackEvent, processAfter,
                 uploadPc>>

CallbackExit ==
  /\ callbackPc = "receive" /\ callbackCh = NoResult /\ callbackClosed
  /\ callbackPc' = "exited"
  /\ UNCHANGED <<dbVars, stateVars, notifyCh, ctxDone, runVars, chanVars,
                 workerVars, pausedUntil, callbackEvent, processAfter,
                 uploadPc>>

\* EnqueueEvent: PostponeOrderProcessing fails for an order without a row. On
\* any failure the event is dropped, whether or not the row was updated.
PostponeOrderProcessing ==
  /\ callbackPc = "postpone"
  /\ \/ /\ callbackEvent \in queued
        /\ due' = [due EXCEPT ![callbackEvent] = AtLeastZero(processAfter)]
        /\ callbackPc' = "addPending" /\ UNCHANGED processAfter
     \/ /\ callbackEvent \notin queued \/ MayFail("write")
        /\ \/ /\ callbackEvent \in queued
              /\ due' = [due EXCEPT ![callbackEvent] = AtLeastZero(processAfter)]
           \/ UNCHANGED due
        /\ callbackPc' = "decrement" /\ processAfter' = 0
  /\ UNCHANGED <<status, queued, credits, stateVars, notifyCh, ctxDone,
                 runVars, chanVars, workerVars, pausedUntil, callbackEvent,
                 uploadPc>>

\* Mutant of AddPendingOrder: isRunning is not looked at.
AddPendingOrderAlways ==
  /\ callbackPc = "addPending"
  /\ pendingOrders' = pendingOrders \cup {callbackEvent}
  /\ IF nextWakeupTime > processAfter
     THEN UNCHANGED <<nextWakeupTime, wakeupTimer>>
     ELSE /\ nextWakeupTime' = processAfter
          /\ wakeupTimer' = AtLeastZero(processAfter)
  /\ callbackPc' = "decrement" /\ processAfter' = 0
  /\ UNCHANGED <<dbVars, ordersInFlight, isRunning, hasStarted, notifyCh,
                 ctxDone, runVars, chanVars, workerVars, pausedUntil,
                 callbackEvent, uploadPc>>

\* addPendingOrder: the timer is only ever moved to a later instant.
AddPendingOrder ==
  /\ callbackPc = "addPending"
  /\ IF isRunning
     THEN /\ pendingOrders' = pendingOrders \cup {callbackEvent}
          /\ IF nextWakeupTime > processAfter
             THEN UNCHANGED <<nextWakeupTime, wakeupTimer>>
             ELSE /\ nextWakeupTime' = processAfter
                  /\ wakeupTimer' = AtLeastZero(processAfter)
     ELSE UNCHANGED <<pendingOrders, nextWakeupTime, wakeupTimer>>
  /\ callbackPc' = "decrement" /\ processAfter' = 0
  /\ UNCHANGED <<dbVars, ordersInFlight, isRunning, hasStarted, notifyCh,
                 ctxDone, runVars, chanVars, workerVars, pausedUntil,
                 callbackEvent, uploadPc>>

\* Mutant of DecrementEventsInFlight: the whole map is cleared.
ClearEventsInFlight ==
  /\ callbackPc = "decrement"
  /\ ordersInFlight' = {}
  /\ callbackPc' = "receive" /\ callbackEvent' = NoOrder
  /\ UNCHANGED <<dbVars, pendingOrders, nextWakeupTime, wakeupTimer, isRunning,
                 hasStarted, notifyCh, ctxDone, runVars, chanVars, workerVars,
                 pausedUntil, processAfter, uploadPc>>

\* The deferred DecrementEventsInFlight of processCallback.
DecrementEventsInFlight ==
  /\ callbackPc = "decrement"
  /\ ordersInFlight' = ordersInFlight \ {callbackEvent}
  /\ callbackPc' = "receive" /\ callbackEvent' = NoOrder
  /\ UNCHANGED <<dbVars, pendingOrders, nextWakeupTime, wakeupTimer, isRunning,
                 hasStarted, notifyCh, ctxDone, runVars, chanVars, workerVars,
                 pausedUntil, processAfter, uploadPc>>

-----------------------------------------------------------------------------
(* The environment *)

\* One tick of the clock.
Tick ==
  /\ due' = [o \in Orders |-> Later(due[o], 0)]
  /\ nextWakeupTime' = Later(nextWakeupTime, -Lag)
  /\ wakeupTimer' = IF wakeupTimer = Off THEN Off ELSE Later(wakeupTimer, 0)
  /\ workerWait' = [w \in Workers |-> Later(workerWait[w], 0)]
  /\ pausedUntil' = Later(pausedUntil, 0)
  /\ processAfter' = IF callbackPc \in {"postpone", "addPending"}
                     THEN Later(processAfter, -Lag) ELSE processAfter
  /\ UNCHANGED <<status, queued, credits, ordersInFlight, pendingOrders,
                 isRunning, hasStarted, notifyCh, ctxDone, runVars, chanVars,
                 workerPc, workerEvent, workerAnswer, workerErr, callbackPc,
                 callbackEvent, uploadPc>>

\* The context given to Run is cancelled (a signal, or the other thread of
\* the application failed).
Cancel ==
  /\ "cancel" \in Faults /\ ~ctxDone
  /\ ctxDone' = TRUE
  /\ UNCHANGED <<dbVars, stateVars, notifyCh, runVars, chanVars, workerVars,
                 pausedUntil, callbackVars, uploadPc>>

\* Run is called again, with a new context, on the same OrderProcessor: the
\* in-memory state is the one the previous run left.
Rerun ==
  /\ "rerun" \in Faults /\ runPc = "returned"
  /\ ctxDone' = FALSE
  /\ runPc' = IF Preload THEN "trigger" ELSE "start"
  /\ UNCHANGED <<dbVars, stateVars, notifyCh, runEvent, excludeIDs, chanVars,
                 workerVars, pausedUntil, callbackVars, uploadPc>>

\* The process dies at any point and is started again. The database survives.
Crash ==
  /\ "crash" \in Faults
  /\ notifyCh' = FALSE
  /\ ordersInFlight' = {} /\ pendingOrders' = {}
  /\ nextWakeupTime' = -Lag /\ wakeupTimer' = Off
  /\ isRunning' = FALSE /\ hasStarted' = FALSE
  /\ ctxDone' = FALSE
  /\ runPc' = IF Preload THEN "trigger" ELSE "start"
  /\ runEvent' = NoOrder /\ excludeIDs' = {}
  /\ workCh' = <<>> /\ workClosed' = TRUE
  /\ callbackCh' = NoResult /\ callbackClosed' = TRUE
  /\ workerPc' = [w \in Workers |-> "exited"]
  /\ workerEvent' = [w \in Workers |-> NoOrder]
  /\ workerAnswer' = [w \in Workers |-> "none"]
  /\ workerErr' = [w \in Workers |-> "nil"]
  /\ workerWait' = [w \in Workers |-> 0]
  /\ pausedUntil' = 0
  /\ callbackPc' = "exited" /\ callbackEvent' = NoOrder /\ processAfter' = 0
  /\ uploadPc' = [o \in Orders |-> "idle"]
  /\ UNCHANGED dbVars

-----------------------------------------------------------------------------
RunStep ==
  \/ RunTrigger \/ RunNotify \/ StartWorkers
  \/ SelectNotification \/ SelectWakeup \/ SelectDone
  \/ NextEvent \/ GetNextProcessableOrder \/ AdmitEvent \/ TakeEvent
  \/ Stop \/ CloseWorkCh \/ WaitWorkers \/ WaitCallbacks

WorkerStep(w) ==
  \/ WorkerReceive(w) \/ WorkerExit(w) \/ ShouldProcessEvent(w)
  \/ WaitInterrupted(w) \/ MakeAccrualClientRequest(w)
  \/ ProcessAccrualClientOrder(w) \/ CallbackOnDone(w)

CallbackStep ==
  \/ CallbackReceive \/ CallbackExit \/ PostponeOrderProcessing
  \/ AddPendingOrder \/ DecrementEventsInFlight

NotifyStep(o) == UploadTrigger(o) \/ UploadNotify(o)

Next ==
  \/ RunStep
  \/ \E w \in Workers : WorkerStep(w)
  \/ CallbackStep
  \/ \E o \in Orders : Upload(o) \/ NotifyStep(o)
  \/ Tick \/ Cancel \/ Rerun \/ Crash

Spec == Init /\ [][Next]_vars

\* The Go scheduler runs every goroutine that can run, calls to the database
\* and to the accrual system return (they have deadlines), and time passes.
\* Uploads, cancellations, new runs and crashes may happen or not.
Fairness ==
  /\ WF_vars(RunStep)
  /\ \A w \in Workers : WF_vars(WorkerStep(w))
  /\ WF_vars(CallbackStep)
  /\ \A o \in Orders : WF_vars(NotifyStep(o))
  /\ WF_vars(Tick)

FairSpec == Spec /\ Fairness

\* ORDER BY process_after in the query of GetNextProcessableOrder: an order
\* that is put back gets a later process_after than every order that is due,
\* so an order that is due at query after query is eventually the first.
OldestFirst ==
  \A o \in Orders : SF_vars(GetNextProcessableOrder /\ runEvent' = o)

QueueFairSpec == FairSpec /\ OldestFirst

-----------------------------------------------------------------------------
(* Properties *)

RunPcs == {"trigger", "notify", "start", "select", "next", "query", "admit",
           "take", "stop", "close", "waitWorkers", "waitCallbacks", "returned"}
WorkerPcs == {"receive", "check", "wait", "apply", "report", "exited"}
CallbackPcs == {"receive", "postpone", "addPending", "decrement", "exited"}

FlagsOK ==
  /\ notifyCh \in BOOLEAN /\ ctxDone \in BOOLEAN
  /\ isRunning \in BOOLEAN /\ hasStarted \in BOOLEAN
  /\ workClosed \in BOOLEAN /\ callbackClosed \in BOOLEAN

\* The type of every variable.
TypeOK ==
  /\ FlagsOK
  /\ status \in [Orders -> Statuses]
  /\ queued \subseteq Orders
  /\ due \in [Orders -> 0 .. MaxDelay]
  /\ credits \in [Orders -> Nat]
  /\ ordersInFlight \subseteq Orders /\ pendingOrders \subseteq Orders
  /\ nextWakeupTime \in -Lag .. MaxDelay
  /\ wakeupTimer \in {Off} \cup 0 .. MaxDelay
  /\ runPc \in RunPcs
  /\ runEvent \in Orders \cup {NoOrder}
  /\ excludeIDs \subseteq Orders
  /\ workCh \in Seq(Orders) /\ Len(workCh) <= PoolSize
  /\ callbackCh \in [order : Orders \cup {NoOrder}, err : {"nil", "error"}]
  /\ workerPc \in [Workers -> WorkerPcs]
  /\ workerEvent \in [Workers -> Orders \cup {NoOrder}]
  /\ workerAnswer \in [Workers -> Answers \cup {"none"}]
  /\ workerErr \in [Workers -> {"nil", "error"}]
  /\ workerWait \in [Workers -> 0 .. MaxPause]
  /\ pausedUntil \in 0 .. MaxPause
  /\ callbackPc \in CallbackPcs
  /\ callbackEvent \in Orders \cup {NoOrder}
  /\ processAfter \in -Lag .. MaxDelay
  /\ uploadPc \in [Orders -> {"idle", "trigger", "notify"}]

\* A goroutine holds an event exactly between taking it and handing it on; an
\* occupied slot of callbackCh holds an order's result.
EventsHeld ==
  /\ runEvent # NoOrder <=> runPc \in {"admit", "take"}
  /\ \A w \in Workers :
       workerEvent[w] # NoOrder <=> workerPc[w] \in {"check", "wait", "apply", "report"}
  /\ callbackEvent # NoOrder <=> callbackPc \in {"postpone", "addPending", "decrement"}
  /\ callbackCh.order = NoOrder => callbackCh = NoResult

\* The order of start-up and shutdown: when the channels are closed, when the
\* goroutines have ended, and when pending orders are recorded at all.
Stopped == {"trigger", "notify", "start", "returned"}

ShutdownOrder ==
  /\ workClosed <=> runPc \in Stopped \cup {"waitWorkers", "waitCallbacks"}
  /\ callbackClosed <=> runPc \in Stopped \cup {"waitCallbacks"}
  /\ \A w \in Workers : workerPc[w] = "exited" => workClosed /\ workCh = <<>>
  /\ callbackClosed => \A w \in Workers : workerPc[w] = "exited"
  /\ callbackPc = "exited" => callbackClosed /\ callbackCh = NoResult
  /\ runPc \in Stopped => callbackPc = "exited"
  /\ isRunning <=> runPc \in {"select", "next", "query", "admit", "take", "stop"}
  /\ hasStarted \/ runPc \in Stopped \ {"returned"}
  /\ ~isRunning => pendingOrders = {}

\* Order o is in the channel to the workers, or in a worker's hands.
InWorkCh(o) == \E i \in DOMAIN workCh : workCh[i] = o
WithWorker(o) == \E w \in Workers : workerEvent[w] = o

\* Order o is on its way between processQueue and the end of processCallback.
InPipeline(o) ==
  \/ runPc = "take" /\ runEvent = o
  \/ InWorkCh(o)
  \/ WithWorker(o)
  \/ callbackCh.order = o
  \/ callbackEvent = o

\* ordersInFlight, the set of numbers the next query leaves out, is exactly the
\* set of orders some goroutine or channel holds: an order that was dropped on
\* the way would be skipped for ever, one that is missing would be fetched
\* twice (NextEvent, DecrementEventsInFlight).
InFlightExact == ordersInFlight = {o \in Orders : InPipeline(o)}

\* No order is in two places at once, so no two goroutines ever work on the
\* same order, although the snapshot of the in-flight orders is stale by the
\* time the query runs (NextEvent).
HandledOnce ==
  /\ \A i, j \in DOMAIN workCh : workCh[i] = workCh[j] => i = j
  /\ \A v, w \in Workers :
       workerEvent[v] = workerEvent[w] => v = w \/ workerEvent[v] = NoOrder
  /\ \A o \in Orders :
       /\ runEvent = o => ~InWorkCh(o) /\ ~WithWorker(o)
                          /\ callbackCh.order # o /\ callbackEvent # o
       /\ InWorkCh(o) => ~WithWorker(o) /\ callbackCh.order # o /\ callbackEvent # o
       /\ WithWorker(o) => callbackCh.order # o /\ callbackEvent # o
       /\ callbackCh.order = o => callbackEvent # o

\* The accrual of an order reaches the balance exactly once, and only of a
\* PROCESSED order: across retries after a lost commit answer, timeouts,
\* shutdowns and crashes (MarkOrderProcessed adds without looking).
CreditedOnce ==
  \A o \in Orders : credits[o] = IF status[o] = "PROCESSED" THEN 1 ELSE 0

\* An order that still needs work has its row in the durable queue, so that a
\* restart finds it, and a finished one has none: MarkOrderProcessing, which
\* does not look at the status, never revives a finished order.
QueueMatchesStatus ==
  \A o \in Orders : o \in queued <=> status[o] \in Processable

\* A pending order is really waiting in the database, and nobody works on it:
\* at most its callback is about to end, or the main loop has just fetched it.
PendingOrdersWait ==
  \A o \in pendingOrders :
    /\ o \in queued
    /\ InPipeline(o) => callbackEvent = o /\ callbackPc = "decrement"

\* When Run returns nothing is left behind: no event in a channel or in the
\* hands of a goroutine, no order recorded as in flight or pending, so that
\* HasFinished is true and a further Run starts clean.
IdleWhenReturned ==
  runPc = "returned" =>
    /\ HasFinished
    /\ workCh = <<>> /\ callbackCh = NoResult
    /\ callbackPc = "exited" /\ \A w \in Workers : workerPc[w] = "exited"

\* Nobody is about to send on a closed channel, which would panic: shutdown
\* closes workCh before the workers end and callbackCh after.
NoSendOnClosedChannel ==
  /\ runPc = "take" => ~workClosed
  /\ \A w \in Workers :
       workerPc[w] \in {"check", "wait", "apply", "report"} => ~callbackClosed

\* The processor implements the life cycle of an order: final statuses stay,
\* the balance changes with the step to PROCESSED and with no other.
Lifecycle == INSTANCE OrderLifecycle
ImplementsLifecycle == Lifecycle!Spec

\* A cancelled Run returns: main loop, workers and callback goroutine never
\* wait for one another for ever (shutdown, waitForWorkersToFinish).
ShutdownCompletes == ctxDone ~> runPc = "returned"

\* An order never stays in flight: no event is stuck between the bounded
\* channels, whatever the calls return.
InFlightDrains == \A o \in Orders : o \in ordersInFlight ~> o \notin ordersInFlight

\* Order o is due and nobody works on it, while the main loop is running.
Waiting(o) == isRunning /\ o \in queued /\ due[o] = 0 /\ ~InPipeline(o)

\* A notification is enough: once it is in the channel, every order that is
\* due is handed to the workers (or the processor stops), even if notifications
\* are merged, and however often other orders are put back into the queue.
NotificationServesDueOrders ==
  \A o \in Orders : (notifyCh /\ Waiting(o)) ~> (InPipeline(o) \/ ~isRunning)

-----------------------------------------------------------------------------
(* What comments in the code say and the code does not do. *)

\* order_processor_state.go:122 "Ensure we never block on sending to notify
\* channel": whoever triggers the processing of the queue gets past the send.
TriggerReturns ==
  /\ runPc = "notify" ~> runPc # "notify"
  /\ \A o \in Orders : uploadPc[o] = "notify" ~> uploadPc[o] # "notify"

\* order_processor_state.go:136-137 "there have been some postponed events and
\* we need to wait for them to become ready for processing": a pending order
\* that has become ready is picked up.
PendingOrderPickedUp ==
  \A o \in Orders :
    (o \in pendingOrders /\ Waiting(o)) ~> (InPipeline(o) \/ ~isRunning)

\* order_processor_state.go:43-44 "the same order will be picked up again by
\* the [NextEvent] call if this method fails": an order the accrual system was
\* asked about, neither in flight nor pending because its postponing failed, is
\* picked up.
FailedEnqueuePickedUp ==
  \A o \in Orders :
    (status[o] = "PROCESSING" /\ o \notin pendingOrders /\ Waiting(o))
      ~> (InPipeline(o) \/ ~isRunning)

\* order_processor.go:98-99 "it will try to load all processable orders from
\* [OrderRepository] and enqueue them for processing": a running processor that
\* preloads picks up every order of the queue.
PreloadedOrderPickedUp ==
  \A o \in Orders :
    (o \notin pendingOrders /\ Waiting(o)) ~> (InPipeline(o) \/ ~isRunning)
=============================================================================
