------------------------ MODULE OrderProcessorProofs ------------------------
(***************************************************************************)
(* Proofs about OrderProcessor for any set of orders, any finite pool of   *)
(* workers, any delays and any combination of faults.                      *)
(***************************************************************************)
EXTENDS OrderProcessor, FiniteSetTheorems, TLAPS

\* The size of the pool is a natural number.
LEMMA PoolSizeNat == PoolSize \in Nat
  BY ConstantsAssumption, FS_CardinalityType DEF PoolSize

\* Countdowns stay in their range (Tick).
LEMMA LaterRange ==
  ASSUME NEW lo \in Int, NEW hi \in Int, NEW x \in lo .. hi
  PROVE  Later(x, lo) \in lo .. hi
  BY DEF Later

LEMMA AtLeastZeroRange ==
  ASSUME NEW x \in -Lag .. MaxDelay
  PROVE  AtLeastZero(x) \in 0 .. MaxDelay
  BY ConstantsAssumption DEF AtLeastZero

-----------------------------------------------------------------------------
(* Typing *)

\* Typing needs to know when a goroutine holds an event and when it runs.
Typed == TypeOK /\ EventsHeld /\ ShutdownOrder

\* Facts about channels as sequences.
LEMMA EmptyCh == <<>> \in Seq(Orders) /\ Len(<<>>) = 0
  OBVIOUS

LEMMA SentCh ==
  ASSUME NEW ch \in Seq(Orders), NEW o \in Orders
  PROVE  /\ Append(ch, o) \in Seq(Orders)
         /\ Len(Append(ch, o)) = Len(ch) + 1
         /\ \A i \in 1 .. Len(ch) : Append(ch, o)[i] = ch[i]
         /\ Append(ch, o)[Len(ch) + 1] = o
  OBVIOUS

LEMMA ReceivedCh ==
  ASSUME NEW ch \in Seq(Orders), ch # <<>>
  PROVE  /\ Len(ch) \in Nat \ {0}
         /\ Head(ch) = ch[1] /\ ch[1] \in Orders
         /\ Tail(ch) \in Seq(Orders)
         /\ Len(Tail(ch)) = Len(ch) - 1
         /\ \A i \in 1 .. Len(ch) - 1 : Tail(ch)[i] = ch[i + 1]
  OBVIOUS

LEMMA NoResultType ==
  /\ NoResult \in [order : Orders \cup {NoOrder}, err : {"nil", "error"}]
  /\ NoResult.order = NoOrder
  BY DEF NoResult

\* The Boolean variables stay Boolean.
LEMMA InitFlags == Init => FlagsOK
  BY DEF Init, FreshProcess, FlagsOK

LEMMA NextFlags == FlagsOK /\ Next => FlagsOK'
  <1> SUFFICES ASSUME FlagsOK, Next PROVE FlagsOK'
    OBVIOUS
  <1> USE DEF FlagsOK, dbVars, stateVars, runVars, chanVars, workerVars,
              callbackVars
  <1>1. CASE RunStep
    BY <1>1 DEF RunStep, RunTrigger, RunNotify, StartWorkers,
       SelectNotification, SelectWakeup, SelectDone, NextEvent,
       GetNextProcessableOrder, AdmitEvent, TakeEvent, Stop, CloseWorkCh,
       WaitWorkers, WaitCallbacks, DrainNotifyCh, SendNotification
  <1>2. ASSUME NEW w \in Workers, WorkerStep(w) PROVE FlagsOK'
    BY <1>2 DEF WorkerStep, WorkerReceive, WorkerExit, ShouldProcessEvent,
       WaitInterrupted, MakeAccrualClientRequest, ProcessAccrualClientOrder,
       CallbackOnDone
  <1>3. CASE CallbackStep
    BY <1>3 DEF CallbackStep, CallbackReceive, CallbackExit,
       PostponeOrderProcessing, AddPendingOrder, DecrementEventsInFlight
  <1>4. ASSUME NEW o \in Orders, Upload(o) \/ NotifyStep(o) PROVE FlagsOK'
    BY <1>4 DEF NotifyStep, Upload, UploadTrigger, UploadNotify,
       DrainNotifyCh, SendNotification
  <1>5. CASE Tick \/ Cancel \/ Rerun \/ Crash
    BY <1>5 DEF Tick, Cancel, Rerun, Crash
  <1> QED  BY <1>1, <1>2, <1>3, <1>4, <1>5 DEF Next

LEMMA InitTyped == Init => Typed
  <1> SUFFICES ASSUME Init PROVE Typed
    OBVIOUS
  <1> USE ConstantsAssumption, PoolSizeNat, EmptyCh, NoResultType
      DEF Init, FreshProcess
  <1>1. TypeOK
    BY InitFlags DEF TypeOK, Statuses, Processable, Off, RunPcs, WorkerPcs, CallbackPcs,
           Answers
  <1>2. EventsHeld
    BY DEF EventsHeld
  <1>3. ShutdownOrder
    BY DEF ShutdownOrder, Stopped
  <1> QED  BY <1>1, <1>2, <1>3 DEF Typed

\* The steps of the Run goroutine preserve types and the hold on events.
LEMMA RunStepTyped == Typed /\ RunStep => TypeOK' /\ EventsHeld'
  <1> SUFFICES ASSUME Typed, RunStep PROVE TypeOK' /\ EventsHeld'
    OBVIOUS
  <1>0. FlagsOK'
    BY NextFlags DEF Typed, TypeOK, Next
  <1> USE <1>0, ConstantsAssumption, PoolSizeNat
      DEF Typed, TypeOK, EventsHeld, dbVars, stateVars, runVars, chanVars,
          workerVars, callbackVars, RunPcs, WorkerPcs, CallbackPcs, Off
  <1>1. CASE RunTrigger
    BY <1>1 DEF RunTrigger, DrainNotifyCh
  <1>2. CASE RunNotify
    BY <1>2 DEF RunNotify, SendNotification
  <1>3. CASE StartWorkers
    BY <1>3, EmptyCh, NoResultType DEF StartWorkers, ShutdownOrder, Stopped
  <1>4. CASE SelectNotification
    BY <1>4 DEF SelectNotification
  <1>5. CASE SelectWakeup
    BY <1>5 DEF SelectWakeup
  <1>6. CASE SelectDone
    BY <1>6 DEF SelectDone
  <1>7. CASE NextEvent
    BY <1>7 DEF NextEvent
  <1>8. CASE GetNextProcessableOrder
    BY <1>8 DEF GetNextProcessableOrder, NextProcessableOrders
  <1>9. CASE AdmitEvent
    BY <1>9 DEF AdmitEvent
  <1>10. CASE TakeEvent
    BY <1>10, SentCh DEF TakeEvent
  <1>11. CASE Stop
    BY <1>11 DEF Stop
  <1>12. CASE CloseWorkCh
    BY <1>12 DEF CloseWorkCh
  <1>13. CASE WaitWorkers
    BY <1>13 DEF WaitWorkers
  <1>14. CASE WaitCallbacks
    BY <1>14 DEF WaitCallbacks
  <1> QED
    BY <1>1, <1>2, <1>3, <1>4, <1>5, <1>6, <1>7, <1>8, <1>9, <1>10, <1>11,
       <1>12, <1>13, <1>14 DEF RunStep

\* What the answers of the accrual system make of the database is well typed.
LEMMA MarksTyped ==
  ASSUME TypeOK, NEW answer, NEW o \in Orders,
         ApplyAnswer(answer, o) \/ UNCHANGED dbVars
  PROVE  /\ status' \in [Orders -> Statuses] /\ queued' \subseteq Orders
         /\ due' = due /\ credits' \in [Orders -> Nat]
  <1> USE DEF TypeOK, Statuses, Processable
  <1>1. CASE MarkOrderProcessing(o)
    BY <1>1 DEF MarkOrderProcessing
  <1>2. CASE MarkOrderProcessed(o)
    <2>1. credits' \in [Orders -> Nat]
      <3>1. \A p \in Orders : credits[p] + 1 \in Nat
        OBVIOUS
      <3> QED  BY <1>2, <3>1 DEF MarkOrderProcessed
    <2>2. /\ status' \in [Orders -> Statuses] /\ queued' \subseteq Orders
          /\ due' = due
      BY <1>2 DEF MarkOrderProcessed
    <2> QED  BY <2>1, <2>2
  <1>3. CASE MarkOrderInvalid(o)
    BY <1>3 DEF MarkOrderInvalid
  <1>4. CASE UNCHANGED dbVars
    BY <1>4 DEF dbVars
  <1> QED
    BY <1>1, <1>2, <1>3, <1>4 DEF ApplyAnswer

\* The same for the steps of a worker.
LEMMA WorkerStepTyped ==
  ASSUME Typed, NEW w \in Workers, WorkerStep(w)
  PROVE  TypeOK' /\ EventsHeld'
  <1>0. FlagsOK'
    BY NextFlags DEF Typed, TypeOK, Next
  <1> USE <1>0, ConstantsAssumption, PoolSizeNat
      DEF Typed, TypeOK, EventsHeld, dbVars, stateVars, runVars, chanVars,
          workerVars, callbackVars, RunPcs, WorkerPcs, CallbackPcs, Off
  <1> USE DEF Report, Answers
  <1>1. CASE WorkerReceive(w)
    <2>1. /\ workCh' \in Seq(Orders) /\ Len(workCh') <= PoolSize
          /\ Head(workCh) \in Orders
      BY <1>1, ReceivedCh DEF WorkerReceive
    <2>2. /\ workerEvent' = [workerEvent EXCEPT ![w] = Head(workCh)]
          /\ \E p \in {"check", "report"} : workerPc' = [workerPc EXCEPT ![w] = p]
      BY <1>1 DEF WorkerReceive
    <2>3. workerErr' \in [Workers -> {"nil", "error"}]
      BY <1>1 DEF WorkerReceive
    <2>5. /\ workerEvent' \in [Workers -> Orders \cup {NoOrder}]
          /\ workerPc' \in [Workers -> WorkerPcs]
      BY <2>1, <2>2
    <2>4. TypeOK'
      BY <1>1, <2>1, <2>5, <2>3 DEF WorkerReceive
    <2>6. EventsHeld'
      BY <1>1, <2>1, <2>2 DEF WorkerReceive
    <2> QED  BY <2>4, <2>6
  <1>2. CASE WorkerExit(w)
    BY <1>2 DEF WorkerExit
  <1>3. CASE ShouldProcessEvent(w)
    <2>1. \E p \in {"wait", "report"} : workerPc' = [workerPc EXCEPT ![w] = p]
      BY <1>3 DEF ShouldProcessEvent
    <2>2. workerErr' \in [Workers -> {"nil", "error"}]
      BY <1>3 DEF ShouldProcessEvent
    <2>3. workerWait' \in [Workers -> 0 .. MaxPause]
      BY <1>3 DEF ShouldProcessEvent
    <2>4. TypeOK'
      BY <1>3, <2>1, <2>2, <2>3 DEF ShouldProcessEvent
    <2>5. EventsHeld'
      BY <1>3, <2>1 DEF ShouldProcessEvent
    <2> QED  BY <2>4, <2>5
  <1>4. CASE WaitInterrupted(w)
    BY <1>4 DEF WaitInterrupted
  <1>5. CASE MakeAccrualClientRequest(w)
    <2>1. \E p \in {"apply", "report"} : workerPc' = [workerPc EXCEPT ![w] = p]
      BY <1>5 DEF MakeAccrualClientRequest
    <2>2. workerErr' \in [Workers -> {"nil", "error"}]
      BY <1>5 DEF MakeAccrualClientRequest
    <2>3. workerAnswer' \in [Workers -> Answers \cup {"none"}]
      BY <1>5 DEF MakeAccrualClientRequest
    <2>4. pausedUntil' \in 0 .. MaxPause
      BY <1>5 DEF MakeAccrualClientRequest
    <2>5. TypeOK'
      BY <1>5, <2>1, <2>2, <2>3, <2>4 DEF MakeAccrualClientRequest
    <2>6. EventsHeld'
      BY <1>5, <2>1 DEF MakeAccrualClientRequest
    <2> QED  BY <2>5, <2>6
  <1>6. CASE ProcessAccrualClientOrder(w)
    <2>1. workerPc' = [workerPc EXCEPT ![w] = "report"]
      BY <1>6 DEF ProcessAccrualClientOrder
    <2>2. workerErr' \in [Workers -> {"nil", "error"}]
      BY <1>6 DEF ProcessAccrualClientOrder
    <2>3. workerAnswer' \in [Workers -> Answers \cup {"none"}]
      BY <1>6 DEF ProcessAccrualClientOrder
    <2>4. ApplyAnswer(workerAnswer[w], workerEvent[w]) \/ UNCHANGED dbVars
      BY <1>6 DEF ProcessAccrualClientOrder
    <2>5. /\ status' \in [Orders -> Statuses] /\ queued' \subseteq Orders
          /\ due' = due /\ credits' \in [Orders -> Nat]
      <3>1. workerEvent[w] \in Orders
        BY <1>6 DEF ProcessAccrualClientOrder
      <3> QED  BY <2>4, <3>1, MarksTyped
    <2>6. TypeOK'
      BY <1>6, <2>1, <2>2, <2>3, <2>5 DEF ProcessAccrualClientOrder
    <2>7. EventsHeld'
      BY <1>6, <2>1 DEF ProcessAccrualClientOrder
    <2> QED  BY <2>6, <2>7
  <1>7. CASE CallbackOnDone(w)
    BY <1>7, NoResultType DEF CallbackOnDone
  <1> QED
    BY <1>1, <1>2, <1>3, <1>4, <1>5, <1>6, <1>7 DEF WorkerStep

\* The same for the steps of the callback goroutine.
LEMMA CallbackStepTyped == Typed /\ CallbackStep => TypeOK' /\ EventsHeld'
  <1> SUFFICES ASSUME Typed, CallbackStep PROVE TypeOK' /\ EventsHeld'
    OBVIOUS
  <1>0. FlagsOK'
    BY NextFlags DEF Typed, TypeOK, Next
  <1> USE <1>0, ConstantsAssumption, PoolSizeNat
      DEF Typed, TypeOK, EventsHeld, dbVars, stateVars, runVars, chanVars,
          workerVars, callbackVars, RunPcs, WorkerPcs, CallbackPcs, Off
  <1>1. CASE CallbackReceive
    BY <1>1, NoResultType DEF CallbackReceive
  <1>2. CASE CallbackExit
    BY <1>2 DEF CallbackExit
  <1>3. CASE PostponeOrderProcessing
    <2>1. due' \in [Orders -> 0 .. MaxDelay]
      BY <1>3, AtLeastZeroRange DEF PostponeOrderProcessing
    <2>2. /\ processAfter' \in -Lag .. MaxDelay
          /\ callbackPc' \in {"addPending", "decrement"}
      BY <1>3 DEF PostponeOrderProcessing
    <2>3. TypeOK'
      BY <1>3, <2>1, <2>2 DEF PostponeOrderProcessing
    <2>4. EventsHeld'
      BY <1>3, <2>2 DEF PostponeOrderProcessing
    <2> QED  BY <2>3, <2>4
  <1>4. CASE AddPendingOrder
    <2>0. AtLeastZero(processAfter) \in 0 .. MaxDelay /\ callbackEvent \in Orders
      BY <1>4, AtLeastZeroRange DEF AddPendingOrder
    <2>1. /\ nextWakeupTime' \in -Lag .. MaxDelay
          /\ wakeupTimer' \in {Off} \cup 0 .. MaxDelay
          /\ pendingOrders' \subseteq Orders
      <3>1. nextWakeupTime' \in {nextWakeupTime, processAfter}
        BY <1>4 DEF AddPendingOrder
      <3>2. wakeupTimer' \in {wakeupTimer, AtLeastZero(processAfter)}
        BY <1>4 DEF AddPendingOrder
      <3>3. pendingOrders' \in {pendingOrders, pendingOrders \cup {callbackEvent}}
        BY <1>4 DEF AddPendingOrder
      <3> QED  BY <2>0, <3>1, <3>2, <3>3
    <2>2. TypeOK'
      BY <1>4, <2>1 DEF AddPendingOrder
    <2>3. EventsHeld'
      BY <1>4 DEF AddPendingOrder
    <2> QED  BY <2>2, <2>3
  <1>5. CASE DecrementEventsInFlight
    BY <1>5 DEF DecrementEventsInFlight
  <1> QED
    BY <1>1, <1>2, <1>3, <1>4, <1>5 DEF CallbackStep

\* The same for the upload handlers.
LEMMA UploadStepTyped ==
  ASSUME Typed, NEW o \in Orders, Upload(o) \/ NotifyStep(o)
  PROVE  TypeOK' /\ EventsHeld'
  <1>0. FlagsOK'
    BY NextFlags DEF Typed, TypeOK, Next
  <1> USE <1>0, ConstantsAssumption, PoolSizeNat
      DEF Typed, TypeOK, EventsHeld, dbVars, stateVars, runVars, chanVars,
          workerVars, callbackVars, RunPcs, WorkerPcs, CallbackPcs, Off
  <1>1. CASE Upload(o)
    <2>1. /\ status' \in [Orders -> Statuses] /\ queued' \subseteq Orders
          /\ due' \in [Orders -> 0 .. MaxDelay] /\ credits' = credits
      BY <1>1 DEF Upload, CreateOrder, Statuses, Processable
    <2>2. uploadPc' \in [Orders -> {"idle", "trigger", "notify"}]
      BY <1>1 DEF Upload
    <2>3. TypeOK' /\ EventsHeld'
      BY <1>1, <2>1, <2>2 DEF Upload
    <2> QED  BY <2>3
  <1>2. CASE UploadTrigger(o)
    BY <1>2 DEF UploadTrigger
  <1>3. CASE UploadNotify(o)
    BY <1>3 DEF UploadNotify
  <1> QED
    BY <1>1, <1>2, <1>3 DEF NotifyStep

\* The same for the environment.
LEMMA EnvironmentTyped == Typed /\ (Tick \/ Cancel \/ Rerun \/ Crash) => TypeOK' /\ EventsHeld'
  <1> SUFFICES ASSUME Typed, Tick \/ Cancel \/ Rerun \/ Crash PROVE TypeOK' /\ EventsHeld'
    OBVIOUS
  <1>0. FlagsOK'
    BY NextFlags DEF Typed, TypeOK, Next
  <1> USE <1>0, ConstantsAssumption, PoolSizeNat
      DEF Typed, TypeOK, EventsHeld, dbVars, stateVars, runVars, chanVars,
          workerVars, callbackVars, RunPcs, WorkerPcs, CallbackPcs, Off
  <1>1. CASE Tick
    <2>1. due' \in [Orders -> 0 .. MaxDelay]
      BY <1>1 DEF Tick, Later
    <2>2. workerWait' \in [Workers -> 0 .. MaxPause]
      BY <1>1 DEF Tick, Later
    <2>3. pausedUntil' \in 0 .. MaxPause
      BY <1>1 DEF Tick, Later
    <2>4. nextWakeupTime' \in -Lag .. MaxDelay /\ processAfter' \in -Lag .. MaxDelay
      BY <1>1 DEF Tick, Later
    <2>5. wakeupTimer' \in {Off} \cup 0 .. MaxDelay
      BY <1>1 DEF Tick, Later
    <2>6. TypeOK' /\ EventsHeld'
      BY <1>1, <2>1, <2>2, <2>3, <2>4, <2>5 DEF Tick
    <2> QED  BY <2>6
  <1>2. CASE Cancel
    BY <1>2 DEF Cancel
  <1>3. CASE Rerun
    BY <1>3 DEF Rerun
  <1>4. CASE Crash
    BY <1>4, EmptyCh, NoResultType DEF Crash
  <1> QED
    BY <1>1, <1>2, <1>3, <1>4

\* Every step preserves the order of start-up and shutdown.
LEMMA NextShutdownOrder == Typed /\ Next => ShutdownOrder'
  <1> SUFFICES ASSUME Typed, Next PROVE ShutdownOrder'
    OBVIOUS
  <1> USE ConstantsAssumption DEF Typed, EventsHeld, ShutdownOrder, Stopped, dbVars, stateVars,
              runVars, chanVars, workerVars, callbackVars
  <1>1. CASE RunTrigger
    BY <1>1 DEF RunTrigger, DrainNotifyCh
  <1>2. CASE RunNotify
    BY <1>2 DEF RunNotify, SendNotification
  <1>3. CASE StartWorkers
    BY <1>3 DEF StartWorkers
  <1>4. CASE SelectNotification
    BY <1>4 DEF SelectNotification
  <1>5. CASE SelectWakeup
    BY <1>5 DEF SelectWakeup
  <1>6. CASE SelectDone
    BY <1>6 DEF SelectDone
  <1>7. CASE NextEvent
    BY <1>7 DEF NextEvent
  <1>8. CASE GetNextProcessableOrder
    BY <1>8 DEF GetNextProcessableOrder
  <1>9. CASE AdmitEvent
    BY <1>9 DEF AdmitEvent
  <1>10. CASE TakeEvent
    BY <1>10 DEF TakeEvent
  <1>11. CASE Stop
    BY <1>11 DEF Stop
  <1>12. CASE CloseWorkCh
    BY <1>12 DEF CloseWorkCh
  <1>13. CASE WaitWorkers
    BY <1>13 DEF WaitWorkers
  <1>14. CASE WaitCallbacks
    BY <1>14 DEF WaitCallbacks
  <1>15. ASSUME NEW w \in Workers, WorkerStep(w) PROVE ShutdownOrder'
    BY SMTT(60), <1>15 DEF WorkerStep, WorkerReceive, WorkerExit, ShouldProcessEvent,
       WaitInterrupted, MakeAccrualClientRequest, ProcessAccrualClientOrder,
       CallbackOnDone, Report, TypeOK
  <1>16. CASE CallbackStep
    BY <1>16 DEF CallbackStep, CallbackReceive, CallbackExit,
       PostponeOrderProcessing, AddPendingOrder, DecrementEventsInFlight
  <1>17. ASSUME NEW o \in Orders, Upload(o) \/ NotifyStep(o) PROVE ShutdownOrder'
    BY <1>17 DEF NotifyStep, Upload, UploadTrigger, UploadNotify
  <1>18. CASE Tick \/ Cancel \/ Rerun \/ Crash
    BY <1>18 DEF Tick, Cancel, Rerun, Crash
  <1> QED
    BY <1>1, <1>2, <1>3, <1>4, <1>5, <1>6, <1>7, <1>8, <1>9, <1>10, <1>11,
       <1>12, <1>13, <1>14, <1>15, <1>16, <1>17, <1>18 DEF Next, RunStep

\* Typing and the shapes it needs form an inductive invariant.
LEMMA TypedInductive == Typed /\ [Next]_vars => Typed'
  <1> SUFFICES ASSUME Typed, [Next]_vars PROVE Typed'
    OBVIOUS
  <1>1. CASE Next
    <2>1. TypeOK' /\ EventsHeld'
      BY <1>1, RunStepTyped, WorkerStepTyped, CallbackStepTyped,
         UploadStepTyped, EnvironmentTyped DEF Next
    <2>2. ShutdownOrder'
      BY <1>1, NextShutdownOrder
    <2> QED  BY <2>1, <2>2 DEF Typed
  <1>2. CASE UNCHANGED vars
    BY <1>2 DEF vars, dbVars, stateVars, runVars, chanVars, workerVars,
                callbackVars, Typed, TypeOK, FlagsOK, EventsHeld, ShutdownOrder
  <1> QED  BY <1>1, <1>2

\* Every variable keeps its type, for any pool, delays and faults.
THEOREM TypeCorrect == Spec => []TypeOK
  <1>1. Init => Typed
    BY InitTyped
  <1>2. Typed /\ [Next]_vars => Typed'
    BY TypedInductive
  <1>3. Typed => TypeOK
    BY DEF Typed
  <1> QED  BY <1>1, <1>2, <1>3, PTL DEF Spec

\* Nobody sends on a closed channel: a worker that has an event has not ended,
\* and callbackCh is closed after all of them have.
THEOREM ClosedChannelsUnused == Spec => []NoSendOnClosedChannel
  <1>1. Init => Typed
    BY InitTyped
  <1>2. Typed /\ [Next]_vars => Typed'
    BY TypedInductive
  <1>3. Typed => NoSendOnClosedChannel
    BY DEF Typed, EventsHeld, ShutdownOrder, Stopped, NoSendOnClosedChannel
  <1> QED  BY <1>1, <1>2, <1>3, PTL DEF Spec

-----------------------------------------------------------------------------
(* Every order in one place, and ordersInFlight exact *)

\* What the next fetch relies on: the snapshot contains every order in flight,
\* so the order fetched with it is not in flight.
FetchFresh ==
  /\ runPc = "query" => ordersInFlight \subseteq excludeIDs
  /\ runPc = "admit" => runEvent \notin ordersInFlight

Placed == InFlightExact /\ HandledOnce /\ FetchFresh

LEMMA InitPlaced == Init => Placed
  <1> SUFFICES ASSUME Init PROVE Placed
    OBVIOUS
  <1> USE ConstantsAssumption, NoResultType DEF Init, FreshProcess
  <1>1. \A o \in Orders : ~InPipeline(o) /\ ~InWorkCh(o) /\ ~WithWorker(o)
    BY DEF InPipeline, InWorkCh, WithWorker
  <1>2. InFlightExact /\ FetchFresh
    BY <1>1 DEF InFlightExact, FetchFresh
  <1>3. HandledOnce
    BY <1>1 DEF HandledOnce
  <1> QED  BY <1>2, <1>3 DEF Placed

\* A step that moves no event keeps every order where it is.
LEMMA StillPlaced ==
  ASSUME Typed, Placed,
         UNCHANGED <<runEvent, workCh, workerEvent, callbackCh, callbackEvent,
                     ordersInFlight>>,
         runPc' = "take" <=> runPc = "take",
         runPc' = "admit" => runPc = "admit",
         runPc' = "query" => excludeIDs' = ordersInFlight
                             \/ (runPc = "query" /\ excludeIDs' = excludeIDs)
  PROVE  Placed'
  <1>1. \A o : /\ InWorkCh(o)' <=> InWorkCh(o)
               /\ WithWorker(o)' <=> WithWorker(o)
               /\ InPipeline(o)' <=> InPipeline(o)
    BY DEF InWorkCh, WithWorker, InPipeline
  <1>2. InFlightExact'
    BY <1>1 DEF Placed, InFlightExact
  <1>3. HandledOnce'
    BY <1>1 DEF Placed, HandledOnce
  <1>4. FetchFresh'
    BY DEF Placed, FetchFresh
  <1> QED  BY <1>2, <1>3, <1>4 DEF Placed

\* The Run goroutine fetches an order nobody holds, records it and sends it on.
LEMMA RunStepPlaced == Typed /\ Placed /\ RunStep => Placed'
  <1> SUFFICES ASSUME Typed, Placed, RunStep PROVE Placed'
    OBVIOUS
  <1> USE DEF dbVars, stateVars, runVars, chanVars, workerVars, callbackVars
  <1>1. CASE RunTrigger  BY <1>1, StillPlaced DEF RunTrigger
  <1>2. CASE RunNotify  BY <1>2, StillPlaced DEF RunNotify
  <1>3. CASE StartWorkers
    <2>1. workCh' = workCh /\ callbackCh' = callbackCh
      BY <1>3, ConstantsAssumption DEF StartWorkers, Typed, ShutdownOrder, Stopped
    <2> QED  BY <1>3, <2>1, StillPlaced DEF StartWorkers
  <1>4. CASE SelectNotification  BY <1>4, StillPlaced DEF SelectNotification
  <1>5. CASE SelectWakeup  BY <1>5, StillPlaced DEF SelectWakeup
  <1>6. CASE SelectDone  BY <1>6, StillPlaced DEF SelectDone
  <1>7. CASE NextEvent
    <2>1. /\ runPc = "next" /\ runPc' \in {"select", "query"}
          /\ runPc' = "query" => excludeIDs' = ordersInFlight
      BY <1>7 DEF NextEvent
    <2>2. UNCHANGED <<runEvent, workCh, workerEvent, callbackCh, callbackEvent,
                      ordersInFlight>>
      BY <1>7 DEF NextEvent
    <2>3. runPc' = "take" <=> runPc = "take"
      BY <2>1
    <2>4. runPc' = "admit" => runPc = "admit"
      BY <2>1
    <2>5. runPc' = "query" => excludeIDs' = ordersInFlight
      BY <2>1
    <2>6. runPc' = "query" => excludeIDs' = ordersInFlight
                              \/ (runPc = "query" /\ excludeIDs' = excludeIDs)
      BY <2>5, Zenon
    <2> QED  BY <2>2, <2>3, <2>4, <2>6, StillPlaced
  <1>8. CASE GetNextProcessableOrder
    <2>1. CASE runPc' = "select" /\ runEvent' = runEvent
      BY <1>8, <2>1, StillPlaced DEF GetNextProcessableOrder
    <2>2. ASSUME NEW o \in NextProcessableOrders(excludeIDs),
                 runEvent' = o, runPc' = "admit"
          PROVE  Placed'
      <3>1. o \in Orders /\ o \notin ordersInFlight
        BY <1>8, <2>2 DEF GetNextProcessableOrder, NextProcessableOrders, Placed,
                          FetchFresh, Typed, TypeOK
      <3>2. UNCHANGED <<workCh, workerEvent, callbackCh, callbackEvent,
                        ordersInFlight>> /\ runPc = "query"
        BY <1>8 DEF GetNextProcessableOrder
      <3>3. \A p : /\ InWorkCh(p)' <=> InWorkCh(p)
                   /\ WithWorker(p)' <=> WithWorker(p)
                   /\ InPipeline(p)' <=> InPipeline(p)
        BY <2>2, <3>2 DEF InWorkCh, WithWorker, InPipeline
      <3>4. InFlightExact'
        BY <3>2, <3>3 DEF Placed, InFlightExact
      <3>5. ~InWorkCh(o) /\ ~WithWorker(o) /\ callbackCh.order # o /\ callbackEvent # o
        BY <3>1 DEF Placed, InFlightExact, InPipeline
      <3>6. HandledOnce'
        BY <2>2, <3>2, <3>3, <3>5 DEF Placed, HandledOnce
      <3>7. FetchFresh'
        BY <2>2, <3>1, <3>2 DEF FetchFresh
      <3> QED  BY <3>4, <3>6, <3>7 DEF Placed
    <2> QED  BY <1>8, <2>1, <2>2 DEF GetNextProcessableOrder
  <1>9. CASE AdmitEvent
    <2>1. /\ UNCHANGED <<runEvent, workCh, workerEvent, callbackCh, callbackEvent>>
          /\ runPc = "admit" /\ runPc' = "take"
          /\ ordersInFlight' = ordersInFlight \cup {runEvent}
      BY <1>9 DEF AdmitEvent
    <2>2. runEvent \in Orders
      BY <2>1 DEF Typed, TypeOK, EventsHeld
    <2>3. \A p : /\ InWorkCh(p)' <=> InWorkCh(p)
                 /\ WithWorker(p)' <=> WithWorker(p)
                 /\ InPipeline(p)' <=> InPipeline(p) \/ p = runEvent
      BY <2>1 DEF InWorkCh, WithWorker, InPipeline
    <2>4. InFlightExact'
      BY <2>1, <2>2, <2>3 DEF Placed, InFlightExact
    <2>5. HandledOnce'
      BY <2>1, <2>3 DEF Placed, HandledOnce
    <2>6. FetchFresh'
      BY <2>1 DEF FetchFresh
    <2> QED  BY <2>4, <2>5, <2>6 DEF Placed
  <1>10. CASE TakeEvent
    <2>1. /\ UNCHANGED <<workerEvent, callbackCh, callbackEvent, ordersInFlight>>
          /\ runPc = "take" /\ runPc' = "next" /\ runEvent' = NoOrder
          /\ workCh' = Append(workCh, runEvent)
      BY <1>10 DEF TakeEvent
    <2>2. runEvent \in Orders /\ workCh \in Seq(Orders) /\ NoOrder \notin Orders
      BY <2>1, ConstantsAssumption DEF Typed, TypeOK, EventsHeld
    <2>3. ~InWorkCh(runEvent)
      BY <2>2 DEF Placed, HandledOnce
    <2>4. /\ Len(workCh) \in Nat /\ DOMAIN workCh = 1 .. Len(workCh)
          /\ DOMAIN workCh' = 1 .. Len(workCh) + 1
          /\ \A i \in 1 .. Len(workCh) : workCh'[i] = workCh[i]
          /\ workCh'[Len(workCh) + 1] = runEvent
      BY <2>1, <2>2, SentCh
    <2>5. \A p : /\ InWorkCh(p)' <=> InWorkCh(p) \/ p = runEvent
                 /\ WithWorker(p)' <=> WithWorker(p)
      BY <2>1, <2>4 DEF InWorkCh, WithWorker
    <2>6. \A p \in Orders : InPipeline(p)' <=> InPipeline(p)
      BY <2>1, <2>2, <2>5 DEF InPipeline
    <2>7. InFlightExact'
      BY <2>1, <2>6 DEF Placed, InFlightExact
    <2>8. \A i, j \in DOMAIN workCh' : workCh'[i] = workCh'[j] => i = j
      BY <2>3, <2>4 DEF InWorkCh, Placed, HandledOnce
    <2>9. HandledOnce'
      BY <2>1, <2>2, <2>5, <2>8 DEF Placed, HandledOnce
    <2>10. FetchFresh'
      BY <2>1 DEF FetchFresh
    <2> QED  BY <2>7, <2>9, <2>10 DEF Placed
  <1>11. CASE Stop  BY <1>11, StillPlaced DEF Stop
  <1>12. CASE CloseWorkCh  BY <1>12, StillPlaced DEF CloseWorkCh
  <1>13. CASE WaitWorkers  BY <1>13, StillPlaced DEF WaitWorkers
  <1>14. CASE WaitCallbacks  BY <1>14, StillPlaced DEF WaitCallbacks
  <1> QED
    BY <1>1, <1>2, <1>3, <1>4, <1>5, <1>6, <1>7, <1>8, <1>9, <1>10, <1>11,
       <1>12, <1>13, <1>14 DEF RunStep

\* A worker takes the first event of the channel and hands it to the callback.
LEMMA WorkerStepPlaced ==
  ASSUME Typed, Placed, NEW w \in Workers, WorkerStep(w)
  PROVE  Placed'
  <1> USE DEF dbVars, stateVars, runVars, chanVars, workerVars, callbackVars
  <1>1. CASE WorkerReceive(w)
    <2> DEFINE e == Head(workCh)
    <2>1. /\ UNCHANGED <<runPc, runEvent, excludeIDs, callbackCh, callbackEvent,
                         ordersInFlight>>
          /\ workerEvent' = [workerEvent EXCEPT ![w] = e]
          /\ workCh' = Tail(workCh) /\ workCh # <<>> /\ workerPc[w] = "receive"
      BY <1>1 DEF WorkerReceive
    <2>2. /\ workCh \in Seq(Orders) /\ NoOrder \notin Orders
          /\ workerEvent \in [Workers -> Orders \cup {NoOrder}]
          /\ workerEvent[w] = NoOrder
      BY <2>1, ConstantsAssumption DEF Typed, TypeOK, EventsHeld
    <2>3. /\ Len(workCh) \in Nat \ {0} /\ DOMAIN workCh = 1 .. Len(workCh)
          /\ e = workCh[1] /\ e \in Orders
          /\ DOMAIN workCh' = 1 .. Len(workCh) - 1
          /\ \A i \in 1 .. Len(workCh) - 1 : workCh'[i] = workCh[i + 1]
      BY <2>1, <2>2, ReceivedCh
    <2>4. \A i, j \in 1 .. Len(workCh) : workCh[i] = workCh[j] => i = j
      BY <2>3 DEF Placed, HandledOnce
    <2>5. \A p : InWorkCh(p)' <=> InWorkCh(p) /\ p # e
      <3> SUFFICES ASSUME NEW p PROVE InWorkCh(p)' <=> InWorkCh(p) /\ p # e
        OBVIOUS
      <3>1. ASSUME InWorkCh(p)' PROVE InWorkCh(p) /\ p # e
        <4>1. PICK i \in 1 .. Len(workCh) - 1 : workCh'[i] = p
          BY <2>3, <3>1 DEF InWorkCh
        <4>2. i + 1 \in 1 .. Len(workCh) /\ workCh[i + 1] = p /\ i + 1 # 1
          BY <2>3, <4>1
        <4>3. 1 \in 1 .. Len(workCh)
          BY <2>3
        <4> QED  BY <2>3, <2>4, <4>2, <4>3 DEF InWorkCh
      <3>2. ASSUME InWorkCh(p), p # e PROVE InWorkCh(p)'
        <4>1. PICK i \in 1 .. Len(workCh) : workCh[i] = p
          BY <2>3, <3>2 DEF InWorkCh
        <4>2. i - 1 \in 1 .. Len(workCh) - 1 /\ (i - 1) + 1 = i
          BY <2>3, <3>2, <4>1
        <4>3. workCh'[i - 1] = p
          BY <2>3, <4>1, <4>2
        <4> QED  BY <2>3, <4>2, <4>3 DEF InWorkCh
      <3> QED  BY <3>1, <3>2
    <2>6. InWorkCh(e)
      <3>1. 1 \in DOMAIN workCh /\ workCh[1] = e
        BY <2>3
      <3> QED  BY <3>1 DEF InWorkCh
    <2>7. \A p \in Orders : WithWorker(p)' <=> WithWorker(p) \/ p = e
      BY <2>1, <2>2 DEF WithWorker
    <2>8. \A p \in Orders : InPipeline(p)' <=> InPipeline(p)
      BY <2>1, <2>5, <2>6, <2>7 DEF InPipeline
    <2>9. InFlightExact'
      BY <2>1, <2>8 DEF Placed, InFlightExact
    <2>10. \A i, j \in DOMAIN workCh' : workCh'[i] = workCh'[j] => i = j
      <3> SUFFICES ASSUME NEW i \in 1 .. Len(workCh) - 1,
                          NEW j \in 1 .. Len(workCh) - 1, workCh'[i] = workCh'[j]
                   PROVE  i = j
        BY <2>3
      <3>1. i + 1 \in 1 .. Len(workCh) /\ j + 1 \in 1 .. Len(workCh)
        BY <2>3
      <3>2. i + 1 = j + 1
        BY <2>3, <2>4, <3>1
      <3> QED  BY <3>2
    <2>11. \A u, v \in Workers :
             workerEvent'[u] = workerEvent'[v] => u = v \/ workerEvent'[u] = NoOrder
      <3>1. ~WithWorker(e)
        BY <2>3, <2>6 DEF Placed, HandledOnce
      <3>2. \A u \in Workers : workerEvent[u] # e
        BY <3>1 DEF WithWorker
      <3>3. \A u \in Workers : workerEvent'[u] = IF u = w THEN e ELSE workerEvent[u]
        BY <2>1, <2>2
      <3> QED  BY <3>2, <3>3 DEF Placed, HandledOnce
    <2>12. HandledOnce'
      BY <2>1, <2>3, <2>5, <2>6, <2>7, <2>10, <2>11 DEF Placed, HandledOnce
    <2>13. FetchFresh'
      BY <2>1 DEF Placed, FetchFresh
    <2> QED  BY <2>9, <2>12, <2>13 DEF Placed
  <1>2. CASE WorkerExit(w)  BY <1>2, StillPlaced DEF WorkerExit
  <1>3. CASE ShouldProcessEvent(w)
    BY <1>3, StillPlaced DEF ShouldProcessEvent
  <1>4. CASE WaitInterrupted(w)
    BY <1>4, StillPlaced DEF WaitInterrupted
  <1>5. CASE MakeAccrualClientRequest(w)
    BY <1>5, StillPlaced DEF MakeAccrualClientRequest
  <1>6. CASE ProcessAccrualClientOrder(w)
    BY <1>6, StillPlaced DEF ProcessAccrualClientOrder
  <1>7. CASE CallbackOnDone(w)
    <2> DEFINE e == workerEvent[w]
    <2>1. /\ UNCHANGED <<runPc, runEvent, excludeIDs, workCh, callbackEvent,
                         ordersInFlight>>
          /\ workerEvent' = [workerEvent EXCEPT ![w] = NoOrder]
          /\ callbackCh' = [order |-> e, err |-> workerErr[w]]
          /\ callbackCh = NoResult /\ workerPc[w] = "report"
      BY <1>7 DEF CallbackOnDone
    <2>2. /\ e \in Orders /\ NoOrder \notin Orders
          /\ workerEvent \in [Workers -> Orders \cup {NoOrder}]
          /\ callbackCh'.order = e /\ callbackCh.order = NoOrder
      BY <2>1, NoResultType, ConstantsAssumption DEF Typed, TypeOK, EventsHeld
    <2>3. \A v \in Workers : workerEvent[v] = e => v = w
      BY <2>2 DEF Placed, HandledOnce
    <2>4. WithWorker(e)
      BY DEF WithWorker
    <2>5. \A p : InWorkCh(p)' <=> InWorkCh(p)
      BY <2>1 DEF InWorkCh
    <2>6. \A p \in Orders : WithWorker(p)' <=> WithWorker(p) /\ p # e
      BY <2>1, <2>2, <2>3 DEF WithWorker
    <2>7. \A p \in Orders : InPipeline(p)' <=> InPipeline(p)
      BY <2>1, <2>2, <2>4, <2>5, <2>6 DEF InPipeline
    <2>8. InFlightExact'
      BY <2>1, <2>7 DEF Placed, InFlightExact
    <2>9. \A u, v \in Workers :
             workerEvent'[u] = workerEvent'[v] => u = v \/ workerEvent'[u] = NoOrder
      BY <2>1, <2>2 DEF Placed, HandledOnce
    <2>10. HandledOnce'
      BY <2>1, <2>2, <2>4, <2>5, <2>6, <2>9 DEF Placed, HandledOnce
    <2>11. FetchFresh'
      BY <2>1 DEF Placed, FetchFresh
    <2> QED  BY <2>8, <2>10, <2>11 DEF Placed
  <1> QED
    BY <1>1, <1>2, <1>3, <1>4, <1>5, <1>6, <1>7 DEF WorkerStep

\* The callback goroutine lets an order go only when it is done with it.
LEMMA CallbackStepPlaced == Typed /\ Placed /\ CallbackStep => Placed'
  <1> SUFFICES ASSUME Typed, Placed, CallbackStep PROVE Placed'
    OBVIOUS
  <1> USE DEF dbVars, stateVars, runVars, chanVars, workerVars, callbackVars
  <1>1. CASE CallbackReceive
    <2>1. /\ UNCHANGED <<runPc, runEvent, excludeIDs, workCh, workerEvent,
                         ordersInFlight>>
          /\ callbackEvent' = callbackCh.order /\ callbackCh' = NoResult
          /\ callbackCh # NoResult /\ callbackPc = "receive"
      BY <1>1 DEF CallbackReceive
    <2>2. /\ callbackCh.order \in Orders /\ NoOrder \notin Orders
          /\ callbackCh'.order = NoOrder /\ callbackEvent = NoOrder
      BY <2>1, NoResultType, ConstantsAssumption DEF Typed, TypeOK, EventsHeld
    <2>3. \A p : /\ InWorkCh(p)' <=> InWorkCh(p)
                 /\ WithWorker(p)' <=> WithWorker(p)
      BY <2>1 DEF InWorkCh, WithWorker
    <2>4. \A p \in Orders : InPipeline(p)' <=> InPipeline(p)
      BY <2>1, <2>2, <2>3 DEF InPipeline
    <2>5. InFlightExact'
      BY <2>1, <2>4 DEF Placed, InFlightExact
    <2>6. HandledOnce'
      BY <2>1, <2>2, <2>3 DEF Placed, HandledOnce
    <2>7. FetchFresh'
      BY <2>1 DEF Placed, FetchFresh
    <2> QED  BY <2>5, <2>6, <2>7 DEF Placed
  <1>2. CASE CallbackExit  BY <1>2, StillPlaced DEF CallbackExit
  <1>3. CASE PostponeOrderProcessing
    BY <1>3, StillPlaced DEF PostponeOrderProcessing
  <1>4. CASE AddPendingOrder  BY <1>4, StillPlaced DEF AddPendingOrder
  <1>5. CASE DecrementEventsInFlight
    <2>1. /\ UNCHANGED <<runPc, runEvent, excludeIDs, workCh, workerEvent,
                         callbackCh>>
          /\ callbackEvent' = NoOrder
          /\ ordersInFlight' = ordersInFlight \ {callbackEvent}
          /\ callbackPc = "decrement"
      BY <1>5 DEF DecrementEventsInFlight
    <2>2. callbackEvent \in Orders /\ NoOrder \notin Orders
      BY <2>1, ConstantsAssumption DEF Typed, TypeOK, EventsHeld
    <2>3. \A p : /\ InWorkCh(p)' <=> InWorkCh(p)
                 /\ WithWorker(p)' <=> WithWorker(p)
      BY <2>1 DEF InWorkCh, WithWorker
    <2>4. /\ runEvent # callbackEvent /\ ~InWorkCh(callbackEvent)
          /\ ~WithWorker(callbackEvent) /\ callbackCh.order # callbackEvent
      BY <2>2 DEF Placed, HandledOnce
    <2>5. \A p \in Orders : InPipeline(p)' <=> InPipeline(p) /\ p # callbackEvent
      BY <2>1, <2>2, <2>3, <2>4 DEF InPipeline
    <2>6. InFlightExact'
      BY <2>1, <2>5 DEF Placed, InFlightExact
    <2>7. HandledOnce'
      BY <2>1, <2>2, <2>3 DEF Placed, HandledOnce
    <2>8. FetchFresh'
      BY <2>1 DEF Placed, FetchFresh
    <2> QED  BY <2>6, <2>7, <2>8 DEF Placed
  <1> QED
    BY <1>1, <1>2, <1>3, <1>4, <1>5 DEF CallbackStep

\* Handlers and the environment move no event; a crash forgets them all.
LEMMA OtherStepsPlaced ==
  ASSUME Typed, Placed,
         \/ \E o \in Orders : Upload(o) \/ NotifyStep(o)
         \/ Tick \/ Cancel \/ Rerun \/ Crash
  PROVE  Placed'
  <1> USE DEF dbVars, stateVars, runVars, chanVars, workerVars, callbackVars
  <1>1. ASSUME NEW o \in Orders, Upload(o) \/ NotifyStep(o) PROVE Placed'
    BY <1>1, StillPlaced DEF NotifyStep, Upload, UploadTrigger, UploadNotify
  <1>2. CASE Tick  BY <1>2, StillPlaced DEF Tick
  <1>3. CASE Cancel  BY <1>3, StillPlaced DEF Cancel
  <1>4. CASE Rerun  BY <1>4, StillPlaced DEF Rerun
  <1>5. CASE Crash
    <2> USE ConstantsAssumption, NoResultType
    <2>1. /\ workCh' = <<>> /\ callbackCh' = NoResult /\ callbackEvent' = NoOrder
          /\ workerEvent' = [w \in Workers |-> NoOrder]
          /\ runEvent' = NoOrder /\ runPc' \in {"trigger", "start"}
          /\ ordersInFlight' = {}
      BY <1>5 DEF Crash
    <2>2. \A o \in Orders : ~InPipeline(o)' /\ ~InWorkCh(o)' /\ ~WithWorker(o)'
      BY <2>1 DEF InPipeline, InWorkCh, WithWorker
    <2>3. InFlightExact' /\ FetchFresh'
      BY <2>1, <2>2 DEF InFlightExact, FetchFresh
    <2>4. HandledOnce'
      BY <2>1, <2>2 DEF HandledOnce
    <2> QED  BY <2>3, <2>4 DEF Placed
  <1> QED  BY <1>1, <1>2, <1>3, <1>4, <1>5

LEMMA PlacedInductive == Typed /\ Placed /\ [Next]_vars => Placed'
  <1> SUFFICES ASSUME Typed, Placed, [Next]_vars PROVE Placed'
    OBVIOUS
  <1>1. CASE Next
    BY <1>1, RunStepPlaced, WorkerStepPlaced, CallbackStepPlaced,
       OtherStepsPlaced DEF Next
  <1>2. CASE UNCHANGED vars
    BY <1>2, StillPlaced DEF vars, stateVars, runVars, chanVars, workerVars,
                             callbackVars
  <1> QED  BY <1>1, <1>2

\* ordersInFlight is the set of orders some goroutine or channel holds.
THEOREM InFlightIsExact == Spec => []InFlightExact
  <1>1. Typed /\ Placed /\ [Next]_vars => (Typed /\ Placed)'
    BY TypedInductive, PlacedInductive
  <1>2. Placed => InFlightExact
    BY DEF Placed
  <1> QED  BY InitTyped, InitPlaced, <1>1, <1>2, PTL DEF Spec

\* No two goroutines or channel slots hold the same order.
THEOREM NoOrderHandledTwice == Spec => []HandledOnce
  <1>1. Typed /\ Placed /\ [Next]_vars => (Typed /\ Placed)'
    BY TypedInductive, PlacedInductive
  <1>2. Placed => HandledOnce
    BY DEF Placed
  <1> QED  BY InitTyped, InitPlaced, <1>1, <1>2, PTL DEF Spec

-----------------------------------------------------------------------------
(* The database: exactly one credit, and a queue that matches the statuses *)

\* An order a worker asks or has asked the accrual system about is not final:
\* the worker has read its status, and nobody else can change it meanwhile.
WorkedOn ==
  \A w \in Workers :
    workerPc[w] \in {"wait", "apply"} => status[workerEvent[w]] \in Processable

\* An order the callback goroutine has put back is still in the queue.
PutBack == callbackPc = "addPending" => callbackEvent \in queued

Recorded ==
  QueueMatchesStatus /\ CreditedOnce /\ WorkedOn /\ PutBack /\ PendingOrdersWait

LEMMA InitRecorded == Init => Recorded
  <1> SUFFICES ASSUME Init PROVE Recorded
    OBVIOUS
  <1> USE DEF Init, FreshProcess
  <1>1. QueueMatchesStatus /\ CreditedOnce
    BY DEF QueueMatchesStatus, CreditedOnce, Processable
  <1>2. WorkedOn /\ PutBack /\ PendingOrdersWait
    BY DEF WorkedOn, PutBack, PendingOrdersWait
  <1> QED  BY <1>1, <1>2 DEF Recorded

\* The two kinds of steps that change statuses, the queue or credits.
Creation(o) == status[o] = "ABSENT" /\ CreateOrder(o)
Application(w) ==
  /\ workerPc[w] = "apply" /\ ApplyAnswer(workerAnswer[w], workerEvent[w])
  /\ workerPc' = [workerPc EXCEPT ![w] = "report"]
  /\ UNCHANGED <<pendingOrders, ordersInFlight, callbackEvent, callbackPc, workerEvent>>
NoDatabaseChange == UNCHANGED <<status, queued, credits>>

LEMMA RunStepReads == RunStep => NoDatabaseChange
  BY DEF RunStep, NoDatabaseChange, dbVars,
         RunTrigger, RunNotify, StartWorkers, SelectNotification,
         SelectWakeup, SelectDone, NextEvent, GetNextProcessableOrder,
         AdmitEvent, TakeEvent, Stop, CloseWorkCh,
         WaitWorkers, WaitCallbacks

LEMMA WorkerStepWrites ==
  ASSUME NEW w \in Workers, WorkerStep(w)
  PROVE  NoDatabaseChange \/ Application(w)
  <1> USE DEF NoDatabaseChange, dbVars
  <1>1. CASE ProcessAccrualClientOrder(w)
    BY <1>1 DEF ProcessAccrualClientOrder, Application, Report, stateVars, callbackVars
  <1>2. CASE ~ProcessAccrualClientOrder(w)
    BY <1>2 DEF WorkerStep, WorkerReceive, WorkerExit, ShouldProcessEvent,
                WaitInterrupted, MakeAccrualClientRequest, CallbackOnDone
  <1> QED  BY <1>1, <1>2

LEMMA CallbackStepReads == CallbackStep => NoDatabaseChange
  BY DEF CallbackStep, NoDatabaseChange, dbVars, CallbackReceive, CallbackExit,
         PostponeOrderProcessing, AddPendingOrder, DecrementEventsInFlight

LEMMA OtherStepsWrites ==
  ASSUME \/ \E o \in Orders : Upload(o) \/ NotifyStep(o)
         \/ Tick \/ Cancel \/ Rerun \/ Crash
  PROVE  NoDatabaseChange \/ \E o \in Orders : Creation(o)
  BY DEF NoDatabaseChange, Creation, dbVars, NotifyStep, Upload, UploadTrigger,
         UploadNotify, Tick, Cancel, Rerun, Crash

LEMMA DatabaseChanges ==
  Next => \/ NoDatabaseChange
          \/ \E o \in Orders : Creation(o)
          \/ \E w \in Workers : Application(w)
  BY RunStepReads, WorkerStepWrites, CallbackStepReads, OtherStepsWrites DEF Next

\* The order an answer is applied to is an order that is not final.
LEMMA AppliedToProcessable ==
  ASSUME Typed, Recorded, NEW w \in Workers, Application(w)
  PROVE  workerEvent[w] \in Orders /\ status[workerEvent[w]] \in Processable
  BY DEF Typed, TypeOK, EventsHeld, Recorded, WorkedOn, Application

\* Queue and credits follow the status in each transaction.
LEMMA TransactionsConsistent ==
  ASSUME Typed, Recorded, Next
  PROVE  QueueMatchesStatus' /\ CreditedOnce'
  <1> USE DEF QueueMatchesStatus, CreditedOnce, Processable
  <1>1. CASE NoDatabaseChange
    BY <1>1 DEF NoDatabaseChange, Recorded
  <1>2. ASSUME NEW o \in Orders, Creation(o)
        PROVE  QueueMatchesStatus' /\ CreditedOnce'
    BY <1>2 DEF Creation, CreateOrder, Recorded, Typed, TypeOK
  <1>3. ASSUME NEW w \in Workers, Application(w)
        PROVE  QueueMatchesStatus' /\ CreditedOnce'
    <2> DEFINE o == workerEvent[w]
    <2>1. o \in Orders /\ status[o] \in Processable
      BY <1>3, AppliedToProcessable
    <2>2. MarkOrderProcessing(o) \/ MarkOrderProcessed(o) \/ MarkOrderInvalid(o)
      BY <1>3 DEF Application, ApplyAnswer
    <2> HIDE DEF o
    <2>3. CASE MarkOrderProcessing(o)
      BY <2>1, <2>3 DEF MarkOrderProcessing, Recorded, Typed, TypeOK
    <2>4. CASE MarkOrderProcessed(o)
      BY <2>1, <2>4 DEF MarkOrderProcessed, Recorded, Typed, TypeOK
    <2>5. CASE MarkOrderInvalid(o)
      BY <2>1, <2>5 DEF MarkOrderInvalid, Recorded, Typed, TypeOK
    <2> QED  BY <2>2, <2>3, <2>4, <2>5
  <1> QED  BY <1>1, <1>2, <1>3, DatabaseChanges

\* A status changes only by creation or in the hands of the worker that applies
\* an answer; every other order keeps its status and its place in the queue.
LEMMA OthersUntouched ==
  ASSUME Typed, Recorded, Next, NEW o \in Orders, status[o] \in Processable,
         \A w \in Workers : Application(w) => workerEvent[w] # o
  PROVE  status'[o] = status[o] /\ (o \in queued => o \in queued')
  <1>1. CASE NoDatabaseChange
    BY <1>1 DEF NoDatabaseChange
  <1>2. ASSUME NEW p \in Orders, Creation(p)
        PROVE  status'[o] = status[o] /\ (o \in queued => o \in queued')
    BY <1>2 DEF Creation, CreateOrder, Processable, Typed, TypeOK
  <1>3. ASSUME NEW w \in Workers, Application(w)
        PROVE  status'[o] = status[o] /\ (o \in queued => o \in queued')
    <2>1. workerEvent[w] # o /\ ApplyAnswer(workerAnswer[w], workerEvent[w])
      BY <1>3 DEF Application
    <2> QED
      BY <2>1 DEF ApplyAnswer, MarkOrderProcessing, MarkOrderProcessed,
                  MarkOrderInvalid, Typed, TypeOK
  <1> QED  BY <1>1, <1>2, <1>3, DatabaseChanges

\* A worker starts to wait for the accrual system only about an order whose
\* status it has just read, and keeps its event while it waits.
LEMMA WaitEntered ==
  ASSUME Typed, Next, NEW v \in Workers, workerPc'[v] \in {"wait", "apply"}
  PROVE  /\ workerEvent'[v] = workerEvent[v]
         /\ \/ workerPc[v] \in {"wait", "apply"}
            \/ status[workerEvent[v]] \in Processable /\ status' = status
  <1> DEFINE Goal == /\ workerEvent'[v] = workerEvent[v]
                     /\ \/ workerPc[v] \in {"wait", "apply"}
                        \/ status[workerEvent[v]] \in Processable /\ status' = status
  <1> USE DEF dbVars, workerVars
  <1>1. CASE RunStep
    BY <1>1 DEF RunStep, RunTrigger, RunNotify, StartWorkers, SelectNotification,
                SelectWakeup, SelectDone, NextEvent, GetNextProcessableOrder,
                AdmitEvent, TakeEvent, Stop, CloseWorkCh,
                WaitWorkers, WaitCallbacks
  <1>2. ASSUME NEW w \in Workers, WorkerStep(w) PROVE Goal
    <2> USE DEF Typed, TypeOK
    <2>1. CASE WorkerReceive(w)  BY <2>1 DEF WorkerReceive, Report
    <2>2. CASE WorkerExit(w)  BY <2>2 DEF WorkerExit
    <2>3. CASE ShouldProcessEvent(w)
      <3>1. CASE v = w
        BY <2>3, <3>1 DEF ShouldProcessEvent, Report
      <3>2. CASE v # w
        BY <2>3, <3>2 DEF ShouldProcessEvent, Report
      <3> QED  BY <3>1, <3>2
    <2>4. CASE WaitInterrupted(w)  BY <2>4 DEF WaitInterrupted, Report
    <2>5. CASE MakeAccrualClientRequest(w)
      <3>1. CASE v = w
        BY <2>5, <3>1 DEF MakeAccrualClientRequest
      <3>2. CASE v # w
        BY <2>5, <3>2 DEF MakeAccrualClientRequest, Report
      <3> QED  BY <3>1, <3>2
    <2>6. CASE ProcessAccrualClientOrder(w)
      BY <2>6 DEF ProcessAccrualClientOrder, Report
    <2>7. CASE CallbackOnDone(w)  BY <2>7 DEF CallbackOnDone
    <2> QED
      BY <1>2, <2>1, <2>2, <2>3, <2>4, <2>5, <2>6, <2>7 DEF WorkerStep
  <1>3. CASE CallbackStep
    BY <1>3 DEF CallbackStep, CallbackReceive, CallbackExit,
                PostponeOrderProcessing, AddPendingOrder, DecrementEventsInFlight
  <1>4. CASE \E o \in Orders : Upload(o) \/ NotifyStep(o)
    BY <1>4 DEF NotifyStep, Upload, UploadTrigger, UploadNotify
  <1>5. CASE Tick \/ Cancel \/ Rerun \/ Crash
    BY <1>5 DEF Tick, Cancel, Rerun, Crash
  <1> QED  BY <1>1, <1>2, <1>3, <1>4, <1>5 DEF Next

LEMMA NextWorkedOn ==
  ASSUME Typed, Placed, Recorded, Next
  PROVE  WorkedOn'
  <1> SUFFICES ASSUME NEW v \in Workers, workerPc'[v] \in {"wait", "apply"}
               PROVE  status'[workerEvent'[v]] \in Processable
    BY DEF WorkedOn
  <1>1. workerEvent'[v] = workerEvent[v]
    BY WaitEntered
  <1>2. CASE workerPc[v] \in {"wait", "apply"}
    <2>1. workerEvent[v] \in Orders /\ status[workerEvent[v]] \in Processable
      BY <1>2 DEF Typed, TypeOK, EventsHeld, Recorded, WorkedOn
    <2>2. \A w \in Workers : Application(w) => workerEvent[w] # workerEvent[v]
      <3> SUFFICES ASSUME NEW w \in Workers, Application(w),
                          workerEvent[w] = workerEvent[v]
                   PROVE  FALSE
        OBVIOUS
      <3>1. w = v
        BY <2>1, ConstantsAssumption DEF Placed, HandledOnce
      <3>2. workerPc'[v] = "report"
        BY <3>1 DEF Application, Typed, TypeOK
      <3> QED  BY <3>2
    <2> QED  BY <1>1, <2>1, <2>2, OthersUntouched
  <1>3. CASE status[workerEvent[v]] \in Processable /\ status' = status
    BY <1>1, <1>3
  <1> QED  BY <1>2, <1>3, WaitEntered

\* An order that waits in the queue, or is about to, and is in no worker's
\* hands stays in the queue.
LEMMA StaysQueued ==
  ASSUME Typed, Recorded, Next, NEW o \in Orders, o \in queued, ~WithWorker(o)
  PROVE  o \in queued'
  <1>1. status[o] \in Processable
    BY DEF Recorded, QueueMatchesStatus
  <1>2. \A w \in Workers : Application(w) => workerEvent[w] # o
    BY DEF WithWorker
  <1> QED  BY <1>1, <1>2, OthersUntouched

LEMMA NextPutBack ==
  ASSUME Typed, Placed, Recorded, Next
  PROVE  PutBack'
  <1> SUFFICES ASSUME callbackPc' = "addPending" PROVE callbackEvent' \in queued'
    BY DEF PutBack
  <1>1. /\ callbackEvent' = callbackEvent
        /\ \/ callbackPc = "addPending"
           \/ callbackEvent \in queued /\ queued' = queued
    <2> USE DEF callbackVars
    <2>1. CASE RunStep
      BY <2>1 DEF RunStep, RunTrigger, RunNotify, StartWorkers, SelectNotification,
                  SelectWakeup, SelectDone, NextEvent, GetNextProcessableOrder,
                  AdmitEvent, TakeEvent, Stop, CloseWorkCh,
                  WaitWorkers, WaitCallbacks
    <2>2. CASE \E w \in Workers : WorkerStep(w)
      BY <2>2 DEF WorkerStep, WorkerReceive, WorkerExit, ShouldProcessEvent,
                  WaitInterrupted, MakeAccrualClientRequest,
                  ProcessAccrualClientOrder, CallbackOnDone
    <2>3. CASE CallbackStep
      BY <2>3 DEF CallbackStep, CallbackReceive, CallbackExit,
                  PostponeOrderProcessing, AddPendingOrder, DecrementEventsInFlight
    <2>4. CASE \E o \in Orders : Upload(o) \/ NotifyStep(o)
      BY <2>4 DEF NotifyStep, Upload, UploadTrigger, UploadNotify
    <2>5. CASE Tick \/ Cancel \/ Rerun \/ Crash
      BY <2>5 DEF Tick, Cancel, Rerun, Crash
    <2> QED  BY <2>1, <2>2, <2>3, <2>4, <2>5 DEF Next
  <1>2. CASE callbackPc = "addPending"
    <2>1. callbackEvent \in Orders /\ callbackEvent \in queued
      BY <1>2 DEF Typed, TypeOK, EventsHeld, Recorded, PutBack
    <2>2. ~WithWorker(callbackEvent)
      BY <2>1 DEF Placed, HandledOnce
    <2> QED  BY <1>1, <2>1, <2>2, StaysQueued
  <1> QED  BY <1>1, <1>2

\* What a step can do to the pending orders, the orders in flight and the event
\* of the callback goroutine.
Unmoved == UNCHANGED <<pendingOrders, ordersInFlight, callbackEvent, callbackPc>>
Fetched == /\ runPc = "admit" /\ UNCHANGED <<callbackEvent, callbackPc>>
           /\ ordersInFlight' = ordersInFlight \cup {runEvent}
           /\ pendingOrders' = pendingOrders \ {runEvent}
Forgotten == pendingOrders' = {}

LEMMA PendingMoves ==
  Typed /\ Next => Unmoved \/ Fetched \/ Forgotten \/ CallbackStep
  <1> SUFFICES ASSUME Typed, Next PROVE Unmoved \/ Fetched \/ Forgotten \/ CallbackStep
    OBVIOUS
  <1> USE DEF Unmoved, Fetched, Forgotten, stateVars, callbackVars
  <1>1. CASE AdmitEvent
    BY <1>1 DEF AdmitEvent
  <1>2. CASE Stop
    BY <1>2 DEF Stop
  <1>3. CASE RunStep /\ ~AdmitEvent /\ ~Stop
    <2>1. CASE RunTrigger  BY <2>1 DEF RunTrigger
    <2>2. CASE RunNotify  BY <2>2 DEF RunNotify
    <2>3. CASE StartWorkers
      BY <2>3 DEF StartWorkers, Typed, ShutdownOrder, Stopped
    <2>4. CASE SelectNotification  BY <2>4 DEF SelectNotification
    <2>5. CASE SelectWakeup  BY <2>5 DEF SelectWakeup
    <2>6. CASE SelectDone  BY <2>6 DEF SelectDone
    <2>7. CASE NextEvent  BY <2>7 DEF NextEvent
    <2>8. CASE GetNextProcessableOrder  BY <2>8 DEF GetNextProcessableOrder
    <2>9. CASE TakeEvent  BY <2>9 DEF TakeEvent
    <2>10. CASE CloseWorkCh  BY <2>10 DEF CloseWorkCh
    <2>11. CASE WaitWorkers  BY <2>11 DEF WaitWorkers
    <2>12. CASE WaitCallbacks  BY <2>12 DEF WaitCallbacks
    <2> QED
      BY <1>3, <2>1, <2>2, <2>3, <2>4, <2>5, <2>6, <2>7, <2>8, <2>9, <2>10,
         <2>11, <2>12 DEF RunStep
  <1>4. CASE \E w \in Workers : WorkerStep(w)
    BY <1>4 DEF WorkerStep, WorkerReceive, WorkerExit, ShouldProcessEvent,
                WaitInterrupted, MakeAccrualClientRequest,
                ProcessAccrualClientOrder, CallbackOnDone
  <1>5. CASE \E o \in Orders : Upload(o) \/ NotifyStep(o)
    BY <1>5 DEF NotifyStep, Upload, UploadTrigger, UploadNotify
  <1>6. CASE Tick \/ Cancel \/ Rerun \/ Crash
    BY <1>6 DEF Tick, Cancel, Rerun, Crash
  <1> QED  BY <1>1, <1>2, <1>3, <1>4, <1>5, <1>6 DEF Next

\* A pending order waits in the queue and is not in flight, except while its
\* callback ends: the invariant in terms of ordersInFlight.
LEMMA PendingByFlight ==
  ASSUME InFlightExact, pendingOrders \subseteq Orders
  PROVE  PendingOrdersWait <=>
           \A o \in pendingOrders :
             /\ o \in queued
             /\ o \in ordersInFlight => callbackEvent = o /\ callbackPc = "decrement"
  BY DEF InFlightExact, PendingOrdersWait

LEMMA NextPending ==
  ASSUME Typed, Placed, Recorded, Next
  PROVE  PendingOrdersWait'
  <1> DEFINE Waits(o) == /\ o \in queued
                         /\ o \in ordersInFlight => callbackEvent = o /\ callbackPc = "decrement"
  <1>1. Typed' /\ Placed'
    BY TypedInductive, PlacedInductive
  <1>2. \A o \in pendingOrders : o \in Orders /\ Waits(o)
    BY PendingByFlight DEF Typed, TypeOK, Placed, Recorded
  <1>3. InFlightExact' /\ pendingOrders' \subseteq Orders
    BY <1>1 DEF Typed, TypeOK, Placed
  <1>4. SUFFICES ASSUME NEW o \in pendingOrders'
                 PROVE  Waits(o)'
    BY <1>3 DEF InFlightExact, PendingOrdersWait
  <1>5. ASSUME o \in pendingOrders PROVE o \in queued'
    <2>1. ~WithWorker(o)
      BY <1>2, <1>5 DEF Placed, InFlightExact, HandledOnce, InPipeline
    <2> QED  BY <1>2, <1>5, <2>1, StaysQueued
  <1>6. CASE Unmoved
    BY <1>2, <1>5, <1>6 DEF Unmoved
  <1>7. CASE Fetched
    BY <1>2, <1>5, <1>7 DEF Fetched
  <1>8. CASE Forgotten
    BY <1>8 DEF Forgotten
  <1>9. CASE CallbackStep
    <2> USE <1>2, <1>5 DEF stateVars
    <2>1. CASE CallbackReceive
      BY <2>1, ConstantsAssumption DEF CallbackReceive, Typed, EventsHeld
    <2>2. CASE CallbackExit
      BY <2>2, ConstantsAssumption DEF CallbackExit, Typed, EventsHeld
    <2>3. CASE PostponeOrderProcessing
      BY <2>3 DEF PostponeOrderProcessing
    <2>4. CASE AddPendingOrder
      <3>1. /\ callbackPc = "addPending" /\ callbackPc' = "decrement"
            /\ callbackEvent' = callbackEvent /\ queued' = queued
            /\ ordersInFlight' = ordersInFlight
            /\ o \in pendingOrders \/ o = callbackEvent
        BY <2>4 DEF AddPendingOrder, dbVars
      <3>2. callbackEvent \in queued
        BY <3>1 DEF Recorded, PutBack
      <3> QED  BY <3>1, <3>2
    <2>5. CASE DecrementEventsInFlight
      BY <2>5 DEF DecrementEventsInFlight
    <2> QED
      BY <1>9, <2>1, <2>2, <2>3, <2>4, <2>5 DEF CallbackStep
  <1> QED  BY <1>6, <1>7, <1>8, <1>9, PendingMoves

-----------------------------------------------------------------------------
(* The inductive invariant and what it gives *)

IInv == Typed /\ Placed /\ Recorded

\* The invariant holds before anything has started,
THEOREM InitIInv == Init => IInv
  BY InitTyped, InitPlaced, InitRecorded DEF IInv

\* and every step of every goroutine preserves it,
THEOREM IInvInductive == IInv /\ [Next]_vars => IInv'
  <1> SUFFICES ASSUME IInv, [Next]_vars PROVE IInv'
    OBVIOUS
  <1>1. Typed' /\ Placed'
    BY TypedInductive, PlacedInductive DEF IInv
  <1>2. ASSUME Next PROVE Recorded'
    BY <1>2, TransactionsConsistent, NextWorkedOn, NextPutBack, NextPending
       DEF IInv, Recorded
  <1>3. ASSUME UNCHANGED vars PROVE Recorded'
    <2> USE <1>3 DEF vars, dbVars, stateVars, runVars, chanVars, workerVars,
                     callbackVars, IInv, Recorded
    <2>1. QueueMatchesStatus' /\ CreditedOnce' /\ WorkedOn' /\ PutBack'
      BY DEF QueueMatchesStatus, CreditedOnce, WorkedOn, PutBack
    <2>2. PendingOrdersWait'
      BY DEF PendingOrdersWait, InPipeline, InWorkCh, WithWorker
    <2> QED  BY <2>1, <2>2
  <1> QED  BY <1>1, <1>2, <1>3 DEF IInv

\* so that it holds in every state the processor can reach.
THEOREM Invariant == Spec => []IInv
  BY InitIInv, IInvInductive, PTL DEF Spec

\* The accrual of an order is added to a balance exactly once, and only of a
\* PROCESSED order.
THEOREM CreditedExactlyOnce == Spec => []CreditedOnce
  <1>1. IInv => CreditedOnce
    BY DEF IInv, Recorded
  <1> QED  BY <1>1, Invariant, PTL

\* The durable queue holds exactly the orders that still need work.
THEOREM QueueIsComplete == Spec => []QueueMatchesStatus
  <1>1. IInv => QueueMatchesStatus
    BY DEF IInv, Recorded
  <1> QED  BY <1>1, Invariant, PTL

\* A pending order waits in the database and nobody works on it.
THEOREM PendingIsWaiting == Spec => []PendingOrdersWait
  <1>1. IInv => PendingOrdersWait
    BY DEF IInv, Recorded
  <1> QED  BY <1>1, Invariant, PTL

\* When Run returns nothing is left in a channel, in flight or pending.
LEMMA IdleAtReturn == IInv => IdleWhenReturned
  <1> SUFFICES ASSUME IInv, runPc = "returned" PROVE
               /\ HasFinished
               /\ workCh = <<>> /\ callbackCh = NoResult
               /\ callbackPc = "exited" /\ \A w \in Workers : workerPc[w] = "exited"
    BY DEF IdleWhenReturned
  <1> USE DEF IInv, Typed
  <1>1. /\ callbackPc = "exited" /\ callbackCh = NoResult
        /\ \A w \in Workers : workerPc[w] = "exited"
    BY DEF ShutdownOrder, Stopped
  <1>2. workCh = <<>>
    BY <1>1, ConstantsAssumption DEF ShutdownOrder
  <1>3. /\ callbackEvent = NoOrder /\ callbackCh.order = NoOrder
        /\ \A w \in Workers : workerEvent[w] = NoOrder
    BY <1>1, NoResultType DEF EventsHeld
  <1>4. \A o \in Orders : ~InPipeline(o)
    BY <1>2, <1>3, ConstantsAssumption DEF InPipeline, InWorkCh, WithWorker
  <1>5. ordersInFlight = {} /\ pendingOrders = {} /\ hasStarted
    BY <1>4 DEF Placed, InFlightExact, ShutdownOrder, Stopped
  <1> QED  BY <1>1, <1>2, <1>5 DEF HasFinished

\* This holds in every reachable state.
THEOREM NothingLeftBehind == Spec => []IdleWhenReturned
  BY IdleAtReturn, Invariant, PTL

-----------------------------------------------------------------------------
(* The processor implements the life cycle of an order. *)

LEMMA InitImplements == Init => Lifecycle!Init
  BY DEF Init, Lifecycle!Init

\* Every step is a step of the life cycle or leaves it alone.
LEMMA StepImplements ==
  ASSUME IInv, [Next]_vars
  PROVE  [Lifecycle!Next]_(Lifecycle!lifecycleVars)
  <1> USE DEF Lifecycle!Next, Lifecycle!lifecycleVars, Lifecycle!Processable
  <1>1. CASE NoDatabaseChange
    BY <1>1 DEF NoDatabaseChange
  <1>2. ASSUME NEW o \in Orders, Creation(o)
        PROVE  Lifecycle!Uploaded(o)
    BY <1>2 DEF Creation, CreateOrder, Lifecycle!Uploaded
  <1>3. ASSUME NEW w \in Workers, Application(w)
        PROVE  \E o \in Orders : \/ Lifecycle!BeingProcessed(o)
                                 \/ Lifecycle!Rejected(o) \/ Lifecycle!Credited(o)
    <2>1. workerEvent[w] \in Orders /\ status[workerEvent[w]] \in Processable
      BY <1>3, AppliedToProcessable DEF IInv
    <2> QED
      BY <1>3, <2>1 DEF Application, ApplyAnswer, MarkOrderProcessing,
         MarkOrderProcessed, MarkOrderInvalid, Lifecycle!BeingProcessed,
         Lifecycle!Rejected, Lifecycle!Credited, Processable
  <1>4. CASE UNCHANGED vars
    BY <1>4 DEF vars, dbVars
  <1> QED  BY <1>1, <1>2, <1>3, <1>4, DatabaseChanges

\* The processor implements OrderLifecycle for any orders, workers and faults.
THEOREM Implementation == Spec => ImplementsLifecycle
  <1>1. Init => Lifecycle!Init
    BY InitImplements
  <1>2. IInv /\ [Next]_vars => [Lifecycle!Next]_(Lifecycle!lifecycleVars)
    BY StepImplements
  <1> QED  BY <1>1, <1>2, Invariant, PTL DEF Spec, ImplementsLifecycle, Lifecycle!Spec
=============================================================================
