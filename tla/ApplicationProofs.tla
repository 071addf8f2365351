------------------------- MODULE ApplicationProofs -------------------------
(***************************************************************************)
(* Proofs about Application for any orders, workers, delays and faults: a  *)
(* process that reports success has left nothing undone. The invariant of  *)
(* the order processor holds in the process too, whose server thread may   *)
(* cancel it.                                                              *)
(***************************************************************************)
EXTENDS Application, OrderProcessorProofs

-----------------------------------------------------------------------------
(* The invariant *)

\* The listener does not accept once the server's thread has left its select
\* statement, and a thread that returned no error has seen every request end.
Drained ==
  /\ serverPc # "select" => listener # "open"
  /\ serverPc = "returned" /\ serverErr = "nil" => accepted = {}

\* A process that has ended was left by both threads.
Ended ==
  /\ exit # "running" => serverPc = "returned" /\ runPc = "returned"
  /\ exit = "ok" => serverErr = "nil"

AppInv == IInv /\ AppTypeOK /\ Drained /\ Ended

-----------------------------------------------------------------------------
(* The order processor in the process *)

\* A thread's error cancels the context of the other, in any state.
LEMMA CancelledIInv ==
  ASSUME IInv, ctxDone' \in BOOLEAN,
         UNCHANGED <<dbVars, stateVars, notifyCh, runVars, chanVars, workerVars,
                     pausedUntil, callbackVars, uploadPc>>
  PROVE  IInv'
  <1> USE DEF dbVars, stateVars, runVars, chanVars, workerVars, callbackVars, IInv
  <1>1. TypeOK'
    BY DEF Typed, TypeOK, FlagsOK
  <1>2. EventsHeld' /\ ShutdownOrder'
    BY DEF Typed, EventsHeld, ShutdownOrder, Stopped
  <1>3. Placed'
    BY DEF Placed, InFlightExact, HandledOnce, FetchFresh, InPipeline, InWorkCh, WithWorker
  <1>4. QueueMatchesStatus' /\ CreditedOnce' /\ WorkedOn' /\ PutBack'
    BY DEF Recorded, QueueMatchesStatus, CreditedOnce, WorkedOn, PutBack
  <1>5. PendingOrdersWait'
    BY DEF Recorded, PendingOrdersWait, InPipeline, InWorkCh, WithWorker
  <1> QED  BY <1>1, <1>2, <1>3, <1>4, <1>5 DEF Typed, Recorded

LEMMA ReturnedIInv ==
  ASSUME IInv, NEW err, ThreadReturns(err)
  PROVE  IInv'
  <1>1. ctxDone \in BOOLEAN
    BY DEF IInv, Typed, TypeOK, FlagsOK
  <1> QED  BY <1>1, CancelledIInv DEF ThreadReturns

LEMMA AppNextIInv == IInv /\ [AppNext]_appAllVars => IInv'
  <1> SUFFICES ASSUME IInv, [AppNext]_appAllVars PROVE IInv'
    OBVIOUS
  <1>1. CASE [Next]_vars
    BY <1>1, IInvInductive
  <1>2. ASSUME NEW err, ThreadReturns(err)
        PROVE  IInv'
    BY <1>2, ReturnedIInv
  <1>3. CASE UNCHANGED appAllVars
    BY <1>1, <1>3 DEF appAllVars
  <1>4. ASSUME NEW o \in Orders, Accept(o) \/ Handle(o) \/ Finish(o)
        PROVE  [Next]_vars
    BY <1>4 DEF Accept, Handle, Finish, Next
  <1>5. CASE ProcessorStep
    BY <1>1, <1>5 DEF ProcessorStep, Next
  <1>6. CASE ListenFails \/ ServerDone \/ Exit
    BY <1>1, <1>6 DEF ListenFails, ServerDone, Exit
  <1>7. CASE ServerError \/ ShutdownDone \/ ShutdownTimeout
    BY <1>2, <1>7 DEF ServerError, ShutdownDone, ShutdownTimeout
  <1> QED  BY <1>1, <1>3, <1>4, <1>5, <1>6, <1>7 DEF AppNext, ServerStep

-----------------------------------------------------------------------------
(* The process *)

\* The steps of the processor start no upload, and only a signal or an error
\* ends its context.
LEMMA ProcessorStepLeaves ==
  ASSUME ProcessorStep
  PROVE  uploadPc' = uploadPc /\ (ctxDone => ctxDone')
  <1> USE DEF dbVars, stateVars, runVars, chanVars, workerVars, callbackVars
  <1>1. CASE RunStep
    BY <1>1 DEF RunStep, RunTrigger, RunNotify, StartWorkers, SelectNotification,
                SelectWakeup, SelectDone, NextEvent, GetNextProcessableOrder, AdmitEvent,
                TakeEvent, Stop, CloseWorkCh, WaitWorkers, WaitCallbacks
  <1>2. ASSUME NEW w \in Workers, WorkerStep(w)
        PROVE  uploadPc' = uploadPc /\ ctxDone' = ctxDone
    BY <1>2 DEF WorkerStep, WorkerReceive, WorkerExit, ShouldProcessEvent, WaitInterrupted,
                MakeAccrualClientRequest, ProcessAccrualClientOrder, CallbackOnDone
  <1>3. CASE CallbackStep
    BY <1>3 DEF CallbackStep, CallbackReceive, CallbackExit, PostponeOrderProcessing,
                AddPendingOrder, DecrementEventsInFlight
  <1>4. CASE Tick \/ Cancel
    BY <1>4 DEF Tick, Cancel
  <1> QED  BY <1>1, <1>2, <1>3, <1>4 DEF ProcessorStep

\* A thread that has returned stays so while the process runs.
LEMMA AppNextTypeOK == AppInv /\ AppNext => AppTypeOK' /\ Drained'
  <1> SUFFICES ASSUME AppInv, AppNext PROVE AppTypeOK' /\ Drained'
    OBVIOUS
  <1> USE DEF AppInv, AppTypeOK, Drained
  <1>0. uploadPc \in [Orders -> {"idle", "trigger", "notify"}] /\ ctxDone \in BOOLEAN
    BY DEF IInv, Typed, TypeOK, FlagsOK
  <1>1. ASSUME NEW o \in Orders, Accept(o) \/ Finish(o)
        PROVE  AppTypeOK' /\ Drained'
    BY <1>1 DEF Accept, Finish, vars
  <1>2. ASSUME NEW o \in Orders, Handle(o)
        PROVE  AppTypeOK' /\ Drained'
    <2>1. \A p \in Orders : p # o => uploadPc'[p] = uploadPc[p]
      BY <1>0, <1>2 DEF Handle, Upload, NotifyStep, UploadTrigger, UploadNotify
    <2>2. ctxDone' = ctxDone /\ UNCHANGED appVars /\ o \in accepted
      BY <1>2 DEF Handle, Upload, NotifyStep, UploadTrigger, UploadNotify
    <2> QED  BY <2>1, <2>2 DEF appVars
  <1>3. CASE ProcessorStep /\ UNCHANGED appVars
    BY <1>3, ProcessorStepLeaves DEF appVars
  <1>4. CASE ListenFails
    BY <1>4 DEF ListenFails, vars
  <1>5. CASE ServerDone
    BY <1>5 DEF ServerDone, vars
  <1>6. CASE ServerError
    BY <1>0, <1>6 DEF ServerError, ThreadReturns
  <1>7. CASE ShutdownDone \/ ShutdownTimeout
    BY <1>0, <1>7 DEF ShutdownDone, ShutdownTimeout, ThreadReturns
  <1>8. CASE Exit
    BY <1>8 DEF Exit, vars
  <1> QED  BY <1>1, <1>2, <1>3, <1>4, <1>5, <1>6, <1>7, <1>8 DEF AppNext, ServerStep

LEMMA AppNextEnded == AppInv /\ AppNext => Ended'
  <1> SUFFICES ASSUME AppInv, AppNext PROVE Ended'
    OBVIOUS
  <1>1. CASE Exit
    BY <1>1 DEF Exit, Ended, vars, runVars
  <1>2. CASE ~Exit
    <2>1. exit = "running" /\ exit' = exit
      BY <1>2 DEF AppNext, Accept, Handle, Finish, ListenFails, ServerStep, ServerError,
                  ServerDone, ShutdownDone, ShutdownTimeout, appVars
    <2> QED  BY <2>1 DEF Ended
  <1> QED  BY <1>1, <1>2

LEMMA InitAppInv == AppInit => AppInv
  <1> SUFFICES ASSUME AppInit PROVE AppInv
    OBVIOUS
  <1>1. IInv
    BY InitIInv DEF AppInit
  <1>2. \A o \in Orders : uploadPc[o] = "idle"
    BY DEF AppInit, Init, FreshProcess
  <1> QED  BY <1>1, <1>2 DEF AppInv, AppInit, AppTypeOK, Drained, Ended

LEMMA NextAppInv == AppInv /\ [AppNext]_appAllVars => AppInv'
  <1> SUFFICES ASSUME AppInv, [AppNext]_appAllVars PROVE AppInv'
    OBVIOUS
  <1>1. IInv'
    BY AppNextIInv DEF AppInv
  <1>2. CASE AppNext
    BY <1>1, <1>2, AppNextTypeOK, AppNextEnded DEF AppInv
  <1>3. CASE UNCHANGED appAllVars
    BY <1>1, <1>3 DEF appAllVars, appVars, vars, runVars, AppInv, AppTypeOK, Drained, Ended
  <1> QED  BY <1>2, <1>3

\* The invariant holds in every state of the process.
THEOREM AppInvariant == AppSpec => []AppInv
  BY InitAppInv, NextAppInv, PTL DEF AppSpec

\* A handler at work belongs to an open request, and only the shutdown of the
\* server closes the listener (HTTPServer.Run).
THEOREM AppTypeCorrect == AppSpec => []AppTypeOK
  <1>1. AppInv => AppTypeOK
    BY DEF AppInv
  <1> QED  BY <1>1, AppInvariant, PTL

\* The process reports success only after every request it accepted was served
\* down to its notification, and with nothing left in the order processor
\* (HTTPServer.shutdown, waitForShutdown).
THEOREM ExitsClean == AppSpec => []CleanExit
  <1>1. ASSUME AppInv PROVE CleanExit
    <2> SUFFICES ASSUME exit = "ok"
                 PROVE  /\ accepted = {} /\ \A o \in Orders : uploadPc[o] = "idle"
                        /\ HasFinished /\ workCh = <<>> /\ callbackCh = NoResult
      BY DEF CleanExit
    <2>1. serverPc = "returned" /\ serverErr = "nil" /\ runPc = "returned"
      BY <1>1 DEF AppInv, Ended
    <2>2. accepted = {} /\ \A o \in Orders : uploadPc[o] = "idle"
      BY <1>1, <2>1 DEF AppInv, Drained, AppTypeOK
    <2>3. HasFinished /\ workCh = <<>> /\ callbackCh = NoResult
      BY <1>1, <2>1, IdleAtReturn DEF AppInv, IdleWhenReturned
    <2> QED  BY <2>2, <2>3
  <1> QED  BY <1>1, AppInvariant, PTL

\* The guarantees of the order processor hold in the process: whatever the
\* server does, an accrual is credited once and the queue is complete.
THEOREM ProcessKeepsOrders ==
  AppSpec => [](CreditedOnce /\ QueueMatchesStatus /\ NoSendOnClosedChannel)
  <1>1. AppInv => CreditedOnce /\ QueueMatchesStatus /\ Typed
    BY DEF AppInv, IInv, Recorded
  <1>2. Typed => NoSendOnClosedChannel
    BY DEF Typed, EventsHeld, ShutdownOrder, Stopped, NoSendOnClosedChannel
  <1> QED  BY <1>1, <1>2, AppInvariant, PTL
=============================================================================
