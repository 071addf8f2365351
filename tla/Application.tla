---------------------------- MODULE Application ----------------------------
(***************************************************************************)
(* The life of the process (internal/gophermart/app): its two threads, the *)
(* HTTP server and the order processor, run in one errgroup. A signal ends *)
(* both, and so does the first of them to return an error. The server then *)
(* waits for the requests that are open, for no longer than its shutdown   *)
(* timeout; the requests that matter here are uploads, whose handlers      *)
(* notify the order processor before they end. The process is gone when    *)
(* both threads have returned, whatever is still running.                  *)
(***************************************************************************)
EXTENDS OrderProcessor

CONSTANT ListenerMayFail   \* ListenAndServe may return an error

ASSUME ApplicationAssumption == ListenerMayFail \in BOOLEAN

VARIABLES
  listener,    \* "open", "closed" by Shutdown, or "failed": the error is in errCh
  accepted,    \* orders with an open upload request
  serverPc,    \* the server's thread: "select", "shutdown" or "returned"
  serverErr,   \* the error it returned, if any
  exit         \* how the process ended: "running", "ok" or "failed"

appVars == <<listener, accepted, serverPc, serverErr, exit>>

\* ctxDone is the context of the errgroup, which both threads are given.
AppInit ==
  /\ Init
  /\ listener = "open" /\ accepted = {}
  /\ serverPc = "select" /\ serverErr = "nil"
  /\ exit = "running"

-----------------------------------------------------------------------------
(* Upload requests *)

\* A request for an order that exists already changes nothing and is left out.
Accept(o) ==
  /\ listener = "open" /\ o \notin accepted /\ status[o] = "ABSENT"
  /\ accepted' = accepted \cup {o}
  /\ UNCHANGED <<vars, listener, serverPc, serverErr, exit>>

\* The handler stores the order and notifies the processor.
Handle(o) ==
  /\ o \in accepted
  /\ Upload(o) \/ NotifyStep(o)
  /\ UNCHANGED appVars

\* Mutant of Finish: NewOrderArrived is left to a goroutine of its own.
FinishEarly(o) ==
  /\ o \in accepted
  /\ accepted' = accepted \ {o}
  /\ UNCHANGED <<vars, listener, serverPc, serverErr, exit>>

\* The response is sent: of an upload that is through, or one that was refused
\* or failed.
Finish(o) ==
  /\ o \in accepted /\ uploadPc[o] = "idle"
  /\ accepted' = accepted \ {o}
  /\ UNCHANGED <<vars, listener, serverPc, serverErr, exit>>

-----------------------------------------------------------------------------
(* HTTPServer.Run *)

\* Mutant of ThreadReturns: a WaitGroup in place of the errgroup.
ThreadReturnsAlone(err) ==
  /\ serverPc' = "returned" /\ serverErr' = err
  /\ UNCHANGED vars

\* The first error of a thread cancels the context of the errgroup.
ThreadReturns(err) ==
  /\ serverPc' = "returned" /\ serverErr' = err
  /\ ctxDone' = (ctxDone \/ err # "nil")
  /\ UNCHANGED <<dbVars, stateVars, notifyCh, runVars, chanVars, workerVars,
                 pausedUntil, callbackVars, uploadPc>>

ListenFails ==
  /\ ListenerMayFail /\ listener = "open"
  /\ listener' = "failed"
  /\ UNCHANGED <<vars, accepted, serverPc, serverErr, exit>>

\* The two cases of the select statement; either may be taken when both are
\* ready.
ServerError ==
  /\ serverPc = "select" /\ listener = "failed"
  /\ ThreadReturns("error")
  /\ UNCHANGED <<listener, accepted, exit>>

ServerDone ==
  /\ serverPc = "select" /\ ctxDone
  /\ serverPc' = "shutdown"
  /\ listener' = IF listener = "open" THEN "closed" ELSE listener
  /\ UNCHANGED <<vars, accepted, serverErr, exit>>

\* Mutant of ShutdownDone: http.Server.Close, which waits for no request.
CloseDone ==
  /\ serverPc = "shutdown"
  /\ ThreadReturns("nil")
  /\ UNCHANGED <<listener, accepted, exit>>

ShutdownDone ==
  /\ serverPc = "shutdown" /\ accepted = {}
  /\ ThreadReturns("nil")
  /\ UNCHANGED <<listener, accepted, exit>>

ShutdownTimeout ==
  /\ serverPc = "shutdown" /\ accepted # {}
  /\ ThreadReturns("error")
  /\ UNCHANGED <<listener, accepted, exit>>

-----------------------------------------------------------------------------
(* App.Run *)

\* waitForShutdown, and the end of the process.
Exit ==
  /\ serverPc = "returned" /\ runPc = "returned"
  /\ exit' = IF serverErr = "nil" THEN "ok" ELSE "failed"
  /\ UNCHANGED <<vars, listener, accepted, serverPc, serverErr>>

ServerStep == ServerError \/ ServerDone \/ ShutdownDone \/ ShutdownTimeout

ProcessorStep ==
  \/ RunStep \/ CallbackStep \/ Tick \/ Cancel
  \/ \E w \in Workers : WorkerStep(w)

AppNext ==
  /\ exit = "running"
  /\ \/ \E o \in Orders : Accept(o) \/ Handle(o) \/ Finish(o)
     \/ ProcessorStep /\ UNCHANGED appVars
     \/ ListenFails \/ ServerStep \/ Exit

appAllVars == <<vars, appVars>>

AppSpec == AppInit /\ [][AppNext]_appAllVars

\* The scheduler runs every goroutine that can run, and a shutdown timeout
\* passes. Signals, requests and failures of the listener may come or not, and a
\* client may keep its request open.
Alive == exit = "running" /\ UNCHANGED appVars

FairAppSpec ==
  /\ AppSpec
  /\ WF_appAllVars(Alive /\ RunStep)
  /\ \A w \in Workers : WF_appAllVars(Alive /\ WorkerStep(w))
  /\ WF_appAllVars(Alive /\ CallbackStep)
  /\ \A o \in Orders : WF_appAllVars(Alive /\ o \in accepted /\ NotifyStep(o))
  /\ WF_appAllVars(Alive /\ Tick)
  /\ WF_appAllVars(exit = "running" /\ (ServerStep \/ Exit))

-----------------------------------------------------------------------------
(* Properties *)

\* The type of every variable the application adds; a handler that is at work
\* belongs to an open request, and only Shutdown closes the listener.
AppTypeOK ==
  /\ listener \in {"open", "closed", "failed"}
  /\ accepted \subseteq Orders
  /\ serverPc \in {"select", "shutdown", "returned"}
  /\ serverErr \in {"nil", "error"}
  /\ exit \in {"running", "ok", "failed"}
  /\ \A o \in Orders : uploadPc[o] # "idle" => o \in accepted
  /\ listener = "closed" => ctxDone /\ serverPc # "select"

\* A process that reports success has served every request it accepted, down to
\* the notification of the order processor, and that had put down all its work
\* (HTTPServer.shutdown, waitForShutdown).
CleanExit ==
  exit = "ok" =>
    /\ accepted = {} /\ \A o \in Orders : uploadPc[o] = "idle"
    /\ HasFinished /\ workCh = <<>> /\ callbackCh = NoResult

\* The end of either thread ends the process: after a signal, or when the server
\* cannot listen, it exits, unless Run is still to send the notification of its
\* start-up, a send that may block. A handler blocked on its own notification
\* costs the shutdown timeout and no more.
ApplicationStops ==
  (ctxDone \/ listener = "failed") /\ runPc \notin {"trigger", "notify"}
    ~> exit # "running"
=============================================================================
