----------------------------- MODULE MCProgress -----------------------------
(***************************************************************************)
(* Small instances of the components that promise progress, checked in one *)
(* run.  They share no state: each behavior is one of one component,       *)
(* chosen at the start.                                                    *)
(***************************************************************************)
EXTENDS AppLifecycle, DevSupervisor, Notifications, Events, TLC

CONSTANTS d1, d2, p1, p2

VARIABLE part    \* the component that this behavior is of

MCDispatchers == p1 :> {d1} @@ p2 :> {d2}

ProgressInit == /\ part \in {"app", "dev", "notifications", "events"}
                /\ AppInit /\ DevInit /\ NoteInit /\ EventInit

progressVars == <<part, appVars, devVars, noteVars, eventVars>>

Only(name, next, others) == part = name /\ next /\ UNCHANGED <<part, others>>

ProgressNext == \/ Only("app", AppNext, <<devVars, noteVars, eventVars>>)
                \/ Only("dev", DevNext, <<appVars, noteVars, eventVars>>)
                \/ Only("notifications", NoteNext, <<appVars, devVars, eventVars>>)
                \/ Only("events", EventNext, <<appVars, devVars, noteVars>>)

-----------------------------------------------------------------------------
(* Setups, cleanups and the work end; what they make possible happens.     *)
AppFairness ==
  /\ WF_appVars(part = "app" /\ \E ok \in BOOLEAN : Preflight(ok))
  /\ WF_appVars(part = "app" /\ \E p \in Plugins : SetupReturns(p) \/ SetupFails(p))
  /\ WF_appVars(part = "app" /\ \E f \in Registered, ok \in BOOLEAN : CleanupEnds(f, ok))
  /\ WF_appVars(part = "app" /\ (StopPops \/ StopAwaited \/ StopEnds))
  /\ WF_appVars(part = "app" /\ WorkEnds) /\ WF_appVars(part = "app" /\ (RollbackEnds \/ WithAppEnds))

(* Timers fire, awaited calls return, and processes die of SIGKILL.        *)
DevFairness == /\ WF_devVars(part = "dev" /\ Restart) /\ WF_devVars(part = "dev" /\ LoopStep)
               /\ WF_devVars(part = "dev" /\ StopStep) /\ WF_devVars(part = "dev" /\ CloseStep)

(* Time passes; the queue's workers and the producer's reconcile() run.    *)
NoteFairness == /\ WF_noteVars(part = "notifications" /\ NoteTick) /\ WF_noteVars(part = "notifications" /\ NoteWork)
                /\ WF_noteVars(part = "notifications" /\ \E n \in Notes : Reconcile(n))
                /\ WF_noteVars(part = "notifications" /\ \E c \in dispatch : DispatchNote(c))
                /\ \A s \in Senders : WF_noteVars(part = "notifications" /\ SenderStep(s))

(* Hosts keep calling dispatch(); store calls and handlers return.         *)
EventFairness ==
  /\ WF_eventVars(part = "events" /\ EventTick)
  /\ \A d \in Dispatchers : WF_eventVars(part = "events" /\ DispatchStep(d))
  /\ \A p \in EventProcs : /\ WF_eventVars(part = "events" /\ Closed(p))
                           /\ \A s \in Subs : WF_eventVars(part = "events" /\ (ChangeStored(p, s) \/ ChangeDone(p, s)))

ProgressSpec == /\ ProgressInit /\ [][ProgressNext]_progressVars
                /\ AppFairness /\ DevFairness /\ NoteFairness /\ EventFairness

(* What the processes owe: an application's lifetime ends (AppLifecycle's  *)
(* LifetimeEnds), and the development supervisor takes up every change,    *)
(* unless a restart is rejected, and closes (DevSupervisor's               *)
(* ChangesAreTaken).                                                       *)
ProcessesMoveOn == /\ part = "app" => LifetimeEnds
                   /\ part = "dev" => ChangesAreTaken

(* What was accepted is delivered: every notification settles and every    *)
(* event's delivery ends, although senders and dispatchers die             *)
(* (Notifications' NotesSettle and Events' DeliveriesEnd).                 *)
MessagesSettle == NotesSettle /\ DeliveriesEnd
=============================================================================
