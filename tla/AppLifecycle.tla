---------------------------- MODULE AppLifecycle ----------------------------
(***************************************************************************)
(* The lifetime of an application (packages/lenso/src/lifecycle.ts):       *)
(* startApp sets the plugins up one after the other, plugins register      *)
(* cleanups while their setup is active, a failed setup rolls back, stop() *)
(* runs the cleanups last in, first out, and withApp bounds it all by one  *)
(* piece of work.  A disposer that onCleanup returned may be called by     *)
(* anyone at any time, before, during and after stop().                    *)
(*                                                                         *)
(* Finalizers are numbered in the order of their registration.  Plugins    *)
(* are numbered in the order of their setup (a topological order of        *)
(* `requires', which validatePlugins establishes).  Abstracted: logging,   *)
(* spans, metrics, configuration values and the failure records.           *)
(*                                                                         *)
(* Definitions introduced by `Slip:' are not part of the model: each is a  *)
(* plausible mistake in the definition that follows it, and the mutation   *)
(* runs check that some property notices it.                               *)
(***************************************************************************)
EXTENDS Naturals, Sequences, FiniteSets

CONSTANTS PluginCount,     \* how many plugins the application has
          MaxCleanups      \* bound: cleanups one setup registers

ASSUME PluginAssumption == PluginCount \in Nat \ {0} /\ MaxCleanups \in Nat

VARIABLES ready,       \* initialization.assertReady() and configuration passed
          setup,       \* the plugin in setup; PluginCount + 1 when all are
          services,    \* plugins whose setup returned a service
          running,     \* the flag that context.get and app.get consult
          owner,       \* owner[f]: the plugin that registered finalizer f
          finalizers,  \* the stack that stop() pops
          cleanup,     \* cleanup[f]: "idle", "running", "done" or "failed"
          stop,        \* stopPromise: "none", "pending", "resolved", "rejected"
          awaiting,    \* the finalizer whose cleanup the stop loop awaits, or 0
          app,         \* startApp and withApp, seen by their caller
          runs         \* history: how often the cleanup of f was started

appVars == <<ready, setup, services, running, owner, finalizers, cleanup, stop, awaiting, app, runs>>

Plugins == 1..PluginCount
Registered == 1..Len(owner)
Ended(f) == cleanup[f] \in {"done", "failed"}
Settled == stop \in {"resolved", "rejected"}

AppInit == /\ ready = FALSE
           /\ setup = 1
           /\ services = {}
           /\ running = TRUE
           /\ owner = <<>> /\ finalizers = <<>> /\ cleanup = <<>> /\ runs = <<>>
           /\ stop = "none" /\ awaiting = 0
           /\ app = "starting"

(***************************************************************************)
(* startApp                                                                *)
(***************************************************************************)

(* The application is initialized and its configuration is valid, or       *)
(* startApp rejects before any plugin was touched.                         *)
Preflight(ok) ==
  /\ app = "starting" /\ ~ready
  /\ ready' = ok
  /\ app' = IF ok THEN app ELSE "rejected"
  /\ UNCHANGED <<setup, services, running, owner, finalizers, cleanup, stop, awaiting, runs>>

InSetup(p) == app = "starting" /\ ready /\ setup = p /\ stop = "none"

(* context.onCleanup, accepted only while the plugin's setup is active.    *)
OnCleanup(p) ==
  /\ InSetup(p)
  /\ Cardinality({f \in Registered : owner[f] = p}) < MaxCleanups
  /\ owner' = Append(owner, p)
  /\ finalizers' = Append(finalizers, Len(owner) + 1)
  /\ cleanup' = Append(cleanup, "idle")
  /\ runs' = Append(runs, 0)
  /\ UNCHANGED <<ready, setup, services, running, stop, awaiting, app>>

(* The setup returns its service; the last one makes the application run.  *)
SetupReturns(p) ==
  /\ InSetup(p)
  /\ services' = services \cup {p}
  /\ setup' = p + 1
  /\ app' = IF p = PluginCount THEN "working" ELSE app
  /\ UNCHANGED <<ready, running, owner, finalizers, cleanup, stop, awaiting, runs>>

(* stop(): cached before anything runs.                                    *)
BeginStop == /\ stop' = IF stop = "none" THEN "pending" ELSE stop
             /\ running' = FALSE

(* The setup throws: roll back, then reject.                               *)
SetupFails(p) ==
  /\ InSetup(p)
  /\ BeginStop
  /\ app' = "rolling back"
  /\ UNCHANGED <<ready, setup, services, owner, finalizers, cleanup, awaiting, runs>>

RollbackEnds ==
  /\ app = "rolling back" /\ Settled
  /\ app' = "rejected"
  /\ UNCHANGED <<ready, setup, services, running, owner, finalizers, cleanup, stop, awaiting, runs>>

(* Slip: every call runs the cleanup.                                      *)
DisposeAgain(f) == /\ cleanup' = [cleanup EXCEPT ![f] = "running"]
                   /\ runs' = [runs EXCEPT ![f] = @ + 1]

(***************************************************************************)
(* Disposers: the first call starts the cleanup, every call shares its     *)
(* completion.                                                             *)
(***************************************************************************)
Dispose(f) ==
  /\ cleanup' = IF cleanup[f] = "idle" THEN [cleanup EXCEPT ![f] = "running"] ELSE cleanup
  /\ runs' = IF cleanup[f] = "idle" THEN [runs EXCEPT ![f] = @ + 1] ELSE runs

(* A plugin, or the holder of its service, disposes by hand.               *)
DisposeByHand(f) ==
  /\ cleanup[f] = "idle"
  /\ Dispose(f)
  /\ UNCHANGED <<ready, setup, services, running, owner, finalizers, stop, awaiting, app>>

(* A cleanup resolves or rejects.                                          *)
CleanupEnds(f, ok) ==
  /\ cleanup[f] = "running"
  /\ cleanup' = [cleanup EXCEPT ![f] = IF ok THEN "done" ELSE "failed"]
  /\ UNCHANGED <<ready, setup, services, running, owner, finalizers, stop, awaiting, app, runs>>

(***************************************************************************)
(* stop()                                                                  *)
(***************************************************************************)

(* Anyone may stop a started application: its host, a signal handler, a    *)
(* cleanup that calls stop() without awaiting it.                          *)
Stop ==
  /\ app = "working"
  /\ stop = "none"
  /\ BeginStop
  /\ UNCHANGED <<ready, setup, services, owner, finalizers, cleanup, awaiting, app, runs>>

StopPops ==
  /\ stop = "pending" /\ awaiting = 0 /\ finalizers # <<>>
  /\ LET f == finalizers[Len(finalizers)]
     IN /\ awaiting' = f
        /\ finalizers' = SubSeq(finalizers, 1, Len(finalizers) - 1)
        /\ Dispose(f)
  /\ UNCHANGED <<ready, setup, services, running, owner, stop, app>>

StopAwaited ==
  /\ awaiting # 0 /\ Ended(awaiting)
  /\ awaiting' = 0
  /\ UNCHANGED <<ready, setup, services, running, owner, finalizers, cleanup, stop, app, runs>>

(* All finalizers were attempted; the failures are reported together.      *)
StopEnds ==
  /\ stop = "pending" /\ awaiting = 0 /\ finalizers = <<>>
  /\ services' = {}
  /\ stop' = IF \E f \in Registered : cleanup[f] = "failed" THEN "rejected" ELSE "resolved"
  /\ UNCHANGED <<ready, setup, running, owner, finalizers, cleanup, awaiting, app, runs>>

(***************************************************************************)
(* withApp: the work ends, and withApp with it once stop() has settled.    *)
(***************************************************************************)
WorkEnds ==
  /\ app = "working"
  /\ app' = "stopping"
  /\ BeginStop
  /\ UNCHANGED <<ready, setup, services, owner, finalizers, cleanup, awaiting, runs>>

WithAppEnds ==
  /\ app = "stopping" /\ Settled
  /\ app' = "over"
  /\ UNCHANGED <<ready, setup, services, running, owner, finalizers, cleanup, stop, awaiting, runs>>

AppNext == \/ \E ok \in BOOLEAN : Preflight(ok)
           \/ \E p \in Plugins : OnCleanup(p) \/ SetupReturns(p) \/ SetupFails(p)
           \/ RollbackEnds
           \/ \E f \in Registered : DisposeByHand(f)
           \/ \E f \in Registered, ok \in BOOLEAN : CleanupEnds(f, ok)
           \/ Stop \/ StopPops \/ StopAwaited \/ StopEnds
           \/ WorkEnds \/ WithAppEnds

AppSpec == AppInit /\ [][AppNext]_appVars

-----------------------------------------------------------------------------

(* Type correctness; the stack holds only finalizers that were registered. *)
TypeOK ==
  /\ ready \in BOOLEAN /\ running \in BOOLEAN
  /\ setup \in 1..(PluginCount + 1)
  /\ services \subseteq Plugins
  /\ owner \in Seq(Plugins)
  /\ finalizers \in Seq(Registered)
  /\ Len(cleanup) = Len(owner) /\ Len(runs) = Len(owner)
  /\ \A f \in Registered : cleanup[f] \in {"idle", "running", "done", "failed"} /\ runs[f] \in Nat
  /\ stop \in {"none", "pending", "resolved", "rejected"}
  /\ awaiting \in {0} \cup Registered
  /\ app \in {"starting", "working", "rolling back", "stopping", "rejected", "over"}

(* A cleanup never runs twice, however its disposer, stop() and rollback   *)
(* race; and when stop() has settled, or startApp or withApp has ended,    *)
(* every cleanup that was registered has run to its end.                   *)
CleanedExactlyOnce ==
  /\ \A f \in Registered : runs[f] <= 1
  /\ Settled \/ app \in {"rejected", "over"} => \A f \in Registered : runs[f] = 1 /\ Ended(f)

(* Last in, first out: while stop() waits for a cleanup, everything that   *)
(* was registered later has ended and nothing that was registered earlier, *)
(* so no dependency's, has been started by stop().                         *)
LastInFirstOut ==
  awaiting # 0 =>
    /\ \A f \in Registered : f > awaiting => Ended(f)
    /\ finalizers = [i \in 1..(awaiting - 1) |-> i]

(* stop() rejects exactly when some cleanup failed, also one that was      *)
(* disposed by hand long before.                                           *)
StopIsHonest ==
  /\ stop = "resolved" => \A f \in Registered : cleanup[f] = "done"
  /\ stop = "rejected" => \E f \in Registered : cleanup[f] = "failed"

(* All of it: stop() cleans up once, in order, and says how it went.       *)
CleanupIsSound == CleanedExactlyOnce /\ LastInFirstOut /\ StopIsHonest

(* Whoever starts, stops or runs an application gets an answer, whichever  *)
(* setups and cleanups fail: stop() settles, and startApp and withApp end. *)
LifetimeEnds == <>(app \in {"rejected", "over"})
=============================================================================
