---------------------------- MODULE DevSupervisor ----------------------------
(***************************************************************************)
(* The development supervisor (packages/engine, dev.ts): the restart loop, *)
(* the runtime process and the engine cycle of each generation, the chain  *)
(* of stops, the descriptor file, and close().                             *)
(*                                                                         *)
(* Each await is a step; events (changes, messages, exits) arrive between  *)
(* any two.  A generation is the number of its cycle.  What the loop does  *)
(* not catch (options.env(), looking for inputs, replacing the watches)    *)
(* ends it.  Abstracted: what is watched, and the contents of reports; the *)
(* supervisor can remove a temporary directory that it has just made.      *)
(*                                                                         *)
(* Definitions introduced by `Slip:' are not part of the model: each is a  *)
(* plausible mistake in the definition that follows it, and the mutation   *)
(* runs check that some property notices it.                               *)
(***************************************************************************)
EXTENDS Integers, Sequences, FiniteSets

CONSTANT MaxChanges    \* bound: changes of the sources

ASSUME DevAssumption == MaxChanges \in Nat

VARIABLES loop,        \* restart(): the await it stands at, idle if there is none
          queued, debounce, devClosed,
          active,      \* the generation that is active, 0: none
          children,    \* children[g]: the process: none, running or exited
          hooks,       \* hooks[g]: engine.ready(): none, running or done
          engines,     \* engines[g]: none, open or closed
          stopping,    \* generations whose stop is chained
          descriptor,  \* the generation that the connection file names, 0: no file
          closing,     \* close(): no, waits, stops or done
          starting,    \* the first restart(), which createDevSupervisor() awaits, is under way
          cycle,       \* cycles begun
          dirty,       \* the sources have changed since the last cycle began
          edits,       \* changes so far
          missed       \* history: a restart was rejected after the last change, and none is due

devVars == <<loop, queued, debounce, devClosed, active, children, hooks, engines, stopping, descriptor, closing,
             starting, cycle, dirty, edits, missed>>
rest == <<starting, missed>>

Generations == 1..(MaxChanges + 1)

DevInit == /\ loop = "head" /\ queued = TRUE /\ debounce = FALSE /\ devClosed = FALSE
           /\ active = 0 /\ descriptor = 0 /\ stopping = << >> /\ closing = "no"
           /\ children = [g \in Generations |-> "none"] /\ hooks = children /\ engines = children
           /\ starting = TRUE /\ cycle = 0 /\ dirty = TRUE /\ edits = 0 /\ missed = FALSE

(* stopActive(): the descriptor goes at once, the process and the engine   *)
(* in turn.                                                                *)
StopActive == /\ active' = 0
              /\ descriptor' = IF descriptor = active THEN 0 ELSE descriptor
              /\ stopping' = IF active = 0 THEN stopping ELSE Append(stopping, active)

(* changed(): after the debounce, restart().                               *)
Changed == /\ edits < MaxChanges /\ edits' = edits + 1 /\ dirty' = TRUE
           /\ debounce' = ~devClosed /\ missed' = FALSE
           /\ UNCHANGED <<loop, queued, devClosed, active, children, hooks, engines, stopping,
                          descriptor, closing, starting, cycle>>

(* Slip: a change during a restart is part of that restart.                *)
RestartsOnce == queued' = (loop = "idle" \/ queued)

(* restart(): joins the loop that runs, or begins one.                     *)
Restarts == queued' = TRUE

Restart == /\ debounce /\ debounce' = FALSE
           /\ Restarts
           /\ loop' = IF loop = "idle" /\ ~devClosed THEN "head" ELSE loop
           /\ UNCHANGED <<devClosed, active, children, hooks, engines, stopping, descriptor,
                          closing, cycle, dirty, edits, rest>>

-----------------------------------------------------------------------------
(***************************************************************************)
(* The restart loop                                                        *)
(***************************************************************************)
LoopHead ==
  /\ loop = "head"
  /\ IF queued /\ ~devClosed
     THEN loop' = "stop" /\ queued' = FALSE /\ StopActive /\ UNCHANGED starting
     ELSE loop' = "idle" /\ starting' = FALSE /\ UNCHANGED <<queued, active, stopping, descriptor>>
  /\ UNCHANGED <<debounce, devClosed, children, hooks, engines, closing, cycle, dirty, edits,
                 missed>>

LoopStopped ==
  /\ loop = "stop" /\ stopping = << >>
  /\ IF devClosed THEN loop' = "idle" /\ starting' = FALSE ELSE loop' = "configure" /\ UNCHANGED starting
  /\ UNCHANGED <<queued, debounce, devClosed, active, children, hooks, engines, stopping, descriptor, closing, cycle, dirty,
                 edits, missed>>

(* The loop throws.  A close() that awaits it is rejected with it and does *)
(* no more; the first restart() takes the supervisor down with it.         *)
LoopRejects ==
  /\ loop' = "idle" /\ starting' = FALSE
  /\ missed' = (missed \/ ~debounce)
  /\ closing' = CASE closing = "waits" -> "done" [] closing = "no" /\ starting -> "waits" [] OTHER -> closing
  /\ devClosed' = (devClosed \/ starting) /\ debounce' = (debounce /\ ~starting)
  /\ UNCHANGED <<queued, active, children, hooks, engines, stopping, descriptor, cycle, dirty,
                 edits>>

(* options.env() and the first watches; then the cycle begins, which reads *)
(* the sources, without another look at `closed'.                          *)
Configure ==
  /\ loop = "configure"
  /\ \/ /\ loop' = "start" /\ cycle' = cycle + 1 /\ dirty' = FALSE
        /\ UNCHANGED <<queued, debounce, devClosed, active, children, hooks, engines, stopping,
                       descriptor, closing, edits, rest>>
     \/ LoopRejects

(* The engine cycle starts, or fails and has cleaned up after itself.      *)
EngineStart ==
  /\ loop = "start"
  /\ \/ engines' = [engines EXCEPT ![cycle] = "open"] /\ loop' = IF devClosed THEN "abandon" ELSE "entry"
     \/ loop' = "recover" /\ UNCHANGED engines
  /\ UNCHANGED <<queued, debounce, devClosed, active, children, hooks, stopping, descriptor,
                 closing, cycle, dirty, edits, rest>>

(* recoveryWatches()                                                       *)
Recover ==
  /\ loop = "recover"
  /\ \/ /\ loop' = "head"
        /\ UNCHANGED <<queued, debounce, devClosed, active, children, hooks, engines, stopping,
                       descriptor, closing, cycle, dirty, edits, rest>>
     \/ LoopRejects

(* checkedEntry, then the process is spawned without another look at       *)
(* `closed'; or something throws, as when the descriptor is in use.        *)
Spawn ==
  /\ loop = "entry"
  /\ \/ /\ descriptor = 0
        /\ children' = [children EXCEPT ![cycle] = "running"] /\ active' = cycle /\ loop' = "head"
     \/ loop' = "abandon" /\ UNCHANGED <<children, active>>
  /\ UNCHANGED <<queued, debounce, devClosed, hooks, engines, stopping, descriptor, closing, cycle,
                 dirty, edits, rest>>

(* engine.close() of a cycle that has no process.                          *)
Abandon ==
  /\ loop = "abandon"
  /\ engines' = [engines EXCEPT ![cycle] = "closed"] /\ loop' = "head"
  /\ UNCHANGED <<queued, debounce, devClosed, active, children, hooks, stopping, descriptor,
                 closing, cycle, dirty, edits, rest>>

-----------------------------------------------------------------------------
(***************************************************************************)
(* The process                                                             *)
(***************************************************************************)
(* The process says that it is ready, and the ready hooks run.             *)
ReadyMessage(g) ==
  /\ children[g] = "running" /\ active = g /\ hooks[g] = "none" /\ ~devClosed
  /\ hooks' = [hooks EXCEPT ![g] = "running"]
  /\ UNCHANGED <<loop, queued, debounce, devClosed, active, children, engines, stopping, descriptor,
                 closing, cycle, dirty, edits, rest>>

(* Slip: the hooks' end is taken to be still about the active generation.  *)
MayAdmitLate(g) == ~devClosed

MayAdmit(g) == ~devClosed /\ active = g /\ children[g] = "running"

(* The hooks are done and the descriptor is written; or they, or writing   *)
(* it, fail.                                                               *)
Admit(g) ==
  /\ hooks[g] = "running" /\ hooks' = [hooks EXCEPT ![g] = "done"]
  /\ \/ MayAdmit(g) /\ descriptor = 0 /\ descriptor' = g /\ UNCHANGED <<active, stopping>>
     \/ ~MayAdmit(g) /\ UNCHANGED <<descriptor, active, stopping>>
     \/ IF ~devClosed /\ active = g THEN StopActive ELSE UNCHANGED <<descriptor, active, stopping>>
  /\ UNCHANGED <<loop, queued, debounce, devClosed, children, engines, closing, cycle, dirty, edits,
                 rest>>

(* The process exits by itself; the supervisor learns of it later.         *)
ChildExits(g) ==
  /\ children[g] = "running" /\ children' = [children EXCEPT ![g] = "exited"]
  /\ UNCHANGED <<loop, queued, debounce, devClosed, active, hooks, engines, stopping, descriptor,
                 closing, cycle, dirty, edits, rest>>

ExitNoticed(g) ==
  /\ children[g] = "exited" /\ active = g /\ ~devClosed
  /\ StopActive
  /\ UNCHANGED <<loop, queued, debounce, devClosed, children, hooks, engines, closing, cycle, dirty,
                 edits, rest>>

(* The chain of stops: SIGTERM, after a while SIGKILL, then engine.close().*)
StopProcess ==
  /\ stopping # << >> /\ children[Head(stopping)] = "running"
  /\ children' = [children EXCEPT ![Head(stopping)] = "exited"]
  /\ UNCHANGED <<loop, queued, debounce, devClosed, active, hooks, engines, stopping, descriptor,
                 closing, cycle, dirty, edits, rest>>

StopEngine ==
  /\ stopping # << >> /\ children[Head(stopping)] = "exited"
  /\ engines' = [engines EXCEPT ![Head(stopping)] = "closed"] /\ stopping' = Tail(stopping)
  /\ UNCHANGED <<loop, queued, debounce, devClosed, active, children, hooks, descriptor, closing,
                 cycle, dirty, edits, rest>>

-----------------------------------------------------------------------------
CloseDev == /\ closing = "no" /\ closing' = "waits" /\ devClosed' = TRUE /\ debounce' = FALSE
            /\ UNCHANGED <<loop, queued, active, children, hooks, engines, stopping, descriptor,
                           cycle, dirty, edits, rest>>

CloseStops == /\ closing = "waits" /\ loop = "idle" /\ closing' = "stops" /\ StopActive
              /\ UNCHANGED <<loop, queued, debounce, devClosed, children, hooks, engines, cycle,
                             dirty, edits, rest>>

CloseDone == /\ closing = "stops" /\ stopping = << >> /\ closing' = "done"
             /\ UNCHANGED <<loop, queued, debounce, devClosed, active, children, hooks, engines,
                            stopping, descriptor, cycle, dirty, edits, rest>>

-----------------------------------------------------------------------------
LoopStep == LoopHead \/ LoopStopped \/ Configure \/ EngineStart \/ Recover \/ Spawn \/ Abandon
StopStep == StopProcess \/ StopEngine
CloseStep == CloseStops \/ CloseDone

DevNext == \/ Changed \/ Restart \/ LoopStep \/ StopStep \/ CloseDev \/ CloseStep
           \/ \E g \in Generations : ReadyMessage(g) \/ Admit(g) \/ ChildExits(g) \/ ExitNoticed(g)

DevSpec == DevInit /\ [][DevNext]_devVars

-----------------------------------------------------------------------------
(* There is one runtime at a time: no process is spawned, and no engine    *)
(* cycle opened, while another is; the connection file names the active    *)
(* generation or is gone, although hooks end after their process was       *)
(* replaced; and when close() resolves nothing is left, also of a cycle    *)
(* that was being started (stopActive, restart, close).                    *)
OneRuntime ==
  /\ Cardinality({g \in Generations : children[g] = "running"}) <= 1
  /\ Cardinality({g \in Generations : engines[g] = "open"}) <= 1
  /\ descriptor # 0 => descriptor = active
  /\ closing = "done" => /\ active = 0 /\ descriptor = 0
                         /\ \A g \in Generations : children[g] # "running" /\ engines[g] # "open"

(* Every change of the sources is taken up by a cycle that begins after    *)
(* it, also when it comes during a restart, unless the supervisor is       *)
(* closed or a restart is rejected, which is reported, while no other is   *)
(* due: then it waits for the next change (restart).  And close() ends.    *)
ChangesAreTaken == /\ dirty ~> (~dirty \/ devClosed \/ missed)
                   /\ devClosed ~> (closing = "done")
=============================================================================
