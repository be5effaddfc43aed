--------------------------- MODULE ProgressProofs ---------------------------
(***************************************************************************)
(* Safety theorems about the components that MCProgress runs: the          *)
(* application lifecycle, the development supervisor, notifications and    *)
(* events, in this order, each for every value of its constants.  What     *)
(* they promise to bring about is liveness, which stays with TLC.          *)
(***************************************************************************)
EXTENDS AppLifecycle, DevSupervisor, Notifications, Events,
        FiniteSetTheorems, SequenceTheorems, TLAPS

-----------------------------------------------------------------------------
(***************************************************************************)
(* The application lifecycle.  The order of stop() is not inductive by     *)
(* itself.  What makes it hold is that the stack is always an initial      *)
(* segment of the registrations, and that whatever left it has ended or is *)
(* awaited (AppInv).                                                       *)
(***************************************************************************)
CleanupState == {"idle", "running", "done", "failed"}

(* Types; `finalizers' is described by StackInv.                           *)
AppTypes ==
  /\ ready \in BOOLEAN /\ running \in BOOLEAN
  /\ setup \in 1..(PluginCount + 1)
  /\ services \subseteq Plugins
  /\ owner \in Seq(Plugins)
  /\ cleanup \in Seq(CleanupState) /\ Len(cleanup) = Len(owner)
  /\ runs \in Seq(Nat) /\ Len(runs) = Len(owner)
  /\ stop \in {"none", "pending", "resolved", "rejected"}
  /\ app \in {"starting", "working", "rolling back", "stopping", "rejected", "over"}

(* The stack is an initial segment of the registrations, and stop() has    *)
(* waited for everything that left it, but what it waits for now.          *)
StackInv(depth) ==
  /\ depth \in 0..Len(owner)
  /\ finalizers = [i \in 1..depth |-> i]
  /\ awaiting \in {0, depth + 1} /\ awaiting \in {0} \cup Registered
  /\ \A f \in Registered : f > depth => f = awaiting \/ Ended(f)
  /\ awaiting # 0 => cleanup[awaiting] # "idle"
  /\ awaiting # 0 => stop = "pending"
  /\ stop = "none" => depth = Len(owner)
  /\ Settled => depth = 0

(* The first call of a disposer started the cleanup, and no other did.     *)
RunsInv == \A f \in Registered : runs[f] = IF cleanup[f] = "idle" THEN 0 ELSE 1

(* How far the callers are, and how far stop() is.                         *)
CallerInv ==
  /\ ~ready => owner = <<>>
  /\ app \in {"starting", "working"} \/ stop # "none" \/ (app = "rejected" /\ owner = <<>>)
  /\ app = "starting" => stop = "none"
  /\ app = "over" => Settled
  /\ app = "rejected" => Settled \/ owner = <<>>

AppInv == /\ AppTypes /\ RunsInv /\ CallerInv /\ StopIsHonest
          /\ \E depth \in Nat : StackInv(depth)

-----------------------------------------------------------------------------

(* The invariant implies what the runs check.                              *)
LEMMA InvImpliesSound == AppInv => CleanupIsSound /\ TypeOK
  <1>. SUFFICES ASSUME AppInv PROVE CleanupIsSound /\ TypeOK
    OBVIOUS
  <1>1. PICK depth \in Nat : StackInv(depth)
    BY DEF AppInv
  <1>2. Len(owner) \in Nat
    BY LenProperties DEF AppInv, AppTypes
  <1>3. CleanedExactlyOnce
    <2>1. \A f \in Registered : runs[f] <= 1
      BY DEF AppInv, RunsInv
    <2>2. ASSUME Settled, NEW f \in Registered PROVE Ended(f)
      BY <1>1, <1>2, <2>2 DEF StackInv, Registered, Settled
    <2>3. \A f \in Registered : Ended(f) => runs[f] = 1
      BY DEF AppInv, RunsInv, Ended
    <2>4. owner = <<>> => Registered = {}
      BY DEF Registered
    <2>. QED BY <2>1, <2>2, <2>3, <2>4 DEF CleanedExactlyOnce, AppInv, CallerInv
  <1>4. LastInFirstOut
    BY <1>1, <1>2 DEF LastInFirstOut, StackInv, Registered
  <1>5. TypeOK
    <2>1. finalizers \in Seq(Registered)
      <3>1. \A i \in 1..depth : i \in Registered
        BY <1>1, <1>2 DEF StackInv, Registered
      <3>2. finalizers \in [1..depth -> Registered]
        BY <1>1, <3>1 DEF StackInv
      <3>. QED BY <3>2, SeqDef
    <2>2. \A f \in Registered : cleanup[f] \in CleanupState /\ runs[f] \in Nat
      BY ElementOfSeq DEF AppInv, AppTypes, Registered
    <2>. QED BY <1>1, <2>1, <2>2 DEF TypeOK, AppInv, AppTypes, StackInv, CleanupState
  <1>. QED BY <1>3, <1>4, <1>5 DEF CleanupIsSound, AppInv

LEMMA InitInv == AppInit => AppInv
  <1>. SUFFICES ASSUME AppInit PROVE AppInv
    OBVIOUS
  <1>1. \A S : <<>> \in Seq(S) /\ Len(<<>>) = 0
    BY EmptySeq
  <1>2. AppTypes
    <2>1. 1 \in 1..(PluginCount + 1)
      BY PluginAssumption
    <2>2. ready \in BOOLEAN /\ running \in BOOLEAN
      BY DEF AppInit
    <2>. QED BY <1>1, <2>1, <2>2 DEF AppInit, AppTypes
  <1>3. Registered = {}
    BY <1>1 DEF AppInit, Registered
  <1>4. StackInv(0)
    <2>1. finalizers = [i \in 1..0 |-> i]
      BY DEF AppInit
    <2>. QED BY <1>1, <1>3, <2>1 DEF AppInit, StackInv, Settled
  <1>. QED BY <1>2, <1>3, <1>4 DEF AppInit, AppInv, RunsInv, CallerInv, StopIsHonest

-----------------------------------------------------------------------------

(* What is the same in most steps: the registrations and their stack.      *)
SameStack == UNCHANGED <<owner, finalizers, awaiting>>

(* A disposer's first call, whoever makes it, keeps runs and cleanups in   *)
(* step and ends nothing.                                                  *)
LEMMA DisposeKeeps ==
  ASSUME AppInv, NEW f \in Registered, Dispose(f), owner' = owner
  PROVE  /\ cleanup' \in Seq(CleanupState) /\ Len(cleanup') = Len(owner)
         /\ runs' \in Seq(Nat) /\ Len(runs') = Len(owner)
         /\ RunsInv'
         /\ \A g \in Registered : Ended(g) => cleanup'[g] = cleanup[g]
         /\ \A g \in Registered : g # f => cleanup'[g] = cleanup[g]
         /\ cleanup'[f] # "idle"
         /\ cleanup'[f] = "failed" => cleanup[f] = "failed"
  <1>1. /\ cleanup \in Seq(CleanupState) /\ Len(cleanup) = Len(owner) /\ runs \in Seq(Nat) /\ Len(runs) = Len(owner)
        /\ f \in 1..Len(cleanup) /\ f \in 1..Len(runs)
    BY DEF AppInv, AppTypes, Registered
  <1>2. CASE cleanup[f] = "idle"
    <2>0. runs[f] + 1 = 1
      BY <1>2 DEF AppInv, RunsInv
    <2>1. cleanup' = [cleanup EXCEPT ![f] = "running"] /\ runs' = [runs EXCEPT ![f] = 1]
      BY <1>2, <2>0 DEF Dispose
    <2>2. "running" \in CleanupState
      BY DEF CleanupState
    <2>3. /\ cleanup' \in Seq(CleanupState) /\ Len(cleanup') = Len(cleanup)
          /\ \A g \in 1..Len(cleanup) : cleanup'[g] = IF g = f THEN "running" ELSE cleanup[g]
      BY <1>1, <2>1, <2>2, ExceptSeq
    <2>4. /\ runs' \in Seq(Nat) /\ Len(runs') = Len(runs)
          /\ \A g \in 1..Len(runs) : runs'[g] = IF g = f THEN 1 ELSE runs[g]
      BY <1>1, <2>1, ExceptSeq
    <2>. QED BY <1>1, <1>2, <2>3, <2>4 DEF AppInv, RunsInv, Registered, Ended
  <1>3. CASE cleanup[f] # "idle"
    <2>1. cleanup' = cleanup /\ runs' = runs
      BY <1>3 DEF Dispose
    <2>. QED BY <1>1, <1>3, <2>1 DEF AppInv, RunsInv, Registered
  <1>. QED BY <1>2, <1>3

(* Steps that leave the registrations, the stack and the cleanups alone    *)
(* and begin stop() at most.                                               *)
LEMMA QuietKeeps ==
  ASSUME AppInv, UNCHANGED <<owner, finalizers, awaiting, cleanup, runs>>,
         stop' = stop \/ (stop = "none" /\ stop' = "pending")
  PROVE  RunsInv' /\ StopIsHonest' /\ \E depth \in Nat : StackInv(depth)'
  <1>1. PICK depth \in Nat : StackInv(depth)
    BY DEF AppInv
  <1>2. Registered' = Registered /\ \A f \in Registered : Ended(f)' = Ended(f)
    BY DEF Registered, Ended
  <1>3. StackInv(depth)'
    BY <1>1, <1>2 DEF StackInv, Settled
  <1>. QED BY <1>2, <1>3 DEF AppInv, RunsInv, StopIsHonest

LEMMA NextInv == AppInv /\ [AppNext]_appVars => AppInv'
  <1>. SUFFICES ASSUME AppInv, [AppNext]_appVars PROVE AppInv'
    OBVIOUS
  <1>. USE DEF AppInv
  <1>len. /\ Len(owner) \in Nat /\ Registered = 1..Len(owner)
          /\ \A f \in Registered : cleanup[f] \in CleanupState
    BY LenProperties, ElementOfSeq DEF AppTypes, Registered
  <1>stack. PICK depth \in Nat : StackInv(depth)
    OBVIOUS
  <1>1. ASSUME NEW ok \in BOOLEAN, Preflight(ok) PROVE AppInv'
    <2>1. AppTypes' /\ CallerInv'
      BY <1>1 DEF Preflight, AppTypes, CallerInv, Settled
    <2>. QED BY <1>1, <2>1, QuietKeeps DEF Preflight
  <1>2. ASSUME NEW p \in Plugins, OnCleanup(p) PROVE AppInv'
    <2>n. PICK n \in Nat : n = Len(owner)
      BY <1>len
    <2>1. /\ owner' = Append(owner, p) /\ finalizers' = Append(finalizers, n + 1)
          /\ cleanup' = Append(cleanup, "idle") /\ runs' = Append(runs, 0)
          /\ stop = "none" /\ app = "starting" /\ ready
          /\ UNCHANGED <<ready, setup, services, running, stop, awaiting, app>>
      BY <1>2, <2>n DEF OnCleanup, InSetup
    <2>2. owner' \in Seq(Plugins) /\ Len(owner') = n + 1
      BY <2>1, <2>n, AppendProperties DEF AppTypes
    <2>3. /\ cleanup' \in Seq(CleanupState) /\ Len(cleanup') = n + 1
          /\ \A f \in 1..n : cleanup'[f] = cleanup[f]
          /\ cleanup'[n + 1] = "idle"
      <3>1. "idle" \in CleanupState
        BY DEF CleanupState
      <3>. QED BY <2>1, <2>n, <3>1, AppendProperties DEF AppTypes
    <2>4. /\ runs' \in Seq(Nat) /\ Len(runs') = n + 1
          /\ \A f \in 1..n : runs'[f] = runs[f]
          /\ runs'[n + 1] = 0
      BY <2>1, <2>n, AppendProperties DEF AppTypes
    <2>5. AppTypes'
      BY <2>1, <2>n, <2>2, <2>3, <2>4 DEF AppTypes
    <2>6. RunsInv'
      BY <1>len, <2>n, <2>2, <2>3, <2>4 DEF RunsInv, Registered
    <2>7. CallerInv' /\ StopIsHonest'
      BY <2>1 DEF CallerInv, StopIsHonest, Settled
    <2>8. StackInv(n + 1)'
      <3>1. depth = n /\ awaiting = 0
        BY <1>stack, <2>n, <2>1 DEF StackInv
      <3>2. finalizers \in Seq(Nat) /\ Len(finalizers) = n
        <4>1. finalizers = [i \in 1..n |-> i]
          BY <1>stack, <3>1 DEF StackInv
        <4>2. finalizers \in [1..n -> Nat]
          BY <4>1
        <4>. QED BY <1>len, <4>1, <4>2, SeqDef, LenProperties
      <3>3. /\ finalizers' \in Seq(Nat) /\ Len(finalizers') = n + 1
            /\ \A i \in 1..n : finalizers'[i] = finalizers[i]
            /\ finalizers'[n + 1] = n + 1
        BY <1>len, <2>n, <2>1, <3>2, AppendProperties
      <3>4. finalizers' = [i \in 1..(n + 1) |-> i]
        <4>1. finalizers' \in [1..(n + 1) -> Nat]
          BY <3>3, LenProperties
        <4>2. \A i \in 1..n : finalizers[i] = i
          BY <1>stack, <3>1 DEF StackInv
        <4>3. \A i \in 1..(n + 1) : i \in 1..n \/ i = n + 1
          BY <1>len
        <4>4. \A i \in 1..(n + 1) : finalizers'[i] = i
          BY <3>3, <4>2, <4>3
        <4>. QED BY <4>1, <4>4
      <3>5. Registered' = 1..(n + 1) /\ n + 1 \in 0..(n + 1) /\ ~Settled' /\ awaiting' = 0
        BY <1>len, <2>n, <2>1, <2>2, <3>1 DEF Registered, Settled
      <3>6. \A f \in Registered' : ~(f > n + 1)
        BY <1>len, <2>n, <3>5
      <3>7. Len(owner') = n + 1 /\ n + 1 \in Nat
        BY <1>len, <2>n, <2>2
      <3>8. awaiting' \in {0, (n + 1) + 1} /\ awaiting' \in {0} \cup Registered'
        BY <3>5
      <3>9. \A f \in Registered' : f > n + 1 => f = awaiting' \/ Ended(f)'
        BY <3>6
      <3>10. n + 1 \in 0..Len(owner')
        BY <3>7
      <3>11. /\ awaiting' # 0 => cleanup'[awaiting'] # "idle"
             /\ awaiting' # 0 => stop' = "pending"
             /\ stop' = "none" => n + 1 = Len(owner')
             /\ Settled' => n + 1 = 0
        BY <3>5, <3>7
      <3>. QED BY <3>4, <3>8, <3>9, <3>10, <3>11 DEF StackInv
    <2>9. n + 1 \in Nat
      BY <1>len
    <2>. QED BY <2>5, <2>6, <2>7, <2>8, <2>9
  <1>3. ASSUME NEW p \in Plugins, SetupReturns(p) PROVE AppInv'
    <2>1. AppTypes'
      BY <1>3, PluginAssumption DEF SetupReturns, InSetup, AppTypes, Plugins
    <2>2. CallerInv'
      BY <1>3 DEF SetupReturns, InSetup, CallerInv, Settled
    <2>. QED BY <1>3, <2>1, <2>2, QuietKeeps DEF SetupReturns
  <1>4. ASSUME NEW p \in Plugins, SetupFails(p) PROVE AppInv'
    <2>1. AppTypes' /\ CallerInv'
      BY <1>4 DEF SetupFails, BeginStop, InSetup, AppTypes, CallerInv, Settled
    <2>. QED BY <1>4, <2>1, QuietKeeps DEF SetupFails, BeginStop
  <1>5. CASE RollbackEnds
    <2>1. AppTypes' /\ CallerInv'
      BY <1>5 DEF RollbackEnds, AppTypes, CallerInv, Settled
    <2>. QED BY <1>5, <2>1, QuietKeeps DEF RollbackEnds
  <1>6. ASSUME NEW f \in Registered, DisposeByHand(f) PROVE AppInv'
    <2>1. /\ cleanup[f] = "idle" /\ Dispose(f)
          /\ UNCHANGED <<ready, setup, services, running, owner, finalizers, stop, awaiting, app>>
      BY <1>6 DEF DisposeByHand
    <2>2. /\ cleanup' \in Seq(CleanupState) /\ Len(cleanup') = Len(owner)
          /\ runs' \in Seq(Nat) /\ Len(runs') = Len(owner)
          /\ RunsInv'
          /\ \A g \in Registered : Ended(g) => cleanup'[g] = cleanup[g]
          /\ \A g \in Registered : g # f => cleanup'[g] = cleanup[g]
          /\ cleanup'[f] # "idle"
      BY <2>1, DisposeKeeps
    <2>3. AppTypes' /\ CallerInv'
      BY <2>1, <2>2 DEF AppTypes, CallerInv, Settled
    <2>4. Registered' = Registered
      BY <2>1 DEF Registered
    <2>5. ~Settled
      BY <1>len, <1>stack, <2>1 DEF StackInv, Ended, Settled
    <2>6. StackInv(depth)'
      BY <1>stack, <2>1, <2>2, <2>4 DEF StackInv, Ended, Settled
    <2>7. StopIsHonest'
      BY <2>1, <2>5 DEF StopIsHonest, Settled
    <2>. QED BY <2>2, <2>3, <2>6, <2>7
  <1>7. ASSUME NEW f \in Registered, NEW ok \in BOOLEAN, CleanupEnds(f, ok) PROVE AppInv'
    <2>. DEFINE after == IF ok THEN "done" ELSE "failed"
    <2>1. /\ cleanup[f] = "running" /\ cleanup' = [cleanup EXCEPT ![f] = after]
          /\ UNCHANGED <<ready, setup, services, running, owner, finalizers, stop, awaiting, app, runs>>
      BY <1>7 DEF CleanupEnds
    <2>2. /\ cleanup' \in Seq(CleanupState) /\ Len(cleanup') = Len(owner)
          /\ \A g \in Registered : cleanup'[g] = IF g = f THEN after ELSE cleanup[g]
      <3>1. after \in CleanupState
        BY DEF CleanupState
      <3>2. cleanup \in Seq(CleanupState) /\ Len(cleanup) = Len(owner) /\ f \in 1..Len(cleanup)
        BY <1>len DEF AppTypes
      <3>. QED BY <1>len, <2>1, <3>1, <3>2, ExceptSeq
    <2>3. AppTypes' /\ CallerInv'
      BY <2>1, <2>2 DEF AppTypes, CallerInv, Settled
    <2>4. Registered' = Registered
      BY <2>1 DEF Registered
    <2>5. ~Settled
      BY <1>len, <1>stack, <2>1 DEF StackInv, Ended, Settled
    <2>6. StackInv(depth)'
      BY <1>stack, <2>1, <2>2, <2>4 DEF StackInv, Ended, Settled
    <2>7. StopIsHonest' /\ RunsInv'
      BY <2>1, <2>2, <2>4, <2>5 DEF StopIsHonest, Settled, RunsInv
    <2>. QED BY <2>3, <2>6, <2>7
  <1>8. CASE Stop
    <2>1. AppTypes' /\ CallerInv'
      BY <1>8 DEF Stop, BeginStop, AppTypes, CallerInv, Settled
    <2>. QED BY <1>8, <2>1, QuietKeeps DEF Stop, BeginStop
  <1>9. CASE StopPops
    <2>. DEFINE f == finalizers[Len(finalizers)]
    <2>1. /\ stop = "pending" /\ awaiting = 0 /\ finalizers # <<>>
          /\ awaiting' = f /\ finalizers' = SubSeq(finalizers, 1, Len(finalizers) - 1)
          /\ Dispose(f)
          /\ UNCHANGED <<ready, setup, services, running, owner, stop, app>>
      BY <1>9 DEF StopPops
    <2>2. finalizers \in Seq(Nat) /\ Len(finalizers) = depth /\ \A i \in 1..depth : finalizers[i] = i
      <3>1. finalizers = [i \in 1..depth |-> i]
        BY <1>stack DEF StackInv
      <3>2. finalizers \in [1..depth -> Nat]
        BY <3>1
      <3>. QED BY <3>1, <3>2, SeqDef, LenProperties
    <2>3. depth \in 1..Len(owner) /\ f = depth
      <3>1. depth # 0
        BY <2>1, <2>2, EmptySeq
      <3>. QED BY <1>len, <1>stack, <2>2, <3>1 DEF StackInv
    <2>4. f \in Registered
      BY <1>len, <2>3
    <2>5. /\ cleanup' \in Seq(CleanupState) /\ Len(cleanup') = Len(owner)
          /\ runs' \in Seq(Nat) /\ Len(runs') = Len(owner)
          /\ RunsInv'
          /\ \A g \in Registered : Ended(g) => cleanup'[g] = cleanup[g]
          /\ cleanup'[f] # "idle"
      BY <2>1, <2>4, DisposeKeeps
    <2>6. AppTypes' /\ CallerInv'
      BY <2>1, <2>5 DEF AppTypes, CallerInv, Settled
    <2>7. finalizers' = [i \in 1..(depth - 1) |-> i]
      <3>1. \A i \in 1..(depth - 1) : finalizers[i] \in Nat
        BY <2>2
      <3>2. /\ finalizers' \in Seq(Nat) /\ Len(finalizers') = depth - 1
            /\ \A i \in 1..(depth - 1) : finalizers'[i] = finalizers[i]
        BY <2>1, <2>2, <2>3, <3>1, SubSeqProperties
      <3>3. finalizers' \in [1..(depth - 1) -> Nat]
        BY <3>2, LenProperties
      <3>. QED BY <2>2, <3>2, <3>3
    <2>8. StackInv(depth - 1)'
      <3>1. Registered' = Registered /\ depth - 1 \in 0..Len(owner) /\ awaiting' = (depth - 1) + 1
        BY <1>len, <2>1, <2>3 DEF Registered
      <3>2. \A g \in Registered : g > depth - 1 => g = awaiting' \/ Ended(g)'
        <4>. SUFFICES ASSUME NEW g \in Registered, g > depth - 1, g # awaiting' PROVE Ended(g)'
          OBVIOUS
        <4>1. g \in Nat /\ g > depth /\ g # 0
          BY <1>len, <2>3, <3>1
        <4>2. Ended(g)
          BY <1>stack, <2>1, <4>1 DEF StackInv
        <4>3. cleanup'[g] = cleanup[g]
          BY <2>5, <4>2
        <4>. QED BY <4>2, <4>3 DEF Ended
      <3>3. awaiting' \in {0, (depth - 1) + 1} /\ awaiting' \in Registered' /\ cleanup'[awaiting'] # "idle"
        BY <2>1, <2>4, <2>5, <3>1
      <3>4. stop' = "pending" /\ ~Settled' /\ Len(owner') = Len(owner)
        BY <2>1 DEF Settled
      <3>. QED BY <2>7, <3>1, <3>2, <3>3, <3>4 DEF StackInv
    <2>9. StopIsHonest' /\ depth - 1 \in Nat
      BY <2>1, <2>3 DEF StopIsHonest
    <2>. QED BY <2>5, <2>6, <2>8, <2>9
  <1>10. CASE StopAwaited
    <2>1. AppTypes' /\ CallerInv' /\ RunsInv' /\ StopIsHonest'
      BY <1>10 DEF StopAwaited, AppTypes, CallerInv, RunsInv, StopIsHonest, Settled, Registered
    <2>2. StackInv(depth)'
      BY <1>10, <1>stack DEF StopAwaited, StackInv, Registered, Ended, Settled
    <2>. QED BY <2>1, <2>2
  <1>11. CASE StopEnds
    <2>1. /\ stop = "pending" /\ awaiting = 0 /\ finalizers = <<>>
          /\ services' = {}
          /\ stop' = IF \E f \in Registered : cleanup[f] = "failed" THEN "rejected" ELSE "resolved"
          /\ UNCHANGED <<ready, setup, running, owner, finalizers, cleanup, awaiting, app, runs>>
      BY <1>11 DEF StopEnds
    <2>2. depth = 0
      <3>1. finalizers = [i \in 1..depth |-> i] /\ finalizers \in [1..depth -> Nat]
        BY <1>stack DEF StackInv
      <3>2. finalizers \in Seq(Nat) /\ Len(finalizers) = depth
        BY <3>1, SeqDef, LenProperties
      <3>. QED BY <2>1, <3>2, EmptySeq
    <2>3. \A f \in Registered : Ended(f)
      BY <1>len, <1>stack, <2>1, <2>2 DEF StackInv
    <2>4. AppTypes' /\ RunsInv' /\ CallerInv'
      BY <2>1 DEF AppTypes, RunsInv, CallerInv, Settled, Registered
    <2>5. StopIsHonest'
      BY <2>1, <2>3 DEF StopIsHonest, Ended, Registered
    <2>6. StackInv(0)'
      BY <1>stack, <2>1, <2>2, <2>3 DEF StackInv, Registered, Ended, Settled
    <2>. QED BY <2>4, <2>5, <2>6
  <1>12. CASE WorkEnds
    <2>1. AppTypes' /\ CallerInv'
      BY <1>12 DEF WorkEnds, BeginStop, AppTypes, CallerInv, Settled
    <2>. QED BY <1>12, <2>1, QuietKeeps DEF WorkEnds, BeginStop
  <1>13. CASE WithAppEnds
    <2>1. AppTypes' /\ CallerInv'
      BY <1>13 DEF WithAppEnds, AppTypes, CallerInv, Settled
    <2>. QED BY <1>13, <2>1, QuietKeeps DEF WithAppEnds
  <1>14. CASE UNCHANGED appVars
    <2>1. AppTypes' /\ CallerInv'
      BY <1>14 DEF appVars, AppTypes, CallerInv, Settled
    <2>. QED BY <1>14, <2>1, QuietKeeps DEF appVars
  <1>. QED BY <1>1, <1>2, <1>3, <1>4, <1>5, <1>6, <1>7, <1>8, <1>9, <1>10, <1>11, <1>12, <1>13, <1>14 DEF AppNext

-----------------------------------------------------------------------------

(* Every cleanup runs once, last in, first out, and stop() says how it     *)
(* went (startApp, onCleanup, stop and withApp of lifecycle.ts), for every *)
(* number of plugins.                                                      *)
THEOREM CleanupSound == AppSpec => []CleanupIsSound
  <1>1. AppSpec => []AppInv
    BY InitInv, NextInv, PTL DEF AppSpec
  <1>2. AppInv => CleanupIsSound
    BY InvImpliesSound
  <1>. QED BY <1>1, <1>2, PTL

(* The variables keep their types; the stack holds only what was           *)
(* registered.                                                             *)
THEOREM AppTyping == AppSpec => []TypeOK
  <1>1. AppSpec => []AppInv
    BY InitInv, NextInv, PTL DEF AppSpec
  <1>. QED BY <1>1, InvImpliesSound, PTL


-----------------------------------------------------------------------------
(***************************************************************************)
(* The development supervisor.  That one runtime runs at a time depends on *)
(* where the restart loop stands: a generation is active, or its stop is   *)
(* chained, or the loop is at its entry, and never two of these            *)
(* (OneAtATime). Whatever runs or is open is the generation so placed      *)
(* (RunningIsKnown, OpenIsKnown).                                          *)
(***************************************************************************)
Processes == {"none", "running", "exited"}
DevTypes ==
  /\ loop \in {"idle", "head", "stop", "configure", "start", "recover", "entry", "abandon"}
  /\ queued \in BOOLEAN /\ debounce \in BOOLEAN /\ devClosed \in BOOLEAN
  /\ active \in Generations \cup {0}
  /\ children \in [Generations -> Processes]
  /\ engines \in [Generations -> {"none", "open", "closed"}]
  /\ closing \in {"no", "waits", "stops", "done"}
  /\ cycle \in Nat /\ edits \in 0..MaxChanges

(* Every cycle answers the first start or a change of its own.             *)
One(b) == IF b THEN 1 ELSE 0
BeforeCycle == loop \in {"stop", "configure"}
InCycle == loop \in {"start", "recover", "entry", "abandon"}
CyclesAreAsked == /\ cycle + One(queued) + One(debounce) + One(BeforeCycle) <= edits + 1
                  /\ InCycle => cycle > 0

(* Where the loop stands a generation is active, or being stopped, or on   *)
(* its way, and never two of these.                                        *)
OneAtATime ==
  /\ stopping = << >> \/ (active = 0 /\ \E g \in Generations : stopping = <<g>>)
  /\ BeforeCycle \/ InCycle => active = 0
  /\ loop = "configure" \/ InCycle => stopping = << >>
RunningIsKnown == \A g \in Generations : children[g] = "running" => g = active \/ stopping = <<g>>
OpenIsKnown ==
  \A g \in Generations : engines[g] = "open" =>
    g = active \/ stopping = <<g>> \/ (loop \in {"entry", "abandon"} /\ g = cycle)
ClosingEnds ==
  /\ closing # "no" => devClosed
  /\ closing \in {"stops", "done"} => loop = "idle" /\ active = 0
  /\ closing = "done" => stopping = << >>

DevInv == /\ DevTypes /\ CyclesAreAsked /\ OneAtATime /\ RunningIsKnown /\ OpenIsKnown /\ ClosingEnds
          /\ descriptor # 0 => descriptor = active

USE DevAssumption

LEMMA DevStarts == DevInit => DevInv
<1>. SUFFICES ASSUME DevInit PROVE DevInv OBVIOUS
<1>1. DevTypes
  <2>1. children = [g \in Generations |-> "none"] /\ engines = [g \in Generations |-> "none"] BY DEF DevInit
  <2>2. children \in [Generations -> Processes] /\ engines \in [Generations -> {"none", "open", "closed"}]
    BY <2>1 DEF Processes
  <2>3. loop = "head" /\ queued = TRUE /\ debounce = FALSE /\ devClosed = FALSE /\ active = 0 /\ closing = "no"
        /\ cycle = 0 /\ edits = 0
    BY DEF DevInit
  <2>4. queued \in BOOLEAN /\ debounce \in BOOLEAN /\ devClosed \in BOOLEAN BY <2>3
  <2>5. cycle \in Nat /\ edits \in 0..MaxChanges BY <2>3
  <2>6. loop \in {"idle", "head", "stop", "configure", "start", "recover", "entry", "abandon"} BY <2>3
  <2>7. closing \in {"no", "waits", "stops", "done"} BY <2>3
  <2>8. active \in Generations \cup {0} BY <2>3
  <2>. QED BY <2>2, <2>4, <2>5, <2>6, <2>7, <2>8 DEF DevTypes
<1>2. CyclesAreAsked BY DEF DevInit, CyclesAreAsked, One, BeforeCycle, InCycle
<1>. QED BY <1>1, <1>2 DEF DevInit, DevInv, OneAtATime, RunningIsKnown, OpenIsKnown, ClosingEnds, BeforeCycle, InCycle

LEMMA CycleFits == ASSUME DevInv, InCycle PROVE cycle \in Generations
BY DEF DevInv, DevTypes, CyclesAreAsked, One, BeforeCycle, InCycle, Generations

(* Stopping the active generation, wherever that happens.                  *)
LEMMA StopActiveMoves ==
  ASSUME DevInv, StopActive
  PROVE  /\ active' = 0 /\ descriptor' = 0
         /\ stopping' = << >> \/ \E g \in Generations : stopping' = <<g>>
         /\ \A g \in Generations : g = active \/ stopping = <<g>> => stopping' = <<g>>
         /\ active = 0 => stopping' = stopping
<1>1. active \in Generations \cup {0} /\ 0 \notin Generations BY DEF DevInv, DevTypes, Generations
<1>2. active' = 0 /\ descriptor' = 0 BY DEF StopActive, DevInv
<1>3. CASE active = 0
  <2>1. stopping' = stopping BY <1>3 DEF StopActive
  <2>. QED BY <1>1, <1>2, <1>3, <2>1 DEF DevInv, OneAtATime
<1>4. CASE active # 0
  <2>1. stopping = << >> BY <1>4 DEF DevInv, OneAtATime
  <2>2. stopping' = <<active>> BY <1>4, <2>1 DEF StopActive
  <2>. QED BY <1>1, <1>2, <1>4, <2>1, <2>2
<1>. QED BY <1>3, <1>4

LEMMA LoopHeadKeeps == ASSUME DevInv, LoopHead PROVE DevInv'
<1>1. DevTypes' BY StopActiveMoves DEF DevInv, DevTypes, LoopHead
<1>2. CyclesAreAsked' BY DEF DevInv, DevTypes, LoopHead, CyclesAreAsked, One, BeforeCycle, InCycle
<1>3. CASE queued /\ ~devClosed
  <2>1. StopActive /\ loop' = "stop" /\ UNCHANGED <<children, engines, closing, devClosed, cycle>> /\ loop = "head"
    BY <1>3 DEF LoopHead
  <2>. QED BY <1>1, <1>2, <1>3, <2>1, StopActiveMoves
    DEF DevInv, OneAtATime, RunningIsKnown, OpenIsKnown, ClosingEnds, BeforeCycle, InCycle
<1>4. CASE ~(queued /\ ~devClosed)
  BY <1>1, <1>2, <1>4 DEF LoopHead, DevInv, OneAtATime, RunningIsKnown, OpenIsKnown, ClosingEnds, BeforeCycle, InCycle
<1>. QED BY <1>3, <1>4

(* The loop ends where nothing is active and no stop is chained.           *)
LEMMA RejectsKeeps == ASSUME DevInv, loop \in {"configure", "recover"}, LoopRejects PROVE DevInv'
<1>1. active = 0 /\ stopping = << >> /\ loop' = "idle" /\ closing # "done"
  BY DEF LoopRejects, DevInv, OneAtATime, ClosingEnds, BeforeCycle, InCycle
<1>2. UNCHANGED <<queued, active, children, hooks, engines, stopping, descriptor, cycle, edits>> BY DEF LoopRejects
<1>3. DevTypes' BY <1>1, <1>2 DEF LoopRejects, DevInv, DevTypes
<1>4. CyclesAreAsked'
  <2>1. debounce' => debounce BY DEF LoopRejects
  <2>. QED BY <1>1, <1>2, <2>1 DEF DevInv, DevTypes, CyclesAreAsked, One, BeforeCycle, InCycle
<1>5. ClosingEnds' BY <1>1, <1>2 DEF LoopRejects, DevInv, ClosingEnds
<1>6. OneAtATime' /\ RunningIsKnown' BY <1>1, <1>2 DEF DevInv, OneAtATime, RunningIsKnown, BeforeCycle, InCycle
<1>7. OpenIsKnown' BY <1>1, <1>2 DEF DevInv, OpenIsKnown
<1>. QED BY <1>2, <1>3, <1>4, <1>5, <1>6, <1>7 DEF DevInv

LEMMA LoopKeeps == ASSUME DevInv, LoopStopped \/ Configure \/ EngineStart \/ Recover \/ Spawn \/ Abandon PROVE DevInv'
<1>1. CASE LoopStopped
  <2>1. DevTypes' BY <1>1 DEF DevInv, DevTypes, LoopStopped
  <2>2. CyclesAreAsked' BY <1>1 DEF DevInv, DevTypes, LoopStopped, CyclesAreAsked, One, BeforeCycle, InCycle
  <2>. QED BY <1>1, <2>1, <2>2 DEF LoopStopped, DevInv, OneAtATime, RunningIsKnown, OpenIsKnown, ClosingEnds, BeforeCycle, InCycle
<1>5. CASE Configure
  <2>1. CASE /\ loop' = "start" /\ cycle' = cycle + 1
             /\ UNCHANGED <<queued, debounce, devClosed, active, children, hooks, engines, stopping, descriptor, closing, edits>>
    <3>0. loop = "configure" BY <1>5 DEF Configure
    <3>1. DevTypes' BY <2>1 DEF DevInv, DevTypes
    <3>2. CyclesAreAsked' BY <2>1, <3>0 DEF DevInv, DevTypes, CyclesAreAsked, One, BeforeCycle, InCycle
    <3>3. OpenIsKnown' BY <2>1, <3>0 DEF DevInv, OpenIsKnown
    <3>. QED BY <2>1, <3>0, <3>1, <3>2, <3>3 DEF DevInv, OneAtATime, RunningIsKnown, ClosingEnds, BeforeCycle, InCycle
  <2>. QED BY <1>5, <2>1, RejectsKeeps DEF Configure
<1>6. CASE Recover
  <2>1. CASE loop' = "head" /\ UNCHANGED <<queued, debounce, devClosed, active, children, hooks, engines, stopping,
                                          descriptor, closing, cycle, dirty, edits>>
    <3>0. loop = "recover" BY <1>6 DEF Recover
    <3>1. DevTypes' BY <2>1 DEF DevInv, DevTypes
    <3>2. CyclesAreAsked' BY <2>1, <3>0 DEF DevInv, DevTypes, CyclesAreAsked, One, BeforeCycle, InCycle
    <3>3. OpenIsKnown' BY <2>1, <3>0 DEF DevInv, OpenIsKnown
    <3>. QED BY <2>1, <3>0, <3>1, <3>2, <3>3 DEF DevInv, OneAtATime, RunningIsKnown, ClosingEnds, BeforeCycle, InCycle
  <2>. QED BY <1>6, <2>1, RejectsKeeps DEF Recover
<1>2. CASE EngineStart
  <2>0. cycle \in Generations BY <1>2, CycleFits DEF EngineStart, InCycle
  <2>1. DevTypes' BY <1>2 DEF DevInv, DevTypes, EngineStart
  <2>2. CyclesAreAsked' BY <1>2 DEF DevInv, DevTypes, EngineStart, CyclesAreAsked, One, BeforeCycle, InCycle
  <2>3. OpenIsKnown' BY <1>2, <2>0 DEF DevInv, DevTypes, EngineStart, OpenIsKnown
  <2>. QED BY <1>2, <2>1, <2>2, <2>3
    DEF EngineStart, DevInv, OneAtATime, RunningIsKnown, ClosingEnds, BeforeCycle, InCycle
<1>3. CASE Spawn
  <2>0. cycle \in Generations BY <1>3, CycleFits DEF Spawn, InCycle
  <2>1. DevTypes' BY <1>3, <2>0 DEF DevInv, DevTypes, Spawn, Processes
  <2>2. CyclesAreAsked' BY <1>3 DEF DevInv, DevTypes, Spawn, CyclesAreAsked, One, BeforeCycle, InCycle
  <2>3. loop = "entry" /\ active = 0 /\ stopping = << >> /\ stopping' = << >> /\ cycle' = cycle /\ engines' = engines
        /\ 0 \notin Generations
    BY <1>3 DEF Spawn, DevInv, OneAtATime, Generations, BeforeCycle, InCycle
  <2>4. RunningIsKnown'
    <3>1. \A g \in Generations : children[g] # "running" BY <2>3 DEF DevInv, RunningIsKnown
    <3>. QED BY <1>3, <2>0, <2>3, <3>1 DEF Spawn, DevInv, DevTypes, RunningIsKnown
  <2>5. OpenIsKnown'
    <3>1. \A g \in Generations : engines[g] = "open" => g = cycle BY <2>3 DEF DevInv, OpenIsKnown
    <3>2. active' = cycle \/ loop' \in {"entry", "abandon"} BY <1>3 DEF Spawn
    <3>. QED BY <2>3, <3>1, <3>2 DEF OpenIsKnown
  <2>. QED BY <1>3, <2>1, <2>2, <2>4, <2>5 DEF Spawn, DevInv, OneAtATime, ClosingEnds, BeforeCycle, InCycle
<1>4. CASE Abandon
  <2>0. cycle \in Generations BY <1>4, CycleFits DEF Abandon, InCycle
  <2>1. DevTypes' BY <1>4 DEF DevInv, DevTypes, Abandon
  <2>2. CyclesAreAsked' BY <1>4 DEF DevInv, DevTypes, Abandon, CyclesAreAsked, One, BeforeCycle, InCycle
  <2>3. OpenIsKnown' BY <1>4, <2>0 DEF DevInv, DevTypes, Abandon, OneAtATime, OpenIsKnown, BeforeCycle, InCycle
  <2>. QED BY <1>4, <2>1, <2>2, <2>3
    DEF Abandon, DevInv, OneAtATime, RunningIsKnown, ClosingEnds, BeforeCycle, InCycle
<1>. QED BY <1>1, <1>2, <1>3, <1>4, <1>5, <1>6

LEMMA ProcessKeeps ==
  ASSUME DevInv, NEW g \in Generations, ReadyMessage(g) \/ Admit(g) \/ ChildExits(g) \/ ExitNoticed(g) PROVE DevInv'
<1>0. 0 \notin Generations BY DEF Generations
<1>1. ASSUME StopActive, active = g,
             UNCHANGED <<loop, queued, debounce, devClosed, children, engines, closing, cycle, edits>> PROVE DevInv'
  <2>1. DevTypes' BY <1>1, StopActiveMoves DEF DevInv, DevTypes
  <2>2. ~BeforeCycle /\ ~InCycle /\ closing \notin {"stops", "done"}
    BY <1>0, <1>1 DEF DevInv, OneAtATime, ClosingEnds
  <2>. QED BY <1>1, <2>1, <2>2, StopActiveMoves
    DEF DevInv, CyclesAreAsked, OneAtATime, RunningIsKnown, OpenIsKnown, ClosingEnds, BeforeCycle, InCycle
<1>2. CASE ReadyMessage(g)
  BY <1>2 DEF ReadyMessage, DevInv, DevTypes, CyclesAreAsked, OneAtATime, RunningIsKnown, OpenIsKnown, ClosingEnds, BeforeCycle, InCycle
<1>3. CASE Admit(g)
  <2>1. CASE StopActive /\ active = g BY <1>1, <1>3, <2>1 DEF Admit
  <2>2. CASE UNCHANGED <<active, stopping>> /\ (descriptor' = descriptor \/ (descriptor' = g /\ active = g))
    <3>1. UNCHANGED <<loop, queued, debounce, devClosed, children, engines, closing, cycle, edits, active, stopping>>
      BY <1>3, <2>2 DEF Admit
    <3>. QED BY <2>2, <3>1 DEF DevInv, DevTypes, CyclesAreAsked, OneAtATime, RunningIsKnown, OpenIsKnown, ClosingEnds, BeforeCycle, InCycle
  <2>. QED BY <1>3, <2>1, <2>2 DEF Admit, MayAdmit
<1>4. CASE ChildExits(g)
  <2>1. DevTypes' BY <1>4 DEF ChildExits, DevInv, DevTypes, Processes
  <2>2. RunningIsKnown' BY <1>4 DEF ChildExits, DevInv, DevTypes, RunningIsKnown
  <2>. QED BY <1>4, <2>1, <2>2 DEF ChildExits, DevInv, CyclesAreAsked, OneAtATime, OpenIsKnown, ClosingEnds, BeforeCycle, InCycle
<1>5. CASE ExitNoticed(g) BY <1>1, <1>5 DEF ExitNoticed
<1>. QED BY <1>2, <1>3, <1>4, <1>5

LEMMA StopKeeps == ASSUME DevInv, StopStep PROVE DevInv'
<1>0. PICK g \in Generations : stopping = <<g>> /\ active = 0 BY DEF StopStep, StopProcess, StopEngine, DevInv, OneAtATime
<1>1. Head(stopping) = g /\ Tail(stopping) = << >> BY <1>0
<1>2. ~InCycle BY <1>0 DEF DevInv, OneAtATime
<1>3. CASE StopProcess
  <2>1. DevTypes' BY <1>3 DEF StopProcess, DevInv, DevTypes, Processes
  <2>2. RunningIsKnown' BY <1>3 DEF StopProcess, DevInv, DevTypes, RunningIsKnown
  <2>. QED BY <1>3, <2>1, <2>2 DEF StopProcess, DevInv, CyclesAreAsked, OneAtATime, OpenIsKnown, ClosingEnds, BeforeCycle, InCycle
<1>4. CASE StopEngine
  <2>0. children[g] = "exited" /\ engines' = [engines EXCEPT ![g] = "closed"] /\ stopping' = << >>
        /\ UNCHANGED <<loop, queued, debounce, devClosed, active, children, descriptor, closing, cycle, edits>>
    BY <1>1, <1>4 DEF StopEngine
  <2>1. DevTypes' BY <2>0 DEF DevInv, DevTypes
  <2>2. RunningIsKnown' /\ OpenIsKnown'
    BY <1>0, <1>2, <2>0 DEF DevInv, DevTypes, RunningIsKnown, OpenIsKnown, InCycle
  <2>. QED BY <2>0, <2>1, <2>2 DEF DevInv, CyclesAreAsked, OneAtATime, ClosingEnds, BeforeCycle, InCycle
<1>. QED BY <1>3, <1>4 DEF StopStep

LEMMA CloseKeeps == ASSUME DevInv, CloseDev \/ CloseStep PROVE DevInv'
<1>1. CASE CloseDev
  <2>1. CyclesAreAsked' BY <1>1 DEF CloseDev, DevInv, DevTypes, CyclesAreAsked, One, BeforeCycle, InCycle
  <2>. QED BY <1>1, <2>1 DEF CloseDev, DevInv, DevTypes, OneAtATime, RunningIsKnown, OpenIsKnown, ClosingEnds, BeforeCycle, InCycle
<1>2. CASE CloseStops
  <2>1. DevTypes' BY <1>2, StopActiveMoves DEF CloseStops, DevInv, DevTypes
  <2>. QED BY <1>2, <2>1, StopActiveMoves
    DEF CloseStops, DevInv, CyclesAreAsked, OneAtATime, RunningIsKnown, OpenIsKnown, ClosingEnds, BeforeCycle, InCycle
<1>3. CASE CloseDone
  BY <1>3 DEF CloseDone, DevInv, DevTypes, CyclesAreAsked, OneAtATime, RunningIsKnown, OpenIsKnown, ClosingEnds, BeforeCycle, InCycle
<1>. QED BY <1>1, <1>2, <1>3 DEF CloseStep

LEMMA DevStep == DevInv /\ [DevNext]_devVars => DevInv'
<1>. SUFFICES ASSUME DevInv, [DevNext]_devVars PROVE DevInv' OBVIOUS
<1>1. CASE UNCHANGED devVars
  BY <1>1 DEF devVars, DevInv, DevTypes, CyclesAreAsked, OneAtATime, RunningIsKnown, OpenIsKnown, ClosingEnds, BeforeCycle, InCycle
<1>2. CASE Changed
  <2>1. DevTypes' /\ CyclesAreAsked' BY <1>2 DEF Changed, DevInv, DevTypes, CyclesAreAsked, One, BeforeCycle, InCycle
  <2>. QED BY <1>2, <2>1 DEF Changed, DevInv, OneAtATime, RunningIsKnown, OpenIsKnown, ClosingEnds, BeforeCycle, InCycle
<1>3. CASE Restart
  <2>0. DevTypes' BY <1>3 DEF Restart, Restarts, DevInv, DevTypes
  <2>1. CyclesAreAsked'
    <3>1. One(debounce) = 1 /\ One(debounce') = 0 /\ One(queued') = 1 /\ One(queued) >= 0 /\ One(queued) \in Nat
      BY <1>3 DEF Restart, Restarts, One
    <3>2. One(BeforeCycle') = One(BeforeCycle) /\ One(BeforeCycle) \in Nat BY <1>3 DEF Restart, One, BeforeCycle
    <3>3. cycle' = cycle /\ edits' = edits /\ cycle \in Nat /\ edits \in Nat BY <1>3 DEF Restart, DevInv, DevTypes
    <3>4. cycle + One(queued) + One(debounce) + One(BeforeCycle) <= edits + 1 BY DEF DevInv, CyclesAreAsked
    <3>5. cycle' + One(queued') + One(debounce') + One(BeforeCycle') <= edits' + 1 BY <3>1, <3>2, <3>3, <3>4
    <3>6. InCycle' => cycle' > 0 BY <1>3, <3>3 DEF Restart, DevInv, CyclesAreAsked, InCycle
    <3>. QED BY <3>5, <3>6 DEF CyclesAreAsked, One, BeforeCycle, InCycle
  <2>. QED BY <1>3, <2>0, <2>1 DEF Restart, DevInv, OneAtATime, RunningIsKnown, OpenIsKnown, ClosingEnds, BeforeCycle, InCycle
<1>4. CASE LoopStep BY <1>4, LoopHeadKeeps, LoopKeeps DEF LoopStep
<1>5. CASE \E g \in Generations : ReadyMessage(g) \/ Admit(g) \/ ChildExits(g) \/ ExitNoticed(g)
  BY <1>5, ProcessKeeps
<1>. QED BY <1>1, <1>2, <1>3, <1>4, <1>5, StopKeeps, CloseKeeps DEF DevNext

LEMMA AtMostOne ==
  ASSUME NEW S, \A x, y \in S : x = y PROVE Cardinality(S) <= 1
<1>1. CASE S = {} BY <1>1, FS_EmptySet
<1>2. ASSUME NEW x \in S PROVE Cardinality(S) <= 1
  <2>1. S = {x} OBVIOUS
  <2>. QED BY <2>1, FS_Singleton
<1>. QED BY <1>1, <1>2

LEMMA DevOne == ASSUME DevInv PROVE OneRuntime
<1>1. \A x, y \in {g \in Generations : children[g] = "running"} : x = y
  <2>1. ASSUME NEW x \in Generations, NEW y \in Generations, children[x] = "running", children[y] = "running" PROVE x = y
    <3>1. (x = active \/ stopping = <<x>>) /\ (y = active \/ stopping = <<y>>) BY <2>1 DEF DevInv, RunningIsKnown
    <3>2. stopping = << >> \/ active = 0 BY DEF DevInv, OneAtATime
    <3>3. x # 0 /\ y # 0 BY DEF Generations
    <3>4. CASE stopping = << >> BY <3>1, <3>4
    <3>5. CASE stopping # << >>
      <4>1. stopping = <<x>> /\ stopping = <<y>> BY <3>1, <3>2, <3>3, <3>5
      <4>2. stopping[1] = x /\ stopping[1] = y BY <4>1
      <4>. QED BY <4>2
    <3>. QED BY <3>4, <3>5
  <2>. QED BY <2>1
<1>2. \A x, y \in {g \in Generations : engines[g] = "open"} : x = y
  <2>1. ASSUME NEW x \in Generations, NEW y \in Generations, engines[x] = "open", engines[y] = "open" PROVE x = y
    <3>1. /\ x = active \/ stopping = <<x>> \/ (loop \in {"entry", "abandon"} /\ x = cycle)
          /\ y = active \/ stopping = <<y>> \/ (loop \in {"entry", "abandon"} /\ y = cycle)
      BY <2>1 DEF DevInv, OpenIsKnown
    <3>2. /\ stopping = << >> \/ active = 0
          /\ loop \in {"entry", "abandon"} => active = 0 /\ stopping = << >>
      BY DEF DevInv, OneAtATime, InCycle
    <3>3. x # 0 /\ y # 0 BY DEF Generations
    <3>4. CASE loop \in {"entry", "abandon"}
      <4>1. active = 0 /\ stopping # <<x>> /\ stopping # <<y>> BY <3>2, <3>4
      <4>. QED BY <3>1, <3>3, <4>1
    <3>5. CASE loop \notin {"entry", "abandon"} /\ stopping = << >> BY <3>1, <3>5
    <3>6. CASE loop \notin {"entry", "abandon"} /\ stopping # << >>
      <4>1. stopping = <<x>> /\ stopping = <<y>> BY <3>1, <3>2, <3>3, <3>6
      <4>2. stopping[1] = x /\ stopping[1] = y BY <4>1
      <4>. QED BY <4>2
    <3>. QED BY <3>4, <3>5, <3>6
  <2>. QED BY <2>1
<1>3. closing = "done" => /\ active = 0 /\ descriptor = 0
                          /\ \A g \in Generations : children[g] # "running" /\ engines[g] # "open"
  <2>1. SUFFICES ASSUME closing = "done" PROVE /\ active = 0 /\ descriptor = 0
                          /\ \A g \in Generations : children[g] # "running" /\ engines[g] # "open"
    OBVIOUS
  <2>2. active = 0 /\ stopping = << >> /\ loop = "idle" BY <2>1 DEF DevInv, ClosingEnds
  <2>3. 0 \notin Generations BY DEF Generations
  <2>. QED BY <2>2, <2>3 DEF DevInv, RunningIsKnown, OpenIsKnown
<1>. QED BY <1>1, <1>2, <1>3, AtMostOne DEF OneRuntime, DevInv

(* There is one runtime at a time, and nothing is left when the supervisor *)
(* has closed, however often the sources change.                           *)
THEOREM OneRuntimeAtATime == DevSpec => []OneRuntime
BY DevStarts, DevStep, DevOne, PTL DEF DevSpec

HIDE DevAssumption

-----------------------------------------------------------------------------
(***************************************************************************)
(* Events.  What the fan-out wrote is compared with the audience of the    *)
(* first publication, and the abort of an unsubscription with the handlers *)
(* it must reach; both need that a dispatcher knows what it claimed and    *)
(* that a process that is gone dispatches nothing.                         *)
(***************************************************************************)
Delivery == [state : {"none", "pending", "processing", "delivered", "cancelled"}, token : Dispatchers \cup {0}, left : Nat]
Dispatching == [pc : {"idle", "claim", "claiming", "claimed", "handle", "acknowledge", "retry"},
                e : EventIds \cup {0}, s : Subs \cup {0}, ids : SUBSET Subs, aborted : BOOLEAN]
EventTypes ==
  /\ deliveries \in [EventIds -> [Subs -> Delivery]]
  /\ published \subseteq EventIds /\ audience \in [EventIds -> SUBSET Subs]
  /\ handlers \in [EventProcs -> SUBSET Subs]
  /\ dispatchers \in [Dispatchers -> Dispatching]
  /\ eventProcs \in [EventProcs -> {"open", "closing", "closed", "crashed"}]

(* A dispatcher that holds a claim knows what it is of.                    *)
ClaimIsKnown ==
  \A d \in Dispatchers : dispatchers[d].pc \in {"claimed", "handle", "acknowledge", "retry"} =>
    dispatchers[d].e \in EventIds /\ dispatchers[d].s \in Subs

(* What was not published has no audience.                                 *)
AudienceIsPublished == \A e \in EventIds : e \notin published => audience[e] = {}

(* A process that is gone dispatches nothing.                              *)
GoneIsIdle == \A d \in Dispatchers : eventProcs[ProcOf(d)] \in {"closed", "crashed"} => DAt(d, "idle")

EventInv == EventTypes /\ ClaimIsKnown /\ AudienceIsPublished /\ FanOutIsExact /\ GoneIsIdle /\ AbortReachesHandlers

USE EventAssumption

LEMMA ProcOfIs ==
  /\ \A d \in Dispatchers : ProcOf(d) \in EventProcs /\ d \in DispatchersOf[ProcOf(d)]
  /\ \A p \in EventProcs : \A d \in DispatchersOf[p] : d \in Dispatchers /\ ProcOf(d) = p
<1>1. ASSUME NEW d \in Dispatchers PROVE ProcOf(d) \in EventProcs /\ d \in DispatchersOf[ProcOf(d)]
  <2>1. \E p \in EventProcs : d \in DispatchersOf[p] BY DEF Dispatchers
  <2>. QED BY <2>1 DEF ProcOf
<1>2. ASSUME NEW p \in EventProcs, NEW d \in DispatchersOf[p] PROVE d \in Dispatchers /\ ProcOf(d) = p
  <2>1. d \in Dispatchers BY DEF Dispatchers
  <2>2. ProcOf(d) \in EventProcs /\ d \in DispatchersOf[ProcOf(d)] BY <1>1, <2>1
  <2>. QED BY <2>1, <2>2
<1>. QED BY <1>1, <1>2

LEMMA EventStarts == EventInit => EventInv
<1>. SUFFICES ASSUME EventInit PROVE EventInv OBVIOUS
<1>1. NoDelivery \in Delivery /\ NoDispatch \in Dispatching BY DEF NoDelivery, NoDispatch, Delivery, Dispatching
<1>2. EventTypes BY <1>1 DEF EventInit, EventTypes
<1>3. \A d \in Dispatchers : dispatchers[d] = NoDispatch BY DEF EventInit
<1>4. \A e \in EventIds : audience[e] = {} /\ \A s \in Subs : deliveries[e][s] = NoDelivery BY DEF EventInit
<1>5. FanOutIsExact BY <1>4 DEF FanOutIsExact, NoDelivery
<1>6. \A d \in Dispatchers : eventProcs[ProcOf(d)] = "open" BY ProcOfIs DEF EventInit
<1>. QED BY <1>2, <1>3, <1>4, <1>5, <1>6
  DEF EventInv, ClaimIsKnown, AudienceIsPublished, GoneIsIdle, AbortReachesHandlers, NoDispatch, DAt

(* Nothing is fanned out but by a first publication.                       *)
LEMMA FanOutStays ==
  ASSUME EventInv, UNCHANGED <<published, audience>>,
         \A e \in EventIds, s \in Subs : deliveries'[e][s].state = "none" <=> deliveries[e][s].state = "none"
  PROVE  FanOutIsExact' /\ AudienceIsPublished'
BY DEF EventInv, FanOutIsExact, AudienceIsPublished

(* Time, and what producers and subscribers store.                         *)
LEMMA StoreKeeps ==
  ASSUME EventInv, EventTick \/ \E e \in EventIds : Publish(e) PROVE EventInv'
<1>1. CASE EventTick
  <2>1. \A e \in EventIds, s \in Subs : deliveries[e][s] \in Delivery BY DEF EventInv, EventTypes
  <2>2. \A e \in EventIds, s \in Subs :
          deliveries'[e][s] = [deliveries[e][s] EXCEPT !.left = IF @ > 0 THEN @ - 1 ELSE 0]
    BY <1>1 DEF EventTick
  <2>4. \A e \in EventIds, s \in Subs : deliveries'[e][s] \in Delivery /\ deliveries'[e][s].state = deliveries[e][s].state
    <3>1. ASSUME NEW e \in EventIds, NEW s \in Subs
          PROVE  deliveries'[e][s] \in Delivery /\ deliveries'[e][s].state = deliveries[e][s].state
      <4>1. PICK r \in Delivery : r = deliveries[e][s] BY <2>1
      <4>2. deliveries'[e][s] = [r EXCEPT !.left = IF r.left > 0 THEN r.left - 1 ELSE 0] BY <2>2, <4>1
      <4>. QED BY <4>1, <4>2 DEF Delivery
    <3>. QED BY <3>1
  <2>5. deliveries' \in [EventIds -> [Subs -> Delivery]] BY <1>1, <2>2, <2>4 DEF EventTick
  <2>6. UNCHANGED <<published, audience, handlers, dispatchers, eventProcs>> BY <1>1 DEF EventTick
  <2>7. FanOutIsExact' /\ AudienceIsPublished' BY <2>4, <2>6, FanOutStays
  <2>. QED BY <2>5, <2>6, <2>7
    DEF EventInv, EventTypes, ClaimIsKnown, GoneIsIdle, AbortReachesHandlers, DAt, IsOpen
<1>2. ASSUME NEW e \in EventIds, Publish(e) PROVE EventInv'
  <2>0. UNCHANGED <<handlers, dispatchers, eventProcs>> /\ published' = published \cup {e} BY <1>2 DEF Publish
  <2>1. deliveries' = [deliveries EXCEPT ![e] = [s \in Subs |->
          IF s \in FansOut(e) THEN [NoDelivery EXCEPT !.state = "pending"] ELSE deliveries[e][s]]]
    BY <1>2 DEF Publish
  <2>2. [NoDelivery EXCEPT !.state = "pending"] \in Delivery /\ [NoDelivery EXCEPT !.state = "pending"].state = "pending"
    BY DEF NoDelivery, Delivery
  <2>3. deliveries' \in [EventIds -> [Subs -> Delivery]] BY <2>1, <2>2 DEF EventInv, EventTypes
  <2>4. audience' \in [EventIds -> SUBSET Subs]
    BY <1>2 DEF Publish, EventInv, EventTypes
  <2>5. AudienceIsPublished' BY <1>2, <2>0 DEF Publish, EventInv, EventTypes, AudienceIsPublished
  <2>6. FanOutIsExact'
    <3>1. CASE e \in published
      <4>1. FansOut(e) = {} BY <3>1 DEF FansOut
      <4>2. audience' = audience BY <1>2, <3>1 DEF Publish
      <4>3. \A f \in EventIds, s \in Subs : deliveries'[f][s] = deliveries[f][s]
        BY <2>1, <4>1 DEF EventInv, EventTypes
      <4>. QED BY <4>2, <4>3 DEF EventInv, FanOutIsExact
    <3>2. CASE e \notin published
      <4>1. audience' = [audience EXCEPT ![e] = FansOut(e)] BY <1>2, <3>2 DEF Publish, FansOut
      <4>2. \A s \in Subs : deliveries[e][s].state = "none"
        BY <3>2 DEF EventInv, AudienceIsPublished, FanOutIsExact
      <4>3. \A s \in Subs : deliveries'[e][s].state # "none" <=> s \in FansOut(e)
        BY <2>1, <2>2, <4>2 DEF EventInv, EventTypes
      <4>4. \A f \in EventIds : f # e => deliveries'[f] = deliveries[f] /\ audience'[f] = audience[f]
        BY <2>1, <4>1 DEF EventInv, EventTypes
      <4>5. audience'[e] = FansOut(e) BY <4>1 DEF EventInv, EventTypes
      <4>6. FansOut(e) \subseteq Subs BY DEF FansOut
      <4>7. ASSUME NEW f \in EventIds PROVE {s \in Subs : deliveries'[f][s].state # "none"} = audience'[f]
        <5>1. CASE f = e BY <4>3, <4>5, <4>6, <5>1
        <5>2. CASE f # e BY <4>4, <5>2 DEF EventInv, FanOutIsExact
        <5>. QED BY <5>1, <5>2
      <4>. QED BY <4>7 DEF FanOutIsExact
    <3>. QED BY <3>1, <3>2
  <2>. QED BY <2>0, <2>3, <2>4, <2>5, <2>6
    DEF EventInv, EventTypes, ClaimIsKnown, GoneIsIdle, AbortReachesHandlers, DAt, IsOpen
<1>. QED BY <1>1, <1>2

(* An abort changes nothing but the signal, and reaches every handler.     *)
LEMMA AbortsDo ==
  ASSUME EventTypes, NEW p \in EventProcs, NEW ids, dispatchers' = Aborts(p, ids)
  PROVE  /\ dispatchers' \in [Dispatchers -> Dispatching]
         /\ \A d \in Dispatchers : /\ dispatchers'[d].pc = dispatchers[d].pc /\ dispatchers'[d].e = dispatchers[d].e
                                   /\ dispatchers'[d].s = dispatchers[d].s
                                   /\ dispatchers[d].aborted => dispatchers'[d].aborted
                                   /\ dispatchers[d].pc = "handle" /\ ProcOf(d) = p /\ dispatchers[d].s \in ids => dispatchers'[d].aborted
<1>1. ASSUME NEW d \in Dispatchers
      PROVE  /\ dispatchers'[d] \in Dispatching
             /\ dispatchers'[d].pc = dispatchers[d].pc /\ dispatchers'[d].e = dispatchers[d].e
             /\ dispatchers'[d].s = dispatchers[d].s
             /\ dispatchers[d].aborted => dispatchers'[d].aborted
             /\ dispatchers[d].pc = "handle" /\ ProcOf(d) = p /\ dispatchers[d].s \in ids => dispatchers'[d].aborted
  <2>1. dispatchers[d] \in Dispatching BY DEF EventTypes
  <2>2. CASE d \in DispatchersOf[p] /\ DAt(d, "handle") /\ dispatchers[d].s \in ids
    <3>1. dispatchers'[d] = [dispatchers[d] EXCEPT !.aborted = TRUE] BY <2>2 DEF Aborts, DAt
    <3>. QED BY <2>1, <3>1 DEF Dispatching
  <2>3. CASE ~(d \in DispatchersOf[p] /\ DAt(d, "handle") /\ dispatchers[d].s \in ids)
    <3>1. dispatchers'[d] = dispatchers[d] BY <2>3 DEF Aborts, DAt
    <3>2. ProcOf(d) = p => d \in DispatchersOf[p] BY ProcOfIs
    <3>. QED BY <2>1, <2>3, <3>1, <3>2 DEF DAt
  <2>. QED BY <2>2, <2>3
<1>2. dispatchers' = [d \in Dispatchers |-> dispatchers'[d]] BY DEF Aborts
<1>3. dispatchers' \in [Dispatchers -> Dispatching] BY <1>1, <1>2
<1>. QED BY <1>1, <1>3

LEMMA ChangeKeeps ==
  ASSUME EventInv, NEW p \in EventProcs, NEW s \in Subs,
         Subscribe(p, s) \/ Unsubscribe(p, s) \/ ChangeStored(p, s) \/ ChangeDone(p, s) PROVE EventInv'
<1>1. CASE Subscribe(p, s) \/ Unsubscribe(p, s)
  <2>1. UNCHANGED <<deliveries, published, audience, handlers, dispatchers, eventProcs>>
    BY <1>1 DEF Subscribe, Unsubscribe, stored
  <2>. QED BY <2>1 DEF EventInv, EventTypes, ClaimIsKnown, AudienceIsPublished, FanOutIsExact, GoneIsIdle,
                       AbortReachesHandlers, DAt, IsOpen
<1>2. CASE ChangeStored(p, s)
  <2>1. UNCHANGED <<published, audience, handlers, dispatchers, eventProcs>> BY <1>2 DEF ChangeStored
  <2>2. CASE UNCHANGED deliveries
    BY <2>1, <2>2 DEF EventInv, EventTypes, ClaimIsKnown, AudienceIsPublished, FanOutIsExact, GoneIsIdle,
                       AbortReachesHandlers, DAt, IsOpen
  <2>3. CASE deliveries' = [e \in EventIds |-> [deliveries[e] EXCEPT ![s] =
                IF @.state \in {"pending", "processing"} THEN [NoDelivery EXCEPT !.state = "cancelled"] ELSE @]]
    <3>1. [NoDelivery EXCEPT !.state = "cancelled"] \in Delivery /\ [NoDelivery EXCEPT !.state = "cancelled"].state = "cancelled"
      BY DEF NoDelivery, Delivery
    <3>2. deliveries' \in [EventIds -> [Subs -> Delivery]] BY <2>3, <3>1 DEF EventInv, EventTypes
    <3>3. \A e \in EventIds, t \in Subs : deliveries'[e][t].state = "none" <=> deliveries[e][t].state = "none"
      BY <2>3, <3>1 DEF EventInv, EventTypes
    <3>4. FanOutIsExact' /\ AudienceIsPublished' BY <2>1, <3>3, FanOutStays
    <3>. QED BY <2>1, <3>2, <3>4 DEF EventInv, EventTypes, ClaimIsKnown, GoneIsIdle, AbortReachesHandlers, DAt, IsOpen
  <2>. QED BY <1>2, <2>2, <2>3 DEF ChangeStored
<1>3. CASE ChangeDone(p, s)
  <2>0. UNCHANGED <<deliveries, published, audience, eventProcs>> BY <1>3 DEF ChangeDone, stored
  <2>1. FanOutIsExact' /\ AudienceIsPublished' BY <2>0 DEF EventInv, FanOutIsExact, AudienceIsPublished
  <2>2. CASE Head(changes[p][s]) = "cancelled"
    <3>1. handlers' = [handlers EXCEPT ![p] = @ \ {s}] /\ dispatchers' = Aborts(p, {s}) BY <1>3, <2>2 DEF ChangeDone
    <3>2. EventTypes BY DEF EventInv
    <3>3. /\ dispatchers' \in [Dispatchers -> Dispatching]
          /\ \A d \in Dispatchers : /\ dispatchers'[d].pc = dispatchers[d].pc /\ dispatchers'[d].e = dispatchers[d].e
                                    /\ dispatchers'[d].s = dispatchers[d].s
                                    /\ dispatchers[d].aborted => dispatchers'[d].aborted
                                    /\ dispatchers[d].pc = "handle" /\ ProcOf(d) = p /\ dispatchers[d].s \in {s} => dispatchers'[d].aborted
      BY <3>1, <3>2, AbortsDo
    <3>4. EventTypes' BY <2>0, <3>1, <3>3 DEF EventInv, EventTypes
    <3>5. ClaimIsKnown' BY <2>0, <3>3 DEF EventInv, ClaimIsKnown
    <3>6. GoneIsIdle' BY <2>0, <3>3 DEF EventInv, GoneIsIdle, DAt
    <3>7. ASSUME NEW d \in Dispatchers
          PROVE  /\ dispatchers'[d].pc = "handle" /\ (eventProcs'[ProcOf(d)] # "open" \/ dispatchers'[d].s \notin handlers'[ProcOf(d)])
                    => dispatchers'[d].aborted
                 /\ eventProcs'[ProcOf(d)] = "closed" => dispatchers'[d].pc = "idle"
      <4>1. ProcOf(d) \in EventProcs BY ProcOfIs
      <4>2. ProcOf(d) # p => handlers'[ProcOf(d)] = handlers[ProcOf(d)] BY <3>1, <4>1 DEF EventInv, EventTypes
      <4>3. ProcOf(d) = p => handlers'[ProcOf(d)] = handlers[ProcOf(d)] \ {s} BY <3>1, <4>1 DEF EventInv, EventTypes
      <4>4. /\ dispatchers[d].pc = "handle" /\ (eventProcs[ProcOf(d)] # "open" \/ dispatchers[d].s \notin handlers[ProcOf(d)])
               => dispatchers[d].aborted
            /\ eventProcs[ProcOf(d)] = "closed" => dispatchers[d].pc = "idle"
        BY DEF EventInv, AbortReachesHandlers, DAt, IsOpen
      <4>5. /\ dispatchers'[d].pc = dispatchers[d].pc /\ dispatchers'[d].s = dispatchers[d].s
            /\ dispatchers[d].aborted => dispatchers'[d].aborted
            /\ dispatchers[d].pc = "handle" /\ ProcOf(d) = p /\ dispatchers[d].s = s => dispatchers'[d].aborted
        BY <3>3 DEF DAt
      <4>. QED BY <2>0, <4>2, <4>3, <4>4, <4>5
    <3>8. AbortReachesHandlers' BY <3>7 DEF AbortReachesHandlers, DAt, IsOpen
    <3>. QED BY <2>1, <3>4, <3>5, <3>6, <3>8 DEF EventInv
  <2>3. CASE Head(changes[p][s]) # "cancelled"
    <3>1. dispatchers' = dispatchers /\ handlers' \in {handlers, [handlers EXCEPT ![p] = @ \cup {s}]}
      BY <1>3, <2>3 DEF ChangeDone, EventInv, EventTypes
    <3>2. EventTypes' BY <2>0, <3>1 DEF EventInv, EventTypes
    <3>3. \A q \in EventProcs : handlers[q] \subseteq handlers'[q] BY <3>1 DEF EventInv, EventTypes
    <3>4. AbortReachesHandlers' BY <2>0, <3>1, <3>3, ProcOfIs DEF EventInv, AbortReachesHandlers, DAt, IsOpen
    <3>. QED BY <2>0, <2>1, <3>1, <3>2, <3>4 DEF EventInv, ClaimIsKnown, GoneIsIdle, DAt
  <2>. QED BY <2>2, <2>3
<1>. QED BY <1>1, <1>2, <1>3

(* A step of one dispatcher, by what it may do to itself.                  *)
LEMMA DispatcherMoves ==
  ASSUME EventInv, NEW d \in Dispatchers, NEW r \in Dispatching, dispatchers' = [dispatchers EXCEPT ![d] = r],
         UNCHANGED <<handlers, eventProcs>>,
         r.pc \in {"claimed", "handle", "acknowledge", "retry"} => r.e \in EventIds /\ r.s \in Subs,
         r.pc = "handle" => IsOpen(ProcOf(d)) /\ r.s \in handlers[ProcOf(d)],
         r.pc # "idle" => ~DAt(d, "idle") \/ IsOpen(ProcOf(d))
  PROVE  /\ dispatchers' \in [Dispatchers -> Dispatching]
         /\ ClaimIsKnown' /\ GoneIsIdle' /\ AbortReachesHandlers'
<1>1. dispatchers' \in [Dispatchers -> Dispatching] BY DEF EventInv, EventTypes
<1>2. \A c \in Dispatchers : dispatchers'[c] = IF c = d THEN r ELSE dispatchers[c] BY DEF EventInv, EventTypes
<1>3. ClaimIsKnown' BY <1>2 DEF EventInv, ClaimIsKnown
<1>4. eventProcs[ProcOf(d)] \in {"closed", "crashed"} => r.pc = "idle" BY DEF EventInv, GoneIsIdle, IsOpen
<1>5. GoneIsIdle' BY <1>2, <1>4 DEF EventInv, GoneIsIdle, DAt
<1>6. AbortReachesHandlers'
  <2>1. ASSUME NEW c \in Dispatchers
        PROVE  /\ dispatchers'[c].pc = "handle" /\ (~IsOpen(ProcOf(c))' \/ dispatchers'[c].s \notin handlers'[ProcOf(c)])
                  => dispatchers'[c].aborted
               /\ eventProcs'[ProcOf(c)] = "closed" => dispatchers'[c].pc = "idle"
    <3>1. CASE c = d BY <1>2, <1>4, <3>1 DEF IsOpen
    <3>2. CASE c # d BY <1>2, <3>2 DEF EventInv, AbortReachesHandlers, DAt, IsOpen
    <3>. QED BY <3>1, <3>2
  <2>. QED BY <2>1 DEF AbortReachesHandlers, DAt, IsOpen
<1>. QED BY <1>1, <1>3, <1>5, <1>6

LEMMA DispatchKeeps == ASSUME EventInv, NEW d \in Dispatchers, DispatchStep(d) PROVE EventInv'
<1>0. dispatchers[d] \in Dispatching /\ ProcOf(d) \in EventProcs /\ NoDispatch \in Dispatching
  BY ProcOfIs DEF EventInv, EventTypes, NoDispatch, Dispatching
<1>1. UNCHANGED <<published, audience, handlers, eventProcs>>
  BY DEF DispatchStep, Dispatch, ClaimSent, Claim, Claimed, Handled, Answer, stored
<1>2. ASSUME UNCHANGED deliveries,
             dispatchers' \in [Dispatchers -> Dispatching] /\ ClaimIsKnown' /\ GoneIsIdle' /\ AbortReachesHandlers'
      PROVE  EventInv'
  BY <1>1, <1>2 DEF EventInv, EventTypes, AudienceIsPublished, FanOutIsExact
<1>3. ASSUME NEW r \in Dispatching, dispatchers' = [dispatchers EXCEPT ![d] = r],
             r.pc \in {"claimed", "handle", "acknowledge", "retry"} => r.e \in EventIds /\ r.s \in Subs,
             r.pc = "handle" => IsOpen(ProcOf(d)) /\ r.s \in handlers[ProcOf(d)],
             r.pc # "idle" => ~DAt(d, "idle") \/ IsOpen(ProcOf(d))
      PROVE  dispatchers' \in [Dispatchers -> Dispatching] /\ ClaimIsKnown' /\ GoneIsIdle' /\ AbortReachesHandlers'
  BY <1>1, <1>3, DispatcherMoves
<1>5. CASE Dispatch(d)
  <2>1. dispatchers' = [dispatchers EXCEPT ![d] = [dispatchers[d] EXCEPT !.pc = "claim"]] BY <1>5 DEF Dispatch
  <2>2. [dispatchers[d] EXCEPT !.pc = "claim"] \in Dispatching /\ [dispatchers[d] EXCEPT !.pc = "claim"].pc = "claim"
    BY <1>0 DEF Dispatching
  <2>3. IsOpen(ProcOf(d)) BY <1>5 DEF Dispatch
  <2>. QED BY <1>2, <1>3, <1>5, <2>1, <2>2, <2>3 DEF Dispatch, stored
<1>6. CASE ClaimSent(d)
  <2>1. dispatchers' = [dispatchers EXCEPT ![d] = [dispatchers[d] EXCEPT !.pc = "claiming", !.ids = handlers[ProcOf(d)]]]
    BY <1>6 DEF ClaimSent
  <2>2. handlers[ProcOf(d)] \subseteq Subs BY <1>0 DEF EventInv, EventTypes
  <2>3. LET r == [dispatchers[d] EXCEPT !.pc = "claiming", !.ids = handlers[ProcOf(d)]] IN r \in Dispatching /\ r.pc = "claiming"
    BY <1>0, <2>2 DEF Dispatching
  <2>4. ~DAt(d, "idle") BY <1>6 DEF ClaimSent, DAt
  <2>. QED BY <1>2, <1>3, <1>6, <2>1, <2>3, <2>4 DEF ClaimSent, stored
<1>7. CASE Claim(d)
  <2>0. ~DAt(d, "idle") BY <1>7 DEF Claim, DAt
  <2>1. CASE dispatchers' = [dispatchers EXCEPT ![d] = NoDispatch] /\ UNCHANGED deliveries
    <3>1. NoDispatch.pc = "idle" BY DEF NoDispatch
    <3>. QED BY <1>0, <1>2, <1>3, <2>1, <3>1
  <2>2. ASSUME NEW e \in EventIds, NEW s \in dispatchers[d].ids, Claimable(e, s),
               deliveries' = [deliveries EXCEPT ![e][s] = [state |-> "processing", token |-> d, left |-> EventLease]],
               dispatchers' = [dispatchers EXCEPT ![d] = [NoDispatch EXCEPT !.pc = "claimed", !.e = e, !.s = s]]
        PROVE EventInv'
    <3>1. s \in Subs BY <1>0 DEF Dispatching
    <3>2. LET r == [NoDispatch EXCEPT !.pc = "claimed", !.e = e, !.s = s]
          IN r \in Dispatching /\ r.pc = "claimed" /\ r.e = e /\ r.s = s
      BY <3>1 DEF NoDispatch, Dispatching
    <3>3. dispatchers' \in [Dispatchers -> Dispatching] /\ ClaimIsKnown' /\ GoneIsIdle' /\ AbortReachesHandlers'
      BY <1>3, <2>0, <2>2, <3>1, <3>2
    <3>4. [state |-> "processing", token |-> d, left |-> EventLease] \in Delivery BY DEF Delivery
    <3>5. deliveries' \in [EventIds -> [Subs -> Delivery]] BY <2>2, <3>1, <3>4 DEF EventInv, EventTypes
    <3>6. deliveries[e][s].state # "none" BY <2>2 DEF Claimable
    <3>7. \A f \in EventIds, t \in Subs : deliveries'[f][t].state = "none" <=> deliveries[f][t].state = "none"
      BY <2>2, <3>1, <3>6 DEF EventInv, EventTypes
    <3>8. FanOutIsExact' /\ AudienceIsPublished' BY <1>1, <3>7, FanOutStays
    <3>. QED BY <1>1, <3>3, <3>5, <3>8 DEF EventInv, EventTypes
  <2>. QED BY <1>7, <2>1, <2>2 DEF Claim
<1>8. CASE Claimed(d)
  <2>0. ~DAt(d, "idle") /\ UNCHANGED deliveries BY <1>8 DEF Claimed, DAt, stored
  <2>1. CASE MayHandle(d) /\ dispatchers' = [dispatchers EXCEPT ![d].pc = "handle"]
    <3>1. LET r == [dispatchers[d] EXCEPT !.pc = "handle"]
          IN r \in Dispatching /\ r.pc = "handle" /\ r.e = dispatchers[d].e /\ r.s = dispatchers[d].s
      BY <1>0 DEF Dispatching
    <3>2. dispatchers[d].e \in EventIds /\ dispatchers[d].s \in Subs BY <1>8 DEF Claimed, DAt, EventInv, ClaimIsKnown
    <3>3. dispatchers' = [dispatchers EXCEPT ![d] = [dispatchers[d] EXCEPT !.pc = "handle"]] BY <2>1
    <3>. QED BY <1>2, <1>3, <2>0, <2>1, <3>1, <3>2, <3>3 DEF MayHandle
  <2>2. CASE NextTurn(d)
    <3>1. PICK pc \in {"claim", "idle"} : dispatchers' = [dispatchers EXCEPT ![d] = [NoDispatch EXCEPT !.pc = pc]]
      BY <2>2 DEF NextTurn
    <3>2. [NoDispatch EXCEPT !.pc = pc] \in Dispatching /\ [NoDispatch EXCEPT !.pc = pc].pc = pc BY DEF NoDispatch, Dispatching
    <3>. QED BY <1>2, <1>3, <2>0, <3>1, <3>2
  <2>. QED BY <1>8, <2>1, <2>2 DEF Claimed
<1>9. CASE Handled(d)
  <2>1. PICK pc \in {"acknowledge", "retry"} : dispatchers' = [dispatchers EXCEPT ![d] = [dispatchers[d] EXCEPT !.pc = pc]]
    BY <1>9 DEF Handled
  <2>2. LET r == [dispatchers[d] EXCEPT !.pc = pc]
        IN r \in Dispatching /\ r.pc = pc /\ r.e = dispatchers[d].e /\ r.s = dispatchers[d].s
    BY <1>0 DEF Dispatching
  <2>3. dispatchers[d].e \in EventIds /\ dispatchers[d].s \in Subs /\ ~DAt(d, "idle") BY <1>9 DEF Handled, DAt, EventInv, ClaimIsKnown
  <2>. QED BY <1>2, <1>3, <1>9, <2>1, <2>2, <2>3 DEF Handled, stored
<1>10. CASE Answer(d)
  <2>0. ~DAt(d, "idle") /\ NextTurn(d) BY <1>10 DEF Answer, DAt
  <2>1. dispatchers' \in [Dispatchers -> Dispatching] /\ ClaimIsKnown' /\ GoneIsIdle' /\ AbortReachesHandlers'
    <3>1. PICK pc \in {"claim", "idle"} : dispatchers' = [dispatchers EXCEPT ![d] = [NoDispatch EXCEPT !.pc = pc]]
      BY <2>0 DEF NextTurn
    <3>2. [NoDispatch EXCEPT !.pc = pc] \in Dispatching /\ [NoDispatch EXCEPT !.pc = pc].pc = pc BY DEF NoDispatch, Dispatching
    <3>. QED BY <1>3, <2>0, <3>1, <3>2
  <2>2. CASE UNCHANGED deliveries BY <1>2, <2>1, <2>2
  <2>3. ASSUME NEW e \in EventIds, NEW s \in Subs, deliveries[e][s].state = "processing", NEW r \in Delivery, r.state # "none",
               deliveries' = [deliveries EXCEPT ![e][s] = r]
        PROVE  EventInv'
    <3>1. deliveries' \in [EventIds -> [Subs -> Delivery]] BY <2>3 DEF EventInv, EventTypes
    <3>2. \A f \in EventIds, t \in Subs : deliveries'[f][t].state = "none" <=> deliveries[f][t].state = "none"
      BY <2>3 DEF EventInv, EventTypes
    <3>3. FanOutIsExact' /\ AudienceIsPublished' BY <1>1, <3>2, FanOutStays
    <3>. QED BY <1>1, <2>1, <3>1, <3>3 DEF EventInv, EventTypes
  <2>4. dispatchers[d].e \in EventIds /\ dispatchers[d].s \in Subs BY <1>10 DEF Answer, EventInv, ClaimIsKnown
  <2>5. /\ [NoDelivery EXCEPT !.state = "pending", !.left = RetryDelay] \in Delivery
        /\ [NoDelivery EXCEPT !.state = "pending", !.left = RetryDelay].state = "pending"
        /\ [NoDelivery EXCEPT !.state = "delivered"] \in Delivery /\ [NoDelivery EXCEPT !.state = "delivered"].state = "delivered"
    BY DEF NoDelivery, Delivery
  <2>6. CASE deliveries' # deliveries
    <3>1. PICK r \in Delivery : /\ r.state # "none" /\ deliveries[dispatchers[d].e][dispatchers[d].s].state = "processing"
                                /\ deliveries' = [deliveries EXCEPT ![dispatchers[d].e][dispatchers[d].s] = r]
      BY <1>10, <2>5, <2>6 DEF Answer
    <3>. QED BY <2>3, <2>4, <3>1
  <2>. QED BY <2>2, <2>6
<1>. QED BY <1>5, <1>6, <1>7, <1>8, <1>9, <1>10 DEF DispatchStep

LEMMA ProcessEnds == ASSUME EventInv, NEW p \in EventProcs, Close(p) \/ Closed(p) \/ Crash(p) PROVE EventInv'
<1>0. EventTypes BY DEF EventInv
<1>1. UNCHANGED <<deliveries, published, audience>> BY DEF Close, Closed, Crash, stored
<1>2. FanOutIsExact' /\ AudienceIsPublished' BY <1>1 DEF EventInv, FanOutIsExact, AudienceIsPublished
<1>3. \A d \in Dispatchers : d \in DispatchersOf[p] <=> ProcOf(d) = p BY ProcOfIs
<1>4. CASE Close(p)
  <2>1. eventProcs' = [eventProcs EXCEPT ![p] = "closing"] /\ dispatchers' = Aborts(p, Subs) /\ handlers' = handlers
        /\ eventProcs[p] = "open"
    BY <1>4 DEF Close, IsOpen
  <2>2. /\ dispatchers' \in [Dispatchers -> Dispatching]
        /\ \A d \in Dispatchers : /\ dispatchers'[d].pc = dispatchers[d].pc /\ dispatchers'[d].e = dispatchers[d].e
                                  /\ dispatchers'[d].s = dispatchers[d].s
                                  /\ dispatchers[d].aborted => dispatchers'[d].aborted
                                  /\ dispatchers[d].pc = "handle" /\ ProcOf(d) = p /\ dispatchers[d].s \in Subs => dispatchers'[d].aborted
    BY <1>0, <2>1, AbortsDo
  <2>3. EventTypes' BY <1>1, <2>1, <2>2 DEF EventInv, EventTypes
  <2>4. ClaimIsKnown' BY <2>2 DEF EventInv, ClaimIsKnown
  <2>5. \A q \in EventProcs : eventProcs'[q] = IF q = p THEN "closing" ELSE eventProcs[q] BY <1>0, <2>1 DEF EventTypes
  <2>6. GoneIsIdle' BY <2>2, <2>5, ProcOfIs DEF EventInv, GoneIsIdle, DAt
  <2>7. ASSUME NEW d \in Dispatchers
        PROVE  /\ dispatchers'[d].pc = "handle" /\ (eventProcs'[ProcOf(d)] # "open" \/ dispatchers'[d].s \notin handlers'[ProcOf(d)])
                  => dispatchers'[d].aborted
               /\ eventProcs'[ProcOf(d)] = "closed" => dispatchers'[d].pc = "idle"
    <3>1. /\ dispatchers[d].pc = "handle" /\ (eventProcs[ProcOf(d)] # "open" \/ dispatchers[d].s \notin handlers[ProcOf(d)])
             => dispatchers[d].aborted
          /\ eventProcs[ProcOf(d)] = "closed" => dispatchers[d].pc = "idle"
          /\ dispatchers[d].pc = "handle" => dispatchers[d].s \in Subs
      BY DEF EventInv, AbortReachesHandlers, ClaimIsKnown, DAt, IsOpen
    <3>2. eventProcs'[ProcOf(d)] = IF ProcOf(d) = p THEN "closing" ELSE eventProcs[ProcOf(d)] BY <2>5, ProcOfIs
    <3>3. /\ dispatchers'[d].pc = dispatchers[d].pc /\ dispatchers'[d].s = dispatchers[d].s
          /\ dispatchers[d].aborted => dispatchers'[d].aborted
          /\ dispatchers[d].pc = "handle" /\ ProcOf(d) = p /\ dispatchers[d].s \in Subs => dispatchers'[d].aborted
      BY <2>2 DEF DAt
    <3>. QED BY <2>1, <3>1, <3>2, <3>3
  <2>8. AbortReachesHandlers' BY <2>7 DEF AbortReachesHandlers, DAt, IsOpen
  <2>. QED BY <1>2, <2>3, <2>4, <2>6, <2>8 DEF EventInv
<1>5. CASE Closed(p) \/ Crash(p)
  <2>1. PICK state \in {"closed", "crashed"} :
          eventProcs' = [eventProcs EXCEPT ![p] = state] /\ handlers' = [handlers EXCEPT ![p] = {}]
    BY <1>5 DEF Closed, Crash
  <2>2. \A d \in Dispatchers : dispatchers'[d] = IF ProcOf(d) = p THEN dispatchers'[d] ELSE dispatchers[d]
    BY <1>3, <1>5 DEF Closed, Crash
  <2>3. \A d \in Dispatchers : ProcOf(d) = p => dispatchers'[d].pc = "idle"
    BY <1>3, <1>5 DEF Closed, Crash, DAt, NoDispatch
  <2>4. dispatchers' \in [Dispatchers -> Dispatching]
    <3>1. NoDispatch \in Dispatching BY DEF NoDispatch, Dispatching
    <3>. QED BY <1>0, <1>5, <3>1 DEF Closed, Crash, EventTypes
  <2>5. EventTypes' BY <1>0, <1>1, <2>1, <2>4 DEF EventTypes
  <2>6. \A q \in EventProcs : q # p => eventProcs'[q] = eventProcs[q] /\ handlers'[q] = handlers[q] BY <1>0, <2>1 DEF EventTypes
  <2>7. ClaimIsKnown' BY <2>2, <2>3 DEF EventInv, ClaimIsKnown
  <2>8. GoneIsIdle' BY <2>2, <2>3, <2>6, ProcOfIs DEF EventInv, GoneIsIdle, DAt
  <2>9. AbortReachesHandlers' BY <2>2, <2>3, <2>6, ProcOfIs DEF EventInv, AbortReachesHandlers, DAt, IsOpen
  <2>. QED BY <1>2, <2>5, <2>7, <2>8, <2>9 DEF EventInv
<1>. QED BY <1>4, <1>5

LEMMA EventStep == EventInv /\ [EventNext]_eventVars => EventInv'
<1>. SUFFICES ASSUME EventInv, [EventNext]_eventVars PROVE EventInv' OBVIOUS
<1>1. CASE UNCHANGED eventVars
  BY <1>1 DEF eventVars, stored, EventInv, EventTypes, ClaimIsKnown, AudienceIsPublished, FanOutIsExact, GoneIsIdle,
              AbortReachesHandlers, DAt, IsOpen
<1>2. CASE EventNext BY <1>2, StoreKeeps, ChangeKeeps, DispatchKeeps, ProcessEnds DEF EventNext
<1>. QED BY <1>1, <1>2

(* An event is fanned out to exactly the subscriptions active when it was  *)
(* first published, and whatever handler should not run has been told, for *)
(* any number of processes, dispatchers, events and subscriptions.         *)
THEOREM EventsAreAlwaysSound == EventSpec => []EventsAreSound
<1>1. EventInv => EventsAreSound BY DEF EventInv, EventsAreSound
<1>. QED BY <1>1, EventStarts, EventStep, PTL DEF EventSpec

HIDE EventAssumption

-----------------------------------------------------------------------------
(***************************************************************************)
(* Notifications.  A record is compared with the provider through the      *)
(* senders that read it: what a sender knows is true until the record's    *)
(* revision moves (Reads, Owns), a first attempt that still owns the       *)
(* record is alone at the provider (Alone), and every request reaches it   *)
(* within the window (InWindow).                                           *)
(***************************************************************************)
NoteStates == {"none", "pending", "suppressed", "sending", "unknown", "failed", "accepted", "delivered"}
NoteRecord == [state : NoteStates, rev : Nat, count : Nat, first : Nat, until : Nat, retryable : BOOLEAN, jobId : BOOLEAN]
SenderPcs == {"idle", "get", "expire", "window", "giveup", "suppress", "claim", "check", "send", "finish"}
SenderRecord == [pc : SenderPcs, n : Notes \cup {0}, own : Int, rec : NoteRecord, now : Int, uncertain : BOOLEAN,
                 out : {"none", "accepted", "failed", "unknown"}, again : BOOLEAN]
JobRecord == [state : {"none", "pending", "running", "failed", "done"}, left : Int]
Request == [n : Notes, of : Nat, by : Int]

NoteTypes == /\ noteClock \in Nat /\ notes \in [Notes -> NoteRecord]
             /\ \A n \in Notes : notes[n].state = "none" => ~notes[n].retryable
             /\ noteJobs \in [Notes -> JobRecord]
             /\ senders \in [Senders -> SenderRecord]
             /\ wire \subseteq Request /\ mailed \in [Notes -> Seq(Nat)]

Reading == {"expire", "window", "giveup", "suppress", "claim"}
AtWire == {"check", "send"}

(* What a sender that has read the record knows of it.                     *)
Reads(x) ==
  x.pc \in Reading =>
    /\ x.rec.rev <= notes[x.n].rev
    /\ x.rec.rev = notes[x.n].rev => x.rec.state = notes[x.n].state /\ x.rec.first = notes[x.n].first
    /\ x.rec.state \in IF x.pc = "expire" THEN {"sending"} ELSE {"pending", "failed", "unknown"}
    /\ x.pc = "claim" => /\ x.now > 0 /\ x.now <= noteClock /\ ~TooLate(x.rec, x.now)
                         /\ x.uncertain = (x.rec.state = "unknown")

(* What a sender that has claimed it knows.                                *)
Owns(x) ==
  x.pc \in AtWire \cup {"finish"} =>
    /\ x.rec.rev <= notes[x.n].rev
    /\ x.rec.first > 0 /\ x.rec.first = notes[x.n].first
    /\ x.pc = "check" => x.rec.until + NoteSkew + NoteLatency < x.rec.first + NoteWindow
    /\ x.pc = "finish" => x.out # "none" /\ (x.out = "accepted" => mailed[x.n] # << >>)

SenderOk(x) == /\ x.pc # "idle" => x.n \in Notes
               /\ Reads(x) /\ Owns(x)

(* A first attempt that still owns the record is the only one that can     *)
(* have reached the provider.                                              *)
Unsent(n) == mailed[n] = << >> /\ \A w \in wire : w.n # n
Alone(s) ==
  LET x == senders[s]
  IN x.pc \in AtWire \cup {"finish"} /\ ~x.uncertain /\ x.rec.rev = notes[x.n].rev =>
       /\ \A c \in Senders : c # s /\ senders[c].n = x.n => senders[c].pc \notin AtWire
       /\ x.pc = "check" \/ (x.pc = "finish" /\ x.out = "failed") => Unsent(x.n)
       /\ x.pc = "send" => \A w \in wire : w.n = x.n => mailed[x.n] = << >> /\ \A v \in wire : v.n = x.n => v = w

(* Once a request may have gone out the record does not deny it.           *)
Untouched(n) == Unsent(n) /\ \A s \in Senders : senders[s].n = n => senders[s].pc \notin AtWire
Denies == {"none", "pending", "suppressed", "failed"}
NothingDenied == \A n \in Notes : notes[n].state \in Denies => Untouched(n)
NothingInvented == \A n \in Notes : notes[n].state \in {"accepted", "delivered"} => mailed[n] # << >>

(* Every request arrives while the provider remembers the first one.       *)
InWindow ==
  /\ NoteSkew < noteClock
  /\ \A n \in Notes : /\ notes[n].first <= noteClock /\ Len(mailed[n]) <= 1
                      /\ mailed[n] # << >> => notes[n].first > 0 /\ mailed[n][1] >= notes[n].first
  /\ \A w \in wire : /\ notes[w.n].first > 0
                     /\ w.by + NoteLatency < notes[w.n].first + NoteWindow
                     /\ noteClock <= w.by + NoteLatency

NoteInv == /\ NoteTypes /\ InWindow /\ NothingDenied /\ NothingInvented
           /\ \A s \in Senders : SenderOk(senders[s]) /\ Alone(s)

USE NotificationAssumption

LEMMA NoteStarts == NoteInit => NoteInv
<1>. SUFFICES ASSUME NoteInit PROVE NoteInv OBVIOUS
<1>1. NoNote \in NoteRecord BY DEF NoNote, NoteRecord, NoteStates
<1>2. NoSender \in SenderRecord BY <1>1 DEF NoSender, SenderRecord, SenderPcs
<1>3. NoteTypes
  <2>1. << >> \in Seq(Nat) OBVIOUS
  <2>2. [state |-> "none", left |-> TaskAttempts] \in JobRecord BY DEF JobRecord
  <2>3. notes = [n \in Notes |-> NoNote] /\ ~NoNote.retryable BY DEF NoteInit, NoNote
  <2>. QED BY <1>1, <1>2, <2>1, <2>2, <2>3 DEF NoteInit, NoteTypes
<1>4. \A n \in Notes : notes[n] = NoNote /\ mailed[n] = << >> BY DEF NoteInit
<1>5. \A s \in Senders : senders[s] = NoSender BY DEF NoteInit
<1>6. noteClock = NoteSkew + 1 /\ wire = {} BY DEF NoteInit
<1>7. InWindow BY <1>4, <1>6 DEF InWindow, NoNote
<1>8. NothingDenied /\ NothingInvented
  BY <1>4, <1>5, <1>6 DEF NothingDenied, NothingInvented, Untouched, Unsent, NoNote, NoSender, AtWire
<1>9. \A s \in Senders : SenderOk(senders[s]) /\ Alone(s)
  BY <1>5 DEF SenderOk, Alone, Reads, Owns, NoSender, Reading, AtWire
<1>. QED BY <1>3, <1>7, <1>8, <1>9 DEF NoteInv

(* What the records of idle senders and of deliveries just begun require.  *)
LEMMA RestsOk ==
  ASSUME NEW x \in SenderRecord, x.pc \in {"idle", "get"}, x.pc # "idle" => x.n \in Notes PROVE SenderOk(x)
BY DEF SenderOk, Reads, Owns, Reading, AtWire

(* A sender goes on by itself, and not towards the provider.               *)
LEMMA SenderMoves ==
  ASSUME NoteInv, NEW s \in Senders, NEW x \in SenderRecord, NoteTypes', SenderOk(x), x.pc \notin AtWire,
         senders' = [senders EXCEPT ![s] = x], UNCHANGED <<noteClock, notes, wire, mailed>>,
         x.pc = "finish" => /\ senders[s].pc \in AtWire /\ x.n = senders[s].n /\ x.rec = senders[s].rec
                            /\ x.uncertain = senders[s].uncertain /\ (x.out = "failed" => senders[s].pc = "check")
  PROVE  NoteInv'
<1>1. \A c \in Senders : senders'[c] = IF c = s THEN x ELSE senders[c] BY DEF NoteInv, NoteTypes
<1>2. InWindow' /\ NothingInvented' BY DEF NoteInv, InWindow, NothingInvented
<1>3. \A n \in Notes : Untouched(n) => Untouched(n)' BY <1>1 DEF Untouched, Unsent
<1>4. NothingDenied' BY <1>3 DEF NoteInv, NothingDenied
<1>5. ASSUME NEW c \in Senders PROVE SenderOk(senders[c])'
  <2>1. CASE c = s BY <1>1, <2>1 DEF SenderOk, Reads, Owns
  <2>2. CASE c # s BY <1>1, <2>2 DEF NoteInv, SenderOk, Reads, Owns
  <2>. QED BY <2>1, <2>2
<1>6. ASSUME NEW c \in Senders PROVE Alone(c)'
  <2>1. CASE c = s /\ x.pc = "finish"
    <3>1. Alone(s) BY DEF NoteInv
    <3>2. senders'[s] = x BY <1>1
    <3>3. ASSUME ~x.uncertain, x.rec.rev = notes[x.n].rev
          PROVE /\ \A d \in Senders : d # s /\ senders'[d].n = x.n => senders'[d].pc \notin AtWire
                /\ x.out = "failed" => Unsent(x.n)
      BY <1>1, <2>1, <3>1, <3>3 DEF Alone
    <3>. QED BY <2>1, <3>2, <3>3 DEF Alone, Unsent, AtWire
  <2>2. CASE c = s /\ x.pc # "finish" BY <1>1, <2>2 DEF Alone
  <2>3. CASE c # s
    <3>1. Alone(c) /\ senders'[c] = senders[c] BY <1>1, <2>3 DEF NoteInv
    <3>. QED BY <1>1, <3>1 DEF Alone, Unsent
  <2>. QED BY <2>1, <2>2, <2>3
<1>. QED BY <1>2, <1>4, <1>5, <1>6 DEF NoteInv

(* A sender saves the record it has read, which nobody has saved since.    *)
LEMMA SenderSaves ==
  ASSUME NoteInv, NEW s \in Senders, NEW x \in SenderRecord, NEW n \in Notes, NEW m \in NoteRecord, NoteTypes',
         senders[s].n = n, senders[s].pc \notin AtWire,
         notes' = [notes EXCEPT ![n] = m], senders' = [senders EXCEPT ![s] = x], UNCHANGED <<noteClock, wire, mailed>>,
         m.rev = notes[n].rev + 1,
         m.first = notes[n].first \/ (notes[n].first = 0 /\ m.first > 0 /\ m.first <= noteClock),
         m.state \in Denies => Untouched(n),
         m.state \in {"accepted", "delivered"} => mailed[n] # << >>,
         \/ x.pc = "idle"
         \/ /\ x.n = n /\ x.rec.rev = m.rev /\ x.rec.state = m.state /\ x.rec.first = m.first
            /\ \/ x.pc = "window" /\ m.state = "unknown"
               \/ /\ x.pc = "check" /\ m.state = "sending" /\ m.first > 0
                  /\ x.rec.until + NoteSkew + NoteLatency < m.first + NoteWindow
                  /\ ~x.uncertain => Untouched(n)
  PROVE  NoteInv'
<1>0. NoteTypes /\ InWindow BY DEF NoteInv
<1>1. /\ \A c \in Senders : senders'[c] = IF c = s THEN x ELSE senders[c]
      /\ \A k \in Notes : notes'[k] = IF k = n THEN m ELSE notes[k]
  BY <1>0 DEF NoteTypes
<1>2. \A k \in Notes : notes[k].first > 0 => notes'[k].first = notes[k].first
  BY <1>0, <1>1 DEF NoteTypes, NoteRecord
<1>3. InWindow'
  <2>1. \A w \in wire : w.n \in Notes BY <1>0 DEF NoteTypes, Request
  <2>2. \A k \in Notes : notes'[k].first <= noteClock BY <1>0, <1>1 DEF InWindow
  <2>. QED BY <1>0, <1>2, <2>1, <2>2 DEF InWindow
<1>4. NothingInvented' BY <1>1 DEF NoteInv, NothingInvented
<1>5. ASSUME NEW k \in Notes, Untouched(k), notes'[k].state \in Denies PROVE Untouched(k)'
  <2>1. x.pc = "check" => k # n BY <1>1, <1>5 DEF Denies
  <2>2. x.pc \in AtWire => x.pc = "check" /\ x.n = n BY DEF AtWire
  <2>. QED BY <1>1, <1>5, <2>1, <2>2 DEF Untouched, Unsent
<1>6. NothingDenied' BY <1>1, <1>5 DEF NoteInv, NothingDenied
<1>7. ASSUME NEW c \in Senders PROVE SenderOk(senders[c])'
  <2>1. CASE c = s
    <3>1. senders'[c] = x BY <1>1, <2>1
    <3>2. CASE x.pc = "idle" BY <3>1, <3>2 DEF SenderOk, Reads, Owns, Reading, AtWire
    <3>3. CASE x.pc = "window" /\ x.n = n
      BY <1>1, <3>1, <3>3 DEF SenderOk, Reads, Owns, Reading, AtWire, NoteRecord, SenderRecord
    <3>4. CASE x.pc = "check" /\ x.n = n
      BY <1>1, <3>1, <3>4, SMTT(30) DEF SenderOk, Reads, Owns, Reading, AtWire, NoteRecord, SenderRecord
    <3>. QED BY <3>2, <3>3, <3>4
  <2>2. CASE c # s
    <3>1. senders'[c] = senders[c] /\ SenderOk(senders[c]) /\ senders[c] \in SenderRecord
      BY <1>0, <1>1, <2>2 DEF NoteInv, NoteTypes
    <3>2. CASE senders[c].pc = "idle" \/ senders[c].pc = "get"
      BY <3>1, <3>2 DEF SenderOk, Reads, Owns, Reading, AtWire
    <3>3. CASE senders[c].n \in Notes
      <4>1. notes[senders[c].n] \in NoteRecord BY <1>0, <3>3 DEF NoteTypes
      <4>2. notes[n] \in NoteRecord BY <1>0 DEF NoteTypes
      <4>3. \/ notes'[senders[c].n] = notes[senders[c].n]
            \/ notes'[senders[c].n].rev = notes[senders[c].n].rev + 1
        BY <1>1, <3>3
      <4>4. Reads(senders[c])'
        <5>1. CASE senders[c].pc \in Reading
          <6>1. senders[c].rec.rev <= notes[senders[c].n].rev /\ senders[c].rec.rev \in Nat /\ notes[senders[c].n].rev \in Nat
            BY <3>1, <4>1, <5>1 DEF SenderOk, Reads, SenderRecord, NoteRecord
          <6>. QED BY <3>1, <4>3, <5>1, <6>1 DEF SenderOk, Reads
        <5>2. CASE senders[c].pc \notin Reading BY <3>1, <5>2 DEF Reads
        <5>. QED BY <5>1, <5>2
      <4>5. Owns(senders[c])'
        <5>1. CASE senders[c].pc \in AtWire \cup {"finish"}
          <6>1. senders[c].rec.rev <= notes[senders[c].n].rev /\ senders[c].rec.rev \in Nat /\ notes[senders[c].n].rev \in Nat
                /\ notes[senders[c].n].first > 0
            BY <3>1, <4>1, <5>1 DEF SenderOk, Owns, SenderRecord, NoteRecord
          <6>2. notes'[senders[c].n].first = notes[senders[c].n].first BY <1>2, <3>3, <6>1
          <6>. QED BY <3>1, <4>3, <5>1, <6>1, <6>2 DEF SenderOk, Owns
        <5>2. CASE senders[c].pc \notin AtWire \cup {"finish"} BY <3>1, <5>2 DEF Owns
        <5>. QED BY <5>1, <5>2
      <4>. QED BY <3>1, <3>3, <4>4, <4>5 DEF SenderOk
    <3>. QED BY <3>1, <3>2, <3>3 DEF SenderOk
  <2>. QED BY <2>1, <2>2
<1>8. ASSUME NEW c \in Senders PROVE Alone(c)'
  <2>1. CASE c = s
    <3>1. senders'[c] = x BY <1>1, <2>1
    <3>2. CASE x.pc # "check" BY <3>1, <3>2 DEF Alone, AtWire
    <3>3. CASE x.pc = "check" /\ x.uncertain BY <3>1, <3>3 DEF Alone
    <3>4. CASE x.pc = "check" /\ ~x.uncertain
      <4>1. Untouched(n) /\ x.n = n BY <3>4
      <4>2. \A d \in Senders : d # c /\ senders'[d].n = n => senders'[d].pc \notin AtWire BY <1>1, <2>1, <4>1 DEF Untouched
      <4>3. Unsent(n)' BY <4>1 DEF Untouched, Unsent
      <4>. QED BY <3>1, <3>4, <4>1, <4>2, <4>3 DEF Alone
    <3>. QED BY <3>2, <3>3, <3>4
  <2>2. CASE c # s
    <3>1. senders'[c] = senders[c] /\ Alone(c) /\ SenderOk(senders[c]) /\ senders[c] \in SenderRecord
      BY <1>0, <1>1, <2>2 DEF NoteInv, NoteTypes
    <3>2. CASE senders[c].n = n
      <4>1. CASE senders[c].pc \in AtWire \cup {"finish"}
        <5>1. senders[c].rec.rev <= notes[n].rev /\ senders[c].rec.rev \in Nat BY <3>1, <3>2, <4>1 DEF SenderOk, Owns, SenderRecord, NoteRecord
        <5>2. notes[n].rev \in Nat /\ notes'[n].rev = notes[n].rev + 1 BY <1>0, <1>1 DEF NoteTypes, NoteRecord
        <5>. QED BY <3>1, <3>2, <5>1, <5>2 DEF Alone
      <4>2. CASE senders[c].pc \notin AtWire \cup {"finish"} BY <3>1, <4>2 DEF Alone
      <4>. QED BY <4>1, <4>2
    <3>3. CASE senders[c].n # n
      <4>1. x.pc \in AtWire => x.n = n BY DEF AtWire
      <4>2. CASE senders[c].pc \in AtWire \cup {"finish"}
        <5>1. senders[c].n \in Notes BY <3>1, <4>2 DEF SenderOk, AtWire
        <5>2. notes'[senders[c].n] = notes[senders[c].n] BY <1>1, <3>3, <5>1
        <5>. QED BY <1>1, <3>1, <3>3, <4>1, <5>2 DEF Alone, Unsent
      <4>3. CASE senders[c].pc \notin AtWire \cup {"finish"} BY <3>1, <4>3 DEF Alone
      <4>. QED BY <4>2, <4>3
    <3>. QED BY <3>2, <3>3
  <2>. QED BY <2>1, <2>2
<1>. QED BY <1>3, <1>4, <1>6, <1>7, <1>8 DEF NoteInv

LEMMA JobsTyped ==
  ASSUME NoteTypes, NEW n \in Notes
  PROVE  /\ Failing(n) \in [Notes -> JobRecord] /\ Queued(n) \in [Notes -> JobRecord]
         /\ [noteJobs EXCEPT ![n].state = "done"] \in [Notes -> JobRecord]
<1>1. noteJobs[n] \in JobRecord BY DEF NoteTypes
<1>2. \A state \in {"none", "pending", "running", "failed", "done"} :
        [noteJobs EXCEPT ![n] = [noteJobs[n] EXCEPT !.state = state]] \in [Notes -> JobRecord]
  <2>1. \A state \in {"none", "pending", "running", "failed", "done"} : [noteJobs[n] EXCEPT !.state = state] \in JobRecord
    BY <1>1 DEF JobRecord
  <2>. QED BY <2>1 DEF NoteTypes
<1>3. /\ [noteJobs EXCEPT ![n].state = "done"] = [noteJobs EXCEPT ![n] = [noteJobs[n] EXCEPT !.state = "done"]]
      /\ [noteJobs EXCEPT ![n].state = "pending"] = [noteJobs EXCEPT ![n] = [noteJobs[n] EXCEPT !.state = "pending"]]
      /\ [noteJobs EXCEPT ![n].state = "failed"] = [noteJobs EXCEPT ![n] = [noteJobs[n] EXCEPT !.state = "failed"]]
  OBVIOUS
<1>4. Failing(n) \in [Notes -> JobRecord]
  <2>1. Failing(n) = [noteJobs EXCEPT ![n].state = "failed"] \/ Failing(n) = [noteJobs EXCEPT ![n].state = "pending"]
    BY DEF Failing
  <2>. QED BY <1>2, <1>3, <2>1
<1>5. Queued(n) \in [Notes -> JobRecord] BY <1>2, <1>3 DEF Queued, NoteTypes
<1>. QED BY <1>2, <1>3, <1>4, <1>5

LEMMA EndsTyped ==
  ASSUME NoteTypes, NEW s \in Senders, senders[s].n \in Notes, NEW threw \in BOOLEAN, Ends(s, threw)
  PROVE  /\ noteJobs' \in [Notes -> JobRecord] /\ senders' = [senders EXCEPT ![s] = NoSender]
         /\ NoSender \in SenderRecord /\ NoSender.pc = "idle" /\ senders' \in [Senders -> SenderRecord]
<1>1. NoSender \in SenderRecord /\ NoSender.pc = "idle"
  BY DEF NoSender, SenderRecord, SenderPcs, NoNote, NoteRecord, NoteStates
<1>2. senders' = [senders EXCEPT ![s] = NoSender] BY DEF Ends
<1>3. noteJobs' \in {noteJobs, Failing(senders[s].n), [noteJobs EXCEPT ![senders[s].n].state = "done"]} BY DEF Ends
<1>4. noteJobs' \in [Notes -> JobRecord] BY <1>3, JobsTyped DEF NoteTypes
<1>. QED BY <1>1, <1>2, <1>4 DEF NoteTypes

LEMMA EndingKeeps ==
  ASSUME NoteInv, NEW s \in Senders, senders[s].pc # "idle", NEW threw \in BOOLEAN, Ends(s, threw),
         UNCHANGED <<noteClock, notes, wire, mailed>>
  PROVE  NoteInv'
<1>1. NoteTypes /\ senders[s].n \in Notes BY DEF NoteInv, SenderOk
<1>2. /\ noteJobs' \in [Notes -> JobRecord] /\ senders' = [senders EXCEPT ![s] = NoSender]
      /\ NoSender \in SenderRecord /\ NoSender.pc = "idle" /\ senders' \in [Senders -> SenderRecord]
  BY <1>1, EndsTyped
<1>3. NoteTypes' BY <1>1, <1>2 DEF NoteTypes
<1>4. NoSender.pc \notin AtWire BY <1>2 DEF AtWire
<1>5. SenderOk(NoSender) BY <1>2, RestsOk
<1>. QED BY <1>2, <1>3, <1>4, <1>5, SenderMoves

(* What save() stores: the next revision of what the sender gives it.      *)
LEMMA SavedIs ==
  ASSUME NoteTypes, NEW s \in Senders, senders[s].n \in Notes, NEW next \in NoteRecord
  PROVE  LET m == Saved(s, next) IN
         /\ m \in NoteRecord /\ m.rev = next.rev + 1 /\ m.state = next.state /\ m.until = next.until /\ m.count = next.count
         /\ m.retryable = next.retryable
         /\ m.first = IF notes[senders[s].n].first > 0 THEN notes[senders[s].n].first ELSE next.first
<1>1. PICK n \in Notes : n = senders[s].n OBVIOUS
<1>2. PICK q \in NoteRecord : q = notes[n] BY DEF NoteTypes
<1>3. Saved(s, next) = [next EXCEPT !.rev = next.rev + 1, !.jobId = q.jobId, !.first = IF q.first > 0 THEN q.first ELSE next.first]
  BY <1>1, <1>2 DEF Saved
<1>4. PICK f \in Nat : f = IF q.first > 0 THEN q.first ELSE next.first BY DEF NoteRecord
<1>5. PICK k \in Nat : k = next.rev + 1 BY DEF NoteRecord
<1>6. PICK j \in BOOLEAN : j = q.jobId BY DEF NoteRecord
<1>7. PICK m : m = [next EXCEPT !.rev = k, !.jobId = j, !.first = f] OBVIOUS
<1>8. m.rev = k /\ m.first = f /\ m.state = next.state /\ m.until = next.until /\ m.count = next.count /\ m.retryable = next.retryable
  BY <1>7 DEF NoteRecord
<1>9. m \in NoteRecord BY <1>7 DEF NoteRecord
<1>10. Saved(s, next) = m BY <1>3, <1>4, <1>5, <1>6, <1>7
<1>. QED BY <1>1, <1>2, <1>4, <1>5, <1>8, <1>9, <1>10

(* A sender saves `next' and is done.                                      *)
LEMMA LastSave ==
  ASSUME NoteInv, NEW s \in Senders, senders[s].pc \in Reading \cup {"finish"}, NEW threw \in BOOLEAN, Ends(s, threw),
         NEW next \in NoteRecord, next.rev = notes[senders[s].n].rev, next.state # "none", next.first = senders[s].rec.first,
         senders[s].rec.first = notes[senders[s].n].first,
         Save(s, next), UNCHANGED <<noteClock, wire, mailed>>,
         next.state \in Denies => Untouched(senders[s].n),
         next.state \in {"accepted", "delivered"} => mailed[senders[s].n] # << >>
  PROVE  NoteInv'
<1>1. NoteTypes /\ senders[s].n \in Notes BY DEF NoteInv, SenderOk, Reading
<1>2. PICK n \in Notes : n = senders[s].n BY <1>1
<1>3. PICK m \in NoteRecord : m = Saved(s, next) /\ m.rev = next.rev + 1 /\ m.state = next.state
                              /\ m.first = IF notes[n].first > 0 THEN notes[n].first ELSE next.first
  BY <1>1, <1>2, SavedIs
<1>4. /\ noteJobs' \in [Notes -> JobRecord] /\ senders' = [senders EXCEPT ![s] = NoSender]
      /\ NoSender \in SenderRecord /\ NoSender.pc = "idle" /\ senders' \in [Senders -> SenderRecord]
  BY <1>1, EndsTyped
<1>5. notes' = [notes EXCEPT ![n] = m] BY <1>2, <1>3 DEF Save
<1>6. NoteTypes' BY <1>1, <1>3, <1>4, <1>5 DEF NoteTypes
<1>7. m.first = notes[n].first BY <1>2, <1>3
<1>8. senders[s].pc \notin AtWire BY DEF Reading, AtWire
<1>9. m.rev = notes[n].rev + 1 BY <1>2, <1>3
<1>10. (m.state \in Denies => Untouched(n)) /\ (m.state \in {"accepted", "delivered"} => mailed[n] # << >>) BY <1>2, <1>3
<1>. QED BY <1>2, <1>4, <1>5, <1>6, <1>7, <1>8, <1>9, <1>10, SenderSaves

-----------------------------------------------------------------------------
LEMMA GetKeeps == ASSUME NoteInv, NEW s \in Senders, Get(s) PROVE NoteInv'
<1>0. NoteTypes /\ SAt(s, "get") /\ UNCHANGED <<noteClock, notes, wire, mailed>> BY DEF NoteInv, Get
<1>1. senders[s] \in SenderRecord /\ senders[s].pc = "get" BY <1>0 DEF NoteTypes, SAt
<1>2. PICK n \in Notes : n = senders[s].n BY <1>1 DEF NoteInv, SenderOk
<1>3. PICK r \in NoteRecord : r = notes[n] /\ (r.state = "none" => ~r.retryable) BY <1>0 DEF NoteTypes
<1>4. CASE Ends(s, FALSE) \/ Ends(s, TRUE)
  <2>1. PICK threw \in BOOLEAN : Ends(s, threw) BY <1>4
  <2>2. senders[s].pc # "idle" BY <1>1
  <2>. QED BY <1>0, <2>1, <2>2, EndingKeeps
<1>5. ASSUME ~(r.state \in {"accepted", "delivered", "suppressed"} \/ (r.state # "sending" /\ ~r.retryable)),
             senders' = [senders EXCEPT ![s].rec = r, ![s].pc = IF r.state = "sending" THEN "expire" ELSE "window"],
             UNCHANGED noteJobs
      PROVE  NoteInv'
  <2>1. PICK pc \in {"expire", "window"} : pc = IF r.state = "sending" THEN "expire" ELSE "window" OBVIOUS
  <2>2. PICK x \in SenderRecord : x = [senders[s] EXCEPT !.rec = r, !.pc = pc] BY <1>1 DEF SenderRecord, SenderPcs
  <2>3. x.pc = pc /\ x.rec = r /\ x.n = n BY <1>1, <1>2, <2>2 DEF SenderRecord
  <2>4. senders' = [senders EXCEPT ![s] = x] BY <1>5, <2>1, <2>2
  <2>5. SenderOk(x)
    <3>1. r.state \in IF pc = "expire" THEN {"sending"} ELSE {"pending", "failed", "unknown"}
      BY <1>3, <1>5, <2>1 DEF NoteRecord, NoteStates
    <3>2. r.rev <= notes[n].rev BY <1>3 DEF NoteRecord
    <3>. QED BY <1>3, <2>3, <3>1, <3>2 DEF SenderOk, Reads, Owns, Reading, AtWire
  <2>6. NoteTypes' BY <1>0, <1>5, <2>4 DEF NoteTypes
  <2>7. x.pc \notin AtWire /\ x.pc # "finish" BY <2>3 DEF AtWire
  <2>. QED BY <1>0, <2>4, <2>5, <2>6, <2>7, SenderMoves
<1>. QED BY <1>2, <1>3, <1>4, <1>5 DEF Get

(* A save that meets another revision: the sender gives up.                *)
LEMMA BusyKeeps == ASSUME NoteInv, NEW s \in Senders, senders[s].pc # "idle", Busy(s), UNCHANGED <<noteClock, wire, mailed>> PROVE NoteInv'
<1>1. Ends(s, TRUE) /\ UNCHANGED <<noteClock, notes, wire, mailed>> BY DEF Busy
<1>2. TRUE \in BOOLEAN OBVIOUS
<1>. QED BY <1>1, <1>2, EndingKeeps

LEMMA ExpireKeeps == ASSUME NoteInv, NEW s \in Senders, Expire(s) PROVE NoteInv'
<1>0. NoteTypes /\ UNCHANGED <<noteClock, wire, mailed>> BY DEF NoteInv, Expire
<1>1. senders[s] \in SenderRecord /\ senders[s].pc = "expire" BY <1>0 DEF NoteTypes, Expire, SAt
<1>2. PICK n \in Notes : n = senders[s].n BY <1>1 DEF NoteInv, SenderOk
<1>3. CASE ~Current(s)
  <2>1. Busy(s) BY <1>3 DEF Expire
  <2>2. senders[s].pc # "idle" BY <1>1
  <2>. QED BY <1>0, <2>1, <2>2, BusyKeeps
<1>4. CASE Current(s)
  <2>1. PICK r \in NoteRecord : r = senders[s].rec BY <1>1 DEF SenderRecord
  <2>2. PICK next \in NoteRecord : next = [r EXCEPT !.state = "unknown", !.until = 0, !.retryable = TRUE]
    BY DEF NoteRecord, NoteStates
  <2>3. next.state = "unknown" /\ next.rev = r.rev /\ next.first = r.first BY <2>2 DEF NoteRecord
  <2>4. PICK m \in NoteRecord : m = Saved(s, next) /\ m.rev = next.rev + 1 /\ m.state = next.state
                                /\ m.first = IF notes[n].first > 0 THEN notes[n].first ELSE next.first
    BY <1>0, <1>2, SavedIs
  <2>5. notes' = [notes EXCEPT ![n] = m] /\ senders' = [senders EXCEPT ![s].pc = "window", ![s].rec = m] /\ UNCHANGED noteJobs
    BY <1>2, <1>4, <2>1, <2>2, <2>4 DEF Expire, Save
  <2>6. PICK x \in SenderRecord : x = [senders[s] EXCEPT !.pc = "window", !.rec = m] BY <1>1 DEF SenderRecord, SenderPcs
  <2>7. x.pc = "window" /\ x.rec = m /\ x.n = n BY <1>1, <1>2, <2>6 DEF SenderRecord
  <2>8. senders' = [senders EXCEPT ![s] = x] BY <2>5, <2>6
  <2>9. NoteTypes' BY <1>0, <2>3, <2>4, <2>5, <2>8 DEF NoteTypes
  <2>10. r.rev = notes[n].rev /\ r.first = notes[n].first
    BY <1>1, <1>2, <1>4, <2>1 DEF Current, NoteInv, SenderOk, Reads, Reading
  <2>11. m.rev = notes[n].rev + 1 /\ m.first = notes[n].first BY <2>3, <2>4, <2>10
  <2>12. senders[s].pc \notin AtWire BY <1>1 DEF AtWire
  <2>13. m.state \notin Denies /\ m.state \notin {"accepted", "delivered"} BY <2>3, <2>4 DEF Denies
  <2>14. x.n = n /\ x.rec.rev = m.rev /\ x.rec.state = m.state /\ x.rec.first = m.first /\ x.pc = "window" /\ m.state = "unknown"
    BY <2>3, <2>4, <2>7
  <2>15. notes' = [notes EXCEPT ![n] = m] BY <2>5
  <2>16. m.first = notes[n].first \/ (notes[n].first = 0 /\ m.first > 0 /\ m.first <= noteClock) BY <2>11
  <2>. QED BY <1>0, <1>2, <2>8, <2>9, <2>11, <2>12, <2>13, <2>14, <2>15, <2>16, SenderSaves
<1>. QED BY <1>3, <1>4

LEMMA WindowKeeps == ASSUME NoteInv, NEW s \in Senders, Window(s) PROVE NoteInv'
<1>0. NoteTypes /\ UNCHANGED <<noteClock, notes, wire, mailed, noteJobs>> BY DEF NoteInv, Window
<1>1. senders[s] \in SenderRecord /\ senders[s].pc = "window" BY <1>0 DEF NoteTypes, Window, SAt
<1>2. PICK n \in Notes : n = senders[s].n BY <1>1 DEF NoteInv, SenderOk
<1>3. PICK r \in NoteRecord : r = senders[s].rec BY <1>1 DEF SenderRecord
<1>4. PICK t \in NoteTimes :
        senders' = [senders EXCEPT ![s].now = t, ![s].uncertain = r.state = "unknown",
                        ![s].pc = CASE TooLate(r, t) -> "giveup"
                                    [] n \in Optional /\ ~prefers[n] -> "suppress"
                                    [] OTHER -> "claim"]
  BY <1>2, <1>3 DEF Window
<1>5. PICK pc \in {"giveup", "suppress", "claim"} :
        /\ pc = CASE TooLate(r, t) -> "giveup" [] n \in Optional /\ ~prefers[n] -> "suppress" [] OTHER -> "claim"
        /\ pc = "claim" => ~TooLate(r, t)
  OBVIOUS
<1>6. PICK u \in BOOLEAN : u = (r.state = "unknown") OBVIOUS
<1>7. t > 0 /\ t <= noteClock /\ t \in Int BY <1>0 DEF NoteTimes, NoteInv, InWindow, NoteTypes
<1>8. PICK x \in SenderRecord : x = [senders[s] EXCEPT !.now = t, !.uncertain = u, !.pc = pc]
  BY <1>1, <1>7 DEF SenderRecord, SenderPcs
<1>9. x.pc = pc /\ x.now = t /\ x.uncertain = u /\ x.rec = r /\ x.n = n BY <1>1, <1>2, <1>3, <1>8 DEF SenderRecord
<1>10. senders' = [senders EXCEPT ![s] = x] BY <1>4, <1>5, <1>6, <1>8
<1>11. SenderOk(x)
  <2>1. /\ r.rev <= notes[n].rev
        /\ r.rev = notes[n].rev => r.state = notes[n].state /\ r.first = notes[n].first
        /\ r.state \in {"pending", "failed", "unknown"}
    BY <1>1, <1>2, <1>3 DEF NoteInv, SenderOk, Reads, Reading
  <2>. QED BY <1>5, <1>6, <1>7, <1>9, <2>1 DEF SenderOk, Reads, Owns, AtWire
<1>12. NoteTypes' BY <1>0, <1>10 DEF NoteTypes
<1>13. x.pc \notin AtWire /\ x.pc # "finish" BY <1>9 DEF AtWire
<1>. QED BY <1>0, <1>10, <1>11, <1>12, <1>13, SenderMoves

LEMMA GiveUpKeeps == ASSUME NoteInv, NEW s \in Senders, GiveUp(s) PROVE NoteInv'
<1>0. NoteTypes /\ UNCHANGED <<noteClock, wire, mailed>> BY DEF NoteInv, GiveUp
<1>1. senders[s] \in SenderRecord /\ senders[s].pc \in {"giveup", "suppress"} BY <1>0 DEF NoteTypes, GiveUp
<1>2. CASE ~Current(s)
  <2>1. Busy(s) BY <1>2 DEF GiveUp
  <2>2. senders[s].pc # "idle" BY <1>1
  <2>. QED BY <1>0, <2>1, <2>2, BusyKeeps
<1>3. CASE Current(s)
  <2>1. PICK r \in NoteRecord : r = senders[s].rec BY <1>1 DEF SenderRecord
  <2>2. PICK state \in {"failed", "suppressed"} : Save(s, GivenUp(r, state)) /\ Ends(s, FALSE) BY <1>3, <2>1 DEF GiveUp
  <2>3. PICK next \in NoteRecord : next = GivenUp(r, state)
    <3>1. PICK q \in NoteStates : q = IF r.state = "unknown" THEN "unknown" ELSE state BY DEF NoteStates
    <3>2. GivenUp(r, state) = [r EXCEPT !.state = q, !.retryable = FALSE, !.until = 0] BY <3>1 DEF GivenUp
    <3>. QED BY <3>2 DEF NoteRecord
  <2>4. next.state = (IF r.state = "unknown" THEN "unknown" ELSE state) /\ next.rev = r.rev /\ next.first = r.first
    BY <2>3 DEF GivenUp, NoteRecord
  <2>5. /\ senders[s].n \in Notes /\ r.rev = notes[senders[s].n].rev /\ r.first = notes[senders[s].n].first
        /\ r.state = notes[senders[s].n].state /\ r.state \in {"pending", "failed", "unknown"}
    BY <1>1, <1>3, <2>1 DEF Current, NoteInv, SenderOk, Reads, Reading
  <2>6. next.state \in Denies => Untouched(senders[s].n) BY <2>4, <2>5 DEF Denies, NoteInv, NothingDenied
  <2>7. next.state \notin {"none", "accepted", "delivered"} BY <2>4
  <2>8. senders[s].pc \in Reading \cup {"finish"} BY <1>1 DEF Reading
  <2>9. Ends(s, FALSE) /\ Save(s, next) /\ FALSE \in BOOLEAN BY <2>2, <2>3
  <2>10. next.rev = notes[senders[s].n].rev /\ next.first = senders[s].rec.first /\ senders[s].rec.first = notes[senders[s].n].first
    BY <2>1, <2>4, <2>5
  <2>. QED BY <1>0, <2>6, <2>7, <2>8, <2>9, <2>10, LastSave
<1>. QED BY <1>2, <1>3

LEMMA ClaimNoteKeeps == ASSUME NoteInv, NEW s \in Senders, ClaimNote(s) PROVE NoteInv'
<1>0. NoteTypes /\ UNCHANGED <<noteClock, wire, mailed>> BY DEF NoteInv, ClaimNote
<1>1. senders[s] \in SenderRecord /\ senders[s].pc = "claim" BY <1>0 DEF NoteTypes, ClaimNote, SAt
<1>2. PICK n \in Notes : n = senders[s].n BY <1>1 DEF NoteInv, SenderOk
<1>3. CASE ~Current(s)
  <2>1. Busy(s) BY <1>3 DEF ClaimNote
  <2>2. senders[s].pc # "idle" BY <1>1
  <2>. QED BY <1>0, <2>1, <2>2, BusyKeeps
<1>4. CASE Current(s)
  <2>1. PICK r \in NoteRecord : r = senders[s].rec BY <1>1 DEF SenderRecord
  <2>2. /\ r.rev = notes[n].rev /\ r.state = notes[n].state /\ r.first = notes[n].first
        /\ r.state \in {"pending", "failed", "unknown"} /\ senders[s].now > 0 /\ senders[s].now <= noteClock
        /\ ~TooLate(r, senders[s].now) /\ senders[s].uncertain = (r.state = "unknown")
    BY <1>1, <1>2, <1>4, <2>1 DEF Current, NoteInv, SenderOk, Reads, Reading
  <2>3. PICK t \in Nat : t = senders[s].now BY <1>1, <2>2 DEF SenderRecord
  <2>4. PICK f \in Nat : f = (IF r.first > 0 THEN r.first ELSE t) /\ f > 0 BY <2>2, <2>3 DEF NoteRecord
  <2>5. t + NoteLeaseMs \in Nat /\ r.count + 1 \in Nat /\ r.first \in Nat BY DEF NoteRecord
  <2>6. PICK next \in NoteRecord :
          next = [r EXCEPT !.state = "sending", !.count = r.count + 1, !.retryable = TRUE, !.first = f, !.until = t + NoteLeaseMs]
    BY <2>5 DEF NoteRecord, NoteStates
  <2>7. next.state = "sending" /\ next.rev = r.rev /\ next.first = f /\ next.until = t + NoteLeaseMs BY <2>5, <2>6 DEF NoteRecord
  <2>8. PICK m \in NoteRecord : m = Saved(s, next) /\ m.rev = next.rev + 1 /\ m.state = next.state /\ m.until = next.until
                                /\ m.first = IF notes[n].first > 0 THEN notes[n].first ELSE next.first
    BY <1>0, <1>2, SavedIs
  <2>9. notes' = [notes EXCEPT ![n] = m] /\ senders' = [senders EXCEPT ![s].pc = "check", ![s].rec = m] /\ UNCHANGED noteJobs
    BY <1>2, <1>4, <2>1, <2>3, <2>4, <2>6, <2>8 DEF ClaimNote, Save
  <2>10. PICK x \in SenderRecord : x = [senders[s] EXCEPT !.pc = "check", !.rec = m] BY <1>1 DEF SenderRecord, SenderPcs
  <2>11. x.pc = "check" /\ x.rec = m /\ x.n = n /\ x.uncertain = senders[s].uncertain BY <1>1, <1>2, <2>10 DEF SenderRecord
  <2>12. senders' = [senders EXCEPT ![s] = x] BY <2>9, <2>10
  <2>13. NoteTypes' BY <1>0, <2>7, <2>8, <2>9, <2>12 DEF NoteTypes
  <2>14. m.first = f /\ m.rev = notes[n].rev + 1 /\ m.until = t + NoteLeaseMs /\ m.state = "sending" BY <2>2, <2>4, <2>7, <2>8
  <2>15. m.first = notes[n].first \/ (notes[n].first = 0 /\ m.first > 0 /\ m.first <= noteClock)
    BY <2>2, <2>3, <2>4, <2>5, <2>14
  <2>16. m.until + NoteSkew + NoteLatency < m.first + NoteWindow
    BY <2>2, <2>3, <2>4, <2>5, <2>14 DEF TooLate
  <2>17. ~x.uncertain => Untouched(n) BY <2>2, <2>11 DEF NoteInv, NothingDenied, Denies
  <2>18. senders[s].pc \notin AtWire BY <1>1 DEF AtWire
  <2>19. m.state \notin Denies /\ m.state \notin {"accepted", "delivered"} BY <2>14 DEF Denies
  <2>20. /\ x.n = n /\ x.rec.rev = m.rev /\ x.rec.state = m.state /\ x.rec.first = m.first
         /\ x.pc = "check" /\ m.state = "sending" /\ m.first > 0
         /\ x.rec.until + NoteSkew + NoteLatency < m.first + NoteWindow
         /\ ~x.uncertain => Untouched(n)
    BY <2>4, <2>11, <2>14, <2>16, <2>17
  <2>21. notes' = [notes EXCEPT ![n] = m] /\ senders[s].n = n /\ m.rev = notes[n].rev + 1 BY <1>2, <2>9, <2>14
  <2>. QED BY <1>0, <2>12, <2>13, <2>15, <2>18, <2>19, <2>20, <2>21, SenderSaves
<1>. QED BY <1>3, <1>4

LEMMA FinishKeeps == ASSUME NoteInv, NEW s \in Senders, Finish(s) PROVE NoteInv'
<1>0. NoteTypes /\ UNCHANGED <<noteClock, wire, mailed>> BY DEF NoteInv, Finish
<1>1. senders[s] \in SenderRecord /\ senders[s].pc = "finish" BY <1>0 DEF NoteTypes, Finish, SAt
<1>2. CASE ~Current(s)
  <2>1. Busy(s) BY <1>2 DEF Finish
  <2>2. senders[s].pc # "idle" BY <1>1
  <2>. QED BY <1>0, <2>1, <2>2, BusyKeeps
<1>3. CASE Current(s)
  <2>1. PICK r \in NoteRecord : r = senders[s].rec BY <1>1 DEF SenderRecord
  <2>2. PICK again \in BOOLEAN : again = senders[s].again BY <1>1 DEF SenderRecord
  <2>3. /\ senders[s].n \in Notes /\ r.rev = notes[senders[s].n].rev /\ r.first = notes[senders[s].n].first
        /\ senders[s].out # "none" /\ (senders[s].out = "accepted" => mailed[senders[s].n] # << >>)
    BY <1>1, <1>3, <2>1 DEF Current, NoteInv, SenderOk, Owns
  <2>4. senders[s].out \in {"accepted", "failed", "unknown"} BY <1>1, <2>3 DEF SenderRecord
  <2>5. PICK q \in {"accepted", "failed", "unknown"} : q = Result(s) BY <2>4 DEF Result
  <2>6. /\ q = "failed" => senders[s].out = "failed" /\ ~senders[s].uncertain
        /\ q = "accepted" => senders[s].out = "accepted"
    BY <2>4, <2>5 DEF Result
  <2>7. PICK next \in NoteRecord : next = [r EXCEPT !.state = q, !.until = 0, !.retryable = again]
    BY DEF NoteRecord, NoteStates
  <2>8. next.state = q /\ next.rev = r.rev /\ next.first = r.first BY <2>7 DEF NoteRecord
  <2>9. Save(s, next) /\ Ends(s, again) BY <1>3, <2>1, <2>2, <2>5, <2>7 DEF Finish
  <2>10. ASSUME q = "failed" PROVE Untouched(senders[s].n)
    <3>1. Alone(s) /\ ~senders[s].uncertain /\ senders[s].out = "failed" /\ senders[s].rec.rev = notes[senders[s].n].rev
      BY <2>1, <2>3, <2>6, <2>10 DEF NoteInv
    <3>2. Unsent(senders[s].n) /\ \A c \in Senders : c # s /\ senders[c].n = senders[s].n => senders[c].pc \notin AtWire
      BY <1>1, <3>1 DEF Alone
    <3>. QED BY <1>1, <3>2 DEF Untouched, AtWire
  <2>11. next.state \in Denies => Untouched(senders[s].n) BY <2>8, <2>10 DEF Denies
  <2>12. next.state \in {"accepted", "delivered"} => mailed[senders[s].n] # << >> BY <2>3, <2>6, <2>8
  <2>13. senders[s].pc \in Reading \cup {"finish"} /\ next.state # "none" BY <1>1, <2>8
  <2>14. next.rev = notes[senders[s].n].rev /\ next.first = senders[s].rec.first /\ senders[s].rec.first = notes[senders[s].n].first
    BY <2>1, <2>3, <2>8
  <2>. QED BY <1>0, <2>9, <2>11, <2>12, <2>13, <2>14, LastSave
<1>. QED BY <1>2, <1>3

LEMMA UnansweredKeeps == ASSUME NoteInv, NEW s \in Senders, Unanswered(s) PROVE NoteInv'
<1>0. NoteTypes /\ UNCHANGED <<noteClock, notes, wire, mailed, noteJobs>> BY DEF NoteInv, Unanswered
<1>1. senders[s] \in SenderRecord /\ senders[s].pc = "send" BY <1>0 DEF NoteTypes, Unanswered, SAt
<1>2. PICK x \in SenderRecord : x = [senders[s] EXCEPT !.pc = "finish", !.out = "unknown", !.again = TRUE]
  BY <1>1 DEF SenderRecord, SenderPcs
<1>3. x.pc = "finish" /\ x.out = "unknown" /\ x.n = senders[s].n /\ x.rec = senders[s].rec /\ x.uncertain = senders[s].uncertain
  BY <1>1, <1>2 DEF SenderRecord
<1>4. senders' = [senders EXCEPT ![s] = x] BY <1>2 DEF Unanswered
<1>5. NoteTypes' BY <1>0, <1>4 DEF NoteTypes
<1>6. SenderOk(x) BY <1>1, <1>3 DEF NoteInv, SenderOk, Reads, Owns, Reading, AtWire
<1>7. x.pc \notin AtWire /\ senders[s].pc \in AtWire BY <1>1, <1>3 DEF AtWire
<1>8. x.out # "failed" BY <1>3
<1>. QED BY <1>0, <1>3, <1>4, <1>5, <1>6, <1>7, <1>8, SenderMoves

LEMMA DeliverKeeps == ASSUME NoteInv, NEW s \in Senders, NEW n \in Notes, Deliver(s, n) PROVE NoteInv'
<1>0. NoteTypes /\ UNCHANGED <<noteClock, notes, wire, mailed>> BY DEF NoteInv, Deliver
<1>1. PICK j \in JobRecord : j = noteJobs[n] BY <1>0 DEF NoteTypes
<1>2. [state |-> "running", left |-> j.left - 1] \in JobRecord /\ j.left - 1 \in Int BY DEF JobRecord
<1>3. noteJobs' = [noteJobs EXCEPT ![n] = [state |-> "running", left |-> j.left - 1]] BY <1>1 DEF Deliver
<1>4. PICK x \in SenderRecord : x = [NoSender EXCEPT !.pc = "get", !.n = n, !.own = j.left - 1]
  <2>1. NoSender \in SenderRecord BY DEF NoSender, SenderRecord, SenderPcs, NoNote, NoteRecord, NoteStates
  <2>. QED BY <1>2, <2>1 DEF SenderRecord, SenderPcs
<1>5. x.pc = "get" /\ x.n = n BY <1>4 DEF NoSender
<1>6. senders' = [senders EXCEPT ![s] = x] BY <1>1, <1>4 DEF Deliver
<1>7. noteJobs' \in [Notes -> JobRecord] BY <1>0, <1>2, <1>3 DEF NoteTypes
<1>8. NoteTypes' BY <1>0, <1>6, <1>7 DEF NoteTypes
<1>9. SenderOk(x) BY <1>5, RestsOk
<1>10. x.pc \notin AtWire /\ x.pc # "finish" BY <1>5 DEF AtWire
<1>. QED BY <1>0, <1>6, <1>8, <1>9, <1>10, SenderMoves

LEMMA CheckKeeps == ASSUME NoteInv, NEW s \in Senders, Check(s) PROVE NoteInv'
<1>0. NoteTypes /\ InWindow /\ UNCHANGED <<noteClock, notes, mailed>> BY DEF NoteInv, Check
<1>1. senders[s] \in SenderRecord /\ senders[s].pc = "check" BY <1>0 DEF NoteTypes, Check, SAt
<1>2. PICK n \in Notes : n = senders[s].n BY <1>1 DEF NoteInv, SenderOk
<1>3. PICK r \in NoteRecord : r = senders[s].rec BY <1>1 DEF SenderRecord
<1>4. PICK t \in NoteTimes :
        LET end == noteClock + r.until - t
        IN CASE TooLate(r, t) ->
                    /\ senders' = [senders EXCEPT ![s].pc = "finish", ![s].out = "failed", ![s].again = FALSE]
                    /\ UNCHANGED <<noteJobs, wire>>
               [] ~TooLate(r, t) /\ r.until <= t -> Ends(s, TRUE) /\ UNCHANGED wire
               [] OTHER ->
                    /\ senders' = [senders EXCEPT ![s].pc = "send", ![s].now = end]
                    /\ wire' = wire \cup {[n |-> senders[s].n, of |-> r.count, by |-> end]}
                    /\ UNCHANGED noteJobs
  BY <1>3 DEF Check
<1>5. CASE Ends(s, TRUE) /\ UNCHANGED wire
  <2>1. senders[s].pc # "idle" /\ TRUE \in BOOLEAN BY <1>1
  <2>. QED BY <1>0, <1>5, <2>1, EndingKeeps
<1>6. CASE /\ senders' = [senders EXCEPT ![s].pc = "finish", ![s].out = "failed", ![s].again = FALSE]
           /\ UNCHANGED <<noteJobs, wire>>
  <2>2. PICK x \in SenderRecord : x = [senders[s] EXCEPT !.pc = "finish", !.out = "failed", !.again = FALSE]
    BY <1>1 DEF SenderRecord, SenderPcs
  <2>3. x.pc = "finish" /\ x.out = "failed" /\ x.n = senders[s].n /\ x.rec = senders[s].rec /\ x.uncertain = senders[s].uncertain
    BY <1>1, <2>2 DEF SenderRecord
  <2>4. senders' = [senders EXCEPT ![s] = x] BY <1>6, <2>2
  <2>5. NoteTypes' BY <1>0, <1>6, <2>4 DEF NoteTypes
  <2>6. SenderOk(x) BY <1>1, <2>3 DEF NoteInv, SenderOk, Reads, Owns, Reading, AtWire
  <2>7. x.pc \notin AtWire /\ senders[s].pc \in AtWire BY <1>1, <2>3 DEF AtWire
  <2>. QED BY <1>0, <1>1, <1>6, <2>3, <2>4, <2>5, <2>6, <2>7, SenderMoves
<1>7. CASE /\ t < r.until
           /\ senders' = [senders EXCEPT ![s].pc = "send", ![s].now = noteClock + r.until - t]
           /\ wire' = wire \cup {[n |-> senders[s].n, of |-> r.count, by |-> noteClock + r.until - t]}
           /\ UNCHANGED noteJobs
  <2>0. noteClock \in Nat /\ t \in Nat /\ noteClock <= t + NoteSkew /\ r.until \in Nat /\ r.count \in Nat
    BY <1>0 DEF NoteTypes, NoteTimes, NoteRecord
  <2>1. PICK end \in Int : end = noteClock + r.until - t BY <2>0
  <2>2. PICK w \in Request : w = [n |-> n, of |-> r.count, by |-> end] /\ w.n = n /\ w.by = end
    <3>1. [n |-> n, of |-> r.count, by |-> end] \in Request BY <2>0 DEF Request
    <3>2. [n |-> n, of |-> r.count, by |-> end].n = n /\ [n |-> n, of |-> r.count, by |-> end].by = end OBVIOUS
    <3>. QED BY <3>1, <3>2
  <2>3. wire' = wire \cup {w} BY <1>2, <1>7, <2>1, <2>2
  <2>4. PICK x \in SenderRecord : x = [senders[s] EXCEPT !.pc = "send", !.now = end] BY <1>1 DEF SenderRecord, SenderPcs
  <2>5. x.pc = "send" /\ x.n = n /\ x.rec = r /\ x.uncertain = senders[s].uncertain BY <1>1, <1>2, <1>3, <2>4 DEF SenderRecord
  <2>6. senders' = [senders EXCEPT ![s] = x] BY <1>7, <2>1, <2>4
  <2>7. \A c \in Senders : senders'[c] = IF c = s THEN x ELSE senders[c] BY <1>0, <2>6 DEF NoteTypes
  <2>8. NoteTypes' BY <1>0, <1>7, <2>3, <2>6 DEF NoteTypes
  <2>9. /\ r.rev <= notes[n].rev /\ r.first > 0 /\ r.first = notes[n].first
        /\ r.until + NoteSkew + NoteLatency < r.first + NoteWindow
    BY <1>1, <1>2, <1>3 DEF NoteInv, SenderOk, Owns, AtWire
  <2>10. InWindow'
    <3>1. r.first \in Nat BY DEF NoteRecord
    <3>2. end + NoteLatency < r.first + NoteWindow /\ noteClock <= end + NoteLatency BY <1>7, <2>0, <2>1, <2>9, <3>1
    <3>. QED BY <1>0, <2>2, <2>3, <2>9, <3>2 DEF InWindow
  <2>11. ~Untouched(n) BY <1>1, <1>2 DEF Untouched, AtWire
  <2>12. NothingDenied'
    <3>1. ASSUME NEW k \in Notes, notes[k].state \in Denies PROVE Untouched(k)'
      <4>1. Untouched(k) /\ k # n BY <2>11, <3>1 DEF NoteInv, NothingDenied
      <4>. QED BY <1>0, <2>2, <2>3, <2>5, <2>7, <4>1 DEF Untouched, Unsent
    <3>. QED BY <1>0, <3>1 DEF NothingDenied
  <2>13. NothingInvented' BY <1>0 DEF NoteInv, NothingInvented
  <2>14. ASSUME NEW c \in Senders PROVE SenderOk(senders[c])'
    <3>1. CASE c = s
      <4>1. senders'[c] = x BY <2>7, <3>1
      <4>. QED BY <1>0, <2>5, <2>9, <4>1 DEF SenderOk, Reads, Owns, Reading, AtWire
    <3>2. CASE c # s BY <1>0, <2>7, <3>2 DEF NoteInv, SenderOk, Reads, Owns
    <3>. QED BY <3>1, <3>2
  <2>15. ASSUME NEW c \in Senders PROVE Alone(c)'
    <3>1. CASE c = s
      <4>1. senders'[c] = x /\ Alone(s) BY <2>7, <3>1 DEF NoteInv
      <4>2. ASSUME ~x.uncertain, x.rec.rev = notes[n].rev
            PROVE  /\ \A d \in Senders : d # c /\ senders'[d].n = n => senders'[d].pc \notin AtWire
                   /\ \A v \in wire' : v.n = n => mailed[n] = << >> /\ \A u \in wire' : u.n = n => u = v
        <5>1. /\ \A d \in Senders : d # s /\ senders[d].n = n => senders[d].pc \notin AtWire
              /\ Unsent(n)
          BY <1>1, <1>2, <1>3, <2>5, <4>1, <4>2 DEF Alone, AtWire
        <5>. QED BY <2>3, <2>7, <3>1, <5>1 DEF Unsent
      <4>. QED BY <1>0, <2>5, <4>1, <4>2 DEF Alone
    <3>2. CASE c # s /\ senders[c].n = n
      <4>1. senders'[c] = senders[c] /\ Alone(c) BY <2>7, <3>2 DEF NoteInv
      <4>2. senders[s].pc \in AtWire BY <1>1 DEF AtWire
      <4>. QED BY <1>0, <1>2, <3>2, <4>1, <4>2 DEF Alone
    <3>3. CASE c # s /\ senders[c].n # n
      <4>1. senders'[c] = senders[c] /\ Alone(c) BY <2>7, <3>3 DEF NoteInv
      <4>. QED BY <1>0, <2>2, <2>3, <2>5, <2>7, <3>3, <4>1 DEF Alone, Unsent
    <3>. QED BY <3>1, <3>2, <3>3
  <2>. QED BY <2>8, <2>10, <2>12, <2>13, <2>14, <2>15 DEF NoteInv
<1>8. t \in Int /\ r.until \in Int BY DEF NoteTimes, NoteRecord
<1>9. CASE TooLate(r, t) BY <1>4, <1>6, <1>9
<1>10. CASE ~TooLate(r, t) /\ r.until <= t BY <1>4, <1>5, <1>10
<1>11. CASE ~TooLate(r, t) /\ t < r.until
  <2>1. ~(r.until <= t) BY <1>8, <1>11
  <2>. QED BY <1>4, <1>7, <1>11, <2>1
<1>. QED BY <1>8, <1>9, <1>10, <1>11

(* Others change the record, or the queue, or who is calling.              *)
LEMMA RecordChanges ==
  ASSUME NoteInv, NEW n \in Notes, NEW m \in NoteRecord, notes' = [notes EXCEPT ![n] = m], NoteTypes',
         UNCHANGED <<noteClock, senders, wire, mailed>>, m.first = notes[n].first,
         \/ m.rev = notes[n].rev /\ (m.state = notes[n].state \/ notes[n].state = "none")
         \/ m.rev = notes[n].rev + 1,
         m.state \in Denies => Untouched(n),
         m.state \in {"accepted", "delivered"} => mailed[n] # << >>
  PROVE  NoteInv'
<1>0. NoteTypes /\ InWindow BY DEF NoteInv
<1>1. \A k \in Notes : notes'[k] = IF k = n THEN m ELSE notes[k] BY <1>0 DEF NoteTypes
<1>2. InWindow'
  <2>1. \A w \in wire : w.n \in Notes BY <1>0 DEF NoteTypes, Request
  <2>2. \A k \in Notes : notes'[k].first = notes[k].first BY <1>1
  <2>. QED BY <1>0, <2>1, <2>2 DEF InWindow
<1>3. \A k \in Notes : Untouched(k) => Untouched(k)' BY DEF Untouched, Unsent
<1>4. NothingDenied' /\ NothingInvented' BY <1>1, <1>3 DEF NoteInv, NothingDenied, NothingInvented
<1>5. ASSUME NEW c \in Senders PROVE SenderOk(senders[c])' /\ Alone(c)'
  <2>1. SenderOk(senders[c]) /\ Alone(c) /\ senders[c] \in SenderRecord BY <1>0 DEF NoteInv, NoteTypes
  <2>2. CASE senders[c].pc \in {"idle", "get"} BY <2>1, <2>2 DEF SenderOk, Reads, Owns, Alone, Reading, AtWire
  <2>3. CASE senders[c].n # n
    <3>1. senders[c].n \in Notes => notes'[senders[c].n] = notes[senders[c].n] BY <1>1, <2>3
    <3>2. CASE senders[c].n \in Notes BY <2>1, <3>1, <3>2 DEF SenderOk, Reads, Owns, Alone, Unsent
    <3>3. CASE senders[c].n \notin Notes BY <2>1, <2>2, <3>3 DEF SenderOk
    <3>. QED BY <3>2, <3>3
  <2>4. CASE senders[c].n = n /\ senders[c].pc \notin {"idle", "get"}
    <3>1. notes[n].rev \in Nat /\ m.rev \in Nat /\ senders[c].rec.rev \in Nat BY <1>0, <2>1 DEF NoteTypes, NoteRecord, SenderRecord
    <3>2. notes'[n] = m BY <1>1
    <3>3. CASE m.rev = notes[n].rev /\ m.state = notes[n].state
      BY <2>1, <2>4, <3>2, <3>3 DEF SenderOk, Reads, Owns, Alone, Unsent
    <3>4. CASE m.rev = notes[n].rev /\ notes[n].state = "none"
      <4>1. senders[c].pc \in Reading => senders[c].rec.rev # notes[n].rev
        BY <2>1, <2>4, <3>4 DEF SenderOk, Reads
      <4>. QED BY <2>1, <2>4, <3>2, <3>4, <4>1 DEF SenderOk, Reads, Owns, Alone, Unsent
    <3>5. CASE m.rev = notes[n].rev + 1
      <4>1. senders[c].pc \in Reading \cup AtWire \cup {"finish"} BY <2>1, <2>4 DEF SenderRecord, SenderPcs, Reading, AtWire
      <4>2. senders[c].rec.rev <= notes[n].rev BY <2>1, <2>4, <4>1 DEF SenderOk, Reads, Owns
      <4>3. senders[c].rec.rev <= m.rev /\ senders[c].rec.rev # m.rev BY <3>1, <3>5, <4>2
      <4>. QED BY <2>1, <2>4, <3>2, <4>3 DEF SenderOk, Reads, Owns, Alone
    <3>. QED BY <3>3, <3>4, <3>5
  <2>. QED BY <2>2, <2>3, <2>4
<1>. QED BY <1>2, <1>4, <1>5 DEF NoteInv

LEMMA JobsChange ==
  ASSUME NoteInv, NoteTypes', UNCHANGED <<noteClock, notes, senders, wire, mailed>> PROVE NoteInv'
BY DEF NoteInv, InWindow, NothingDenied, NothingInvented, Untouched, Unsent, SenderOk, Reads, Owns, Alone

LEMMA CallersKeep ==
  ASSUME NoteInv, NEW n \in Notes,
         Submit(n) \/ SetPreference(n) \/ Requeue(n) \/ Reconcile(n) \/ LeaseLost(n) \/ MarkDelivered(n) PROVE NoteInv'
<1>0. NoteTypes BY DEF NoteInv
<1>1. PICK q \in NoteRecord : q = notes[n] BY <1>0 DEF NoteTypes
<1>2. CASE Submit(n)
  <2>1. PICK permitted \in BOOLEAN :
          notes' = [notes EXCEPT ![n].state = IF permitted THEN "pending" ELSE "suppressed", ![n].retryable = permitted]
    BY <1>2 DEF Submit
  <2>2. PICK state \in {"pending", "suppressed"} : state = IF permitted THEN "pending" ELSE "suppressed" OBVIOUS
  <2>3. PICK m \in NoteRecord : m = [q EXCEPT !.state = state, !.retryable = permitted] BY DEF NoteRecord, NoteStates
  <2>4. m.state = state /\ m.rev = q.rev /\ m.first = q.first BY <2>3 DEF NoteRecord
  <2>5. notes' = [notes EXCEPT ![n] = m] BY <1>1, <2>1, <2>2, <2>3
  <2>6. UNCHANGED <<noteClock, senders, wire, mailed, noteJobs>> /\ notes[n].state = "none" BY <1>2 DEF Submit
  <2>7. NoteTypes' BY <1>0, <2>4, <2>5, <2>6 DEF NoteTypes
  <2>8. (m.state \in Denies => Untouched(n)) /\ m.state \notin {"accepted", "delivered"}
    BY <2>4, <2>6 DEF NoteInv, NothingDenied, Denies
  <2>9. /\ m.first = notes[n].first
        /\ \/ m.rev = notes[n].rev /\ (m.state = notes[n].state \/ notes[n].state = "none")
           \/ m.rev = notes[n].rev + 1
    BY <1>1, <2>4, <2>6
  <2>. QED BY <2>5, <2>6, <2>7, <2>8, <2>9, RecordChanges
<1>3. CASE MarkDelivered(n)
  <2>1. q.rev + 1 \in Nat BY DEF NoteRecord
  <2>2. PICK m \in NoteRecord : m = [q EXCEPT !.state = "delivered", !.rev = q.rev + 1] BY <2>1 DEF NoteRecord, NoteStates
  <2>3. m.state = "delivered" /\ m.rev = q.rev + 1 /\ m.first = q.first BY <2>2 DEF NoteRecord
  <2>4. notes' = [notes EXCEPT ![n] = m] BY <1>1, <1>3, <2>2 DEF MarkDelivered
  <2>5. UNCHANGED <<noteClock, senders, wire, mailed, noteJobs>> /\ notes[n].state = "accepted" BY <1>3 DEF MarkDelivered
  <2>6. NoteTypes' BY <1>0, <2>3, <2>4, <2>5 DEF NoteTypes
  <2>7. m.state \notin Denies BY <2>3 DEF Denies
  <2>8. mailed[n] # << >> BY <2>5 DEF NoteInv, NothingInvented
  <2>9. /\ m.first = notes[n].first
        /\ \/ m.rev = notes[n].rev /\ (m.state = notes[n].state \/ notes[n].state = "none")
           \/ m.rev = notes[n].rev + 1
    BY <1>1, <2>3
  <2>. QED BY <2>4, <2>5, <2>6, <2>7, <2>8, <2>9, RecordChanges
<1>4. CASE SetPreference(n) \/ Requeue(n) \/ Reconcile(n) \/ LeaseLost(n)
  <2>1. UNCHANGED <<noteClock, notes, senders, wire, mailed>> BY <1>4 DEF SetPreference, Requeue, Reconcile, LeaseLost
  <2>2. noteJobs' \in {noteJobs, Failing(n)} BY <1>4 DEF SetPreference, Requeue, Reconcile, LeaseLost
  <2>3. NoteTypes' BY <1>0, <2>1, <2>2, JobsTyped DEF NoteTypes
  <2>. QED BY <2>1, <2>3, JobsChange
<1>. QED BY <1>2, <1>3, <1>4

LEMMA TickKeeps == ASSUME NoteInv, NoteTick PROVE NoteInv'
<1>0. NoteTypes /\ UNCHANGED <<notes, senders, wire, mailed, noteJobs>> /\ noteClock' = noteClock + 1 /\ noteClock \in Nat
  BY DEF NoteInv, NoteTypes, NoteTick
<1>1. NoteTypes' BY <1>0 DEF NoteTypes
<1>2. InWindow'
  <2>1. \A w \in wire : noteClock' <= w.by + NoteLatency BY <1>0 DEF NoteTick, NoteTypes, Request
  <2>2. \A n \in Notes : notes[n].first <= noteClock' BY <1>0 DEF NoteInv, InWindow, NoteTypes, NoteRecord
  <2>3. NoteSkew < noteClock' BY <1>0 DEF NoteInv, InWindow
  <2>. QED BY <1>0, <2>1, <2>2, <2>3 DEF NoteInv, InWindow
<1>3. NothingDenied' /\ NothingInvented' BY <1>0 DEF NoteInv, NothingDenied, NothingInvented, Untouched, Unsent
<1>4. ASSUME NEW c \in Senders PROVE SenderOk(senders[c])' /\ Alone(c)'
  <2>1. SenderOk(senders[c]) /\ Alone(c) /\ senders[c] \in SenderRecord BY <1>0 DEF NoteInv, NoteTypes
  <2>2. senders[c].now \in Int BY <2>1 DEF SenderRecord
  <2>3. Reads(senders[c])' BY <1>0, <2>1, <2>2 DEF SenderOk, Reads, TooLate
  <2>. QED BY <1>0, <2>1, <2>3 DEF SenderOk, Owns, Alone, Unsent
<1>. QED BY <1>1, <1>2, <1>3, <1>4 DEF NoteInv

(* Whatever is dispatched is a notification's.                             *)
Dispatched == dispatch \subseteq [n : Notes, step : {"enqueue", "record", "retry"}, requeue : BOOLEAN]

LEMMA DispatchNoteKeeps ==
  ASSUME NoteInv, Dispatched, NEW c \in dispatch, DispatchNote(c) \/ DispatchLost(c) PROVE NoteInv'
<1>0. NoteTypes /\ c.step \in {"enqueue", "record", "retry"} BY DEF NoteInv, Dispatched
<1>1. PICK n \in Notes : n = c.n BY DEF Dispatched
<1>2. CASE UNCHANGED <<noteClock, notes, senders, wire, mailed, noteJobs>>
  <2>1. NoteTypes' BY <1>0, <1>2 DEF NoteTypes
  <2>. QED BY <1>2, <2>1, JobsChange
<1>3. CASE DispatchNote(c) /\ c.step = "enqueue"
  <2>1. noteJobs' = Queued(n) /\ UNCHANGED <<noteClock, notes, senders, wire, mailed>> BY <1>1, <1>3 DEF DispatchNote
  <2>2. NoteTypes' BY <1>0, <2>1, JobsTyped DEF NoteTypes
  <2>. QED BY <2>1, <2>2, JobsChange
<1>4. CASE DispatchNote(c) /\ c.step = "record"
  <2>1. PICK q \in NoteRecord : q = notes[n] BY <1>0 DEF NoteTypes
  <2>2. PICK m \in NoteRecord : m = [q EXCEPT !.jobId = TRUE] BY DEF NoteRecord
  <2>3. m.state = q.state /\ m.rev = q.rev /\ m.first = q.first /\ m.retryable = q.retryable BY <2>2 DEF NoteRecord
  <2>4. notes' = [notes EXCEPT ![n] = m] /\ UNCHANGED <<noteClock, senders, wire, mailed, noteJobs>>
    BY <1>1, <1>4, <2>1, <2>2 DEF DispatchNote
  <2>5. NoteTypes' BY <1>0, <2>1, <2>3, <2>4 DEF NoteTypes
  <2>6. (m.state \in Denies => Untouched(n)) /\ (m.state \in {"accepted", "delivered"} => mailed[n] # << >>)
    BY <2>1, <2>3 DEF NoteInv, NothingDenied, NothingInvented
  <2>7. /\ m.first = notes[n].first
        /\ \/ m.rev = notes[n].rev /\ (m.state = notes[n].state \/ notes[n].state = "none")
           \/ m.rev = notes[n].rev + 1
    BY <2>1, <2>3
  <2>. QED BY <2>4, <2>5, <2>6, <2>7, RecordChanges
<1>5. CASE DispatchNote(c) /\ c.step = "retry"
  <2>1. UNCHANGED <<noteClock, notes, senders, wire, mailed>> BY <1>5 DEF DispatchNote
  <2>2. noteJobs' \in {noteJobs, [noteJobs EXCEPT ![n] = [state |-> "pending", left |-> TaskAttempts]]}
    BY <1>1, <1>5 DEF DispatchNote
  <2>3. [state |-> "pending", left |-> TaskAttempts] \in JobRecord BY DEF JobRecord
  <2>4. NoteTypes' BY <1>0, <2>1, <2>2, <2>3 DEF NoteTypes
  <2>. QED BY <2>1, <2>4, JobsChange
<1>6. DispatchLost(c) => UNCHANGED <<noteClock, notes, senders, wire, mailed, noteJobs>> BY DEF DispatchLost
<1>. QED BY <1>0, <1>2, <1>3, <1>4, <1>5, <1>6

LEMMA ArriveKeeps == ASSUME NoteInv, NEW w \in wire, Arrive(w) PROVE NoteInv'
<1>0. NoteTypes /\ InWindow /\ UNCHANGED <<noteClock, notes, noteJobs>> /\ wire' = wire \ {w} BY DEF NoteInv, Arrive
<1>1. PICK n \in Notes : n = w.n BY <1>0 DEF NoteTypes, Request
<1>2. ~Unsent(n) BY <1>1 DEF Unsent
<1>3. /\ mailed' \in [Notes -> Seq(Nat)]
      /\ \A k \in Notes : k # n => mailed'[k] = mailed[k]
      /\ \A k \in Notes : mailed[k] # << >> => mailed'[k] # << >>
      /\ Len(mailed'[n]) <= 1 /\ (mailed'[n] # << >> => mailed'[n][1] >= notes[n].first)
  <2>1. CASE mailed' = mailed BY <1>0, <2>1 DEF NoteTypes, InWindow
  <2>2. CASE ~Remembers(n) /\ mailed' = [mailed EXCEPT ![n] = Append(@, noteClock)]
    <3>0. mailed[n] \in Seq(Nat) /\ notes[n] \in NoteRecord /\ w \in Request /\ noteClock \in Nat BY <1>0 DEF NoteTypes
    <3>1. ASSUME mailed[n] # << >> PROVE FALSE
      <4>1. PICK q \in Seq(Nat) : q = mailed[n] BY <3>0
      <4>2. Len(q) \in Nat \ {0} BY <3>1, <4>1, EmptySeq
      <4>3. Len(q) <= 1 /\ q[1] >= notes[n].first BY <1>0, <3>1, <4>1 DEF InWindow
      <4>4. 1 \in 1..Len(q) BY <4>2
      <4>5. PICK t \in Nat : t = q[1] BY <4>4, ElementOfSeq
      <4>6. PICK f \in Nat : f = notes[n].first BY <3>0 DEF NoteRecord
      <4>7. PICK b \in Int : b = w.by BY <3>0 DEF Request
      <4>8. noteClock <= b + NoteLatency /\ b + NoteLatency < f + NoteWindow BY <1>0, <1>1, <4>6, <4>7 DEF InWindow
      <4>9. noteClock < t + NoteWindow BY <3>0, <4>3, <4>5, <4>6, <4>8
      <4>10. \E i \in 1..Len(mailed[n]) : noteClock < mailed[n][i] + NoteWindow BY <4>1, <4>4, <4>5, <4>9
      <4>. QED BY <2>2, <4>10 DEF Remembers
    <3>2. mailed' = [mailed EXCEPT ![n] = <<noteClock>>]
      <4>1. mailed[n] = << >> BY <3>1
      <4>2. Append(<< >>, noteClock) = <<noteClock>> OBVIOUS
      <4>. QED BY <2>2, <4>1, <4>2
    <3>3. <<noteClock>> \in Seq(Nat) BY <3>0
    <3>4. mailed'[n] = <<noteClock>> BY <1>0, <3>2 DEF NoteTypes
    <3>5. notes[n].first <= noteClock BY <1>0 DEF InWindow
    <3>. QED BY <1>0, <3>0, <3>2, <3>3, <3>4, <3>5 DEF NoteTypes, NoteRecord
  <2>. QED BY <1>1, <2>1, <2>2 DEF Arrive
<1>4. PICK out \in {"accepted", "failed"}, again \in BOOLEAN :
        /\ Answers(w, out, again)
        /\ out = "accepted" => mailed'[n] # << >>
        /\ out = "failed" => mailed' = mailed
  <2>1. CASE mailed' = (IF Remembers(w.n) THEN mailed ELSE [mailed EXCEPT ![w.n] = Append(@, noteClock)])
             /\ Answers(w, "accepted", FALSE)
    <3>1. mailed'[n] # << >>
      <4>0. mailed[n] \in Seq(Nat) /\ noteClock \in Nat BY <1>0 DEF NoteTypes
      <4>1. CASE Remembers(n) BY <1>1, <2>1, <4>0, <4>1 DEF Remembers
      <4>2. CASE ~Remembers(n)
        <5>1. mailed'[n] = Append(mailed[n], noteClock) BY <1>0, <1>1, <2>1, <4>2 DEF NoteTypes
        <5>2. Len(mailed'[n]) = Len(mailed[n]) + 1 BY <4>0, <5>1
        <5>. QED BY <4>0, <5>2
      <4>. QED BY <4>1, <4>2
    <3>. QED BY <2>1, <3>1
  <2>2. CASE mailed' = mailed /\ \E a \in BOOLEAN : Answers(w, "failed", a) BY <2>2
  <2>. QED BY <2>1, <2>2 DEF Arrive
<1>5. ASSUME NEW c \in Senders
      PROVE  \/ senders'[c] = senders[c]
             \/ /\ senders[c].pc = "send" /\ senders[c].n = n
                /\ senders'[c].pc = "finish" /\ senders'[c].n = n /\ senders'[c].out = out
                /\ senders'[c].rec = senders[c].rec /\ senders'[c].uncertain = senders[c].uncertain
                /\ senders'[c] \in SenderRecord
  <2>1. senders[c] \in SenderRecord BY <1>0 DEF NoteTypes
  <2>2. CASE senders[c].pc = "send" /\ senders[c].n = n /\ senders'[c] = [senders[c] EXCEPT !.pc = "finish", !.out = out, !.again = again]
    BY <2>1, <2>2 DEF SenderRecord, SenderPcs
  <2>3. CASE senders'[c] = senders[c] BY <2>3
  <2>. QED BY <1>1, <1>4, <2>2, <2>3 DEF Answers, SAt
<1>6. NoteTypes'
  <2>1. senders' = [c \in Senders |-> senders'[c]] BY <1>0, <1>4 DEF Answers, NoteTypes
  <2>2. \A c \in Senders : senders'[c] \in SenderRecord BY <1>0, <1>5 DEF NoteTypes
  <2>3. senders' \in [Senders -> SenderRecord] BY <2>1, <2>2
  <2>. QED BY <1>0, <1>3, <2>3 DEF NoteTypes
<1>7. InWindow'
  <2>1. \A v \in wire' : v \in wire BY <1>0
  <2>2. notes[n].first > 0 BY <1>0, <1>1 DEF InWindow
  <2>3. ASSUME NEW k \in Notes
        PROVE /\ notes[k].first <= noteClock /\ Len(mailed'[k]) <= 1
              /\ mailed'[k] # << >> => notes[k].first > 0 /\ mailed'[k][1] >= notes[k].first
    <3>1. CASE k = n BY <1>0, <1>3, <2>2, <3>1 DEF InWindow
    <3>2. CASE k # n BY <1>0, <1>3, <3>2 DEF InWindow
    <3>. QED BY <3>1, <3>2
  <2>. QED BY <1>0, <2>1, <2>3 DEF InWindow
<1>8. NothingDenied'
  <2>1. ASSUME NEW k \in Notes, notes[k].state \in Denies PROVE Untouched(k)'
    <3>1. Untouched(k) /\ k # n BY <1>2, <2>1 DEF NoteInv, NothingDenied, Untouched
    <3>2. Unsent(k)' BY <1>0, <1>3, <3>1 DEF Untouched, Unsent
    <3>3. \A c \in Senders : senders'[c].n = k => senders'[c].pc \notin AtWire BY <1>5, <3>1 DEF Untouched
    <3>. QED BY <3>2, <3>3 DEF Untouched
  <2>. QED BY <1>0, <2>1 DEF NothingDenied
<1>9. NothingInvented' BY <1>0, <1>3 DEF NoteInv, NothingInvented
<1>10. ASSUME NEW c \in Senders PROVE SenderOk(senders[c])'
  <2>1. SenderOk(senders[c]) BY DEF NoteInv
  <2>2. CASE senders'[c] = senders[c] BY <1>0, <1>3, <2>1, <2>2 DEF SenderOk, Reads, Owns, Reading, AtWire
  <2>3. CASE senders'[c] # senders[c]
    <3>1. /\ senders[c].pc = "send" /\ senders[c].n = n /\ senders'[c].pc = "finish" /\ senders'[c].n = n /\ senders'[c].out = out
          /\ senders'[c].rec = senders[c].rec
      BY <1>5, <2>3
    <3>. QED BY <1>0, <1>4, <2>1, <3>1 DEF SenderOk, Reads, Owns, Reading, AtWire
  <2>. QED BY <2>2, <2>3
<1>11. ASSUME NEW c \in Senders PROVE Alone(c)'
  <2>1. Alone(c) /\ SenderOk(senders[c]) BY DEF NoteInv
  <2>2. /\ senders'[c].n = senders[c].n /\ senders'[c].rec = senders[c].rec /\ senders'[c].uncertain = senders[c].uncertain
        /\ senders'[c].pc = senders[c].pc \/ (senders[c].pc = "send" /\ senders'[c].pc = "finish" /\ senders[c].n = n /\ senders'[c].out = out)
        /\ senders'[c].pc = senders[c].pc => senders'[c] = senders[c]
    BY <1>5
  <2>3. SUFFICES ASSUME senders'[c].pc \in AtWire \cup {"finish"}, ~senders'[c].uncertain,
                        senders'[c].rec.rev = notes[senders'[c].n].rev
                 PROVE  /\ \A d \in Senders : d # c /\ senders'[d].n = senders'[c].n => senders'[d].pc \notin AtWire
                        /\ senders'[c].pc = "check" \/ (senders'[c].pc = "finish" /\ senders'[c].out = "failed")
                             => mailed'[senders'[c].n] = << >> /\ \A v \in wire' : v.n # senders'[c].n
                        /\ senders'[c].pc = "send" => \A v \in wire' : v.n = senders'[c].n =>
                             mailed'[senders'[c].n] = << >> /\ \A u \in wire' : u.n = senders'[c].n => u = v
    BY <1>0 DEF Alone, Unsent
  <2>4. senders[c].pc \in AtWire \cup {"finish"} BY <2>2, <2>3 DEF AtWire
  <2>5. /\ \A d \in Senders : d # c /\ senders[d].n = senders[c].n => senders[d].pc \notin AtWire
        /\ senders[c].pc = "check" \/ (senders[c].pc = "finish" /\ senders[c].out = "failed") => Unsent(senders[c].n)
        /\ senders[c].pc = "send" => \A v \in wire : v.n = senders[c].n =>
             mailed[senders[c].n] = << >> /\ \A u \in wire : u.n = senders[c].n => u = v
    BY <2>1, <2>2, <2>3, <2>4 DEF Alone
  <2>6. \A d \in Senders : d # c /\ senders'[d].n = senders'[c].n => senders'[d].pc \notin AtWire
    <3>1. ASSUME NEW d \in Senders, d # c, senders'[d].n = senders'[c].n PROVE senders'[d].pc \notin AtWire
      <4>1. senders'[d] = senders[d] \/ (senders[d].n = n /\ senders'[d].n = n /\ senders'[d].pc = "finish") BY <1>5
      <4>. QED BY <2>2, <2>5, <3>1, <4>1 DEF AtWire
    <3>. QED BY <3>1
  <2>7. CASE senders[c].n # n
    <3>1. senders'[c] = senders[c] BY <2>2, <2>7
    <3>2. senders[c].n \in Notes BY <2>1, <2>4 DEF SenderOk, AtWire
    <3>3. mailed'[senders[c].n] = mailed[senders[c].n] BY <1>3, <2>7, <3>2
    <3>. QED BY <1>0, <2>5, <2>6, <3>1, <3>3 DEF Unsent
  <2>8. CASE senders[c].n = n
    <3>1. senders[c].pc # "check" /\ ~(senders[c].pc = "finish" /\ senders[c].out = "failed") BY <1>2, <2>5, <2>8
    <3>2. senders[c].pc = "send" => mailed[n] = << >> /\ \A u \in wire : u.n = n => u = w BY <1>1, <2>5, <2>8
    <3>3. senders[c].pc = "send" => \A u \in wire' : u.n # n BY <1>0, <3>2
    <3>4. CASE senders'[c] = senders[c] BY <2>6, <2>8, <3>1, <3>3, <3>4 DEF AtWire
    <3>5. CASE senders'[c] # senders[c]
      <4>1. senders[c].pc = "send" /\ senders'[c].pc = "finish" /\ senders'[c].out = out /\ senders'[c].n = n BY <2>2, <2>8, <3>5
      <4>2. out = "failed" => mailed'[n] = << >> /\ \A v \in wire' : v.n # n BY <1>4, <3>2, <3>3, <4>1
      <4>. QED BY <2>6, <4>1, <4>2
    <3>. QED BY <3>4, <3>5
  <2>. QED BY <2>7, <2>8
<1>. QED BY <1>6, <1>7, <1>8, <1>9, <1>10, <1>11 DEF NoteInv


LEMMA DispatchedStays == ASSUME Dispatched, [NoteNext]_noteVars PROVE Dispatched'
<1>2. ASSUME NEW c \in dispatch, DispatchNote(c) \/ DispatchLost(c) PROVE Dispatched'
  <2>1. c \in [n : Notes, step : {"enqueue", "record", "retry"}, requeue : BOOLEAN] BY DEF Dispatched
  <2>2. \A step \in {"record", "retry"} : [c EXCEPT !.step = step] \in [n : Notes, step : {"enqueue", "record", "retry"}, requeue : BOOLEAN]
    BY <2>1
  <2>3. dispatch' \subseteq dispatch \cup {[c EXCEPT !.step = "record"], [c EXCEPT !.step = "retry"]}
    <3>1. CASE DispatchLost(c) BY <3>1 DEF DispatchLost
    <3>2. CASE DispatchNote(c) /\ c.step = "enqueue" BY <3>2 DEF DispatchNote
    <3>3. CASE DispatchNote(c) /\ c.step = "record" BY <3>3 DEF DispatchNote
    <3>4. CASE DispatchNote(c) /\ c.step = "retry" BY <3>4 DEF DispatchNote
    <3>. QED BY <1>2, <2>1, <3>1, <3>2, <3>3, <3>4
  <2>. QED BY <2>2, <2>3 DEF Dispatched
<1>3. CASE UNCHANGED noteVars BY <1>3 DEF noteVars, Dispatched
<1>4. ASSUME NEW n \in Notes, Submit(n) \/ SetPreference(n) \/ Requeue(n) \/ Reconcile(n) \/ LeaseLost(n) \/ MarkDelivered(n)
      PROVE Dispatched'
  <2>1. dispatch' \subseteq dispatch \cup {Calls(n, "enqueue", TRUE), Calls(n, "enqueue", FALSE)}
    <3>1. CASE Submit(n) BY <3>1 DEF Submit
    <3>2. CASE Requeue(n) BY <3>2 DEF Requeue
    <3>3. CASE Reconcile(n) BY <3>3 DEF Reconcile
    <3>4. CASE SetPreference(n) \/ LeaseLost(n) \/ MarkDelivered(n) BY <3>4 DEF SetPreference, LeaseLost, MarkDelivered
    <3>. QED BY <1>4, <3>1, <3>2, <3>3, <3>4
  <2>2. \A q \in BOOLEAN : Calls(n, "enqueue", q) \in [n : Notes, step : {"enqueue", "record", "retry"}, requeue : BOOLEAN]
    BY DEF Calls
  <2>. QED BY <2>1, <2>2 DEF Dispatched
<1>5. CASE NoteTick \/ NoteWork \/ (\E w \in wire : Arrive(w)) BY <1>5 DEF NoteTick, NoteWork, Deliver, Arrive, Dispatched
<1>6. ASSUME NEW s \in Senders, SenderStep(s) \/ Dies(s) PROVE Dispatched'
  BY <1>6 DEF SenderStep, Get, Expire, Window, GiveUp, ClaimNote, Check, Unanswered, Finish, Dies, Dispatched
<1>. QED BY <1>2, <1>3, <1>4, <1>5, <1>6 DEF NoteNext

LEMMA NoteStep == NoteInv /\ Dispatched /\ [NoteNext]_noteVars => NoteInv' /\ Dispatched'
<1>. SUFFICES ASSUME NoteInv, Dispatched, [NoteNext]_noteVars PROVE NoteInv' BY DispatchedStays
<1>1. CASE UNCHANGED noteVars
  <2>1. NoteTypes' BY <1>1 DEF noteVars, NoteInv, NoteTypes
  <2>. QED BY <1>1, <2>1, JobsChange DEF noteVars
<1>2. ASSUME NEW s \in Senders, SenderStep(s) \/ Dies(s) PROVE NoteInv'
  <2>1. CASE Dies(s)
    <3>1. senders[s].pc # "idle" /\ Ends(s, TRUE) /\ UNCHANGED <<noteClock, notes, wire, mailed>> /\ TRUE \in BOOLEAN
      BY <2>1 DEF Dies, SAt
    <3>. QED BY <3>1, EndingKeeps
  <2>. QED BY <1>2, <2>1, GetKeeps, ExpireKeeps, WindowKeeps, GiveUpKeeps, ClaimNoteKeeps, CheckKeeps, UnansweredKeeps,
              FinishKeeps DEF SenderStep
<1>3. CASE NoteTick \/ NoteWork BY <1>3, TickKeeps, DeliverKeeps DEF NoteWork
<1>4. CASE \E n \in Notes : Submit(n) \/ SetPreference(n) \/ Requeue(n) \/ Reconcile(n) \/ LeaseLost(n) \/ MarkDelivered(n)
  BY <1>4, CallersKeep
<1>5. CASE \E c \in dispatch : DispatchNote(c) \/ DispatchLost(c) BY <1>5, DispatchNoteKeeps
<1>6. CASE \E w \in wire : Arrive(w) BY <1>6, ArriveKeeps
<1>. QED BY <1>1, <1>2, <1>3, <1>4, <1>5, <1>6, DispatchedStays DEF NoteNext

(* Nobody gets two messages, and no record claims what did not happen or   *)
(* denies what may have, for any number of notifications and of senders,   *)
(* and any timing within the margin.                                       *)
THEOREM NotesAreAlwaysHonest == NoteSpec => []NotesAreHonest
<1>1. NoteInit => Dispatched BY DEF NoteInit, Dispatched
<1>2. NoteInv => NotesAreHonest
  <2>1. SUFFICES ASSUME NoteInv PROVE NotesAreHonest OBVIOUS
  <2>2. MailedOnce BY <2>1 DEF NoteInv, InWindow, MailedOnce
  <2>3. RecordIsHonest
    BY <2>1 DEF NoteInv, NothingDenied, NothingInvented, Untouched, Unsent, Denies, RecordIsHonest
  <2>. QED BY <2>2, <2>3 DEF NotesAreHonest
<1>. QED BY <1>1, <1>2, NoteStarts, NoteStep, PTL DEF NoteSpec
=============================================================================
