-------------------------------- MODULE Cache --------------------------------
(***************************************************************************)
(* The cache (packages/cache): getOrSet() with its shared flights, set(),  *)
(* delete(), invalidate() and close() of service families over one         *)
(* adapter, for one scope and one key.                                     *)
(*                                                                         *)
(* A value is the version of the source it was read from.  An adapter      *)
(* command is one step; a flight's `pc' is the await it stands at.         *)
(* Abstracted: encoding, sizes, the LRU order (an entry may go at any      *)
(* time) and child scopes, whose keys are disjoint.                        *)
(*                                                                         *)
(* Definitions introduced by `Slip:' are not part of the model: each is a  *)
(* plausible mistake in the definition that follows it, and the mutation   *)
(* runs check that some property notices it.                               *)
(***************************************************************************)
EXTENDS Integers, FiniteSets

CONSTANTS Families,        \* services created over the adapter
          FlightsOf,       \* FlightsOf[h]: its slots for loads, config.maxInFlight many
          Mutations,       \* slots of set, delete and invalidate calls
          MaxSource,       \* bound: versions of the source
          MaxGeneration    \* bound: tokens of the namespace

VARIABLES source,       \* the version the source holds
          generation,   \* the namespace's token
          entry,        \* the key's entry
          flights, mutations, closedFamilies,
          floors,       \* floors[h], of a family that loads: the version its last completed mutation knew of
          invalidated   \* the same of the last completed invalidate() of any family

Flights == UNION {FlightsOf[h] : h \in Families}
cacheVars == <<source, generation, entry, flights, mutations, closedFamilies, floors, invalidated>>

NoEntry == [gen |-> 0, val |-> 0, by |-> 0, from |-> "none"]
NoFlight == [pc |-> "idle", h |-> 0, keep |-> TRUE, gen |-> 0, val |-> 0,
             writable |-> FALSE, attached |-> FALSE, aborted |-> FALSE, floor |-> 1]
NoMutation == [pc |-> "idle", h |-> 0, op |-> "none", gen |-> 0, at |-> 0, waits |-> {}]

CacheInit == /\ source = 1 /\ generation = 1 /\ entry = NoEntry
             /\ flights = [f \in Flights |-> NoFlight]
             /\ mutations = [c \in Mutations |-> NoMutation]
             /\ closedFamilies = {}
             /\ floors = [h \in {h \in Families : FlightsOf[h] # {}} |-> 1] /\ invalidated = 1

FAt(f, pc) == flights[f].pc = pc
Flies(f, pc) == flights' = [flights EXCEPT ![f].pc = pc]
Lands(f) == flights' = [flights EXCEPT ![f] = NoFlight]   \* settle()
Larger(a, b) == IF a < b THEN b ELSE a

(* The application changes what it caches.                                 *)
Update == /\ source < MaxSource /\ source' = source + 1
          /\ UNCHANGED <<generation, entry, flights, mutations, closedFamilies, floors, invalidated>>

(* The entry expires or is evicted, or the namespace's token is.           *)
Evict == /\ entry # NoEntry /\ entry' = NoEntry
         /\ generation' \in {generation, IF generation < MaxGeneration THEN generation + 1 ELSE generation}
         /\ UNCHANGED <<source, flights, mutations, closedFamilies, floors, invalidated>>

-----------------------------------------------------------------------------
(***************************************************************************)
(* getOrSet()                                                              *)
(***************************************************************************)
Attached(h) == {f \in Flights : flights[f].h = h /\ flights[f].attached}

GetOrSet(h, f) ==
  /\ h \notin closedFamilies
  /\ \/ /\ f \in Attached(h)
        /\ flights' = [flights EXCEPT ![f].floor = Larger(@, floors[h])]
     \/ /\ Attached(h) = {} /\ FAt(f, "idle")
        /\ \E keep \in BOOLEAN :   \* ttlMs > 0
             flights' = [flights EXCEPT ![f] = [NoFlight EXCEPT !.pc = "generation", !.h = h, !.keep = keep,
                           !.writable = TRUE, !.attached = TRUE, !.floor = floors[h]]]
  /\ UNCHANGED <<source, generation, entry, mutations, closedFamilies, floors, invalidated>>

(* read(): the generation, then the entry under it.  A failure is a miss   *)
(* without a generation, or the end.                                       *)
ReadGeneration(f) ==
  /\ FAt(f, "generation")
  /\ \/ flights' = [flights EXCEPT ![f].gen = generation, ![f].pc = "read"]
     \/ Lands(f) \/ Flies(f, "load")
  /\ UNCHANGED <<source, generation, entry, mutations, closedFamilies, floors, invalidated>>

Read(f) ==
  /\ FAt(f, "read")
  /\ LET w == flights[f]
         hit == entry # NoEntry /\ entry.gen = w.gen /\ w.gen = generation
     IN flights' = [flights EXCEPT ![f] =
          CASE w.keep /\ hit -> NoFlight
            [] ~w.keep /\ w.writable -> [w EXCEPT !.pc = "unset"]
            [] OTHER -> [w EXCEPT !.pc = "load"]]
  /\ UNCHANGED <<source, generation, entry, mutations, closedFamilies, floors, invalidated>>

(* A mutation that drains this flight's command waits no longer.           *)
Drained(f) == mutations' = [c \in Mutations |-> [mutations[c] EXCEPT !.waits = @ \ {f}]]

(* A flight that does not keep its value deletes the entry first.          *)
Unset(f) ==
  /\ FAt(f, "unset")
  /\ entry' = IF flights[f].gen = generation THEN NoEntry ELSE entry
  /\ IF flights[f].aborted THEN Lands(f) ELSE Flies(f, "load")
  /\ Drained(f)
  /\ UNCHANGED <<source, generation, closedFamilies, floors, invalidated>>

(* The loader reads the source, and returns some time later.               *)
Load(f) ==
  /\ FAt(f, "load")
  /\ flights' = [flights EXCEPT ![f].pc = "loaded", ![f].val = source]
  /\ UNCHANGED <<source, generation, entry, mutations, closedFamilies, floors, invalidated>>

Loaded(f) ==
  /\ FAt(f, "loaded")
  /\ CASE flights[f].aborted -> Lands(f)
       [] ~flights[f].aborted /\ flights[f].keep /\ flights[f].writable /\ flights[f].gen > 0 -> Flies(f, "write")
       [] OTHER -> Flies(f, "settle")
  /\ UNCHANGED <<source, generation, entry, mutations, closedFamilies, floors, invalidated>>

(* adapter.set stores under the current generation only; a failed command  *)
(* may have been carried out.                                              *)
Write(f) ==
  /\ FAt(f, "write")
  /\ LET stored == [gen |-> generation, val |-> flights[f].val, by |-> flights[f].h, from |-> "load"]
     IN \/ /\ entry' = IF flights[f].gen = generation THEN stored ELSE entry
           /\ Flies(f, "settle") \/ Lands(f)
        \/ UNCHANGED entry /\ Lands(f)
  /\ Drained(f)
  /\ UNCHANGED <<source, generation, closedFamilies, floors, invalidated>>

(* The waiters get the value.                                              *)
Settle(f) == /\ FAt(f, "settle")
             /\ Lands(f)
             /\ UNCHANGED <<source, generation, entry, mutations, closedFamilies, floors, invalidated>>

(* controller.abort(): but for a command already dispatched, only the end  *)
(* is left of the flight, and it keeps its slot until then.                *)
Abort(w) == IF w.pc = "idle" THEN w
            ELSE IF w.pc \in {"write", "unset"} THEN [w EXCEPT !.writable = FALSE, !.attached = FALSE, !.aborted = TRUE, !.floor = 1]
            ELSE [NoFlight EXCEPT !.pc = "loaded", !.h = w.h, !.aborted = TRUE]

(* The last waiter's signal takes the load with it.                        *)
Leave(f) ==
  /\ flights[f].pc \notin {"idle", "settle"} /\ ~flights[f].aborted
  /\ flights' = [flights EXCEPT ![f] = Abort(@)]
  /\ UNCHANGED <<source, generation, entry, mutations, closedFamilies, floors, invalidated>>

Close(h) ==
  /\ h \notin closedFamilies
  /\ closedFamilies' = closedFamilies \cup {h}
  /\ flights' = [f \in Flights |-> IF flights[f].h = h THEN Abort(flights[f]) ELSE flights[f]]
  /\ UNCHANGED <<source, generation, entry, mutations, floors, invalidated>>

-----------------------------------------------------------------------------
(***************************************************************************)
(* set(), delete() and invalidate()                                        *)
(***************************************************************************)

(* Slip: a fenced flight can still be joined.                              *)
FenceKeeps(h) == [f \in Flights |-> IF flights[f].h # h THEN flights[f] ELSE
                                      [flights[f] EXCEPT !.writable = FALSE]]

(* fence(): no flight of this family will write or be joined any more.     *)
Fence(h) == [f \in Flights |-> IF flights[f].h # h THEN flights[f] ELSE
                                 [flights[f] EXCEPT !.writable = FALSE, !.attached = FALSE]]

(* The commands it has to wait for, of flights detached before too.        *)
Dispatched(h) == {f \in Flights : flights[f].h = h /\ flights[f].pc \in {"write", "unset"}}

Mutate(c, h, op) ==
  /\ mutations[c].pc = "idle" /\ h \notin closedFamilies
  /\ flights' = Fence(h)
  /\ mutations' = [mutations EXCEPT ![c] = [NoMutation EXCEPT !.pc = "drain", !.h = h, !.op = op, !.at = source,
                                              !.waits = Dispatched(h)]]
  /\ UNCHANGED <<source, generation, entry, closedFamilies, floors, invalidated>>

Drain(c) ==
  /\ mutations[c].pc = "drain" /\ mutations[c].waits = {}
  /\ mutations' = [mutations EXCEPT ![c].pc = "apply",
                     ![c].gen = IF mutations[c].op = "invalidate" THEN 0 ELSE generation]   \* adapter.generation
  /\ UNCHANGED <<source, generation, entry, flights, closedFamilies, floors, invalidated>>

Apply(c) ==
  /\ mutations[c].pc = "apply"
  /\ mutations[c].op = "invalidate" => generation < MaxGeneration
  /\ LET m == mutations[c]
         current == m.gen = generation
         applied == [entry |-> CASE m.op = "set" /\ current -> [NoEntry EXCEPT !.gen = generation, !.from = "set"]
                                 [] m.op = "set" /\ ~current -> entry
                                 [] m.op = "delete" -> IF current THEN NoEntry ELSE entry
                                 [] OTHER -> NoEntry,
                     gen |-> IF m.op = "invalidate" THEN generation + 1 ELSE generation]
     IN \/ /\ entry' = applied.entry /\ generation' = applied.gen
           /\ floors' = [h \in DOMAIN floors |-> IF h # m.h \/ (m.op = "set" /\ ~current) THEN floors[h]
                                                  ELSE Larger(floors[h], m.at)]
           /\ invalidated' = IF m.op = "invalidate" THEN Larger(invalidated, m.at) ELSE invalidated
        \/ \* bypassed, or thrown; the command may have been carried out
           /\ \/ entry' = applied.entry /\ generation' = applied.gen
              \/ UNCHANGED <<entry, generation>>
           /\ UNCHANGED <<floors, invalidated>>
  /\ mutations' = [mutations EXCEPT ![c] = NoMutation]
  /\ UNCHANGED <<source, flights, closedFamilies>>

-----------------------------------------------------------------------------
FlightStep(f) == \/ ReadGeneration(f) \/ Read(f) \/ Unset(f) \/ Load(f) \/ Loaded(f) \/ Write(f) \/ Settle(f)

(* Bound: a family without flights stands for other processes, of which    *)
(* only invalidations concern this one.                                    *)
MayMutate(h, op) == FlightsOf[h] = {} => op = "invalidate"

CacheNext == \/ Update \/ Evict
             \/ \E h \in Families : \E f \in FlightsOf[h] : GetOrSet(h, f)
             \/ \E h \in Families : FlightsOf[h] # {} /\ Close(h)
             \/ \E f \in Flights : FlightStep(f) \/ Leave(f)
             \/ \E c \in Mutations : \/ Drain(c) \/ Apply(c)
                                     \/ \E h \in Families, op \in {"set", "delete", "invalidate"} :
                                          MayMutate(h, op) /\ Mutate(c, h, op)

CacheSpec == CacheInit /\ [][CacheNext]_cacheVars

-----------------------------------------------------------------------------
(* What a load has left in the cache is not older than a mutation its own  *)
(* family has completed, nor than an invalidation any family has, although *)
(* loads were under way and their commands dispatched (fence, and the      *)
(* generation that adapter.set compares).                                  *)
EntryIsFresh ==
  entry.from = "load" /\ entry.gen = generation =>
    entry.val >= floors[entry.by] /\ entry.val >= invalidated

(* A caller never gets a loaded value older than the mutations its family  *)
(* had completed when it called: it does not join a load that began before *)
(* them (fence detaches the flight).                                       *)
AnswerIsFresh ==
  \A f \in Flights : FAt(f, "settle") => flights[f].val >= flights[f].floor

(* Both: neither the cache nor a caller is left with what a mutation has   *)
(* made old.                                                               *)
CacheIsFresh == EntryIsFresh /\ AnswerIsFresh
=============================================================================
