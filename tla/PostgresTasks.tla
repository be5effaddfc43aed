---------------------------- MODULE PostgresTasks ----------------------------
(***************************************************************************)
(* The PostgreSQL provider of @lenso/tasks (packages/tasks/src/postgres.ts)*)
(* keeps a job in two tables: pg-boss's, which knows the state and the     *)
(* attempts, and its own relation, which knows the key, the input and the  *)
(* request to cancel.  Neither alone says what became of a job.            *)
(*                                                                         *)
(* settle, cancel and retry lock pg-boss's row first.  pg-boss ends a      *)
(* failed attempt by deleting the row and inserting it again, so that a    *)
(* lock that waited for it comes back empty-handed although the job is     *)
(* there; `copy' counts the replacements.  Once the lock is held the rest  *)
(* of the transaction is one step.  pg-boss itself is modelled by what the *)
(* provider relies on: supervision may end any active attempt, because its *)
(* heartbeat or its lifetime may be over, and knows nothing of requests to *)
(* cancel; pruning may remove any job that is not active.                  *)
(*                                                                         *)
(* Any claim that was ever handed out may be settled, however late.        *)
(* Abstracted: times, outputs, traces, reads (get, list, lookup, touch),   *)
(* opening and closing.                                                    *)
(*                                                                         *)
(* The definition introduced by `Slip:' is not part of the model: it is a  *)
(* plausible mistake in the one that follows it, and a mutation run checks *)
(* that a property notices it.                                             *)
(***************************************************************************)
EXTENDS Integers, Sequences

CONSTANTS PgJobs,         \* the UUIDs that enqueue may draw
          PgKeys,         \* deduplication keys; "none" among them for jobs without one
          PgInputs,       \* task name and input of a job
          PgCalls,        \* concurrent transactions of workers and operators
          PgAttempts,     \* maxAttempts of the task
          MaxPgRetries    \* bound: how often an operator retries one job

ASSUME PgAssumption == PgAttempts \in Nat \ {0} /\ MaxPgRetries \in Nat
                       /\ "none" \notin PgInputs   \* no input is an input

VARIABLES boss,       \* boss[j]: pg-boss's row
          relation,   \* relation[j]: the row of lenso_task_relation
          pgCalls,    \* pgCalls[c]: the transaction of c
          ended,      \* history: the attempts of j that ended, in order
          accepted,   \* history: what enqueue answered
          told        \* history: what cancel answered about jobs
pgVars == <<boss, relation, pgCalls, ended, accepted, told>>

NoJob == [state |-> "absent", count |-> 0, limit |-> 0, started |-> FALSE, copy |-> 0]
NoRelation == [key |-> "none", input |-> "none", cancel |-> FALSE]
NoTransaction == [pc |-> "idle"]

PgInit == /\ boss = [j \in PgJobs |-> NoJob] /\ relation = [j \in PgJobs |-> NoRelation]
          /\ pgCalls = [c \in PgCalls |-> NoTransaction]
          /\ ended = [j \in PgJobs |-> <<>>] /\ accepted = {} /\ told = {}

Known(j) == relation[j].input # "none"
Kept(j) == boss[j].state \notin {"absent", "gone"}
Attempt(j) == IF boss[j].started THEN boss[j].count + 1 ELSE 0

-----------------------------------------------------------------------------
(* pg-boss.                                                                *)

(* fetch: an attempt after the first advances retry_count.                 *)
BossFetch(j) ==
  /\ boss[j].state \in {"created", "retry"}
  /\ boss' = [boss EXCEPT ![j].state = "active", ![j].started = TRUE,
                          ![j].count = IF boss[j].started THEN @ + 1 ELSE @]
  /\ UNCHANGED <<relation, pgCalls, ended, accepted, told>>

(* fail: by deleting and inserting the row.                                *)
Failed(row) == [row EXCEPT !.state = IF row.count < row.limit THEN "retry" ELSE "failed", !.copy = @ + 1]

Supervise(j) ==
  /\ boss[j].state = "active"
  /\ boss' = [boss EXCEPT ![j] = Failed(boss[j])]
  /\ ended' = [ended EXCEPT ![j] = Append(@, Attempt(j))]
  /\ UNCHANGED <<relation, pgCalls, accepted, told>>

BossPrune(j) ==
  /\ Kept(j) /\ boss[j].state # "active"
  /\ boss' = [boss EXCEPT ![j] = [NoJob EXCEPT !.state = "gone"]]
  /\ UNCHANGED <<relation, pgCalls, ended, accepted, told>>

-----------------------------------------------------------------------------
(* enqueue: the relation's unique key decides, in one transaction.         *)
HoldersOf(key) == {j \in PgJobs : Known(j) /\ key # "none" /\ relation[j].key = key}

PgEnqueue(j, key, input) ==
  /\ ~Known(j)
  /\ IF HoldersOf(key) = {}
     THEN /\ relation' = [relation EXCEPT ![j] = [key |-> key, input |-> input, cancel |-> FALSE]]
          /\ boss' = [boss EXCEPT ![j] = [NoJob EXCEPT !.state = "created", !.limit = PgAttempts - 1]]
          /\ accepted' = accepted \cup {<<key, input, j>>}
     ELSE /\ accepted' = accepted \cup {<<key, input, i>> : i \in {h \in HoldersOf(key) : relation[h].input = input /\ Kept(h)}}
          /\ UNCHANGED <<boss, relation>>
  /\ UNCHANGED <<pgCalls, ended, told>>

-----------------------------------------------------------------------------
(* lockedJob, and what follows it.                                         *)

(* The statement begins: it sees the copy of the row that is there.        *)
Locking(c, call) == pgCalls' = [pgCalls EXCEPT ![c] = call]

BeginPg(c) ==
  /\ pgCalls[c].pc = "idle"
  /\ \E j \in PgJobs :
       /\ Known(j)
       /\ \/ \E a \in 1 .. Attempt(j), ok \in BOOLEAN :
               Locking(c, [pc |-> "lock", op |-> "settle", job |-> j, attempt |-> a, ok |-> ok, copy |-> boss[j].copy, tries |-> 1])
          \/ \E op \in {"cancel", "retry"} :
               Locking(c, [pc |-> "lock", op |-> op, job |-> j, attempt |-> 0, ok |-> FALSE, copy |-> boss[j].copy, tries |-> 1])
  /\ UNCHANGED <<boss, relation, ended, accepted, told>>

Finishes(c) == pgCalls' = [pgCalls EXCEPT ![c] = NoTransaction]

SettleLocked(c, j) ==
  LET row == boss[j]
  IN /\ IF row.state = "active" /\ Attempt(j) = pgCalls[c].attempt
        THEN /\ boss' = [boss EXCEPT ![j] = IF relation[j].cancel THEN [row EXCEPT !.state = "cancelled"]
                                            ELSE IF pgCalls[c].ok THEN [row EXCEPT !.state = "completed"]
                                            ELSE Failed(row)]
             /\ ended' = [ended EXCEPT ![j] = Append(@, Attempt(j))]
        ELSE UNCHANGED <<boss, ended>>
     /\ UNCHANGED <<relation, told>>

CancelLocked(j) ==
  LET over == boss[j].state \in {"completed", "failed", "cancelled"}
      answer == IF over THEN "terminal" ELSE IF boss[j].state = "active" THEN "requested" ELSE "cancelled"
  IN /\ relation' = IF over THEN relation ELSE [relation EXCEPT ![j].cancel = TRUE]
     /\ boss' = IF answer = "cancelled" THEN [boss EXCEPT ![j].state = "cancelled"] ELSE boss
     /\ told' = told \cup {<<j, answer>>}
     /\ UNCHANGED ended

(* retry: one attempt more, and the request to cancel is taken back.       *)
RetryLocked(j) ==
  /\ IF boss[j].state = "failed"
     THEN /\ boss[j].limit < PgAttempts - 1 + MaxPgRetries
          /\ boss' = [boss EXCEPT ![j].state = "retry", ![j].limit = @ + 1]
          /\ relation' = [relation EXCEPT ![j].cancel = FALSE]
          /\ told' = told \ {<<j, "requested">>}
     ELSE UNCHANGED <<boss, relation, told>>
  /\ UNCHANGED ended

Locked(c) ==
  /\ pgCalls[c].pc = "lock"
  /\ LET j == pgCalls[c].job
     IN /\ Kept(j) /\ boss[j].copy = pgCalls[c].copy
        /\ CASE pgCalls[c].op = "settle" -> SettleLocked(c, j)
             [] pgCalls[c].op = "cancel" -> CancelLocked(j)
             [] pgCalls[c].op = "retry" -> RetryLocked(j)
  /\ Finishes(c) /\ UNCHANGED accepted

(* The row is gone, or it was replaced while the statement waited.         *)
MissesLock(c) ==
  /\ pgCalls[c].pc = "lock"
  /\ ~Kept(pgCalls[c].job) \/ boss[pgCalls[c].job].copy # pgCalls[c].copy
  /\ pgCalls' = [pgCalls EXCEPT ![c].pc = "look"]
  /\ UNCHANGED <<boss, relation, ended, accepted, told>>

(* Slip: what was not locked is not there.                                 *)
RetainedLocked(j) == FALSE

Retained(j) == Kept(j)

(* A fresh statement tells; after three misses the caller must try again.  *)
LooksAgain(c) ==
  LET call == pgCalls[c]
      j == call.job
  IN /\ call.pc = "look"
     /\ IF Retained(j) /\ call.tries < 3
        THEN pgCalls' = [pgCalls EXCEPT ![c].pc = "lock", ![c].copy = boss[j].copy, ![c].tries = @ + 1]
        ELSE Finishes(c)
     /\ told' = told \cup IF ~Retained(j) /\ call.op = "cancel" THEN {<<j, "missing">>} ELSE {}
     /\ UNCHANGED <<boss, relation, ended, accepted>>

PgNext == \/ \E j \in PgJobs : BossFetch(j) \/ Supervise(j) \/ BossPrune(j)
          \/ \E j \in PgJobs, key \in PgKeys, input \in PgInputs : PgEnqueue(j, key, input)
          \/ \E c \in PgCalls : BeginPg(c) \/ Locked(c) \/ MissesLock(c) \/ LooksAgain(c)

-----------------------------------------------------------------------------
(* What cancel answered stays true: a job said to be cancelled is never    *)
(* claimed again, one said to be missing is not kept, and no result        *)
(* overtakes a request until retry takes it back, although attempts are    *)
(* supervised, settled late and replaced under the lock (lockedJob,        *)
(* settle, cancel, retry).                                                 *)
AnswersHold ==
  \A r \in told : LET state == boss[r[1]].state
                  IN /\ r[2] = "cancelled" => state \in {"cancelled", "gone"}
                     /\ r[2] = "missing" => state = "gone"
                     /\ r[2] = "requested" => state # "completed"

(* Every attempt that pg-boss handed out ends once, in order, whoever      *)
(* settles it and however late, and none exceeds the budget (settle's      *)
(* comparison of retry_count under the lock).                              *)
PgAttemptsEndOnce ==
  \A j \in PgJobs : /\ \A n \in 1 .. Len(ended[j]) : ended[j][n] = n
                    /\ Kept(j) => /\ Len(ended[j]) = IF boss[j].state = "active" THEN boss[j].count ELSE Attempt(j)
                                  /\ boss[j].count <= boss[j].limit

(* A key names one job with one input for ever, although the job is pruned *)
(* (enqueue: "Dedup mappings intentionally remain").                       *)
PgKeyIsStable == \A r, s \in accepted : r[1] = s[1] /\ r[1] # "none" => r = s

PostgresIsSound == AnswersHold /\ PgAttemptsEndOnce /\ PgKeyIsStable

PgSpec == PgInit /\ [][PgNext]_pgVars
=============================================================================
