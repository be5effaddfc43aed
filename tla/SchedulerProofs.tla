-------------------------- MODULE SchedulerProofs --------------------------
(***************************************************************************)
(* Theorems about Scheduler.tla, for any number of schedules, hosts and    *)
(* editors, and all periods, leases, limits and skews, and about           *)
(* Media.tla, for any number of attempts, calls and faults: the two        *)
(* components that MCQueued runs side by side.                             *)
(*                                                                         *)
(* The scheduler's argument is about revisions.  Every write of a schedule *)
(* raises its revision, so whoever finds the revision it read finds the    *)
(* row it read (SeenOK); the cursor it moves is therefore the current one, *)
(* and lies beyond everything reserved of the same definition              *)
(* (ReservedOK).                                                           *)
(*                                                                         *)
(* The media's argument is about attempts that are lost: neither executing *)
(* nor published.  Only those are removed (SweepOK), and none comes back,  *)
(* so what was published stays (AttemptOK).  That a recovery is complete   *)
(* rests on what a clean one knows of the objects ahead of it (CleanOK).   *)
(***************************************************************************)
EXTENDS Scheduler, Media, WellFoundedInduction, FiniteSetTheorems, FunctionTheorems, SequenceTheorems, TLAPS

Row == [state : {"absent", "active", "paused", "cancelled", "completed"},
        revision : Nat, nextAt : Nat, def : Definitions \cup {NULL}]

Due == [id : ScheduleIds, seen : Row]

OccurrenceIds == {ManualId(s, k) : s \in ScheduleIds, k \in RequestKeys}
                 \cup {TimerId(s, r, at) : s \in ScheduleIds, r \in Nat, at \in Nat}

Host == [pc : {"idle", "advance", "claim", "lookup", "authorize", "renew", "enqueue", "settle"},
         now : Nat, todo : Seq(Due), entry : OccurrenceIds \cup {NULL}, token : Nat, count : Nat,
         result : {"none", "enqueued", "dispatch-failed", "execution-denied", "dispatch-invalid"},
         jobId : Nat]

Editor == [pc : {"idle", "loaded"}, id : ScheduleIds \cup {NULL}, seen : Row]

SchedulerTypes ==
  /\ clock \in Nat /\ clock > Skew /\ edits \in Nat /\ faults \in Nat
  /\ schedules \in [ScheduleIds -> Row]
  /\ outbox \in [DOMAIN outbox -> Occurrences] /\ DOMAIN outbox \subseteq OccurrenceIds
  /\ queue \in [DOMAIN queue -> Nat] /\ DOMAIN queue \subseteq DOMAIN outbox
  /\ IsFiniteSet(DOMAIN outbox)
  /\ hosts \in [Hosts -> Host]
  /\ editors \in [Editors -> Editor]
  /\ epoch \in [ScheduleIds -> Nat]
  /\ reserved \subseteq ScheduleIds \X Nat \X Nat \X Nat

RowsOK ==
  /\ IsFiniteSet({s \in ScheduleIds : schedules[s].state # "absent"})
  /\ \A s \in ScheduleIds : IF schedules[s].state = "absent" THEN schedules[s] = NoSchedule
                            ELSE schedules[s].def \in Definitions

(* What was read of a schedule is its row, unless its revision has grown.  *)
SeenOK(s, seen) ==
  /\ s \in ScheduleIds /\ seen.state # "absent" /\ seen.def \in Definitions
  /\ seen.revision <= schedules[s].revision
  /\ seen.revision = schedules[s].revision => seen = schedules[s]

DueOK(item, now) ==
  /\ SeenOK(item.id, item.seen)
  /\ item.seen.nextAt # NULL /\ item.seen.nextAt <= now

HostOK(h) ==
  /\ hosts[h].pc = "advance" => /\ hosts[h].todo # <<>>
                                /\ \A n \in 1..Len(hosts[h].todo) : DueOK(hosts[h].todo[n], hosts[h].now)
  /\ hosts[h].pc \in {"lookup", "authorize", "renew", "enqueue", "settle"} =>
       hosts[h].entry \in DOMAIN outbox
  /\ hosts[h].pc = "settle" /\ hosts[h].result = "enqueued" =>
       hosts[h].entry \in DOMAIN queue /\ queue[hosts[h].entry] = hosts[h].jobId

EditorOK(e) == editors[e].pc = "loaded" => SeenOK(editors[e].id, editors[e].seen)

(* An occurrence of a timer belongs to an earlier revision.                *)
TimersOK == \A s \in ScheduleIds, r, at \in Nat :
              TimerId(s, r, at) \in DOMAIN outbox => r < schedules[s].revision

(* The cursor lies beyond what was reserved of the current definition.     *)
ReservedOK == \A x \in reserved :
  /\ x[2] <= epoch[x[1]]
  /\ x[2] = epoch[x[1]] /\ schedules[x[1]].nextAt # NULL => x[3] < schedules[x[1]].nextAt

(* The inductive invariant.                                                *)
SchedulerInv ==
  /\ SchedulerTypes
  /\ RowsOK
  /\ \A h \in Hosts : HostOK(h)
  /\ \A e \in Editors : EditorOK(e)
  /\ TimersOK
  /\ ReservedOK
  /\ InstantOnce
  /\ AcceptanceIsConfirmed

-----------------------------------------------------------------------------

LEMMA ConstantFacts ==
  /\ IsFiniteSet(Hosts) /\ Period \in Nat \ {0} /\ LeaseMs \in Nat \ {0}
  /\ ScheduleLimit \in Nat \ {0} /\ Skew \in Nat /\ 0 \notin ScheduleIds
  /\ \A d \in Definitions : d.at \in Nat /\ d.kind \in {"once", "cron"}
  BY ScheduleAssumption

LEMMA HostTimeFacts ==
  ASSUME SchedulerTypes, NEW t \in HostTimes
  PROVE  t \in Nat
  BY DEF HostTimes

(* nextTrigger is strictly after the instant it is asked about.            *)
LEMMA TriggerFacts ==
  ASSUME NEW d \in Definitions, NEW now \in Nat
  PROVE  /\ NextTrigger(d, now) \in Nat /\ FirstAt(d, now) \in Nat
         /\ NextTrigger(d, now) # NULL => NextTrigger(d, now) > now
  <1>1. CASE d.kind = "cron"
    <2>1. NextTrigger(d, now) = (now \div Period + 1) * Period /\ FirstAt(d, now) = NextTrigger(d, now)
      BY <1>1 DEF NextTrigger, FirstAt
    <2>2. (now \div Period + 1) * Period \in Nat /\ (now \div Period + 1) * Period > now
      BY ConstantFacts
    <2>. QED BY <2>1, <2>2
  <1>2. CASE d.kind # "cron"
    BY <1>2, ConstantFacts DEF NextTrigger, FirstAt, NULL
  <1>. QED BY <1>1, <1>2

(* Timer and manual occurrences are told apart by their ids.               *)
LEMMA IdFacts ==
  /\ \A s, k, r, at : ManualId(s, k) # TimerId(s, r, at)
  /\ \A s, k, q, r, at : ManualId(s, k) # TimerId(q, r, at)
  /\ \A s, r, at, q, p, b : TimerId(s, r, at) = TimerId(q, p, b) => s = q /\ r = p /\ at = b
  BY DEF ManualId, TimerId

LEMMA SchedulerInit == Init => SchedulerInv
  <1>. SUFFICES ASSUME Init PROVE SchedulerInv
    OBVIOUS
  <1>. USE DEF Init
  <1>1. NoSchedule \in Row /\ Resting \in Host /\ Away \in Editor
    BY DEF NoSchedule, Row, Resting, Host, Away, Editor, NULL
  <1>2. DOMAIN outbox = {} /\ DOMAIN queue = {} /\ IsFiniteSet({})
    BY FS_EmptySet
  <1>3. SchedulerTypes
    BY <1>1, <1>2, ConstantFacts DEF SchedulerTypes
  <1>4. RowsOK
    <2>1. {s \in ScheduleIds : schedules[s].state # "absent"} = {}
      BY DEF NoSchedule
    <2>. QED BY <1>2, <2>1 DEF RowsOK
  <1>5. \A h \in Hosts : HostOK(h)
    BY DEF HostOK, Resting
  <1>6. \A e \in Editors : EditorOK(e)
    BY DEF EditorOK, Away
  <1>. QED BY <1>2, <1>3, <1>4, <1>5, <1>6
       DEF SchedulerInv, TimersOK, ReservedOK, InstantOnce, AcceptanceIsConfirmed

-----------------------------------------------------------------------------
(* What every step respects.                                               *)

RowsGrow == /\ schedules' \in [ScheduleIds -> Row]
            /\ \A s \in ScheduleIds : \/ schedules'[s] = schedules[s]
                                      \/ schedules'[s].revision > schedules[s].revision

TablesGrow == /\ DOMAIN outbox \subseteq DOMAIN outbox'
              /\ \A i \in DOMAIN queue : i \in DOMAIN queue' /\ queue'[i] = queue[i]

Kept == \A i \in DOMAIN outbox :
          /\ i \in DOMAIN outbox'
          /\ outbox'[i].scheduledAt = outbox[i].scheduledAt
          /\ outbox[i].state # "pending" => outbox'[i] = outbox[i]

LEMMA SeenStays ==
  ASSUME SchedulerInv, RowsGrow, NEW s, NEW seen \in Row, SeenOK(s, seen)
  PROVE  SeenOK(s, seen)'
  <1>1. s \in ScheduleIds /\ schedules[s] \in Row /\ seen.revision \in Nat
    BY DEF SeenOK, SchedulerInv, SchedulerTypes, Row
  <1>2. CASE schedules'[s] = schedules[s]
    BY <1>2 DEF SeenOK
  <1>3. CASE schedules'[s].revision > schedules[s].revision
    <2>1. schedules[s].revision \in Nat /\ schedules'[s].revision \in Nat
      BY <1>1 DEF Row, RowsGrow
    <2>. QED BY <1>1, <1>3, <2>1 DEF SeenOK
  <1>. QED BY <1>1, <1>2, <1>3 DEF RowsGrow

LEMMA ViewsStay ==
  ASSUME SchedulerInv, RowsGrow, TablesGrow
  PROVE  /\ \A h \in Hosts : hosts'[h] = hosts[h] => HostOK(h)'
         /\ \A e \in Editors : editors'[e] = editors[e] => EditorOK(e)'
  <1>1. ASSUME NEW h \in Hosts, hosts'[h] = hosts[h] PROVE HostOK(h)'
    <2>1. hosts[h] \in Host /\ HostOK(h)
      BY DEF SchedulerInv, SchedulerTypes
    <2>2. ASSUME hosts[h].pc = "advance", NEW n \in 1..Len(hosts[h].todo)
          PROVE  DueOK(hosts[h].todo[n], hosts[h].now)'
      <3>1. hosts[h].todo[n] \in Due /\ DueOK(hosts[h].todo[n], hosts[h].now)
        BY <2>1, <2>2 DEF HostOK, Host
      <3>2. PICK item \in Due : item = hosts[h].todo[n]
        BY <3>1
      <3>3. SeenOK(item.id, item.seen)' /\ item.seen.nextAt # NULL /\ item.seen.nextAt <= hosts[h].now
        <4>1. item.seen \in Row
          BY DEF Due
        <4>. QED BY <3>1, <3>2, <4>1, SeenStays DEF DueOK
      <3>. QED BY <1>1, <3>2, <3>3 DEF DueOK, SeenOK
    <2>3. TablesGrow
      OBVIOUS
    <2>. QED BY <1>1, <2>1, <2>2, <2>3 DEF HostOK, TablesGrow
  <1>2. ASSUME NEW e \in Editors, editors'[e] = editors[e] PROVE EditorOK(e)'
    <2>1. editors[e] \in Editor /\ EditorOK(e)
      BY DEF SchedulerInv, SchedulerTypes
    <2>2. editors[e].seen \in Row /\ editors[e].id \in ScheduleIds \cup {NULL}
      BY <2>1 DEF Editor
    <2>3. PICK s \in ScheduleIds \cup {NULL}, seen \in Row : s = editors[e].id /\ seen = editors[e].seen
      BY <2>2
    <2>4. SeenOK(s, seen) => SeenOK(s, seen)'
      BY SeenStays
    <2>. QED BY <1>2, <2>1, <2>3, <2>4 DEF EditorOK, SeenOK
  <1>. QED BY <1>1, <1>2

(* Everything but what hosts see, when the tables stay.                    *)
LEMMA QuietStep ==
  ASSUME SchedulerInv, UNCHANGED <<schedules, outbox, queue, history>>,
         clock' \in Nat, clock' > Skew, edits' \in Nat, faults' \in Nat,
         hosts' \in [Hosts -> Host], editors' \in [Editors -> Editor],
         \A h \in Hosts : hosts'[h] = hosts[h] \/ HostOK(h)',
         \A e \in Editors : editors'[e] = editors[e] \/ EditorOK(e)'
  PROVE  SchedulerInv' /\ Kept
  <1>. USE DEF SchedulerInv, history
  <1>1. RowsGrow /\ TablesGrow
    BY DEF RowsGrow, TablesGrow, SchedulerTypes
  <1>2. (\A h \in Hosts : HostOK(h)') /\ (\A e \in Editors : EditorOK(e)')
    BY <1>1, ViewsStay
  <1>3. SchedulerTypes'
    BY DEF SchedulerTypes
  <1>4. RowsOK' /\ TimersOK' /\ ReservedOK' /\ InstantOnce' /\ AcceptanceIsConfirmed' /\ Kept
    BY DEF RowsOK, TimersOK, ReservedOK, InstantOnce, AcceptanceIsConfirmed, Kept
  <1>. QED BY <1>2, <1>3, <1>4

-----------------------------------------------------------------------------
(* What writes a row or an occurrence.                                     *)

LEMMA RowWritten ==
  ASSUME SchedulerInv, NEW s \in ScheduleIds, NEW row \in Row, row.revision > schedules[s].revision,
         row.state # "absent", row.def \in Definitions, schedules' = [schedules EXCEPT ![s] = row]
  PROVE  /\ RowsGrow /\ RowsOK' /\ schedules'[s] = row
         /\ \A q \in ScheduleIds \ {s} : schedules'[q] = schedules[q]
  <1>1. /\ schedules' \in [ScheduleIds -> Row] /\ schedules'[s] = row
        /\ \A q \in ScheduleIds \ {s} : schedules'[q] = schedules[q]
    BY DEF SchedulerInv, SchedulerTypes
  <1>. DEFINE present == {q \in ScheduleIds : schedules[q].state # "absent"}
  <1>2. {q \in ScheduleIds : schedules'[q].state # "absent"} = present \cup {s}
    BY <1>1
  <1>3. IsFiniteSet(present \cup {s})
    BY FS_AddElement DEF SchedulerInv, RowsOK
  <1>4. RowsOK'
    BY <1>1, <1>2, <1>3 DEF SchedulerInv, RowsOK
  <1>. QED BY <1>1, <1>4 DEF RowsGrow

LEMMA NewOccurrenceFacts ==
  ASSUME NEW s \in ScheduleIds, NEW at \in Nat, NEW revision \in Nat
  PROVE  /\ NewOccurrence(s, at, revision) \in Occurrences
         /\ NewOccurrence(s, at, revision).state = "pending"
         /\ NewOccurrence(s, at, revision).jobId = NULL
  BY DEF NewOccurrence, Occurrences, NULL

LEMMA OccurrenceAdded ==
  ASSUME SchedulerInv, NEW i \in OccurrenceIds, i \notin DOMAIN outbox, NEW o \in Occurrences,
         o.state = "pending", o.jobId = NULL, outbox' = With(outbox, i, o), UNCHANGED queue
  PROVE  /\ outbox' \in [DOMAIN outbox' -> Occurrences] /\ DOMAIN outbox' \subseteq OccurrenceIds
         /\ IsFiniteSet(DOMAIN outbox') /\ DOMAIN outbox' = DOMAIN outbox \cup {i}
         /\ TablesGrow /\ Kept /\ AcceptanceIsConfirmed'
  <1>1. /\ DOMAIN outbox' = DOMAIN outbox \cup {i} /\ outbox'[i] = o
        /\ \A k \in DOMAIN outbox : outbox'[k] = outbox[k]
        /\ outbox' = [k \in DOMAIN outbox' |-> outbox'[k]]
    BY DEF With
  <1>2. outbox' \in [DOMAIN outbox' -> Occurrences] /\ DOMAIN outbox' \subseteq OccurrenceIds
    BY <1>1 DEF SchedulerInv, SchedulerTypes
  <1>3. IsFiniteSet(DOMAIN outbox')
    BY <1>1, FS_AddElement DEF SchedulerInv, SchedulerTypes
  <1>4. TablesGrow /\ Kept
    BY <1>1 DEF TablesGrow, Kept
  <1>5. AcceptanceIsConfirmed'
    BY <1>1 DEF SchedulerInv, AcceptanceIsConfirmed
  <1>. QED BY <1>1, <1>2, <1>3, <1>4, <1>5

(* One occurrence of the table is leased or settled.                       *)
LEMMA OccurrenceSet ==
  ASSUME SchedulerInv, NEW i \in DOMAIN outbox, NEW o \in Occurrences,
         outbox[i].state = "pending", o.scheduledAt = outbox[i].scheduledAt,
         o.state = "enqueued" => i \in DOMAIN queue /\ queue[i] = o.jobId,
         o.state # "enqueued" => o.jobId = NULL,
         outbox' = [outbox EXCEPT ![i] = o],
         UNCHANGED <<clock, schedules, queue, editors, edits, history>>, faults' \in Nat,
         hosts' \in [Hosts -> Host], \A h \in Hosts : hosts'[h] = hosts[h] \/ HostOK(h)'
  PROVE  SchedulerInv' /\ Kept
  <1>1. /\ DOMAIN outbox' = DOMAIN outbox /\ outbox'[i] = o
        /\ \A k \in DOMAIN outbox \ {i} : outbox'[k] = outbox[k]
        /\ outbox' \in [DOMAIN outbox -> Occurrences]
    BY DEF SchedulerInv, SchedulerTypes
  <1>2. SchedulerTypes'
    BY <1>1 DEF SchedulerInv, SchedulerTypes, history
  <1>3. RowsGrow /\ TablesGrow /\ Kept
    BY <1>1 DEF SchedulerInv, SchedulerTypes, RowsGrow, TablesGrow, Kept
  <1>4. (\A h \in Hosts : HostOK(h)') /\ (\A e \in Editors : EditorOK(e)')
    BY <1>3, ViewsStay
  <1>5. AcceptanceIsConfirmed'
    BY <1>1 DEF SchedulerInv, AcceptanceIsConfirmed
  <1>6. RowsOK' /\ TimersOK' /\ ReservedOK' /\ InstantOnce'
    BY <1>1 DEF SchedulerInv, RowsOK, TimersOK, ReservedOK, InstantOnce, history
  <1>. QED BY <1>2, <1>3, <1>4, <1>5, <1>6 DEF SchedulerInv

(* Rows were written and occurrences added: what is left to show.          *)
LEMMA WriteStep ==
  ASSUME SchedulerInv, RowsGrow, TablesGrow, SchedulerTypes', RowsOK',
         UNCHANGED hosts, \A e \in Editors : editors'[e] = editors[e] \/ EditorOK(e)',
         TimersOK', ReservedOK', InstantOnce', AcceptanceIsConfirmed'
  PROVE  SchedulerInv'
  BY ViewsStay DEF SchedulerInv

-----------------------------------------------------------------------------
(* The management operations.                                              *)

LEMMA CreateStep ==
  ASSUME SchedulerInv, NEW s \in ScheduleIds, NEW def \in Definitions, Create(s, def)
  PROVE  SchedulerInv' /\ Kept
  <1>1. PICK t \in HostTimes :
          schedules' = [schedules EXCEPT ![s] = [state |-> "active", revision |-> 1,
                                                 nextAt |-> FirstAt(def, t), def |-> def]]
    BY DEF Create
  <1>2. /\ schedules[s].state = "absent" /\ epoch' = [epoch EXCEPT ![s] = @ + 1]
        /\ UNCHANGED <<clock, outbox, queue, hosts, editors, edits, faults, reserved>>
    BY DEF Create
  <1>3. t \in Nat /\ FirstAt(def, t) \in Nat
    BY HostTimeFacts, TriggerFacts DEF SchedulerInv
  <1>4. PICK row \in Row : /\ schedules' = [schedules EXCEPT ![s] = row]
                           /\ row.state = "active" /\ row.revision = 1 /\ row.def \in Definitions
    <2>. DEFINE new == [state |-> "active", revision |-> 1, nextAt |-> FirstAt(def, t), def |-> def]
    <2>1. new \in Row /\ new.state = "active" /\ new.revision = 1 /\ new.def \in Definitions
      BY <1>3 DEF Row
    <2>2. schedules' = [schedules EXCEPT ![s] = new]
      BY <1>1
    <2>. QED BY <2>1, <2>2
  <1>5. schedules[s].revision = 0 /\ row.revision > schedules[s].revision /\ row.state # "absent"
    BY <1>2, <1>4 DEF SchedulerInv, RowsOK, NoSchedule
  <1>6. /\ RowsGrow /\ RowsOK' /\ schedules'[s] = row
        /\ \A q \in ScheduleIds \ {s} : schedules'[q] = schedules[q]
    BY <1>4, <1>5, RowWritten
  <1>7. TablesGrow /\ Kept
    BY <1>2 DEF TablesGrow, Kept
  <1>8. /\ epoch' \in [ScheduleIds -> Nat] /\ epoch'[s] = epoch[s] + 1 /\ epoch[s] \in Nat
        /\ \A q \in ScheduleIds \ {s} : epoch'[q] = epoch[q]
    BY <1>2 DEF SchedulerInv, SchedulerTypes
  <1>9. SchedulerTypes'
    BY <1>2, <1>6, <1>8 DEF SchedulerInv, SchedulerTypes, RowsGrow
  <1>10. TimersOK'
    <2>1. \A r \in Nat : r < schedules[s].revision => FALSE
      BY <1>5
    <2>. QED BY <1>2, <1>6, <2>1 DEF SchedulerInv, TimersOK
  <1>11. ReservedOK'
    <2>1. \A x \in reserved : x[1] \in ScheduleIds /\ x[2] \in Nat
      BY DEF SchedulerInv, SchedulerTypes
    <2>. QED BY <1>2, <1>6, <1>8, <2>1 DEF SchedulerInv, ReservedOK
  <1>12. InstantOnce' /\ AcceptanceIsConfirmed'
    BY <1>2 DEF SchedulerInv, InstantOnce, AcceptanceIsConfirmed
  <1>. QED BY <1>2, <1>6, <1>7, <1>9, <1>10, <1>11, <1>12, WriteStep

(* A conditional write finds the row that was read, or changes nothing.    *)
LEMMA ReplaceStep ==
  ASSUME SchedulerInv, NEW e \in Editors, editors[e].pc = "loaded", NEW row \in Row, NEW isUpdate \in BOOLEAN,
         row.revision = editors[e].seen.revision + 1, row.state # "absent", row.def \in Definitions,
         isUpdate \/ row.nextAt = editors[e].seen.nextAt,
         Replace(e, row, isUpdate)
  PROVE  SchedulerInv' /\ Kept
  <1>. DEFINE s == editors[e].id
              won == Current(s, editors[e].seen)
  <1>1. /\ editors[e] \in Editor /\ SeenOK(s, editors[e].seen) /\ s \in ScheduleIds
        /\ editors[e].seen \in Row /\ schedules[s] \in Row
    BY DEF SchedulerInv, SchedulerTypes, EditorOK, SeenOK, Editor
  <1>2. /\ edits' = edits + 1 /\ editors' = [editors EXCEPT ![e] = Away]
        /\ UNCHANGED <<clock, outbox, queue, hosts, faults, reserved>>
        /\ schedules' = (IF won THEN [schedules EXCEPT ![s] = row] ELSE schedules)
        /\ epoch' = (IF won /\ isUpdate THEN [epoch EXCEPT ![s] = @ + 1] ELSE epoch)
    BY DEF Replace, Edit
  <1>3. /\ editors' \in [Editors -> Editor] /\ \A d \in Editors : editors'[d] = editors[d] \/ EditorOK(d)'
        /\ edits' \in Nat
    <2>1. Away \in Editor /\ Away.pc = "idle"
      BY DEF Away, Editor, NoSchedule, Row, NULL
    <2>. QED BY <1>2, <2>1 DEF SchedulerInv, SchedulerTypes, EditorOK
  <1>4. CASE ~won
    <2>1. UNCHANGED history /\ UNCHANGED schedules
      BY <1>2, <1>4 DEF history
    <2>2. clock' \in Nat /\ clock' > Skew /\ faults' \in Nat /\ hosts' \in [Hosts -> Host]
      BY <1>2 DEF SchedulerInv, SchedulerTypes
    <2>. QED BY <1>2, <1>3, <2>1, <2>2, QuietStep
  <1>5. CASE won
    <2>1. schedules[s] = editors[e].seen
      BY <1>1, <1>5 DEF Current, SeenOK
    <2>2. row.revision > schedules[s].revision /\ schedules' = [schedules EXCEPT ![s] = row]
      BY <1>1, <1>2, <1>5, <2>1 DEF Row
    <2>3. /\ RowsGrow /\ RowsOK' /\ schedules'[s] = row
          /\ \A q \in ScheduleIds \ {s} : schedules'[q] = schedules[q]
      <3>. HIDE DEF s
      <3>. QED BY <1>1, <2>2, RowWritten
    <2>4. TablesGrow /\ Kept
      BY <1>2 DEF TablesGrow, Kept
    <2>5. /\ epoch' \in [ScheduleIds -> Nat] /\ \A q \in ScheduleIds \ {s} : epoch'[q] = epoch[q]
          /\ epoch'[s] = epoch[s] + 1 \/ (epoch'[s] = epoch[s] /\ row.nextAt = schedules[s].nextAt)
      BY <1>1, <1>2, <1>5, <2>1 DEF SchedulerInv, SchedulerTypes
    <2>6. SchedulerTypes'
      BY <1>2, <1>3, <2>3, <2>5 DEF SchedulerInv, SchedulerTypes, RowsGrow
    <2>7. TimersOK'
      <3>1. schedules[s].revision \in Nat /\ row.revision \in Nat
        BY <1>1 DEF Row
      <3>. QED BY <1>2, <2>2, <2>3, <3>1 DEF SchedulerInv, TimersOK
    <2>8. ReservedOK'
      <3>1. \A x \in reserved : x[1] \in ScheduleIds /\ x[2] \in Nat /\ epoch[x[1]] \in Nat
        BY DEF SchedulerInv, SchedulerTypes
      <3>2. ASSUME NEW x \in reserved
            PROVE  /\ x[2] <= epoch'[x[1]]
                   /\ x[2] = epoch'[x[1]] /\ schedules'[x[1]].nextAt # NULL => x[3] < schedules'[x[1]].nextAt
        <4>1. /\ x[2] <= epoch[x[1]]
              /\ x[2] = epoch[x[1]] /\ schedules[x[1]].nextAt # NULL => x[3] < schedules[x[1]].nextAt
          BY DEF SchedulerInv, ReservedOK
        <4>. QED BY <2>3, <2>5, <3>1, <4>1
      <3>. QED BY <1>2, <3>2 DEF ReservedOK
    <2>9. InstantOnce' /\ AcceptanceIsConfirmed'
      BY <1>2 DEF SchedulerInv, InstantOnce, AcceptanceIsConfirmed
    <2>. QED BY <1>2, <1>3, <2>3, <2>4, <2>6, <2>7, <2>8, <2>9, WriteStep
  <1>. QED BY <1>4, <1>5

LEMMA EditorSteps ==
  ASSUME SchedulerInv, NEW e \in Editors, EditorStep(e)
  PROVE  SchedulerInv' /\ Kept
  <1>0. /\ SchedulerTypes /\ editors \in [Editors -> Editor] /\ clock \in Nat /\ clock > Skew
        /\ edits \in Nat /\ faults \in Nat /\ hosts \in [Hosts -> Host]
    BY DEF SchedulerInv, SchedulerTypes
  <1>1. ASSUME NEW editor \in Editor, editors' = [editors EXCEPT ![e] = editor],
               editor.pc = "loaded" => SeenOK(editor.id, editor.seen),
               UNCHANGED <<clock, tables, hosts, edits, faults, history>>
        PROVE  SchedulerInv' /\ Kept
    <2>1. editors' \in [Editors -> Editor] /\ editors'[e] = editor
          /\ \A d \in Editors \ {e} : editors'[d] = editors[d]
      BY <1>0, <1>1
    <2>2. UNCHANGED schedules
      BY <1>1 DEF tables
    <2>3. EditorOK(e)'
      BY <1>1, <2>1, <2>2 DEF EditorOK, SeenOK
    <2>. QED BY <1>0, <1>1, <2>1, <2>3, QuietStep DEF tables
  <1>2. CASE \E s \in ScheduleIds : Load(e, s)
    <2>1. PICK s \in ScheduleIds : Load(e, s)
      BY <1>2
    <2>. DEFINE editor == [pc |-> "loaded", id |-> s, seen |-> schedules[s]]
    <2>2. editor \in Editor /\ editor.id = s /\ editor.seen = schedules[s] /\ schedules[s] \in Row
      BY <1>0 DEF SchedulerTypes, Editor
    <2>3. SeenOK(s, schedules[s])
      BY <2>1, <2>2 DEF Load, SeenOK, SchedulerInv, RowsOK, Row
    <2>4. editors' = [editors EXCEPT ![e] = editor] /\ UNCHANGED <<clock, tables, hosts, edits, faults, history>>
      BY <2>1 DEF Load
    <2>. HIDE DEF editor
    <2>. QED BY <1>1, <2>2, <2>3, <2>4
  <1>3. CASE GiveUp(e)
    <2>1. Away \in Editor /\ Away.pc = "idle"
      BY DEF Away, Editor, NoSchedule, Row, NULL
    <2>. QED BY <1>1, <1>3, <2>1 DEF GiveUp
  <1>4. ASSUME editors[e].pc = "loaded"
        PROVE  /\ editors[e].seen \in Row /\ SeenOK(editors[e].id, editors[e].seen)
               /\ editors[e].id \in ScheduleIds
    BY <1>0, <1>4 DEF SchedulerInv, EditorOK, Editor, SeenOK
  <1>5. CASE \E def \in Definitions : Update(e, def)
    <2>1. PICK def \in Definitions : Update(e, def)
      BY <1>5
    <2>. DEFINE seen == editors[e].seen
                state == IF seen.state = "paused" THEN "paused" ELSE "active"
    <2>2. PICK t \in HostTimes :
            Replace(e, [seen EXCEPT !.def = def, !.revision = @ + 1, !.state = state, !.nextAt = FirstAt(def, t)], TRUE)
      BY <2>1 DEF Update
    <2>3. editors[e].pc = "loaded" /\ FirstAt(def, t) \in Nat
      BY <1>0, <2>1, HostTimeFacts, TriggerFacts DEF Update
    <2>4. state \in {"active", "paused"} /\ seen \in Row
      BY <1>4, <2>3
    <2>. HIDE DEF state, seen
    <2>5. PICK r : r = [seen EXCEPT !.def = def, !.revision = @ + 1, !.state = state, !.nextAt = FirstAt(def, t)]
      OBVIOUS
    <2>6. r.revision = seen.revision + 1 /\ r.state # "absent" /\ r.def \in Definitions
      BY <2>4, <2>5 DEF Row
    <2>7. seen.revision + 1 \in Nat
      BY <2>4 DEF Row
    <2>8. r \in Row /\ Replace(e, r, TRUE)
      BY <2>2, <2>3, <2>4, <2>5, <2>7 DEF Row
    <2>. QED BY <2>3, <2>6, <2>8, ReplaceStep DEF seen
  <1>6. CASE \E state \in {"paused", "active", "cancelled"} : Change(e, state)
    <2>1. PICK state \in {"paused", "active", "cancelled"} : Change(e, state)
      BY <1>6
    <2>. DEFINE seen == editors[e].seen
    <2>2. editors[e].pc = "loaded" /\ Replace(e, [seen EXCEPT !.state = state, !.revision = @ + 1], FALSE)
      BY <2>1 DEF Change
    <2>3. seen \in Row /\ seen.def \in Definitions
      BY <1>4, <2>2 DEF SeenOK
    <2>. HIDE DEF seen
    <2>4. PICK r : r = [seen EXCEPT !.state = state, !.revision = @ + 1]
      OBVIOUS
    <2>5. r.revision = seen.revision + 1 /\ r.state # "absent" /\ r.def \in Definitions /\ r.nextAt = seen.nextAt
      BY <2>3, <2>4 DEF Row
    <2>6. seen.revision + 1 \in Nat
      BY <2>3 DEF Row
    <2>7. r \in Row /\ Replace(e, r, FALSE)
      BY <2>2, <2>3, <2>4, <2>6 DEF Row
    <2>. QED BY <2>2, <2>5, <2>7, ReplaceStep DEF seen
  <1>7. CASE \E key \in RequestKeys : Trigger(e, key)
    <2>1. PICK key \in RequestKeys : Trigger(e, key)
      BY <1>7
    <2>. DEFINE s == editors[e].id
                id == ManualId(s, key)
    <2>2. /\ editors[e].pc = "loaded" /\ edits' = edits + 1 /\ editors' = [editors EXCEPT ![e] = Away]
          /\ UNCHANGED <<clock, schedules, queue, hosts, faults, history>>
      BY <2>1 DEF Trigger, Edit
    <2>3. PICK t \in HostTimes :
            outbox' = IF TriggerAllowed(s, editors[e].seen) /\ id \notin DOMAIN outbox
                      THEN With(outbox, id, NewOccurrence(s, t, editors[e].seen.revision)) ELSE outbox
      BY <2>1 DEF Trigger
    <2>4. /\ editors' \in [Editors -> Editor] /\ \A d \in Editors : editors'[d] = editors[d] \/ EditorOK(d)'
      <3>1. Away \in Editor /\ Away.pc = "idle"
        BY DEF Away, Editor, NoSchedule, Row, NULL
      <3>. QED BY <1>0, <2>2, <3>1 DEF EditorOK
    <2>5. CASE outbox' = outbox
      BY <1>0, <2>2, <2>4, <2>5, QuietStep
    <2>6. CASE id \notin DOMAIN outbox /\ outbox' = With(outbox, id, NewOccurrence(s, t, editors[e].seen.revision))
      <3>1. s \in ScheduleIds /\ t \in Nat /\ editors[e].seen.revision \in Nat
        BY <1>0, <1>4, <2>2, HostTimeFacts DEF Row
      <3>2. PICK o \in Occurrences : /\ outbox' = With(outbox, id, o)
                                     /\ o.state = "pending" /\ o.jobId = NULL
        BY <2>6, <3>1, NewOccurrenceFacts
      <3>3. id \in OccurrenceIds
        BY <3>1 DEF OccurrenceIds
      <3>4. /\ outbox' \in [DOMAIN outbox' -> Occurrences] /\ DOMAIN outbox' \subseteq OccurrenceIds
            /\ IsFiniteSet(DOMAIN outbox') /\ DOMAIN outbox' = DOMAIN outbox \cup {id}
            /\ TablesGrow /\ Kept /\ AcceptanceIsConfirmed'
        <4>. HIDE DEF id
        <4>. QED BY <2>2, <2>6, <3>2, <3>3, OccurrenceAdded
      <3>5. TimersOK'
        BY <2>2, <3>4, IdFacts DEF SchedulerInv, TimersOK
      <3>6. SchedulerTypes'
        BY <1>0, <2>2, <2>4, <3>4 DEF SchedulerTypes, history
      <3>7. RowsGrow /\ RowsOK' /\ ReservedOK' /\ InstantOnce'
        BY <2>2 DEF SchedulerInv, SchedulerTypes, RowsGrow, RowsOK, ReservedOK, InstantOnce, history
      <3>. QED BY <2>2, <2>4, <3>4, <3>5, <3>6, <3>7, WriteStep
    <2>. QED BY <2>3, <2>5, <2>6
  <1>. QED BY <1>2, <1>3, <1>5, <1>6, <1>7 DEF EditorStep

-----------------------------------------------------------------------------
(* Planning: the due rows, earliest first.  Ranks are distinct, so each of *)
(* the first n is taken.                                                   *)

LEMMA RanksAreTaken ==
  ASSUME SchedulerInv, NEW now \in Nat
  PROVE  /\ IsFiniteSet(DueIds(now)) /\ Cardinality(DueIds(now)) \in Nat
         /\ \A n \in 1..Cardinality(DueIds(now)) :
              \E s \in DueIds(now) : Cardinality({r \in DueIds(now) : Earlier(r, s)}) + 1 = n
  <1>. DEFINE D == DueIds(now)
              N == Cardinality(D)
              Before(s) == {r \in D : Earlier(r, s)}
              Rank == [s \in D |-> Cardinality(Before(s)) + 1]
  <1>1. IsFiniteSet(D) /\ N \in Nat
    <2>1. D \subseteq {s \in ScheduleIds : schedules[s].state # "absent"}
      BY DEF DueIds, IsDue
    <2>. QED BY <2>1, FS_Subset, FS_CardinalityType DEF SchedulerInv, RowsOK
  <1>2. \A s \in D : s \in Nat /\ schedules[s].nextAt \in Nat
    BY ScheduleAssumption DEF DueIds, SchedulerInv, SchedulerTypes, Row
  <1>3. ASSUME NEW s \in D PROVE IsFiniteSet(Before(s)) /\ Cardinality(Before(s)) \in Nat /\ Before(s) \subseteq D \ {s}
    <2>1. Before(s) \subseteq D \ {s}
      BY <1>2 DEF Earlier
    <2>. QED BY <1>1, <2>1, FS_Subset, FS_CardinalityType
  <1>4. ASSUME NEW s \in D PROVE Rank[s] \in 1..N
    <2>1. IsFiniteSet(D \ {s}) /\ Cardinality(D \ {s}) = N - 1
      BY <1>1, FS_RemoveElement
    <2>2. Cardinality(Before(s)) <= N - 1 /\ Cardinality(Before(s)) \in Nat
      BY <1>3, <2>1, FS_Subset
    <2>3. Rank[s] = Cardinality(Before(s)) + 1
      OBVIOUS
    <2>. HIDE DEF D, N, Before, Rank
    <2>. QED BY <1>1, <2>2, <2>3
  <1>5. ASSUME NEW s \in D, NEW q \in D, Earlier(s, q) PROVE Rank[s] < Rank[q]
    <2>1. s \in Before(q) /\ Before(s) \subseteq Before(q) \ {s}
      BY <1>2, <1>5 DEF Earlier
    <2>2. IsFiniteSet(Before(q)) /\ Cardinality(Before(q)) \in Nat /\ Cardinality(Before(s)) \in Nat
      BY <1>3
    <2>3. Rank[s] = Cardinality(Before(s)) + 1 /\ Rank[q] = Cardinality(Before(q)) + 1
      OBVIOUS
    <2>. HIDE DEF D, N, Before, Rank
    <2>4. IsFiniteSet(Before(q) \ {s}) /\ Cardinality(Before(q) \ {s}) = Cardinality(Before(q)) - 1
      BY <2>1, <2>2, FS_RemoveElement
    <2>5. Cardinality(Before(s)) <= Cardinality(Before(q)) - 1
      BY <2>1, <2>4, FS_Subset
    <2>. QED BY <2>2, <2>3, <2>5
  <1>6. \A s, q \in D : s # q => Earlier(s, q) \/ Earlier(q, s)
    BY <1>2 DEF Earlier
  <1>7. Rank \in Injection(D, 1..N)
    <2>1. Rank \in [D -> 1..N]
      BY <1>4
    <2>2. \A s, q \in D : Rank[s] = Rank[q] => s = q
      <3>1. SUFFICES ASSUME NEW s \in D, NEW q \in D, s # q PROVE Rank[s] # Rank[q]
        OBVIOUS
      <3>2. Rank[s] \in Nat /\ Rank[q] \in Nat
        BY <1>1, <1>4
      <3>. HIDE DEF D, Rank
      <3>. QED BY <1>5, <1>6, <3>1, <3>2
    <2>. HIDE DEF Rank
    <2>. QED BY <2>1, <2>2, Fun_IsInj
  <1>8. IsFiniteSet(1..N) /\ Cardinality(1..N) = N
    BY <1>1, FS_Interval
  <1>9. Rank \in Surjection(D, 1..N)
    <2>. HIDE DEF Rank
    <2>. QED BY <1>7, <1>8, FS_Injection
  <1>10. \A n \in 1..N : \E s \in D : Rank[s] = n
    <2>. HIDE DEF Rank
    <2>. QED BY <1>9, Fun_SurjectionProperties DEF Surjection
  <1>. QED BY <1>1, <1>10

LEMMA DueRowsFacts ==
  ASSUME SchedulerInv, NEW now \in Nat
  PROVE  /\ DueRows(now) \in Seq(Due)
         /\ DueIds(now) # {} => DueRows(now) # <<>>
         /\ \A n \in 1..Len(DueRows(now)) : DueOK(DueRows(now)[n], now)
  <1>. DEFINE D == DueIds(now)
              n == Cardinality(D)
              rank(s) == Cardinality({r \in D : Earlier(r, s)}) + 1
              nth(i) == CHOOSE s \in D : rank(s) = i
              m == IF n < ScheduleLimit THEN n ELSE ScheduleLimit
  <1>1. n \in Nat /\ m \in Nat /\ m <= n /\ (D # {} => m > 0)
    <2>1. n \in Nat /\ (n = 0 <=> D = {})
      BY RanksAreTaken, FS_EmptySet
    <2>. QED BY <2>1, ConstantFacts
  <1>2. ASSUME NEW i \in 1..m PROVE nth(i) \in D
    <2>1. i \in 1..n
      <3>. HIDE DEF n
      <3>. QED BY <1>1
    <2>2. \E s \in D : rank(s) = i
      BY <2>1, RanksAreTaken
    <2>. HIDE DEF rank, D
    <2>. QED BY <2>2
  <1>3. DueRows(now) = [i \in 1..m |-> [id |-> nth(i), seen |-> schedules[nth(i)]]]
    BY DEF DueRows
  <1>4. ASSUME NEW s \in D
        PROVE  [id |-> s, seen |-> schedules[s]] \in Due /\ DueOK([id |-> s, seen |-> schedules[s]], now)
    <2>1. s \in ScheduleIds /\ schedules[s] \in Row /\ IsDue(schedules[s], now)
      BY DEF DueIds, SchedulerInv, SchedulerTypes
    <2>2. SeenOK(s, schedules[s])
      BY <2>1 DEF SeenOK, IsDue, SchedulerInv, RowsOK, Row
    <2>. QED BY <2>1, <2>2 DEF Due, DueOK, IsDue
  <1>. HIDE DEF m, nth
  <1>5. DueRows(now) \in Seq(Due) /\ Len(DueRows(now)) = m
    BY <1>1, <1>2, <1>3, <1>4
  <1>6. \A i \in 1..m : DueOK(DueRows(now)[i], now)
    BY <1>1, <1>2, <1>3, <1>4
  <1>7. DueIds(now) # {} => DueRows(now) # <<>>
    BY <1>1, <1>5
  <1>. QED BY <1>5, <1>6, <1>7

-----------------------------------------------------------------------------
(* A tick of one host: first the steps that leave the tables alone.        *)

Dispatching == {"lookup", "authorize", "renew", "enqueue", "settle"}

LEMMA ToSettleFacts ==
  ASSUME SchedulerTypes, NEW h \in Hosts, NEW job \in Nat,
         NEW result \in {"enqueued", "dispatch-failed", "execution-denied", "dispatch-invalid"},
         ToSettle(h, result, job)
  PROVE  /\ hosts' \in [Hosts -> Host] /\ \A g \in Hosts \ {h} : hosts'[g] = hosts[g]
         /\ hosts'[h].pc = "settle" /\ hosts'[h].entry = hosts[h].entry
         /\ hosts'[h].result = result /\ hosts'[h].jobId = job
  <1>0. hosts[h] \in Host /\ hosts \in [Hosts -> Host]
    BY DEF SchedulerTypes
  <1>1. PICK host : host = [hosts[h] EXCEPT !.pc = "settle", !.result = result, !.jobId = job]
    OBVIOUS
  <1>2. /\ host \in Host /\ host.pc = "settle" /\ host.entry = hosts[h].entry
        /\ host.result = result /\ host.jobId = job
    BY <1>0, <1>1 DEF Host
  <1>3. hosts' = [hosts EXCEPT ![h] = host]
    BY <1>0, <1>1 DEF ToSettle
  <1>. QED BY <1>0, <1>2, <1>3

LEMMA ToPcFacts ==
  ASSUME SchedulerTypes, NEW h \in Hosts, NEW pc \in Dispatching, ToPc(h, pc)
  PROVE  /\ hosts' \in [Hosts -> Host] /\ \A g \in Hosts \ {h} : hosts'[g] = hosts[g]
         /\ hosts'[h].pc = pc /\ hosts'[h].entry = hosts[h].entry /\ hosts'[h].token = hosts[h].token
         /\ hosts'[h].result = hosts[h].result /\ hosts'[h].jobId = hosts[h].jobId
  <1>0. hosts[h] \in Host /\ hosts \in [Hosts -> Host]
    BY DEF SchedulerTypes
  <1>1. PICK host : host = [hosts[h] EXCEPT !.pc = pc]
    OBVIOUS
  <1>2. /\ host \in Host /\ host.pc = pc /\ host.entry = hosts[h].entry /\ host.token = hosts[h].token
        /\ host.result = hosts[h].result /\ host.jobId = hosts[h].jobId
    BY <1>0, <1>1 DEF Host, Dispatching
  <1>3. hosts' = [hosts EXCEPT ![h] = host]
    BY <1>0, <1>1 DEF ToPc
  <1>. QED BY <1>0, <1>2, <1>3

LEMMA RestFacts ==
  /\ Resting \in Host /\ Resting.pc = "idle"
  /\ [Resting EXCEPT !.pc = "claim"] \in Host /\ [Resting EXCEPT !.pc = "claim"].pc = "claim"
  <1>1. Resting \in Host /\ Resting.pc = "idle"
    <2>1. <<>> \in Seq(Due)
      OBVIOUS
    <2>. QED BY <2>1 DEF Resting, Host, NULL
  <1>2. [Resting EXCEPT !.pc = "claim"] \in Host /\ [Resting EXCEPT !.pc = "claim"].pc = "claim"
    BY <1>1 DEF Host
  <1>. QED BY <1>1, <1>2

(* A host that gives an occurrence up holds nothing.                       *)
LEMMA ToClaimFacts ==
  ASSUME SchedulerTypes, NEW h \in Hosts,
         \/ hosts' = [hosts EXCEPT ![h].pc = "claim", ![h].entry = NULL, ![h].token = NULL]
         \/ hosts' = [hosts EXCEPT ![h].pc = "claim", ![h].entry = NULL, ![h].token = NULL,
                                   ![h].result = "none", ![h].jobId = NULL]
         \/ hosts' = [hosts EXCEPT ![h] = Resting]
  PROVE  /\ hosts' \in [Hosts -> Host] /\ \A g \in Hosts : hosts'[g] = hosts[g] \/ HostOK(g)'
  <1>0. hosts[h] \in Host /\ hosts \in [Hosts -> Host]
    BY DEF SchedulerTypes
  <1>1. \E host \in Host : hosts' = [hosts EXCEPT ![h] = host] /\ host.pc \in {"claim", "idle"}
    <2>1. CASE hosts' = [hosts EXCEPT ![h].pc = "claim", ![h].entry = NULL, ![h].token = NULL]
      <3>1. PICK host : host = [hosts[h] EXCEPT !.pc = "claim", !.entry = NULL, !.token = NULL]
        OBVIOUS
      <3>2. host \in Host /\ host.pc = "claim"
        BY <1>0, <3>1 DEF Host, NULL
      <3>. QED BY <1>0, <2>1, <3>1, <3>2
    <2>2. CASE hosts' = [hosts EXCEPT ![h].pc = "claim", ![h].entry = NULL, ![h].token = NULL,
                                      ![h].result = "none", ![h].jobId = NULL]
      <3>1. PICK host : host = [hosts[h] EXCEPT !.pc = "claim", !.entry = NULL, !.token = NULL,
                                                !.result = "none", !.jobId = NULL]
        OBVIOUS
      <3>2. host \in Host /\ host.pc = "claim"
        BY <1>0, <3>1 DEF Host, NULL
      <3>. QED BY <1>0, <2>2, <3>1, <3>2
    <2>3. CASE hosts' = [hosts EXCEPT ![h] = Resting]
      BY <2>3, RestFacts
    <2>. QED BY <2>1, <2>2, <2>3
  <1>2. PICK host \in Host : hosts' = [hosts EXCEPT ![h] = host] /\ host.pc \in {"claim", "idle"}
    BY <1>1
  <1>3. hosts'[h] = host /\ hosts' \in [Hosts -> Host] /\ \A g \in Hosts \ {h} : hosts'[g] = hosts[g]
    BY <1>0, <1>2
  <1>4. HostOK(h)'
    BY <1>2, <1>3 DEF HostOK
  <1>. QED BY <1>3, <1>4

LEMMA SilentHostSteps ==
  ASSUME SchedulerInv, NEW h \in Hosts,
         Lookup(h) \/ Authorize(h) \/ EnqueueRefused(h) \/ QueueFails(h) \/ Abandon(h)
  PROVE  SchedulerInv' /\ Kept
  <1>0. /\ SchedulerTypes /\ HostOK(h) /\ clock \in Nat /\ clock > Skew /\ edits \in Nat /\ faults \in Nat
        /\ editors \in [Editors -> Editor] /\ queue \in [DOMAIN queue -> Nat]
    BY DEF SchedulerInv, SchedulerTypes
  <1>1. /\ UNCHANGED <<clock, schedules, outbox, queue, editors, edits, history>> /\ faults' \in Nat
    BY <1>0 DEF Lookup, Authorize, EnqueueRefused, QueueFails, Abandon, Quiet, tables, Fault
  <1>. DEFINE HostsGoOn == hosts' \in [Hosts -> Host] /\ \A g \in Hosts : hosts'[g] = hosts[g] \/ HostOK(g)'
  <1>2. HostsGoOn
    <2>1. CASE Abandon(h)
      BY <1>0, <2>1, ToClaimFacts DEF Abandon
    <2>2. CASE ~Abandon(h)
      <3>1. hosts[h].pc \in Dispatching /\ hosts[h].entry \in DOMAIN outbox
        BY <1>0, <2>2 DEF Lookup, Authorize, EnqueueRefused, QueueFails, HostOK, At, Dispatching
      <3>2. ASSUME NEW pc \in Dispatching \ {"settle"}, ToPc(h, pc) PROVE HostsGoOn
        <4>1. HostOK(h)'
          BY <1>0, <1>1, <3>1, <3>2, ToPcFacts DEF HostOK, Dispatching
        <4>. QED BY <1>0, <3>2, <4>1, ToPcFacts
      <3>3. ASSUME NEW job \in Nat,
                   NEW result \in {"enqueued", "dispatch-failed", "execution-denied", "dispatch-invalid"},
                   ToSettle(h, result, job),
                   result = "enqueued" => hosts[h].entry \in DOMAIN queue /\ job = queue[hosts[h].entry]
            PROVE  HostsGoOn
        <4>1. HostOK(h)'
          BY <1>0, <1>1, <3>1, <3>3, ToSettleFacts DEF HostOK
        <4>. QED BY <1>0, <3>3, <4>1, ToSettleFacts
      <3>4. \/ ToPc(h, "authorize") \/ ToPc(h, "renew")
            \/ \E job \in Nat, result \in {"enqueued", "dispatch-failed", "execution-denied", "dispatch-invalid"} :
                 /\ ToSettle(h, result, job)
                 /\ result = "enqueued" => hosts[h].entry \in DOMAIN queue /\ job = queue[hosts[h].entry]
        <4>1. NULL \in Nat
          BY DEF NULL
        <4>2. CASE Lookup(h)
          BY <1>0, <4>2 DEF Lookup
        <4>3. CASE Authorize(h)
          BY <4>1, <4>3 DEF Authorize
        <4>4. CASE EnqueueRefused(h) \/ QueueFails(h)
          BY <4>1, <4>4 DEF EnqueueRefused, QueueFails
        <4>. QED BY <2>2, <4>2, <4>3, <4>4
      <3>5. "authorize" \in Dispatching \ {"settle"} /\ "renew" \in Dispatching \ {"settle"}
        BY DEF Dispatching
      <3>. QED BY <3>2, <3>3, <3>4, <3>5
    <2>. QED BY <2>1, <2>2
  <1>. QED BY <1>0, <1>1, <1>2, QuietStep

LEMMA ReadDueStep ==
  ASSUME SchedulerInv, NEW h \in Hosts, ReadDue(h)
  PROVE  SchedulerInv' /\ Kept
  <1>0. /\ SchedulerTypes /\ clock \in Nat /\ clock > Skew /\ edits \in Nat /\ faults \in Nat
        /\ hosts \in [Hosts -> Host] /\ editors \in [Editors -> Editor]
    BY DEF SchedulerInv, SchedulerTypes
  <1>1. UNCHANGED <<clock, schedules, outbox, queue, editors, edits, faults, history>>
    BY DEF ReadDue, tables
  <1>2. PICK now \in HostTimes :
          hosts' = [hosts EXCEPT ![h] = IF DueIds(now) = {} THEN [Resting EXCEPT !.pc = "claim"]
                                        ELSE [Resting EXCEPT !.pc = "advance", !.now = now, !.todo = DueRows(now)]]
    BY DEF ReadDue
  <1>3. now \in Nat
    BY <1>0, HostTimeFacts
  <1>4. hosts' \in [Hosts -> Host] /\ \A g \in Hosts : hosts'[g] = hosts[g] \/ HostOK(g)'
    <2>1. CASE DueIds(now) = {}
      <3>1. hosts'[h].pc = "claim" /\ hosts' \in [Hosts -> Host] /\ \A g \in Hosts \ {h} : hosts'[g] = hosts[g]
        BY <1>0, <1>2, <2>1, RestFacts
      <3>2. HostOK(h)'
        BY <3>1 DEF HostOK
      <3>. QED BY <3>1, <3>2
    <2>2. CASE DueIds(now) # {}
      <3>1. /\ DueRows(now) \in Seq(Due) /\ DueRows(now) # <<>>
            /\ \A n \in 1..Len(DueRows(now)) : DueOK(DueRows(now)[n], now)
        BY <1>3, <2>2, DueRowsFacts
      <3>2. PICK rows \in Seq(Due) : rows = DueRows(now)
        BY <3>1
      <3>3. PICK host : host = [Resting EXCEPT !.pc = "advance", !.now = now, !.todo = rows]
        OBVIOUS
      <3>4. host \in Host /\ host.pc = "advance" /\ host.now = now /\ host.todo = rows
        BY <1>3, <3>3, RestFacts DEF Host
      <3>5. hosts' = [hosts EXCEPT ![h] = host]
        BY <1>2, <2>2, <3>2, <3>3
      <3>6. hosts'[h] = host /\ hosts' \in [Hosts -> Host] /\ \A g \in Hosts \ {h} : hosts'[g] = hosts[g]
        BY <1>0, <3>4, <3>5
      <3>7. \A n \in 1..Len(rows) : DueOK(rows[n], now)'
        BY <1>1, <3>1, <3>2 DEF DueOK, SeenOK
      <3>8. HostOK(h)'
        BY <3>1, <3>2, <3>4, <3>6, <3>7 DEF HostOK
      <3>. QED BY <3>6, <3>8
    <2>. QED BY <2>1, <2>2
  <1>. QED BY <1>0, <1>1, <1>4, QuietStep

LEMMA TickStep ==
  ASSUME SchedulerInv, Tick
  PROVE  SchedulerInv' /\ Kept
  <1>1. /\ clock \in Nat /\ clock > Skew /\ clock' = clock + 1 /\ edits \in Nat /\ faults \in Nat
        /\ hosts \in [Hosts -> Host] /\ editors \in [Editors -> Editor]
        /\ UNCHANGED <<schedules, outbox, queue, hosts, editors, edits, faults, history>>
    BY DEF SchedulerInv, SchedulerTypes, Tick, tables
  <1>2. clock' \in Nat /\ clock' > Skew
    BY <1>1, ConstantFacts
  <1>. QED BY <1>1, <1>2, QuietStep

-----------------------------------------------------------------------------
(* Planning one schedule: whoever still finds the revision it read moves   *)
(* the cursor and reserves the instant in one write.                       *)

LEMMA AdvanceStep ==
  ASSUME SchedulerInv, NEW h \in Hosts, Advance(h)
  PROVE  SchedulerInv' /\ Kept
  <1>0. /\ SchedulerTypes /\ HostOK(h) /\ hosts[h] \in Host /\ hosts[h].pc = "advance"
        /\ clock \in Nat /\ clock > Skew /\ edits \in Nat /\ faults \in Nat
        /\ hosts \in [Hosts -> Host] /\ editors \in [Editors -> Editor]
        /\ UNCHANGED <<clock, queue, editors, edits, faults, epoch>>
    BY DEF SchedulerInv, SchedulerTypes, Advance, At
  <1>1. PICK todo \in Seq(Due), now \in Nat : todo = hosts[h].todo /\ now = hosts[h].now
    BY <1>0 DEF Host
  <1>2. /\ todo # <<>> /\ Head(todo) \in Due /\ Tail(todo) \in Seq(Due)
        /\ \A n \in 1..Len(todo) : DueOK(todo[n], now)
        /\ Head(todo) = todo[1] /\ 1 \in 1..Len(todo)
        /\ \A n \in 1..Len(Tail(todo)) : Tail(todo)[n] = todo[n + 1] /\ n + 1 \in 1..Len(todo)
    BY <1>0, <1>1 DEF HostOK
  <1>3. PICK s \in ScheduleIds, seen \in Row : s = Head(todo).id /\ seen = Head(todo).seen
    BY <1>2 DEF Due
  <1>4. SeenOK(s, seen) /\ seen.nextAt # NULL /\ seen.nextAt <= now
    BY <1>2, <1>3 DEF DueOK
  <1>. DEFINE plan == PlanDue(seen, now)
              won == Advanceable(s, seen)
              inserts == won /\ plan.scheduledAt # NULL
              id == TimerId(s, seen.revision, plan.scheduledAt)
  <1>5. /\ schedules' = (IF won THEN [schedules EXCEPT ![s] =
                            [@ EXCEPT !.revision = seen.revision + 1, !.nextAt = plan.nextAt,
                                      !.state = IF plan.nextAt = NULL THEN "completed" ELSE seen.state]]
                         ELSE schedules)
        /\ outbox' = (IF inserts THEN With(outbox, id, NewOccurrence(s, plan.scheduledAt, seen.revision))
                      ELSE outbox)
        /\ reserved' = (IF inserts THEN reserved \cup {<<s, epoch[s], plan.scheduledAt, seen.revision>>}
                        ELSE reserved)
        /\ hosts' = [hosts EXCEPT ![h] = IF Tail(todo) = <<>> THEN [Resting EXCEPT !.pc = "claim"]
                                          ELSE [@ EXCEPT !.todo = Tail(todo)]]
    BY <1>1, <1>3 DEF Advance
  <1>6. /\ plan.nextAt \in Nat /\ (plan.nextAt # NULL => plan.nextAt > now)
        /\ plan.scheduledAt \in {NULL, seen.nextAt} /\ seen.nextAt \in Nat /\ seen.revision \in Nat
    <2>1. seen.def \in Definitions /\ seen.nextAt \in Nat /\ seen.revision \in Nat
      BY <1>4 DEF SeenOK, Row
    <2>. QED BY <2>1, TriggerFacts DEF PlanDue
  <1>7. PICK host \in Host : /\ hosts' = [hosts EXCEPT ![h] = host]
                             /\ host.pc = "claim" \/ (/\ host.pc = "advance" /\ host.todo = Tail(todo)
                                                      /\ host.now = now /\ Tail(todo) # <<>>)
    <2>1. CASE Tail(todo) = <<>>
      BY <1>5, <2>1, RestFacts
    <2>2. CASE Tail(todo) # <<>>
      <3>1. PICK rest \in Seq(Due) : rest = Tail(todo)
        BY <1>2
      <3>2. PICK host : host = [hosts[h] EXCEPT !.todo = rest]
        OBVIOUS
      <3>3. host \in Host /\ host.pc = "advance" /\ host.todo = rest /\ host.now = now
        BY <1>0, <1>1, <3>2 DEF Host
      <3>4. hosts' = [hosts EXCEPT ![h] = host]
        BY <1>0, <1>5, <2>2, <3>1, <3>2
      <3>. QED BY <2>2, <3>1, <3>3, <3>4
    <2>. QED BY <2>1, <2>2
  <1>8. hosts' \in [Hosts -> Host] /\ hosts'[h] = host /\ \A g \in Hosts \ {h} : hosts'[g] = hosts[g]
    BY <1>0, <1>7
  <1>9. ASSUME RowsGrow PROVE HostOK(h)'
    <2>1. CASE host.pc = "claim"
      BY <1>8, <2>1 DEF HostOK
    <2>2. CASE host.pc = "advance"
      <3>1. host.todo = Tail(todo) /\ host.now = now /\ Tail(todo) # <<>>
        BY <1>7, <2>2
      <3>2. ASSUME NEW n \in 1..Len(Tail(todo)) PROVE DueOK(Tail(todo)[n], now)'
        <4>1. PICK item \in Due : item = Tail(todo)[n] /\ DueOK(item, now)
          BY <1>2
        <4>2. item.seen \in Row
          BY DEF Due
        <4>3. SeenOK(item.id, item.seen)'
          BY <1>9, <4>1, <4>2, SeenStays DEF DueOK
        <4>. QED BY <4>1, <4>3 DEF DueOK
      <3>. QED BY <1>8, <2>2, <3>1, <3>2 DEF HostOK
    <2>. QED BY <1>7, <2>1, <2>2
  <1>10. CASE ~won
    <2>1. UNCHANGED <<schedules, outbox, queue, history>>
      BY <1>0, <1>5, <1>10 DEF history
    <2>2. RowsGrow
      BY <1>0, <2>1 DEF RowsGrow, SchedulerTypes
    <2>. QED BY <1>0, <1>8, <1>9, <2>1, <2>2, QuietStep
  <1>11. CASE won
    <2>1. schedules[s] = seen /\ seen.state = "active" /\ seen.def \in Definitions
      BY <1>4, <1>11 DEF Advanceable, Current, SeenOK
    <2>2. PICK row : row = [seen EXCEPT !.revision = seen.revision + 1, !.nextAt = plan.nextAt,
                                        !.state = IF plan.nextAt = NULL THEN "completed" ELSE seen.state]
      OBVIOUS
    <2>3. schedules' = [schedules EXCEPT ![s] = row]
      BY <1>0, <1>5, <1>11, <2>1, <2>2 DEF SchedulerTypes
    <2>4. /\ row.revision = seen.revision + 1 /\ row.nextAt = plan.nextAt /\ row.state # "absent"
          /\ row.def \in Definitions
      <3>. HIDE DEF plan
      <3>. QED BY <2>1, <2>2 DEF Row
    <2>5. row \in Row
      <3>1. seen.revision + 1 \in Nat
        BY <1>6
      <3>. HIDE DEF plan
      <3>. QED BY <1>6, <2>1, <2>2, <3>1 DEF Row
    <2>. HIDE DEF plan
    <2>6. row.revision > schedules[s].revision
      BY <1>6, <2>1, <2>4
    <2>7. /\ RowsGrow /\ RowsOK' /\ schedules'[s] = row
          /\ \A q \in ScheduleIds \ {s} : schedules'[q] = schedules[q]
      BY <2>3, <2>4, <2>5, <2>6, RowWritten
    <2>8. /\ outbox' \in [DOMAIN outbox' -> Occurrences] /\ DOMAIN outbox' \subseteq OccurrenceIds
          /\ IsFiniteSet(DOMAIN outbox') /\ DOMAIN outbox \subseteq DOMAIN outbox'
          /\ \A i \in DOMAIN outbox' : i \in DOMAIN outbox \/ i = id
          /\ TablesGrow /\ Kept /\ AcceptanceIsConfirmed'
      <3>1. CASE ~inserts
        <4>1. outbox' = outbox /\ queue' = queue
          BY <1>0, <1>5, <3>1
        <4>. QED BY <1>0, <4>1 DEF SchedulerInv, SchedulerTypes, TablesGrow, Kept, AcceptanceIsConfirmed
      <3>2. CASE inserts
        <4>1. plan.scheduledAt \in Nat
          BY <1>6, <3>2
        <4>2. id \in OccurrenceIds
          BY <1>6, <4>1 DEF OccurrenceIds
        <4>3. id \notin DOMAIN outbox
          BY <1>6, <2>1, <4>1 DEF SchedulerInv, TimersOK
        <4>4. PICK o \in Occurrences : /\ outbox' = With(outbox, id, o)
                                       /\ o.state = "pending" /\ o.jobId = NULL
          BY <1>5, <1>6, <3>2, <4>1, NewOccurrenceFacts
        <4>. HIDE DEF id
        <4>5. /\ outbox' \in [DOMAIN outbox' -> Occurrences] /\ DOMAIN outbox' \subseteq OccurrenceIds
              /\ IsFiniteSet(DOMAIN outbox') /\ DOMAIN outbox' = DOMAIN outbox \cup {id}
              /\ TablesGrow /\ Kept /\ AcceptanceIsConfirmed'
          BY <1>0, <4>2, <4>3, <4>4, OccurrenceAdded
        <4>. QED BY <4>5
      <3>. QED BY <3>1, <3>2
    <2>9. reserved' \subseteq ScheduleIds \X Nat \X Nat \X Nat
      <3>1. epoch[s] \in Nat /\ reserved \subseteq ScheduleIds \X Nat \X Nat \X Nat
        BY <1>0 DEF SchedulerTypes
      <3>. QED BY <1>5, <1>6, <3>1
    <2>10. SchedulerTypes'
      BY <1>0, <1>8, <2>7, <2>8, <2>9 DEF SchedulerTypes, RowsGrow
    <2>11. TimersOK'
      <3>1. ASSUME NEW q \in ScheduleIds, NEW r \in Nat, NEW at \in Nat, TimerId(q, r, at) \in DOMAIN outbox'
            PROVE  r < schedules'[q].revision
        <4>1. CASE TimerId(q, r, at) \in DOMAIN outbox
          <5>1. r < schedules[q].revision /\ schedules[q].revision \in Nat
            BY <1>0, <4>1 DEF SchedulerInv, TimersOK, SchedulerTypes, Row
          <5>. QED BY <1>6, <2>1, <2>4, <2>7, <5>1
        <4>2. CASE TimerId(q, r, at) = id
          <5>1. q = s /\ r = seen.revision
            BY <4>2, IdFacts
          <5>. QED BY <1>6, <2>4, <2>7, <5>1
        <4>. QED BY <2>8, <3>1, <4>1, <4>2
      <3>. QED BY <3>1 DEF TimersOK
    <2>12. \A x \in reserved : /\ x[1] \in ScheduleIds /\ x[2] \in Nat /\ x[3] \in Nat
                               /\ x[2] <= epoch[x[1]] /\ epoch[x[1]] \in Nat
                               /\ x[1] = s /\ x[2] = epoch[s] => x[3] < seen.nextAt
      <3>1. \A x \in reserved : /\ x[1] \in ScheduleIds /\ x[2] \in Nat /\ x[3] \in Nat
        BY <1>0 DEF SchedulerTypes
      <3>. QED BY <1>0, <1>4, <2>1, <3>1 DEF SchedulerInv, ReservedOK, SchedulerTypes
    <2>13. ASSUME NEW x \in reserved', x \notin reserved
           PROVE  inserts /\ x = <<s, epoch[s], seen.nextAt, seen.revision>>
      BY <1>5, <1>6, <2>13
    <2>14. ReservedOK'
      <3>1. ASSUME NEW x \in reserved'
            PROVE  /\ x[2] <= epoch[x[1]]
                   /\ x[2] = epoch[x[1]] /\ schedules'[x[1]].nextAt # NULL => x[3] < schedules'[x[1]].nextAt
        <4>1. CASE x \in reserved
          <5>1. CASE x[1] = s
            BY <1>4, <1>6, <2>4, <2>7, <2>12, <4>1, <5>1
          <5>2. CASE x[1] # s
            BY <2>7, <2>12, <4>1, <5>2 DEF SchedulerInv, ReservedOK
          <5>. QED BY <5>1, <5>2
        <4>2. CASE x \notin reserved
          <5>1. x[1] = s /\ x[2] = epoch[s] /\ x[3] = seen.nextAt /\ epoch[s] \in Nat
            BY <1>0, <2>13, <4>2 DEF SchedulerTypes
          <5>. QED BY <1>4, <1>6, <2>4, <2>7, <5>1
        <4>. QED BY <4>1, <4>2
      <3>. QED BY <1>0, <3>1 DEF ReservedOK
    <2>15. InstantOnce'
      <3>1. SUFFICES ASSUME NEW x \in reserved', NEW y \in reserved', x[1] = y[1], x[2] = y[2], x[3] = y[3]
                     PROVE  x = y
        BY DEF InstantOnce
      <3>2. ASSUME NEW u \in reserved, NEW v \in reserved', v \notin reserved,
                   u[1] = v[1], u[2] = v[2], u[3] = v[3]
            PROVE  FALSE
        <4>1. v[1] = s /\ v[2] = epoch[s] /\ v[3] = seen.nextAt
          BY <2>13, <3>2
        <4>2. u[3] < seen.nextAt /\ u[3] \in Nat
          BY <2>12, <3>2, <4>1
        <4>. QED BY <1>6, <3>2, <4>1, <4>2
      <3>3. CASE x \in reserved /\ y \in reserved
        BY <3>1, <3>3 DEF SchedulerInv, InstantOnce
      <3>4. CASE x \notin reserved /\ y \notin reserved
        BY <2>13, <3>4
      <3>. QED BY <3>1, <3>2, <3>3, <3>4
    <2>16. (\A g \in Hosts : HostOK(g)') /\ (\A e \in Editors : EditorOK(e)')
      BY <1>0, <1>8, <1>9, <2>7, <2>8, ViewsStay
    <2>. QED BY <2>7, <2>8, <2>10, <2>11, <2>14, <2>15, <2>16 DEF SchedulerInv
  <1>. QED BY <1>10, <1>11

-----------------------------------------------------------------------------
(* Dispatch.                                                               *)

(* There are more numbers than tokens in use, so a fresh one exists.       *)
LEMMA FreshTokenFacts ==
  ASSUME SchedulerInv
  PROVE  /\ FreshToken \in Nat
         /\ \A i \in DOMAIN outbox : outbox[i].leaseToken # FreshToken
         /\ \A h \in Hosts : hosts[h].token # FreshToken
  <1>. DEFINE A == {outbox[i].leaseToken : i \in DOMAIN outbox}
              B == {hosts[h].token : h \in Hosts}
              n == Cardinality(DOMAIN outbox)
              m == Cardinality(Hosts)
  <1>1. IsFiniteSet(A) /\ Cardinality(A) \in Nat /\ Cardinality(A) <= n /\ n \in Nat
    <2>1. [i \in DOMAIN outbox |-> outbox[i].leaseToken] \in Surjection(DOMAIN outbox, A)
      BY Fun_IsSurj
    <2>2. IsFiniteSet(DOMAIN outbox)
      BY DEF SchedulerInv, SchedulerTypes
    <2>. HIDE DEF A
    <2>. QED BY <2>1, <2>2, FS_Surjection, FS_CardinalityType
  <1>2. IsFiniteSet(B) /\ Cardinality(B) \in Nat /\ Cardinality(B) <= m /\ m \in Nat
    <2>1. [h \in Hosts |-> hosts[h].token] \in Surjection(Hosts, B)
      BY Fun_IsSurj
    <2>. HIDE DEF B
    <2>. QED BY <2>1, ConstantFacts, FS_Surjection, FS_CardinalityType
  <1>. HIDE DEF n, m
  <1>3. \E k \in 1..(n + m + 1) : k \notin A \cup B
    <2>. HIDE DEF A, B
    <2>1. IsFiniteSet(A \cup B) /\ Cardinality(A \cup B) <= n + m /\ Cardinality(A \cup B) \in Nat
      <3>1. /\ IsFiniteSet(A \cup B)
            /\ Cardinality(A \cup B) = Cardinality(A) + Cardinality(B) - Cardinality(A \cap B)
        BY <1>1, <1>2, FS_Union
      <3>2. Cardinality(A \cap B) \in Nat
        <4>1. A \cap B \in SUBSET A
          OBVIOUS
        <4>. QED BY <1>1, <4>1, FS_Subset, FS_CardinalityType
      <3>3. Cardinality(A \cup B) \in Nat
        BY <3>1, FS_CardinalityType
      <3>. QED BY <1>1, <1>2, <3>1, <3>2, <3>3
    <2>2. Cardinality(1..(n + m + 1)) = n + m + 1
      BY <1>1, <1>2, FS_Interval
    <2>3. SUFFICES ASSUME 1..(n + m + 1) \subseteq A \cup B PROVE FALSE
      OBVIOUS
    <2>4. Cardinality(1..(n + m + 1)) <= Cardinality(A \cup B)
      <3>1. 1..(n + m + 1) \in SUBSET (A \cup B)
        BY <2>3
      <3>. QED BY <2>1, <3>1, FS_Subset
    <2>. QED BY <1>1, <1>2, <2>1, <2>2, <2>4
  <1>4. \E k \in 1..(n + m + 1) : /\ \A i \in DOMAIN outbox : outbox[i].leaseToken # k
                                  /\ \A h \in Hosts : hosts[h].token # k
    BY <1>3
  <1>5. FreshToken = CHOOSE k \in 1..(n + m + 1) : /\ \A i \in DOMAIN outbox : outbox[i].leaseToken # k
                                                   /\ \A h \in Hosts : hosts[h].token # k
    BY DEF FreshToken, n, m
  <1>6. /\ FreshToken \in 1..(n + m + 1)
        /\ \A i \in DOMAIN outbox : outbox[i].leaseToken # FreshToken
        /\ \A h \in Hosts : hosts[h].token # FreshToken
    BY <1>4, <1>5
  <1>. QED BY <1>1, <1>2, <1>6

LEMMA ClaimStep ==
  ASSUME SchedulerInv, NEW h \in Hosts, Claim(h)
  PROVE  SchedulerInv' /\ Kept
  <1>0. /\ SchedulerTypes /\ hosts[h] \in Host /\ hosts \in [Hosts -> Host]
        /\ clock \in Nat /\ clock > Skew /\ edits \in Nat /\ faults \in Nat /\ editors \in [Editors -> Editor]
        /\ UNCHANGED <<clock, schedules, queue, editors, edits, faults, history>>
        /\ outbox \in [DOMAIN outbox -> Occurrences] /\ DOMAIN outbox \subseteq OccurrenceIds
    BY DEF SchedulerInv, SchedulerTypes, Claim
  <1>1. CASE hosts' = [hosts EXCEPT ![h] = Resting] /\ UNCHANGED outbox
    BY <1>0, <1>1, ToClaimFacts, QuietStep
  <1>2. ASSUME NEW now \in HostTimes, NEW i \in DOMAIN outbox, Claimable(outbox[i], now),
               outbox' = [outbox EXCEPT ![i].leaseToken = FreshToken, ![i].leaseUntil = now + LeaseMs],
               hosts' = [hosts EXCEPT ![h] = [hosts[h] EXCEPT !.pc = "lookup", !.entry = i,
                                                       !.token = FreshToken, !.count = @ + 1]]
        PROVE  SchedulerInv' /\ Kept
    <2>1. PICK token \in Nat, until \in Nat : token = FreshToken /\ until = now + LeaseMs
      BY <1>0, HostTimeFacts, ConstantFacts, FreshTokenFacts
    <2>2. PICK host : host = [hosts[h] EXCEPT !.pc = "lookup", !.entry = i, !.token = token, !.count = @ + 1]
      OBVIOUS
    <2>3. host \in Host /\ host.pc = "lookup" /\ host.entry = i
      <3>1. hosts[h].count + 1 \in Nat
        BY <1>0 DEF Host
      <3>. QED BY <1>0, <2>2, <3>1 DEF Host
    <2>4. PICK o : o = [outbox[i] EXCEPT !.leaseToken = token, !.leaseUntil = until]
      OBVIOUS
    <2>5. /\ o \in Occurrences /\ o.state = outbox[i].state /\ o.scheduledAt = outbox[i].scheduledAt
          /\ o.jobId = outbox[i].jobId
      BY <1>0, <2>4 DEF Occurrences
    <2>6. hosts' = [hosts EXCEPT ![h] = host] /\ outbox' = [outbox EXCEPT ![i] = o]
      <3>1. hosts' = [hosts EXCEPT ![h] = host]
        <4>1. hosts' = [hosts EXCEPT ![h] = [hosts[h] EXCEPT !.pc = "lookup", !.entry = i, !.token = FreshToken,
                                                             !.count = hosts[h].count + 1]]
          BY <1>2
        <4>2. host = [hosts[h] EXCEPT !.pc = "lookup", !.entry = i, !.token = FreshToken, !.count = hosts[h].count + 1]
          BY <2>1, <2>2
        <4>. QED BY <4>1, <4>2
      <3>2. outbox' = [outbox EXCEPT ![i] = o]
        BY <1>0, <1>2, <2>1, <2>4
      <3>. QED BY <3>1, <3>2
    <2>7. outbox[i].state = "pending" /\ outbox[i].jobId = NULL
      BY <1>2 DEF Claimable, SchedulerInv, AcceptanceIsConfirmed
    <2>8. hosts' \in [Hosts -> Host] /\ hosts'[h] = host /\ \A g \in Hosts \ {h} : hosts'[g] = hosts[g]
      BY <1>0, <2>3, <2>6
    <2>9. HostOK(h)'
      <3>1. DOMAIN outbox' = DOMAIN outbox
        BY <1>0, <2>6
      <3>. QED BY <2>3, <2>8, <3>1 DEF HostOK
    <2>10. o.state # "enqueued" /\ o.jobId = NULL
      BY <2>5, <2>7
    <2>. QED BY <1>0, <2>5, <2>6, <2>7, <2>8, <2>9, <2>10, OccurrenceSet
  <1>. QED BY <1>1, <1>2 DEF Claim

LEMMA RenewStep ==
  ASSUME SchedulerInv, NEW h \in Hosts, Renew(h)
  PROVE  SchedulerInv' /\ Kept
  <1>. DEFINE i == hosts[h].entry
  <1>0. /\ SchedulerTypes /\ HostOK(h) /\ hosts[h].pc = "renew" /\ i \in DOMAIN outbox
        /\ clock \in Nat /\ clock > Skew /\ edits \in Nat /\ faults \in Nat /\ editors \in [Editors -> Editor]
        /\ UNCHANGED <<clock, schedules, queue, editors, edits, faults, history>>
        /\ outbox \in [DOMAIN outbox -> Occurrences] /\ DOMAIN outbox \subseteq OccurrenceIds
    BY DEF SchedulerInv, SchedulerTypes, Renew, At, HostOK
  <1>1. CASE hosts' = [hosts EXCEPT ![h].pc = "claim", ![h].entry = NULL, ![h].token = NULL] /\ UNCHANGED outbox
    BY <1>0, <1>1, ToClaimFacts, QuietStep
  <1>2. ASSUME NEW now \in HostTimes, LeaseLive(h, now), ToPc(h, "enqueue"),
               outbox' = [outbox EXCEPT ![i].leaseUntil = now + LeaseMs]
        PROVE  SchedulerInv' /\ Kept
    <2>1. now + LeaseMs \in Nat
      BY <1>0, HostTimeFacts, ConstantFacts
    <2>2. PICK o : o = [outbox[i] EXCEPT !.leaseUntil = now + LeaseMs]
      OBVIOUS
    <2>3. /\ o \in Occurrences /\ o.state = outbox[i].state /\ o.scheduledAt = outbox[i].scheduledAt
          /\ o.jobId = outbox[i].jobId
      BY <1>0, <2>1, <2>2 DEF Occurrences
    <2>4. outbox' = [outbox EXCEPT ![i] = o]
      BY <1>0, <1>2, <2>2
    <2>5. outbox[i].state = "pending" /\ outbox[i].jobId = NULL
      BY <1>0, <1>2 DEF LeaseLive, SchedulerInv, AcceptanceIsConfirmed
    <2>6. "enqueue" \in Dispatching
      BY DEF Dispatching
    <2>7. /\ hosts' \in [Hosts -> Host] /\ \A g \in Hosts \ {h} : hosts'[g] = hosts[g]
          /\ hosts'[h].pc = "enqueue" /\ hosts'[h].entry = i
      BY <1>0, <1>2, <2>6, ToPcFacts
    <2>8. HostOK(h)'
      <3>1. DOMAIN outbox' = DOMAIN outbox
        BY <1>0, <2>4
      <3>. QED BY <1>0, <2>7, <3>1 DEF HostOK
    <2>9. o.state # "enqueued" /\ o.jobId = NULL
      BY <2>3, <2>5
    <2>. HIDE DEF i
    <2>. QED BY <1>0, <2>3, <2>4, <2>5, <2>7, <2>8, <2>9, OccurrenceSet
  <1>. QED BY <1>1, <1>2 DEF Renew

(* The queue holds one job for an occurrence, and keeps it.                *)
LEMMA EnqueueSteps ==
  ASSUME SchedulerInv, NEW h \in Hosts, Enqueue(h) \/ EnqueueUnanswered(h)
  PROVE  SchedulerInv' /\ Kept
  <1>. DEFINE i == hosts[h].entry
              job == IF i \in DOMAIN queue THEN queue[i] ELSE NewJob
  <1>0. /\ SchedulerTypes /\ HostOK(h) /\ hosts[h].pc = "enqueue" /\ i \in DOMAIN outbox
        /\ faults \in Nat /\ faults' \in Nat
        /\ UNCHANGED <<clock, schedules, outbox, editors, edits, history>>
        /\ queue \in [DOMAIN queue -> Nat] /\ DOMAIN queue \subseteq DOMAIN outbox
    BY DEF SchedulerInv, SchedulerTypes, Enqueue, EnqueueUnanswered, At, HostOK, Fault
  <1>1. job \in Nat
    <2>1. Cardinality(DOMAIN queue) \in Nat
      BY <1>0, FS_Subset, FS_CardinalityType DEF SchedulerTypes
    <2>. QED BY <1>0, <2>1 DEF NewJob
  <1>2. queue' = With(queue, i, job) \/ (i \in DOMAIN queue /\ queue' = queue)
    BY DEF Enqueue, EnqueueUnanswered
  <1>. HIDE DEF job
  <1>3. /\ DOMAIN queue' = DOMAIN queue \cup {i} /\ queue' \in [DOMAIN queue' -> Nat]
        /\ queue'[i] = job /\ \A k \in DOMAIN queue : queue'[k] = queue[k]
    <2>1. CASE queue' = With(queue, i, job)
      <3>. HIDE DEF i
      <3>1. /\ DOMAIN queue' = DOMAIN queue \cup {i} /\ queue'[i] = job
            /\ \A k \in DOMAIN queue \ {i} : queue'[k] = queue[k]
            /\ queue' = [k \in DOMAIN queue' |-> queue'[k]]
        BY <2>1 DEF With
      <3>2. i \in DOMAIN queue => job = queue[i]
        BY DEF job, i
      <3>. QED BY <1>0, <1>1, <3>1, <3>2
    <2>2. CASE i \in DOMAIN queue /\ queue' = queue
      BY <1>0, <2>2 DEF job
    <2>. QED BY <1>2, <2>1, <2>2
  <1>4. RowsGrow /\ TablesGrow /\ Kept
    BY <1>0, <1>3 DEF RowsGrow, TablesGrow, Kept, SchedulerTypes
  <1>5. hosts' \in [Hosts -> Host] /\ HostOK(h)' /\ \A g \in Hosts \ {h} : hosts'[g] = hosts[g]
    <2>1. \E result \in {"enqueued", "dispatch-failed"}, j \in Nat :
            ToSettle(h, result, j) /\ (result = "enqueued" => j = job)
      <3>1. NULL \in Nat
        BY DEF NULL
      <3>. QED BY <1>1, <3>1 DEF Enqueue, EnqueueUnanswered, job
    <2>2. PICK result \in {"enqueued", "dispatch-failed"}, j \in Nat :
            ToSettle(h, result, j) /\ (result = "enqueued" => j = job)
      BY <2>1
    <2>3. /\ hosts' \in [Hosts -> Host] /\ \A g \in Hosts \ {h} : hosts'[g] = hosts[g]
          /\ hosts'[h].pc = "settle" /\ hosts'[h].entry = i
          /\ hosts'[h].result = result /\ hosts'[h].jobId = j
      BY <1>0, <2>2, ToSettleFacts
    <2>4. HostOK(h)'
      BY <1>0, <1>3, <2>2, <2>3 DEF HostOK
    <2>. QED BY <2>3, <2>4
  <1>6. (\A g \in Hosts : HostOK(g)') /\ (\A e \in Editors : EditorOK(e)')
    BY <1>0, <1>4, <1>5, ViewsStay
  <1>7. SchedulerTypes'
    BY <1>0, <1>3, <1>5 DEF SchedulerTypes, history
  <1>8. RowsOK' /\ TimersOK' /\ ReservedOK' /\ InstantOnce' /\ AcceptanceIsConfirmed'
    <2>1. RowsOK' /\ TimersOK' /\ ReservedOK' /\ InstantOnce'
      BY <1>0 DEF SchedulerInv, RowsOK, TimersOK, ReservedOK, InstantOnce, history
    <2>. HIDE DEF i
    <2>2. AcceptanceIsConfirmed'
      BY <1>0, <1>3 DEF SchedulerInv, AcceptanceIsConfirmed
    <2>. QED BY <2>1, <2>2
  <1>. QED BY <1>4, <1>6, <1>7, <1>8 DEF SchedulerInv

(* Only a pending occurrence is settled, and an acknowledged one names the *)
(* job that the queue holds.                                               *)
LEMMA SettleSteps ==
  ASSUME SchedulerInv, NEW h \in Hosts, Settle(h) \/ SettleFails(h)
  PROVE  SchedulerInv' /\ Kept
  <1>. DEFINE i == hosts[h].entry
              result == hosts[h].result
              job == hosts[h].jobId
  <1>0. /\ SchedulerTypes /\ HostOK(h) /\ hosts[h].pc = "settle" /\ i \in DOMAIN outbox /\ hosts[h] \in Host
        /\ clock \in Nat /\ clock > Skew /\ edits \in Nat /\ faults' \in Nat /\ editors \in [Editors -> Editor]
        /\ UNCHANGED <<clock, schedules, queue, editors, edits, history>>
        /\ outbox \in [DOMAIN outbox -> Occurrences] /\ outbox[i] \in Occurrences
    BY SMTT(30) DEF SchedulerInv, SchedulerTypes, Settle, SettleFails, At, HostOK, Fault
  <1>1. result = "enqueued" => i \in DOMAIN queue /\ queue[i] = job
    BY <1>0 DEF HostOK
  <1>2. outbox' = outbox \/ (Holds(h) /\ outbox' = [outbox EXCEPT ![i] = Outcome(@, result, job)])
    BY DEF Settle, SettleFails
  <1>3. hosts' \in [Hosts -> Host] /\ \A g \in Hosts : hosts'[g] = hosts[g] \/ HostOK(g)'
    <2>1. CASE Settle(h)
      BY <1>0, <2>1, ToClaimFacts DEF Settle
    <2>2. CASE SettleFails(h)
      <3>1. ToSettle(h, "dispatch-failed", NULL) /\ NULL \in Nat
        BY <2>2 DEF SettleFails, NULL
      <3>2. /\ hosts' \in [Hosts -> Host] /\ \A g \in Hosts \ {h} : hosts'[g] = hosts[g]
            /\ hosts'[h].pc = "settle" /\ hosts'[h].entry = i /\ hosts'[h].result = "dispatch-failed"
        BY <1>0, <3>1, ToSettleFacts
      <3>3. DOMAIN outbox' = DOMAIN outbox
        BY <1>0, <1>2
      <3>4. HostOK(h)'
        BY <1>0, <3>2, <3>3 DEF HostOK
      <3>. QED BY <3>2, <3>4
    <2>. QED BY <2>1, <2>2
  <1>4. CASE outbox' = outbox
    BY <1>0, <1>3, <1>4, QuietStep
  <1>5. CASE Holds(h) /\ outbox' = [outbox EXCEPT ![i] = Outcome(@, result, job)]
    <2>1. outbox[i].state = "pending" /\ outbox[i].jobId = NULL
      BY <1>0, <1>5 DEF Holds, SchedulerInv, AcceptanceIsConfirmed
    <2>2. PICK o : o = Outcome(outbox[i], result, job)
      OBVIOUS
    <2>3. outbox' = [outbox EXCEPT ![i] = o]
      BY <1>0, <1>5, <2>2
    <2>4. job \in Nat
      BY <1>0 DEF Host
    <2>5. /\ o \in Occurrences /\ o.scheduledAt = outbox[i].scheduledAt
          /\ o.state = "enqueued" => result = "enqueued" /\ o.jobId = job
          /\ o.state # "enqueued" => o.jobId = NULL
      <3>. HIDE DEF i, result, job
      <3>1. CASE result = "enqueued"
        <4>1. o = [outbox[i] EXCEPT !.state = "enqueued", !.jobId = job, !.leaseToken = NULL, !.leaseUntil = NULL]
          BY <2>2, <3>1 DEF Outcome
        <4>. QED BY <1>0, <2>4, <3>1, <4>1 DEF Occurrences, NULL
      <3>2. CASE result = "dispatch-failed"
        <4>1. o = [outbox[i] EXCEPT !.leaseToken = NULL]
          BY <2>2, <3>2 DEF Outcome
        <4>. QED BY <1>0, <2>1, <3>2, <4>1 DEF Occurrences, NULL
      <3>3. CASE result # "enqueued" /\ result # "dispatch-failed"
        <4>1. o = [outbox[i] EXCEPT !.state = "blocked", !.leaseToken = NULL, !.leaseUntil = NULL]
          BY <2>2, <3>3 DEF Outcome
        <4>. QED BY <1>0, <2>1, <3>3, <4>1 DEF Occurrences, NULL
      <3>. QED BY <3>1, <3>2, <3>3
    <2>6. o.state = "enqueued" => i \in DOMAIN queue /\ queue[i] = o.jobId
      BY <1>1, <2>5
    <2>. HIDE DEF i
    <2>. QED BY <1>0, <1>3, <2>1, <2>3, <2>5, <2>6, OccurrenceSet
  <1>. QED BY <1>2, <1>4, <1>5

-----------------------------------------------------------------------------

LEMMA SchedulerStep ==
  ASSUME SchedulerInv, [Next]_vars
  PROVE  SchedulerInv' /\ (UNCHANGED vars \/ Kept)
  <1>1. CASE UNCHANGED vars
    <2>1. /\ UNCHANGED <<schedules, outbox, queue, history, hosts, editors>>
          /\ clock' \in Nat /\ clock' > Skew /\ edits' \in Nat /\ faults' \in Nat
          /\ hosts' \in [Hosts -> Host] /\ editors' \in [Editors -> Editor]
      BY <1>1 DEF vars, tables, SchedulerInv, SchedulerTypes
    <2>. QED BY <1>1, <2>1, QuietStep
  <1>2. CASE Tick
    BY <1>2, TickStep
  <1>3. CASE \E s \in ScheduleIds, def \in Definitions : Create(s, def)
    BY <1>3, CreateStep
  <1>4. CASE \E e \in Editors : EditorStep(e)
    BY <1>4, EditorSteps
  <1>5. ASSUME NEW h \in Hosts, HostStep(h) \/ HostFails(h) PROVE SchedulerInv' /\ Kept
    <2>1. CASE Lookup(h) \/ Authorize(h) \/ EnqueueRefused(h) \/ QueueFails(h) \/ Abandon(h)
      BY <2>1, SilentHostSteps
    <2>2. CASE ReadDue(h) \/ Advance(h)
      BY <2>2, ReadDueStep, AdvanceStep
    <2>3. CASE Claim(h) \/ Renew(h)
      BY <2>3, ClaimStep, RenewStep
    <2>4. CASE Enqueue(h) \/ EnqueueUnanswered(h)
      BY <2>4, EnqueueSteps
    <2>5. CASE Settle(h) \/ SettleFails(h)
      BY <2>5, SettleSteps
    <2>. QED BY <1>5, <2>1, <2>2, <2>3, <2>4, <2>5 DEF HostStep, HostFails
  <1>. QED BY <1>1, <1>2, <1>3, <1>4, <1>5 DEF Next

THEOREM SchedulerInvariant == Spec => []SchedulerInv
  BY SchedulerInit, SchedulerStep, PTL DEF Spec

(* The tables and the hosts keep their types.                              *)
THEOREM SchedulerTyping == Spec => []TypeOK
  <1>1. SchedulerInv => TypeOK
    BY DEF SchedulerInv, SchedulerTypes, TypeOK, Row, Host
  <1>. QED BY <1>1, SchedulerInvariant, PTL

(* No instant of a definition is reserved twice, whatever hosts and        *)
(* editors do at the same time.                                            *)
THEOREM InstantsReservedOnce == Spec => []InstantOnce
  <1>1. SchedulerInv => InstantOnce
    BY DEF SchedulerInv
  <1>. QED BY <1>1, SchedulerInvariant, PTL

(* An enqueued occurrence names the job that the queue holds for it.       *)
THEOREM EnqueuedIsAccepted == Spec => []AcceptanceIsConfirmed
  <1>1. SchedulerInv => AcceptanceIsConfirmed
    BY DEF SchedulerInv
  <1>. QED BY <1>1, SchedulerInvariant, PTL

(* A reserved occurrence is neither withdrawn nor reopened.                *)
THEOREM OccurrencesStay == Spec => OccurrencesAreKept
  <1>1. SchedulerInv /\ [Next]_vars => [Kept]_vars
    BY SchedulerStep
  <1>2. Spec => [][Kept]_vars
    BY <1>1, SchedulerInvariant, PTL DEF Spec
  <1>. QED BY <1>2 DEF OccurrencesAreKept, Kept

-----------------------------------------------------------------------------
(***************************************************************************)
(* The media: one derivation, its attempts and its recoveries.             *)
(***************************************************************************)
(* recover() takes its candidates in order: there is always a first one.   *)
LEMMA LeastNatural ==
  ASSUME NEW T \in SUBSET Nat, T # {}
  PROVE  \E x \in T : \A y \in T : x <= y
<1>1. PICK x \in T : \A y \in T : ~(<<y, x>> \in OpToRel(<, Nat))
  BY NatLessThanWellFounded, WFMin
<1>2. OpToRel(<, Nat) = {ss \in Nat \X Nat : ss[1] < ss[2]} BY Zenon DEF OpToRel
<1>3. PICK R : R = OpToRel(<, Nat) OBVIOUS
<1>4. \A y \in T : ~(<<y, x>> \in R) BY Zenon, <1>1, <1>3
<1>5. R = {ss \in Nat \X Nat : ss[1] < ss[2]} BY Zenon, <1>2, <1>3
<1>6. ASSUME NEW y \in T PROVE x <= y
  <2>1. <<y, x>> \notin {ss \in Nat \X Nat : ss[1] < ss[2]} BY <1>4, <1>5
  <2>. QED BY <2>1
<1>. QED BY <1>6

(* The types of the variables.                                             *)
MediaRecord == [state : {"pending", "running"} \cup MediaTerminal, fence : 0..MaxAttempts, exec : 0..MaxAttempts,
                cancel : BOOLEAN, result : 0..MaxAttempts, error : {"none"} \cup Errors]

Job == [state : {"none", "pending", "running", "succeeded", "failed", "cancelled"},
        attempt : 0..MaxAttempts, max : Attempts, cancel : BOOLEAN]

ExecPcs == {"idle", "claim", "work", "stage", "insert", "uploading", "put", "gate", "readyfile", "failfile",
            "unlink", "publish", "catch", "settle", "recover", "sweeping", "ended", "dead"}

Exec == [pc : ExecPcs, error : {"none"} \cup Errors, owned : BOOLEAN, rev : Nat, cancelled : BOOLEAN, throws : BOOLEAN]

Artifact == [state : {"none", "staged", "discarding", "deleted"}, rev : Nat]

File == [state : {"none", "pending", "uploading", "ready", "failed", "deleting", "deleted"}, rev : Nat]

SweepPcs == {"idle", "pick", "mark", "revoke", "delete", "unlink", "deleted", "tombstone"}

Seen == UNION {[S -> Artifact] : S \in SUBSET Attempts}

Sweep == [pc : SweepPcs, seen : Seen, of : 0..MaxAttempts, fileRev : Nat, clean : BOOLEAN]

OperatorPcs == {"idle", "canceltask", "recover", "sweeping", "retrytask", "project"}

MediaTypes ==
  /\ media \in MediaRecord /\ task \in Job
  /\ execs \in [Attempts -> Exec]
  /\ journal \in [Attempts -> Artifact] /\ uploads \in [Attempts -> File]
  /\ objects \subseteq Attempts /\ late \subseteq Attempts
  /\ sweeps \in [Sweepers -> Sweep]
  /\ operator \in [pc : OperatorPcs, read : SUBSET MediaRecord, left : Nat]
  /\ swept \in BOOLEAN /\ mediaFaults \in Nat

(* An attempt that has begun can still be alive or not; once the record    *)
(* neither is executed by it nor is its result, that is so for ever.       *)
Begun(c) == execs[c].pc \notin {"idle", "claim"}
Lost(c) == Begun(c) /\ media.exec # c /\ media.result # c

(* The record, what an operator read of it, and the task's attempts.       *)
RecordOK ==
  /\ media.result # 0 <=> media.state = "ready"
  /\ media.state \in MediaTerminal => media.exec = 0
  /\ \A m \in operator.read : m.state = "failed"
  /\ \A a \in Attempts : execs[a].pc # "idle" => a <= task.attempt

(* execute() has claimed its file.                                         *)
Uploaded == {"put", "gate", "readyfile", "failfile", "unlink", "publish"}

(* The artifact, the file and the object of one attempt: the journal knows *)
(* every object, it discards nothing of an attempt that executes or was    *)
(* published, and an attempt that publishes holds a ready file.            *)
AttemptOK(c) ==
  /\ media.exec = c => Begun(c)
  /\ journal[c].state # "none" => Begun(c)
  /\ journal[c].state \in {"discarding", "deleted"} => media.exec # c /\ media.result # c
  /\ execs[c].pc \in Uploaded \cup {"insert", "uploading"} => journal[c].state # "none"
  /\ execs[c].pc \in Uploaded => uploads[c].state # "none"
  /\ c \in objects \cup late => journal[c].state # "none" /\ uploads[c].state # "none"
  /\ media.exec = c /\ execs[c].pc \in {"gate", "readyfile", "publish"} => c \in objects
  /\ media.exec = c /\ execs[c].pc = "publish" => uploads[c].state = "ready"
  /\ media.result = c => /\ journal[c].state = "staged" /\ uploads[c].state = "ready" /\ c \in objects
                         /\ execs[c].pc \in {"catch", "recover", "sweeping", "ended", "dead"}

(* A recovery has begun attempts to look at, and what it is removing       *)
(* belongs to a lost one.                                                  *)
SweepOK(p) ==
  /\ p # User /\ sweeps[p].pc # "idle" => execs[p].pc = "sweeping"
  /\ sweeps[p].pc = "idle" => ~sweeps[p].clean
  /\ DOMAIN sweeps[p].seen \subseteq {c \in Attempts : Begun(c)}
  /\ sweeps[p].pc \notin {"idle", "pick"} => sweeps[p].of \in DOMAIN sweeps[p].seen /\ Lost(sweeps[p].of)

(* A recovery that can still report success: nothing else is alive, every  *)
(* object but the published one is ahead of it, and who is past an object  *)
(* removed it.  A file may be called deleted only after its object went.   *)
CleanOK(p) ==
  sweeps[p].clean =>
    /\ late = {} /\ media.exec = 0
    /\ \A a \in Attempts \ {p} : ~Alive(a)
    /\ objects \subseteq {media.result} \cup DOMAIN sweeps[p].seen
    /\ \A q \in Sweepers : sweeps[q].pc = "deleted" => sweeps[q].of \notin objects
    /\ sweeps[p].pc = "tombstone" => sweeps[p].of \notin objects
    /\ sweeps[p].pc = "delete" /\ uploads[sweeps[p].of].state = "deleted" => sweeps[p].of \notin objects

(* A recovery that reported success has left nothing behind.               *)
SweptOK == swept => late = {} /\ (\A a \in Attempts : ~Alive(a)) /\ objects \subseteq {media.result}

MediaInv ==
  /\ MediaTypes
  /\ RecordOK
  /\ \A c \in Attempts : AttemptOK(c)
  /\ \A p \in Sweepers : SweepOK(p) /\ CleanOK(p)
  /\ SweptOK

LEMMA MediaFacts ==
  /\ MaxAttempts \in Nat /\ Attempts \subseteq 0..MaxAttempts /\ 0 \in 0..MaxAttempts /\ 0 \notin Attempts
  /\ Attempts \subseteq Nat /\ Attempts \subseteq Sweepers /\ User \in Sweepers /\ User \notin Attempts
  /\ Sweepers = Attempts \cup {User}
<1>. QED BY MediaAssumption DEF Attempts, Sweepers, User

LEMMA NoneSeen == <<>> \in Seen /\ DOMAIN <<>> = {}
<1>1. <<>> \in Seq(Artifact) /\ Len(<<>>) = 0 OBVIOUS
<1>2. DOMAIN <<>> = 1..0 BY <1>1
<1>3. <<>> \in [{} -> Artifact] OBVIOUS
<1>4. {} \in SUBSET Attempts OBVIOUS
<1>. QED BY <1>2, <1>3, <1>4 DEF Seen

LEMMA SeenType ==
  ASSUME NEW seen \in Seen
  PROVE  DOMAIN seen \subseteq Attempts /\ seen \in [DOMAIN seen -> Artifact]
BY DEF Seen

LEMMA TypeSeen ==
  ASSUME NEW S \in SUBSET Attempts, NEW seen \in [S -> Artifact]
  PROVE  seen \in Seen
BY DEF Seen

LEMMA NoSweepFacts ==
  NoSweep \in Sweep /\ NoSweep.pc = "idle" /\ ~NoSweep.clean /\ DOMAIN NoSweep.seen = {}
BY NoneSeen, MediaFacts DEF NoSweep, Sweep, SweepPcs

LEMMA NoExecFacts == NoExec \in Exec /\ NoExec.pc = "idle"
BY DEF NoExec, Exec, ExecPcs

LEMMA MediaInitial == MediaInit => MediaInv
<1>. SUFFICES ASSUME MediaInit PROVE MediaInv OBVIOUS
<1>. USE MediaFacts
<1>1. MediaTypes
  <2>1. media \in MediaRecord BY DEF MediaInit, MediaRecord
  <2>2. task \in Job BY DEF MediaInit, Job
  <2>3. execs \in [Attempts -> Exec] BY NoExecFacts DEF MediaInit
  <2>4. Absent \in Artifact /\ Absent \in File BY DEF Absent, Artifact, File
  <2>5. sweeps \in [Sweepers -> Sweep] BY NoSweepFacts DEF MediaInit
  <2>6. operator \in [pc : OperatorPcs, read : SUBSET MediaRecord, left : Nat]
    BY MediaAssumption DEF MediaInit, OperatorPcs
  <2>. QED BY <2>1, <2>2, <2>3, <2>4, <2>5, <2>6 DEF MediaTypes, MediaInit
<1>2. RecordOK BY NoExecFacts DEF RecordOK, MediaInit, MediaTerminal
<1>3. ASSUME NEW c \in Attempts PROVE AttemptOK(c)
  <2>1. /\ media.exec # c /\ media.result # c /\ journal[c].state = "none" /\ execs[c].pc = "idle"
        /\ objects = {} /\ late = {}
    BY NoExecFacts DEF MediaInit, Absent
  <2>. QED BY <2>1 DEF AttemptOK, Uploaded
<1>4. ASSUME NEW p \in Sweepers PROVE SweepOK(p) /\ CleanOK(p)
  BY NoSweepFacts DEF SweepOK, CleanOK, MediaInit
<1>. QED BY <1>1, <1>2, <1>3, <1>4 DEF MediaInv, SweptOK, MediaInit

-----------------------------------------------------------------------------
(* What execute() does as attempt a: it changes its own things only, and   *)
(* while it is at it no recovery is clean.                                 *)
LEMMA ExecChanges ==
  ASSUME MediaInv, NEW a \in Attempts, execs[a].pc \notin {"idle", "sweeping", "ended", "dead"},
         MediaTypes', UNCHANGED <<sweeps, operator, swept>>, task'.attempt = task.attempt,
         execs'[a].pc \notin {"idle", "claim"},
         \A b \in Attempts \ {a} : /\ execs'[b] = execs[b] /\ journal'[b] = journal[b] /\ uploads'[b] = uploads[b]
                                   /\ b \in objects' <=> b \in objects
                                   /\ b \in late' <=> b \in late
                                   /\ media'.exec = b => media.exec = b
                                   /\ media'.result = b => media.result = b,
         media'.result # 0 <=> media'.state = "ready",
         media'.state \in MediaTerminal => media'.exec = 0,
         Lost(a) => media'.exec # a /\ media'.result # a,
         AttemptOK(a)'
  PROVE  MediaInv'
<1>. USE MediaFacts
<1>1. RecordOK'
  <2>1. execs[a].pc # "idle" OBVIOUS
  <2>. QED BY <2>1 DEF MediaInv, RecordOK
<1>2. ASSUME NEW b \in Attempts PROVE AttemptOK(b)'
  <2>1. CASE b = a BY <2>1
  <2>2. CASE b # a BY <2>2 DEF MediaInv, AttemptOK, Begun
  <2>. QED BY <2>1, <2>2
<1>3. Alive(a) BY DEF Alive
<1>4. \A p \in Sweepers : ~sweeps[p].clean
  <2>1. ASSUME NEW p \in Sweepers, sweeps[p].clean PROVE FALSE
    <3>1. SweepOK(p) /\ CleanOK(p) BY DEF MediaInv
    <3>2. p = a BY <1>3, <2>1, <3>1 DEF CleanOK
    <3>. QED BY <2>1, <3>1, <3>2 DEF SweepOK
  <2>. QED BY <2>1
<1>5. ASSUME NEW p \in Sweepers PROVE SweepOK(p)' /\ CleanOK(p)'
  <2>1. SweepOK(p) BY DEF MediaInv
  <2>2. \A c \in Attempts : Begun(c) => Begun(c)' BY DEF Begun
  <2>3. \A c \in Attempts : Lost(c) => Lost(c)' BY <2>2 DEF Lost
  <2>4. DOMAIN sweeps[p].seen \subseteq Attempts BY <2>1 DEF SweepOK
  <2>5. SweepOK(p)' BY <2>1, <2>2, <2>3, <2>4 DEF SweepOK
  <2>. QED BY <1>4, <2>5 DEF CleanOK
<1>6. ~swept BY <1>3 DEF MediaInv, SweptOK
<1>. QED BY <1>1, <1>2, <1>5, <1>6 DEF MediaInv, SweptOK

(* A write that p's recovery makes: to its candidate c, which is lost.     *)
LEMMA SweepChanges ==
  ASSUME MediaInv, NEW p \in Sweepers, NEW c \in Attempts, MediaTypes',
         UNCHANGED <<media, task, execs, late, operator, swept>>,
         \A b \in Attempts \ {c} : /\ journal'[b] = journal[b] /\ uploads'[b] = uploads[b]
                                   /\ b \in objects' <=> b \in objects,
         objects' \subseteq objects,
         (UNCHANGED <<journal, uploads, objects>>) \/ Lost(c),
         journal'[c] = journal[c] \/ journal'[c].state \in {"discarding", "deleted"},
         uploads'[c] = uploads[c] \/ uploads'[c].state # "none",
         uploads'[c] = uploads[c] \/ uploads'[c].state # "deleted" \/ (sweeps[p].pc = "deleted" /\ sweeps[p].of = c),
         \A q \in Sweepers \ {p} : sweeps'[q] = sweeps[q],
         SweepOK(p)',
         sweeps'[p].pc = "deleted" => sweeps'[p].of \notin objects',
         CleanOK(p)'
  PROVE  MediaInv'
<1>. USE MediaFacts
<1>1. RecordOK' BY DEF MediaInv, RecordOK
<1>2. ASSUME NEW b \in Attempts PROVE AttemptOK(b)'
  <2>0. AttemptOK(b) BY DEF MediaInv
  <2>1. CASE journal'[b] = journal[b] /\ uploads'[b] = uploads[b] /\ (b \in objects' <=> b \in objects)
    BY <2>0, <2>1 DEF AttemptOK, Begun
  <2>2. CASE b = c /\ Lost(c)
    <3>1. Begun(b) /\ media.exec # b /\ media.result # b BY <2>2 DEF Lost
    <3>2. /\ journal[b].state # "none" => journal'[b].state # "none"
          /\ uploads[b].state # "none" => uploads'[b].state # "none"
          /\ b \in objects' => b \in objects
      BY <2>2
    <3>. QED BY <2>0, <3>1, <3>2 DEF AttemptOK, Begun
  <2>. QED BY <2>1, <2>2
<1>3. ASSUME NEW q \in Sweepers \ {p} PROVE SweepOK(q)' /\ CleanOK(q)'
  <2>1. SweepOK(q) /\ CleanOK(q) BY DEF MediaInv
  <2>2. SweepOK(q)' BY <2>1 DEF SweepOK, Lost, Begun
  <2>3. CleanOK(q)'
    <3>1. SUFFICES ASSUME sweeps[q].clean PROVE CleanOK(q)' BY DEF CleanOK
    <3>2. /\ late' = {} /\ media'.exec = 0 /\ \A a \in Attempts \ {q} : ~Alive(a)'
          /\ objects' \subseteq {media'.result} \cup DOMAIN sweeps'[q].seen
          /\ sweeps'[q].pc = "tombstone" => sweeps'[q].of \notin objects'
      BY <2>1, <3>1 DEF CleanOK, Alive
    <3>3. ASSUME NEW r \in Sweepers, sweeps'[r].pc = "deleted" PROVE sweeps'[r].of \notin objects'
      <4>1. CASE r = p BY <3>3, <4>1
      <4>2. CASE r # p BY <2>1, <3>1, <3>3, <4>2 DEF CleanOK
      <4>. QED BY <4>1, <4>2
    <3>4. ASSUME sweeps'[q].pc = "delete", uploads'[sweeps'[q].of].state = "deleted"
          PROVE  sweeps'[q].of \notin objects'
      <4>1. sweeps'[q] = sweeps[q] OBVIOUS
      <4>2. sweeps[q].of \in Attempts BY <2>1, <3>4, <4>1 DEF SweepOK
      <4>3. CASE uploads'[sweeps[q].of] = uploads[sweeps[q].of]
        BY <2>1, <3>1, <3>4, <4>1, <4>3 DEF CleanOK
      <4>4. CASE uploads'[sweeps[q].of] # uploads[sweeps[q].of]
        <5>1. sweeps[q].of = c BY <4>2, <4>4
        <5>2. sweeps[p].pc = "deleted" /\ sweeps[p].of = c BY <3>4, <4>1, <4>4, <5>1
        <5>. QED BY <2>1, <3>1, <4>1, <5>1, <5>2 DEF CleanOK
      <4>. QED BY <4>3, <4>4
    <3>. QED BY <3>2, <3>3, <3>4 DEF CleanOK
  <2>. QED BY <2>2, <2>3
<1>4. SweptOK' BY DEF MediaInv, SweptOK, Alive
<1>. QED BY <1>1, <1>2, <1>3, <1>4 DEF MediaInv

(* What neither writes artifacts, files or objects nor moves an attempt.   *)
LEMMA NothingStored ==
  ASSUME MediaInv, MediaTypes', UNCHANGED <<execs, store, swept>>, task'.attempt = task.attempt,
         media'.exec \in {media.exec, 0}, media'.result = media.result,
         media'.result # 0 <=> media'.state = "ready",
         media'.state \in MediaTerminal => media'.exec = 0,
         \A m \in operator'.read : m.state = "failed",
         \A p \in Sweepers : sweeps'[p] = sweeps[p] \/ sweeps'[p] = NoSweep
  PROVE  MediaInv'
<1>. USE MediaFacts DEF store
<1>1. RecordOK' BY DEF MediaInv, RecordOK
<1>2. ASSUME NEW b \in Attempts PROVE AttemptOK(b)' BY DEF MediaInv, AttemptOK, Begun
<1>3. ASSUME NEW p \in Sweepers PROVE SweepOK(p)' /\ CleanOK(p)'
  <2>1. SweepOK(p) /\ CleanOK(p) BY DEF MediaInv
  <2>2. CASE sweeps'[p] = sweeps[p]
    <3>1. SweepOK(p)'
      <4>1. \A c \in Attempts : Lost(c) => Lost(c)' BY DEF Lost, Begun
      <4>. QED BY <2>1, <2>2, <4>1 DEF SweepOK, Begun
    <3>2. \A r \in Sweepers : sweeps'[r].pc = "deleted" => sweeps'[r] = sweeps[r] BY NoSweepFacts
    <3>. QED BY <2>1, <2>2, <3>1, <3>2 DEF CleanOK, Alive
  <2>3. CASE sweeps'[p] = NoSweep BY <2>3, NoSweepFacts DEF SweepOK, CleanOK
  <2>. QED BY <2>2, <2>3
<1>4. SweptOK' BY DEF MediaInv, SweptOK, Alive
<1>. QED BY <1>1, <1>2, <1>3, <1>4 DEF MediaInv

-----------------------------------------------------------------------------
(* The ways of execute().                                                  *)
Moved(a, pcs) == /\ execs' \in [Attempts -> Exec] /\ \A b \in Attempts \ {a} : execs'[b] = execs[b]
                 /\ execs'[a].pc \in pcs

LEMMA ExecGoesOn ==
  ASSUME MediaTypes, NEW a \in Attempts, NEW pc \in ExecPcs, ExecGoes(a, pc)
  PROVE  Moved(a, {pc})
BY DEF MediaTypes, ExecGoes, Moved, Exec

LEMMA ExecThrows ==
  ASSUME MediaTypes, NEW a \in Attempts, NEW error \in Errors \cup {"none"}, NEW pc \in ExecPcs,
         Throws(a, error) \/ ThrowsTo(a, pc, error)
  PROVE  Moved(a, {pc, "catch"})
<1>1. CASE Throws(a, error)
  <2>1. [NoExec EXCEPT !.pc = "catch", !.error = error] \in Exec
        /\ [NoExec EXCEPT !.pc = "catch", !.error = error].pc = "catch"
    BY DEF NoExec, Exec, ExecPcs
  <2>. QED BY <1>1, <2>1 DEF MediaTypes, Throws, Moved
<1>2. CASE ThrowsTo(a, pc, error)
  <2>. DEFINE x == [execs[a] EXCEPT !.pc = pc, !.error = error]
  <2>1. execs \in [Attempts -> Exec] /\ execs[a] \in Exec BY DEF MediaTypes
  <2>2. x \in Exec /\ x.pc = pc BY <2>1 DEF Exec
  <2>3. execs' = [execs EXCEPT ![a] = x] BY <1>2, <2>1 DEF ThrowsTo
  <2>. HIDE DEF x
  <2>. QED BY <2>1, <2>2, <2>3 DEF Moved
<1>. QED BY <1>1, <1>2

LEMMA FileFailing ==
  ASSUME MediaTypes, NEW a \in Attempts, NEW owned \in BOOLEAN, NEW error \in Errors, FileFails(a, owned, error)
  PROVE  Moved(a, {"failfile"})
<1>. DEFINE x == [execs[a] EXCEPT !.pc = "failfile", !.owned = owned, !.error = error]
<1>1. execs \in [Attempts -> Exec] /\ execs[a] \in Exec BY DEF MediaTypes
<1>2. x \in Exec /\ x.pc = "failfile" BY <1>1 DEF Exec, ExecPcs
<1>3. execs' = [execs EXCEPT ![a] = x] BY <1>1 DEF FileFails
<1>. HIDE DEF x
<1>. QED BY <1>1, <1>2, <1>3 DEF Moved

LEMMA ToTheFinally ==
  ASSUME MediaTypes, NEW a \in Attempts, NEW throws \in BOOLEAN, ToFinally(a, throws)
  PROVE  Moved(a, {"recover"})
<1>1. [NoExec EXCEPT !.pc = "recover", !.throws = throws] \in Exec
      /\ [NoExec EXCEPT !.pc = "recover", !.throws = throws].pc = "recover"
  BY DEF NoExec, Exec, ExecPcs
<1>. QED BY <1>1 DEF MediaTypes, ToFinally, Moved

LEMMA ExecEnding ==
  ASSUME MediaTypes, NEW a \in Attempts, NEW threw \in BOOLEAN, ExecEnds(a, threw)
  PROVE  Moved(a, {"ended"}) /\ task' \in Job /\ task'.attempt = task.attempt
<1>1. [NoExec EXCEPT !.pc = "ended"] \in Exec /\ [NoExec EXCEPT !.pc = "ended"].pc = "ended"
  BY DEF NoExec, Exec, ExecPcs
<1>2. Moved(a, {"ended"}) BY <1>1 DEF MediaTypes, ExecEnds, Moved
<1>3. task' = task \/ \E state \in {"cancelled", "succeeded", "pending", "failed"} : task' = [task EXCEPT !.state = state]
  BY DEF ExecEnds, TaskSettled
<1>. QED BY <1>2, <1>3 DEF MediaTypes, Job

LEMMA FaultCounted ==
  ASSUME MediaTypes, MediaFault \/ UNCHANGED mediaFaults PROVE mediaFaults' \in Nat
BY DEF MediaTypes, MediaFault

LEMMA FileMoves ==
  ASSUME MediaTypes, NEW a \in Attempts, NEW rev,
         NEW state \in {"uploading", "ready", "failed", "deleting", "deleted"}
  PROVE  /\ Moves(a, rev, state) \in [Attempts -> File]
         /\ \A b \in Attempts \ {a} : Moves(a, rev, state)[b] = uploads[b]
         /\ Moves(a, rev, state) = uploads \/ Moves(a, rev, state)[a].state = state
         /\ uploads[a].rev = rev => Moves(a, rev, state)[a].state = state
<1>1. CASE uploads[a].rev = rev
  <2>1. uploads[a] \in File /\ rev + 1 \in Nat BY <1>1 DEF MediaTypes, File
  <2>2. [state |-> state, rev |-> rev + 1] \in File /\ [state |-> state, rev |-> rev + 1].state = state
    BY <2>1 DEF File
  <2>. QED BY <1>1, <2>2 DEF MediaTypes, Moves
<1>2. CASE uploads[a].rev # rev BY <1>2 DEF MediaTypes, Moves
<1>. QED BY <1>1, <1>2

(* A step of execute() that leaves the record alone.                       *)
LEMMA ExecKeeps ==
  ASSUME MediaInv, NEW a \in Attempts, execs[a].pc \notin {"idle", "claim", "sweeping", "ended", "dead"},
         Moved(a, ExecPcs \ {"idle", "claim"}), MediaFault \/ UNCHANGED mediaFaults,
         UNCHANGED <<record, sweeps, operator, swept>>,
         journal' \in [Attempts -> Artifact], uploads' \in [Attempts -> File],
         objects' \subseteq Attempts, late' \subseteq Attempts,
         \A b \in Attempts \ {a} : /\ journal'[b] = journal[b] /\ uploads'[b] = uploads[b]
                                   /\ b \in objects' <=> b \in objects
                                   /\ b \in late' <=> b \in late,
         AttemptOK(a)'
  PROVE  MediaInv'
<1>1. UNCHANGED <<media, task>> BY DEF record
<1>2. MediaTypes /\ mediaFaults' \in Nat BY FaultCounted DEF MediaInv
<1>3. MediaTypes' BY <1>1, <1>2 DEF MediaTypes, Moved
<1>4. (media.result # 0 <=> media.state = "ready") /\ (media.state \in MediaTerminal => media.exec = 0)
  BY DEF MediaInv, RecordOK
<1>. QED BY <1>1, <1>3, <1>4, ExecChanges DEF Moved, Lost

LEMMA ExecKeepsStore ==
  ASSUME MediaInv, NEW a \in Attempts, execs[a].pc \notin {"idle", "claim", "sweeping", "ended", "dead"},
         Moved(a, ExecPcs \ {"idle", "claim"}), MediaFault \/ UNCHANGED mediaFaults,
         UNCHANGED <<record, store, sweeps, operator, swept>>,
         AttemptOK(a)'
  PROVE  MediaInv'
<1>1. UNCHANGED <<journal, uploads, objects, late>> BY DEF store
<1>2. MediaTypes BY DEF MediaInv
<1>3. /\ journal' \in [Attempts -> Artifact] /\ uploads' \in [Attempts -> File]
      /\ objects' \subseteq Attempts /\ late' \subseteq Attempts
  BY <1>1, <1>2 DEF MediaTypes
<1>. QED BY <1>1, <1>3, ExecKeeps

-----------------------------------------------------------------------------
LEMMA WorkStep == ASSUME MediaInv, NEW a \in Attempts, Work(a) PROVE MediaInv'
<1>1. MediaTypes /\ AttemptOK(a) /\ execs[a].pc = "work" BY DEF MediaInv, Work, ExecAt
<1>2. Moved(a, {"stage", "catch"})
  <2>1. "stage" \in ExecPcs /\ "catch" \in ExecPcs /\ "final" \in Errors BY DEF ExecPcs, Errors
  <2>2. CASE ExecGoes(a, "stage") BY <1>1, <2>1, <2>2, ExecGoesOn DEF Moved
  <2>3. ASSUME NEW e \in Errors, Throws(a, e) PROVE Moved(a, {"stage", "catch"})
    BY <1>1, <2>1, <2>3, ExecThrows DEF Moved
  <2>. QED BY <2>1, <2>2, <2>3 DEF Work
<1>3. UNCHANGED <<media, journal, uploads, objects, late>> BY DEF Work, record, store
<1>4. AttemptOK(a)' BY <1>1, <1>2, <1>3 DEF AttemptOK, Moved, Begun, Uploaded
<1>5. Moved(a, ExecPcs \ {"idle", "claim"}) BY <1>2 DEF Moved, ExecPcs
<1>. QED BY <1>1, <1>4, <1>5, ExecKeepsStore DEF Work

LEMMA StageStep == ASSUME MediaInv, NEW a \in Attempts, Stage(a) PROVE MediaInv'
<1>1. MediaTypes /\ AttemptOK(a) /\ execs[a].pc = "stage" BY DEF MediaInv, Stage, ExecAt
<1>2. PICK staged : staged = [journal EXCEPT ![a].state = "staged"] OBVIOUS
<1>3. /\ staged \in [Attempts -> Artifact] /\ staged[a].state = "staged"
      /\ \A b \in Attempts \ {a} : staged[b] = journal[b]
  BY <1>1, <1>2 DEF MediaTypes, Artifact
<1>4. \/ journal' = staged /\ Moved(a, {"insert"}) /\ UNCHANGED mediaFaults
      \/ journal' \in {journal, staged} /\ Moved(a, {"catch"}) /\ MediaFault
  <2>1. "insert" \in ExecPcs /\ "catch" \in ExecPcs /\ "retryable" \in Errors BY DEF ExecPcs, Errors
  <2>. QED BY <1>1, <1>2, <2>1, ExecGoesOn, ExecThrows DEF Stage, Moved
<1>5. UNCHANGED <<media, uploads, objects, late>> BY DEF Stage, record
<1>6. AttemptOK(a)' BY <1>1, <1>3, <1>4, <1>5 DEF AttemptOK, Moved, Begun, Uploaded
<1>7. Moved(a, ExecPcs \ {"idle", "claim"}) BY <1>4 DEF Moved, ExecPcs
<1>8. /\ journal' \in [Attempts -> Artifact] /\ uploads' \in [Attempts -> File]
      /\ objects' \subseteq Attempts /\ late' \subseteq Attempts
      /\ \A b \in Attempts \ {a} : journal'[b] = journal[b]
  BY <1>1, <1>3, <1>4, <1>5 DEF MediaTypes
<1>9. MediaFault \/ UNCHANGED mediaFaults BY <1>4
<1>. QED BY <1>1, <1>5, <1>6, <1>7, <1>8, <1>9, ExecKeeps DEF Stage

LEMMA InsertStep == ASSUME MediaInv, NEW a \in Attempts, InsertFile(a) PROVE MediaInv'
<1>1. MediaTypes /\ AttemptOK(a) /\ execs[a].pc = "insert" BY DEF MediaInv, InsertFile, ExecAt
<1>2. PICK inserted : inserted = [uploads EXCEPT ![a].state = "pending"] OBVIOUS
<1>3. /\ inserted \in [Attempts -> File] /\ inserted[a].state = "pending"
      /\ \A b \in Attempts \ {a} : inserted[b] = uploads[b]
  BY <1>1, <1>2 DEF MediaTypes, File
<1>4. \/ uploads' = inserted /\ Moved(a, {"uploading"}) /\ UNCHANGED mediaFaults
      \/ uploads' \in {uploads, inserted} /\ Moved(a, {"catch"}) /\ MediaFault
  <2>1. "uploading" \in ExecPcs /\ "catch" \in ExecPcs /\ "retryable" \in Errors BY DEF ExecPcs, Errors
  <2>. QED BY <1>1, <1>2, <2>1, ExecGoesOn, ExecThrows DEF InsertFile, Moved
<1>5. UNCHANGED <<media, journal, objects, late>> BY DEF InsertFile, record
<1>6. AttemptOK(a)' BY <1>1, <1>3, <1>4, <1>5 DEF AttemptOK, Moved, Begun, Uploaded
<1>7. Moved(a, ExecPcs \ {"idle", "claim"}) BY <1>4 DEF Moved, ExecPcs
<1>8. /\ journal' \in [Attempts -> Artifact] /\ uploads' \in [Attempts -> File]
      /\ objects' \subseteq Attempts /\ late' \subseteq Attempts
      /\ \A b \in Attempts \ {a} : uploads'[b] = uploads[b]
  BY <1>1, <1>3, <1>4, <1>5 DEF MediaTypes
<1>9. MediaFault \/ UNCHANGED mediaFaults BY <1>4
<1>. QED BY <1>1, <1>5, <1>6, <1>7, <1>8, <1>9, ExecKeeps DEF InsertFile

LEMMA ClaimFileStep == ASSUME MediaInv, NEW a \in Attempts, ClaimFile(a) PROVE MediaInv'
<1>1. MediaTypes /\ AttemptOK(a) /\ execs[a].pc = "uploading" BY DEF MediaInv, ClaimFile, ExecAt
<1>2. PICK moved : moved = Moves(a, 0, "uploading") OBVIOUS
<1>3. /\ moved \in [Attempts -> File] /\ (moved = uploads \/ moved[a].state = "uploading")
      /\ \A b \in Attempts \ {a} : moved[b] = uploads[b]
      /\ uploads[a].rev = 0 => moved[a].state = "uploading"
  BY <1>1, <1>2, FileMoves
<1>4. /\ uploads' \in {uploads, moved}
      /\ Moved(a, {"put", "catch"})
      /\ execs'[a].pc = "put" => uploads'[a].state = "uploading"
  <2>1. "put" \in ExecPcs /\ "catch" \in ExecPcs /\ {"final", "retryable"} \subseteq Errors BY DEF ExecPcs, Errors
  <2>2. CASE uploads' = moved /\ uploads[a].rev = 0 /\ execs' = [execs EXCEPT ![a].pc = "put", ![a].rev = 1]
    <3>1. Moved(a, {"put"})
      <4>. DEFINE x == [execs[a] EXCEPT !.pc = "put", !.rev = 1]
      <4>1. execs \in [Attempts -> Exec] /\ execs[a] \in Exec BY <1>1 DEF MediaTypes
      <4>2. x \in Exec /\ x.pc = "put" BY <4>1 DEF Exec, ExecPcs
      <4>3. execs' = [execs EXCEPT ![a] = x] BY <2>2, <4>1
      <4>. HIDE DEF x
      <4>. QED BY <4>1, <4>2, <4>3 DEF Moved
    <3>. QED BY <1>3, <2>2, <3>1 DEF Moved
  <2>3. ASSUME uploads' \in {uploads, moved}, NEW e \in Errors, Throws(a, e) PROVE <1>4
    <3>1. Moved(a, {"catch"}) BY <1>1, <2>1, <2>3, ExecThrows DEF Moved
    <3>. QED BY <2>3, <3>1 DEF Moved
  <2>. QED BY <1>2, <2>1, <2>2, <2>3 DEF ClaimFile
<1>5. UNCHANGED <<media, journal, objects, late>> BY DEF ClaimFile, record
<1>6. AttemptOK(a)' BY <1>1, <1>3, <1>4, <1>5 DEF AttemptOK, Moved, Begun, Uploaded
<1>7. Moved(a, ExecPcs \ {"idle", "claim"}) BY <1>4 DEF Moved, ExecPcs
<1>8. /\ journal' \in [Attempts -> Artifact] /\ uploads' \in [Attempts -> File]
      /\ objects' \subseteq Attempts /\ late' \subseteq Attempts
      /\ \A b \in Attempts \ {a} : uploads'[b] = uploads[b]
  BY <1>1, <1>3, <1>4, <1>5 DEF MediaTypes
<1>9. MediaFault \/ UNCHANGED mediaFaults BY DEF ClaimFile
<1>. QED BY <1>1, <1>5, <1>6, <1>7, <1>8, <1>9, ExecKeeps DEF ClaimFile

LEMMA PutStep == ASSUME MediaInv, NEW a \in Attempts, PutFile(a) PROVE MediaInv'
<1>1. MediaTypes /\ AttemptOK(a) /\ execs[a].pc = "put" BY DEF MediaInv, PutFile, ExecAt
<1>2. /\ Moved(a, {"gate", "failfile"})
      /\ execs'[a].pc = "gate" => a \in objects'
      /\ objects' \in {objects, objects \cup {a}} /\ late' \in {late, late \cup {a}}
  <2>1. "gate" \in ExecPcs /\ TRUE \in BOOLEAN /\ "retryable" \in Errors BY DEF ExecPcs, Errors
  <2>2. CASE ExecGoes(a, "gate") /\ objects' = objects \cup {a} /\ UNCHANGED late
    BY <1>1, <2>1, <2>2, ExecGoesOn DEF Moved
  <2>3. CASE FileFails(a, TRUE, "retryable") /\ objects' \in {objects, objects \cup {a}} /\ late' \in {late, late \cup {a}}
    BY <1>1, <2>1, <2>3, FileFailing DEF Moved
  <2>. QED BY <2>2, <2>3 DEF PutFile
<1>3. UNCHANGED <<media, journal, uploads>> BY DEF PutFile, record
<1>4. AttemptOK(a)' BY <1>1, <1>2, <1>3 DEF AttemptOK, Moved, Begun, Uploaded
<1>5. Moved(a, ExecPcs \ {"idle", "claim"}) BY <1>2 DEF Moved, ExecPcs
<1>6. /\ journal' \in [Attempts -> Artifact] /\ uploads' \in [Attempts -> File]
      /\ objects' \subseteq Attempts /\ late' \subseteq Attempts
  BY <1>1, <1>2, <1>3 DEF MediaTypes
<1>7. MediaFault \/ UNCHANGED mediaFaults BY DEF PutFile
<1>. QED BY <1>1, <1>2, <1>3, <1>4, <1>5, <1>6, <1>7, ExecKeeps DEF PutFile

LEMMA GateStep == ASSUME MediaInv, NEW a \in Attempts, Gate(a) PROVE MediaInv'
<1>1. MediaTypes /\ AttemptOK(a) /\ execs[a].pc = "gate" BY DEF MediaInv, Gate, ExecAt
<1>2. Moved(a, {"readyfile", "failfile"})
  <2>1. "readyfile" \in ExecPcs /\ "final" \in Errors BY DEF ExecPcs, Errors
  <2>. QED BY <1>1, <2>1, ExecGoesOn, FileFailing DEF Gate, Moved
<1>3. UNCHANGED <<media, journal, uploads, objects, late>> BY DEF Gate, record, store
<1>4. AttemptOK(a)' BY <1>1, <1>2, <1>3 DEF AttemptOK, Moved, Begun, Uploaded
<1>5. Moved(a, ExecPcs \ {"idle", "claim"}) BY <1>2 DEF Moved, ExecPcs
<1>. QED BY <1>1, <1>4, <1>5, ExecKeepsStore DEF Gate

LEMMA ReadyStep == ASSUME MediaInv, NEW a \in Attempts, ReadyFile(a) PROVE MediaInv'
<1>1. MediaTypes /\ AttemptOK(a) /\ execs[a].pc = "readyfile" BY DEF MediaInv, ReadyFile, ExecAt
<1>. DEFINE rev == execs[a].rev
<1>2. PICK moved : moved = Moves(a, rev, "ready") OBVIOUS
<1>3. /\ moved \in [Attempts -> File] /\ (moved = uploads \/ moved[a].state = "ready")
      /\ \A b \in Attempts \ {a} : moved[b] = uploads[b]
      /\ uploads[a].rev = rev => moved[a].state = "ready"
  BY <1>1, <1>2, FileMoves
<1>4. /\ uploads' \in {uploads, moved}
      /\ Moved(a, {"publish", "failfile"})
      /\ execs'[a].pc = "publish" => uploads'[a].state = "ready"
  <2>1. "publish" \in ExecPcs /\ {"final", "retryable"} \subseteq Errors BY DEF ExecPcs, Errors
  <2>2. CASE uploads' = moved /\ uploads[a].rev = rev /\ ExecGoes(a, "publish")
    <3>1. Moved(a, {"publish"}) BY <1>1, <2>1, <2>2, ExecGoesOn
    <3>. QED BY <1>3, <2>2, <3>1 DEF Moved
  <2>3. ASSUME uploads' \in {uploads, moved}, NEW e \in Errors, NEW owned \in BOOLEAN, FileFails(a, owned, e) PROVE <1>4
    <3>1. Moved(a, {"failfile"}) BY <1>1, <2>3, FileFailing
    <3>. QED BY <2>3, <3>1 DEF Moved
  <2>. QED BY <1>2, <2>1, <2>2, <2>3 DEF ReadyFile
<1>5. UNCHANGED <<media, journal, objects, late>> BY DEF ReadyFile, record
<1>6. AttemptOK(a)' BY <1>1, <1>3, <1>4, <1>5 DEF AttemptOK, Moved, Begun, Uploaded
<1>7. Moved(a, ExecPcs \ {"idle", "claim"}) BY <1>4 DEF Moved, ExecPcs
<1>8. /\ journal' \in [Attempts -> Artifact] /\ uploads' \in [Attempts -> File]
      /\ objects' \subseteq Attempts /\ late' \subseteq Attempts
      /\ \A b \in Attempts \ {a} : uploads'[b] = uploads[b]
  BY <1>1, <1>3, <1>4, <1>5 DEF MediaTypes
<1>9. MediaFault \/ UNCHANGED mediaFaults BY DEF ReadyFile
<1>. QED BY <1>1, <1>5, <1>6, <1>7, <1>8, <1>9, ExecKeeps DEF ReadyFile

LEMMA FailStep == ASSUME MediaInv, NEW a \in Attempts, FailFile(a) PROVE MediaInv'
<1>1. MediaTypes /\ AttemptOK(a) /\ execs[a].pc = "failfile" /\ execs[a] \in Exec BY DEF MediaInv, MediaTypes, FailFile, ExecAt
<1>. DEFINE rev == execs[a].rev
<1>2. PICK moved : moved = Moves(a, rev, "failed") OBVIOUS
<1>3. /\ moved \in [Attempts -> File] /\ (moved = uploads \/ moved[a].state = "failed")
      /\ \A b \in Attempts \ {a} : moved[b] = uploads[b]
  BY <1>1, <1>2, FileMoves
<1>4. uploads' \in {uploads, moved} /\ Moved(a, {"unlink", "catch"})
  <2>1. "unlink" \in ExecPcs /\ "catch" \in ExecPcs /\ "retryable" \in Errors /\ execs[a].error \in Errors \cup {"none"}
    BY <1>1 DEF ExecPcs, Errors, Exec
  <2>2. uploads' \in {uploads, moved} BY <1>2 DEF FailFile
  <2>3. \E e \in Errors \cup {"none"} : Throws(a, e) \/ ThrowsTo(a, "unlink", e)
    BY <2>1 DEF FailFile
  <2>. QED BY <1>1, <2>1, <2>2, <2>3, ExecThrows
<1>5. UNCHANGED <<media, journal, objects, late>> BY DEF FailFile, record
<1>6. AttemptOK(a)' BY <1>1, <1>3, <1>4, <1>5 DEF AttemptOK, Moved, Begun, Uploaded
<1>7. Moved(a, ExecPcs \ {"idle", "claim"}) BY <1>4 DEF Moved, ExecPcs
<1>8. /\ journal' \in [Attempts -> Artifact] /\ uploads' \in [Attempts -> File]
      /\ objects' \subseteq Attempts /\ late' \subseteq Attempts
      /\ \A b \in Attempts \ {a} : uploads'[b] = uploads[b]
  BY <1>1, <1>3, <1>4, <1>5 DEF MediaTypes
<1>9. MediaFault \/ UNCHANGED mediaFaults BY DEF FailFile
<1>. QED BY <1>1, <1>5, <1>6, <1>7, <1>8, <1>9, ExecKeeps DEF FailFile

LEMMA UnlinkStep == ASSUME MediaInv, NEW a \in Attempts, UnlinkFile(a) PROVE MediaInv'
<1>1. MediaTypes /\ AttemptOK(a) /\ execs[a].pc = "unlink" /\ execs[a] \in Exec BY DEF MediaInv, MediaTypes, UnlinkFile, ExecAt
<1>2. objects' \in {objects, objects \ {a}} /\ Moved(a, {"catch"})
  <2>1. "catch" \in ExecPcs /\ "retryable" \in Errors /\ execs[a].error \in Errors \cup {"none"}
    BY <1>1 DEF ExecPcs, Errors, Exec
  <2>2. \E e \in Errors \cup {"none"} : Throws(a, e) BY <2>1 DEF UnlinkFile
  <2>3. Moved(a, {"catch", "catch"}) BY <1>1, <2>1, <2>2, ExecThrows
  <2>. QED BY <2>3 DEF UnlinkFile, Moved
<1>3. UNCHANGED <<media, journal, uploads, late>> BY DEF UnlinkFile, record
<1>4. AttemptOK(a)' BY <1>1, <1>2, <1>3 DEF AttemptOK, Moved, Begun, Uploaded
<1>5. Moved(a, ExecPcs \ {"idle", "claim"}) BY <1>2 DEF Moved, ExecPcs
<1>6. /\ journal' \in [Attempts -> Artifact] /\ uploads' \in [Attempts -> File]
      /\ objects' \subseteq Attempts /\ late' \subseteq Attempts
  BY <1>1, <1>2, <1>3 DEF MediaTypes
<1>7. MediaFault \/ UNCHANGED mediaFaults BY DEF UnlinkFile
<1>. QED BY <1>1, <1>2, <1>3, <1>4, <1>5, <1>6, <1>7, ExecKeeps DEF UnlinkFile

LEMMA CatchStep == ASSUME MediaInv, NEW a \in Attempts, Catch(a) PROVE MediaInv'
<1>1. MediaTypes /\ AttemptOK(a) /\ RecordOK /\ execs[a].pc = "catch" BY DEF MediaInv, Catch, ExecAt
<1>2. Moved(a, {"recover", "settle"}) /\ (execs'[a].pc = "settle" => media.state # "ready")
  <2>1. CASE ToFinally(a, FALSE) \/ ToFinally(a, TRUE) BY <1>1, <2>1, ToTheFinally DEF Moved
  <2>2. CASE execs' = [execs EXCEPT ![a].pc = "settle", ![a].cancelled = media.cancel] /\ media.state # "ready"
    <3>1. media.cancel \in BOOLEAN BY <1>1 DEF MediaTypes, MediaRecord
    <3>. DEFINE x == [execs[a] EXCEPT !.pc = "settle", !.cancelled = media.cancel]
    <3>2. execs \in [Attempts -> Exec] /\ execs[a] \in Exec BY <1>1 DEF MediaTypes
    <3>3. x \in Exec /\ x.pc = "settle" BY <3>1, <3>2 DEF Exec, ExecPcs
    <3>4. execs' = [execs EXCEPT ![a] = x] BY <2>2, <3>2
    <3>. HIDE DEF x
    <3>. QED BY <2>2, <3>2, <3>3, <3>4 DEF Moved
  <2>. QED BY <2>1, <2>2 DEF Catch
<1>3. UNCHANGED <<media, journal, uploads, objects, late>> BY DEF Catch, record, store
<1>4. AttemptOK(a)' BY <1>1, <1>2, <1>3, MediaFacts DEF AttemptOK, RecordOK, Moved, Begun, Uploaded
<1>5. Moved(a, ExecPcs \ {"idle", "claim"}) BY <1>2 DEF Moved, ExecPcs
<1>. QED BY <1>1, <1>4, <1>5, ExecKeepsStore DEF Catch

(* A step of execute() that leaves the journal and the files alone.        *)
LEMMA ExecWrites ==
  ASSUME MediaInv, NEW a \in Attempts, execs[a].pc \notin {"idle", "sweeping", "ended", "dead"},
         Moved(a, ExecPcs \ {"idle", "claim"}), MediaFault \/ UNCHANGED mediaFaults,
         UNCHANGED <<store, sweeps, operator, swept>>,
         media' \in MediaRecord, task' \in Job, task'.attempt = task.attempt,
         media'.exec \in {media.exec, 0, a}, media'.result \in {media.result, a},
         media'.result # 0 <=> media'.state = "ready",
         media'.state \in MediaTerminal => media'.exec = 0,
         Lost(a) => media'.exec # a /\ media'.result # a,
         AttemptOK(a)'
  PROVE  MediaInv'
<1>1. UNCHANGED <<journal, uploads, objects, late>> BY DEF store
<1>2. MediaTypes /\ mediaFaults' \in Nat BY FaultCounted DEF MediaInv
<1>3. MediaTypes' BY <1>1, <1>2 DEF MediaTypes, Moved
<1>4. \A b \in Attempts \ {a} : /\ media'.exec = b => media.exec = b
                                /\ media'.result = b => media.result = b
  BY MediaFacts
<1>. QED BY <1>1, <1>3, <1>4, ExecChanges DEF Moved

LEMMA ClaimMediaStep == ASSUME MediaInv, NEW a \in Attempts, ClaimMedia(a) PROVE MediaInv'
<1>1. /\ MediaTypes /\ AttemptOK(a) /\ RecordOK /\ execs[a].pc = "claim"
      /\ media \in MediaRecord /\ task \in Job
  BY DEF MediaInv, MediaTypes, ClaimMedia, ExecAt
<1>2. PICK claimed : claimed = [media EXCEPT !.state = "running", !.fence = a, !.exec = a, !.error = "none"] OBVIOUS
<1>3. ClaimableMedia(a) => /\ claimed \in MediaRecord /\ claimed.state = "running" /\ claimed.exec = a
                           /\ claimed.result = media.result /\ media.state # "ready"
  BY <1>1, <1>2, MediaFacts DEF MediaRecord, ClaimableMedia
<1>4. /\ media' = media \/ (ClaimableMedia(a) /\ media' = claimed)
      /\ Moved(a, {"work", "ended"})
      /\ task' \in Job /\ task'.attempt = task.attempt
  <2>1. "work" \in ExecPcs BY DEF ExecPcs
  <2>2. CASE ClaimableMedia(a) /\ media' = claimed /\ ExecGoes(a, "work") /\ UNCHANGED task
    BY <1>1, <2>1, <2>2, ExecGoesOn DEF Moved
  <2>3. ASSUME NEW threw \in BOOLEAN, ExecEnds(a, threw) PROVE Moved(a, {"work", "ended"}) /\ task' \in Job /\ task'.attempt = task.attempt
    BY <1>1, <2>3, ExecEnding DEF Moved
  <2>. QED BY <1>2, <2>2, <2>3 DEF ClaimMedia
<1>5. ~Begun(a) /\ media.result # a BY <1>1 DEF Begun, AttemptOK
<1>6. UNCHANGED <<journal, uploads, objects, late>> BY DEF ClaimMedia, store
<1>7. AttemptOK(a)' BY <1>1, <1>3, <1>4, <1>5, <1>6 DEF AttemptOK, Moved, Begun, Uploaded
<1>8. Moved(a, ExecPcs \ {"idle", "claim"}) BY <1>4 DEF Moved, ExecPcs
<1>9. /\ media' \in MediaRecord /\ media'.exec \in {media.exec, 0, a} /\ media'.result \in {media.result, a}
      /\ (media'.result # 0 <=> media'.state = "ready") /\ (media'.state \in MediaTerminal => media'.exec = 0)
  BY <1>1, <1>3, <1>4 DEF RecordOK, MediaTerminal
<1>10. MediaFault \/ UNCHANGED mediaFaults BY DEF ClaimMedia
<1>. QED BY <1>1, <1>4, <1>5, <1>7, <1>8, <1>9, <1>10, ExecWrites DEF ClaimMedia, Lost

LEMMA PublishStep == ASSUME MediaInv, NEW a \in Attempts, PublishMedia(a) PROVE MediaInv'
<1>1. /\ MediaTypes /\ AttemptOK(a) /\ RecordOK /\ execs[a].pc = "publish"
      /\ media \in MediaRecord /\ task \in Job /\ journal[a] \in Artifact
  BY DEF MediaInv, MediaTypes, PublishMedia, ExecAt
<1>2. ActiveNow(a) => /\ Published(a) \in MediaRecord /\ Published(a).state = "ready" /\ Published(a).exec = 0
                      /\ Published(a).result = a /\ media.exec = a
  BY <1>1, MediaFacts DEF MediaRecord, Published, ActiveNow, MediaTerminal
<1>3. /\ media' = media \/ (ActiveNow(a) /\ media' = Published(a))
      /\ Moved(a, {"recover", "catch"})
  <2>1. "catch" \in ExecPcs /\ {"final", "retryable"} \subseteq Errors BY DEF ExecPcs, Errors
  <2>2. ASSUME NEW e \in Errors, Throws(a, e) PROVE Moved(a, {"recover", "catch"})
    BY <1>1, <2>1, <2>2, ExecThrows DEF Moved
  <2>3. ASSUME ToFinally(a, FALSE) PROVE Moved(a, {"recover", "catch"})
    <3>1. Moved(a, {"recover"}) BY <1>1, <2>3, ToTheFinally
    <3>. QED BY <3>1 DEF Moved
  <2>4. Moved(a, {"recover", "catch"}) BY <2>1, <2>2, <2>3 DEF PublishMedia
  <2>. QED BY <2>4 DEF PublishMedia
<1>4. UNCHANGED <<journal, uploads, objects, late, task>> BY DEF PublishMedia, store
<1>5. media.result # a BY <1>1 DEF AttemptOK
<1>6. media.exec = a => journal[a].state = "staged" /\ uploads[a].state = "ready" /\ a \in objects
  BY <1>1 DEF AttemptOK, Uploaded, Artifact
<1>7. AttemptOK(a)'
  <2>1. a # 0 BY MediaFacts
  <2>. QED BY <1>1, <1>2, <1>3, <1>4, <1>5, <1>6, <2>1 DEF AttemptOK, Moved, Begun, Uploaded
<1>8. Moved(a, ExecPcs \ {"idle", "claim"}) BY <1>3 DEF Moved, ExecPcs
<1>9. /\ media' \in MediaRecord /\ media'.exec \in {media.exec, 0, a} /\ media'.result \in {media.result, a}
      /\ (media'.result # 0 <=> media'.state = "ready") /\ (media'.state \in MediaTerminal => media'.exec = 0)
      /\ task' \in Job /\ task'.attempt = task.attempt
  BY <1>1, <1>2, <1>3, <1>4, MediaFacts DEF RecordOK, MediaTerminal
<1>10. MediaFault \/ UNCHANGED mediaFaults BY DEF PublishMedia
<1>11. Lost(a) => media'.exec # a /\ media'.result # a BY <1>2, <1>3 DEF Lost
<1>. QED BY <1>1, <1>7, <1>8, <1>9, <1>10, <1>11, ExecWrites DEF PublishMedia

LEMMA SettleStep == ASSUME MediaInv, NEW a \in Attempts, SettleMedia(a) PROVE MediaInv'
<1>1. /\ MediaTypes /\ AttemptOK(a) /\ RecordOK /\ execs[a].pc = "settle" /\ execs[a] \in Exec
      /\ media \in MediaRecord /\ task \in Job
  BY DEF MediaInv, MediaTypes, SettleMedia, ExecAt
<1>2. PICK state : state = CASE execs[a].cancelled -> "cancelled" [] CanRetry(a) -> "pending" [] OTHER -> "failed"
  OBVIOUS
<1>3. state \in {"cancelled", "pending", "failed"} BY <1>2
<1>4. PICK error : error = IF CanRetry(a) THEN "retryable" ELSE "final" OBVIOUS
<1>5. error \in Errors BY <1>4 DEF Errors
<1>6. PICK settled : settled = [media EXCEPT !.state = state, !.exec = 0, !.error = error] OBVIOUS
<1>7. /\ settled \in MediaRecord /\ settled.state = state /\ settled.exec = 0 /\ settled.result = media.result
  BY <1>1, <1>3, <1>5, <1>6, MediaFacts DEF MediaRecord, MediaTerminal
<1>8. /\ media' = media \/ (media' = settled /\ media.state # "ready")
      /\ Moved(a, {"recover"})
  <2>1. CanRetry(a) \in BOOLEAN BY DEF CanRetry
  <2>2. Moved(a, {"recover"}) BY <1>1, <2>1, ToTheFinally DEF SettleMedia
  <2>3. media' = media \/ (media' = settled /\ media.state # "ready")
    BY <1>2, <1>4, <1>6 DEF SettleMedia
  <2>. QED BY <2>2, <2>3
<1>9. UNCHANGED <<journal, uploads, objects, late, task>> BY DEF SettleMedia, store
<1>10. media.result # a BY <1>1 DEF AttemptOK
<1>11. AttemptOK(a)' BY <1>1, <1>7, <1>8, <1>9, <1>10, MediaFacts DEF AttemptOK, Moved, Begun, Uploaded
<1>12. Moved(a, ExecPcs \ {"idle", "claim"}) BY <1>8 DEF Moved, ExecPcs
<1>13. /\ media' \in MediaRecord /\ media'.exec \in {media.exec, 0, a} /\ media'.result \in {media.result, a}
       /\ (media'.result # 0 <=> media'.state = "ready") /\ (media'.state \in MediaTerminal => media'.exec = 0)
       /\ task' \in Job /\ task'.attempt = task.attempt
  BY <1>1, <1>3, <1>7, <1>8, <1>9 DEF RecordOK
<1>14. MediaFault \/ UNCHANGED mediaFaults BY DEF SettleMedia
<1>15. Lost(a) => media'.exec # a /\ media'.result # a BY <1>7, <1>8, MediaFacts DEF Lost
<1>. QED BY <1>1, <1>11, <1>12, <1>13, <1>14, <1>15, ExecWrites DEF SettleMedia

-----------------------------------------------------------------------------
(* The ways of a recovery: x is what becomes of p's, about its candidate c. *)
LEMMA SweepGoesOn ==
  ASSUME MediaInv, NEW p \in Sweepers, NEW c \in Attempts, NEW x \in Sweep,
         sweeps[p].pc # "idle", x.pc # "idle", sweeps' = [sweeps EXCEPT ![p] = x],
         UNCHANGED <<media, task, execs, late, operator, swept>>, MediaFault \/ UNCHANGED mediaFaults,
         journal' \in [Attempts -> Artifact], uploads' \in [Attempts -> File], objects' \subseteq objects,
         \A b \in Attempts \ {c} : /\ journal'[b] = journal[b] /\ uploads'[b] = uploads[b]
                                   /\ b \in objects' <=> b \in objects,
         (UNCHANGED <<journal, uploads, objects>>) \/ Lost(c),
         journal'[c] = journal[c] \/ journal'[c].state \in {"discarding", "deleted"},
         uploads'[c] = uploads[c] \/ uploads'[c].state # "none",
         uploads'[c] = uploads[c] \/ uploads'[c].state # "deleted" \/ (sweeps[p].pc = "deleted" /\ sweeps[p].of = c),
         DOMAIN x.seen \subseteq DOMAIN sweeps[p].seen,
         x.pc # "pick" => x.of \in DOMAIN x.seen /\ Lost(x.of),
         x.pc = "deleted" => x.of \notin objects',
         x.clean => /\ sweeps[p].clean
                    /\ objects' \subseteq {media.result} \cup DOMAIN x.seen
                    /\ x.pc = "tombstone" => x.of \notin objects'
                    /\ x.pc = "delete" /\ uploads'[x.of].state = "deleted" => x.of \notin objects'
  PROVE  MediaInv'
<1>1. MediaTypes /\ SweepOK(p) /\ CleanOK(p) /\ mediaFaults' \in Nat BY FaultCounted DEF MediaInv
<1>2. /\ sweeps' \in [Sweepers -> Sweep] /\ sweeps'[p] = x
      /\ \A q \in Sweepers \ {p} : sweeps'[q] = sweeps[q]
  BY <1>1 DEF MediaTypes
<1>3. MediaTypes' BY <1>1, <1>2 DEF MediaTypes
<1>4. SweepOK(p)' BY <1>1, <1>2 DEF SweepOK, Lost, Begun
<1>5. CleanOK(p)'
  <2>1. SUFFICES ASSUME x.clean PROVE CleanOK(p)' BY <1>2 DEF CleanOK
  <2>2. \A q \in Sweepers : sweeps'[q].pc = "deleted" => sweeps'[q].of \notin objects'
    BY <1>1, <1>2, <2>1 DEF CleanOK
  <2>. QED BY <1>1, <1>2, <2>1, <2>2 DEF CleanOK, Alive
<1>. QED BY <1>2, <1>3, <1>4, <1>5, SweepChanges

(* The next candidate: c is done with.                                     *)
LEMMA NextCandidate ==
  ASSUME MediaTypes, NEW p \in Sweepers, NEW clean \in BOOLEAN, NextOne(p, clean)
  PROVE  \E x \in Sweep : /\ sweeps' = [sweeps EXCEPT ![p] = x]
                          /\ x.pc = "pick" /\ x.clean = (sweeps[p].clean /\ clean)
                          /\ DOMAIN x.seen = DOMAIN sweeps[p].seen \ {sweeps[p].of}
<1>1. sweeps[p] \in Sweep /\ sweeps \in [Sweepers -> Sweep] BY DEF MediaTypes
<1>2. PICK S : S = DOMAIN sweeps[p].seen \ {sweeps[p].of} OBVIOUS
<1>3. PICK seen : seen = [b \in S |-> sweeps[p].seen[b]] OBVIOUS
<1>4. DOMAIN sweeps[p].seen \subseteq Attempts /\ sweeps[p].seen \in [DOMAIN sweeps[p].seen -> Artifact]
  BY <1>1, SeenType DEF Sweep
<1>5. S \in SUBSET Attempts /\ seen \in [S -> Artifact] BY <1>2, <1>3, <1>4
<1>6. seen \in Seen /\ DOMAIN seen = S BY <1>3, <1>5, TypeSeen
<1>7. PICK d \in BOOLEAN : d = (sweeps[p].clean /\ clean) BY <1>1 DEF Sweep
<1>. DEFINE x == [NoSweep EXCEPT !.pc = "pick", !.clean = d, !.seen = seen]
<1>8. x \in Sweep /\ x.pc = "pick" /\ x.clean = d /\ x.seen = seen
  BY <1>6, NoSweepFacts DEF NoSweep, Sweep, SweepPcs
<1>9. sweeps' = [sweeps EXCEPT ![p] = x] BY <1>2, <1>3, <1>7 DEF NextOne
<1>. HIDE DEF x
<1>. QED BY <1>2, <1>6, <1>7, <1>8, <1>9

LEMMA SweepGoing ==
  ASSUME MediaTypes, NEW p \in Sweepers, NEW pc \in SweepPcs, SweepGoes(p, pc)
  PROVE  \E x \in Sweep : /\ sweeps' = [sweeps EXCEPT ![p] = x]
                          /\ x.pc = pc /\ x.clean = sweeps[p].clean /\ x.seen = sweeps[p].seen /\ x.of = sweeps[p].of
<1>. DEFINE x == [sweeps[p] EXCEPT !.pc = pc]
<1>1. sweeps[p] \in Sweep BY DEF MediaTypes
<1>2. /\ x \in Sweep /\ x.pc = pc /\ x.clean = sweeps[p].clean /\ x.seen = sweeps[p].seen
      /\ x.of = sweeps[p].of
  BY <1>1 DEF Sweep
<1>3. sweeps' = [sweeps EXCEPT ![p] = x] BY DEF SweepGoes
<1>. QED BY <1>2, <1>3

LEMMA ArtifactMarked ==
  ASSUME MediaTypes, NEW c \in Attempts, NEW rev, NEW state \in {"discarding", "deleted"}
  PROVE  /\ Marked(c, rev, state) \in [Attempts -> Artifact]
         /\ \A b \in Attempts \ {c} : Marked(c, rev, state)[b] = journal[b]
         /\ Marked(c, rev, state) = journal \/ Marked(c, rev, state)[c].state = state
<1>1. CASE journal[c].rev = rev
  <2>1. journal[c] \in Artifact /\ rev + 1 \in Nat BY <1>1 DEF MediaTypes, Artifact
  <2>2. [state |-> state, rev |-> rev + 1] \in Artifact /\ [state |-> state, rev |-> rev + 1].state = state
    BY <2>1 DEF Artifact
  <2>. QED BY <1>1, <2>2 DEF MediaTypes, Marked
<1>2. CASE journal[c].rev # rev BY <1>2 DEF MediaTypes, Marked
<1>. QED BY <1>1, <1>2

(* What p is about to write is about its candidate.                        *)
LEMMA ArtifactToWrite ==
  ASSUME MediaTypes, NEW p \in Sweepers, sweeps[p].of \in Attempts
  PROVE  LET c == sweeps[p].of
         IN /\ ArtifactWritten(p) \in [Attempts -> Artifact]
            /\ \A b \in Attempts \ {c} : ArtifactWritten(p)[b] = journal[b]
            /\ ArtifactWritten(p) = journal \/ ArtifactWritten(p)[c].state \in {"discarding", "deleted"}
            /\ ArtifactWritten(p) = journal \/ sweeps[p].pc \in {"mark", "tombstone"}
<1>1. PICK c \in Attempts : c = sweeps[p].of OBVIOUS
<1>2. CASE SweepAt(p, "mark") /\ sweeps[p].seen[c].state # "discarding"
  <2>1. ArtifactWritten(p) = Marked(c, sweeps[p].seen[c].rev, "discarding") BY <1>1, <1>2 DEF ArtifactWritten, SweepAt
  <2>. QED BY <1>1, <1>2, <2>1, ArtifactMarked DEF SweepAt
<1>3. CASE SweepAt(p, "tombstone")
  <2>1. ArtifactWritten(p) = Marked(c, sweeps[p].seen[c].rev, "deleted")
    BY <1>1, <1>3 DEF ArtifactWritten, SweepAt
  <2>. QED BY <1>1, <1>3, <2>1, ArtifactMarked DEF SweepAt
<1>4. CASE ~(SweepAt(p, "mark") /\ sweeps[p].seen[c].state # "discarding") /\ ~SweepAt(p, "tombstone")
  <2>1. ArtifactWritten(p) = journal BY <1>1, <1>4 DEF ArtifactWritten
  <2>. QED BY <2>1 DEF MediaTypes
<1>. QED BY <1>2, <1>3, <1>4

LEMMA FileToWrite ==
  ASSUME MediaTypes, NEW p \in Sweepers, sweeps[p].of \in Attempts
  PROVE  LET c == sweeps[p].of
         IN /\ FileWritten(p) \in [Attempts -> File]
            /\ \A b \in Attempts \ {c} : FileWritten(p)[b] = uploads[b]
            /\ \/ FileWritten(p) = uploads
               \/ FileWritten(p)[c].state \in {"failed", "deleting"}
               \/ FileWritten(p)[c].state = "deleted" /\ sweeps[p].pc = "deleted"
            /\ sweeps[p].pc = "revoke" /\ uploads[c].rev = sweeps[p].fileRev => FileWritten(p)[c].state \in {"failed", "deleting"}
<1>1. PICK c \in Attempts : c = sweeps[p].of OBVIOUS
<1>2. CASE SweepAt(p, "revoke")
  <2>1. PICK state : state = IF uploads[c].state = "uploading" THEN "failed" ELSE "deleting" OBVIOUS
  <2>2. state \in {"failed", "deleting"} BY <2>1
  <2>3. FileWritten(p) = Moves(c, sweeps[p].fileRev, state) BY <1>1, <1>2, <2>1 DEF FileWritten, SweepAt
  <2>. QED BY <1>1, <2>2, <2>3, FileMoves
<1>3. CASE SweepAt(p, "delete") /\ uploads[c].state \notin {"deleted", "uploading"}
  <2>1. FileWritten(p) = Moves(c, uploads[c].rev, "deleting") BY <1>1, <1>3 DEF FileWritten, SweepAt
  <2>. QED BY <1>1, <1>3, <2>1, FileMoves DEF SweepAt
<1>4. CASE SweepAt(p, "deleted")
  <2>1. FileWritten(p) = Moves(c, sweeps[p].fileRev, "deleted") BY <1>1, <1>4 DEF FileWritten, SweepAt
  <2>. QED BY <1>1, <1>4, <2>1, FileMoves DEF SweepAt
<1>5. CASE /\ ~SweepAt(p, "revoke") /\ ~SweepAt(p, "deleted")
           /\ ~(SweepAt(p, "delete") /\ uploads[c].state \notin {"deleted", "uploading"})
  <2>1. FileWritten(p) = uploads BY <1>1, <1>5 DEF FileWritten
  <2>. QED BY <1>5, <2>1 DEF MediaTypes, SweepAt
<1>. QED BY <1>2, <1>3, <1>4, <1>5

(* A candidate is left behind: whatever has been written about it.         *)
LEMMA SweepLeaves ==
  ASSUME MediaInv, NEW p \in Sweepers, sweeps[p].pc \notin {"idle", "pick"}, NEW clean \in BOOLEAN, NextOne(p, clean),
         UNCHANGED <<media, task, execs, late, operator, swept>>, MediaFault \/ UNCHANGED mediaFaults,
         journal' \in {journal, ArtifactWritten(p)}, uploads' \in {uploads, FileWritten(p)},
         objects' \in {objects, objects \ {sweeps[p].of}},
         clean => objects' = objects /\ sweeps[p].pc = "tombstone"
  PROVE  MediaInv'
<1>1. MediaTypes /\ SweepOK(p) /\ CleanOK(p) BY DEF MediaInv
<1>2. PICK c \in Attempts : c = sweeps[p].of BY <1>1 DEF SweepOK
<1>3. Lost(c) /\ c \in DOMAIN sweeps[p].seen BY <1>1, <1>2 DEF SweepOK
<1>4. PICK x \in Sweep : /\ sweeps' = [sweeps EXCEPT ![p] = x]
                         /\ x.pc = "pick" /\ x.clean = (sweeps[p].clean /\ clean)
                         /\ DOMAIN x.seen = DOMAIN sweeps[p].seen \ {c}
  BY <1>1, <1>2, NextCandidate
<1>5. /\ journal' \in [Attempts -> Artifact] /\ (journal' = journal \/ journal'[c].state \in {"discarding", "deleted"})
      /\ \A b \in Attempts \ {c} : journal'[b] = journal[b]
  BY <1>1, <1>2, ArtifactToWrite DEF MediaTypes
<1>6. /\ uploads' \in [Attempts -> File]
      /\ \A b \in Attempts \ {c} : uploads'[b] = uploads[b]
      /\ \/ uploads' = uploads \/ uploads'[c].state \in {"failed", "deleting"}
         \/ uploads'[c].state = "deleted" /\ sweeps[p].pc = "deleted"
  BY <1>1, <1>2, FileToWrite DEF MediaTypes
<1>7. objects' \subseteq objects /\ \A b \in Attempts \ {c} : b \in objects' <=> b \in objects BY <1>2
<1>8. x.clean => /\ sweeps[p].clean
                 /\ objects' \subseteq {media.result} \cup DOMAIN x.seen
                 /\ x.pc = "tombstone" => x.of \notin objects'
                 /\ x.pc = "delete" /\ uploads'[x.of].state = "deleted" => x.of \notin objects'
  <2>1. SUFFICES ASSUME x.clean PROVE sweeps[p].clean /\ objects' \subseteq {media.result} \cup DOMAIN x.seen
    BY <1>4
  <2>2. sweeps[p].clean /\ clean BY <1>4, <2>1
  <2>3. c \notin objects' BY <1>1, <1>2, <2>2 DEF CleanOK
  <2>4. objects \subseteq {media.result} \cup DOMAIN sweeps[p].seen BY <1>1, <2>2 DEF CleanOK
  <2>. QED BY <1>4, <2>2, <2>3, <2>4
<1>. QED BY <1>2, <1>3, <1>4, <1>5, <1>6, <1>7, <1>8, SweepGoesOn, ZenonT(60)

LEMMA MarkStep == ASSUME MediaInv, NEW p \in Sweepers, Mark(p) PROVE MediaInv'
<1>1. MediaTypes /\ SweepOK(p) /\ CleanOK(p) /\ sweeps[p].pc = "mark" /\ sweeps[p] \in Sweep
  BY DEF MediaInv, MediaTypes, Mark, SweepAt
<1>2. PICK c \in Attempts : c = sweeps[p].of BY <1>1 DEF SweepOK
<1>3. Lost(c) /\ c \in DOMAIN sweeps[p].seen /\ AttemptOK(c) BY <1>1, <1>2 DEF SweepOK, MediaInv
<1>4. UNCHANGED <<media, task, execs, uploads, objects, late, operator, swept, mediaFaults>>
  BY DEF Mark, record
<1>5. journal' = ArtifactWritten(p) BY DEF Mark
<1>6. CASE NextOne(p, FALSE) BY <1>1, <1>2, <1>4, <1>5, <1>6, SweepLeaves
<1>7. CASE ~NextOne(p, FALSE)
  <2>1. /\ journal' \in [Attempts -> Artifact] /\ (journal' = journal \/ journal'[c].state \in {"discarding", "deleted"})
        /\ \A b \in Attempts \ {c} : journal'[b] = journal[b]
    BY <1>1, <1>2, <1>5, ArtifactToWrite DEF MediaTypes
  <2>2. PICK pc : pc = IF uploads[c].state = "none" THEN "tombstone" ELSE IF Revokes(c) THEN "revoke" ELSE "delete"
    OBVIOUS
  <2>3. PICK rev : rev = journal'[c].rev OBVIOUS
  <2>4. rev \in Nat /\ uploads[c] \in File BY <1>1, <2>1, <2>3 DEF MediaTypes, Artifact
  <2>5. sweeps[p].seen \in [DOMAIN sweeps[p].seen -> Artifact] /\ DOMAIN sweeps[p].seen \in SUBSET Attempts
    BY <1>1, SeenType DEF Sweep
  <2>6. PICK seen : seen = [sweeps[p].seen EXCEPT ![c].rev = rev] OBVIOUS
  <2>7. seen \in [DOMAIN sweeps[p].seen -> Artifact] BY <1>3, <2>4, <2>5, <2>6 DEF Artifact
  <2>8. seen \in Seen /\ DOMAIN seen = DOMAIN sweeps[p].seen BY <2>5, <2>7, TypeSeen
  <2>. DEFINE x == [sweeps[p] EXCEPT !.fileRev = uploads[c].rev, !.seen = seen, !.pc = pc]
  <2>9. /\ x \in Sweep /\ x.pc = pc /\ x.seen = seen /\ x.of = c /\ x.clean = sweeps[p].clean
    BY <1>1, <1>2, <2>2, <2>4, <2>8 DEF Sweep, SweepPcs, File
  <2>10. sweeps' = [sweeps EXCEPT ![p] = x]
    <3>1. sweeps' = [sweeps EXCEPT ![p] = [@ EXCEPT !.fileRev = uploads[c].rev, !.seen[c].rev = rev, !.pc = pc]]
      BY <1>2, <1>7, <2>2, <2>3 DEF Mark
    <3>. QED BY <1>1, <2>6, <3>1 DEF Sweep
  <2>. HIDE DEF x
  <2>11. /\ pc = "tombstone" => c \notin objects
         /\ pc = "delete" => uploads[c].state # "deleted"
         /\ pc \in {"tombstone", "revoke", "delete"}
    BY <1>3, <2>2 DEF AttemptOK, Revokes
  <2>12. x.clean => /\ sweeps[p].clean
                    /\ objects' \subseteq {media.result} \cup DOMAIN x.seen
                    /\ x.pc = "tombstone" => x.of \notin objects'
                    /\ x.pc = "delete" /\ uploads'[x.of].state = "deleted" => x.of \notin objects'
    BY <1>1, <1>4, <2>8, <2>9, <2>11 DEF CleanOK
  <2>13. uploads' \in [Attempts -> File] /\ objects' \subseteq objects BY <1>1, <1>4 DEF MediaTypes
  <2>. QED BY <1>1, <1>2, <1>3, <1>4, <2>1, <2>8, <2>9, <2>10, <2>11, <2>12, <2>13, SweepGoesOn
<1>. QED BY <1>6, <1>7

LEMMA RevokeStep == ASSUME MediaInv, NEW p \in Sweepers, RevokeFile(p) PROVE MediaInv'
<1>1. MediaTypes /\ SweepOK(p) /\ CleanOK(p) /\ sweeps[p].pc = "revoke"
  BY DEF MediaInv, RevokeFile, SweepAt
<1>2. PICK c \in Attempts : c = sweeps[p].of BY <1>1 DEF SweepOK
<1>3. Lost(c) /\ c \in DOMAIN sweeps[p].seen BY <1>1, <1>2 DEF SweepOK
<1>4. UNCHANGED <<media, task, execs, journal, objects, late, operator, swept, mediaFaults>>
  BY DEF RevokeFile, record
<1>5. uploads' = FileWritten(p) BY DEF RevokeFile
<1>6. CASE NextOne(p, FALSE) BY <1>1, <1>2, <1>4, <1>5, <1>6, SweepLeaves
<1>7. CASE uploads[c].rev = sweeps[p].fileRev /\ SweepGoes(p, "delete")
  <2>1. "delete" \in SweepPcs BY DEF SweepPcs
  <2>2. PICK x \in Sweep : /\ sweeps' = [sweeps EXCEPT ![p] = x] /\ x.pc = "delete" /\ x.clean = sweeps[p].clean
                           /\ x.seen = sweeps[p].seen /\ x.of = sweeps[p].of
    BY <1>1, <1>7, <2>1, SweepGoing
  <2>3. /\ uploads' \in [Attempts -> File]
        /\ \A b \in Attempts \ {c} : uploads'[b] = uploads[b]
        /\ uploads'[c].state \in {"failed", "deleting"}
    BY <1>1, <1>2, <1>5, <1>7, FileToWrite
  <2>4. x.clean => /\ sweeps[p].clean
                   /\ objects' \subseteq {media.result} \cup DOMAIN x.seen
                   /\ x.pc = "tombstone" => x.of \notin objects'
                   /\ x.pc = "delete" /\ uploads'[x.of].state = "deleted" => x.of \notin objects'
    BY <1>1, <1>2, <1>4, <2>2, <2>3 DEF CleanOK
  <2>5. journal' \in [Attempts -> Artifact] /\ objects' \subseteq objects BY <1>1, <1>4 DEF MediaTypes
  <2>. QED BY <1>1, <1>2, <1>3, <1>4, <2>2, <2>3, <2>4, <2>5, SweepGoesOn
<1>. QED BY <1>2, <1>6, <1>7 DEF RevokeFile

LEMMA DeleteStep == ASSUME MediaInv, NEW p \in Sweepers, DeleteFile(p) PROVE MediaInv'
<1>1. MediaTypes /\ SweepOK(p) /\ CleanOK(p) /\ sweeps[p].pc = "delete" /\ sweeps[p] \in Sweep
  BY DEF MediaInv, MediaTypes, DeleteFile, SweepAt
<1>2. PICK c \in Attempts : c = sweeps[p].of BY <1>1 DEF SweepOK
<1>3. Lost(c) /\ c \in DOMAIN sweeps[p].seen BY <1>1, <1>2 DEF SweepOK
<1>4. UNCHANGED <<media, task, execs, journal, objects, late, operator, swept, mediaFaults>>
  BY DEF DeleteFile, record
<1>5. journal' \in [Attempts -> Artifact] /\ objects' \subseteq objects BY <1>1, <1>4 DEF MediaTypes
<1>6. CASE NextOne(p, FALSE) /\ UNCHANGED uploads BY <1>1, <1>2, <1>4, <1>6, SweepLeaves
<1>7. CASE uploads[c].state = "deleted" /\ SweepGoes(p, "tombstone") /\ UNCHANGED uploads
  <2>1. "tombstone" \in SweepPcs BY DEF SweepPcs
  <2>2. PICK x \in Sweep : /\ sweeps' = [sweeps EXCEPT ![p] = x] /\ x.pc = "tombstone" /\ x.clean = sweeps[p].clean
                           /\ x.seen = sweeps[p].seen /\ x.of = sweeps[p].of
    BY <1>1, <1>7, <2>1, SweepGoing
  <2>3. uploads' \in [Attempts -> File] BY <1>1, <1>7 DEF MediaTypes
  <2>4. x.clean => /\ sweeps[p].clean
                   /\ objects' \subseteq {media.result} \cup DOMAIN x.seen
                   /\ x.pc = "tombstone" => x.of \notin objects'
                   /\ x.pc = "delete" /\ uploads'[x.of].state = "deleted" => x.of \notin objects'
    BY <1>1, <1>2, <1>4, <1>7, <2>2 DEF CleanOK
  <2>. QED BY <1>1, <1>2, <1>3, <1>4, <1>5, <1>7, <2>2, <2>3, <2>4, SweepGoesOn
<1>8. CASE /\ uploads[c].state \notin {"deleted", "uploading"} /\ uploads' = FileWritten(p)
           /\ sweeps' = [sweeps EXCEPT ![p].pc = "unlink", ![p].fileRev = uploads[c].rev + 1]
  <2>. DEFINE x == [sweeps[p] EXCEPT !.pc = "unlink", !.fileRev = uploads[c].rev + 1]
  <2>1. uploads[c] \in File /\ uploads[c].rev + 1 \in Nat BY <1>1 DEF MediaTypes, File
  <2>2. /\ x \in Sweep /\ x.pc = "unlink" /\ x.clean = sweeps[p].clean
        /\ x.seen = sweeps[p].seen /\ x.of = c
    BY <1>1, <1>2, <2>1 DEF Sweep, SweepPcs
  <2>3. sweeps' = [sweeps EXCEPT ![p] = x] BY <1>1, <1>8 DEF MediaTypes
  <2>. HIDE DEF x
  <2>4. /\ uploads' \in [Attempts -> File]
        /\ \A b \in Attempts \ {c} : uploads'[b] = uploads[b]
        /\ uploads' = uploads \/ uploads'[c].state \in {"failed", "deleting"}
    BY <1>1, <1>2, <1>8, FileToWrite
  <2>5. x.clean => /\ sweeps[p].clean
                   /\ objects' \subseteq {media.result} \cup DOMAIN x.seen
                   /\ x.pc = "tombstone" => x.of \notin objects'
                   /\ x.pc = "delete" /\ uploads'[x.of].state = "deleted" => x.of \notin objects'
    BY <1>1, <1>4, <2>2 DEF CleanOK
  <2>. QED BY <1>1, <1>2, <1>3, <1>4, <1>5, <2>2, <2>3, <2>4, <2>5, SweepGoesOn
<1>. QED BY <1>2, <1>6, <1>7, <1>8 DEF DeleteFile

LEMMA ObjectStep == ASSUME MediaInv, NEW p \in Sweepers, DeleteObject(p) PROVE MediaInv'
<1>1. MediaTypes /\ SweepOK(p) /\ CleanOK(p) /\ sweeps[p].pc = "unlink"
  BY DEF MediaInv, DeleteObject, SweepAt
<1>2. PICK c \in Attempts : c = sweeps[p].of BY <1>1 DEF SweepOK
<1>3. Lost(c) /\ c \in DOMAIN sweeps[p].seen BY <1>1, <1>2 DEF SweepOK
<1>4. /\ UNCHANGED <<media, task, execs, journal, uploads, late, operator, swept, mediaFaults>>
      /\ objects' = objects \ {c}
  BY <1>2 DEF DeleteObject, record
<1>5. "deleted" \in SweepPcs BY DEF SweepPcs
<1>6. PICK x \in Sweep : /\ sweeps' = [sweeps EXCEPT ![p] = x] /\ x.pc = "deleted" /\ x.clean = sweeps[p].clean
                         /\ x.seen = sweeps[p].seen /\ x.of = sweeps[p].of
  BY <1>1, <1>5, SweepGoing DEF DeleteObject
<1>7. /\ uploads' \in [Attempts -> File] /\ journal' \in [Attempts -> Artifact] /\ objects' \subseteq objects
      /\ \A b \in Attempts \ {c} : b \in objects' <=> b \in objects
  BY <1>1, <1>4 DEF MediaTypes
<1>8. x.clean => /\ sweeps[p].clean
                 /\ objects' \subseteq {media.result} \cup DOMAIN x.seen
                 /\ x.pc = "tombstone" => x.of \notin objects'
                 /\ x.pc = "delete" /\ uploads'[x.of].state = "deleted" => x.of \notin objects'
  BY <1>1, <1>4, <1>6 DEF CleanOK
<1>. QED BY <1>1, <1>2, <1>3, <1>4, <1>6, <1>7, <1>8, SweepGoesOn

LEMMA DeletedStep == ASSUME MediaInv, NEW p \in Sweepers, DeletedFile(p) PROVE MediaInv'
<1>1. MediaTypes /\ SweepOK(p) /\ CleanOK(p) /\ sweeps[p].pc = "deleted"
  BY DEF MediaInv, DeletedFile, SweepAt
<1>2. PICK c \in Attempts : c = sweeps[p].of BY <1>1 DEF SweepOK
<1>3. Lost(c) /\ c \in DOMAIN sweeps[p].seen BY <1>1, <1>2 DEF SweepOK
<1>4. UNCHANGED <<media, task, execs, journal, objects, late, operator, swept, mediaFaults>>
  BY DEF DeletedFile, record
<1>5. uploads' = FileWritten(p) BY DEF DeletedFile
<1>6. CASE NextOne(p, FALSE) BY <1>1, <1>2, <1>4, <1>5, <1>6, SweepLeaves
<1>7. CASE SweepGoes(p, "tombstone")
  <2>1. "tombstone" \in SweepPcs BY DEF SweepPcs
  <2>2. PICK x \in Sweep : /\ sweeps' = [sweeps EXCEPT ![p] = x] /\ x.pc = "tombstone" /\ x.clean = sweeps[p].clean
                           /\ x.seen = sweeps[p].seen /\ x.of = sweeps[p].of
    BY <1>1, <1>7, <2>1, SweepGoing
  <2>3. /\ uploads' \in [Attempts -> File]
        /\ \A b \in Attempts \ {c} : uploads'[b] = uploads[b]
        /\ uploads' = uploads \/ uploads'[c].state \in {"failed", "deleting", "deleted"}
    BY <1>1, <1>2, <1>5, FileToWrite
  <2>4. x.clean => /\ sweeps[p].clean
                   /\ objects' \subseteq {media.result} \cup DOMAIN x.seen
                   /\ x.pc = "tombstone" => x.of \notin objects'
                   /\ x.pc = "delete" /\ uploads'[x.of].state = "deleted" => x.of \notin objects'
    BY <1>1, <1>2, <1>4, <2>2 DEF CleanOK
  <2>5. journal' \in [Attempts -> Artifact] /\ objects' \subseteq objects BY <1>1, <1>4 DEF MediaTypes
  <2>. QED BY <1>1, <1>2, <1>3, <1>4, <2>2, <2>3, <2>4, <2>5, SweepGoesOn
<1>. QED BY <1>6, <1>7 DEF DeletedFile

LEMMA TombstoneStep == ASSUME MediaInv, NEW p \in Sweepers, Tombstone(p) PROVE MediaInv'
<1>1. UNCHANGED <<media, task, execs, uploads, objects, late, operator, swept, mediaFaults>>
  BY DEF Tombstone, record
<1>2. PICK clean \in BOOLEAN : clean = (journal'[sweeps[p].of].state = "deleted") OBVIOUS
<1>3. NextOne(p, clean) /\ journal' = ArtifactWritten(p) /\ sweeps[p].pc = "tombstone"
  BY <1>2 DEF Tombstone, SweepAt
<1>. QED BY <1>1, <1>3, SweepLeaves

LEMMA SweepFailsStep == ASSUME MediaInv, NEW p \in Sweepers, SweepFails(p) PROVE MediaInv'
<1>1. /\ UNCHANGED <<media, task, execs, late, operator, swept>> /\ MediaFault
      /\ sweeps[p].pc \notin {"idle", "pick"} /\ NextOne(p, FALSE)
      /\ journal' \in {journal, ArtifactWritten(p)} /\ uploads' \in {uploads, FileWritten(p)}
      /\ objects' \in {objects, objects \ {sweeps[p].of}}
  BY DEF SweepFails, record
<1>. QED BY <1>1, SweepLeaves

LEMMA PickStep == ASSUME MediaInv, NEW p \in Sweepers, Pick(p) PROVE MediaInv'
<1>1. /\ MediaTypes /\ SweepOK(p) /\ CleanOK(p) /\ RecordOK /\ sweeps[p].pc = "pick" /\ sweeps[p] \in Sweep
      /\ DOMAIN sweeps[p].seen # {}
  BY DEF MediaInv, MediaTypes, Pick, SweepAt
<1>2. UNCHANGED <<media, task, execs, journal, uploads, objects, late, operator, swept, mediaFaults>>
  BY DEF Pick, record, store
<1>3. sweeps[p].seen \in [DOMAIN sweeps[p].seen -> Artifact] /\ DOMAIN sweeps[p].seen \in SUBSET Attempts
  BY <1>1, SeenType DEF Sweep
<1>. DEFINE c == CHOOSE b \in DOMAIN sweeps[p].seen : \A d \in DOMAIN sweeps[p].seen : b <= d
<1>4. sweeps' = [sweeps EXCEPT ![p] = IF Retained(c) THEN [@ EXCEPT !.seen = [d \in DOMAIN sweeps[p].seen \ {c} |-> sweeps[p].seen[d]]]
                                      ELSE [@ EXCEPT !.pc = "mark", !.of = c]]
  BY DEF Pick
<1>5. c \in DOMAIN sweeps[p].seen
  <2>1. DOMAIN sweeps[p].seen \in SUBSET Nat BY <1>3, MediaFacts
  <2>2. \E b \in DOMAIN sweeps[p].seen : \A d \in DOMAIN sweeps[p].seen : b <= d BY <1>1, <2>1, LeastNatural
  <2>. QED BY <2>2
<1>. HIDE DEF c
<1>6. c \in Attempts /\ Begun(c) BY <1>1, <1>3, <1>5 DEF SweepOK
<1>7. /\ journal' \in [Attempts -> Artifact] /\ uploads' \in [Attempts -> File] /\ objects' \subseteq objects
  BY <1>1, <1>2 DEF MediaTypes
<1>8. CASE Retained(c)
  <2>1. PICK S : S = DOMAIN sweeps[p].seen \ {c} OBVIOUS
  <2>2. PICK seen : seen = [d \in S |-> sweeps[p].seen[d]] OBVIOUS
  <2>3. S \in SUBSET Attempts /\ seen \in [S -> Artifact] BY <1>3, <2>1, <2>2
  <2>4. seen \in Seen /\ DOMAIN seen = S BY <2>2, <2>3, TypeSeen
  <2>. DEFINE x == [sweeps[p] EXCEPT !.seen = seen]
  <2>5. x \in Sweep /\ x.pc = "pick" /\ x.clean = sweeps[p].clean /\ x.seen = seen BY <1>1, <2>4 DEF Sweep
  <2>6. sweeps' = [sweeps EXCEPT ![p] = x]
    <3>1. sweeps' = [sweeps EXCEPT ![p] = [sweeps[p] EXCEPT !.seen = [d \in DOMAIN sweeps[p].seen \ {c} |-> sweeps[p].seen[d]]]]
      BY <1>4, <1>8
    <3>2. seen = [d \in DOMAIN sweeps[p].seen \ {c} |-> sweeps[p].seen[d]] BY <2>1, <2>2
    <3>. QED BY <3>1, <3>2
  <2>. HIDE DEF x
  <2>7. x.clean => /\ sweeps[p].clean
                   /\ objects' \subseteq {media.result} \cup DOMAIN x.seen
                   /\ x.pc = "tombstone" => x.of \notin objects'
                   /\ x.pc = "delete" /\ uploads'[x.of].state = "deleted" => x.of \notin objects'
    <3>1. SUFFICES ASSUME sweeps[p].clean PROVE objects \subseteq {media.result} \cup S
      BY <1>2, <2>4, <2>5
    <3>2. media.exec = 0 /\ objects \subseteq {media.result} \cup DOMAIN sweeps[p].seen BY <1>1, <3>1 DEF CleanOK
    <3>3. media.result = c BY <1>6, <1>8, <3>2, MediaFacts DEF Retained
    <3>. QED BY <2>1, <3>2, <3>3
  <2>. QED BY <1>1, <1>2, <1>6, <1>7, <2>1, <2>4, <2>5, <2>6, <2>7, SweepGoesOn
<1>9. CASE ~Retained(c)
  <2>. DEFINE x == [sweeps[p] EXCEPT !.pc = "mark", !.of = c]
  <2>1. /\ x \in Sweep /\ x.pc = "mark" /\ x.clean = sweeps[p].clean /\ x.seen = sweeps[p].seen /\ x.of = c
    BY <1>1, <1>6, MediaFacts DEF Sweep, SweepPcs
  <2>2. sweeps' = [sweeps EXCEPT ![p] = x] BY <1>1, <1>4, <1>9 DEF MediaTypes
  <2>. HIDE DEF x
  <2>3. Lost(c)
    <3>1. media.result # c /\ (media.exec # c \/ media.state \in MediaTerminal) BY <1>9 DEF Retained
    <3>2. media.exec # c BY <1>1, <1>6, <3>1, MediaFacts DEF RecordOK
    <3>. QED BY <1>6, <3>1, <3>2 DEF Lost
  <2>4. x.clean => /\ sweeps[p].clean
                   /\ objects' \subseteq {media.result} \cup DOMAIN x.seen
                   /\ x.pc = "tombstone" => x.of \notin objects'
                   /\ x.pc = "delete" /\ uploads'[x.of].state = "deleted" => x.of \notin objects'
    BY <1>1, <1>2, <2>1 DEF CleanOK
  <2>. QED BY <1>1, <1>2, <1>5, <1>6, <1>7, <2>1, <2>2, <2>3, <2>4, SweepGoesOn
<1>. QED BY <1>8, <1>9

-----------------------------------------------------------------------------
(* A recovery begins or ends: what its process was at goes on.             *)
LEMMA SweepTurns ==
  ASSUME MediaInv, NEW p \in Sweepers, MediaTypes', UNCHANGED <<uploads, objects, late>>,
         task'.attempt = task.attempt, operator'.read \subseteq operator.read,
         \A b \in Attempts \ {p} : execs'[b] = execs[b],
         p # User => execs[p].pc \in {"recover", "sweeping"} /\ execs'[p].pc \in {"sweeping", "ended"},
         \A b \in Attempts : journal'[b] = journal[b] \/ (Lost(b) /\ journal'[b].state \in {"discarding", "deleted"}),
         media'.exec \in {media.exec, 0}, media'.result = media.result,
         media'.result # 0 <=> media'.state = "ready",
         media'.state \in MediaTerminal => media'.exec = 0,
         \A q \in Sweepers \ {p} : sweeps'[q] = sweeps[q],
         sweeps'[p].pc # "deleted", SweepOK(p)', CleanOK(p)',
         swept' => swept \/ (late' = {} /\ (\A a \in Attempts : ~Alive(a)') /\ objects' \subseteq {media'.result})
  PROVE  MediaInv'
<1>. USE MediaFacts
<1>1. \A b \in Attempts : Begun(b) => Begun(b)'
  <2>1. ASSUME NEW b \in Attempts, Begun(b) PROVE Begun(b)'
    <3>1. CASE b = p BY <3>1 DEF Begun
    <3>2. CASE b # p BY <2>1, <3>2 DEF Begun
    <3>. QED BY <3>1, <3>2
  <2>. QED BY <2>1
<1>2. RecordOK'
  <2>1. \A b \in Attempts : execs'[b].pc # "idle" => execs[b].pc # "idle" OBVIOUS
  <2>. QED BY <2>1 DEF MediaInv, RecordOK
<1>3. ASSUME NEW b \in Attempts PROVE AttemptOK(b)'
  <2>0. AttemptOK(b) BY DEF MediaInv
  <2>1. /\ Begun(b) => Begun(b)'
        /\ execs'[b].pc \in Uploaded \cup {"insert", "uploading"} => execs'[b] = execs[b]
        /\ execs'[b] = execs[b] \/ execs'[b].pc \in {"sweeping", "ended"}
    BY <1>1 DEF Uploaded
  <2>2. /\ journal[b].state # "none" => journal'[b].state # "none"
        /\ journal'[b].state # "none" => Begun(b)
        /\ journal'[b].state \in {"discarding", "deleted"} => media.exec # b /\ media.result # b
        /\ journal'[b].state = journal[b].state \/ media.result # b
    BY <2>0 DEF AttemptOK, Lost
  <2>3. b # 0 OBVIOUS
  <2>4. /\ media'.exec = b => media.exec = b
        /\ execs'[b].pc \in {"gate", "readyfile", "publish"} => execs'[b] = execs[b]
        /\ execs[b].pc \in {"catch", "recover", "sweeping", "ended", "dead"} => execs'[b].pc \in {"catch", "recover", "sweeping", "ended", "dead"}
    BY <2>1, <2>3
  <2>. QED BY <2>0, <2>1, <2>2, <2>4 DEF AttemptOK, Uploaded
<1>4. p # User => Alive(p) BY DEF Alive
<1>5. ASSUME NEW q \in Sweepers \ {p} PROVE SweepOK(q)' /\ CleanOK(q)'
  <2>1. SweepOK(q) /\ CleanOK(q) BY DEF MediaInv
  <2>2. ASSUME NEW b \in Attempts, Lost(b) PROVE Lost(b)'
    <3>1. b # 0 OBVIOUS
    <3>. QED BY <1>1, <2>2, <3>1 DEF Lost
  <2>3. SweepOK(q)' BY <1>1, <2>1, <2>2 DEF SweepOK
  <2>4. CleanOK(q)'
    <3>1. SUFFICES ASSUME sweeps[q].clean PROVE CleanOK(q)' BY DEF CleanOK
    <3>2. p = User BY <1>4, <2>1, <3>1 DEF CleanOK
    <3>3. \A r \in Sweepers : sweeps'[r].pc = "deleted" => sweeps'[r] = sweeps[r] OBVIOUS
    <3>. QED BY <2>1, <3>1, <3>2, <3>3 DEF CleanOK, Alive
  <2>. QED BY <2>3, <2>4
<1>6. SweptOK'
  <2>1. CASE swept
    <3>1. SweptOK BY DEF MediaInv
    <3>2. p = User BY <1>4, <2>1, <3>1 DEF SweptOK
    <3>. QED BY <2>1, <3>1, <3>2 DEF SweptOK, Alive
  <2>2. CASE ~swept BY <2>2 DEF SweptOK
  <2>. QED BY <2>1, <2>2
<1>. QED BY <1>2, <1>3, <1>5, <1>6 DEF MediaInv

(* A record that a reconciliation ended, or none did.                      *)
LEMMA Reconciling ==
  ASSUME MediaInv, media' = media \/ (Reconciles /\ media' = Reconciled)
  PROVE  /\ media' \in MediaRecord
         /\ media'.exec \in {media.exec, 0} /\ media'.result = media.result
         /\ media'.result # 0 <=> media'.state = "ready"
         /\ media'.state \in MediaTerminal => media'.exec = 0
<1>1. media \in MediaRecord /\ RecordOK BY DEF MediaInv, MediaTypes
<1>2. CASE media' = media BY <1>1, <1>2 DEF RecordOK
<1>3. CASE Reconciles /\ media' = Reconciled
  <2>1. PICK state : state = IF task.state = "cancelled" THEN "cancelled" ELSE "failed" OBVIOUS
  <2>2. PICK error : error = IF media.error # "none" THEN media.error ELSE IF task.state = "cancelled" THEN "final" ELSE "retryable"
    OBVIOUS
  <2>3. state \in {"cancelled", "failed"} /\ error \in {"none"} \cup Errors
    BY <1>1, <2>1, <2>2 DEF MediaRecord, Errors
  <2>4. media' = [media EXCEPT !.state = state, !.exec = 0, !.error = error]
    BY <1>1, <1>3, <2>1, <2>2 DEF Reconciled, MediaRecord
  <2>5. media' \in MediaRecord /\ media'.state = state /\ media'.exec = 0 /\ media'.result = media.result
    BY <1>1, <2>3, <2>4, MediaFacts DEF MediaRecord, MediaTerminal
  <2>6. media.state # "ready" BY <1>3 DEF Reconciles, MediaTerminal
  <2>. QED BY <1>1, <2>3, <2>5, <2>6 DEF RecordOK
<1>. QED BY <1>2, <1>3

LEMMA OperatorTurns ==
  ASSUME MediaTypes, NEW pc \in OperatorPcs, OperatorGoes(pc)
  PROVE  /\ operator' \in [pc : OperatorPcs, read : SUBSET MediaRecord, left : Nat]
         /\ operator'.read = {} /\ operator'.pc = pc
BY DEF MediaTypes, OperatorGoes

LEMMA BeginStep == ASSUME MediaInv, NEW p \in Sweepers, BeginSweep(p) PROVE MediaInv'
<1>1. MediaTypes /\ sweeps \in [Sweepers -> Sweep] /\ journal \in [Attempts -> Artifact] /\ RecordOK
  BY DEF MediaInv, MediaTypes
<1>2. UNCHANGED <<task, journal, uploads, objects, late, swept, mediaFaults>> BY DEF BeginSweep, store
<1>3. /\ media' \in MediaRecord
      /\ media'.exec \in {media.exec, 0} /\ media'.result = media.result
      /\ media'.result # 0 <=> media'.state = "ready"
      /\ media'.state \in MediaTerminal => media'.exec = 0
  <2>1. media' = media \/ (Reconciles /\ media' = Reconciled) BY DEF BeginSweep
  <2>. QED BY <2>1, Reconciling
<1>4. PICK clean \in BOOLEAN : clean = (OthersOver(p) /\ media'.state \in MediaTerminal) OBVIOUS
<1>5. PICK S : S = {b \in Attempts : journal[b].state # "none"} OBVIOUS
<1>6. PICK seen : seen = [a \in S |-> journal[a]] OBVIOUS
<1>7. seen \in Seen /\ DOMAIN seen = S
  <2>1. S \in SUBSET Attempts BY <1>5
  <2>2. seen \in [S -> Artifact] /\ DOMAIN seen = S BY <1>1, <1>6, <2>1
  <2>. QED BY <2>1, <2>2, TypeSeen
<1>. DEFINE x == [NoSweep EXCEPT !.pc = "pick", !.clean = clean, !.seen = seen]
<1>8. x \in Sweep /\ x.pc = "pick" /\ x.clean = clean /\ x.seen = seen
  BY <1>7, NoSweepFacts DEF NoSweep, Sweep, SweepPcs
<1>9. sweeps' = [sweeps EXCEPT ![p] = x] BY <1>4, <1>5, <1>6 DEF BeginSweep
<1>. HIDE DEF x
<1>10. /\ sweeps' \in [Sweepers -> Sweep] /\ sweeps'[p] = x
       /\ \A q \in Sweepers \ {p} : sweeps'[q] = sweeps[q]
  BY <1>1, <1>8, <1>9
<1>11. /\ execs' \in [Attempts -> Exec]
       /\ \A b \in Attempts \ {p} : execs'[b] = execs[b]
       /\ p # User => p \in Attempts /\ execs[p].pc = "recover" /\ execs'[p].pc = "sweeping"
       /\ operator' \in [pc : OperatorPcs, read : SUBSET MediaRecord, left : Nat]
       /\ operator'.read \subseteq operator.read
  <2>1. CASE p = User
    <3>1. "sweeping" \in OperatorPcs BY DEF OperatorPcs
    <3>2. OperatorGoes("sweeping") /\ UNCHANGED execs BY <2>1 DEF BeginSweep
    <3>. QED BY <1>1, <2>1, <3>1, <3>2, OperatorTurns DEF MediaTypes
  <2>2. CASE p # User
    <3>1. "sweeping" \in ExecPcs /\ p \in Attempts BY <2>2, MediaFacts DEF ExecPcs
    <3>2. ExecGoes(p, "sweeping") /\ execs[p].pc = "recover" /\ UNCHANGED operator BY <2>2 DEF BeginSweep, ExecAt
    <3>3. Moved(p, {"sweeping"}) BY <1>1, <3>1, <3>2, ExecGoesOn
    <3>. QED BY <1>1, <2>2, <3>1, <3>2, <3>3 DEF Moved, MediaTypes
  <2>. QED BY <2>1, <2>2
<1>12. MediaTypes' BY <1>1, <1>2, <1>3, <1>10, <1>11 DEF MediaTypes
<1>13. SweepOK(p)'
  <2>1. ASSUME NEW b \in S PROVE b \in Attempts /\ Begun(b)'
    <3>1. b \in Attempts /\ AttemptOK(b) /\ journal[b].state # "none" BY <1>5, <2>1 DEF MediaInv
    <3>2. CASE b = p BY <1>11, <3>1, <3>2, MediaFacts DEF Begun
    <3>3. CASE b # p BY <1>11, <3>1, <3>3 DEF Begun, AttemptOK
    <3>. QED BY <3>1, <3>2, <3>3
  <2>. QED BY <1>7, <1>8, <1>10, <1>11, <2>1 DEF SweepOK
<1>14. CleanOK(p)'
  <2>1. SUFFICES ASSUME clean PROVE CleanOK(p)' BY <1>8, <1>10 DEF CleanOK
  <2>2. /\ late = {} /\ (\A a \in Attempts \ {p} : ~Alive(a)) /\ media'.state \in MediaTerminal
        /\ \A q \in Sweepers \ {p} : sweeps[q].pc = "idle"
    BY <1>4, <2>1 DEF OthersOver, SweepAt
  <2>3. \A a \in Attempts \ {p} : ~Alive(a)' BY <1>11, <2>2 DEF Alive
  <2>4. objects \subseteq S
    <3>1. \A b \in objects : b \in Attempts /\ AttemptOK(b) BY <1>1 DEF MediaInv, MediaTypes
    <3>. QED BY <1>5, <3>1 DEF AttemptOK
  <2>5. \A q \in Sweepers : sweeps'[q].pc # "deleted" BY <1>8, <1>10, <2>2
  <2>. QED BY <1>2, <1>3, <1>7, <1>8, <1>10, <2>2, <2>3, <2>4, <2>5 DEF CleanOK
<1>15. p # User => execs[p].pc \in {"recover", "sweeping"} /\ execs'[p].pc \in {"sweeping", "ended"} BY <1>11
<1>. QED BY <1>2, <1>3, <1>8, <1>10, <1>11, <1>12, <1>13, <1>14, <1>15, SweepTurns

LEMMA ThrowsStep == ASSUME MediaInv, NEW p \in Sweepers, SweepThrows(p) PROVE MediaInv'
<1>1. /\ MediaTypes /\ SweepOK(p) /\ RecordOK /\ p \in Attempts /\ p # User /\ sweeps[p].pc \in {"pick", "mark"}
      /\ execs[p].pc = "sweeping"
  BY MediaFacts DEF MediaInv, SweepThrows, SweepOK
<1>2. UNCHANGED <<media, uploads, objects, late, operator, swept>> /\ mediaFaults' \in Nat
  BY <1>1, FaultCounted DEF SweepThrows
<1>3. Moved(p, {"ended"}) /\ task' \in Job /\ task'.attempt = task.attempt
  BY <1>1, ExecEnding DEF SweepThrows
<1>4. /\ journal' \in [Attempts -> Artifact]
      /\ \A b \in Attempts : journal'[b] = journal[b] \/ (Lost(b) /\ journal'[b].state \in {"discarding", "deleted"})
  <2>1. CASE journal' = journal BY <1>1, <2>1 DEF MediaTypes
  <2>2. CASE journal' # journal
    <3>1. journal' = ArtifactWritten(p) BY <2>2 DEF SweepThrows
    <3>2. sweeps[p].pc = "mark" BY <1>1, <2>2, <3>1 DEF ArtifactWritten, SweepAt
    <3>3. PICK c \in Attempts : c = sweeps[p].of BY <1>1, <3>2 DEF SweepOK
    <3>4. Lost(c) BY <1>1, <3>2, <3>3 DEF SweepOK
    <3>. QED BY <1>1, <2>2, <3>1, <3>3, <3>4, ArtifactToWrite
  <2>. QED BY <2>1, <2>2
<1>5. /\ sweeps' \in [Sweepers -> Sweep] /\ sweeps'[p] = NoSweep
      /\ \A q \in Sweepers \ {p} : sweeps'[q] = sweeps[q]
  BY <1>1, NoSweepFacts DEF SweepThrows, MediaTypes
<1>6. MediaTypes' BY <1>1, <1>2, <1>3, <1>4, <1>5 DEF MediaTypes, Moved
<1>7. SweepOK(p)' /\ CleanOK(p)' BY <1>5, NoSweepFacts DEF SweepOK, CleanOK
<1>8. execs'[p].pc \in {"sweeping", "ended"} BY <1>3 DEF Moved
<1>9. \A b \in Attempts \ {p} : execs'[b] = execs[b] BY <1>3 DEF Moved
<1>10. (media.result # 0 <=> media.state = "ready") /\ (media.state \in MediaTerminal => media.exec = 0)
  BY <1>1 DEF RecordOK
<1>. QED BY <1>1, <1>2, <1>3, <1>4, <1>5, <1>6, <1>7, <1>8, <1>9, <1>10, SweepTurns, NoSweepFacts

LEMMA EndsStep == ASSUME MediaInv, NEW p \in Sweepers, SweepEnds(p) PROVE MediaInv'
<1>1. /\ MediaTypes /\ SweepOK(p) /\ CleanOK(p) /\ RecordOK /\ sweeps[p].pc = "pick" /\ DOMAIN sweeps[p].seen = {}
      /\ sweeps[p] \in Sweep /\ swept \in BOOLEAN
  BY DEF MediaInv, MediaTypes, SweepEnds, SweepAt
<1>2. UNCHANGED <<media, journal, uploads, objects, late, mediaFaults>> /\ swept' = (swept \/ sweeps[p].clean)
  BY DEF SweepEnds, store
<1>3. /\ sweeps' \in [Sweepers -> Sweep] /\ sweeps'[p] = NoSweep
      /\ \A q \in Sweepers \ {p} : sweeps'[q] = sweeps[q]
  BY <1>1, NoSweepFacts DEF SweepEnds, MediaTypes
<1>4. /\ execs' \in [Attempts -> Exec] /\ task' \in Job /\ task'.attempt = task.attempt
      /\ \A b \in Attempts \ {p} : execs'[b] = execs[b]
      /\ p # User => p \in Attempts /\ execs[p].pc = "sweeping" /\ execs'[p].pc = "ended"
      /\ operator' \in [pc : OperatorPcs, read : SUBSET MediaRecord, left : Nat]
      /\ operator'.read \subseteq operator.read
  <2>1. CASE p = User
    <3>1. "idle" \in OperatorPcs BY DEF OperatorPcs
    <3>2. OperatorGoes("idle") /\ UNCHANGED <<execs, task>> BY <2>1 DEF SweepEnds
    <3>. QED BY <1>1, <2>1, <3>1, <3>2, OperatorTurns DEF MediaTypes
  <2>2. CASE p # User
    <3>1. p \in Attempts /\ execs[p].pc = "sweeping" /\ execs[p] \in Exec
      BY <1>1, <2>2, MediaFacts DEF SweepOK, MediaTypes
    <3>2. execs[p].throws \in BOOLEAN BY <3>1 DEF Exec
    <3>3. ExecEnds(p, execs[p].throws) /\ UNCHANGED operator BY <2>2 DEF SweepEnds
    <3>4. Moved(p, {"ended"}) /\ task' \in Job /\ task'.attempt = task.attempt
      BY <1>1, <3>1, <3>2, <3>3, ExecEnding
    <3>. QED BY <1>1, <2>2, <3>1, <3>3, <3>4 DEF Moved, MediaTypes
  <2>. QED BY <2>1, <2>2
<1>5. swept' \in BOOLEAN BY <1>1, <1>2 DEF Sweep
<1>6. MediaTypes' BY <1>1, <1>2, <1>3, <1>4, <1>5 DEF MediaTypes
<1>7. SweepOK(p)' /\ CleanOK(p)' BY <1>3, NoSweepFacts DEF SweepOK, CleanOK
<1>8. swept' => swept \/ (late' = {} /\ (\A a \in Attempts : ~Alive(a)') /\ objects' \subseteq {media'.result})
  <2>1. SUFFICES ASSUME sweeps[p].clean PROVE late' = {} /\ (\A a \in Attempts : ~Alive(a)') /\ objects' \subseteq {media'.result}
    BY <1>2
  <2>2. late' = {} /\ objects' \subseteq {media'.result} /\ \A a \in Attempts \ {p} : ~Alive(a)
    BY <1>1, <1>2, <2>1 DEF CleanOK
  <2>3. ASSUME NEW a \in Attempts PROVE ~Alive(a)'
    <3>1. CASE a = p BY <1>4, <3>1, MediaFacts DEF Alive
    <3>2. CASE a # p BY <1>4, <2>2, <3>2 DEF Alive
    <3>. QED BY <3>1, <3>2
  <2>. QED BY <2>2, <2>3
<1>9. p # User => execs[p].pc \in {"recover", "sweeping"} /\ execs'[p].pc \in {"sweeping", "ended"} BY <1>4
<1>10. (media.result # 0 <=> media.state = "ready") /\ (media.state \in MediaTerminal => media.exec = 0)
  BY <1>1 DEF RecordOK
<1>. QED BY <1>2, <1>3, <1>4, <1>6, <1>7, <1>8, <1>9, <1>10, SweepTurns, NoSweepFacts

-----------------------------------------------------------------------------
(* An attempt dies; what it sent may still arrive.                         *)
LEMMA DiesStep == ASSUME MediaInv, NEW a \in Attempts, ExecDies(a) PROVE MediaInv'
<1>. USE MediaFacts
<1>1. MediaTypes /\ RecordOK /\ AttemptOK(a) /\ Alive(a) /\ SweptOK BY DEF MediaInv, ExecDies
<1>2. UNCHANGED <<media, task, journal, uploads, objects, operator, swept>> /\ mediaFaults' \in Nat
  BY <1>1, FaultCounted DEF ExecDies, record
<1>3. /\ execs' \in [Attempts -> Exec] /\ execs'[a].pc = "dead"
      /\ \A b \in Attempts \ {a} : execs'[b] = execs[b]
  <2>1. [NoExec EXCEPT !.pc = "dead"] \in Exec /\ [NoExec EXCEPT !.pc = "dead"].pc = "dead"
    BY DEF NoExec, Exec, ExecPcs
  <2>. QED BY <1>1, <2>1 DEF ExecDies, MediaTypes
<1>4. /\ sweeps' \in [Sweepers -> Sweep] /\ sweeps'[a] = NoSweep
      /\ \A q \in Sweepers \ {a} : sweeps'[q] = sweeps[q]
  BY <1>1, NoSweepFacts DEF ExecDies, MediaTypes
<1>5. late' = late \/ (execs[a].pc = "put" /\ late' = late \cup {a}) BY DEF ExecDies, ExecAt
<1>6. MediaTypes' BY <1>1, <1>2, <1>3, <1>4, <1>5 DEF MediaTypes
<1>7. \A b \in Attempts : Begun(b) => Begun(b)' BY <1>3 DEF Begun
<1>8. RecordOK'
  <2>1. execs[a].pc # "idle" BY <1>1 DEF Alive
  <2>. QED BY <1>1, <1>2, <1>3, <2>1 DEF RecordOK
<1>9. ASSUME NEW b \in Attempts PROVE AttemptOK(b)'
  <2>1. CASE b = a BY <1>1, <1>2, <1>3, <1>5, <2>1 DEF AttemptOK, Begun, Uploaded
  <2>2. CASE b # a BY <1>2, <1>3, <1>5, <2>2 DEF MediaInv, AttemptOK, Begun
  <2>. QED BY <2>1, <2>2
<1>10. ASSUME NEW q \in Sweepers PROVE SweepOK(q)' /\ CleanOK(q)'
  <2>1. CASE q = a BY <1>4, <2>1, NoSweepFacts DEF SweepOK, CleanOK
  <2>2. CASE q # a
    <3>1. SweepOK(q) /\ CleanOK(q) BY DEF MediaInv
    <3>2. ~sweeps[q].clean BY <1>1, <2>2, <3>1 DEF CleanOK
    <3>3. \A b \in Attempts : Lost(b) => Lost(b)' BY <1>2, <1>7 DEF Lost
    <3>4. q # User => execs'[q] = execs[q] BY <1>3, <2>2
    <3>5. SweepOK(q)' BY <1>4, <1>7, <2>2, <3>1, <3>3, <3>4 DEF SweepOK
    <3>. QED BY <1>4, <2>2, <3>2, <3>5 DEF CleanOK
  <2>. QED BY <2>1, <2>2
<1>11. SweptOK' BY <1>1, <1>2 DEF SweptOK
<1>. QED BY <1>6, <1>8, <1>9, <1>10, <1>11 DEF MediaInv

(* While a PUT is under way no recovery is clean, and none has been.       *)
LEMMA LateStep == ASSUME MediaInv, NEW a \in Attempts, LatePut(a) PROVE MediaInv'
<1>1. MediaTypes /\ RecordOK /\ AttemptOK(a) /\ SweptOK /\ a \in late BY DEF MediaInv, LatePut
<1>2. /\ UNCHANGED <<media, task, execs, journal, uploads, sweeps, operator, swept, mediaFaults>>
      /\ objects' = objects \cup {a} /\ late' = late \ {a}
  BY DEF LatePut, record
<1>3. MediaTypes' BY <1>1, <1>2 DEF MediaTypes
<1>4. RecordOK' BY <1>1, <1>2 DEF RecordOK
<1>5. ASSUME NEW b \in Attempts PROVE AttemptOK(b)'
  <2>1. AttemptOK(b) BY DEF MediaInv
  <2>2. b \in objects' \cup late' => b \in objects \cup late BY <1>1, <1>2
  <2>. QED BY <1>2, <2>1, <2>2 DEF AttemptOK, Begun
<1>6. ASSUME NEW q \in Sweepers PROVE SweepOK(q)' /\ CleanOK(q)'
  <2>1. SweepOK(q) /\ CleanOK(q) BY DEF MediaInv
  <2>2. ~sweeps[q].clean BY <1>1, <2>1 DEF CleanOK
  <2>3. SweepOK(q)' BY <1>2, <2>1 DEF SweepOK, Lost, Begun
  <2>. QED BY <1>2, <2>2, <2>3 DEF CleanOK
<1>7. SweptOK' BY <1>1, <1>2 DEF SweptOK
<1>. QED BY <1>3, <1>4, <1>5, <1>6, <1>7 DEF MediaInv

(* A new attempt has touched nothing, and no recovery before it counts.    *)
LEMMA NextAttemptStep == ASSUME MediaInv, NextAttempt PROVE MediaInv'
<1>. USE MediaFacts
<1>1. MediaTypes /\ RecordOK /\ task \in Job BY DEF MediaInv, MediaTypes
<1>2. PICK a : a = task.attempt + 1 OBVIOUS
<1>3. a \in Attempts
  <2>1. task.attempt \in Nat /\ task.max \in Attempts /\ task.attempt < task.max BY <1>1 DEF Job, NextAttempt
  <2>. QED BY <1>2, <2>1 DEF Attempts
<1>4. AttemptOK(a) BY <1>3 DEF MediaInv
<1>5. UNCHANGED <<media, journal, uploads, objects, late, operator>> /\ mediaFaults' \in Nat /\ swept' = FALSE
  <2>1. MediaFault \/ UNCHANGED mediaFaults BY DEF NextAttempt
  <2>. QED BY <1>1, <2>1, FaultCounted DEF NextAttempt, store
<1>6. task' \in Job /\ task'.attempt = a
  <2>1. task' = [task EXCEPT !.state = "running", !.attempt = a] BY <1>1, <1>2 DEF NextAttempt, Job
  <2>. QED BY <1>1, <1>3, <2>1 DEF Job
<1>7. Moved(a, {"claim"})
  <2>1. ExecGoes(a, "claim") /\ "claim" \in ExecPcs BY <1>2 DEF NextAttempt, ExecPcs
  <2>. QED BY <1>1, <1>3, <2>1, ExecGoesOn
<1>8. ASSUME NEW q \in Sweepers PROVE sweeps'[q] \in Sweep /\ sweeps'[q] = [sweeps[q] EXCEPT !.clean = FALSE]
  <2>1. PICK x \in Sweep : x = sweeps[q] BY <1>1 DEF MediaTypes
  <2>2. sweeps'[q] = [x EXCEPT !.clean = FALSE] BY <2>1 DEF NextAttempt
  <2>3. [x EXCEPT !.clean = FALSE] \in Sweep BY DEF Sweep
  <2>. QED BY <2>1, <2>2, <2>3
<1>9. sweeps' \in [Sweepers -> Sweep]
  <2>1. sweeps' = [q \in Sweepers |-> [sweeps[q] EXCEPT !.clean = FALSE]] BY DEF NextAttempt
  <2>. QED BY <1>8, <2>1
<1>10. ASSUME NEW q \in Sweepers
       PROVE  /\ sweeps'[q].pc = sweeps[q].pc /\ sweeps'[q].seen = sweeps[q].seen /\ sweeps'[q].of = sweeps[q].of
              /\ ~sweeps'[q].clean
  <2>1. sweeps[q] \in Sweep BY <1>1 DEF MediaTypes
  <2>2. PICK x \in Sweep : x = sweeps[q] BY <2>1
  <2>3. sweeps'[q] = [x EXCEPT !.clean = FALSE] BY <1>8, <2>2
  <2>4. sweeps'[q].pc = x.pc /\ sweeps'[q].seen = x.seen /\ sweeps'[q].of = x.of /\ ~sweeps'[q].clean
    BY <2>3 DEF Sweep
  <2>. QED BY <2>2, <2>4
<1>11. MediaTypes' BY <1>1, <1>5, <1>6, <1>7, <1>9 DEF MediaTypes, Moved
<1>12. execs[a].pc = "idle"
  <2>1. task.attempt \in Nat BY <1>1 DEF Job
  <2>. QED BY <1>1, <1>2, <1>3, <2>1 DEF RecordOK
<1>13. RecordOK'
  <2>1. \A b \in Attempts : b <= task.attempt => b <= a
    <3>1. task.attempt \in Nat BY <1>1 DEF Job
    <3>. QED BY <1>2, <3>1
  <2>2. a <= a BY <1>3
  <2>. QED BY <1>1, <1>3, <1>5, <1>6, <1>7, <2>1, <2>2 DEF RecordOK, Moved
<1>14. \A b \in Attempts : Begun(b) => b # a /\ Begun(b)' BY <1>7, <1>12 DEF Begun, Moved
<1>15. ASSUME NEW b \in Attempts PROVE AttemptOK(b)'
  <2>1. CASE b = a BY <1>4, <1>5, <1>7, <1>12, <2>1 DEF AttemptOK, Begun, Moved, Uploaded
  <2>2. CASE b # a BY <1>5, <1>7, <2>2 DEF MediaInv, AttemptOK, Begun, Moved
  <2>. QED BY <2>1, <2>2
<1>16. ASSUME NEW q \in Sweepers PROVE SweepOK(q)' /\ CleanOK(q)'
  <2>1. SweepOK(q) BY DEF MediaInv
  <2>2. \A b \in Attempts : Lost(b) => Lost(b)' BY <1>5, <1>14 DEF Lost
  <2>3. q # User /\ sweeps[q].pc # "idle" => execs'[q].pc = "sweeping"
    BY <1>7, <1>12, <2>1 DEF SweepOK, Moved
  <2>4. SweepOK(q)' BY <1>10, <1>14, <2>1, <2>2, <2>3 DEF SweepOK
  <2>. QED BY <1>10, <2>4 DEF CleanOK
<1>. QED BY <1>5, <1>11, <1>13, <1>15, <1>16 DEF MediaInv, SweptOK

-----------------------------------------------------------------------------
(* What the queue and the user do.                                         *)
LEMMA Outside ==
  ASSUME MediaInv, UNCHANGED <<execs, store, swept>>, MediaFault \/ UNCHANGED mediaFaults,
         task' \in Job, task'.attempt = task.attempt, media' \in MediaRecord,
         media'.exec \in {media.exec, 0}, media'.result = media.result,
         media'.result # 0 <=> media'.state = "ready",
         media'.state \in MediaTerminal => media'.exec = 0,
         operator' \in [pc : OperatorPcs, read : SUBSET MediaRecord, left : Nat],
         \A m \in operator'.read : m.state = "failed",
         sweeps' = sweeps \/ sweeps' = [sweeps EXCEPT ![User] = NoSweep]
  PROVE  MediaInv'
<1>1. MediaTypes /\ mediaFaults' \in Nat BY FaultCounted DEF MediaInv
<1>2. sweeps' \in [Sweepers -> Sweep] /\ \A p \in Sweepers : sweeps'[p] = sweeps[p] \/ sweeps'[p] = NoSweep
  BY <1>1, NoSweepFacts DEF MediaTypes
<1>3. MediaTypes' BY <1>1, <1>2 DEF MediaTypes, store
<1>. QED BY <1>2, <1>3, NothingStored

LEMMA AsItIs ==
  ASSUME MediaInv
  PROVE  /\ media \in MediaRecord /\ task \in Job
         /\ operator \in [pc : OperatorPcs, read : SUBSET MediaRecord, left : Nat]
         /\ media.exec \in {media.exec, 0} /\ (media.result # 0 <=> media.state = "ready")
         /\ media.state \in MediaTerminal => media.exec = 0
         /\ \A m \in operator.read : m.state = "failed"
BY DEF MediaInv, MediaTypes, RecordOK

LEMMA JobMoves ==
  ASSUME MediaInv, NEW state \in {"pending", "running", "succeeded", "failed", "cancelled"},
         task' = [task EXCEPT !.state = state]
  PROVE  task' \in Job /\ task'.attempt = task.attempt
<1>1. task \in Job BY AsItIs
<1>. QED BY <1>1 DEF Job

LEMMA CallMade ==
  ASSUME MediaInv, NEW pc \in OperatorPcs, Calls(pc), pc = "retrytask" => media.state = "failed"
  PROVE  /\ operator' \in [pc : OperatorPcs, read : SUBSET MediaRecord, left : Nat]
         /\ \A m \in operator'.read : m.state = "failed"
<1>1. operator.left - 1 \in Nat /\ media \in MediaRecord BY AsItIs DEF Calls
<1>. QED BY <1>1 DEF Calls

LEMMA QueueSteps == ASSUME MediaInv, Submit \/ TaskExpires PROVE MediaInv'
<1>1. task' \in Job /\ task'.attempt = task.attempt
  <2>1. \E state \in {"pending", "cancelled", "failed"} : task' = [task EXCEPT !.state = state]
    BY DEF Submit, TaskExpires
  <2>. QED BY <2>1, JobMoves
<1>2. UNCHANGED <<execs, store, swept, media, operator, sweeps>> /\ (MediaFault \/ UNCHANGED mediaFaults)
  BY DEF Submit, TaskExpires
<1>. QED BY <1>1, <1>2, AsItIs, Outside

LEMMA StatusStep == ASSUME MediaInv, Status PROVE MediaInv'
<1>1. UNCHANGED <<execs, store, swept, task, operator, sweeps, mediaFaults>> /\ Reconciles /\ media' = Reconciled
  BY DEF Status
<1>2. /\ media' \in MediaRecord
      /\ media'.exec \in {media.exec, 0} /\ media'.result = media.result
      /\ media'.result # 0 <=> media'.state = "ready"
      /\ media'.state \in MediaTerminal => media'.exec = 0
  BY <1>1, Reconciling
<1>. QED BY <1>1, <1>2, AsItIs, Outside

LEMMA CancelStep == ASSUME MediaInv, CancelMedia PROVE MediaInv'
<1>1. UNCHANGED <<execs, store, swept, task, sweeps, mediaFaults>> /\ Calls("canceltask")
  BY DEF CancelMedia
<1>2. /\ operator' \in [pc : OperatorPcs, read : SUBSET MediaRecord, left : Nat]
      /\ \A m \in operator'.read : m.state = "failed"
  BY <1>1, CallMade DEF OperatorPcs
<1>3. media \in MediaRecord /\ RecordOK BY DEF MediaInv, MediaTypes
<1>4. /\ media' \in MediaRecord
      /\ media'.exec \in {media.exec, 0} /\ media'.result = media.result
      /\ (media'.result # 0 <=> media'.state = "ready")
      /\ (media'.state \in MediaTerminal => media'.exec = 0)
  <2>1. CASE media' = media BY <1>3, <2>1 DEF RecordOK
  <2>2. CASE media' # media
    <3>1. PICK state, exec : /\ state = IF media.state = "pending" THEN "cancelled" ELSE media.state
                             /\ exec = IF media.state = "pending" THEN 0 ELSE media.exec
      OBVIOUS
    <3>2. media' = [media EXCEPT !.cancel = TRUE, !.state = state, !.exec = exec] /\ media.state \notin MediaTerminal
      BY <1>3, <2>2, <3>1 DEF CancelMedia, MediaRecord
    <3>3. state \in {"running", "cancelled"} /\ exec \in 0..MaxAttempts /\ exec \in {media.exec, 0}
      BY <1>3, <3>1, <3>2, MediaFacts DEF MediaRecord
    <3>4. /\ media' \in MediaRecord /\ media'.state = state /\ media'.exec = exec /\ media'.result = media.result
      BY <1>3, <3>2, <3>3 DEF MediaRecord, MediaTerminal
    <3>. QED BY <1>3, <3>1, <3>2, <3>3, <3>4 DEF RecordOK, MediaTerminal
  <2>. QED BY <2>1, <2>2
<1>. QED BY <1>1, <1>2, <1>4, AsItIs, Outside

LEMMA CallSteps == ASSUME MediaInv, RecoverMedia \/ RetryMedia PROVE MediaInv'
<1>1. UNCHANGED <<execs, store, swept, media, task, sweeps, mediaFaults>> BY DEF RecoverMedia, RetryMedia, record
<1>2. /\ operator' \in [pc : OperatorPcs, read : SUBSET MediaRecord, left : Nat]
      /\ \A m \in operator'.read : m.state = "failed"
  BY CallMade DEF RecoverMedia, RetryMedia, OperatorPcs
<1>. QED BY <1>1, <1>2, AsItIs, Outside

LEMMA CancelTaskStep == ASSUME MediaInv, CancelTask PROVE MediaInv'
<1>1. UNCHANGED <<execs, store, swept, media, sweeps, mediaFaults>> BY DEF CancelTask
<1>2. task \in Job BY AsItIs
<1>3. task' \in Job /\ task'.attempt = task.attempt
  <2>1. \/ task' = task
        \/ task' = [task EXCEPT !.state = "cancelled"]
        \/ task' = [task EXCEPT !.cancel = TRUE]
    BY DEF CancelTask
  <2>2. CASE task' = [task EXCEPT !.cancel = TRUE] BY <1>2, <2>2 DEF Job
  <2>. QED BY <1>2, <2>1, <2>2, JobMoves
<1>4. /\ operator' \in [pc : OperatorPcs, read : SUBSET MediaRecord, left : Nat]
      /\ operator'.read = {}
  <2>1. MediaTypes /\ "recover" \in OperatorPcs BY DEF MediaInv, OperatorPcs
  <2>. QED BY <2>1, OperatorTurns DEF CancelTask
<1>. QED BY <1>1, <1>3, <1>4, AsItIs, Outside

LEMMA RetryTaskStep == ASSUME MediaInv, RetryTask PROVE MediaInv'
<1>1. UNCHANGED <<execs, store, swept, media, sweeps, mediaFaults>> BY DEF RetryTask
<1>2. /\ task \in Job /\ operator \in [pc : OperatorPcs, read : SUBSET MediaRecord, left : Nat]
      /\ \A m \in operator.read : m.state = "failed"
  BY AsItIs
<1>3. task' \in Job /\ task'.attempt = task.attempt
  <2>1. CASE task' = task BY <1>2, <2>1
  <2>2. CASE task' # task
    <3>1. PICK max : max = task.max + 1 OBVIOUS
    <3>2. task' = [task EXCEPT !.state = "pending", !.max = max] BY <1>2, <2>2, <3>1 DEF RetryTask, Job
    <3>3. max \in Attempts
      <4>1. task.max \in Attempts /\ task.max < MaxAttempts BY <1>2 DEF RetryTask, Job
      <4>. QED BY <3>1, <4>1, MediaFacts DEF Attempts
    <3>. QED BY <1>2, <3>2, <3>3 DEF Job
  <2>. QED BY <2>1, <2>2
<1>4. /\ operator' \in [pc : OperatorPcs, read : SUBSET MediaRecord, left : Nat]
      /\ operator'.read \subseteq operator.read
  <2>1. CASE OperatorGoes("idle")
    <3>1. MediaTypes /\ "idle" \in OperatorPcs BY DEF MediaInv, OperatorPcs
    <3>. QED BY <2>1, <3>1, OperatorTurns
  <2>2. CASE operator' = [operator EXCEPT !.pc = "project"] BY <1>2, <2>2 DEF OperatorPcs
  <2>. QED BY <2>1, <2>2 DEF RetryTask
<1>5. \A m \in operator'.read : m.state = "failed" BY <1>2, <1>4
<1>. QED BY <1>1, <1>3, <1>4, <1>5, AsItIs, Outside

LEMMA ProjectStep == ASSUME MediaInv, ProjectRetry PROVE MediaInv'
<1>1. UNCHANGED <<execs, store, swept, task, sweeps, mediaFaults>> BY DEF ProjectRetry
<1>2. media \in MediaRecord /\ RecordOK BY DEF MediaInv, MediaTypes
<1>3. /\ operator' \in [pc : OperatorPcs, read : SUBSET MediaRecord, left : Nat]
      /\ operator'.read = {}
  <2>1. MediaTypes /\ "idle" \in OperatorPcs BY DEF MediaInv, OperatorPcs
  <2>. QED BY <2>1, OperatorTurns DEF ProjectRetry
<1>4. /\ media' \in MediaRecord
      /\ media'.exec \in {media.exec, 0} /\ media'.result = media.result
      /\ (media'.result # 0 <=> media'.state = "ready")
      /\ (media'.state \in MediaTerminal => media'.exec = 0)
  <2>1. CASE media' = media BY <1>2, <2>1 DEF RecordOK
  <2>2. CASE media' # media
    <3>1. operator.read = {media} /\ media' = [media EXCEPT !.state = "pending", !.exec = 0] BY <2>2 DEF ProjectRetry
    <3>2. media.state = "failed" BY <1>2, <3>1 DEF RecordOK
    <3>3. media' \in MediaRecord /\ media'.state = "pending" /\ media'.exec = 0 /\ media'.result = media.result
      BY <1>2, <3>1, MediaFacts DEF MediaRecord
    <3>. QED BY <1>2, <3>2, <3>3 DEF RecordOK
  <2>. QED BY <2>1, <2>2
<1>. QED BY <1>1, <1>3, <1>4, AsItIs, Outside

LEMMA AbandonStep == ASSUME MediaInv, Abandons PROVE MediaInv'
<1>1. /\ UNCHANGED <<execs, store, swept, task, media>> /\ MediaFault
      /\ sweeps' = [sweeps EXCEPT ![User] = NoSweep]
  BY DEF Abandons, record
<1>2. /\ operator' \in [pc : OperatorPcs, read : SUBSET MediaRecord, left : Nat]
      /\ operator'.read = {}
  <2>1. MediaTypes /\ "idle" \in OperatorPcs BY DEF MediaInv, OperatorPcs
  <2>. QED BY <2>1, OperatorTurns DEF Abandons
<1>. QED BY <1>1, <1>2, AsItIs, Outside

-----------------------------------------------------------------------------
LEMMA MediaStep == MediaInv /\ [MediaNext]_mediaVars => MediaInv'
<1>. SUFFICES ASSUME MediaInv, [MediaNext]_mediaVars PROVE MediaInv' OBVIOUS
<1>1. ASSUME NEW a \in Attempts, ExecStep(a) PROVE MediaInv'
  BY <1>1, ClaimMediaStep, WorkStep, StageStep, InsertStep, ClaimFileStep, PutStep, GateStep, ReadyStep, FailStep,
     UnlinkStep, PublishStep, CatchStep, SettleStep DEF ExecStep
<1>2. ASSUME NEW a \in Attempts, ExecDies(a) \/ LatePut(a) PROVE MediaInv'
  BY <1>2, DiesStep, LateStep
<1>3. ASSUME NEW p \in Sweepers, SweepStep(p) PROVE MediaInv'
  BY <1>3, BeginStep, PickStep, MarkStep, RevokeStep, DeleteStep, ObjectStep, DeletedStep, TombstoneStep,
     SweepFailsStep, ThrowsStep, EndsStep DEF SweepStep
<1>4. CASE UNCHANGED mediaVars
  <2>1. UNCHANGED <<execs, store, swept, task, media, operator, sweeps, mediaFaults>> BY <1>4 DEF mediaVars, store
  <2>. QED BY <2>1, AsItIs, Outside
<1>. QED BY <1>1, <1>2, <1>3, <1>4, NextAttemptStep, QueueSteps, StatusStep, CancelStep, CallSteps, CancelTaskStep,
            RetryTaskStep, ProjectStep, AbandonStep DEF MediaNext

(* The invariant holds, however many attempts overlap, die or are retried. *)
THEOREM MediaInvariant == MediaSpec => []MediaInv
<1>. QED BY MediaInitial, MediaStep, PTL DEF MediaSpec

(* The published file is never discarded by a recovery that runs beside    *)
(* the attempts, and a recovery that reports success over a derivation     *)
(* that is over leaves no object behind (execute, recover, discard).       *)
THEOREM MediaStaysSound == MediaSpec => []MediaIsSound
<1>1. MediaInv => MediaIsSound
  <2>. SUFFICES ASSUME MediaInv PROVE MediaIsSound OBVIOUS
  <2>1. media \in MediaRecord /\ RecordOK /\ SweptOK BY DEF MediaInv, MediaTypes
  <2>2. ASSUME media.state = "ready"
        PROVE  journal[media.result].state = "staged" /\ uploads[media.result].state = "ready" /\ media.result \in objects
    <3>1. media.result \in 0..MaxAttempts /\ media.result # 0 BY <2>1, <2>2 DEF RecordOK, MediaRecord
    <3>2. media.result \in Attempts BY <3>1, MediaFacts DEF Attempts
    <3>3. AttemptOK(media.result) BY <3>2 DEF MediaInv
    <3>. QED BY <3>3 DEF AttemptOK
  <2>3. swept => objects \subseteq {media.result} BY <2>1 DEF SweptOK
  <2>. QED BY <2>2, <2>3 DEF MediaIsSound, ResultIsKept, RecoveryIsComplete
<1>. QED BY <1>1, MediaInvariant, PTL
=============================================================================
