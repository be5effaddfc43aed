-------------------------- MODULE TaskStoreProofs --------------------------
(***************************************************************************)
(* Theorems about the job table of TaskStore.tla, for every set of ids,    *)
(* keys and payloads, every budget, lease, lifetime and retry policy, and  *)
(* every disagreement of the hosts' clocks.                                *)
(*                                                                         *)
(* Each database statement rewrites rows one by one, so the inductive      *)
(* invariant is a predicate on one row and its log (JobOK); a lemma per    *)
(* row transformation shows that it is kept, and the theorem about the     *)
(* table only has to say which rows a call touches.                        *)
(***************************************************************************)
EXTENDS TaskStore, SequenceTheorems, TLAPS

(* The part of the invariant about one row and the log of its attempts.    *)
RowOK(row) ==
  /\ row.state = "running" => 0 < row.lease /\ row.lease <= row.expires
  /\ row.state # "running" => row.lease = NULL /\ row.expires = NULL
  /\ row.attempt <= row.max
  /\ row.state = "pending" => row.attempt < row.max
  /\ row.state = "running" => row.attempt > 0
  /\ row.state = "failed" => row.attempt = row.max
  /\ row.cancel => row.state \in {"running", "cancelled"}
  /\ row.state = "cancelled" => row.cancel
  /\ row.state = "absent" => row = NoRow

LogOK(row, lg) ==
  /\ Len(lg) = IF row.state = "running" THEN row.attempt - 1 ELSE row.attempt
  /\ \A n \in 1..Len(lg) : lg[n][1] = n
  /\ row.state = "succeeded" => Len(lg) > 0 /\ lg[Len(lg)][2]
  /\ \A n \in 1..Len(lg) :
       lg[n][2] => n = Len(lg) /\ row.state \in {"succeeded", "cancelled"}

JobOK(row, lg) == RowOK(row) /\ LogOK(row, lg)

JobLog == Seq(Nat \X BOOLEAN)

(* The inductive invariant of the whole table.                             *)
StoreInv == /\ StoreTypeOK
            /\ \A j \in JobIds : JobOK(jobs[j], log[j])
            /\ DedupStable

-----------------------------------------------------------------------------

(* The exponential, capped retry delay of retryDelay is a number of        *)
(* seconds: no attempt makes it negative or leaves its range.              *)
LEMMA DelayIsNat == ASSUME NEW n \in Nat, n > 0 PROVE RetryDelay(n) \in Nat
  <1>1. Lesser(n - 1, ShiftCap) \in 0..ShiftCap
    BY DelayAssumption DEF Lesser
  <1>2. ShiftLeft(Lesser(n - 1, ShiftCap)) \in Nat
    BY <1>1, DelayAssumption
  <1>3. Greater(DelaySeconds, 1) \in Nat
    BY DelayAssumption DEF Greater
  <1>. DEFINE g == Greater(DelaySeconds, 1)
              s == ShiftLeft(Lesser(n - 1, ShiftCap))
  <1>4. \A a, b \in Nat : a * b \in Nat
    OBVIOUS
  <1>5. g * s \in Nat
    BY <1>2, <1>3, <1>4
  <1>6. \A a, b \in Nat : Lesser(a, b) \in Nat
    BY DEF Lesser
  <1>. QED BY <1>5, <1>6, DelayAssumption DEF RetryDelay

(* What appending one more ended attempt does to a job's log.              *)
LEMMA LogAppend ==
  ASSUME NEW lg \in JobLog, NEW a \in Nat, NEW ok \in BOOLEAN
  PROVE  /\ Append(lg, <<a, ok>>) \in JobLog
         /\ Len(Append(lg, <<a, ok>>)) = Len(lg) + 1
         /\ \A n \in 1..Len(lg) : Append(lg, <<a, ok>>)[n] = lg[n]
         /\ Append(lg, <<a, ok>>)[Len(lg) + 1] = <<a, ok>>
  <1>1. <<a, ok>> \in Nat \X BOOLEAN
    OBVIOUS
  <1>. QED BY <1>1, AppendProperties DEF JobLog

(* The end of an attempt, seen from its log: a running row's log grows by  *)
(* its own attempt and describes whatever state the row is left in.        *)
LEMMA LogGrows ==
  ASSUME NEW row \in Row, NEW lg \in JobLog, NEW ok \in BOOLEAN, NEW new \in Row,
         LogOK(row, lg), row.state = "running", row.attempt > 0,
         new.attempt = row.attempt, new.state # "running",
         new.state = "succeeded" => ok,
         ok => new.state \in {"succeeded", "cancelled"}
  PROVE  LogOK(new, Append(lg, <<row.attempt, ok>>))
  <1>. DEFINE a == row.attempt
              more == Append(lg, <<a, ok>>)
  <1>1. /\ a \in Nat /\ Len(lg) = a - 1 /\ Len(lg) \in Nat
    BY LenProperties DEF LogOK, Row, JobLog
  <1>2. /\ Len(more) = Len(lg) + 1
        /\ \A n \in 1..Len(lg) : more[n] = lg[n]
        /\ more[Len(lg) + 1] = <<a, ok>>
    BY <1>1, LogAppend
  <1>3. Len(more) = a /\ more[a] = <<a, ok>>
    BY <1>1, <1>2
  <1>4. <<a, ok>>[1] = a /\ <<a, ok>>[2] = ok
    OBVIOUS
  <1>5. \A n \in 1..Len(more) : n = a \/ n \in 1..Len(lg)
    BY <1>1, <1>3
  <1>6. \A n \in 1..Len(more) : more[n][1] = n
    BY <1>2, <1>3, <1>4, <1>5 DEF LogOK
  <1>7. \A n \in 1..Len(lg) : ~more[n][2]
    BY <1>2 DEF LogOK
  <1>8. \A n \in 1..Len(more) : more[n][2] => n = a /\ ok
    BY <1>3, <1>4, <1>5, <1>7
  <1>. QED
    <2>1. Len(more) = IF new.state = "running" THEN new.attempt - 1 ELSE new.attempt
      BY <1>3
    <2>2. new.state = "succeeded" => Len(more) > 0 /\ more[Len(more)][2]
      BY <1>3, <1>4
    <2>3. \A n \in 1..Len(more) :
            more[n][2] => n = Len(more) /\ new.state \in {"succeeded", "cancelled"}
      BY <1>3, <1>8
    <2>. QED BY <2>1, <2>2, <2>3, <1>6 DEF LogOK

(* Recovery of an overdue row (the first statement of fetch).              *)
LEMMA RecoveredOK ==
  ASSUME NEW row \in Row, NEW lg \in JobLog, NEW t \in Nat,
         JobOK(row, lg), row.state = "running"
  PROVE  /\ Recovered(row, t) \in Row
         /\ JobOK(Recovered(row, t), Append(lg, <<row.attempt, FALSE>>))
         /\ Append(lg, <<row.attempt, FALSE>>) \in JobLog
  <1>1. row.attempt \in Nat /\ row.attempt > 0 /\ row.runAt \in Nat /\ row.max \in Nat
    BY DEF Row, JobOK, RowOK
  <1>2. t + RetryDelay(row.attempt) \in Nat
    BY <1>1, DelayIsNat
  <1>3. Recovered(row, t) \in Row
    BY <1>1, <1>2 DEF Recovered, Row, JobState, NULL
  <1>4. RowOK(Recovered(row, t))
    BY <1>1 DEF Recovered, JobOK, RowOK, NULL, Row
  <1>5. LogOK(Recovered(row, t), Append(lg, <<row.attempt, FALSE>>))
    <2>1. /\ Recovered(row, t).attempt = row.attempt
          /\ Recovered(row, t).state \notin {"running", "succeeded"}
      BY DEF Recovered, Row
    <2>. QED BY <1>1, <1>3, <2>1, LogGrows DEF JobOK
  <1>. QED BY <1>1, <1>3, <1>4, <1>5, LogAppend DEF JobOK

(* The claim of a due row (the second statement of fetch).                 *)
LEMMA ClaimedOK ==
  ASSUME NEW row \in Row, NEW lg \in JobLog, NEW t \in Nat,
         JobOK(row, lg), Due(row, t)
  PROVE  Claimed(row, t) \in Row /\ JobOK(Claimed(row, t), lg)
  <1>1. /\ row.attempt \in Nat /\ row.max \in Nat
        /\ row.state = "pending" /\ ~row.cancel /\ row.attempt < row.max
    BY DEF Row, Due
  <1>2. LET l == Lesser(LeaseMs, ExpireInMs)
        IN l \in Nat /\ 0 < l /\ l <= ExpireInMs /\ ExpireInMs \in Nat
    BY LeaseAssumption DEF Lesser
  <1>3. Claimed(row, t) \in Row
    <2>1. /\ row.attempt + 1 \in Nat
          /\ t + Lesser(LeaseMs, ExpireInMs) \in Nat /\ t + ExpireInMs \in Nat
      BY <1>1, <1>2
    <2>. QED BY <2>1 DEF Claimed, Row, JobState
  <1>4. RowOK(Claimed(row, t))
    BY <1>1, <1>2 DEF Claimed, RowOK, Row
  <1>5. LogOK(Claimed(row, t), lg)
    <2>1. /\ Claimed(row, t).attempt = row.attempt + 1
          /\ Claimed(row, t).state = "running"
      BY DEF Claimed, Row
    <2>2. Len(lg) = Claimed(row, t).attempt - 1
      BY <1>1, <2>1 DEF JobOK, LogOK
    <2>3. \A n \in 1..Len(lg) : ~lg[n][2]
      BY <1>1 DEF JobOK, LogOK
    <2>. QED BY <2>1, <2>2, <2>3 DEF JobOK, LogOK
  <1>. QED BY <1>3, <1>4, <1>5 DEF JobOK

(* A heartbeat on a fenced row.                                            *)
LEMMA PulsedOK ==
  ASSUME NEW row \in Row, NEW lg \in JobLog, NEW t \in Nat,
         JobOK(row, lg), row.state = "running", row.expires > t
  PROVE  Pulsed(row, t) \in Row /\ JobOK(Pulsed(row, t), lg)
  <1>1. LET l == Lesser(t + LeaseMs, row.expires)
        IN l \in Nat /\ 0 < l /\ l <= row.expires
    BY LeaseAssumption DEF Lesser, Row
  <1>2. Pulsed(row, t) \in Row
    BY <1>1 DEF Pulsed, Row
  <1>3. RowOK(Pulsed(row, t))
    BY <1>1 DEF Pulsed, Row, JobOK, RowOK
  <1>4. Pulsed(row, t).state = row.state /\ Pulsed(row, t).attempt = row.attempt
    BY DEF Pulsed, Row
  <1>5. LogOK(Pulsed(row, t), lg)
    BY <1>4 DEF JobOK, LogOK
  <1>. QED BY <1>2, <1>3, <1>5 DEF JobOK

(* The settlement of a fenced row.                                         *)
LEMMA SettledOK ==
  ASSUME NEW row \in Row, NEW lg \in JobLog, NEW ok \in BOOLEAN, NEW t \in Nat,
         JobOK(row, lg), row.state = "running"
  PROVE  /\ Settled(row, ok, t) \in Row
         /\ JobOK(Settled(row, ok, t), Append(lg, <<row.attempt, ok>>))
         /\ Append(lg, <<row.attempt, ok>>) \in JobLog
  <1>1. row.attempt \in Nat /\ row.attempt > 0 /\ row.runAt \in Nat /\ row.max \in Nat
    BY DEF Row, JobOK, RowOK
  <1>2. t + RetryDelay(row.attempt) \in Nat
    BY <1>1, DelayIsNat
  <1>3. Settled(row, ok, t) \in Row
    BY <1>1, <1>2 DEF Settled, Row, JobState, NULL
  <1>4. RowOK(Settled(row, ok, t))
    BY <1>1 DEF Settled, JobOK, RowOK, NULL, Row
  <1>5. LogOK(Settled(row, ok, t), Append(lg, <<row.attempt, ok>>))
    <2>1. /\ Settled(row, ok, t).attempt = row.attempt
          /\ Settled(row, ok, t).state # "running"
          /\ Settled(row, ok, t).state = "succeeded" => ok
          /\ ok => Settled(row, ok, t).state \in {"succeeded", "cancelled"}
      BY DEF Settled, Row
    <2>. QED BY <1>1, <1>3, <2>1, LogGrows DEF JobOK
  <1>. QED BY <1>1, <1>3, <1>4, <1>5, LogAppend DEF JobOK

(* Cancellation of a pending or running row.                               *)
LEMMA CancelRowOK ==
  ASSUME NEW row \in Row, NEW lg \in JobLog,
         JobOK(row, lg), row.state \in {"pending", "running"}
  PROVE  CancelRow(row) \in Row /\ JobOK(CancelRow(row), lg)
  <1>1. CancelRow(row) \in Row
    BY DEF CancelRow, Row, JobState, NULL
  <1>2. RowOK(CancelRow(row))
    BY DEF CancelRow, Row, JobOK, RowOK, NULL
  <1>3. /\ CancelRow(row).attempt = row.attempt
        /\ CancelRow(row).state \in {"running", "cancelled"}
        /\ CancelRow(row).state = "running" <=> row.state = "running"
    BY DEF CancelRow, Row
  <1>4. LogOK(CancelRow(row), lg)
    BY <1>3 DEF JobOK, LogOK
  <1>. QED BY <1>1, <1>2, <1>4 DEF JobOK

(* An operator's retry of a failed row.                                    *)
LEMMA RetryRowOK ==
  ASSUME NEW row \in Row, NEW lg \in JobLog, NEW t \in Nat,
         JobOK(row, lg), row.state = "failed"
  PROVE  RetryRow(row, t) \in Row /\ JobOK(RetryRow(row, t), lg)
  <1>1. RetryRow(row, t) \in Row
    <2>1. row.max + 1 \in Nat
      BY DEF Row
    <2>. QED BY <2>1 DEF RetryRow, Row, JobState, NULL
  <1>2. RowOK(RetryRow(row, t))
    BY DEF RetryRow, Row, JobOK, RowOK, NULL
  <1>3. RetryRow(row, t).attempt = row.attempt /\ RetryRow(row, t).state = "pending"
    BY DEF RetryRow, Row
  <1>4. LogOK(RetryRow(row, t), lg)
    BY <1>3 DEF JobOK, LogOK
  <1>. QED BY <1>1, <1>2, <1>4 DEF JobOK

(* A freshly inserted row.                                                 *)
LEMMA NewRowOK ==
  ASSUME NEW lg \in JobLog, NEW t \in Nat, NEW key \in Keys \cup {NoKey},
         NEW payload \in Payloads, JobOK(NoRow, lg)
  PROVE  NewRow(key, payload, t) \in Row /\ JobOK(NewRow(key, payload, t), lg)
  <1>1. NewRow(key, payload, t) \in Row
    BY BudgetAssumption DEF NewRow, NoRow, Row, JobState, NULL
  <1>2. RowOK(NewRow(key, payload, t))
    BY BudgetAssumption DEF NewRow, NoRow, RowOK, NULL
  <1>3. /\ NewRow(key, payload, t).attempt = NoRow.attempt
        /\ NewRow(key, payload, t).state = "pending"
        /\ NoRow.state = "absent"
    BY DEF NewRow, NoRow
  <1>4. LogOK(NewRow(key, payload, t), lg)
    BY <1>3 DEF JobOK, LogOK
  <1>. QED BY <1>1, <1>2, <1>4 DEF JobOK

-----------------------------------------------------------------------------

(* A row's identity: what enqueue wrote and no other statement may change. *)
SameJob(old, new) == /\ new.payload = old.payload
                     /\ new.key = old.key
                     /\ new.state = "absent" <=> old.state = "absent"

(* Every statement but enqueue's insert keeps the identity of the row.     *)
LEMMA IdentityKept ==
  ASSUME NEW row \in Row, NEW t \in Nat, NEW ok \in BOOLEAN, row.state # "absent"
  PROVE  /\ SameJob(row, Recovered(row, t))
         /\ SameJob(row, Claimed(row, t))
         /\ SameJob(row, Pulsed(row, t))
         /\ SameJob(row, Settled(row, ok, t))
         /\ SameJob(row, CancelRow(row))
         /\ SameJob(row, RetryRow(row, t))
  <1>1. SameJob(row, Recovered(row, t))
    BY DEF SameJob, Recovered, Row
  <1>2. SameJob(row, Claimed(row, t))
    BY DEF SameJob, Claimed, Row
  <1>3. SameJob(row, Pulsed(row, t))
    BY DEF SameJob, Pulsed, Row
  <1>4. SameJob(row, Settled(row, ok, t))
    BY DEF SameJob, Settled, Row
  <1>5. SameJob(row, CancelRow(row))
    BY DEF SameJob, CancelRow, Row
  <1>6. SameJob(row, RetryRow(row, t))
    BY DEF SameJob, RetryRow, Row
  <1>. QED BY <1>1, <1>2, <1>3, <1>4, <1>5, <1>6

(* A call that keeps every identity and answers no producer keeps the      *)
(* meaning of every key.                                                   *)
LEMMA DedupKept ==
  ASSUME DedupStable, StoreTypeOK, replies' = replies,
         \A j \in JobIds : SameJob(jobs[j], jobs'[j])
  PROVE  DedupStable'
  <1>1. \A r \in replies : r[3] \in JobIds
    BY DEF StoreTypeOK
  <1>2. \A r \in replies : SameJob(jobs[r[3]], jobs'[r[3]])
    BY <1>1
  <1>3. \A r \in replies' : /\ jobs'[r[3]].state # "absent"
                            /\ jobs'[r[3]].payload = r[2]
                            /\ jobs'[r[3]].key = r[1]
    BY <1>2 DEF DedupStable, SameJob
  <1>4. \A i, j \in JobIds : jobs'[i].key = jobs'[j].key /\ jobs'[i].key # NoKey => i = j
    BY DEF DedupStable, SameJob
  <1>. QED BY <1>3, <1>4 DEF DedupStable

(* A fetch claims only due rows, and its recovered table is well formed.   *)
LEMMA FetchOK ==
  ASSUME StoreInv, NEW t \in HostTimes, NEW claims \in SUBSET JobIds, Fetch(t, claims)
  PROVE  StoreInv'
  <1>. DEFINE table == RecoverAll(t)
  <1>t. t \in Nat
    BY DEF HostTimes
  <1>1. \A j \in JobIds : /\ table[j] \in Row
                          /\ log'[j] \in JobLog
                          /\ JobOK(table[j], log'[j])
                          /\ SameJob(jobs[j], table[j])
    <2>. SUFFICES ASSUME NEW j \in JobIds
                  PROVE  /\ table[j] \in Row /\ log'[j] \in JobLog
                         /\ JobOK(table[j], log'[j]) /\ SameJob(jobs[j], table[j])
      OBVIOUS
    <2>1. jobs[j] \in Row /\ log[j] \in JobLog /\ JobOK(jobs[j], log[j])
      BY DEF StoreInv, StoreTypeOK, JobLog
    <2>2. CASE Overdue(jobs[j], t)
      <3>1. table[j] = Recovered(jobs[j], t) /\ log'[j] = Append(log[j], <<jobs[j].attempt, FALSE>>)
        BY <2>2 DEF RecoverAll, Fetch, LogRecovered
      <3>2. jobs[j].state = "running"
        BY <2>2 DEF Overdue
      <3>. QED BY <1>t, <2>1, <3>1, <3>2, RecoveredOK, IdentityKept
    <2>3. CASE ~Overdue(jobs[j], t)
      <3>1. table[j] = jobs[j] /\ log'[j] = log[j]
        BY <2>3 DEF RecoverAll, Fetch, LogRecovered
      <3>. QED BY <2>1, <3>1 DEF SameJob
    <2>. QED BY <2>2, <2>3
  <1>2. \A j \in JobIds : /\ jobs'[j] \in Row
                          /\ JobOK(jobs'[j], log'[j])
                          /\ SameJob(jobs[j], jobs'[j])
    <2>. SUFFICES ASSUME NEW j \in JobIds
                  PROVE  /\ jobs'[j] \in Row
                         /\ JobOK(jobs'[j], log'[j]) /\ SameJob(jobs[j], jobs'[j])
      OBVIOUS
    <2>1. CASE j \in claims
      <3>1. jobs'[j] = Claimed(table[j], t) /\ Due(table[j], t)
        BY <2>1 DEF Fetch, FirstDue
      <3>2. table[j].state # "absent"
        BY <3>1 DEF Due
      <3>3. SameJob(table[j], Claimed(table[j], t))
        BY <1>1, <1>t, <3>2, IdentityKept
      <3>. QED BY <1>1, <1>t, <3>1, <3>3, ClaimedOK DEF SameJob
    <2>2. CASE j \notin claims
      BY <1>1, <2>2 DEF Fetch
    <2>. QED BY <2>1, <2>2
  <1>3. StoreTypeOK'
    <2>1. jobs' \in [JobIds -> Row]
      BY <1>2 DEF Fetch
    <2>2. log' \in [JobIds -> JobLog]
      BY <1>1 DEF Fetch, LogRecovered
    <2>. QED BY <2>1, <2>2 DEF StoreInv, StoreTypeOK, Fetch, JobLog
  <1>4. DedupStable'
    BY <1>2, DedupKept DEF StoreInv, Fetch
  <1>. QED BY <1>2, <1>3, <1>4 DEF StoreInv

(* A call that rewrites one existing row, keeping its identity and leaving *)
(* it well formed together with its log, keeps the invariant.              *)
LEMMA OneRowOK ==
  ASSUME StoreInv, NEW j \in JobIds, NEW row \in Row, NEW lg \in JobLog,
         JobOK(row, lg), SameJob(jobs[j], row),
         jobs' = [jobs EXCEPT ![j] = row], log' = [log EXCEPT ![j] = lg],
         UNCHANGED <<clock, replies>>
  PROVE  StoreInv'
  <1>1. StoreTypeOK'
    BY DEF StoreInv, StoreTypeOK, JobLog
  <1>2. \A i \in JobIds : JobOK(jobs'[i], log'[i]) /\ SameJob(jobs[i], jobs'[i])
    <2>1. jobs \in [JobIds -> Row] /\ log \in [JobIds -> JobLog]
      BY DEF StoreInv, StoreTypeOK, JobLog
    <2>2. jobs'[j] = row /\ log'[j] = lg
      BY <2>1
    <2>3. \A i \in JobIds \ {j} : jobs'[i] = jobs[i] /\ log'[i] = log[i]
      BY <2>1
    <2>. QED BY <2>2, <2>3 DEF StoreInv, SameJob
  <1>3. DedupStable'
    BY <1>2, DedupKept DEF StoreInv
  <1>. QED BY <1>1, <1>2, <1>3 DEF StoreInv

(* Heartbeats keep the invariant, current or superseded.                   *)
LEMMA PulseOK ==
  ASSUME StoreInv, NEW t \in HostTimes, NEW j \in JobIds, NEW a \in Nat, Pulse(j, a, t)
  PROVE  StoreInv'
  <1>1. t \in Nat /\ jobs[j] \in Row /\ log[j] \in JobLog /\ JobOK(jobs[j], log[j])
    BY DEF HostTimes, StoreInv, StoreTypeOK, JobLog
  <1>2. CASE Fence(j, a, t)
    <2>1. jobs[j].state = "running" /\ jobs[j].expires > t
      BY <1>2 DEF Fence
    <2>2. log' = [log EXCEPT ![j] = log[j]]
      BY DEF Pulse, StoreInv, StoreTypeOK
    <2>3. Pulsed(jobs[j], t) \in Row /\ JobOK(Pulsed(jobs[j], t), log[j])
      BY <1>1, <2>1, PulsedOK
    <2>4. SameJob(jobs[j], Pulsed(jobs[j], t))
      BY <1>1, <2>1, IdentityKept
    <2>5. jobs' = [jobs EXCEPT ![j] = Pulsed(jobs[j], t)] /\ UNCHANGED <<clock, replies>>
      BY <1>2 DEF Pulse
    <2>. QED BY <1>1, <2>2, <2>3, <2>4, <2>5, OneRowOK
  <1>3. CASE ~Fence(j, a, t)
    BY <1>3 DEF Pulse, StoreInv, StoreTypeOK, DedupStable
  <1>. QED BY <1>2, <1>3

(* Settlements keep the invariant, current or superseded.                  *)
LEMMA SettleOK ==
  ASSUME StoreInv, NEW t \in HostTimes, NEW j \in JobIds, NEW a \in Nat,
         NEW ok \in BOOLEAN, Settle(j, a, ok, t)
  PROVE  StoreInv'
  <1>1. t \in Nat /\ jobs[j] \in Row /\ log[j] \in JobLog /\ JobOK(jobs[j], log[j])
    BY DEF HostTimes, StoreInv, StoreTypeOK, JobLog
  <1>2. CASE Fence(j, a, t)
    <2>1. jobs[j].state = "running" /\ jobs[j].attempt = a
      BY <1>2 DEF Fence
    <2>. DEFINE row == Settled(jobs[j], ok, t)
                lg == Append(log[j], <<a, ok>>)
    <2>2. row \in Row /\ lg \in JobLog /\ JobOK(row, lg)
      BY <1>1, <2>1, SettledOK
    <2>3. SameJob(jobs[j], row)
      BY <1>1, <2>1, IdentityKept
    <2>4. /\ jobs' = [jobs EXCEPT ![j] = row] /\ log' = [log EXCEPT ![j] = lg]
          /\ UNCHANGED <<clock, replies>>
      BY <1>2 DEF Settle
    <2>. QED BY <2>2, <2>3, <2>4, OneRowOK
  <1>3. CASE ~Fence(j, a, t)
    BY <1>3 DEF Settle, StoreInv, StoreTypeOK, DedupStable
  <1>. QED BY <1>2, <1>3

(* Cancellation keeps the invariant.                                       *)
LEMMA CancelOK ==
  ASSUME StoreInv, NEW j \in JobIds, Cancel(j)
  PROVE  StoreInv'
  <1>1. jobs[j] \in Row /\ log[j] \in JobLog /\ JobOK(jobs[j], log[j]) /\ 0 \in Nat /\ TRUE \in BOOLEAN
    BY DEF StoreInv, StoreTypeOK, JobLog
  <1>2. jobs[j].state \in {"pending", "running"} /\ jobs[j].state # "absent"
    BY DEF Cancel
  <1>3. log' = [log EXCEPT ![j] = log[j]]
    BY DEF Cancel, StoreInv, StoreTypeOK
  <1>4. CancelRow(jobs[j]) \in Row /\ JobOK(CancelRow(jobs[j]), log[j])
    BY <1>1, <1>2, CancelRowOK
  <1>5. SameJob(jobs[j], CancelRow(jobs[j]))
    BY <1>1, <1>2, IdentityKept
  <1>6. jobs' = [jobs EXCEPT ![j] = CancelRow(jobs[j])] /\ UNCHANGED <<clock, replies>>
    BY DEF Cancel
  <1>. QED BY <1>1, <1>3, <1>4, <1>5, <1>6, OneRowOK

(* An operator's retry keeps the invariant.                                *)
LEMMA RetryOK ==
  ASSUME StoreInv, NEW j \in JobIds, NEW t \in HostTimes, Retry(j, t)
  PROVE  StoreInv'
  <1>1. t \in Nat /\ jobs[j] \in Row /\ log[j] \in JobLog /\ JobOK(jobs[j], log[j]) /\ TRUE \in BOOLEAN
    BY DEF HostTimes, StoreInv, StoreTypeOK, JobLog
  <1>2. jobs[j].state = "failed"
    BY DEF Retry
  <1>3. log' = [log EXCEPT ![j] = log[j]]
    BY DEF Retry, StoreInv, StoreTypeOK
  <1>4. RetryRow(jobs[j], t) \in Row /\ JobOK(RetryRow(jobs[j], t), log[j])
    BY <1>1, <1>2, RetryRowOK
  <1>5. SameJob(jobs[j], RetryRow(jobs[j], t))
    BY <1>1, <1>2, IdentityKept
  <1>6. jobs' = [jobs EXCEPT ![j] = RetryRow(jobs[j], t)] /\ UNCHANGED <<clock, replies>>
    BY DEF Retry
  <1>. QED BY <1>1, <1>3, <1>4, <1>5, <1>6, OneRowOK

(* Enqueue keeps the invariant: an insert only under an unused key, an     *)
(* answer only for the stored job that runs the same payload.              *)
LEMMA EnqueueOK ==
  ASSUME StoreInv, NEW id \in JobIds, NEW key \in Keys \cup {NoKey},
         NEW payload \in Payloads, NEW runAt \in Nat, Enqueue(id, key, payload, runAt)
  PROVE  StoreInv'
  <1>1. /\ jobs \in [JobIds -> Row] /\ log \in [JobIds -> JobLog]
        /\ \A j \in JobIds : JobOK(jobs[j], log[j])
        /\ replies \subseteq (Keys \cup {NoKey}) \X Payloads \X JobIds
        /\ clock' = clock /\ log' = log /\ jobs[id].state = "absent"
    BY DEF StoreInv, StoreTypeOK, JobLog, Enqueue
  <1>2. CASE Stored(key) = {}
    <2>. DEFINE row == NewRow(key, payload, runAt)
    <2>1. jobs' = [jobs EXCEPT ![id] = row] /\ replies' = replies \cup {<<key, payload, id>>}
      BY <1>2 DEF Enqueue
    <2>2. jobs[id] = NoRow
      BY <1>1 DEF JobOK, RowOK
    <2>3. row \in Row /\ JobOK(row, log[id])
      BY <1>1, <2>2, NewRowOK
    <2>4. row.state = "pending" /\ row.key = key /\ row.payload = payload
      BY DEF NewRow, NoRow
    <2>5. jobs'[id] = row /\ \A j \in JobIds \ {id} : jobs'[j] = jobs[j]
      BY <1>1, <2>1
    <2>6. StoreTypeOK'
      BY <1>1, <2>1, <2>3 DEF StoreInv, StoreTypeOK, JobLog
    <2>7. \A j \in JobIds : JobOK(jobs'[j], log'[j])
      BY <1>1, <2>3, <2>5
    <2>8. \A r \in replies' : /\ jobs'[r[3]].state # "absent"
                              /\ jobs'[r[3]].payload = r[2]
                              /\ jobs'[r[3]].key = r[1]
      <3>1. \A r \in replies : /\ r[3] \in JobIds \ {id}
                               /\ jobs[r[3]].state # "absent"
                               /\ jobs[r[3]].payload = r[2]
                               /\ jobs[r[3]].key = r[1]
        BY <1>1 DEF StoreInv, DedupStable
      <3>2. \A r \in replies : jobs'[r[3]] = jobs[r[3]]
        BY <3>1, <2>5
      <3>. QED BY <2>1, <2>4, <2>5, <3>1, <3>2
    <2>9. \A i, j \in JobIds : jobs'[i].key = jobs'[j].key /\ jobs'[i].key # NoKey => i = j
      <3>1. key # NoKey => \A j \in JobIds : jobs[j].key # key
        BY <1>2 DEF Stored
      <3>. QED BY <2>4, <2>5, <3>1 DEF StoreInv, DedupStable
    <2>. QED BY <2>6, <2>7, <2>8, <2>9 DEF StoreInv, DedupStable
  <1>3. CASE Stored(key) # {}
    <2>1. jobs' = jobs
      BY <1>3 DEF Enqueue
    <2>. DEFINE same == {i \in Stored(key) : jobs[i].payload = payload}
    <2>2. replies' = replies \cup {<<key, payload, j>> : j \in same}
      BY <1>3 DEF Enqueue
    <2>3. \A j \in same : j \in JobIds /\ jobs[j].payload = payload /\ jobs[j].key = key /\ key # NoKey
      BY DEF Stored
    <2>4. \A j \in same : jobs[j].state # "absent"
      <3>1. NoRow.key = NoKey
        BY DEF NoRow
      <3>. QED BY <1>1, <2>3, <3>1 DEF JobOK, RowOK
    <2>5. replies' \subseteq (Keys \cup {NoKey}) \X Payloads \X JobIds
      BY <1>1, <2>2, <2>3
    <2>6. \A r \in replies' : /\ jobs'[r[3]].state # "absent"
                              /\ jobs'[r[3]].payload = r[2]
                              /\ jobs'[r[3]].key = r[1]
      BY <2>1, <2>2, <2>3, <2>4 DEF StoreInv, DedupStable
    <2>7. \A i, j \in JobIds : jobs'[i].key = jobs'[j].key /\ jobs'[i].key # NoKey => i = j
      BY <2>1 DEF StoreInv, DedupStable
    <2>. QED BY <1>1, <2>1, <2>5, <2>6, <2>7 DEF StoreInv, StoreTypeOK, DedupStable, JobLog
  <1>. QED BY <1>2, <1>3

-----------------------------------------------------------------------------

(* The empty table satisfies the invariant.                                *)
LEMMA InitOK == StoreInit => StoreInv
  <1>. SUFFICES ASSUME StoreInit PROVE StoreInv
    OBVIOUS
  <1>1. NoRow \in Row
    BY DEF NoRow, Row, JobState, NULL
  <1>2. <<>> \in JobLog /\ Len(<<>>) = 0
    BY EmptySeq DEF JobLog
  <1>3. StoreTypeOK
    BY <1>1, <1>2, TimeAssumption DEF StoreInit, StoreTypeOK, JobLog
  <1>4. RowOK(NoRow)
    BY DEF RowOK, NoRow, NULL
  <1>5. LogOK(NoRow, <<>>)
    <2>1. NoRow.state = "absent" /\ NoRow.attempt = 0
      BY DEF NoRow
    <2>. QED BY <1>2, <2>1 DEF LogOK
  <1>6. NoRow.key = NoKey
    BY DEF NoRow
  <1>7. DedupStable
    BY <1>6 DEF StoreInit, DedupStable
  <1>. QED BY <1>3, <1>4, <1>5, <1>7 DEF StoreInit, StoreInv, JobOK

(* Every call keeps it.                                                    *)
LEMMA StepOK == StoreInv /\ [StoreNext]_storeVars => StoreInv'
  <1>. SUFFICES ASSUME StoreInv, [StoreNext]_storeVars PROVE StoreInv'
    OBVIOUS
  <1>1. CASE Tick
    BY <1>1 DEF Tick, StoreInv, StoreTypeOK, DedupStable
  <1>2. CASE SomeFetch
    BY <1>2, FetchOK DEF SomeFetch
  <1>3. CASE SomePulse
    <2>1. PICK t \in HostTimes, j \in JobIds : \E a \in 1..jobs[j].attempt : Pulse(j, a, t)
      BY <1>3 DEF SomePulse
    <2>2. PICK a \in 1..jobs[j].attempt : Pulse(j, a, t)
      BY <2>1
    <2>3. a \in Nat
      BY DEF StoreInv, StoreTypeOK, Row
    <2>. QED BY <2>2, <2>3, PulseOK
  <1>4. CASE SomeSettle
    <2>1. PICK t \in HostTimes, j \in JobIds, ok \in BOOLEAN :
            \E a \in 1..jobs[j].attempt : Settle(j, a, ok, t)
      BY <1>4 DEF SomeSettle
    <2>2. PICK a \in 1..jobs[j].attempt : Settle(j, a, ok, t)
      BY <2>1
    <2>3. a \in Nat
      BY DEF StoreInv, StoreTypeOK, Row
    <2>. QED BY <2>2, <2>3, SettleOK
  <1>5. CASE SomeEnqueue
    <2>1. \A t \in HostTimes, d \in RunDelays : t + d \in Nat
      BY TimeAssumption DEF HostTimes
    <2>. QED BY <1>5, <2>1, EnqueueOK DEF SomeEnqueue
  <1>6. CASE SomeCancel
    BY <1>6, CancelOK DEF SomeCancel
  <1>7. CASE SomeRetry
    BY <1>7, RetryOK DEF SomeRetry
  <1>8. CASE UNCHANGED storeVars
    BY <1>8 DEF storeVars, StoreInv, StoreTypeOK, DedupStable
  <1>. QED BY <1>1, <1>2, <1>3, <1>4, <1>5, <1>6, <1>7, <1>8 DEF StoreNext

(* StoreInv holds throughout every behaviour of the store.                 *)
THEOREM StoreInvariant == StoreSpec => []StoreInv
  BY InitOK, StepOK, PTL DEF StoreSpec

(* The job table keeps its type (every column of lenso_d1_task_job).       *)
THEOREM StoreTyping == StoreSpec => []StoreTypeOK
  <1>1. StoreInv => StoreTypeOK
    BY DEF StoreInv
  <1>. QED BY <1>1, StoreInvariant, PTL

(* Leases and budgets are disciplined, for every provider configuration.   *)
THEOREM LeasesDisciplined == StoreSpec => []LeaseDiscipline
  <1>1. StoreInv => LeaseDiscipline
    BY DEF StoreInv, JobOK, RowOK, LeaseDiscipline
  <1>. QED BY <1>1, StoreInvariant, PTL

(* No attempt ends twice, none is forgotten, whoever calls settle or fetch *)
(* and however stale their clocks are.                                     *)
THEOREM EveryAttemptEndsOnce == StoreSpec => []AttemptsEndOnce
  <1>1. StoreInv => AttemptsEndOnce
    BY DEF StoreInv, JobOK, LogOK, AttemptsEndOnce
  <1>. QED BY <1>1, StoreInvariant, PTL

(* A terminal state reports what the attempts did.                         *)
THEOREM OutcomesHonest == StoreSpec => []OutcomeIsHonest
  <1>1. StoreInv => OutcomeIsHonest
    BY DEF StoreInv, JobOK, RowOK, LogOK, OutcomeIsHonest
  <1>. QED BY <1>1, StoreInvariant, PTL

(* An accepted cancellation is never outrun.                               *)
THEOREM CancellationWins == StoreSpec => []CancelWins
  <1>1. StoreInv => CancelWins
    BY DEF StoreInv, JobOK, RowOK, CancelWins
  <1>. QED BY <1>1, StoreInvariant, PTL

(* A deduplication key names one job, for all callers of enqueue.          *)
THEOREM DeduplicationStable == StoreSpec => []DedupStable
  <1>1. StoreInv => DedupStable
    BY DEF StoreInv
  <1>. QED BY <1>1, StoreInvariant, PTL

-----------------------------------------------------------------------------

(* The abstract move of one job, as a relation between its two rows.       *)
Moved(old, new) ==
  \/ new.state = old.state /\ new.attempt = old.attempt
     /\ new.max = old.max /\ new.cancel = old.cancel
  \/ /\ old.state = "absent" /\ new.state = "pending"
     /\ new.attempt = old.attempt /\ new.max > old.attempt /\ new.cancel = FALSE
  \/ /\ old.state = "pending" /\ ~old.cancel /\ old.attempt < old.max
     /\ new.state = "running" /\ new.attempt = old.attempt + 1
     /\ new.max = old.max /\ new.cancel = FALSE
  \/ /\ old.state = "running" /\ ~old.cancel /\ new.state = "succeeded"
     /\ new.attempt = old.attempt /\ new.max = old.max /\ new.cancel = FALSE
  \/ /\ old.state = "running" /\ ~old.cancel
     /\ new.state = IF old.attempt < old.max THEN "pending" ELSE "failed"
     /\ new.attempt = old.attempt /\ new.max = old.max /\ new.cancel = FALSE
  \/ /\ old.state = "running" /\ ~old.cancel /\ old.attempt < old.max
     /\ new.state = "running" /\ new.attempt = old.attempt + 1
     /\ new.max = old.max /\ new.cancel = FALSE
  \/ /\ old.state \in {"pending", "running"}
     /\ new.state = IF old.state = "pending" THEN "cancelled" ELSE "running"
     /\ new.attempt = old.attempt /\ new.max = old.max /\ new.cancel = TRUE
  \/ /\ old.state = "running" /\ old.cancel /\ new.state = "cancelled"
     /\ new.attempt = old.attempt /\ new.max = old.max /\ new.cancel = TRUE
  \/ /\ old.state = "failed" /\ new.state = "pending"
     /\ new.attempt = old.attempt /\ new.max = old.max + 1 /\ new.cancel = FALSE

(* A step that moves every row is a step of JobLifecycle.                  *)
LEMMA MovedIsAbstract ==
  ASSUME \A j \in JobIds : Moved(jobs[j], jobs'[j])
  PROVE  Lifecycle!Next
  <1>. SUFFICES ASSUME NEW j \in JobIds PROVE Lifecycle!Move(j) \/ Lifecycle!Rest(j)
    BY DEF Lifecycle!Next
  <1>1. Moved(jobs[j], jobs'[j])
    OBVIOUS
  <1>. QED
    BY <1>1, SMTT(30) DEF Moved, Lifecycle!Move, Lifecycle!Rest, Lifecycle!Becomes, Lifecycle!Keeps,
       Lifecycle!Accept, Lifecycle!Claim, Lifecycle!Succeed, Lifecycle!EndAttempt,
       Lifecycle!TakeOver, Lifecycle!RequestCancel, Lifecycle!ConfirmCancel, Lifecycle!Retry

(* The row transformations are moves.                                      *)
LEMMA RowMoves ==
  ASSUME NEW row \in Row, NEW t \in Nat, NEW ok \in BOOLEAN, RowOK(row)
  PROVE  /\ row.state = "running" => Moved(row, Recovered(row, t))
         /\ row.state = "running" => Moved(row, Settled(row, ok, t))
         /\ Due(row, t) => Moved(row, Claimed(row, t))
         /\ Moved(row, Pulsed(row, t))
         /\ row.state \in {"pending", "running"} => Moved(row, CancelRow(row))
         /\ row.state = "failed" => Moved(row, RetryRow(row, t))
  <1>1. row.state = "running" => Moved(row, Recovered(row, t))
    BY DEF Moved, Recovered, Row, RowOK
  <1>2. row.state = "running" => Moved(row, Settled(row, ok, t))
    BY DEF Moved, Settled, Row, RowOK
  <1>3. Due(row, t) => Moved(row, Claimed(row, t))
    BY DEF Moved, Claimed, Due, Row
  <1>4. Moved(row, Pulsed(row, t))
    BY DEF Moved, Pulsed, Row
  <1>5. row.state \in {"pending", "running"} => Moved(row, CancelRow(row))
    BY DEF Moved, CancelRow, Row
  <1>6. row.state = "failed" => Moved(row, RetryRow(row, t))
    BY DEF Moved, RetryRow, Row
  <1>. QED BY <1>1, <1>2, <1>3, <1>4, <1>5, <1>6

(* Recovering and claiming a row in the same batch is a takeover.          *)
LEMMA TakeOverMoves ==
  ASSUME NEW row \in Row, NEW t \in Nat, RowOK(row), row.state = "running",
         Due(Recovered(row, t), t)
  PROVE  Moved(row, Claimed(Recovered(row, t), t))
  <1>1. /\ ~row.cancel /\ row.attempt < row.max
    BY DEF Due, Recovered, Row
  <1>. DEFINE new == Claimed(Recovered(row, t), t)
  <1>2. /\ new.state = "running" /\ new.attempt = row.attempt + 1
        /\ new.max = row.max /\ new.cancel = row.cancel
    BY DEF Claimed, Recovered, Row
  <1>3. row.cancel \in BOOLEAN
    BY DEF Row
  <1>. QED BY <1>1, <1>2, <1>3 DEF Moved

(* Every call moves every row as the life of a job allows.                 *)
LEMMA StepMoves ==
  ASSUME StoreInv, [StoreNext]_storeVars, NEW j \in JobIds
  PROVE  Moved(jobs[j], jobs'[j])
  <1>. DEFINE row == jobs[j]
  <1>0. row \in Row /\ RowOK(row) /\ \A t \in HostTimes : t \in Nat
    BY DEF StoreInv, StoreTypeOK, JobOK, HostTimes
  <1>r. jobs'[j] = jobs[j] => Moved(jobs[j], jobs'[j])
    BY DEF Moved
  <1>1. CASE SomeFetch
    <2>1. PICK t \in HostTimes, claims \in SUBSET JobIds : Fetch(t, claims)
      BY <1>1 DEF SomeFetch
    <2>. DEFINE rec == RecoverAll(t)[j]
    <2>2. rec = IF Overdue(row, t) THEN Recovered(row, t) ELSE row
      BY DEF RecoverAll
    <2>3. /\ j \in claims => Due(rec, t)
          /\ jobs'[j] = IF j \in claims THEN Claimed(rec, t) ELSE rec
      BY <2>1 DEF Fetch, FirstDue
    <2>4. Overdue(row, t) => row.state = "running"
      BY DEF Overdue
    <2>5. CASE Overdue(row, t) /\ j \in claims
      BY <1>0, <2>2, <2>3, <2>4, <2>5, TakeOverMoves
    <2>6. CASE Overdue(row, t) /\ j \notin claims
      BY <1>0, <2>2, <2>3, <2>4, <2>6, RowMoves
    <2>7. CASE ~Overdue(row, t) /\ j \in claims
      BY <1>0, <2>2, <2>3, <2>7, RowMoves
    <2>8. CASE ~Overdue(row, t) /\ j \notin claims
      BY <1>r, <2>2, <2>3, <2>8
    <2>. QED BY <2>5, <2>6, <2>7, <2>8
  <1>2. CASE SomePulse
    <2>1. PICK t \in HostTimes, i \in JobIds : \E a \in 1..jobs[i].attempt : Pulse(i, a, t)
      BY <1>2 DEF SomePulse
    <2>2. jobs'[j] = row \/ jobs'[j] = Pulsed(row, t)
      BY <2>1 DEF Pulse, StoreInv, StoreTypeOK
    <2>. QED BY <1>0, <1>r, <2>2, RowMoves
  <1>3. CASE SomeSettle
    <2>1. PICK t \in HostTimes, i \in JobIds, ok \in BOOLEAN :
            \E a \in 1..jobs[i].attempt : Settle(i, a, ok, t)
      BY <1>3 DEF SomeSettle
    <2>2. jobs'[j] = row \/ (jobs'[j] = Settled(row, ok, t) /\ row.state = "running")
      BY <2>1 DEF Settle, Fence, StoreInv, StoreTypeOK
    <2>. QED BY <1>0, <1>r, <2>2, RowMoves
  <1>4. CASE SomeEnqueue
    <2>1. PICK id \in JobIds, key \in Keys \cup {NoKey}, payload \in Payloads,
               t \in HostTimes, d \in RunDelays : Enqueue(id, key, payload, t + d)
      BY <1>4 DEF SomeEnqueue
    <2>. DEFINE new == NewRow(key, payload, t + d)
    <2>2. jobs'[j] = row \/ (jobs'[j] = new /\ row.state = "absent")
      BY <2>1 DEF Enqueue, StoreInv, StoreTypeOK
    <2>3. new.state = "pending" /\ new.attempt = 0 /\ new.max > 0 /\ new.cancel = FALSE
      BY BudgetAssumption DEF NewRow, NoRow
    <2>4. row.state = "absent" => row.attempt = 0
      BY <1>0 DEF RowOK, NoRow
    <2>5. row.state = "absent" => Moved(row, new)
      BY <2>3, <2>4 DEF Moved
    <2>. QED BY <1>r, <2>2, <2>5
  <1>5. CASE SomeCancel
    <2>1. PICK i \in JobIds : Cancel(i)
      BY <1>5 DEF SomeCancel
    <2>2. \/ jobs'[j] = row
          \/ jobs'[j] = CancelRow(row) /\ row.state \in {"pending", "running"}
      BY <2>1 DEF Cancel, StoreInv, StoreTypeOK
    <2>3. 0 \in Nat /\ TRUE \in BOOLEAN
      OBVIOUS
    <2>. QED BY <1>0, <1>r, <2>2, <2>3, RowMoves
  <1>6. CASE SomeRetry
    <2>1. PICK i \in JobIds, t \in HostTimes : Retry(i, t)
      BY <1>6 DEF SomeRetry
    <2>2. jobs'[j] = row \/ (jobs'[j] = RetryRow(row, t) /\ row.state = "failed")
      BY <2>1 DEF Retry, StoreInv, StoreTypeOK
    <2>. QED BY <1>0, <1>r, <2>2, RowMoves
  <1>7. CASE Tick
    BY <1>7, <1>r DEF Tick
  <1>8. CASE UNCHANGED storeVars
    BY <1>8, <1>r DEF storeVars
  <1>. QED BY <1>1, <1>2, <1>3, <1>4, <1>5, <1>6, <1>7, <1>8 DEF StoreNext

(* The job table implements the life of a job.  The initial table is the   *)
(* empty queue; the invariant says why a claimed row has budget left and   *)
(* why an absent row has never been attempted.                             *)
THEOREM StoreImplementsLifecycle == StoreSpec => ImplementsLifecycle
  <1>1. StoreInit => Lifecycle!Init
    BY DEF StoreInit, Lifecycle!Init, NoRow
  <1>2. StoreInv /\ [StoreNext]_storeVars => [Lifecycle!Next]_Lifecycle!vars
    BY StepMoves, MovedIsAbstract
  <1>. QED BY <1>1, <1>2, StoreInvariant, PTL DEF StoreSpec, ImplementsLifecycle, Lifecycle!Spec

(* A statement that is not a claim leaves the lifetime of a running row.   *)
KeepsLifetime(old, new) ==
  old.state = "running" /\ new.state = "running" /\ new.attempt = old.attempt
  => new.expires = old.expires

(* The lifetime of an attempt is fixed by the claim, whatever pulses.      *)
THEOREM LifetimesFixed == StoreSpec => LifetimeFixed
  <1>1. ASSUME StoreInv, [StoreNext]_storeVars, NEW j \in JobIds
        PROVE  KeepsLifetime(jobs[j], jobs'[j])
    <2>. DEFINE row == jobs[j]
    <2>0. /\ row \in Row /\ row.attempt \in Nat /\ \A t \in HostTimes : t \in Nat
          /\ jobs \in [JobIds -> Row]
      BY <1>1 DEF StoreInv, StoreTypeOK, HostTimes, Row
    <2>1. CASE SomeFetch
      <3>1. PICK t \in HostTimes, claims \in SUBSET JobIds : Fetch(t, claims)
        BY <2>1 DEF SomeFetch
      <3>. DEFINE rec == RecoverAll(t)[j]
      <3>2. rec = IF Overdue(row, t) THEN Recovered(row, t) ELSE row
        BY DEF RecoverAll
      <3>3. jobs'[j] = IF j \in claims THEN Claimed(rec, t) ELSE rec
        BY <3>1 DEF Fetch
      <3>4. Recovered(row, t).state # "running" /\ Recovered(row, t).attempt = row.attempt
        BY <2>0 DEF Recovered, Row
      <3>5. rec.attempt = row.attempt
        BY <3>2, <3>4
      <3>6. rec \in Row => Claimed(rec, t).attempt = rec.attempt + 1
        BY DEF Claimed, Row
      <3>7. rec \in Row
        BY <1>1, <2>0, <3>2, RecoveredOK DEF Overdue, StoreInv, StoreTypeOK, JobLog
      <3>. QED BY <2>0, <3>2, <3>3, <3>4, <3>5, <3>6, <3>7 DEF KeepsLifetime
    <2>2. CASE SomePulse
      <3>1. PICK t \in HostTimes, i \in JobIds : \E a \in 1..jobs[i].attempt : Pulse(i, a, t)
        BY <2>2 DEF SomePulse
      <3>2. jobs'[j] = row \/ jobs'[j] = Pulsed(row, t)
        BY <2>0, <3>1 DEF Pulse
      <3>. QED BY <2>0, <3>2 DEF KeepsLifetime, Pulsed, Row
    <2>3. CASE SomeSettle
      <3>1. PICK t \in HostTimes, i \in JobIds, ok \in BOOLEAN :
              \E a \in 1..jobs[i].attempt : Settle(i, a, ok, t)
        BY <2>3 DEF SomeSettle
      <3>2. jobs'[j] = row \/ jobs'[j] = Settled(row, ok, t)
        BY <2>0, <3>1 DEF Settle
      <3>3. Settled(row, ok, t).state # "running"
        BY <2>0 DEF Settled, Row
      <3>. QED BY <3>2, <3>3 DEF KeepsLifetime
    <2>4. CASE SomeEnqueue
      <3>1. jobs'[j] = row \/ row.state = "absent"
        BY <2>0, <2>4 DEF SomeEnqueue, Enqueue
      <3>. QED BY <3>1 DEF KeepsLifetime
    <2>5. CASE SomeCancel
      <3>1. jobs'[j] = row \/ jobs'[j] = CancelRow(row)
        BY <2>0, <2>5 DEF SomeCancel, Cancel
      <3>. QED BY <2>0, <3>1 DEF KeepsLifetime, CancelRow, Row
    <2>6. CASE SomeRetry
      <3>1. jobs'[j] = row \/ row.state = "failed"
        BY <2>0, <2>6 DEF SomeRetry, Retry
      <3>. QED BY <3>1 DEF KeepsLifetime
    <2>7. CASE Tick \/ UNCHANGED storeVars
      BY <2>7 DEF Tick, storeVars, KeepsLifetime
    <2>. QED BY <1>1, <2>1, <2>2, <2>3, <2>4, <2>5, <2>6, <2>7 DEF StoreNext
  <1>2. StoreInv /\ [StoreNext]_storeVars =>
          [\A j \in JobIds :
             jobs[j].state = "running" /\ jobs'[j].state = "running" /\ jobs'[j].attempt = jobs[j].attempt
             => jobs'[j].expires = jobs[j].expires]_storeVars
    BY <1>1 DEF KeepsLifetime
  <1>. QED BY <1>2, StoreInvariant, PTL DEF StoreSpec, LifetimeFixed
=============================================================================
