-------------------------------- MODULE Media --------------------------------
(***************************************************************************)
(* One derivation of @lenso/media: its record, the task whose attempts     *)
(* execute it, the file that each attempt uploads, and recovery, which     *)
(* discards every file but the published one.                              *)
(*                                                                         *)
(* An attempt's number stands for its executionId, its fence, and the file *)
(* it uploads.  mutate() reads and replaces by revision until it wins, so  *)
(* it is one step; retry() replaces the very record that it read, whose    *)
(* only way on is a claim, with a new fence.  Failing calls, lost answers, *)
(* deaths and leases that run out under a live attempt are counted against *)
(* MaxMediaFaults; the errors an image or a policy can cause are among     *)
(* them.  Abstracted: the stages before the upload (one check), who may    *)
(* ask, and what is made.                                                  *)
(*                                                                         *)
(* The definition introduced by `Slip:' is not part of the model: it is a  *)
(* plausible mistake in the one that follows it, and a mutation run checks *)
(* that a property notices it.                                             *)
(***************************************************************************)
EXTENDS Integers, FiniteSets

CONSTANTS MaxAttempts,     \* bound: attempts of the task, retries included
          MaxCalls,        \* bound: calls of the user
          MaxMediaFaults   \* bound: faults

ASSUME MediaAssumption == MaxAttempts \in Nat \ {0} /\ {MaxCalls, MaxMediaFaults} \subseteq Nat

VARIABLES media,      \* the record
          task,       \* the job of the queue
          execs,      \* execs[a]: execute() of attempt a
          journal,    \* journal[a]: the artifact of attempt a
          uploads,    \* uploads[a]: its file record
          objects,    \* attempts whose object exists
          late,       \* attempts whose PUT is still under way at the provider
          sweeps,     \* sweeps[p]: recover() by p
          operator,   \* cancel() or retry() by the user
          swept,      \* ghost: a recovery of the quiet, ended derivation reported no failure
          mediaFaults
mediaVars == <<media, task, execs, journal, uploads, objects, late, sweeps, operator, swept, mediaFaults>>

Attempts == 1 .. MaxAttempts
User == 0
Sweepers == Attempts \cup {User}
MediaTerminal == {"ready", "failed", "cancelled"}

NoExec == [pc |-> "idle", error |-> "none", owned |-> FALSE, rev |-> 0, cancelled |-> FALSE, throws |-> FALSE]
NoSweep == [pc |-> "idle", seen |-> <<>>, of |-> 0, fileRev |-> 0, clean |-> FALSE]
Absent == [state |-> "none", rev |-> 0]

(* submit() inserts the record; the queue gives the task a budget.         *)
MediaInit ==
  /\ media = [state |-> "pending", fence |-> 0, exec |-> 0, cancel |-> FALSE, result |-> 0, error |-> "none"]
  /\ \E max \in Attempts : task = [state |-> "none", attempt |-> 0, max |-> max, cancel |-> FALSE]
  /\ execs = [a \in Attempts |-> NoExec]
  /\ journal = [a \in Attempts |-> Absent] /\ uploads = [a \in Attempts |-> Absent]
  /\ objects = {} /\ late = {}
  /\ sweeps = [p \in Sweepers |-> NoSweep]
  /\ operator = [pc |-> "idle", read |-> {}, left |-> MaxCalls] /\ swept = FALSE /\ mediaFaults = 0

record == <<media, task>>
store == <<journal, uploads, objects, late>>
MediaFault == mediaFaults < MaxMediaFaults /\ mediaFaults' = mediaFaults + 1
ExecAt(a, pc) == execs[a].pc = pc
ExecGoes(a, pc) == execs' = [execs EXCEPT ![a].pc = pc]
OperatorGoes(pc) == operator' = [operator EXCEPT !.pc = pc, !.read = {}]

-----------------------------------------------------------------------------
(* The task queue.                                                         *)

(* ensure(): the durable key of the derivation names one job.              *)
Submit == /\ task.state = "none" /\ task' = [task EXCEPT !.state = "pending"]
          /\ UNCHANGED <<media, execs, store, sweeps, operator, swept, mediaFaults>>

Alive(a) == execs[a].pc \notin {"idle", "ended", "dead"}

(* A worker claims the job; the lease of the attempt before has run out,   *)
(* although it may be alive.                                               *)
NextAttempt ==
  /\ \/ task.state = "pending"
     \/ task.state = "running" /\ ~task.cancel
  /\ task.attempt < task.max
  /\ task' = [task EXCEPT !.state = "running", !.attempt = @ + 1]
  /\ ExecGoes(task.attempt + 1, "claim")
  /\ IF task.state = "running" /\ Alive(task.attempt) THEN MediaFault ELSE UNCHANGED mediaFaults
  /\ swept' = FALSE /\ sweeps' = [p \in Sweepers |-> [sweeps[p] EXCEPT !.clean = FALSE]]
  /\ UNCHANGED <<media, store, operator>>

(* The queue gives up an attempt whose lease has run out.                  *)
TaskExpires ==
  /\ task.state = "running" /\ (task.cancel \/ task.attempt = task.max)
  /\ task' = [task EXCEPT !.state = IF task.cancel THEN "cancelled" ELSE "failed"]
  /\ IF Alive(task.attempt) THEN MediaFault ELSE UNCHANGED mediaFaults
  /\ UNCHANGED <<media, execs, store, sweeps, operator, swept>>

(* The attempt's handler has returned or thrown.                           *)
TaskSettled(a, threw) ==
  task' = IF task.attempt # a \/ task.state # "running" THEN task
          ELSE [task EXCEPT !.state = CASE task.cancel -> "cancelled"
                                        [] ~task.cancel /\ ~threw -> "succeeded"
                                        [] ~task.cancel /\ threw /\ task.attempt < task.max -> "pending"
                                        [] OTHER -> "failed"]

ExecEnds(a, threw) == execs' = [execs EXCEPT ![a] = [NoExec EXCEPT !.pc = "ended"]] /\ TaskSettled(a, threw)

ExecDies(a) == /\ Alive(a) /\ MediaFault
               /\ execs' = [execs EXCEPT ![a] = [NoExec EXCEPT !.pc = "dead"]]
               /\ sweeps' = [sweeps EXCEPT ![a] = NoSweep]
               /\ late' \in {late, IF ExecAt(a, "put") THEN late \cup {a} ELSE late}
               /\ UNCHANGED <<record, journal, uploads, objects, operator, swept>>

(* A PUT whose sender no longer waits reaches the provider.                *)
LatePut(a) == /\ a \in late /\ late' = late \ {a} /\ objects' = objects \cup {a}
              /\ UNCHANGED <<record, execs, journal, uploads, sweeps, operator, swept, mediaFaults>>

-----------------------------------------------------------------------------
(* execute().                                                              *)

ClaimableMedia(a) == /\ media.state \notin {"ready", "cancelled"}
                     /\ media.state = "failed" => media.error = "retryable"
                     /\ media.fence < a

(* The claim is outside the try: when it fails nothing is recovered.       *)
ClaimMedia(a) ==
  /\ ExecAt(a, "claim")
  /\ LET claimed == [media EXCEPT !.state = "running", !.fence = a, !.exec = a, !.error = "none"]
     IN \/ ClaimableMedia(a) /\ media' = claimed /\ ExecGoes(a, "work") /\ UNCHANGED <<task, mediaFaults>>
        \/ ~ClaimableMedia(a) /\ ExecEnds(a, FALSE) /\ UNCHANGED <<media, mediaFaults>>
        \/ /\ MediaFault /\ ExecEnds(a, TRUE)
           /\ media' \in {media, IF ClaimableMedia(a) THEN claimed ELSE media}
  /\ UNCHANGED <<store, sweeps, operator, swept>>

ActiveNow(a) == media.exec = a /\ media.state = "running" /\ ~media.cancel

ThrowsTo(a, pc, error) == execs' = [execs EXCEPT ![a].pc = pc, ![a].error = error]
Throws(a, error) == execs' = [execs EXCEPT ![a] = [NoExec EXCEPT !.pc = "catch", !.error = error]]
ToFinally(a, throws) == execs' = [execs EXCEPT ![a] = [NoExec EXCEPT !.pc = "recover", !.throws = throws]]
Errors == {"retryable", "final"}

(* active() with the stage it records; then on, or out.                    *)
Work(a) ==
  /\ ExecAt(a, "work")
  /\ \/ ActiveNow(a) /\ ExecGoes(a, "stage") /\ UNCHANGED mediaFaults
     \/ ~ActiveNow(a) /\ Throws(a, "final") /\ UNCHANGED mediaFaults
     \/ MediaFault /\ \E e \in Errors : Throws(a, e)
  /\ UNCHANGED <<record, store, sweeps, operator, swept>>

(* The journal's insert: the artifact, then the file.                      *)
Stage(a) ==
  /\ ExecAt(a, "stage")
  /\ LET staged == [journal EXCEPT ![a].state = "staged"]
     IN \/ journal' = staged /\ ExecGoes(a, "insert") /\ UNCHANGED mediaFaults
        \/ journal' \in {journal, staged} /\ MediaFault /\ Throws(a, "retryable")
  /\ UNCHANGED <<record, uploads, objects, late, sweeps, operator, swept>>

InsertFile(a) ==
  /\ ExecAt(a, "insert")
  /\ LET inserted == [uploads EXCEPT ![a].state = "pending"]
     IN \/ uploads' = inserted /\ ExecGoes(a, "uploading") /\ UNCHANGED mediaFaults
        \/ uploads' \in {uploads, inserted} /\ MediaFault /\ Throws(a, "retryable")
  /\ UNCHANGED <<record, journal, objects, late, sweeps, operator, swept>>

(* transition(): by the revision that the caller holds.                    *)
Moves(a, rev, state) == IF uploads[a].rev = rev THEN [uploads EXCEPT ![a] = [state |-> state, rev |-> rev + 1]] ELSE uploads

ClaimFile(a) ==
  /\ ExecAt(a, "uploading")
  /\ \/ /\ uploads' = Moves(a, 0, "uploading") /\ UNCHANGED mediaFaults
        /\ IF uploads[a].rev = 0 THEN execs' = [execs EXCEPT ![a].pc = "put", ![a].rev = 1] ELSE Throws(a, "final")
     \/ uploads' \in {uploads, Moves(a, 0, "uploading")} /\ MediaFault /\ Throws(a, "retryable")
  /\ UNCHANGED <<record, journal, objects, late, sweeps, operator, swept>>

FileFails(a, owned, error) == execs' = [execs EXCEPT ![a].pc = "failfile", ![a].owned = owned, ![a].error = error]

PutFile(a) ==
  /\ ExecAt(a, "put")
  /\ \/ objects' = objects \cup {a} /\ ExecGoes(a, "gate") /\ UNCHANGED <<late, mediaFaults>>
     \/ /\ MediaFault /\ FileFails(a, TRUE, "retryable")
        /\ \/ objects' \in {objects, objects \cup {a}} /\ UNCHANGED late
           \/ late' = late \cup {a} /\ UNCHANGED objects
  /\ UNCHANGED <<record, journal, uploads, sweeps, operator, swept>>

(* The journal's transition to ready: refused for what is discarded or     *)
(* superseded, and thrown out of when the execution is no longer active.   *)
Gate(a) ==
  /\ ExecAt(a, "gate")
  /\ \/ (journal[a].state # "staged" \/ media.exec # a) /\ FileFails(a, FALSE, "final")
     \/ journal[a].state = "staged" /\ media.exec = a /\ ~ActiveNow(a) /\ FileFails(a, TRUE, "final")
     \/ journal[a].state = "staged" /\ ActiveNow(a) /\ ExecGoes(a, "readyfile")
  /\ UNCHANGED <<record, store, sweeps, operator, swept, mediaFaults>>

ReadyFile(a) ==
  /\ ExecAt(a, "readyfile")
  /\ LET rev == execs[a].rev
     IN \/ /\ uploads' = Moves(a, rev, "ready") /\ UNCHANGED mediaFaults
           /\ IF uploads[a].rev = rev THEN ExecGoes(a, "publish") ELSE FileFails(a, FALSE, "final")
        \/ uploads' \in {uploads, Moves(a, rev, "ready")} /\ MediaFault /\ FileFails(a, TRUE, "retryable")
  /\ UNCHANGED <<record, journal, objects, late, sweeps, operator, swept>>

(* fail(): the object goes only if the record became this call's failure;  *)
(* a second error makes the whole a dependency error, which is retryable.  *)
FailFile(a) ==
  /\ ExecAt(a, "failfile")
  /\ LET rev == execs[a].rev
         error == IF uploads[a].rev = rev THEN execs[a].error ELSE "retryable"
         mine == execs[a].owned /\ uploads'[a] = [state |-> "failed", rev |-> rev + 1]
     IN \/ /\ uploads' = Moves(a, rev, "failed") /\ UNCHANGED mediaFaults
           /\ IF mine THEN ThrowsTo(a, "unlink", error) ELSE Throws(a, error)
        \/ /\ uploads' \in {uploads, Moves(a, rev, "failed")} /\ MediaFault
           /\ \/ Throws(a, "retryable")
              \/ mine /\ ThrowsTo(a, "unlink", "retryable")
  /\ UNCHANGED <<record, journal, objects, late, sweeps, operator, swept>>

UnlinkFile(a) ==
  /\ ExecAt(a, "unlink")
  /\ \/ objects' = objects \ {a} /\ Throws(a, execs[a].error) /\ UNCHANGED mediaFaults
     \/ objects' \in {objects, objects \ {a}} /\ MediaFault /\ Throws(a, "retryable")
  /\ UNCHANGED <<record, journal, uploads, late, sweeps, operator, swept>>

Published(a) == [media EXCEPT !.state = "ready", !.exec = 0, !.result = a, !.error = "none"]

PublishMedia(a) ==
  /\ ExecAt(a, "publish")
  /\ \/ ActiveNow(a) /\ media' = Published(a) /\ ToFinally(a, FALSE) /\ UNCHANGED mediaFaults
     \/ ~ActiveNow(a) /\ Throws(a, "final") /\ UNCHANGED <<media, mediaFaults>>
     \/ ActiveNow(a) /\ media' = Published(a) /\ MediaFault /\ Throws(a, "retryable")
     \/ MediaFault /\ (\E e \in Errors : Throws(a, e)) /\ UNCHANGED media
  /\ UNCHANGED <<task, store, sweeps, operator, swept>>

(* The catch block: what was registered after all stays.                   *)
Catch(a) ==
  /\ ExecAt(a, "catch")
  /\ \/ /\ UNCHANGED mediaFaults
        /\ IF media.state = "ready" THEN ToFinally(a, FALSE)
           ELSE execs' = [execs EXCEPT ![a].pc = "settle", ![a].cancelled = media.cancel]
     \/ MediaFault /\ ToFinally(a, TRUE)
  /\ UNCHANGED <<record, store, sweeps, operator, swept>>

CanRetry(a) == ~execs[a].cancelled /\ execs[a].error = "retryable"

SettleMedia(a) ==
  /\ ExecAt(a, "settle")
  /\ LET state == CASE execs[a].cancelled -> "cancelled" [] CanRetry(a) -> "pending" [] OTHER -> "failed"
         settled == IF media.exec # a \/ media.state = "ready" THEN media
                    ELSE [media EXCEPT !.state = state, !.exec = 0,
                                               !.error = IF CanRetry(a) THEN "retryable" ELSE "final"]
     IN \/ media' = settled /\ ToFinally(a, CanRetry(a)) /\ UNCHANGED mediaFaults
        \/ media' \in {media, settled} /\ MediaFault /\ ToFinally(a, TRUE)
  /\ UNCHANGED <<task, store, sweeps, operator, swept>>

-----------------------------------------------------------------------------
(* recover(), in execute()'s finally, after cancel(), or by an operator.   *)

SweepAt(p, pc) == sweeps[p].pc = pc
SweepGoes(p, pc) == sweeps' = [sweeps EXCEPT ![p].pc = pc]
(* The next candidate; `clean' tells whether the last one was dealt with.  *)
NextOne(p, clean) == sweeps' = [sweeps EXCEPT ![p] = [NoSweep EXCEPT !.pc = "pick", !.clean = sweeps[p].clean /\ clean,
                                                                     !.seen = [c \in DOMAIN sweeps[p].seen \ {sweeps[p].of} |-> sweeps[p].seen[c]]]]

(* reconcile(): a job that is over ends the record, by the revision read:  *)
(* a record that moves on meanwhile is left as it is.                      *)
Reconciled == [media EXCEPT !.state = IF task.state = "cancelled" THEN "cancelled" ELSE "failed", !.exec = 0,
                                    !.error = IF @ # "none" THEN @ ELSE IF task.state = "cancelled" THEN "final" ELSE "retryable"]

Reconciles == media.state \notin MediaTerminal /\ task.state \in {"failed", "cancelled", "succeeded"}

(* status() reconciles too.                                                *)
Status == /\ Reconciles /\ media' = Reconciled
          /\ UNCHANGED <<task, execs, store, sweeps, operator, swept, mediaFaults>>

(* Everything else that was under way is over.                             *)
OthersOver(p) == /\ late = {} /\ \A a \in Attempts \ {p} : ~Alive(a)
                 /\ \A q \in Sweepers \ {p} : SweepAt(q, "idle")

(* The artifacts are listed after the record is reconciled.                *)
BeginSweep(p) ==
  /\ IF p = User THEN operator.pc = "recover" /\ OperatorGoes("sweeping") /\ UNCHANGED execs
     ELSE ExecAt(p, "recover") /\ ExecGoes(p, "sweeping") /\ UNCHANGED operator
  /\ media' \in IF Reconciles THEN {media, Reconciled} ELSE {media}
  /\ sweeps' = [sweeps EXCEPT ![p] = [NoSweep EXCEPT !.pc = "pick", !.clean = OthersOver(p) /\ media'.state \in MediaTerminal,
                                        !.seen = [a \in {b \in Attempts : journal[b].state # "none"} |-> journal[a]]]]
  /\ UNCHANGED <<task, store, swept, mediaFaults>>

Retained(c) == media.result = c \/ (media.exec = c /\ media.state \notin MediaTerminal)

(* The candidates come in the order of their attempts.                     *)
Pick(p) ==
  /\ SweepAt(p, "pick") /\ DOMAIN sweeps[p].seen # {}
  /\ LET c == CHOOSE b \in DOMAIN sweeps[p].seen : \A d \in DOMAIN sweeps[p].seen : b <= d
         rest == [d \in DOMAIN sweeps[p].seen \ {c} |-> sweeps[p].seen[d]]
     IN sweeps' = [sweeps EXCEPT ![p] = IF Retained(c) THEN [@ EXCEPT !.seen = rest]
                                        ELSE [@ EXCEPT !.pc = "mark", !.of = c]]
  /\ UNCHANGED <<record, execs, store, operator, swept, mediaFaults>>

Marked(c, rev, state) == IF journal[c].rev = rev THEN [journal EXCEPT ![c] = [state |-> state, rev |-> rev + 1]] ELSE journal

(* The write to the artifact that p is about to make.  A tombstone is      *)
(* marked again: a late PUT may have followed the deletion.                *)
ArtifactWritten(p) ==
  LET c == sweeps[p].of
  IN CASE SweepAt(p, "mark") /\ sweeps[p].seen[c].state # "discarding" -> Marked(c, sweeps[p].seen[c].rev, "discarding")
       [] SweepAt(p, "tombstone") -> Marked(c, sweeps[p].seen[c].rev, "deleted")
       [] OTHER -> journal

(* Slip: a file that was deleted is done with.                             *)
RevokesUploading(c) == uploads[c].state = "uploading"

Revokes(c) == uploads[c].state \in {"uploading", "deleted"}

(* The artifact is marked, and discard() makes its own checks and reads    *)
(* the file.                                                               *)
Mark(p) ==
  /\ SweepAt(p, "mark")
  /\ LET c == sweeps[p].of
         seen == sweeps[p].seen[c]
         new == seen.state # "discarding"
     IN /\ journal' = ArtifactWritten(p)
        /\ IF \/ new /\ journal[c].rev # seen.rev
              \/ journal'[c].state # "discarding" \/ media.result = c \/ media.exec = c
           THEN NextOne(p, FALSE)
           ELSE sweeps' = [sweeps EXCEPT ![p] = [@ EXCEPT !.fileRev = uploads[c].rev, !.seen[c].rev = journal'[c].rev,
                                                          !.pc = IF uploads[c].state = "none" THEN "tombstone"
                                                                 ELSE IF Revokes(c) THEN "revoke" ELSE "delete"]]
  /\ UNCHANGED <<record, execs, uploads, objects, late, operator, swept, mediaFaults>>

(* The write to the file that p is about to make.                          *)
FileWritten(p) ==
  LET c == sweeps[p].of
  IN CASE SweepAt(p, "revoke") -> Moves(c, sweeps[p].fileRev, IF uploads[c].state = "uploading" THEN "failed" ELSE "deleting")
       [] SweepAt(p, "delete") /\ uploads[c].state \notin {"deleted", "uploading"} -> Moves(c, uploads[c].rev, "deleting")
       [] SweepAt(p, "deleted") -> Moves(c, sweeps[p].fileRev, "deleted")
       [] OTHER -> uploads

RevokeFile(p) ==
  /\ SweepAt(p, "revoke") /\ uploads' = FileWritten(p)
  /\ IF uploads[sweeps[p].of].rev = sweeps[p].fileRev THEN SweepGoes(p, "delete") ELSE NextOne(p, FALSE)
  /\ UNCHANGED <<record, execs, journal, objects, late, operator, swept, mediaFaults>>

(* Others may write the file of p's candidate: its attempt, or a sweep.    *)
Contended(p) == \/ execs[sweeps[p].of].pc \in {"uploading", "readyfile", "failfile"}
                \/ \E q \in Sweepers \ {p} : sweeps[q].of = sweeps[p].of

(* Files.delete: it reads the file and moves it by the revision read.      *)
DeleteFile(p) ==
  /\ SweepAt(p, "delete")
  /\ LET c == sweeps[p].of
     IN \/ uploads[c].state = "deleted" /\ SweepGoes(p, "tombstone") /\ UNCHANGED uploads
        \/ uploads[c].state = "uploading" /\ NextOne(p, FALSE) /\ UNCHANGED uploads
        \/ /\ uploads[c].state \notin {"deleted", "uploading"} /\ uploads' = FileWritten(p)
           /\ sweeps' = [sweeps EXCEPT ![p].pc = "unlink", ![p].fileRev = uploads[c].rev + 1]
        \/ Contended(p) /\ NextOne(p, FALSE) /\ UNCHANGED uploads    \* it has moved meanwhile
  /\ UNCHANGED <<record, execs, journal, objects, late, operator, swept, mediaFaults>>

DeleteObject(p) ==
  /\ SweepAt(p, "unlink")
  /\ objects' = objects \ {sweeps[p].of} /\ SweepGoes(p, "deleted")
  /\ UNCHANGED <<record, execs, journal, uploads, late, operator, swept, mediaFaults>>

DeletedFile(p) ==
  /\ SweepAt(p, "deleted") /\ uploads' = FileWritten(p)
  /\ IF uploads[sweeps[p].of].rev = sweeps[p].fileRev THEN SweepGoes(p, "tombstone") ELSE NextOne(p, FALSE)
  /\ UNCHANGED <<record, execs, journal, objects, late, operator, swept, mediaFaults>>

Tombstone(p) ==
  /\ SweepAt(p, "tombstone") /\ journal' = ArtifactWritten(p)
  /\ NextOne(p, journal'[sweeps[p].of].state = "deleted")
  /\ UNCHANGED <<record, execs, uploads, objects, late, operator, swept, mediaFaults>>

(* A call fails, although what it writes may be written: the candidate is  *)
(* reported and the next one tried.                                        *)
SweepFails(p) ==
  /\ sweeps[p].pc \in {"mark", "revoke", "delete", "unlink", "deleted", "tombstone"} /\ MediaFault
  /\ NextOne(p, FALSE)
  /\ objects' \in {objects, IF SweepAt(p, "unlink") THEN objects \ {sweeps[p].of} ELSE objects}
  /\ uploads' \in {uploads, FileWritten(p)} /\ journal' \in {IF SweepAt(p, "mark") THEN ArtifactWritten(p) ELSE journal, ArtifactWritten(p)}
  /\ UNCHANGED <<record, execs, late, operator, swept>>

(* The calls before that are outside the try: recover() throws, and so     *)
(* does execute().  The user's recovery that throws is among Abandons.     *)
SweepThrows(p) ==
  /\ p # User /\ sweeps[p].pc \in {"pick", "mark"} /\ MediaFault
  /\ sweeps' = [sweeps EXCEPT ![p] = NoSweep] /\ ExecEnds(p, TRUE)
  /\ journal' \in {journal, ArtifactWritten(p)}
  /\ UNCHANGED <<media, uploads, objects, late, operator, swept>>

SweepEnds(p) ==
  /\ SweepAt(p, "pick") /\ DOMAIN sweeps[p].seen = {}
  /\ swept' = (swept \/ sweeps[p].clean)
  /\ sweeps' = [sweeps EXCEPT ![p] = NoSweep]
  /\ IF p = User THEN OperatorGoes("idle") /\ UNCHANGED <<execs, task>>
     ELSE ExecEnds(p, execs[p].throws) /\ UNCHANGED operator
  /\ UNCHANGED <<media, store, mediaFaults>>

-----------------------------------------------------------------------------
(* cancel(), retry() and recover() of the user.                            *)

Calls(pc) == /\ operator.pc = "idle" /\ operator.left > 0
             /\ operator' = [pc |-> pc, read |-> IF pc = "retrytask" THEN {media} ELSE {}, left |-> operator.left - 1]

CancelMedia ==
  /\ Calls("canceltask")
  /\ media' = IF media.state \in MediaTerminal THEN media
              ELSE [media EXCEPT !.cancel = TRUE,
                                         !.state = IF @ = "pending" THEN "cancelled" ELSE @,
                                         !.exec = IF media.state = "pending" THEN 0 ELSE @]
  /\ UNCHANGED <<task, execs, store, sweeps, swept, mediaFaults>>

CancelTask ==
  /\ operator.pc = "canceltask" /\ OperatorGoes("recover")
  /\ task' = CASE task.state = "pending" -> [task EXCEPT !.state = "cancelled"]
               [] task.state = "running" -> [task EXCEPT !.cancel = TRUE]
               [] OTHER -> task
  /\ UNCHANGED <<media, execs, store, sweeps, swept, mediaFaults>>

RecoverMedia == Calls("recover")
                /\ UNCHANGED <<record, execs, store, sweeps, swept, mediaFaults>>

RetryMedia ==
  /\ media.state = "failed" /\ media.error = "retryable" /\ ~media.cancel
  /\ Calls("retrytask")
  /\ UNCHANGED <<record, execs, store, sweeps, swept, mediaFaults>>

RetryTask ==
  /\ operator.pc = "retrytask" /\ task.max < MaxAttempts
  /\ \/ task.state = "failed" /\ task' = [task EXCEPT !.state = "pending", !.max = @ + 1]
        /\ operator' = [operator EXCEPT !.pc = "project"]
     \/ task.state # "failed" /\ OperatorGoes("idle") /\ UNCHANGED task
  /\ UNCHANGED <<media, execs, store, sweeps, swept, mediaFaults>>

ProjectRetry ==
  /\ operator.pc = "project" /\ OperatorGoes("idle")
  /\ media' = IF operator.read = {media} THEN [media EXCEPT !.state = "pending", !.exec = 0] ELSE media
  /\ UNCHANGED <<task, execs, store, sweeps, swept, mediaFaults>>

(* The user's process goes away between two calls.                         *)
Abandons == /\ operator.pc # "idle" /\ MediaFault
            /\ OperatorGoes("idle") /\ sweeps' = [sweeps EXCEPT ![User] = NoSweep]
            /\ UNCHANGED <<record, execs, store, swept>>

-----------------------------------------------------------------------------
ExecStep(a) == \/ ClaimMedia(a) \/ Work(a) \/ Stage(a) \/ InsertFile(a) \/ ClaimFile(a) \/ PutFile(a)
               \/ Gate(a) \/ ReadyFile(a) \/ FailFile(a) \/ UnlinkFile(a) \/ PublishMedia(a)
               \/ Catch(a) \/ SettleMedia(a)
SweepStep(p) == \/ BeginSweep(p) \/ Pick(p) \/ Mark(p) \/ RevokeFile(p)
                \/ DeleteFile(p) \/ DeleteObject(p) \/ DeletedFile(p) \/ Tombstone(p) \/ SweepFails(p) \/ SweepThrows(p)
                \/ SweepEnds(p)

MediaNext == \/ Submit \/ NextAttempt \/ TaskExpires
             \/ \E a \in Attempts : ExecStep(a) \/ ExecDies(a) \/ LatePut(a)
             \/ \E p \in Sweepers : SweepStep(p)
             \/ Status \/ CancelMedia \/ CancelTask \/ RecoverMedia \/ RetryMedia \/ RetryTask \/ ProjectRetry \/ Abandons

(* What is published stays: its artifact is never discarded, its file and  *)
(* its object remain, although attempts overlap, lose their claims and     *)
(* recover at the same time (execute, recover, discard).                   *)
ResultIsKept ==
  media.state = "ready" => /\ journal[media.result].state = "staged"
                           /\ uploads[media.result].state = "ready" /\ media.result \in objects

(* A recovery that reports no failure, when the derivation is over and     *)
(* nothing is under way, leaves no object but the published one, although  *)
(* PUTs landed after earlier deletions (recover, discard).                 *)
RecoveryIsComplete == swept => objects \subseteq {media.result}

MediaIsSound == ResultIsKept /\ RecoveryIsComplete

MediaSpec == MediaInit /\ [][MediaNext]_mediaVars
=============================================================================
