---------------------------- MODULE Notifications ----------------------------
(***************************************************************************)
(* Notifications (packages/notifications): the record of a notification,   *)
(* deliver() on the workers of a task queue, the dispatcher's submit,      *)
(* requeue and reconcile, and an e-mail provider that remembers an         *)
(* idempotency key for a limited time.                                     *)
(*                                                                         *)
(* A store call is one step; a sender's `pc' is the await it stands at,    *)
(* and it works on the record it has read, `rec', until save() compares    *)
(* revisions.  A request may reach the provider after its sender gave up   *)
(* on it.  Abstracted: templates, rendering, tenants, messages, the codes  *)
(* of errors, and the channel (one).                                       *)
(*                                                                         *)
(* Definitions introduced by `Slip:' are not part of the model: each is a  *)
(* plausible mistake in the definition that follows it, and the mutation   *)
(* runs check that some property notices it.                               *)
(***************************************************************************)
EXTENDS Integers, Sequences, FiniteSets

CONSTANTS Notes,          \* idempotency keys of notifications
          Optional,       \* those whose template is optional
          Senders,        \* executions of the task
          NoteLeaseMs,    \* options.leaseMs
          NoteMargin,     \* the minute reserved for a request to arrive
          NoteWindow,     \* channel.idempotencyWindowMs
          NoteLatency,    \* how long after its abort a request may arrive
          NoteSkew,       \* disagreement of host clocks
          TaskAttempts,   \* maxAttempts of the task
          MaxNoteFaults   \* bound: losses, deaths, edits, requeues

ASSUME NotificationAssumption ==
  /\ Optional \subseteq Notes /\ NoteLeaseMs \in Nat \ {0} /\ NoteMargin \in Nat
  /\ NoteWindow \in Nat /\ NoteWindow > NoteLeaseMs + NoteMargin
  /\ NoteLatency \in Nat /\ NoteSkew \in Nat /\ NoteLatency + NoteSkew <= NoteMargin
  /\ TaskAttempts \in Nat \ {0} /\ MaxNoteFaults \in Nat

VARIABLES noteClock,
          notes,      \* notes[n]: the record
          tries,      \* tries[n]: the states of its attempts
          prefers,    \* prefers[n]: the recipient's preference
          dispatch,   \* dispatcher calls under way
          noteJobs,   \* noteJobs[n]: the job of `notification/n'
          senders,    \* senders[s]: a deliver() call
          wire,       \* requests that have not reached the provider
          mailed,     \* mailed[n]: when the provider accepted a message
          noteFaults

noteVars == <<noteClock, notes, tries, prefers, dispatch, noteJobs, senders, wire, mailed, noteFaults>>

NoNote == [state |-> "none", rev |-> 0, count |-> 0, first |-> 0, until |-> 0,
           retryable |-> FALSE, jobId |-> FALSE]
NoSender == [pc |-> "idle", n |-> 0, own |-> 0, rec |-> NoNote, now |-> 0,
             uncertain |-> FALSE, out |-> "none", again |-> FALSE]

NoteInit == /\ noteClock = NoteSkew + 1
            /\ notes = [n \in Notes |-> NoNote]
            /\ tries = [n \in Notes |-> << >>]
            /\ prefers = [n \in Notes |-> TRUE]
            /\ dispatch = {}
            /\ noteJobs = [n \in Notes |-> [state |-> "none", left |-> TaskAttempts]]
            /\ senders = [s \in Senders |-> NoSender]
            /\ wire = {}
            /\ mailed = [n \in Notes |-> << >>]
            /\ noteFaults = 0

NoteTimes == {t \in 0..noteClock : noteClock <= t + NoteSkew}
NoteFault == noteFaults < MaxNoteFaults /\ noteFaults' = noteFaults + 1
SAt(s, pc) == senders[s].pc = pc

(* Time passes while a lease, a window or a slow save depends on it; every *)
(* request arrives within the latency of its abort or never.               *)
NoteTick ==
  /\ \/ \E n \in Notes : notes[n].first > 0 /\ noteClock <= notes[n].first + NoteWindow + NoteSkew
     \/ \E s \in Senders : SAt(s, "claim") /\ noteClock < senders[s].now + NoteLeaseMs + NoteSkew
  /\ \A w \in wire : noteClock < w.by + NoteLatency
  /\ \A s \in Senders : SAt(s, "send") => noteClock < senders[s].now
  /\ noteClock' = noteClock + 1
  /\ UNCHANGED <<notes, tries, prefers, dispatch, noteJobs, senders, wire, mailed, noteFaults>>

-----------------------------------------------------------------------------
(***************************************************************************)
(* Callers and the dispatcher.                                             *)
(***************************************************************************)
Calls(n, step, requeue) == [n |-> n, step |-> step, requeue |-> requeue]

(* submit(): create() reads the preference before it inserts the record.   *)
Submit(n) ==
  /\ notes[n].state = "none"
  /\ \E permitted \in IF n \in Optional THEN BOOLEAN ELSE {TRUE} :
       /\ notes' = [notes EXCEPT ![n].state = IF permitted THEN "pending" ELSE "suppressed",
                                 ![n].retryable = permitted]
       /\ dispatch' = IF permitted THEN dispatch \cup {Calls(n, "enqueue", FALSE)} ELSE dispatch
  /\ UNCHANGED <<noteClock, tries, prefers, noteJobs, senders, wire, mailed, noteFaults>>

SetPreference(n) == /\ n \in Optional /\ NoteFault
                    /\ prefers' = [prefers EXCEPT ![n] = ~@]
                    /\ UNCHANGED <<noteClock, notes, tries, dispatch, noteJobs, senders, wire, mailed>>

Expired(r, t) == r.state = "sending" /\ r.until <= t

(* requeue(), by an operator, of a record retryEligible() admits.          *)
Requeue(n) ==
  /\ NoteFault
  /\ \/ \E t \in NoteTimes : Expired(notes[n], t)
     \/ notes[n].state \in {"failed", "unknown"} /\ notes[n].retryable
  /\ dispatch' = dispatch \cup {Calls(n, "enqueue", TRUE)}
  /\ UNCHANGED <<noteClock, notes, tries, prefers, noteJobs, senders, wire, mailed>>

(* reconcile(), for one of the records recoverable() returns.              *)
Reconcile(n) ==
  /\ notes[n].state # "none" /\ ~notes[n].jobId
  /\ \/ \E t \in NoteTimes : Expired(notes[n], t)
     \/ notes[n].state \in {"pending", "failed", "unknown"} /\ notes[n].retryable
  /\ Calls(n, "enqueue", FALSE) \notin dispatch
  /\ dispatch' = dispatch \cup {Calls(n, "enqueue", FALSE)}
  /\ UNCHANGED <<noteClock, notes, tries, prefers, noteJobs, senders, wire, mailed, noteFaults>>

Queued(n) == IF noteJobs[n].state = "none" THEN [noteJobs EXCEPT ![n].state = "pending"] ELSE noteJobs

(* Slip: the job is recorded before it is enqueued.                        *)
DispatchRecordsFirst(c) ==
  /\ c \in dispatch
  /\ CASE c.step = "enqueue" -> /\ notes' = [notes EXCEPT ![c.n].jobId = TRUE]
                                /\ dispatch' = (dispatch \ {c}) \cup {[c EXCEPT !.step = "record"]}
                                /\ UNCHANGED noteJobs
       [] c.step = "record" -> /\ noteJobs' = Queued(c.n)
                               /\ dispatch' = (dispatch \ {c}) \cup
                                    (IF c.requeue THEN {[c EXCEPT !.step = "retry"]} ELSE {})
                               /\ UNCHANGED notes
       [] c.step = "retry" -> dispatch' = dispatch \ {c} /\ UNCHANGED <<notes, noteJobs>>
  /\ UNCHANGED <<noteClock, tries, prefers, senders, wire, mailed, noteFaults>>

(* enqueue() under the notification's key, recordTaskJob(), and requeue's  *)
(* queue.retry of a job that failed for good.                              *)
DispatchNote(c) ==
  /\ c \in dispatch
  /\ CASE c.step = "enqueue" -> /\ noteJobs' = Queued(c.n)
                                /\ dispatch' = (dispatch \ {c}) \cup {[c EXCEPT !.step = "record"]}
                                /\ UNCHANGED notes
       [] c.step = "record" -> /\ notes' = [notes EXCEPT ![c.n].jobId = TRUE]
                               /\ dispatch' = (dispatch \ {c}) \cup
                                    (IF c.requeue THEN {[c EXCEPT !.step = "retry"]} ELSE {})
                               /\ UNCHANGED noteJobs
       [] c.step = "retry" -> /\ noteJobs' = IF noteJobs[c.n].state = "failed"
                                             THEN [noteJobs EXCEPT ![c.n] = [state |-> "pending", left |-> TaskAttempts]]
                                             ELSE noteJobs
                              /\ dispatch' = dispatch \ {c} /\ UNCHANGED notes
  /\ UNCHANGED <<noteClock, tries, prefers, senders, wire, mailed, noteFaults>>

(* The dispatching process dies between its calls.                         *)
DispatchLost(c) == /\ c \in dispatch /\ NoteFault
                   /\ dispatch' = dispatch \ {c}
                   /\ UNCHANGED <<noteClock, notes, tries, prefers, noteJobs, senders, wire, mailed>>

-----------------------------------------------------------------------------
(***************************************************************************)
(* The task.  A worker that is taken for dead may still run: its job goes  *)
(* to another one.                                                         *)
(***************************************************************************)
Deliver(s, n) ==
  /\ SAt(s, "idle") /\ noteJobs[n].state = "pending"
  /\ noteJobs' = [noteJobs EXCEPT ![n] = [state |-> "running", left |-> @.left - 1]]
  /\ senders' = [senders EXCEPT ![s] = [NoSender EXCEPT !.pc = "get", !.n = n, !.own = noteJobs[n].left - 1]]
  /\ UNCHANGED <<noteClock, notes, tries, prefers, dispatch, wire, mailed, noteFaults>>

Failing(n) == [noteJobs EXCEPT ![n].state = IF noteJobs[n].left = 0 THEN "failed" ELSE "pending"]

(* deliver() returns, or throws; the handler throws for a retryable status.*)
Ends(s, threw) ==
  LET n == senders[s].n
      mine == noteJobs[n].state = "running" /\ noteJobs[n].left = senders[s].own
  IN /\ senders' = [senders EXCEPT ![s] = NoSender]
     /\ noteJobs' = CASE ~mine -> noteJobs
                      [] mine /\ threw -> Failing(n)
                      [] OTHER -> [noteJobs EXCEPT ![n].state = "done"]

LeaseLost(n) == /\ noteJobs[n].state = "running" /\ NoteFault
                /\ noteJobs' = Failing(n)
                /\ UNCHANGED <<noteClock, notes, tries, prefers, dispatch, senders, wire, mailed>>

Dies(s) == /\ ~SAt(s, "idle") /\ NoteFault
           /\ Ends(s, TRUE)
           /\ UNCHANGED <<noteClock, notes, tries, prefers, dispatch, wire, mailed>>

-----------------------------------------------------------------------------
(***************************************************************************)
(* deliver()                                                               *)
(***************************************************************************)

(* save() compares revisions; the job's id is not part of the record it    *)
(* writes.  Without a match it throws.                                     *)
Current(s) == notes[senders[s].n].rev = senders[s].rec.rev

Saved(s, next) == [next EXCEPT !.rev = @ + 1, !.jobId = notes[senders[s].n].jobId,
                               !.first = IF notes[senders[s].n].first > 0
                                         THEN notes[senders[s].n].first ELSE @]

Save(s, next) == notes' = [notes EXCEPT ![senders[s].n] = Saved(s, next)]

Busy(s) == Ends(s, TRUE) /\ UNCHANGED <<notes, tries>>

(* store.get: a settled or rejected record is left alone, a live lease     *)
(* is respected.                                                           *)
Get(s) ==
  /\ SAt(s, "get")
  /\ LET r == notes[senders[s].n]
         over == r.state \in {"accepted", "delivered", "suppressed"}
                 \/ (r.state # "sending" /\ ~r.retryable)
     IN \E t \in NoteTimes :
          CASE over -> Ends(s, FALSE)
            [] r.state = "sending" /\ r.until > t -> Ends(s, TRUE)
            [] OTHER -> /\ senders' = [senders EXCEPT ![s].rec = r,
                                         ![s].pc = IF r.state = "sending" THEN "expire" ELSE "window"]
                        /\ UNCHANGED noteJobs
  /\ UNCHANGED <<noteClock, notes, tries, prefers, dispatch, wire, mailed, noteFaults>>

(* An expired attempt may have been sent: its outcome is unknown.          *)
Expire(s) ==
  /\ SAt(s, "expire")
  /\ LET n == senders[s].n
         next == [senders[s].rec EXCEPT !.state = "unknown", !.until = 0, !.retryable = TRUE]
     IN IF ~Current(s) THEN Busy(s)
        ELSE /\ Save(s, next)
             /\ tries' = [tries EXCEPT ![n][next.count] = "unknown"]
             /\ senders' = [senders EXCEPT ![s].pc = "window", ![s].rec = Saved(s, next)]
             /\ UNCHANGED noteJobs
  /\ UNCHANGED <<noteClock, prefers, dispatch, wire, mailed, noteFaults>>

(* Too late for a repetition that the provider still recognises.           *)
TooLate(r, t) == r.first > 0 /\ t + NoteLeaseMs + NoteMargin >= r.first + NoteWindow

(* What a record becomes when it is given up: unknown stays unknown.       *)
GivenUp(r, state) == [r EXCEPT !.state = IF r.state = "unknown" THEN "unknown" ELSE state,
                               !.retryable = FALSE, !.until = 0]

(* The window and the preference, each before a save that gives up, or     *)
(* the claim; `now' is read before the claim is saved.                     *)
Window(s) ==
  /\ SAt(s, "window")
  /\ LET n == senders[s].n
         r == senders[s].rec
     IN \E t \in NoteTimes :
          senders' = [senders EXCEPT ![s].now = t, ![s].uncertain = r.state = "unknown",
                        ![s].pc = CASE TooLate(r, t) -> "giveup"
                                    [] n \in Optional /\ ~prefers[n] -> "suppress"
                                    [] OTHER -> "claim"]
  /\ UNCHANGED <<noteClock, notes, tries, prefers, dispatch, noteJobs, wire, mailed, noteFaults>>

GiveUp(s) ==
  /\ senders[s].pc \in {"giveup", "suppress"}
  /\ IF ~Current(s) THEN Busy(s)
     ELSE /\ Save(s, GivenUp(senders[s].rec, IF SAt(s, "giveup") THEN "failed" ELSE "suppressed"))
          /\ Ends(s, FALSE) /\ UNCHANGED tries
  /\ UNCHANGED <<noteClock, prefers, dispatch, wire, mailed, noteFaults>>

ClaimNote(s) ==
  /\ SAt(s, "claim")
  /\ LET n == senders[s].n
         r == senders[s].rec
         next == [r EXCEPT !.state = "sending", !.count = @ + 1, !.retryable = TRUE,
                           !.first = IF @ > 0 THEN @ ELSE senders[s].now,
                           !.until = senders[s].now + NoteLeaseMs]
     IN IF ~Current(s) THEN Busy(s)
        ELSE /\ Save(s, next)
             /\ tries' = [tries EXCEPT ![n] = Append(@, "sending")]
             /\ senders' = [senders EXCEPT ![s].pc = "check", ![s].rec = Saved(s, next)]
             /\ UNCHANGED noteJobs
  /\ UNCHANGED <<noteClock, prefers, dispatch, wire, mailed, noteFaults>>

(* The save may have used up the margin or the lease; otherwise the        *)
(* request is sent, to be aborted when the lease ends.                     *)
Check(s) ==
  /\ SAt(s, "check")
  /\ LET r == senders[s].rec
     IN \E t \in NoteTimes :
          LET end == noteClock + r.until - t
          IN CASE TooLate(r, t) ->
                    /\ senders' = [senders EXCEPT ![s].pc = "finish", ![s].out = "failed", ![s].again = FALSE]
                    /\ UNCHANGED <<noteJobs, wire>>
               [] ~TooLate(r, t) /\ r.until <= t -> Ends(s, TRUE) /\ UNCHANGED wire
               [] OTHER ->
                    /\ senders' = [senders EXCEPT ![s].pc = "send", ![s].now = end]
                    /\ wire' = wire \cup {[n |-> senders[s].n, of |-> r.count, by |-> end]}
                    /\ UNCHANGED noteJobs
  /\ UNCHANGED <<noteClock, notes, tries, prefers, dispatch, mailed, noteFaults>>

(* A request reaches the provider, which accepts it, recognises its key,   *)
(* or refuses; the answer reaches a sender that still waits, or is lost.   *)
Remembers(n) == \E i \in 1..Len(mailed[n]) : noteClock < mailed[n][i] + NoteWindow

Answers(w, out, again) ==
  LET waiting == {s \in Senders : SAt(s, "send") /\ senders[s].n = w.n /\ senders[s].rec.count = w.of}
  IN \/ senders' = [s \in Senders |-> IF s \in waiting
                      THEN [senders[s] EXCEPT !.pc = "finish", !.out = out, !.again = again]
                      ELSE senders[s]]
     \/ UNCHANGED senders

Arrive(w) ==
  /\ w \in wire
  /\ wire' = wire \ {w}
  /\ \/ /\ mailed' = IF Remembers(w.n) THEN mailed ELSE [mailed EXCEPT ![w.n] = Append(@, noteClock)]
        /\ Answers(w, "accepted", FALSE)
     \/ /\ UNCHANGED mailed
        /\ \E again \in BOOLEAN : Answers(w, "failed", again)
  /\ UNCHANGED <<noteClock, notes, tries, prefers, dispatch, noteJobs, noteFaults>>

(* No answer that can be used: an error, the abort, the end of the lease.  *)
Unanswered(s) ==
  /\ SAt(s, "send")
  /\ senders' = [senders EXCEPT ![s].pc = "finish", ![s].out = "unknown", ![s].again = TRUE]
  /\ UNCHANGED <<noteClock, notes, tries, prefers, dispatch, noteJobs, wire, mailed, noteFaults>>

(* Slip: a rejection settles the record, whatever went before.             *)
ResultOfThis(s) == senders[s].out

(* A rejection of this attempt does not settle an earlier one.             *)
Result(s) == IF senders[s].uncertain /\ senders[s].out = "failed" THEN "unknown" ELSE senders[s].out

Finish(s) ==
  /\ SAt(s, "finish")
  /\ LET n == senders[s].n
         r == senders[s].rec
     IN IF ~Current(s) THEN Busy(s)
        ELSE /\ Save(s, [r EXCEPT !.state = Result(s), !.until = 0, !.retryable = senders[s].again])
             /\ tries' = [tries EXCEPT ![n][r.count] = senders[s].out]
             /\ Ends(s, senders[s].again)
  /\ UNCHANGED <<noteClock, prefers, dispatch, wire, mailed, noteFaults>>

(* markDelivered(), for the receipt of an accepted message.                *)
MarkDelivered(n) == /\ notes[n].state = "accepted"
                    /\ notes' = [notes EXCEPT ![n].state = "delivered", ![n].rev = @ + 1]
                    /\ UNCHANGED <<noteClock, tries, prefers, dispatch, noteJobs, senders, wire, mailed, noteFaults>>

-----------------------------------------------------------------------------
SenderStep(s) == \/ Get(s) \/ Expire(s) \/ Window(s) \/ GiveUp(s) \/ ClaimNote(s) \/ Check(s)
                 \/ Unanswered(s) \/ Finish(s)

NoteWork == \E s \in Senders, n \in Notes : Deliver(s, n)

NoteNext == \/ NoteTick \/ NoteWork
            \/ \E n \in Notes : \/ Submit(n) \/ SetPreference(n) \/ Requeue(n) \/ Reconcile(n)
                                \/ LeaseLost(n) \/ MarkDelivered(n)
            \/ \E c \in dispatch : DispatchNote(c) \/ DispatchLost(c)
            \/ \E w \in wire : Arrive(w)
            \/ \E s \in Senders : SenderStep(s) \/ Dies(s)

NoteSpec == NoteInit /\ [][NoteNext]_noteVars

-----------------------------------------------------------------------------
(* The recipient gets one message, however often workers die, answers are  *)
(* lost and deliveries are retried: each repetition reaches the provider   *)
(* while it remembers the key (deliver: the two window checks against      *)
(* firstRequestAt).                                                        *)
MailedOnce == \A n \in Notes : Len(mailed[n]) <= 1

(* What a record says is true of the provider: an accepted message was     *)
(* accepted, and a message that was accepted is never recorded as failed,  *)
(* suppressed or not sent (deliver: unknown outcomes stay unknown).        *)
RecordIsHonest ==
  \A n \in Notes : /\ notes[n].state \in {"accepted", "delivered"} => mailed[n] # << >>
                   /\ mailed[n] # << >> => notes[n].state \notin {"failed", "suppressed", "pending"}

(* A committed notification is settled, although the dispatcher dies       *)
(* before or after it enqueues and senders die on the way; excepted are    *)
(* those whose job used up its attempts, which an operator requeues        *)
(* (submit, reconcile).                                                    *)
NotesSettle ==
  \A n \in Notes : notes[n].state # "none" ~>
                     (notes[n].state # "sending" /\ ~notes[n].retryable) \/ noteJobs[n].state = "failed"

(* Both: one message at most, and a record that tells the truth about it.  *)
NotesAreHonest == MailedOnce /\ RecordIsHonest
=============================================================================
