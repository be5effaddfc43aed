-------------------------------- MODULE Files --------------------------------
(***************************************************************************)
(* Files over object storage (packages/storage, files.ts): one file's row, *)
(* its object and the calls upload, beginUpload, completeUpload and delete *)
(* of several processes, each await of which is a step.                    *)
(*                                                                         *)
(* A query or an adapter call may fail although it was carried out, and a  *)
(* process may die at any await.  A PUT, of a call or of a client with a   *)
(* link, is carried out by the storage when it likes, or not at all, also  *)
(* when nobody waits for it any more.  An object's value is its etag,      *)
(* which is the number of the PUT that made it.  Reading operations change *)
(* nothing and are left out, as are authorization and the contents of      *)
(* uploads: whether the metadata matches is a free choice.  Hosts and      *)
(* storage have one clock, which decides when a link has expired.          *)
(***************************************************************************)
EXTENDS Integers

CONSTANTS FileCalls,       \* slots for calls
          UploadLife,      \* how long a signed upload lives
          FileHorizon,     \* bound: the clock
          MaxPuts,         \* bound: PUTs sent
          MaxFileRevision,     \* bound: the revision at which calls still begin
          MaxFileFaults    \* bound: failing calls and crashes

(* expiresIn is a positive integer (validateExpiry).                       *)
ASSUME UploadAssumption == UploadLife \in Nat

VARIABLES fileRow,      \* the row
          object,       \* the etag of the object under its key, 0: none
          flight,       \* PUTs that the storage has not settled
          credential,   \* when the link that beginUpload returned expires, 0: none
          fileCalls, fileClock, puts, fileFaults,
          stale         \* history: the PUTs under way when delete() removed the object

fileVars == <<fileRow, object, flight, credential, fileCalls, fileClock, puts, fileFaults, stale>>
stored == <<object, flight, puts, stale>>

NoFile == [state |-> "none", revision |-> 0, etag |-> 0, uploadExpiresAt |-> 0]
NoFileCall == [pc |-> "idle", op |-> "none", file |-> NoFile, etag |-> 0, link |-> 0, cleanup |-> FALSE]

FilesInit == /\ fileRow = NoFile /\ object = 0 /\ flight = {} /\ stale = {} /\ credential = 0
             /\ fileCalls = [c \in FileCalls |-> NoFileCall]
             /\ fileClock = 1 /\ puts = 0 /\ fileFaults = 0

FileFault == fileFaults < MaxFileFaults /\ fileFaults' = fileFaults + 1
CallAt(c, pc) == fileCalls[c].pc = pc
Held(c) == fileCalls[c].file
Becomes(c, r) == fileCalls' = [fileCalls EXCEPT ![c] = r]
Goes(c, pc) == Becomes(c, [fileCalls[c] EXCEPT !.pc = pc])
FileCallEnds(c) == Becomes(c, NoFileCall)
Fails(c, cleanup) == Becomes(c, [fileCalls[c] EXCEPT !.pc = "fail", !.cleanup = cleanup])

FileTick == /\ fileClock < FileHorizon /\ fileClock' = fileClock + 1
            /\ UNCHANGED <<fileRow, credential, fileCalls, fileFaults, stored>>

(* The process of a call dies.                                             *)
FileCrash(c) == /\ ~CallAt(c, "idle") /\ FileFault /\ FileCallEnds(c)
                /\ UNCHANGED <<fileRow, credential, fileClock, stored>>

(* transition(): replaces the row if it is still the revision at hand.     *)
(* `conflict' and `thrown' are what the caller does about its two errors.  *)
Transition(c, next, pc, conflict, thrown) ==
  LET file == [next EXCEPT !.revision = Held(c).revision + 1]
      matches == fileRow.revision = Held(c).revision
  IN \/ /\ matches /\ fileRow' = file
        /\ Becomes(c, IF pc = "idle" THEN NoFileCall ELSE [fileCalls[c] EXCEPT !.pc = pc, !.file = file])
        /\ UNCHANGED fileFaults
     \/ ~matches /\ conflict /\ UNCHANGED <<fileRow, fileFaults>>
     \/ FileFault /\ fileRow' \in {fileRow, IF matches THEN file ELSE fileRow} /\ thrown

To(c, state) == [Held(c) EXCEPT !.state = state]

-----------------------------------------------------------------------------
(* insert, of upload() and beginUpload(); the id is new.                   *)
Insert(c, op) ==
  /\ CallAt(c, "idle") /\ fileRow = NoFile
  /\ LET file == [NoFile EXCEPT !.state = "pending"]
     IN \/ /\ fileRow' = file /\ UNCHANGED fileFaults
           /\ Becomes(c, [NoFileCall EXCEPT !.op = op, !.file = file, !.pc = IF op = "upload" THEN "claim" ELSE "sign"])
        \/ FileFault /\ fileRow' = file /\ UNCHANGED fileCalls
  /\ UNCHANGED <<credential, fileClock, stored>>

(* load() of completeUpload() and delete(), with the early returns.        *)
LoadFile(c, op) ==
  /\ CallAt(c, "idle") /\ fileRow # NoFile /\ fileRow.revision < MaxFileRevision
  /\ op = "complete" => fileRow.state = "pending" /\ fileRow.uploadExpiresAt # 0
  /\ op = "delete" => fileRow.state \notin {"deleted", "uploading"}
  /\ Becomes(c, [NoFileCall EXCEPT !.op = op, !.file = fileRow, !.pc = IF op = "complete" THEN "claim" ELSE "remove"])
  /\ UNCHANGED <<fileRow, credential, fileClock, fileFaults, stored>>

(* The row becomes uploading; an error here is outside the try block.      *)
ClaimUpload(c) ==
  /\ CallAt(c, "claim")
  /\ Transition(c, To(c, "uploading"), IF fileCalls[c].op = "upload" THEN "put" ELSE "head", FileCallEnds(c), FileCallEnds(c))
  /\ UNCHANGED <<credential, fileClock, stored>>

(* A PUT is on its way; its number will be the etag.                       *)
Sends == /\ puts < MaxPuts /\ puts' = puts + 1 /\ flight' = flight \cup {puts'}
         /\ UNCHANGED <<object, stale>>

SendPut(c) ==
  /\ CallAt(c, "put") /\ Sends
  /\ Becomes(c, [fileCalls[c] EXCEPT !.pc = "sent", !.etag = puts'])
  /\ UNCHANGED <<fileRow, credential, fileClock, fileFaults>>

(* The storage carries a PUT out, which only creates; or drops it.         *)
Settle(p) ==
  /\ p \in flight /\ flight' = flight \ {p}
  /\ object' \in {object, IF object = 0 THEN p ELSE object}
  /\ UNCHANGED <<fileRow, credential, fileCalls, fileClock, puts, fileFaults, stale>>

(* put's answer and what is checked about it.  A put that fails may still  *)
(* be under way.                                                           *)
PutEnds(c) ==
  /\ CallAt(c, "sent")
  /\ \/ /\ object = fileCalls[c].etag /\ UNCHANGED fileFaults
        /\ Goes(c, "publish") \/ Fails(c, TRUE)   \* the metadata does not match
     \/ \E cleanup \in BOOLEAN :   \* refused with conflict or forbidden, or failed otherwise
          Fails(c, cleanup) /\ FileFault
  /\ UNCHANGED <<fileRow, credential, fileClock, stored>>

(* head and what is checked about its answer.                              *)
HeadObject(c) ==
  /\ CallAt(c, "head")
  /\ \/ object # 0 /\ Becomes(c, [fileCalls[c] EXCEPT !.pc = "publish", !.etag = object]) /\ UNCHANGED fileFaults
     \/ Fails(c, TRUE) /\ UNCHANGED fileFaults   \* missing, or the metadata does not match
  /\ UNCHANGED <<fileRow, credential, fileClock, stored>>

(* The row becomes ready.  After a conflict upload() does not own the      *)
(* object; completeUpload() leaves that to fail().                         *)
PublishFile(c) ==
  /\ CallAt(c, "publish")
  /\ Transition(c, [To(c, "ready") EXCEPT !.etag = fileCalls[c].etag], "idle",
                Fails(c, fileCalls[c].op = "complete"), Fails(c, TRUE))
  /\ UNCHANGED <<credential, fileClock, stored>>

(* signUpload and the bound on what it answers.                            *)
Sign(c) ==
  /\ CallAt(c, "sign")
  /\ \/ Becomes(c, [fileCalls[c] EXCEPT !.pc = "offer", !.link = fileClock + UploadLife]) /\ UNCHANGED fileFaults
     \/ Fails(c, FALSE) /\ FileFault
  /\ UNCHANGED <<fileRow, credential, fileClock, stored>>

(* The expiry is recorded before the link is given away.                   *)
Offer(c) ==
  /\ CallAt(c, "offer")
  /\ Transition(c, [Held(c) EXCEPT !.uploadExpiresAt = fileCalls[c].link], "idle", Fails(c, FALSE), Fails(c, FALSE))
  /\ credential' = IF fileFaults' = fileFaults /\ fileCalls'[c] = NoFileCall THEN fileCalls[c].link ELSE credential
  /\ UNCHANGED <<fileClock, stored>>

(* The client uses the link, as often as it likes.                         *)
ClientPut == /\ fileClock < credential /\ Sends
             /\ UNCHANGED <<fileRow, credential, fileCalls, fileClock, fileFaults>>

-----------------------------------------------------------------------------
(* fail(): the row becomes failed, ...                                     *)
Fail(c) ==
  /\ CallAt(c, "fail")
  /\ Transition(c, To(c, "failed"), "cleanup", Goes(c, "lookup"), Goes(c, "lookup"))
  /\ UNCHANGED <<credential, fileClock, stored>>

(* ... or had become so although the answer was lost, ...                  *)
Claimed(c) == fileRow.state = "failed" /\ fileRow.revision = Held(c).revision + 1

LookupFile(c) ==
  /\ CallAt(c, "lookup")
  /\ \/ /\ IF Claimed(c) THEN Goes(c, "cleanup") ELSE FileCallEnds(c)
        /\ UNCHANGED fileFaults
     \/ FileFault /\ FileCallEnds(c)
  /\ UNCHANGED <<fileRow, credential, fileClock, stored>>

(* ... and the object goes, if it may be this call's.                      *)
Cleanup(c) ==
  /\ CallAt(c, "cleanup")
  /\ \/ object' = (IF fileCalls[c].cleanup THEN 0 ELSE object) /\ UNCHANGED fileFaults
     \/ fileCalls[c].cleanup /\ FileFault /\ object' \in {object, 0}
  /\ FileCallEnds(c)
  /\ UNCHANGED <<fileRow, flight, credential, fileClock, puts, stale>>

-----------------------------------------------------------------------------
MayDelete(file) == file.uploadExpiresAt = 0 \/ fileClock >= file.uploadExpiresAt

(* delete(): mark the row, delete the object, mark the row.                *)
Remove(c) ==
  /\ CallAt(c, "remove")
  /\ IF MayDelete(Held(c)) THEN Transition(c, To(c, "deleting"), "unlink", FileCallEnds(c), FileCallEnds(c))
                           ELSE FileCallEnds(c) /\ UNCHANGED <<fileRow, fileFaults>>
  /\ UNCHANGED <<credential, fileClock, stored>>

Unlink(c) ==
  /\ CallAt(c, "unlink")
  /\ \/ object' = 0 /\ stale' = flight /\ Goes(c, "removed") /\ UNCHANGED fileFaults
     \/ object' \in {object, 0} /\ FileCallEnds(c) /\ FileFault /\ UNCHANGED stale
  /\ UNCHANGED <<fileRow, flight, credential, fileClock, puts>>

Removed(c) ==
  /\ CallAt(c, "removed")
  /\ Transition(c, To(c, "deleted"), "idle", FileCallEnds(c), FileCallEnds(c))
  /\ UNCHANGED <<credential, fileClock, stored>>

-----------------------------------------------------------------------------
FileStep(c) == \/ ClaimUpload(c) \/ SendPut(c) \/ PutEnds(c) \/ HeadObject(c) \/ PublishFile(c) \/ Sign(c) \/ Offer(c)
               \/ Fail(c) \/ LookupFile(c) \/ Cleanup(c) \/ Remove(c) \/ Unlink(c) \/ Removed(c)

FilesNext == \/ FileTick \/ ClientPut \/ \E p \in flight : Settle(p)
             \/ \E c \in FileCalls : \/ Insert(c, "upload") \/ Insert(c, "begin")
                                     \/ LoadFile(c, "complete") \/ LoadFile(c, "delete")
                                     \/ FileStep(c) \/ FileCrash(c)

FilesSpec == FilesInit /\ [][FilesNext]_fileVars

-----------------------------------------------------------------------------
(* A ready file has its object, the one that was checked, and no cleanup   *)
(* of a call that failed or lost an answer takes it away, nor does a late  *)
(* PUT replace it (fail).  When a file is deleted its object is gone, and  *)
(* only a PUT that was under way at the time can bring one back: no upload *)
(* is sent any more, and no link is good any more, although deletions      *)
(* crash halfway (delete).                                                 *)
FileKeepsItsObject ==
  /\ fileRow.state = "ready" => object = fileRow.etag /\ object # 0
  /\ fileRow.state = "deleted" => object \in stale \cup {0}
=============================================================================
