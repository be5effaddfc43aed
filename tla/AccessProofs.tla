---------------------------- MODULE AccessProofs ----------------------------
(***************************************************************************)
(* The components that keep credentials and files: each has its own        *)
(* invariant, for any number of concurrent calls and any values of its     *)
(* constants, and AccessSpec takes steps of one of them at a time.         *)
(*                                                                         *)
(* Files (FileInv): at most one call holds a row that is uploading, a call *)
(*   that removes an object works on a row that no upload reaches, and     *)
(*   once the object was deleted the PUTs under way are among those that   *)
(*   were under way then (Gone), since none is sent any more.              *)
(* Local object store (LocalInv): a put owns its directory until it has    *)
(*   renamed it, so the object a reader finds has both its parts.          *)
(*   Directories that are there have different inode numbers, so what a    *)
(*   reader loaded is of the directory it first saw, unless that one was   *)
(*   removed and its number given again (StoreInv).                        *)
(* Sessions (SessionInv): a record that a call read is not newer than the  *)
(*   row, and expires with it if the revision is the row's.                *)
(* API keys (KeyInv): a use whose credential was dead when the policy had  *)
(*   answered does not get past its next check (UseOk), and a promised     *)
(*   overlap is in the row until it is over (PromiseOk).                   *)
(* OAuth grants (OAuthInv): what a call read is the record unless the      *)
(*   revision has moved on (ReadRequest, ReadRow), and the pair of a grant *)
(*   is the last one that was drawn for it (RecordsOk).                    *)
(***************************************************************************)
EXTENDS MCAccess, FiniteSetTheorems, TLAPS

-----------------------------------------------------------------------------
(***************************************************************************)
(* Files                                                                   *)
(***************************************************************************)
FileStates == {"none", "pending", "uploading", "ready", "failed", "deleting", "deleted"}
FilePcs == {"idle", "claim", "put", "sent", "head", "publish", "sign", "offer", "fail", "lookup", "cleanup", "remove", "unlink", "removed"}
FileRecord == [state : FileStates, revision : Nat, etag : Nat, uploadExpiresAt : Int]
FileCall == [pc : FilePcs, op : {"none", "upload", "begin", "complete", "delete"}, file : FileRecord, etag : Nat, link : Int,
             cleanup : BOOLEAN]
FileTypes == /\ fileRow \in FileRecord /\ object \in Nat /\ credential \in Int
             /\ fileCalls \in [FileCalls -> FileCall]
             /\ fileClock \in Nat \ {0} /\ puts \in Nat /\ flight \in SUBSET Nat /\ stale \in SUBSET Nat

Over == {"failed", "deleting", "deleted"}

(* What was left when the object was deleted: PUTs under way.              *)
Gone == object \in stale \cup {0} /\ flight \subseteq stale

(* What a call knows of the row, while it is at a given await.             *)
Knows(x, row) ==
  /\ row.state # "none"
  /\ x.file.revision <= row.revision /\ (x.file.revision = row.revision => x.file = row)
  /\ x.pc = "claim" => x.file.state = "pending"
  /\ x.pc \in {"put", "sent", "head", "publish"} => x.file = row /\ row.state = "uploading"
  /\ x.pc \in {"sign", "offer"} => x.file = [NoFile EXCEPT !.state = "pending"]
  /\ x.pc \in {"fail", "lookup"} => x.file.state = "uploading" \/ (x.file.state = "pending" /\ ~x.cleanup)
  /\ x.pc = "remove" => x.file.state \notin {"uploading", "deleted"}
  /\ x.pc \in {"unlink", "removed"} => x.file.state = "deleting"

(* What it knows of the object, which is o; g: nothing but what was left.  *)
KnowsObject(x, row, o, g) ==
  /\ x.pc = "sent" => x.etag # 0
  /\ x.pc = "publish" => o = x.etag /\ o # 0
  /\ x.pc = "cleanup" /\ x.cleanup => row.state \in Over
  /\ x.pc \in {"unlink", "removed"} => row.state \in {"deleting", "deleted"}
  /\ x.pc = "removed" => g

(* An upload is of the call that claimed it.                               *)
Holds(x, row) == x.pc # "idle" /\ x.file.revision = row.revision
OneUploader ==
  fileRow.state = "uploading" =>
    \A c, d \in FileCalls : Holds(fileCalls[c], fileRow) /\ Holds(fileCalls[d], fileRow) => c = d

RowIsTrue(row, o, link, g) ==
  /\ row.state = "none" => row = NoFile
  /\ row.state = "ready" => o = row.etag /\ o # 0
  /\ row.state = "deleted" => g
  /\ row.state \in {"deleting", "deleted"} => fileClock >= link
  /\ link # 0 => row.revision > 0 /\ row.uploadExpiresAt = link

FileInv == /\ FileTypes /\ OneUploader /\ RowIsTrue(fileRow, object, credential, Gone)
           /\ \A c \in FileCalls : fileCalls[c].pc # "idle" => /\ Knows(fileCalls[c], fileRow)
                                                               /\ KnowsObject(fileCalls[c], fileRow, object, Gone)

USE UploadAssumption

LEMMA FilesStart == FilesInit => FileInv
<1>. SUFFICES ASSUME FilesInit PROVE FileInv OBVIOUS
<1>1. FileTypes BY DEF FilesInit, FileTypes, NoFile, NoFileCall, FileRecord, FileStates, FileCall, FilePcs
<1>2. \A c \in FileCalls : fileCalls[c].pc = "idle" BY DEF FilesInit, NoFileCall
<1>3. OneUploader BY DEF FilesInit, NoFile, OneUploader
<1>4. RowIsTrue(fileRow, object, credential, Gone) BY DEF FilesInit, NoFile, RowIsTrue
<1>. QED BY <1>1, <1>2, <1>3, <1>4 DEF FileInv

(* What a step that leaves the row alone may do in the storage: send a PUT, *)
(* or, when the file is over, let the object go.                           *)
Stores == /\ object' \in Nat /\ puts' \in Nat /\ flight' \in SUBSET Nat /\ stale' \in SUBSET Nat
          /\ fileRow.state \in {"deleting", "deleted"} /\ Gone => Gone'
          /\ object' = object \/ (fileRow.state \in Over /\ object' = 0)

LEMMA StoredStays == ASSUME FileInv, UNCHANGED stored PROVE Stores /\ object' = object /\ (Gone' <=> Gone)
BY DEF FileInv, FileTypes, Stores, Gone, stored

(* A call moves.                                                           *)
LEMMA CallMoves ==
  ASSUME FileInv, NEW c \in FileCalls, NEW r \in FileCall, fileCalls' = [fileCalls EXCEPT ![c] = r],
         UNCHANGED <<fileRow, credential, fileClock>>, Stores,
         r.pc = "idle" \/ (Knows(r, fileRow) /\ KnowsObject(r, fileRow, object', Gone')),
         fileRow.state = "uploading" /\ Holds(r, fileRow) => Holds(fileCalls[c], fileRow)
  PROVE  FileInv'
<1>1. FileTypes' BY DEF FileInv, FileTypes, Stores
<1>2. \A d \in FileCalls : fileCalls'[d] = IF d = c THEN r ELSE fileCalls[d] BY DEF FileInv, FileTypes
<1>3. OneUploader' BY <1>2 DEF FileInv, OneUploader
<1>4. RowIsTrue(fileRow, object, credential, Gone)' BY DEF FileInv, RowIsTrue, Over, Stores
<1>5. ASSUME NEW d \in FileCalls, fileCalls'[d].pc # "idle"
      PROVE  Knows(fileCalls'[d], fileRow) /\ KnowsObject(fileCalls'[d], fileRow, object', Gone')
  <2>1. CASE d = c BY <1>2, <1>5, <2>1
  <2>2. CASE d # c
    <3>1. fileCalls'[d] = fileCalls[d] BY <1>2, <2>2
    <3>2. Knows(fileCalls[d], fileRow) /\ KnowsObject(fileCalls[d], fileRow, object, Gone) BY <1>5, <3>1 DEF FileInv
    <3>3. fileRow.state \in Over => fileCalls[d].pc # "publish" BY <3>2 DEF Knows, Over
    <3>. QED BY <3>1, <3>2, <3>3 DEF KnowsObject, Stores
  <2>. QED BY <2>1, <2>2
<1>. QED BY <1>1, <1>3, <1>4, <1>5 DEF FileInv

(* A call that holds the row replaces it.                                  *)
LEMMA RowMoves ==
  ASSUME FileInv, NEW c \in FileCalls, NEW row \in FileRecord, NEW r \in FileCall,
         fileCalls' = [fileCalls EXCEPT ![c] = r], fileRow' = row, UNCHANGED <<fileClock, stored>>,
         Holds(fileCalls[c], fileRow), row.revision = fileRow.revision + 1, row.state # "none",
         fileRow.state \in Over => row.state \in Over,
         fileRow.state \in {"deleting", "deleted"} => row.state \in {"deleting", "deleted"},
         credential' \in Int, RowIsTrue(row, object, credential', Gone),
         r.pc = "idle" \/ (Knows(r, row) /\ KnowsObject(r, row, object, Gone))
  PROVE  FileInv'
<1>0. object' = object /\ (Gone' <=> Gone) BY StoredStays
<1>1. FileTypes' BY DEF FileInv, FileTypes, stored
<1>2. \A d \in FileCalls : fileCalls'[d] = IF d = c THEN r ELSE fileCalls[d] BY DEF FileInv, FileTypes
<1>3. \A d \in FileCalls : fileCalls[d] \in FileCall BY DEF FileInv, FileTypes
<1>4. fileRow \in FileRecord BY DEF FileInv, FileTypes
<1>5. ASSUME NEW d \in FileCalls, d # c, fileCalls[d].pc # "idle"
      PROVE  /\ Knows(fileCalls[d], row) /\ KnowsObject(fileCalls[d], row, object, Gone) /\ ~Holds(fileCalls[d], row)
  <2>1. Knows(fileCalls[d], fileRow) /\ KnowsObject(fileCalls[d], fileRow, object, Gone) BY <1>5 DEF FileInv
  <2>2. fileCalls[d].file.revision \in Nat /\ fileRow.revision \in Nat BY <1>3, <1>4 DEF FileCall, FileRecord
  <2>3. fileCalls[d].file.revision < row.revision BY <2>1, <2>2 DEF Knows
  <2>4. fileCalls[d].pc \notin {"put", "sent", "head", "publish"}
    <3>1. fileRow.state = "uploading" => ~Holds(fileCalls[d], fileRow) BY <1>5 DEF FileInv, OneUploader
    <3>. QED BY <1>5, <2>1, <3>1 DEF Knows, Holds
  <2>5. Knows(fileCalls[d], row) BY <2>1, <2>2, <2>3, <2>4 DEF Knows
  <2>6. KnowsObject(fileCalls[d], row, object, Gone) BY <2>1 DEF KnowsObject
  <2>. QED BY <2>2, <2>3, <2>5, <2>6 DEF Holds
<1>6. OneUploader' BY <1>2, <1>5 DEF OneUploader, Holds
<1>7. RowIsTrue(fileRow, object, credential, Gone)' BY <1>0 DEF RowIsTrue
<1>8. \A d \in FileCalls : fileCalls'[d].pc # "idle" => Knows(fileCalls'[d], row) /\ KnowsObject(fileCalls'[d], row, object, Gone)
  BY <1>2, <1>5
<1>9. \A d \in FileCalls : fileCalls'[d].pc # "idle" => KnowsObject(fileCalls'[d], row, object', Gone')
  BY <1>0, <1>8 DEF KnowsObject
<1>. QED BY <1>1, <1>6, <1>7, <1>8, <1>9 DEF FileInv

LEMMA NextIsMore == \A n \in Nat : n <= n + 1 /\ n # n + 1
OBVIOUS

(* A transition replaces the row that the call holds, or changes nothing.  *)
LEMMA CallFacts ==
  ASSUME FileInv, NEW c \in FileCalls, ~CallAt(c, "idle")
  PROVE  /\ fileCalls[c] \in FileCall /\ fileCalls[c].pc # "idle" /\ Held(c) \in FileRecord /\ fileRow \in FileRecord
         /\ Knows(fileCalls[c], fileRow) /\ KnowsObject(fileCalls[c], fileRow, object, Gone)
         /\ Holds(fileCalls[c], fileRow) <=> fileRow.revision = Held(c).revision
         /\ Holds(fileCalls[c], fileRow) => Held(c) = fileRow
         /\ Held(c).revision <= fileRow.revision
         /\ NoFileCall \in FileCall /\ NoFileCall.pc = "idle"
<1>1. fileCalls[c] \in FileCall /\ fileRow \in FileRecord BY DEF FileInv, FileTypes
<1>2. fileCalls[c].pc # "idle" BY DEF CallAt
<1>3. Held(c) = fileCalls[c].file BY DEF Held
<1>4. Held(c) \in FileRecord BY <1>1, <1>3 DEF FileCall
<1>5. Knows(fileCalls[c], fileRow) /\ KnowsObject(fileCalls[c], fileRow, object, Gone) BY <1>2 DEF FileInv
<1>6. NoFileCall \in FileCall /\ NoFileCall.pc = "idle"
  BY DEF NoFileCall, NoFile, FileCall, FilePcs, FileRecord, FileStates
<1>7. Holds(fileCalls[c], fileRow) <=> fileRow.revision = Held(c).revision BY <1>2, <1>3 DEF Holds
<1>8. Holds(fileCalls[c], fileRow) => Held(c) = fileRow BY <1>3, <1>5 DEF Holds, Knows
<1>9. Held(c).revision <= fileRow.revision BY <1>3, <1>5 DEF Knows
<1>. QED BY <1>1, <1>2, <1>4, <1>5, <1>6, <1>7, <1>8, <1>9

(* A call ends.                                                            *)
LEMMA EndKeeps ==
  ASSUME FileInv, NEW c \in FileCalls, FileCallEnds(c), UNCHANGED <<fileRow, credential, fileClock>>, Stores
  PROVE  FileInv'
<1>1. NoFileCall \in FileCall /\ NoFileCall.pc = "idle"
  BY DEF NoFileCall, NoFile, FileCall, FilePcs, FileRecord, FileStates
<1>2. fileCalls' = [fileCalls EXCEPT ![c] = NoFileCall] BY DEF FileCallEnds, Becomes
<1>3. ~Holds(NoFileCall, fileRow) BY <1>1 DEF Holds
<1>. QED BY <1>1, <1>2, <1>3, CallMoves

(* A call goes to fail() or looks the row up.                              *)
LEMMA FailKeeps ==
  ASSUME FileInv, NEW c \in FileCalls, ~CallAt(c, "idle"), NEW b \in BOOLEAN, NEW pc \in {"fail", "lookup"},
         Held(c).state = "uploading" \/ (Held(c).state = "pending" /\ ~b),
         fileCalls' = [fileCalls EXCEPT ![c] = [fileCalls[c] EXCEPT !.pc = pc, !.cleanup = b]],
         UNCHANGED <<fileRow, credential, fileClock>>, Stores
  PROVE  FileInv'
<1>1. PICK x \in FileCall : x = fileCalls[c] BY DEF FileInv, FileTypes
<1>2. PICK r \in FileCall : r = [x EXCEPT !.pc = pc, !.cleanup = b] BY DEF FileCall, FilePcs
<1>3. r.pc = pc /\ r.cleanup = b /\ r.file = x.file BY <1>2 DEF FileCall
<1>4. Knows(x, fileRow) BY <1>1, CallFacts
<1>5. Knows(r, fileRow) BY <1>1, <1>3, <1>4 DEF Knows, Held
<1>6. KnowsObject(r, fileRow, object', Gone') BY <1>3 DEF KnowsObject
<1>7. Holds(r, fileRow) => Holds(x, fileRow) BY <1>1, <1>3, CallFacts DEF Holds
<1>8. fileCalls' = [fileCalls EXCEPT ![c] = r] BY <1>1, <1>2
<1>. QED BY <1>1, <1>5, <1>6, <1>7, <1>8, CallMoves

(* What a call does when its transition failed: it ends, goes to fail() or *)
(* looks the row up.                                                       *)
Falls(c) ==
  \/ FileCallEnds(c)
  \/ \E b \in BOOLEAN, pc \in {"fail", "lookup"} :
       /\ Held(c).state = "uploading" \/ (Held(c).state = "pending" /\ ~b)
       /\ fileCalls' = [fileCalls EXCEPT ![c] = [fileCalls[c] EXCEPT !.pc = pc, !.cleanup = b]]

(* A transition that the caller does not learn of: it goes to fail() or    *)
(* looks the row up, or it ends.                                           *)
LEMMA UnheardKeeps ==
  ASSUME FileInv, NEW c \in FileCalls, ~CallAt(c, "idle"), NEW row \in FileRecord,
         Holds(fileCalls[c], fileRow), fileRow' = row, row.revision = fileRow.revision + 1, row.state # "none",
         fileRow.state \in Over => row.state \in Over,
         fileRow.state \in {"deleting", "deleted"} => row.state \in {"deleting", "deleted"},
         RowIsTrue(row, object, credential, Gone), UNCHANGED <<credential, fileClock, stored>>,
         Falls(c)
  PROVE  FileInv'
<1>0. credential' \in Int /\ RowIsTrue(row, object, credential', Gone) BY DEF FileInv, FileTypes
<1>1. CASE FileCallEnds(c)
  <2>1. fileCalls' = [fileCalls EXCEPT ![c] = NoFileCall] BY <1>1 DEF FileCallEnds, Becomes
  <2>2. NoFileCall \in FileCall /\ NoFileCall.pc = "idle" BY CallFacts
  <2>. QED BY <1>0, <2>1, <2>2, RowMoves
<1>2. ASSUME NEW b \in BOOLEAN, NEW pc \in {"fail", "lookup"},
             Held(c).state = "uploading" \/ (Held(c).state = "pending" /\ ~b),
             fileCalls' = [fileCalls EXCEPT ![c] = [fileCalls[c] EXCEPT !.pc = pc, !.cleanup = b]]
      PROVE  FileInv'
  <2>1. PICK x \in FileCall : x = fileCalls[c] BY DEF FileInv, FileTypes
  <2>2. PICK r \in FileCall : r = [x EXCEPT !.pc = pc, !.cleanup = b] BY DEF FileCall, FilePcs
  <2>3. r.pc = pc /\ r.cleanup = b /\ r.file = x.file BY <2>2 DEF FileCall
  <2>4. x.file \in FileRecord /\ x.file.revision \in Nat /\ fileRow.revision = x.file.revision /\ row.revision \in Nat
    BY <2>1, CallFacts DEF FileCall, FileRecord, Held
  <2>5. r.file.revision \in Nat /\ row.revision = r.file.revision + 1
    <3>1. row.revision = fileRow.revision + 1 OBVIOUS
    <3>. QED BY <2>3, <2>4, <3>1
  <2>6. r.file.revision <= row.revision /\ r.file.revision # row.revision
    BY <2>5, NextIsMore
  <2>9. r.file.state = "uploading" \/ (r.file.state = "pending" /\ ~r.cleanup) BY <1>2, <2>1, <2>3 DEF Held
  <2>10. Knows(r, row) BY <2>3, <2>6, <2>9 DEF Knows
  <2>7. KnowsObject(r, row, object, Gone) BY <2>3 DEF KnowsObject
  <2>8. fileCalls' = [fileCalls EXCEPT ![c] = r] BY <1>2, <2>1, <2>2
  <2>. QED BY <1>0, <2>7, <2>8, <2>10, RowMoves
<1>. QED BY <1>1, <1>2 DEF Falls

(* The row that a transition writes.                                       *)
Restated(h, state, n) == [[h EXCEPT !.state = state] EXCEPT !.revision = n]
LEMMA RestatedIs ==
  ASSUME NEW h \in FileRecord, NEW n \in Nat, NEW state \in FileStates
  PROVE  LET row == Restated(h, state, n)
         IN /\ row \in FileRecord /\ row.state = state /\ row.revision = n
            /\ row.etag = h.etag /\ row.uploadExpiresAt = h.uploadExpiresAt
BY DEF Restated, FileRecord

(* The call that replaced the row goes on with the new one.                *)
WithRow(x, pc, row) == [x EXCEPT !.pc = pc, !.file = row]
LEMMA WithRowIs ==
  ASSUME NEW x \in FileCall, NEW row \in FileRecord, NEW pc \in FilePcs
  PROVE  LET r == WithRow(x, pc, row)
         IN r \in FileCall /\ r.pc = pc /\ r.file = row /\ r.cleanup = x.cleanup /\ r.etag = x.etag
BY DEF FileCall, WithRow

LEMMA TransitionKeeps ==
  ASSUME FileInv, NEW c \in FileCalls, ~CallAt(c, "idle"), UNCHANGED <<credential, fileClock, stored>>,
         NEW row \in FileRecord, row.revision = Held(c).revision + 1, row.state # "none",
         Held(c).state \in Over => row.state \in Over,
         Held(c).state \in {"deleting", "deleted"} => row.state \in {"deleting", "deleted"},
         Held(c) = fileRow => RowIsTrue(row, object, credential, Gone),
         \/ /\ Holds(fileCalls[c], fileRow) /\ fileRow' = row
            /\ \E r \in FileCall : /\ fileCalls' = [fileCalls EXCEPT ![c] = r]
                                   /\ r.pc = "idle" \/ (Knows(r, row) /\ KnowsObject(r, row, object, Gone))
         \/ fileRow' = fileRow /\ Falls(c)
         \/ Holds(fileCalls[c], fileRow) /\ fileRow' = row /\ Falls(c)
  PROVE  FileInv'
<1>1. Holds(fileCalls[c], fileRow) => /\ Held(c) = fileRow /\ RowIsTrue(row, object, credential, Gone)
                                      /\ row.revision = fileRow.revision + 1
                                      /\ fileRow.state \in Over => row.state \in Over
                                      /\ fileRow.state \in {"deleting", "deleted"} => row.state \in {"deleting", "deleted"}
  BY CallFacts
<1>2. ASSUME Holds(fileCalls[c], fileRow), fileRow' = row, NEW r \in FileCall, fileCalls' = [fileCalls EXCEPT ![c] = r],
             r.pc = "idle" \/ (Knows(r, row) /\ KnowsObject(r, row, object, Gone))
      PROVE  FileInv'
  <2>1. credential' \in Int /\ RowIsTrue(row, object, credential', Gone) BY <1>1, <1>2 DEF FileInv, FileTypes
  <2>. QED BY <1>1, <1>2, <2>1, RowMoves
<1>5. CASE /\ Holds(fileCalls[c], fileRow) /\ fileRow' = row
           /\ \E r \in FileCall : /\ fileCalls' = [fileCalls EXCEPT ![c] = r]
                                  /\ r.pc = "idle" \/ (Knows(r, row) /\ KnowsObject(r, row, object, Gone))
  <2>1. PICK r \in FileCall : /\ fileCalls' = [fileCalls EXCEPT ![c] = r]
                              /\ r.pc = "idle" \/ (Knows(r, row) /\ KnowsObject(r, row, object, Gone))
    BY <1>5
  <2>. QED BY <1>2, <1>5, <2>1
<1>3. CASE fileRow' = fileRow /\ Falls(c)
  <2>0. Stores BY StoredStays
  <2>1. CASE FileCallEnds(c) BY <1>3, <2>0, <2>1, EndKeeps
  <2>2. ASSUME NEW b \in BOOLEAN, NEW pc \in {"fail", "lookup"},
               Held(c).state = "uploading" \/ (Held(c).state = "pending" /\ ~b),
               fileCalls' = [fileCalls EXCEPT ![c] = [fileCalls[c] EXCEPT !.pc = pc, !.cleanup = b]]
        PROVE  FileInv'
    BY <1>3, <2>0, <2>2, FailKeeps
  <2>. QED BY <1>3, <2>1, <2>2 DEF Falls
<1>4. CASE Holds(fileCalls[c], fileRow) /\ fileRow' = row /\ Falls(c) BY <1>1, <1>4, UnheardKeeps
<1>. QED BY <1>3, <1>4, <1>5

LEMMA ClaimUploadKeeps == ASSUME FileInv, NEW c \in FileCalls, ClaimUpload(c) PROVE FileInv'
<1>0. ~CallAt(c, "idle") /\ fileCalls[c].pc = "claim" /\ UNCHANGED <<credential, fileClock, stored>>
  BY DEF ClaimUpload, CallAt
<1>1. PICK x \in FileCall : x = fileCalls[c] BY DEF FileInv, FileTypes
<1>2. PICK h \in FileRecord : h = Held(c) BY <1>0, CallFacts
<1>3. h.state = "pending" BY <1>0, <1>2, CallFacts DEF Knows, Held
<1>4. PICK n \in Nat : n = h.revision + 1 BY DEF FileRecord
<1>5. PICK row : row = Restated(h, "uploading", n) OBVIOUS
<1>6. row = [To(c, "uploading") EXCEPT !.revision = Held(c).revision + 1] BY <1>2, <1>4, <1>5 DEF Restated, To
<1>7. "uploading" \in FileStates BY DEF FileStates
<1>8. row \in FileRecord /\ row.state = "uploading" /\ row.revision = n /\ row.uploadExpiresAt = h.uploadExpiresAt
  BY <1>5, <1>7, RestatedIs
<1>9. PICK pc \in {"put", "head"} : Transition(c, To(c, "uploading"), pc, FileCallEnds(c), FileCallEnds(c))
  BY DEF ClaimUpload
<1>10. Held(c) = fileRow => RowIsTrue(row, object, credential, Gone)
  <2>1. n # 0 /\ n > 0 BY <1>4 DEF FileRecord
  <2>. QED BY <1>2, <1>8, <2>1 DEF FileInv, RowIsTrue
<1>11. pc \in FilePcs BY DEF FilePcs
<1>12. PICK r \in FileCall : r = WithRow(x, pc, row) /\ r.pc = pc /\ r.file = row BY <1>8, <1>11, WithRowIs
<1>13. Knows(r, row) /\ KnowsObject(r, row, object, Gone) BY <1>8, <1>12 DEF Knows, KnowsObject, FileRecord
<1>14. \/ Holds(fileCalls[c], fileRow) /\ fileRow' = row /\ fileCalls' = [fileCalls EXCEPT ![c] = r]
       \/ fileRow' = fileRow /\ FileCallEnds(c)
       \/ Holds(fileCalls[c], fileRow) /\ fileRow' = row /\ FileCallEnds(c)
  <2>1. Holds(fileCalls[c], fileRow) <=> fileRow.revision = Held(c).revision BY <1>0, CallFacts
  <2>. QED BY <1>1, <1>6, <1>9, <1>12, <2>1 DEF Transition, Becomes, WithRow
<1>15. row.state # "none" /\ row.revision = Held(c).revision + 1 /\ Held(c).state \notin Over
       /\ Held(c).state \notin {"deleting", "deleted"}
  BY <1>2, <1>3, <1>4, <1>8 DEF Over
<1>. QED BY <1>0, <1>8, <1>10, <1>13, <1>14, <1>15, TransitionKeeps DEF Falls

LEMMA PublishFileKeeps == ASSUME FileInv, NEW c \in FileCalls, PublishFile(c) PROVE FileInv'
<1>0. ~CallAt(c, "idle") /\ fileCalls[c].pc = "publish" /\ UNCHANGED <<credential, fileClock, stored>>
  BY DEF PublishFile, CallAt
<1>1. PICK x \in FileCall : x = fileCalls[c] BY DEF FileInv, FileTypes
<1>2. PICK h \in FileRecord : h = Held(c) BY <1>0, CallFacts
<1>3. h = fileRow /\ h.state = "uploading" /\ object = x.etag /\ object # 0
  BY <1>0, <1>1, <1>2, CallFacts DEF Knows, KnowsObject, Held
<1>4. PICK n \in Nat : n = h.revision + 1 BY DEF FileRecord
<1>5. PICK row : row = [[[h EXCEPT !.state = "ready"] EXCEPT !.etag = x.etag] EXCEPT !.revision = n] OBVIOUS
<1>6. row = [[To(c, "ready") EXCEPT !.etag = fileCalls[c].etag] EXCEPT !.revision = Held(c).revision + 1]
  BY <1>1, <1>2, <1>4, <1>5 DEF To
<1>7. x.etag \in Nat BY DEF FileCall
<1>8. row \in FileRecord /\ row.state = "ready" /\ row.revision = n /\ row.uploadExpiresAt = h.uploadExpiresAt
      /\ row.etag = x.etag
  BY <1>5, <1>7 DEF FileRecord, FileStates
<1>9. RowIsTrue(row, object, credential, Gone)
  <2>1. n # 0 /\ n > 0 BY <1>4 DEF FileRecord
  <2>. QED BY <1>3, <1>8, <2>1 DEF FileInv, RowIsTrue
<1>10. \A b \in BOOLEAN : Fails(c, b) => Falls(c) BY <1>2, <1>3 DEF Fails, Becomes, Falls
<1>11. NoFileCall \in FileCall /\ NoFileCall.pc = "idle" BY <1>0, CallFacts
<1>12. \/ Holds(fileCalls[c], fileRow) /\ fileRow' = row /\ fileCalls' = [fileCalls EXCEPT ![c] = NoFileCall]
       \/ fileRow' = fileRow /\ Falls(c)
       \/ Holds(fileCalls[c], fileRow) /\ fileRow' = row /\ Falls(c)
  <2>1. Holds(fileCalls[c], fileRow) <=> fileRow.revision = Held(c).revision BY <1>0, CallFacts
  <2>2. Transition(c, [To(c, "ready") EXCEPT !.etag = fileCalls[c].etag], "idle",
                   Fails(c, fileCalls[c].op = "complete"), Fails(c, TRUE))
    BY DEF PublishFile
  <2>. QED BY <1>6, <1>10, <2>1, <2>2 DEF Transition, Becomes
<1>13. row.state # "none" /\ row.revision = Held(c).revision + 1 /\ Held(c).state \notin Over
       /\ Held(c).state \notin {"deleting", "deleted"}
  BY <1>2, <1>3, <1>4, <1>8 DEF Over
<1>. QED BY <1>0, <1>8, <1>9, <1>11, <1>12, <1>13, TransitionKeeps

LEMMA FailFileKeeps == ASSUME FileInv, NEW c \in FileCalls, Fail(c) PROVE FileInv'
<1>0. ~CallAt(c, "idle") /\ fileCalls[c].pc = "fail" /\ UNCHANGED <<credential, fileClock, stored>>
  BY DEF Fail, CallAt
<1>1. PICK x \in FileCall : x = fileCalls[c] BY DEF FileInv, FileTypes
<1>2. PICK h \in FileRecord : h = Held(c) BY <1>0, CallFacts
<1>3. h.state = "uploading" \/ (h.state = "pending" /\ ~x.cleanup)
  BY <1>0, <1>1, <1>2, CallFacts DEF Knows, Held
<1>4. PICK n \in Nat : n = h.revision + 1 BY DEF FileRecord
<1>5. PICK row : row = Restated(h, "failed", n) OBVIOUS
<1>6. row = [To(c, "failed") EXCEPT !.revision = Held(c).revision + 1] BY <1>2, <1>4, <1>5 DEF Restated, To
<1>7. "failed" \in FileStates BY DEF FileStates
<1>8. row \in FileRecord /\ row.state = "failed" /\ row.revision = n /\ row.uploadExpiresAt = h.uploadExpiresAt
  BY <1>5, <1>7, RestatedIs
<1>9. Held(c) = fileRow => RowIsTrue(row, object, credential, Gone)
  <2>1. n # 0 /\ n > 0 BY <1>4 DEF FileRecord
  <2>. QED BY <1>2, <1>8, <2>1 DEF FileInv, RowIsTrue
<1>10. "cleanup" \in FilePcs BY DEF FilePcs
<1>11. PICK r \in FileCall : r = WithRow(x, "cleanup", row) /\ r.pc = "cleanup" /\ r.file = row BY <1>8, <1>10, WithRowIs
<1>12. Knows(r, row) /\ KnowsObject(r, row, object, Gone) BY <1>8, <1>11 DEF Knows, KnowsObject, FileRecord, Over
<1>13. Goes(c, "lookup") => Falls(c)
  <2>1. x.cleanup \in BOOLEAN BY DEF FileCall
  <2>2. [x EXCEPT !.pc = "lookup"] = [x EXCEPT !.pc = "lookup", !.cleanup = x.cleanup] BY DEF FileCall
  <2>. QED BY <1>1, <1>2, <1>3, <2>1, <2>2 DEF Goes, Becomes, Falls
<1>14. \/ Holds(fileCalls[c], fileRow) /\ fileRow' = row /\ fileCalls' = [fileCalls EXCEPT ![c] = r]
       \/ fileRow' = fileRow /\ Falls(c)
       \/ Holds(fileCalls[c], fileRow) /\ fileRow' = row /\ Falls(c)
  <2>1. Holds(fileCalls[c], fileRow) <=> fileRow.revision = Held(c).revision BY <1>0, CallFacts
  <2>2. Transition(c, To(c, "failed"), "cleanup", Goes(c, "lookup"), Goes(c, "lookup")) BY DEF Fail
  <2>. QED BY <1>1, <1>6, <1>11, <1>13, <2>1, <2>2 DEF Transition, Becomes, WithRow
<1>15. row.state # "none" /\ row.revision = Held(c).revision + 1 /\ Held(c).state \notin Over
       /\ Held(c).state \notin {"deleting", "deleted"}
  BY <1>2, <1>3, <1>4, <1>8 DEF Over
<1>. QED BY <1>0, <1>8, <1>9, <1>12, <1>14, <1>15, TransitionKeeps

LEMMA RemoveKeeps == ASSUME FileInv, NEW c \in FileCalls, Remove(c) PROVE FileInv'
<1>0. ~CallAt(c, "idle") /\ fileCalls[c].pc = "remove" /\ UNCHANGED <<credential, fileClock, stored>>
  BY DEF Remove, CallAt
<1>1. PICK x \in FileCall : x = fileCalls[c] BY DEF FileInv, FileTypes
<1>2. PICK h \in FileRecord : h = Held(c) BY <1>0, CallFacts
<1>3. h.state \notin {"uploading", "deleted"} BY <1>0, <1>1, <1>2, CallFacts DEF Knows, Held
<1>4. PICK n \in Nat : n = h.revision + 1 BY DEF FileRecord
<1>5. PICK row : row = Restated(h, "deleting", n) OBVIOUS
<1>6. row = [To(c, "deleting") EXCEPT !.revision = Held(c).revision + 1] BY <1>2, <1>4, <1>5 DEF Restated, To
<1>7. "deleting" \in FileStates BY DEF FileStates
<1>8. row \in FileRecord /\ row.state = "deleting" /\ row.revision = n /\ row.uploadExpiresAt = h.uploadExpiresAt
  BY <1>5, <1>7, RestatedIs
<1>9. CASE ~MayDelete(Held(c)) BY <1>0, <1>9, EndKeeps, StoredStays DEF Remove
<1>10. CASE MayDelete(Held(c))
  <2>1. Held(c) = fileRow => RowIsTrue(row, object, credential, Gone)
    <3>1. n # 0 /\ n > 0 BY <1>4 DEF FileRecord
    <3>2. Held(c) = fileRow => fileClock >= credential
      BY <1>10 DEF FileInv, FileTypes, RowIsTrue, MayDelete
    <3>. QED BY <1>2, <1>8, <3>1, <3>2 DEF FileInv, RowIsTrue
  <2>2. "unlink" \in FilePcs BY DEF FilePcs
  <2>3. PICK r \in FileCall : r = WithRow(x, "unlink", row) /\ r.pc = "unlink" /\ r.file = row BY <1>8, <2>2, WithRowIs
  <2>4. Knows(r, row) /\ KnowsObject(r, row, object, Gone) BY <1>8, <2>3 DEF Knows, KnowsObject, FileRecord
  <2>5. \/ Holds(fileCalls[c], fileRow) /\ fileRow' = row /\ fileCalls' = [fileCalls EXCEPT ![c] = r]
        \/ fileRow' = fileRow /\ FileCallEnds(c)
        \/ Holds(fileCalls[c], fileRow) /\ fileRow' = row /\ FileCallEnds(c)
    <3>1. Holds(fileCalls[c], fileRow) <=> fileRow.revision = Held(c).revision BY <1>0, CallFacts
    <3>2. Transition(c, To(c, "deleting"), "unlink", FileCallEnds(c), FileCallEnds(c)) BY <1>10 DEF Remove
    <3>. QED BY <1>1, <1>6, <2>3, <3>1, <3>2 DEF Transition, Becomes, WithRow
  <2>6. row.state # "none" /\ row.revision = Held(c).revision + 1 /\ row.state \in Over
        /\ row.state \in {"deleting", "deleted"}
    BY <1>2, <1>4, <1>8 DEF Over
  <2>. QED BY <1>0, <1>8, <2>1, <2>4, <2>5, <2>6, TransitionKeeps DEF Falls
<1>. QED BY <1>9, <1>10

LEMMA RemovedKeeps == ASSUME FileInv, NEW c \in FileCalls, Removed(c) PROVE FileInv'
<1>0. ~CallAt(c, "idle") /\ fileCalls[c].pc = "removed" /\ UNCHANGED <<credential, fileClock, stored>>
  BY DEF Removed, CallAt
<1>2. PICK h \in FileRecord : h = Held(c) BY <1>0, CallFacts
<1>3. Gone /\ fileRow.state \in {"deleting", "deleted"} BY <1>0, CallFacts DEF KnowsObject
<1>4. PICK n \in Nat : n = h.revision + 1 BY DEF FileRecord
<1>5. PICK row : row = Restated(h, "deleted", n) OBVIOUS
<1>6. row = [To(c, "deleted") EXCEPT !.revision = Held(c).revision + 1] BY <1>2, <1>4, <1>5 DEF Restated, To
<1>7. "deleted" \in FileStates BY DEF FileStates
<1>8. row \in FileRecord /\ row.state = "deleted" /\ row.revision = n /\ row.uploadExpiresAt = h.uploadExpiresAt
  BY <1>5, <1>7, RestatedIs
<1>9. Held(c) = fileRow => RowIsTrue(row, object, credential, Gone)
  <2>1. n # 0 /\ n > 0 BY <1>4 DEF FileRecord
  <2>. QED BY <1>2, <1>3, <1>8, <2>1 DEF FileInv, RowIsTrue
<1>10. NoFileCall \in FileCall /\ NoFileCall.pc = "idle" BY <1>0, CallFacts
<1>11. \/ Holds(fileCalls[c], fileRow) /\ fileRow' = row /\ fileCalls' = [fileCalls EXCEPT ![c] = NoFileCall]
       \/ fileRow' = fileRow /\ FileCallEnds(c)
       \/ Holds(fileCalls[c], fileRow) /\ fileRow' = row /\ FileCallEnds(c)
  <2>1. Holds(fileCalls[c], fileRow) <=> fileRow.revision = Held(c).revision BY <1>0, CallFacts
  <2>2. Transition(c, To(c, "deleted"), "idle", FileCallEnds(c), FileCallEnds(c)) BY DEF Removed
  <2>. QED BY <1>6, <2>1, <2>2 DEF Transition, Becomes
<1>12. row.state # "none" /\ row.revision = Held(c).revision + 1 /\ row.state \in Over
       /\ row.state \in {"deleting", "deleted"}
  BY <1>2, <1>4, <1>8 DEF Over
<1>. QED BY <1>0, <1>8, <1>9, <1>10, <1>11, <1>12, TransitionKeeps DEF Falls

LEMMA NoCallIs == NoFileCall \in FileCall /\ NoFileCall.pc = "idle"
BY DEF NoFileCall, NoFile, FileCall, FilePcs, FileRecord, FileStates

LEMMA OfferKeeps == ASSUME FileInv, NEW c \in FileCalls, Offer(c) PROVE FileInv'
<1>0. ~CallAt(c, "idle") /\ fileCalls[c].pc = "offer" /\ UNCHANGED <<fileClock, stored>>
  BY DEF Offer, CallAt
<1>1. PICK x \in FileCall : x = fileCalls[c] BY DEF FileInv, FileTypes
<1>2. PICK h \in FileRecord : h = Held(c) BY <1>0, CallFacts
<1>3. h.state = "pending" /\ h.revision = 0 /\ h = [NoFile EXCEPT !.state = "pending"]
  BY <1>0, <1>1, <1>2, CallFacts DEF Knows, Held, NoFile
<1>4. x.link \in Int BY DEF FileCall
<1>5. PICK row : row = [[h EXCEPT !.uploadExpiresAt = x.link] EXCEPT !.revision = 1] OBVIOUS
<1>6. row = [[Held(c) EXCEPT !.uploadExpiresAt = fileCalls[c].link] EXCEPT !.revision = Held(c).revision + 1]
  BY <1>1, <1>2, <1>3, <1>5
<1>8. row \in FileRecord /\ row.state = "pending" /\ row.revision = 1 /\ row.uploadExpiresAt = x.link
  BY <1>3, <1>4, <1>5 DEF FileRecord
<1>9. Held(c) = fileRow => RowIsTrue(row, object, credential, Gone)
  <2>1. Held(c) = fileRow => fileRow.revision = 0 BY <1>2, <1>3
  <2>2. Held(c) = fileRow => credential = 0 BY <2>1 DEF FileInv, RowIsTrue
  <2>. QED BY <1>8, <2>2 DEF RowIsTrue
<1>10. Fails(c, FALSE) => Falls(c) BY <1>2, <1>3 DEF Fails, Becomes, Falls
<1>11. Holds(fileCalls[c], fileRow) <=> fileRow.revision = Held(c).revision BY <1>0, CallFacts
<1>12. \/ /\ Holds(fileCalls[c], fileRow) /\ fileRow' = row /\ fileCalls' = [fileCalls EXCEPT ![c] = NoFileCall]
          /\ UNCHANGED fileFaults
       \/ fileRow' = fileRow /\ Fails(c, FALSE)
       \/ Holds(fileCalls[c], fileRow) /\ fileRow' = row /\ Fails(c, FALSE)
  <2>1. Transition(c, [Held(c) EXCEPT !.uploadExpiresAt = fileCalls[c].link], "idle", Fails(c, FALSE), Fails(c, FALSE))
    BY DEF Offer
  <2>. QED BY <1>6, <1>11, <2>1 DEF Transition, Becomes
<1>13. row.state # "none" /\ row.revision = Held(c).revision + 1 /\ Held(c).state \notin Over
       /\ Held(c).state \notin {"deleting", "deleted"}
  BY <1>2, <1>3, <1>8 DEF Over
<1>14. CASE /\ Holds(fileCalls[c], fileRow) /\ fileRow' = row /\ fileCalls' = [fileCalls EXCEPT ![c] = NoFileCall]
            /\ UNCHANGED fileFaults
  <2>1. NoFileCall \in FileCall /\ NoFileCall.pc = "idle" BY <1>0, CallFacts
  <2>2. fileCalls'[c] = NoFileCall BY <1>14 DEF FileInv, FileTypes
  <2>3. credential' = x.link BY <1>1, <1>14, <2>2 DEF Offer
  <2>4. RowIsTrue(row, object, credential', Gone) BY <1>8, <2>3 DEF RowIsTrue
  <2>5. Held(c) = fileRow BY <1>0, <1>14, CallFacts
  <2>6. fileRow.state \notin Over /\ fileRow.state \notin {"deleting", "deleted"} /\ row.revision = fileRow.revision + 1
    BY <1>13, <2>5
  <2>. QED BY <1>0, <1>4, <1>8, <1>13, <1>14, <2>1, <2>3, <2>4, <2>6, RowMoves
<1>15. CASE Fails(c, FALSE) /\ (fileRow' = fileRow \/ (Holds(fileCalls[c], fileRow) /\ fileRow' = row))
  <2>1. fileCalls'[c].pc = "fail"
    <3>1. fileCalls'[c] = [x EXCEPT !.pc = "fail", !.cleanup = FALSE] BY <1>1, <1>15 DEF Fails, Becomes, FileInv, FileTypes
    <3>. QED BY <3>1 DEF FileCall
  <2>2. UNCHANGED credential BY <2>1 DEF Offer, NoFileCall
  <2>. QED BY <1>0, <1>8, <1>9, <1>10, <1>13, <1>15, <2>2, TransitionKeeps
<1>. QED BY <1>12, <1>14, <1>15

LEMMA InsertKeeps == ASSUME FileInv, NEW c \in FileCalls, NEW op \in {"upload", "begin"}, Insert(c, op) PROVE FileInv'
<1>0. /\ fileCalls[c].pc = "idle" /\ fileRow = NoFile /\ fileRow' = [NoFile EXCEPT !.state = "pending"]
      /\ UNCHANGED <<credential, fileClock, stored>>
  BY DEF Insert, CallAt
<1>1. PICK row \in FileRecord : row = [NoFile EXCEPT !.state = "pending"]
  <2>1. [NoFile EXCEPT !.state = "pending"] \in FileRecord BY DEF NoFile, FileRecord, FileStates
  <2>. QED BY <2>1
<1>2. row.state = "pending" /\ row.revision = 0 BY <1>1 DEF NoFile
<1>3. \A d \in FileCalls : fileCalls[d].pc = "idle" BY <1>0 DEF FileInv, Knows, NoFile
<1>4. RowIsTrue(row, object, credential, Gone) BY <1>0, <1>2 DEF FileInv, RowIsTrue, NoFile
<1>5. OneUploader' BY <1>0, <1>1, <1>2 DEF OneUploader
<1>9. object' = object /\ (Gone' <=> Gone) BY <1>0, StoredStays
<1>6. RowIsTrue(fileRow, object, credential, Gone)' BY <1>0, <1>1, <1>4, <1>9 DEF RowIsTrue
<1>7. CASE UNCHANGED fileCalls
  <2>1. FileTypes' BY <1>0, <1>1, <1>7 DEF FileInv, FileTypes, stored
  <2>. QED BY <1>3, <1>5, <1>6, <1>7, <2>1 DEF FileInv
<1>8. CASE fileCalls' = [fileCalls EXCEPT ![c] =
               [NoFileCall EXCEPT !.op = op, !.file = row, !.pc = IF op = "upload" THEN "claim" ELSE "sign"]]
  <2>1. PICK r \in FileCall : r = [NoFileCall EXCEPT !.op = op, !.file = row, !.pc = IF op = "upload" THEN "claim" ELSE "sign"]
    <3>1. [NoFileCall EXCEPT !.op = op, !.file = row, !.pc = IF op = "upload" THEN "claim" ELSE "sign"] \in FileCall
      <4>1. PICK x \in FileCall : x = NoFileCall BY NoCallIs
      <4>2. PICK pc \in FilePcs : pc = IF op = "upload" THEN "claim" ELSE "sign" BY DEF FilePcs
      <4>3. [x EXCEPT !.op = op, !.file = row, !.pc = pc] \in FileCall BY DEF FileCall
      <4>. QED BY <4>1, <4>2, <4>3
    <3>. QED BY <3>1
  <2>2. r.pc \in {"claim", "sign"} /\ r.file = row BY <2>1 DEF NoFileCall
  <2>3. Knows(r, row) /\ KnowsObject(r, row, object, Gone) BY <1>1, <1>2, <2>2 DEF Knows, KnowsObject
  <2>4. \A d \in FileCalls : fileCalls'[d] = IF d = c THEN r ELSE fileCalls[d] BY <1>8, <2>1 DEF FileInv, FileTypes
  <2>5. FileTypes' BY <1>0, <1>1, <1>8, <2>1 DEF FileInv, FileTypes, stored
  <2>6. \A d \in FileCalls : fileCalls'[d].pc # "idle" => Knows(fileCalls'[d], row) /\ KnowsObject(fileCalls'[d], row, object, Gone)
    BY <1>3, <2>3, <2>4
  <2>7. \A d \in FileCalls : fileCalls'[d].pc # "idle" => KnowsObject(fileCalls'[d], row, object', Gone')
    BY <1>9, <2>6 DEF KnowsObject
  <2>. QED BY <1>0, <1>1, <1>5, <1>6, <2>5, <2>6, <2>7 DEF FileInv
<1>. QED BY <1>1, <1>7, <1>8 DEF Insert, Becomes

LEMMA LoadFileKeeps == ASSUME FileInv, NEW c \in FileCalls, NEW op \in {"complete", "delete"}, LoadFile(c, op) PROVE FileInv'
<1>0. /\ fileCalls[c].pc = "idle" /\ fileRow # NoFile /\ UNCHANGED <<fileRow, credential, fileClock, stored>>
      /\ op = "complete" => fileRow.state = "pending"
      /\ op = "delete" => fileRow.state \notin {"deleted", "uploading"}
  BY DEF LoadFile, CallAt
<1>1. fileRow \in FileRecord /\ Stores BY <1>0, StoredStays DEF FileInv, FileTypes
<1>2. PICK r \in FileCall : r = [NoFileCall EXCEPT !.op = op, !.file = fileRow, !.pc = IF op = "complete" THEN "claim" ELSE "remove"]
  <2>1. [NoFileCall EXCEPT !.op = op, !.file = fileRow, !.pc = IF op = "complete" THEN "claim" ELSE "remove"] \in FileCall
    <3>1. PICK x \in FileCall : x = NoFileCall BY NoCallIs
    <3>2. PICK pc \in FilePcs : pc = IF op = "complete" THEN "claim" ELSE "remove" BY DEF FilePcs
    <3>3. [x EXCEPT !.op = op, !.file = fileRow, !.pc = pc] \in FileCall BY <1>1 DEF FileCall
    <3>. QED BY <3>1, <3>2, <3>3
  <2>. QED BY <2>1
<1>3. r.pc = (IF op = "complete" THEN "claim" ELSE "remove") /\ r.file = fileRow BY <1>2 DEF NoFileCall
<1>4. fileRow.state # "none" BY <1>0 DEF FileInv, RowIsTrue
<1>5. Knows(r, fileRow) /\ KnowsObject(r, fileRow, object', Gone') BY <1>0, <1>1, <1>3, <1>4 DEF Knows, KnowsObject, FileRecord
<1>6. fileCalls' = [fileCalls EXCEPT ![c] = r] BY <1>2 DEF LoadFile, Becomes
<1>7. fileRow.state # "uploading" BY <1>0
<1>. QED BY <1>0, <1>1, <1>5, <1>6, <1>7, CallMoves

(* The calls of the storage and the lookup.                                *)
LEMMA SendStores == ASSUME FileInv, Sends, fileRow.state \notin {"deleting", "deleted"} PROVE Stores
BY DEF FileInv, FileTypes, Sends, Stores

LEMMA SendPutKeeps == ASSUME FileInv, NEW c \in FileCalls, SendPut(c) PROVE FileInv'
<1>0. /\ ~CallAt(c, "idle") /\ fileCalls[c].pc = "put" /\ UNCHANGED <<fileRow, credential, fileClock>> /\ Sends
      /\ fileCalls' = [fileCalls EXCEPT ![c] = [fileCalls[c] EXCEPT !.pc = "sent", !.etag = puts']]
  BY DEF SendPut, CallAt, Becomes
<1>1. PICK x \in FileCall : x = fileCalls[c] BY DEF FileInv, FileTypes
<1>2. x.file = fileRow /\ fileRow.state = "uploading" /\ Knows(x, fileRow) BY <1>0, <1>1, CallFacts DEF Knows
<1>3. Stores BY <1>0, <1>2, SendStores
<1>4. puts' \in Nat /\ puts' # 0 BY <1>0 DEF Sends, FileInv, FileTypes
<1>5. "sent" \in FilePcs BY DEF FilePcs
<1>6. PICK r \in FileCall : r = [x EXCEPT !.pc = "sent", !.etag = puts'] BY <1>4, <1>5 DEF FileCall
<1>7. r.pc = "sent" /\ r.etag = puts' /\ r.file = x.file BY <1>6 DEF FileCall
<1>8. Knows(r, fileRow) BY <1>2, <1>7 DEF Knows
<1>9. KnowsObject(r, fileRow, object', Gone') BY <1>4, <1>7 DEF KnowsObject
<1>10. Holds(r, fileRow) => Holds(fileCalls[c], fileRow) BY <1>0, <1>1, <1>7 DEF Holds
<1>. QED BY <1>0, <1>1, <1>3, <1>6, <1>8, <1>9, <1>10, CallMoves

LEMMA PutEndsKeeps == ASSUME FileInv, NEW c \in FileCalls, PutEnds(c) PROVE FileInv'
<1>0. ~CallAt(c, "idle") /\ fileCalls[c].pc = "sent" /\ UNCHANGED <<fileRow, credential, fileClock, stored>>
  BY DEF PutEnds, CallAt
<1>1. PICK x \in FileCall : x = fileCalls[c] BY DEF FileInv, FileTypes
<1>2. /\ Held(c) = fileRow /\ x.file = fileRow /\ fileRow.state = "uploading"
      /\ Knows(x, fileRow) /\ KnowsObject(x, fileRow, object, Gone)
  BY <1>0, <1>1, CallFacts DEF Knows, Held
<1>3. Stores /\ object' = object BY <1>0, StoredStays
<1>4. CASE \E b \in BOOLEAN : Fails(c, b)
  <2>1. PICK b \in BOOLEAN : Fails(c, b) BY <1>4
  <2>2. fileCalls' = [fileCalls EXCEPT ![c] = [fileCalls[c] EXCEPT !.pc = "fail", !.cleanup = b]] BY <2>1 DEF Fails, Becomes
  <2>. QED BY <1>0, <1>2, <1>3, <2>2, FailKeeps
<1>5. CASE object = fileCalls[c].etag /\ Goes(c, "publish")
  <2>1. "publish" \in FilePcs BY DEF FilePcs
  <2>2. PICK r \in FileCall : r = [x EXCEPT !.pc = "publish"] BY <2>1 DEF FileCall
  <2>3. r.pc = "publish" /\ r.etag = x.etag /\ r.file = x.file BY <2>2 DEF FileCall
  <2>4. Knows(r, fileRow) BY <1>2, <2>3 DEF Knows
  <2>5. KnowsObject(r, fileRow, object', Gone') BY <1>0, <1>1, <1>2, <1>3, <1>5, <2>3 DEF KnowsObject
  <2>6. fileCalls' = [fileCalls EXCEPT ![c] = r] BY <1>1, <1>5, <2>2 DEF Goes, Becomes
  <2>7. Holds(r, fileRow) => Holds(fileCalls[c], fileRow) BY <1>0, <1>1, <2>3 DEF Holds
  <2>. QED BY <1>0, <1>3, <2>4, <2>5, <2>6, <2>7, CallMoves
<1>. QED BY <1>4, <1>5 DEF PutEnds

(* The storage settles a PUT: it only creates, and when the file is being  *)
(* deleted it is one of those that were under way.                         *)
LEMMA SettleKeeps == ASSUME FileInv, NEW p \in flight, Settle(p) PROVE FileInv'
<1>0. /\ flight' = flight \ {p} /\ object' \in {object, IF object = 0 THEN p ELSE object}
      /\ UNCHANGED <<fileRow, credential, fileCalls, fileClock, puts, stale>>
  BY DEF Settle
<1>1. FileTypes' BY <1>0 DEF FileInv, FileTypes
<1>2. object # 0 => object' = object BY <1>0
<1>3. Gone => Gone' BY <1>0 DEF Gone
<1>4. OneUploader' BY <1>0 DEF FileInv, OneUploader
<1>5. RowIsTrue(fileRow, object, credential, Gone)' BY <1>0, <1>2, <1>3 DEF FileInv, RowIsTrue
<1>6. \A d \in FileCalls : fileCalls'[d].pc # "idle" => /\ Knows(fileCalls'[d], fileRow)
                                                        /\ KnowsObject(fileCalls'[d], fileRow, object', Gone')
  BY <1>0, <1>2, <1>3 DEF FileInv, KnowsObject
<1>. QED BY <1>0, <1>1, <1>4, <1>5, <1>6 DEF FileInv

LEMMA HeadObjectKeeps == ASSUME FileInv, NEW c \in FileCalls, HeadObject(c) PROVE FileInv'
<1>0. ~CallAt(c, "idle") /\ fileCalls[c].pc = "head" /\ UNCHANGED <<fileRow, credential, fileClock, stored>>
  BY DEF HeadObject, CallAt
<1>1. PICK x \in FileCall : x = fileCalls[c] BY DEF FileInv, FileTypes
<1>2. Held(c) = fileRow /\ fileRow.state = "uploading" /\ Knows(x, fileRow) BY <1>0, <1>1, CallFacts DEF Knows, Held
<1>3. Holds(x, fileRow) BY <1>0, <1>1, <1>2 DEF Holds, Held
<1>4. Stores /\ object \in Nat /\ object' = object BY <1>0, StoredStays DEF FileInv, FileTypes
<1>5. CASE Fails(c, TRUE)
  <2>1. TRUE \in BOOLEAN /\ fileCalls' = [fileCalls EXCEPT ![c] = [fileCalls[c] EXCEPT !.pc = "fail", !.cleanup = TRUE]]
    BY <1>5 DEF Fails, Becomes
  <2>. QED BY <1>0, <1>1, <1>2, <1>3, <1>4, <2>1, FailKeeps
<1>6. CASE object # 0 /\ Becomes(c, [fileCalls[c] EXCEPT !.pc = "publish", !.etag = object])
  <2>1. "publish" \in FilePcs BY DEF FilePcs
  <2>2. PICK r \in FileCall : r = [x EXCEPT !.pc = "publish", !.etag = object] BY <1>4, <2>1 DEF FileCall
  <2>3. r.pc = "publish" /\ r.etag = object /\ r.file = x.file BY <2>2 DEF FileCall
  <2>4. Knows(r, fileRow) BY <1>0, <1>1, <1>2, <2>3 DEF Knows
  <2>5. KnowsObject(r, fileRow, object', Gone') BY <1>4, <1>6, <2>3 DEF KnowsObject
  <2>6. fileCalls' = [fileCalls EXCEPT ![c] = r] BY <1>1, <1>6, <2>2 DEF Becomes
  <2>. QED BY <1>0, <1>1, <1>2, <1>3, <1>4, <2>4, <2>5, <2>6, CallMoves
<1>. QED BY <1>5, <1>6 DEF HeadObject

LEMMA SignKeeps == ASSUME FileInv, NEW c \in FileCalls, Sign(c) PROVE FileInv'
<1>0. ~CallAt(c, "idle") /\ fileCalls[c].pc = "sign" /\ UNCHANGED <<fileRow, credential, fileClock, stored>>
  BY DEF Sign, CallAt
<1>1. PICK x \in FileCall : x = fileCalls[c] BY DEF FileInv, FileTypes
<1>2. x.file = [NoFile EXCEPT !.state = "pending"] /\ Knows(x, fileRow) BY <1>0, <1>1, CallFacts DEF Knows
<1>3. Stores /\ object' = object BY <1>0, StoredStays
<1>4. Held(c).state = "pending" BY <1>1, <1>2 DEF Held, NoFile
<1>5. CASE Fails(c, FALSE)
  <2>1. FALSE \in BOOLEAN /\ fileCalls' = [fileCalls EXCEPT ![c] = [fileCalls[c] EXCEPT !.pc = "fail", !.cleanup = FALSE]]
    BY <1>5 DEF Fails, Becomes
  <2>. QED BY <1>0, <1>3, <1>4, <2>1, FailKeeps
<1>6. CASE Becomes(c, [fileCalls[c] EXCEPT !.pc = "offer", !.link = fileClock + UploadLife])
  <2>1. "offer" \in FilePcs /\ fileClock + UploadLife \in Int BY DEF FilePcs, FileInv, FileTypes
  <2>2. PICK r \in FileCall : r = [x EXCEPT !.pc = "offer", !.link = fileClock + UploadLife] BY <2>1 DEF FileCall
  <2>3. r.pc = "offer" /\ r.file = x.file BY <2>2 DEF FileCall
  <2>4. Knows(r, fileRow) BY <1>2, <2>3 DEF Knows
  <2>5. KnowsObject(r, fileRow, object', Gone') BY <2>3 DEF KnowsObject
  <2>6. fileCalls' = [fileCalls EXCEPT ![c] = r] BY <1>1, <1>6, <2>2 DEF Becomes
  <2>7. Holds(r, fileRow) => Holds(fileCalls[c], fileRow) BY <1>0, <1>1, <2>3 DEF Holds
  <2>. QED BY <1>0, <1>3, <2>4, <2>5, <2>6, <2>7, CallMoves
<1>. QED BY <1>5, <1>6 DEF Sign

LEMMA LookupFileKeeps == ASSUME FileInv, NEW c \in FileCalls, LookupFile(c) PROVE FileInv'
<1>0. ~CallAt(c, "idle") /\ fileCalls[c].pc = "lookup" /\ UNCHANGED <<fileRow, credential, fileClock, stored>>
  BY DEF LookupFile, CallAt
<1>1. PICK x \in FileCall : x = fileCalls[c] BY DEF FileInv, FileTypes
<1>2. Knows(x, fileRow) BY <1>0, <1>1, CallFacts
<1>3. Stores /\ object' = object BY <1>0, StoredStays
<1>4. CASE FileCallEnds(c) BY <1>0, <1>3, <1>4, EndKeeps
<1>5. CASE Claimed(c) /\ Goes(c, "cleanup")
  <2>1. "cleanup" \in FilePcs BY DEF FilePcs
  <2>2. PICK r \in FileCall : r = [x EXCEPT !.pc = "cleanup"] BY <2>1 DEF FileCall
  <2>3. r.pc = "cleanup" /\ r.file = x.file BY <2>2 DEF FileCall
  <2>4. Knows(r, fileRow) BY <1>2, <2>3 DEF Knows
  <2>5. KnowsObject(r, fileRow, object', Gone') BY <1>5, <2>3 DEF KnowsObject, Claimed, Over
  <2>6. fileCalls' = [fileCalls EXCEPT ![c] = r] BY <1>1, <1>5, <2>2 DEF Goes, Becomes
  <2>7. Holds(r, fileRow) => Holds(fileCalls[c], fileRow) BY <1>0, <1>1, <2>3 DEF Holds
  <2>. QED BY <1>0, <1>3, <2>4, <2>5, <2>6, <2>7, CallMoves
<1>. QED BY <1>4, <1>5 DEF LookupFile

(* The object goes, or not.                                                *)
LEMMA CleanupKeeps == ASSUME FileInv, NEW c \in FileCalls, Cleanup(c) PROVE FileInv'
<1>0. /\ ~CallAt(c, "idle") /\ fileCalls[c].pc = "cleanup" /\ FileCallEnds(c)
      /\ UNCHANGED <<fileRow, flight, credential, fileClock, puts, stale>>
  BY DEF Cleanup, CallAt
<1>1. KnowsObject(fileCalls[c], fileRow, object, Gone) BY <1>0, CallFacts
<1>2. object' = object \/ (fileRow.state \in Over /\ object' = 0) BY <1>0, <1>1 DEF Cleanup, KnowsObject
<1>3. Stores BY <1>0, <1>2 DEF FileInv, FileTypes, Stores, Gone
<1>. QED BY <1>0, <1>3, EndKeeps

LEMMA UnlinkKeeps == ASSUME FileInv, NEW c \in FileCalls, Unlink(c) PROVE FileInv'
<1>0. /\ ~CallAt(c, "idle") /\ fileCalls[c].pc = "unlink"
      /\ UNCHANGED <<fileRow, flight, credential, fileClock, puts>>
  BY DEF Unlink, CallAt
<1>1. PICK x \in FileCall : x = fileCalls[c] BY DEF FileInv, FileTypes
<1>2. Knows(x, fileRow) /\ fileRow.state \in {"deleting", "deleted"} BY <1>0, <1>1, CallFacts DEF KnowsObject
<1>3. fileRow.state \in Over BY <1>2 DEF Over
<1>4. CASE FileCallEnds(c) /\ object' \in {object, 0} /\ UNCHANGED stale
  <2>1. Stores BY <1>0, <1>3, <1>4 DEF FileInv, FileTypes, Stores, Gone
  <2>. QED BY <1>0, <1>4, <2>1, EndKeeps
<1>5. CASE object' = 0 /\ stale' = flight /\ Goes(c, "removed")
  <2>0. Gone' BY <1>0, <1>5 DEF Gone
  <2>1. "removed" \in FilePcs BY DEF FilePcs
  <2>2. PICK r \in FileCall : r = [x EXCEPT !.pc = "removed"] BY <2>1 DEF FileCall
  <2>3. r.pc = "removed" /\ r.file = x.file BY <2>2 DEF FileCall
  <2>4. Knows(r, fileRow) BY <1>0, <1>1, <1>2, <2>3 DEF Knows
  <2>5. KnowsObject(r, fileRow, object', Gone') BY <1>2, <2>0, <2>3 DEF KnowsObject
  <2>6. fileCalls' = [fileCalls EXCEPT ![c] = r] BY <1>1, <1>5, <2>2 DEF Goes, Becomes
  <2>7. Holds(r, fileRow) => Holds(fileCalls[c], fileRow) BY <1>0, <1>1, <2>3 DEF Holds
  <2>8. Stores BY <1>0, <1>3, <1>5, <2>0 DEF FileInv, FileTypes, Stores
  <2>. QED BY <1>0, <2>4, <2>5, <2>6, <2>7, <2>8, CallMoves
<1>. QED BY <1>4, <1>5 DEF Unlink

(* A client sends only while no deletion has begun.                        *)
LEMMA ClientPutKeeps == ASSUME FileInv, ClientPut PROVE FileInv'
<1>0. fileClock < credential /\ Sends /\ UNCHANGED <<fileRow, credential, fileCalls, fileClock>>
  BY DEF ClientPut
<1>1. fileRow.state \notin {"deleting", "deleted"}
  <2>1. fileClock \in Nat /\ credential \in Int BY DEF FileInv, FileTypes
  <2>. QED BY <1>0, <2>1 DEF FileInv, RowIsTrue
<1>2. Stores /\ object' = object BY <1>0, <1>1, SendStores DEF Sends
<1>3. FileTypes' BY <1>0, <1>2 DEF FileInv, FileTypes, Stores
<1>4. OneUploader' BY <1>0 DEF FileInv, OneUploader
<1>5. RowIsTrue(fileRow, object, credential, Gone)' BY <1>0, <1>1, <1>2 DEF FileInv, RowIsTrue
<1>6. \A d \in FileCalls : fileCalls'[d].pc # "idle" => /\ Knows(fileCalls'[d], fileRow)
                                                        /\ KnowsObject(fileCalls'[d], fileRow, object', Gone')
  BY <1>0, <1>1, <1>2 DEF FileInv, KnowsObject
<1>. QED BY <1>0, <1>3, <1>4, <1>5, <1>6 DEF FileInv

LEMMA FileTickKeeps == ASSUME FileInv, FileTick PROVE FileInv'
<1>0. fileClock' = fileClock + 1 /\ UNCHANGED <<fileRow, credential, fileCalls, stored>> BY DEF FileTick
<1>1. fileClock \in Nat \ {0} /\ credential \in Int BY DEF FileInv, FileTypes
<1>2. FileTypes' BY <1>0, <1>1 DEF FileInv, FileTypes, stored
<1>3. OneUploader' BY <1>0 DEF FileInv, OneUploader
<1>5. object' = object /\ (Gone' <=> Gone) BY <1>0, StoredStays
<1>4. RowIsTrue(fileRow, object, credential, Gone)'
  <2>1. fileClock >= credential => fileClock' >= credential BY <1>0, <1>1
  <2>. QED BY <1>0, <1>5, <2>1 DEF FileInv, RowIsTrue
<1>6. \A d \in FileCalls : fileCalls'[d].pc # "idle" => /\ Knows(fileCalls'[d], fileRow)
                                                        /\ KnowsObject(fileCalls'[d], fileRow, object', Gone')
  BY <1>0, <1>5 DEF FileInv, KnowsObject
<1>. QED BY <1>0, <1>2, <1>3, <1>4, <1>6 DEF FileInv

LEMMA FileStepKeeps == FileInv /\ [FilesNext]_fileVars => FileInv'
<1>. SUFFICES ASSUME FileInv, [FilesNext]_fileVars PROVE FileInv' OBVIOUS
<1>1. CASE UNCHANGED fileVars
  <2>0. UNCHANGED <<fileRow, credential, fileCalls, fileClock, stored>> BY <1>1 DEF fileVars, stored
  <2>1. FileTypes' BY <2>0 DEF stored, FileInv, FileTypes
  <2>2. OneUploader' BY <2>0 DEF FileInv, OneUploader
  <2>3. object' = object /\ (Gone' <=> Gone) BY <2>0, StoredStays
  <2>4. RowIsTrue(fileRow, object, credential, Gone)' BY <2>0, <2>3 DEF FileInv, RowIsTrue
  <2>5. \A d \in FileCalls : fileCalls'[d].pc # "idle" => /\ Knows(fileCalls'[d], fileRow)
                                                          /\ KnowsObject(fileCalls'[d], fileRow, object', Gone')
    BY <2>0, <2>3 DEF FileInv, KnowsObject
  <2>. QED BY <2>0, <2>1, <2>2, <2>4, <2>5 DEF FileInv
<1>2. ASSUME NEW c \in FileCalls, FileCrash(c) PROVE FileInv'
  <2>1. FileCallEnds(c) /\ UNCHANGED <<fileRow, credential, fileClock, stored>> BY <1>2 DEF FileCrash
  <2>. QED BY <2>1, EndKeeps, StoredStays
<1>3. ASSUME NEW c \in FileCalls, FileStep(c) PROVE FileInv'
  BY <1>3, ClaimUploadKeeps, SendPutKeeps, PutEndsKeeps, HeadObjectKeeps, PublishFileKeeps, SignKeeps, OfferKeeps, FailFileKeeps,
     LookupFileKeeps, CleanupKeeps, RemoveKeeps, UnlinkKeeps, RemovedKeeps DEF FileStep
<1>4. ASSUME NEW c \in FileCalls, Insert(c, "upload") \/ Insert(c, "begin") \/ LoadFile(c, "complete") \/ LoadFile(c, "delete")
      PROVE  FileInv'
  BY <1>4, InsertKeeps, LoadFileKeeps
<1>. QED BY <1>1, <1>2, <1>3, <1>4, FileTickKeeps, ClientPutKeeps, SettleKeeps DEF FilesNext

(* A ready file has the object that was checked, and under a deleted one   *)
(* there is none but of a PUT that was under way when the object went      *)
(* (files.ts), for any number of calls, PUTs, faults and crashes.          *)
THEOREM FilesKeepTheirObjects == FilesSpec => []FileKeepsItsObject
<1>1. FileInv => FileKeepsItsObject BY DEF FileInv, RowIsTrue, FileKeepsItsObject, Gone
<1>. QED BY <1>1, FilesStart, FileStepKeeps, PTL DEF FilesSpec

-----------------------------------------------------------------------------
(***************************************************************************)
(* The local object store                                                  *)
(***************************************************************************)
Places == {"unmade", "temp", "object", "tomb", "removed"}
PutPcs == {"payload", "metadata", "lookup", "publish", "clean"}
GetPcs == {"directory", "identify", "read", "open", "load", "confirm", "loaded"}
TombPcs == {"tomb", "scan", "remove"}
DeletePcs == {"directory", "identify", "read", "open", "load", "confirm", "move", "answer"} \cup TombPcs
LocalCall == [pc : {"idle"} \cup PutPcs \cup GetPcs \cup DeletePcs, op : {"none", "put", "get", "delete"},
              dir : Dirs \cup {NoDir}, id : Dirs \cup {NoDir}, meta : Dirs \cup {NoDir}, owed : SUBSET Dirs, moved : BOOLEAN]
LocalTypes == /\ entries \in [Dirs -> SUBSET Parts] /\ place \in [Dirs -> Places]
              /\ locals \in [LocalCalls -> LocalCall]
              /\ published \subseteq Dirs /\ taken \subseteq Dirs

(* What is at each path (at) and in each directory (files).                *)
PathsOk(at, files) ==
  /\ \A d \in Dirs : /\ at[d] \in {"unmade", "removed"} => files[d] = {}
                     /\ at[d] = "object" => files[d] = Parts
  /\ \A d, e \in Dirs : at[d] = at[e] /\ at[d] \in {"object", "tomb"} => d = e

(* Where a call stands.                                                    *)
PutOk(x, at, files) ==
  x.op = "put" => /\ x.pc \in PutPcs /\ x.dir \in Dirs /\ at[x.dir] = "temp"
                  /\ x.pc = "payload" => files[x.dir] = {}
                  /\ x.pc = "metadata" => files[x.dir] = {"payload"}
                  /\ x.pc \in {"lookup", "publish"} => files[x.dir] = Parts
LoadOk(x, at) ==
  x.pc \in {"read", "open", "load", "confirm"} =>
    /\ x.id \in Dirs /\ at[x.id] \in {"object", "tomb", "removed"}
    /\ at[x.id] = "object" => /\ x.pc \in {"load", "confirm"} => x.meta = x.id
                              /\ x.pc = "confirm" => x.dir = x.id
DeleteOk(x, at) ==
  x.op = "delete" => /\ x.pc \in DeletePcs
                     /\ \A d \in x.owed : at[d] \in {"tomb", "removed"} /\ (x.pc \notin TombPcs => at[d] = "removed")
LocalOk(x, at, files) == /\ x.op = "none" => x.pc = "idle"
                         /\ x.op = "get" => x.pc \in GetPcs
                         /\ PutOk(x, at, files) /\ LoadOk(x, at) /\ DeleteOk(x, at)

OwnDirectory == \A c, d \in LocalCalls : locals[c].op = "put" /\ locals[d].op = "put" /\ locals[c].dir = locals[d].dir => c = d

LocalInv == /\ LocalTypes /\ PathsOk(place, entries) /\ OwnDirectory
            /\ \A c \in LocalCalls : LocalOk(locals[c], place, entries)
            /\ \A d \in published \ taken : place[d] = "object"

LEMMA NoLocalIs == /\ NoLocal \in LocalCall /\ NoLocal.op = "none" /\ NoLocal.pc = "idle"
                   /\ \A at, files : LocalOk(NoLocal, at, files)
<1>1. NoLocal \in LocalCall /\ NoLocal.op = "none" /\ NoLocal.pc = "idle"
  BY DEF NoLocal, LocalCall, PutPcs, GetPcs, DeletePcs, TombPcs
<1>. QED BY <1>1 DEF LocalOk, PutOk, LoadOk, DeleteOk

LEMMA LocalStarts == LocalInit => LocalInv
<1>. SUFFICES ASSUME LocalInit PROVE LocalInv OBVIOUS
<1>1. LocalTypes BY NoLocalIs DEF LocalInit, LocalTypes, Places
<1>2. PathsOk(place, entries) BY DEF LocalInit, PathsOk
<1>3. \A c \in LocalCalls : locals[c] = NoLocal BY DEF LocalInit
<1>4. OwnDirectory BY <1>3, NoLocalIs DEF OwnDirectory
<1>5. published = {} BY DEF LocalInit
<1>. QED BY <1>1, <1>2, <1>3, <1>4, <1>5, NoLocalIs DEF LocalInv

(* Where a directory can get.                                              *)
Follows(from, to) == \/ to = from
                     \/ from = "unmade" /\ to = "temp"
                     \/ from = "temp" /\ to \in {"object", "removed"}
                     \/ from \in {"object", "tomb"} /\ to \in {"tomb", "removed"}

(* A call takes a step: the others keep what they rely on, if their        *)
(* directories are left alone.                                             *)
LEMMA LocalMoves ==
  ASSUME LocalInv, NEW c \in LocalCalls, NEW r \in LocalCall, locals' = [locals EXCEPT ![c] = r],
         NEW at \in [Dirs -> Places], NEW files \in [Dirs -> SUBSET Parts], place' = at, entries' = files,
         \A d \in Dirs : Follows(place[d], at[d]),
         \A e \in LocalCalls : e # c /\ locals[e].op = "put" => /\ at[locals[e].dir] = place[locals[e].dir]
                                                               /\ files[locals[e].dir] = entries[locals[e].dir],
         PathsOk(at, files), LocalOk(r, at, files),
         r.op = "put" => \A e \in LocalCalls : e # c /\ locals[e].op = "put" => locals[e].dir # r.dir,
         published' \subseteq Dirs, taken' \subseteq Dirs,
         \A d \in published' \ taken' : at[d] = "object"
  PROVE  LocalInv'
<1>1. LocalTypes' BY DEF LocalInv, LocalTypes
<1>2. \A e \in LocalCalls : locals'[e] = IF e = c THEN r ELSE locals[e] BY DEF LocalInv, LocalTypes
<1>3. OwnDirectory' BY <1>2 DEF LocalInv, OwnDirectory
<1>4. ASSUME NEW e \in LocalCalls PROVE LocalOk(locals'[e], at, files)
  <2>1. CASE e = c BY <1>2, <2>1
  <2>2. CASE e # c
    <3>1. PICK x \in LocalCall : x = locals[e] /\ x = locals'[e] BY <1>2, <2>2 DEF LocalInv, LocalTypes
    <3>2. LocalOk(x, place, entries) BY <3>1 DEF LocalInv
    <3>3. PutOk(x, at, files) BY <2>2, <3>1, <3>2 DEF LocalOk, PutOk
    <3>4. LoadOk(x, at)
      <4>1. \A d \in Dirs : place[d] \in {"object", "tomb", "removed"} =>
              at[d] \in {"object", "tomb", "removed"} /\ (at[d] = "object" => place[d] = "object")
        BY DEF Follows
      <4>. QED BY <3>2, <4>1 DEF LocalOk, LoadOk
    <3>5. DeleteOk(x, at)
      <4>1. \A d \in Dirs : /\ place[d] \in {"tomb", "removed"} => at[d] \in {"tomb", "removed"}
                            /\ place[d] = "removed" => at[d] = "removed"
        BY DEF Follows
      <4>2. x.owed \subseteq Dirs BY DEF LocalCall
      <4>. QED BY <3>2, <4>1, <4>2 DEF LocalOk, DeleteOk
    <3>. QED BY <3>1, <3>2, <3>3, <3>4, <3>5 DEF LocalOk
  <2>. QED BY <2>1, <2>2
<1>. QED BY <1>1, <1>3, <1>4 DEF LocalInv

(* Nothing changes but the call.                                           *)
LEMMA QuietKeeps ==
  ASSUME LocalInv, NEW c \in LocalCalls, NEW r \in LocalCall, locals' = [locals EXCEPT ![c] = r], Keeps(c),
         LocalOk(r, place, entries), r.op = "put" => locals[c].op = "put" /\ r.dir = locals[c].dir
  PROVE  LocalInv'
<1>1. place \in [Dirs -> Places] /\ entries \in [Dirs -> SUBSET Parts] BY DEF LocalInv, LocalTypes
<1>2. place' = place /\ entries' = entries BY DEF Keeps
<1>3. \A d \in Dirs : Follows(place[d], place[d]) BY DEF Follows
<1>4. PathsOk(place, entries) BY DEF LocalInv
<1>5. r.op = "put" => \A e \in LocalCalls : e # c /\ locals[e].op = "put" => locals[e].dir # r.dir
  BY DEF LocalInv, OwnDirectory
<1>6. published' \subseteq Dirs /\ taken' \subseteq Dirs /\ \A d \in published' \ taken' : place[d] = "object"
  BY DEF Keeps, LocalInv, LocalTypes
<1>. QED BY <1>1, <1>2, <1>3, <1>4, <1>5, <1>6, LocalMoves

LEMMA EndsQuietly == ASSUME LocalInv, NEW c \in LocalCalls, LocalEnds(c), Keeps(c) PROVE LocalInv'
<1>1. locals' = [locals EXCEPT ![c] = NoLocal] BY DEF LocalEnds
<1>. QED BY <1>1, NoLocalIs, QuietKeeps

(* put, as far as it changes nothing.                                      *)
LEMMA PutLooks == ASSUME LocalInv, NEW c \in LocalCalls, LookUpObject(c) \/ PutFails(c) PROVE LocalInv'
<1>1. PICK x \in LocalCall : x = locals[c] BY DEF LocalInv, LocalTypes
<1>2. LocalOk(x, place, entries) BY <1>1 DEF LocalInv
<1>3. PICK pc \in {"publish", "clean"} : Steps(c, pc) /\ (pc = "publish" => LAt(c, "lookup")) BY DEF LookUpObject, PutFails
<1>4. Keeps(c) BY DEF LookUpObject, PutFails
<1>5. PICK r \in LocalCall : r = [x EXCEPT !.pc = pc] BY <1>3 DEF LocalCall, PutPcs
<1>6. r.pc = pc /\ r.op = x.op /\ r.dir = x.dir BY <1>5 DEF LocalCall
<1>7. x.op = "put"
  <2>1. CASE PutFails(c) BY <1>1, <2>1 DEF PutFails
  <2>2. CASE LookUpObject(c)
    <3>1. x.pc = "lookup" BY <1>1, <2>2 DEF LookUpObject, LAt
    <3>2. x.op \in {"none", "put", "get", "delete"} BY DEF LocalCall
    <3>. QED BY <1>2, <3>1, <3>2 DEF LocalOk, DeleteOk, GetPcs, DeletePcs, TombPcs
  <2>. QED BY <2>1, <2>2
<1>8. PutOk(r, place, entries)
  <2>1. pc = "publish" => x.pc = "lookup" BY <1>1, <1>3 DEF LAt
  <2>. QED BY <1>2, <1>3, <1>6, <1>7, <2>1 DEF LocalOk, PutOk, PutPcs
<1>9. LocalOk(r, place, entries) BY <1>3, <1>6, <1>7, <1>8 DEF LocalOk, LoadOk, DeleteOk
<1>10. locals' = [locals EXCEPT ![c] = r] BY <1>1, <1>3, <1>5 DEF Steps
<1>. QED BY <1>1, <1>4, <1>6, <1>9, <1>10, QuietKeeps

(* What a call's operation is, by where it stands.                         *)
LEMMA OpIs ==
  ASSUME LocalInv, NEW c \in LocalCalls
  PROVE  /\ locals[c].pc \in PutPcs => locals[c].op = "put"
         /\ locals[c].pc \in {"move", "answer"} \cup TombPcs => locals[c].op = "delete"
         /\ locals[c].pc = "loaded" => locals[c].op = "get"
         /\ locals[c].pc \in {"directory", "identify", "read", "open", "load", "confirm"} => locals[c].op \in {"get", "delete"}
<1>1. PICK x \in LocalCall : x = locals[c] BY DEF LocalInv, LocalTypes
<1>2. LocalOk(x, place, entries) BY <1>1 DEF LocalInv
<1>3. x.op \in {"none", "put", "get", "delete"} BY DEF LocalCall
<1>. QED BY <1>1, <1>2, <1>3 DEF LocalOk, PutOk, DeleteOk, PutPcs, GetPcs, DeletePcs, TombPcs

LookPcs == {"identify", "read", "open", "load", "confirm", "loaded", "move", "answer"}
Looks(x, pc, id, meta, dir) == [x EXCEPT !.pc = pc, !.id = id, !.meta = meta, !.dir = dir]

LEMMA LooksOn ==
  ASSUME LocalInv, NEW c \in LocalCalls, Keeps(c),
         locals[c].pc \in {"directory", "identify", "read", "open", "load", "confirm"},
         NEW pc \in LookPcs, NEW id \in Dirs \cup {NoDir}, NEW meta \in Dirs \cup {NoDir}, NEW dir \in Dirs \cup {NoDir},
         locals' = [locals EXCEPT ![c] = Looks(locals[c], pc, id, meta, dir)],
         pc \in {"move", "answer"} => locals[c].op = "delete",
         pc = "loaded" => locals[c].op = "get",
         pc \in {"read", "open", "load", "confirm"} =>
           /\ id \in Dirs /\ place[id] \in {"object", "tomb", "removed"}
           /\ place[id] = "object" => /\ pc \in {"load", "confirm"} => meta = id
                                      /\ pc = "confirm" => dir = id
  PROVE  LocalInv'
<1>1. PICK x \in LocalCall : x = locals[c] BY DEF LocalInv, LocalTypes
<1>2. LocalOk(x, place, entries) BY <1>1 DEF LocalInv
<1>3. x.op \in {"get", "delete"} BY <1>1, OpIs
<1>4. x.op = "delete" => \A d \in x.owed : place[d] = "removed" BY <1>1, <1>2 DEF LocalOk, DeleteOk, TombPcs
<1>5. pc \in GetPcs \cup DeletePcs BY DEF LookPcs, GetPcs, DeletePcs
<1>6. PICK r \in LocalCall : r = Looks(x, pc, id, meta, dir) BY <1>5 DEF LocalCall, Looks
<1>7. r.pc = pc /\ r.id = id /\ r.meta = meta /\ r.dir = dir /\ r.op = x.op /\ r.owed = x.owed BY <1>6 DEF LocalCall, Looks
<1>8. LoadOk(r, place) BY <1>7 DEF LoadOk
<1>9. DeleteOk(r, place) BY <1>1, <1>4, <1>7 DEF DeleteOk, LookPcs, DeletePcs
<1>10. r.op = "get" => r.pc \in GetPcs BY <1>1, <1>7 DEF LookPcs, GetPcs
<1>11. LocalOk(r, place, entries) BY <1>3, <1>7, <1>8, <1>9, <1>10 DEF LocalOk, PutOk
<1>12. locals' = [locals EXCEPT ![c] = r] BY <1>1, <1>6
<1>. QED BY <1>3, <1>7, <1>11, <1>12, QuietKeeps

(* load(): a look at the path.                                             *)
LEMMA LookKeeps ==
  ASSUME LocalInv, NEW c \in LocalCalls,
         LookAtDirectory(c) \/ Identify(c) \/ ReadDirectory(c) \/ OpenMetadata(c) \/ OpenPayload(c) \/ Confirm(c)
  PROVE  LocalInv'
<1>0. Keeps(c) BY DEF LookAtDirectory, Identify, ReadDirectory, OpenMetadata, OpenPayload, Confirm
<1>1. PICK x \in LocalCall : x = locals[c] BY DEF LocalInv, LocalTypes
<1>2. LocalOk(x, place, entries) BY <1>1 DEF LocalInv
<1>3. x.pc \in {"directory", "identify", "read", "open", "load", "confirm"}
  BY <1>1 DEF LookAtDirectory, Identify, ReadDirectory, OpenMetadata, OpenPayload, Confirm, LAt
<1>4. x.op \in {"get", "delete"} BY <1>1, <1>3, OpIs
<1>5. x.op = "delete" => \A d \in x.owed : place[d] = "removed" BY <1>2, <1>3 DEF LocalOk, DeleteOk, TombPcs
<1>6. \A d \in Dirs : place[d] \in Places BY DEF LocalInv, LocalTypes
<1>7. \A d, e \in Found("object") : d = e BY DEF Found, LocalInv, PathsOk
<1>8. CASE LocalEnds(c) BY <1>0, <1>8, EndsQuietly
<1>10. x.id \in Dirs \cup {NoDir} /\ x.meta \in Dirs \cup {NoDir} /\ x.dir \in Dirs \cup {NoDir} BY DEF LocalCall
<1>11. \A pc : [x EXCEPT !.pc = pc] = Looks(x, pc, x.id, x.meta, x.dir) BY DEF LocalCall, Looks
<1>9. \A pc : Steps(c, pc) => locals' = [locals EXCEPT ![c] = Looks(x, pc, x.id, x.meta, x.dir)]
  <2>. TAKE pc
  <2>1. Steps(c, pc) => locals' = [locals EXCEPT ![c] = [x EXCEPT !.pc = pc]] BY <1>1 DEF Steps
  <2>. QED BY <1>11, <2>1
<1>19. /\ "identify" \in LookPcs /\ "read" \in LookPcs /\ "open" \in LookPcs /\ "load" \in LookPcs
       /\ "confirm" \in LookPcs /\ "loaded" \in LookPcs /\ "move" \in LookPcs /\ "answer" \in LookPcs
  BY DEF LookPcs
<1>18. Found("object") \subseteq Dirs BY DEF Found
<1>12. CASE LookAtDirectory(c)
  <2>1. CASE locals' = [locals EXCEPT ![c] = Looks(x, "identify", x.id, x.meta, x.dir)]
    <3>1. "identify" \in GetPcs BY DEF GetPcs
    <3>. QED BY <1>0, <1>1, <1>3, <1>10, <1>19, <2>1, <3>1, LooksOn
  <2>2. CASE x.op = "delete" /\ locals' = [locals EXCEPT ![c] = Looks(x, "answer", x.id, x.meta, x.dir)]
    BY <1>0, <1>1, <1>3, <1>10, <1>19, <2>2, LooksOn
  <2>3. \/ Steps(c, "identify") \/ LocalEnds(c)
        \/ x.op = "delete" /\ Steps(c, "answer")
    BY <1>1, <1>4, <1>12 DEF LookAtDirectory
  <2>. QED BY <1>8, <1>9, <2>1, <2>2, <2>3
<1>13. CASE Identify(c)
  <2>1. PICK d \in Found("object") : locals' = [locals EXCEPT ![c] = Looks(x, "read", d, x.meta, x.dir)]
    <3>1. PICK d \in Found("object") : locals' = [locals EXCEPT ![c].pc = "read", ![c].id = d] BY <1>13 DEF Identify
    <3>2. locals' = [locals EXCEPT ![c] = [x EXCEPT !.pc = "read", !.id = d]] BY <1>1, <3>1
    <3>3. [x EXCEPT !.pc = "read", !.id = d] = Looks(x, "read", d, x.meta, x.dir) BY DEF LocalCall, Looks
    <3>. QED BY <3>2, <3>3
  <2>2. d \in Dirs /\ place[d] = "object" /\ "read" \in GetPcs BY <2>1 DEF Found, GetPcs
  <2>. QED BY <1>0, <1>1, <1>3, <1>10, <1>19, <2>1, <2>2, LooksOn
<1>14. CASE ReadDirectory(c)
  <2>1. locals' = [locals EXCEPT ![c] = Looks(x, "open", x.id, x.meta, x.dir)] /\ x.pc = "read"
    BY <1>1, <1>9, <1>14 DEF ReadDirectory, LAt
  <2>2. "open" \in GetPcs /\ x.id \in Dirs /\ place[x.id] \in {"object", "tomb", "removed"}
    BY <1>2, <2>1 DEF LocalOk, LoadOk, GetPcs
  <2>. QED BY <1>0, <1>1, <1>3, <1>10, <1>19, <2>1, <2>2, LooksOn
<1>15. CASE OpenMetadata(c)
  <2>1. PICK d \in Found("object") : locals' = [locals EXCEPT ![c] = Looks(x, "load", x.id, d, x.dir)]
    <3>1. PICK d \in Found("object") : locals' = [locals EXCEPT ![c].pc = "load", ![c].meta = d] BY <1>15 DEF OpenMetadata
    <3>2. locals' = [locals EXCEPT ![c] = [x EXCEPT !.pc = "load", !.meta = d]] BY <1>1, <3>1
    <3>3. [x EXCEPT !.pc = "load", !.meta = d] = Looks(x, "load", x.id, d, x.dir) BY DEF LocalCall, Looks
    <3>. QED BY <3>2, <3>3
  <2>2. x.pc = "open" BY <1>1, <1>15 DEF OpenMetadata, LAt
  <2>3. "load" \in GetPcs /\ x.id \in Dirs /\ place[x.id] \in {"object", "tomb", "removed"} /\ d \in Dirs
    BY <1>2, <2>1, <2>2 DEF LocalOk, LoadOk, GetPcs, Found
  <2>4. place[x.id] = "object" => d = x.id BY <1>7, <2>1, <2>3 DEF Found
  <2>. QED BY <1>0, <1>1, <1>3, <1>10, <1>19, <2>1, <2>3, <2>4, LooksOn
<1>16. CASE OpenPayload(c)
  <2>1. PICK d \in Found("object") : locals' = [locals EXCEPT ![c] = Looks(x, "confirm", x.id, x.meta, d)]
    <3>1. PICK d \in Found("object") : locals' = [locals EXCEPT ![c].pc = "confirm", ![c].dir = d] BY <1>16 DEF OpenPayload
    <3>2. locals' = [locals EXCEPT ![c] = [x EXCEPT !.pc = "confirm", !.dir = d]] BY <1>1, <3>1
    <3>3. [x EXCEPT !.pc = "confirm", !.dir = d] = Looks(x, "confirm", x.id, x.meta, d) BY DEF LocalCall, Looks
    <3>. QED BY <3>2, <3>3
  <2>2. x.pc = "load" BY <1>1, <1>16 DEF OpenPayload, LAt
  <2>3. /\ "confirm" \in GetPcs /\ x.id \in Dirs /\ place[x.id] \in {"object", "tomb", "removed"} /\ d \in Dirs
        /\ place[x.id] = "object" => x.meta = x.id
    BY <1>2, <2>1, <2>2 DEF LocalOk, LoadOk, GetPcs, Found
  <2>4. place[x.id] = "object" => d = x.id BY <1>7, <2>1, <2>3 DEF Found
  <2>. QED BY <1>0, <1>1, <1>3, <1>10, <1>19, <2>1, <2>3, <2>4, LooksOn
<1>17. CASE Confirm(c)
  <2>5. CASE x.op = "get"
    <3>1. locals' = [locals EXCEPT ![c] = Looks(x, "loaded", x.id, x.meta, x.dir)] BY <1>1, <1>9, <1>17, <2>5 DEF Confirm
    <3>2. "loaded" \in GetPcs BY DEF GetPcs
    <3>. QED BY <1>0, <1>1, <1>3, <1>10, <1>19, <2>5, <3>1, <3>2, LooksOn
  <2>6. CASE x.op = "delete"
    <3>1. locals' = [locals EXCEPT ![c] = Looks(x, "move", x.id, x.meta, x.dir)] BY <1>1, <1>9, <1>17, <2>6 DEF Confirm
    <3>. QED BY <1>0, <1>1, <1>3, <1>10, <1>19, <2>6, <3>1, LooksOn
  <2>. QED BY <1>4, <2>5, <2>6
<1>. QED BY <1>12, <1>13, <1>14, <1>15, <1>16, <1>17


(* What a put under way relies on.                                         *)
LEMMA PutIs ==
  ASSUME LocalInv, NEW c \in LocalCalls, locals[c].op = "put"
  PROVE  /\ locals[c].dir \in Dirs /\ place[locals[c].dir] = "temp" /\ locals[c].pc \in PutPcs
         /\ locals[c].pc = "payload" => entries[locals[c].dir] = {}
         /\ locals[c].pc = "metadata" => entries[locals[c].dir] = {"payload"}
         /\ locals[c].pc \in {"lookup", "publish"} => entries[locals[c].dir] = Parts
         /\ \A e \in LocalCalls : e # c /\ locals[e].op = "put" => locals[e].dir # locals[c].dir
<1>1. PICK x \in LocalCall : x = locals[c] BY DEF LocalInv, LocalTypes
<1>2. LocalOk(x, place, entries) BY <1>1 DEF LocalInv
<1>3. PutOk(x, place, entries) BY <1>2 DEF LocalOk
<1>. QED BY <1>1, <1>3 DEF PutOk, LocalInv, OwnDirectory

LEMMA BeginPutKeeps == ASSUME LocalInv, NEW c \in LocalCalls, BeginPut(c) PROVE LocalInv'
<1>1. PICK d \in Found("unmade") : /\ place' = [place EXCEPT ![d] = "temp"]
                                   /\ locals' = [locals EXCEPT ![c] = [NoLocal EXCEPT !.pc = "payload", !.op = "put", !.dir = d]]
  BY DEF BeginPut
<1>2. d \in Dirs /\ place[d] = "unmade" BY <1>1 DEF Found
<1>3. PICK r \in LocalCall : r = [NoLocal EXCEPT !.pc = "payload", !.op = "put", !.dir = d]
  BY <1>2, NoLocalIs DEF LocalCall, PutPcs
<1>4. r.pc = "payload" /\ r.op = "put" /\ r.dir = d BY <1>3 DEF NoLocal
<1>5. place \in [Dirs -> Places] /\ entries \in [Dirs -> SUBSET Parts] BY DEF LocalInv, LocalTypes
<1>6. PICK at \in [Dirs -> Places] : at = [place EXCEPT ![d] = "temp"] BY <1>5 DEF Places
<1>7. \A e \in Dirs : at[e] = IF e = d THEN "temp" ELSE place[e] BY <1>5, <1>6
<1>8. place' = at /\ entries' = entries /\ published' = published /\ taken' = taken BY <1>1, <1>6 DEF BeginPut
<1>9. \A e \in Dirs : Follows(place[e], at[e]) BY <1>2, <1>7 DEF Follows
<1>10. \A e \in LocalCalls : e # c /\ locals[e].op = "put" => /\ locals[e].dir # d
                                                             /\ at[locals[e].dir] = place[locals[e].dir]
                                                             /\ entries[locals[e].dir] = entries[locals[e].dir]
  BY <1>2, <1>7, PutIs
<1>11. PathsOk(at, entries) /\ entries[d] = {} BY <1>2, <1>7 DEF LocalInv, PathsOk
<1>12. LocalOk(r, at, entries) BY <1>2, <1>4, <1>7, <1>11 DEF LocalOk, PutOk, LoadOk, DeleteOk, PutPcs
<1>13. published' \subseteq Dirs /\ taken' \subseteq Dirs BY <1>8 DEF LocalInv, LocalTypes
<1>14. \A e \in published' \ taken' : at[e] = "object" BY <1>2, <1>7, <1>8, <1>13 DEF LocalInv
<1>15. locals' = [locals EXCEPT ![c] = r] BY <1>1, <1>3
<1>. QED BY <1>4, <1>5, <1>8, <1>9, <1>10, <1>11, <1>12, <1>13, <1>14, <1>15, LocalMoves

(* A put changes its directory, and what is there.                         *)
LEMMA PutOkKeeps ==
  ASSUME LocalInv, NEW c \in LocalCalls, locals[c].op = "put", NEW where \in {"temp", "object", "removed"}, NEW what \in SUBSET Parts,
         place' = [place EXCEPT ![locals[c].dir] = where], entries' = [entries EXCEPT ![locals[c].dir] = what],
         where = "object" => what = Parts /\ Found("object") = {},
         where = "removed" => what = {},
         published' = (IF where = "object" THEN published \cup {locals[c].dir} ELSE published), taken' = taken,
         NEW r \in LocalCall, locals' = [locals EXCEPT ![c] = r],
         \/ r = NoLocal
         \/ /\ where = "temp" /\ r.op = "put" /\ r.dir = locals[c].dir /\ r.pc \in PutPcs
            /\ r.pc = "payload" => what = {}
            /\ r.pc = "metadata" => what = {"payload"}
            /\ r.pc \in {"lookup", "publish"} => what = Parts
  PROVE  LocalInv'
<1>1. PICK d \in Dirs : d = locals[c].dir BY PutIs
<1>2. place[d] = "temp" /\ \A e \in LocalCalls : e # c /\ locals[e].op = "put" => locals[e].dir # d BY <1>1, PutIs
<1>3. place \in [Dirs -> Places] /\ entries \in [Dirs -> SUBSET Parts] BY DEF LocalInv, LocalTypes
<1>4. PICK at \in [Dirs -> Places] : at = [place EXCEPT ![d] = where] BY <1>3 DEF Places
<1>5. \A e \in Dirs : at[e] = IF e = d THEN where ELSE place[e] BY <1>3, <1>4
<1>6. PICK files \in [Dirs -> SUBSET Parts] : files = [entries EXCEPT ![d] = what] BY <1>3
<1>7. \A e \in Dirs : files[e] = IF e = d THEN what ELSE entries[e] BY <1>3, <1>6
<1>8. place' = at /\ entries' = files BY <1>1, <1>4, <1>6
<1>9. \A e \in Dirs : Follows(place[e], at[e]) BY <1>2, <1>5 DEF Follows
<1>10. \A e \in LocalCalls : e # c /\ locals[e].op = "put" => /\ at[locals[e].dir] = place[locals[e].dir]
                                                             /\ files[locals[e].dir] = entries[locals[e].dir]
  BY <1>2, <1>5, <1>7, PutIs
<1>11. PathsOk(at, files)
  <2>0. PathsOk(place, entries) BY DEF LocalInv
  <2>1. \A e \in Dirs : /\ at[e] \in {"unmade", "removed"} => files[e] = {}
                        /\ at[e] = "object" => files[e] = Parts
    BY <1>2, <1>5, <1>7, <2>0 DEF PathsOk
  <2>2. where = "object" => \A e \in Dirs : place[e] # "object" BY DEF Found
  <2>3. \A e, f \in Dirs : at[e] = at[f] /\ at[e] \in {"object", "tomb"} => e = f BY <1>5, <2>0, <2>2 DEF PathsOk
  <2>. QED BY <2>1, <2>3 DEF PathsOk
<1>12. LocalOk(r, at, files)
  <2>1. CASE r = NoLocal BY <2>1, NoLocalIs
  <2>2. CASE r # NoLocal
    <3>1. PutOk(r, at, files) BY <1>1, <1>5, <1>7, <2>2 DEF PutOk
    <3>2. r.op = "put" /\ r.pc \in PutPcs BY <2>2
    <3>. QED BY <3>1, <3>2 DEF LocalOk, LoadOk, DeleteOk, PutPcs
  <2>. QED BY <2>1, <2>2
<1>13. published' \subseteq Dirs /\ taken' \subseteq Dirs BY <1>1 DEF LocalInv, LocalTypes
<1>14. \A e \in published' \ taken' : at[e] = "object" BY <1>1, <1>2, <1>5, <1>13 DEF LocalInv
<1>15. r.op = "put" => \A e \in LocalCalls : e # c /\ locals[e].op = "put" => locals[e].dir # r.dir BY <1>1, <1>2, NoLocalIs
<1>. QED BY <1>8, <1>9, <1>10, <1>11, <1>12, <1>13, <1>14, <1>15, LocalMoves

LEMMA WriteKeeps ==
  ASSUME LocalInv, NEW c \in LocalCalls, WritePart(c, "payload", "metadata") \/ WritePart(c, "metadata", "lookup") PROVE LocalInv'
<1>1. PICK x \in LocalCall : x = locals[c] BY DEF LocalInv, LocalTypes
<1>2. PICK piece \in {"payload", "metadata"} : WritePart(c, piece, IF piece = "payload" THEN "metadata" ELSE "lookup") OBVIOUS
<1>3. PICK pc \in {"metadata", "lookup"} : pc = IF piece = "payload" THEN "metadata" ELSE "lookup" OBVIOUS
<1>4. x.pc = piece /\ x.op = "put" BY <1>1, <1>2, OpIs DEF WritePart, LAt, PutPcs
<1>5. PICK d \in Dirs : d = x.dir BY <1>1, <1>4, PutIs
<1>6. place \in [Dirs -> Places] /\ entries \in [Dirs -> SUBSET Parts] BY DEF LocalInv, LocalTypes
<1>7. PICK what \in SUBSET Parts : what = entries[d] \cup {piece} BY <1>6 DEF Parts
<1>8. place' = [place EXCEPT ![d] = "temp"]
  <2>1. place[d] = "temp" /\ place' = place BY <1>1, <1>2, <1>4, <1>5, PutIs DEF WritePart
  <2>. QED BY <1>6, <2>1
<1>9. entries' = [entries EXCEPT ![d] = what] BY <1>1, <1>2, <1>5, <1>7 DEF WritePart
<1>10. PICK r \in LocalCall : r = [x EXCEPT !.pc = pc] BY DEF LocalCall, PutPcs
<1>11. r.pc = pc /\ r.op = "put" /\ r.dir = d BY <1>4, <1>5, <1>10 DEF LocalCall
<1>12. locals' = [locals EXCEPT ![c] = r] BY <1>1, <1>2, <1>3, <1>10 DEF WritePart, Steps
<1>13. r.pc \in PutPcs /\ (r.pc = "metadata" => what = {"payload"}) /\ (r.pc = "lookup" => what = Parts)
  <2>1. /\ piece = "payload" => entries[d] = {}
        /\ piece = "metadata" => entries[d] = {"payload"}
    BY <1>1, <1>4, <1>5, PutIs
  <2>. QED BY <1>3, <1>7, <1>11, <2>1 DEF PutPcs, Parts
<1>14. published' = published /\ taken' = taken BY <1>2 DEF WritePart
<1>15. r.pc \notin {"payload", "publish"} BY <1>11
<1>. QED BY <1>1, <1>4, <1>5, <1>8, <1>9, <1>11, <1>12, <1>13, <1>14, <1>15, PutOkKeeps

LEMMA PublishKeeps == ASSUME LocalInv, NEW c \in LocalCalls, Publish(c) PROVE LocalInv'
<1>1. PICK x \in LocalCall : x = locals[c] BY DEF LocalInv, LocalTypes
<1>2. x.pc = "publish" /\ x.op = "put" BY <1>1, OpIs DEF Publish, LAt, PutPcs
<1>3. PICK d \in Dirs : d = x.dir BY <1>1, <1>2, PutIs
<1>4. entries \in [Dirs -> SUBSET Parts] /\ entries[d] = Parts /\ entries' = entries
  BY <1>1, <1>2, <1>3, PutIs DEF Publish, LocalInv, LocalTypes
<1>5. CASE Found("object") = {}
  <2>1. place' = [place EXCEPT ![d] = "object"] /\ published' = published \cup {d} /\ taken' = taken
    BY <1>1, <1>3, <1>5 DEF Publish
  <2>2. entries' = [entries EXCEPT ![d] = Parts] BY <1>4
  <2>3. locals' = [locals EXCEPT ![c] = NoLocal] BY <1>5 DEF Publish, LocalEnds
  <2>. QED BY <1>1, <1>2, <1>3, <1>5, <2>1, <2>2, <2>3, NoLocalIs, PutOkKeeps
<1>6. CASE Found("object") # {}
  <2>1. Keeps(c) /\ Steps(c, "clean") BY <1>6 DEF Publish, Keeps
  <2>2. PutFails(c) BY <1>1, <1>2, <2>1 DEF PutFails
  <2>. QED BY <2>2, PutLooks
<1>. QED BY <1>5, <1>6

LEMMA CleanUpKeeps == ASSUME LocalInv, NEW c \in LocalCalls, CleanUp(c) PROVE LocalInv'
<1>1. PICK x \in LocalCall : x = locals[c] BY DEF LocalInv, LocalTypes
<1>2. x.op = "put" BY <1>1, OpIs DEF CleanUp, LAt, PutPcs
<1>3. locals' = [locals EXCEPT ![c] = NoLocal] /\ published' = published /\ taken' = taken BY DEF CleanUp, LocalEnds
<1>4. CASE place' = [place EXCEPT ![locals[c].dir] = "removed"] /\ entries' = [entries EXCEPT ![locals[c].dir] = {}]
  <2>1. PICK where \in {"temp", "object", "removed"} : where = "removed" OBVIOUS
  <2>2. PICK what \in SUBSET Parts : what = {} OBVIOUS
  <2>3. published' = IF where = "object" THEN published \cup {locals[c].dir} ELSE published BY <1>3, <2>1
  <2>4. place' = [place EXCEPT ![locals[c].dir] = where] /\ entries' = [entries EXCEPT ![locals[c].dir] = what]
    BY <1>4, <2>1, <2>2
  <2>5. PICK r \in LocalCall : r = NoLocal BY NoLocalIs
  <2>6. locals' = [locals EXCEPT ![c] = r] BY <1>3, <2>5
  <2>. QED BY <1>1, <1>2, <1>3, <2>1, <2>2, <2>3, <2>4, <2>5, <2>6, PutOkKeeps
<1>5. CASE UNCHANGED <<entries, place>>
  <2>1. Keeps(c) /\ LocalEnds(c) BY <1>5 DEF CleanUp, Keeps
  <2>. QED BY <2>1, EndsQuietly
<1>. QED BY <1>4, <1>5 DEF CleanUp


(* What a delete under way relies on.                                      *)
LEMMA DeleteIs ==
  ASSUME LocalInv, NEW c \in LocalCalls, locals[c].op = "delete"
  PROVE  /\ locals[c].owed \subseteq Dirs /\ locals[c].moved \in BOOLEAN
         /\ \A d \in locals[c].owed : place[d] \in {"tomb", "removed"}
<1>1. PICK x \in LocalCall : x = locals[c] BY DEF LocalInv, LocalTypes
<1>2. LocalOk(x, place, entries) BY <1>1 DEF LocalInv
<1>3. x.owed \subseteq Dirs /\ x.moved \in BOOLEAN BY DEF LocalCall
<1>. QED BY <1>1, <1>2, <1>3 DEF LocalOk, DeleteOk

(* A delete stays at the tomb, which changes, or leaves it: then nothing   *)
(* is there, and so all that is owed is removed.                           *)
LEMMA TombKeeps ==
  ASSUME LocalInv, NEW c \in LocalCalls, locals[c].op = "delete",
         NEW at \in [Dirs -> Places], NEW files \in [Dirs -> SUBSET Parts], place' = at, entries' = files,
         \A d \in Dirs : /\ Follows(place[d], at[d])
                         /\ place[d] # "tomb" => at[d] = place[d] /\ files[d] = entries[d],
         PathsOk(at, files), published' = published, taken' = taken,
         NEW pc \in {"directory", "answer"} \cup TombPcs,
         locals' = [locals EXCEPT ![c] = [locals[c] EXCEPT !.pc = pc]],
         pc \in {"directory", "answer"} => \A d \in Dirs : at[d] # "tomb"
  PROVE  LocalInv'
<1>1. PICK x \in LocalCall : x = locals[c] BY DEF LocalInv, LocalTypes
<1>2. PICK r \in LocalCall : r = [x EXCEPT !.pc = pc] BY DEF LocalCall, DeletePcs, TombPcs
<1>3. r.pc = pc /\ r.op = "delete" /\ r.owed = x.owed BY <1>1, <1>2 DEF LocalCall
<1>4. \A d \in x.owed : d \in Dirs /\ at[d] \in {"tomb", "removed"} /\ (pc \notin TombPcs => at[d] = "removed")
  <2>1. \A d \in x.owed : d \in Dirs /\ place[d] \in {"tomb", "removed"} BY <1>1, DeleteIs
  <2>. QED BY <2>1 DEF Follows
<1>5. LocalOk(r, at, files) BY <1>3, <1>4 DEF LocalOk, PutOk, LoadOk, DeleteOk, TombPcs, DeletePcs
<1>6. \A e \in LocalCalls : e # c /\ locals[e].op = "put" => /\ at[locals[e].dir] = place[locals[e].dir]
                                                            /\ files[locals[e].dir] = entries[locals[e].dir]
  BY PutIs
<1>7. published' \subseteq Dirs /\ taken' \subseteq Dirs BY DEF LocalInv, LocalTypes
<1>8. \A e \in published' \ taken' : at[e] = "object" BY <1>7 DEF LocalInv
<1>9. locals' = [locals EXCEPT ![c] = r] BY <1>1, <1>2
<1>. QED BY <1>3, <1>5, <1>6, <1>7, <1>8, <1>9, LocalMoves

LEMMA BeginDeleteKeeps == ASSUME LocalInv, NEW c \in LocalCalls, BeginDelete(c) PROVE LocalInv'
<1>1. Found("tomb") \subseteq Dirs /\ \A d \in Found("tomb") : place[d] = "tomb" BY DEF Found
<1>2. PICK r \in LocalCall : r = [NoLocal EXCEPT !.pc = "tomb", !.op = "delete", !.owed = Found("tomb")]
  BY <1>1, NoLocalIs DEF LocalCall, DeletePcs, TombPcs
<1>3. r.pc = "tomb" /\ r.op = "delete" /\ r.owed = Found("tomb") BY <1>2 DEF NoLocal
<1>4. LocalOk(r, place, entries) BY <1>1, <1>3 DEF LocalOk, PutOk, LoadOk, DeleteOk, DeletePcs, TombPcs
<1>5. locals' = [locals EXCEPT ![c] = r] /\ Keeps(c) BY <1>2 DEF BeginDelete
<1>. QED BY <1>3, <1>4, <1>5, QuietKeeps

LEMMA BeginGetKeeps == ASSUME LocalInv, NEW c \in LocalCalls, BeginGet(c) PROVE LocalInv'
<1>1. PICK r \in LocalCall : r = [NoLocal EXCEPT !.pc = "directory", !.op = "get"] BY NoLocalIs DEF LocalCall, GetPcs
<1>2. r.pc = "directory" /\ r.op = "get" BY <1>1 DEF NoLocal
<1>3. LocalOk(r, place, entries) BY <1>2 DEF LocalOk, PutOk, LoadOk, DeleteOk, GetPcs
<1>4. locals' = [locals EXCEPT ![c] = r] /\ Keeps(c) BY <1>1 DEF BeginGet
<1>. QED BY <1>2, <1>3, <1>4, QuietKeeps

LEMMA AtTombKeeps == ASSUME LocalInv, NEW c \in LocalCalls, LookAtTomb(c) \/ ScanTomb(c) \/ RemoveTomb(c) PROVE LocalInv'
<1>1. locals \in [LocalCalls -> LocalCall] /\ place \in [Dirs -> Places] /\ entries \in [Dirs -> SUBSET Parts]
  BY DEF LocalInv, LocalTypes
<1>2. PathsOk(place, entries) BY DEF LocalInv
<1>3. locals[c].pc \in TombPcs /\ locals[c].op = "delete" BY OpIs DEF LookAtTomb, ScanTomb, RemoveTomb, LAt, TombPcs
<1>4. AfterTomb(c) \in {"directory", "answer"} BY DEF AfterTomb
<1>5. published' = published /\ taken' = taken BY DEF LookAtTomb, ScanTomb, RemoveTomb, Keeps
<1>6. \A pc : Steps(c, pc) => locals' = [locals EXCEPT ![c] = [locals[c] EXCEPT !.pc = pc]] BY DEF Steps
<1>7. \A d \in Dirs : /\ Follows(place[d], place[d])
                      /\ place[d] # "tomb" => place[d] = place[d] /\ entries[d] = entries[d]
  BY DEF Follows
<1>8. ASSUME UNCHANGED <<entries, place>>, NEW pc \in {"directory", "answer"} \cup TombPcs, Steps(c, pc),
             pc \in {"directory", "answer"} => Found("tomb") = {}
      PROVE  LocalInv'
  <2>1. pc \in {"directory", "answer"} => \A d \in Dirs : place[d] # "tomb" BY <1>8 DEF Found
  <2>. QED BY <1>1, <1>2, <1>3, <1>5, <1>6, <1>7, <1>8, <2>1, TombKeeps
<1>9. CASE LookAtTomb(c)
  <2>1. UNCHANGED <<entries, place>> BY <1>9 DEF LookAtTomb, Keeps
  <2>2. CASE Found("tomb") = {} /\ Steps(c, AfterTomb(c)) BY <1>4, <1>8, <2>1, <2>2
  <2>3. CASE Steps(c, "scan") BY <1>8, <2>1, <2>3 DEF TombPcs
  <2>. QED BY <1>9, <2>2, <2>3 DEF LookAtTomb
<1>10. CASE ScanTomb(c)
  <2>1. UNCHANGED <<entries, place>> /\ Steps(c, "remove") BY <1>10 DEF ScanTomb, Keeps
  <2>. QED BY <1>8, <2>1 DEF TombPcs
<1>11. CASE RemoveTomb(c)
  <2>1. CASE Found("tomb") = {} /\ Steps(c, AfterTomb(c)) /\ UNCHANGED <<entries, place>> BY <1>4, <1>8, <2>1
  <2>2. ASSUME NEW d \in Found("tomb"), NEW e, entries' = [entries EXCEPT ![d] = @ \ {e}], UNCHANGED <<place, locals>>
        PROVE  LocalInv'
    <3>1. PICK files \in [Dirs -> SUBSET Parts] : files = [entries EXCEPT ![d] = @ \ {e}] BY <1>1
    <3>2. d \in Dirs /\ place[d] = "tomb" BY <2>2 DEF Found
    <3>3. \A f \in Dirs : f # d => files[f] = entries[f] BY <1>1, <3>1
    <3>4. \A f \in Dirs : /\ Follows(place[f], place[f])
                          /\ place[f] # "tomb" => place[f] = place[f] /\ files[f] = entries[f]
      BY <3>2, <3>3 DEF Follows
    <3>5. PathsOk(place, files) BY <1>2, <3>2, <3>3 DEF PathsOk
    <3>6. PICK pc \in TombPcs : pc = locals[c].pc BY <1>3
    <3>7. locals' = [locals EXCEPT ![c] = [locals[c] EXCEPT !.pc = pc]]
      <4>1. PICK x \in LocalCall : x = locals[c] BY <1>1
      <4>2. [x EXCEPT !.pc = pc] = x BY <3>6, <4>1 DEF LocalCall
      <4>. QED BY <1>1, <2>2, <4>1, <4>2
    <3>8. pc \notin {"directory", "answer"} BY DEF TombPcs
    <3>9. place' = place /\ entries' = files BY <2>2, <3>1
    <3>. QED BY <1>1, <1>3, <1>5, <3>1, <3>4, <3>5, <3>7, <3>8, <3>9, TombKeeps
  <2>3. ASSUME NEW d \in Found("tomb"), entries[d] = {}, place' = [place EXCEPT ![d] = "removed"],
               Steps(c, AfterTomb(c)), UNCHANGED entries
        PROVE  LocalInv'
    <3>1. PICK at \in [Dirs -> Places] : at = [place EXCEPT ![d] = "removed"] BY <1>1 DEF Places
    <3>2. d \in Dirs /\ place[d] = "tomb" BY <2>3 DEF Found
    <3>3. \A f \in Dirs : at[f] = IF f = d THEN "removed" ELSE place[f] BY <1>1, <3>1, <3>2
    <3>4. \A f \in Dirs : /\ Follows(place[f], at[f])
                          /\ place[f] # "tomb" => at[f] = place[f] /\ entries[f] = entries[f]
      BY <3>2, <3>3 DEF Follows
    <3>5. PathsOk(at, entries) BY <1>2, <2>3, <3>2, <3>3 DEF PathsOk
    <3>6. \A f \in Dirs : at[f] # "tomb" BY <1>2, <3>2, <3>3 DEF PathsOk
    <3>7. place' = at /\ entries' = entries BY <2>3, <3>1
    <3>8. locals' = [locals EXCEPT ![c] = [locals[c] EXCEPT !.pc = AfterTomb(c)]] BY <1>6, <2>3
    <3>. QED BY <1>1, <1>3, <1>4, <1>5, <3>1, <3>4, <3>5, <3>6, <3>7, <3>8, TombKeeps
  <2>. QED BY <1>11, <2>1, <2>2, <2>3 DEF RemoveTomb
<1>. QED BY <1>9, <1>10, <1>11

(* The object goes to the tomb.                                            *)
LEMMA MoveKeeps == ASSUME LocalInv, NEW c \in LocalCalls, Move(c) PROVE LocalInv'
<1>1. PICK x \in LocalCall : x = locals[c] BY DEF LocalInv, LocalTypes
<1>2. x.op = "delete" BY <1>1, OpIs DEF Move, LAt
<1>3. LocalOk(x, place, entries) /\ x.pc = "move" BY <1>1 DEF LocalInv, Move, LAt
<1>4. \A d \in x.owed : place[d] = "removed" BY <1>2, <1>3 DEF LocalOk, DeleteOk, TombPcs
<1>5. PICK moved \in SUBSET Dirs : moved = Found("object") BY DEF Found
<1>6. /\ moved # {} => \A t \in Found("tomb") : entries[t] = {}
      /\ place' = [d \in Dirs |-> IF d \in moved THEN "tomb" ELSE IF place[d] = "tomb" /\ moved # {} THEN "removed" ELSE place[d]]
      /\ taken' = taken \cup moved
      /\ entries' = entries /\ published' = published
  BY <1>5 DEF Move
<1>7. locals' = [locals EXCEPT ![c].pc = "tomb", ![c].moved = TRUE, ![c].owed = @ \cup moved] BY <1>5 DEF Move
<1>8. place \in [Dirs -> Places] /\ entries \in [Dirs -> SUBSET Parts] /\ locals \in [LocalCalls -> LocalCall]
  BY DEF LocalInv, LocalTypes
<1>9. PICK at \in [Dirs -> Places] :
        at = [d \in Dirs |-> IF d \in moved THEN "tomb" ELSE IF place[d] = "tomb" /\ moved # {} THEN "removed" ELSE place[d]]
  BY <1>8 DEF Places
<1>10. \A d \in Dirs : at[d] = IF d \in moved THEN "tomb" ELSE IF place[d] = "tomb" /\ moved # {} THEN "removed" ELSE place[d]
  BY <1>9
<1>11. \A d \in Dirs : d \in moved <=> place[d] = "object" BY <1>5 DEF Found
<1>12. \A d \in Dirs : Follows(place[d], at[d]) BY <1>10, <1>11 DEF Follows
<1>13. PathsOk(at, entries)
  <2>1. PathsOk(place, entries) BY DEF LocalInv
  <2>2. \A d \in Dirs : at[d] # "object" BY <1>10, <1>11
  <2>3. \A d \in Dirs : at[d] \in {"unmade", "removed"} => entries[d] = {}
    <3>1. moved # {} => \A t \in Dirs : place[t] = "tomb" => entries[t] = {} BY <1>6 DEF Found
    <3>. QED BY <1>10, <2>1, <3>1 DEF PathsOk
  <2>4. \A d, e \in Dirs : at[d] = "tomb" /\ at[e] = "tomb" => d = e
    <3>1. CASE moved = {} BY <1>10, <2>1, <3>1 DEF PathsOk
    <3>2. CASE moved # {}
      <4>1. \A d \in Dirs : at[d] = "tomb" => place[d] = "object" BY <1>10, <1>11, <3>2
      <4>. QED BY <2>1, <4>1 DEF PathsOk
    <3>. QED BY <3>1, <3>2
  <2>. QED BY <2>2, <2>3, <2>4 DEF PathsOk
<1>14. x.owed \subseteq Dirs BY DEF LocalCall
<1>15. PICK r \in LocalCall : r = [x EXCEPT !.pc = "tomb", !.moved = TRUE, !.owed = x.owed \cup moved]
  BY <1>14 DEF LocalCall, DeletePcs, TombPcs
<1>16. r.pc = "tomb" /\ r.op = "delete" /\ r.owed = x.owed \cup moved BY <1>2, <1>15 DEF LocalCall
<1>17. \A d \in r.owed : at[d] \in {"tomb", "removed"} BY <1>4, <1>10, <1>14, <1>16
<1>18. LocalOk(r, at, entries) BY <1>16, <1>17 DEF LocalOk, PutOk, LoadOk, DeleteOk, TombPcs, DeletePcs
<1>19. locals' = [locals EXCEPT ![c] = r]
  <2>1. locals' = [locals EXCEPT ![c] = [x EXCEPT !.pc = "tomb", !.moved = TRUE, !.owed = x.owed \cup moved]]
    BY <1>1, <1>7, <1>8
  <2>. QED BY <1>15, <2>1
<1>20. \A e \in LocalCalls : e # c /\ locals[e].op = "put" => /\ at[locals[e].dir] = place[locals[e].dir]
                                                             /\ entries[locals[e].dir] = entries[locals[e].dir]
  BY <1>10, <1>11, PutIs
<1>21. published' \subseteq Dirs /\ taken' \subseteq Dirs BY <1>6 DEF LocalInv, LocalTypes
<1>22. \A e \in published' \ taken' : at[e] = "object"
  <2>1. \A e \in published \ taken : e \in Dirs /\ place[e] = "object" BY DEF LocalInv, LocalTypes
  <2>. QED BY <1>6, <1>11, <2>1
<1>23. place' = at /\ entries' = entries BY <1>6, <1>9
<1>. QED BY <1>8, <1>12, <1>13, <1>16, <1>18, <1>19, <1>20, <1>21, <1>22, <1>23, LocalMoves

LEMMA LocalCrashKeeps == ASSUME LocalInv, LocalCrash PROVE LocalInv'
<1>1. \A c \in LocalCalls : locals'[c] = NoLocal BY DEF LocalCrash
<1>2. locals' \in [LocalCalls -> LocalCall] BY NoLocalIs DEF LocalCrash
<1>3. UNCHANGED <<entries, place, published, taken>> BY DEF LocalCrash
<1>4. LocalTypes' BY <1>2, <1>3 DEF LocalInv, LocalTypes
<1>5. OwnDirectory' BY <1>1, NoLocalIs DEF OwnDirectory
<1>6. \A c \in LocalCalls : LocalOk(locals'[c], place', entries') BY <1>1, NoLocalIs
<1>. QED BY <1>3, <1>4, <1>5, <1>6 DEF LocalInv

LEMMA LocalStepKeeps == ASSUME LocalInv, [LocalNext]_localVars PROVE LocalInv'
<1>1. CASE UNCHANGED localVars
  BY <1>1 DEF localVars, LocalInv, LocalTypes, PathsOk, OwnDirectory, LocalOk, PutOk, LoadOk, DeleteOk
<1>2. CASE LocalCrash BY <1>2, LocalCrashKeeps
<1>3. ASSUME NEW c \in LocalCalls, LocalStep(c) PROVE LocalInv'
  <2>1. CASE Streamed(c) \/ Answer(c) \/ LocalThrows(c) BY <2>1, EndsQuietly DEF Streamed, Answer, LocalThrows
  <2>. QED BY <1>3, <2>1, BeginPutKeeps, WriteKeeps, PutLooks, PublishKeeps, CleanUpKeeps, BeginGetKeeps, LookKeeps,
           BeginDeleteKeeps, AtTombKeeps, MoveKeeps DEF LocalStep
<1>. QED BY <1>1, <1>2, <1>3 DEF LocalNext

(* Directories that are there have different numbers, so a reader that     *)
(* found the number it first saw either found that directory, and read     *)
(* nothing else, or one that got the number later.                         *)
Free == {"unmade", "removed"}
NumbersOk == /\ inode \in [Dirs -> Dirs]
             /\ \A d, e \in Dirs : place[d] \notin Free /\ place[e] \notin Free /\ inode[d] = inode[e] => d = e
LoadedOk == \A c \in LocalCalls :
  LAt(c, "loaded") => locals[c].id \in Dirs /\ (locals[c].dir = locals[c].meta \/ Reused(locals[c].id))
StoreInv == LocalInv /\ NumbersOk /\ LoadedOk

LEMMA StoreStarts == LocalInit => StoreInv
BY LocalStarts, NoLocalIs DEF LocalInit, StoreInv, NumbersOk, LoadedOk, Free, LAt

(* Only a put makes a directory, and what is removed stays so.             *)
LEMMA PlacesStay ==
  ASSUME LocalInv, NEW c \in LocalCalls, LocalStep(c), ~BeginPut(c)
  PROVE  /\ inode' = inode
         /\ \A d \in Dirs : /\ place[d] \in Free => place'[d] = place[d]
                            /\ place[d] # "unmade" => place'[d] # "unmade"
<1>1. place \in [Dirs -> Places] BY DEF LocalInv, LocalTypes
<1>2. CASE UNCHANGED <<place, inode>> BY <1>2
<1>3. CASE Publish(c) \/ CleanUp(c)
  <2>1. locals[c].dir \in Dirs /\ place[locals[c].dir] = "temp"
    <3>1. locals[c].op = "put" BY <1>3, OpIs DEF Publish, CleanUp, LAt, PutPcs
    <3>. QED BY <3>1, PutIs
  <2>2. inode' = inode BY <1>3 DEF Publish, CleanUp
  <2>3. \/ place' = [place EXCEPT ![locals[c].dir] = "object"]
        \/ place' = [place EXCEPT ![locals[c].dir] = "removed"]
        \/ place' = place
    BY <1>3 DEF Publish, CleanUp
  <2>. QED BY <1>1, <2>1, <2>2, <2>3 DEF Free
<1>4. CASE RemoveTomb(c)
  <2>1. inode' = inode BY <1>4 DEF RemoveTomb
  <2>2. place' = place \/ \E d \in Dirs : place[d] = "tomb" /\ place' = [place EXCEPT ![d] = "removed"]
    BY <1>4 DEF RemoveTomb, Found
  <2>. QED BY <1>1, <2>1, <2>2 DEF Free
<1>5. CASE Move(c) BY <1>1, <1>5 DEF Move, Found, Free
<1>6. CASE WritePart(c, "payload", "metadata") \/ WritePart(c, "metadata", "lookup") BY <1>2, <1>6 DEF WritePart
<1>7. CASE Keeps(c) BY <1>2, <1>7 DEF Keeps
<1>8. Keeps(c) \/ Publish(c) \/ CleanUp(c) \/ RemoveTomb(c) \/ Move(c)
      \/ WritePart(c, "payload", "metadata") \/ WritePart(c, "metadata", "lookup")
  BY DEF LocalStep, LookUpObject, PutFails, BeginGet, LookAtDirectory, Identify, ReadDirectory, OpenMetadata,
         OpenPayload, Confirm, Streamed, BeginDelete, LookAtTomb, ScanTomb, Answer, LocalThrows
<1>. QED BY <1>3, <1>4, <1>5, <1>6, <1>7, <1>8

(* A number that was given again stays so.                                 *)
LEMMA NumbersKept ==
  ASSUME StoreInv, NEW c \in LocalCalls, LocalStep(c)
  PROVE  NumbersOk' /\ \A id \in Dirs : Reused(id) => Reused(id)'
<1>1. place \in [Dirs -> Places] /\ NumbersOk BY DEF StoreInv, LocalInv, LocalTypes
<1>2. CASE ~BeginPut(c)
  <2>1. /\ inode' = inode
        /\ \A d \in Dirs : /\ place[d] \in Free => place'[d] = place[d]
                           /\ place[d] # "unmade" => place'[d] # "unmade"
    BY <1>2, PlacesStay DEF StoreInv
  <2>2. NumbersOk' BY <1>1, <2>1 DEF NumbersOk, Free
  <2>. QED BY <2>1, <2>2 DEF Reused, Free
<1>3. CASE BeginPut(c)
  <2>0. PICK d \in Found("unmade") : /\ place' = [place EXCEPT ![d] = "temp"]
                                     /\ \E n \in Numbers(d) : inode' = [inode EXCEPT ![d] = n]
    BY <1>3 DEF BeginPut
  <2>1. PICK n \in Numbers(d) : inode' = [inode EXCEPT ![d] = n] /\ place' = [place EXCEPT ![d] = "temp"] BY <2>0
  <2>2. d \in Dirs /\ place[d] = "unmade" BY <2>0 DEF Found
  <2>3. n \in Dirs BY <1>1, <2>1, <2>2 DEF Numbers, NumbersOk, Found
  <2>4. \A e \in Dirs : place[e] \notin Free => inode[e] # n BY <2>1 DEF Numbers, InUse, Free
  <2>5. \A e \in Dirs : place'[e] = IF e = d THEN "temp" ELSE place[e] BY <1>1, <2>1
  <2>6. \A e \in Dirs : inode'[e] = IF e = d THEN n ELSE inode[e] BY <1>1, <2>1 DEF NumbersOk
  <2>7. inode' \in [Dirs -> Dirs] BY <1>1, <2>1, <2>3 DEF NumbersOk
  <2>8. NumbersOk' BY <1>1, <2>4, <2>5, <2>6, <2>7 DEF NumbersOk
  <2>9. ASSUME NEW id \in Dirs, Reused(id) PROVE Reused(id)'
    <3>1. PICK e \in Dirs \ {id} : place[e] # "unmade" /\ inode[e] = inode[id] BY <2>9 DEF Reused
    <3>2. place[id] = "removed" BY <2>9 DEF Reused
    <3>3. e # d /\ id # d BY <2>2, <3>1, <3>2
    <3>. QED BY <2>5, <2>6, <3>1, <3>2, <3>3 DEF Reused
  <2>. QED BY <2>8, <2>9
<1>. QED BY <1>2, <1>3

(* A call is loaded because it was or because it confirmed.                *)
LEMMA LoadedComes ==
  ASSUME LocalInv, NEW c \in LocalCalls, LocalStep(c), NEW e \in LocalCalls, locals'[e].pc = "loaded"
  PROVE  \/ locals'[e] = locals[e]
         \/ e = c /\ Confirm(c) /\ locals'[c] = [locals[c] EXCEPT !.pc = "loaded"]
<1>1. locals \in [LocalCalls -> LocalCall] BY DEF LocalInv, LocalTypes
<1>2. locals[c] \in LocalCall BY <1>1
<1>3. ASSUME NEW r \in LocalCall, r.pc # "loaded", locals' = [locals EXCEPT ![c] = r] PROVE locals'[e] = locals[e]
  BY <1>1, <1>3
<1>4. ASSUME NEW pc, pc # "loaded", Steps(c, pc) PROVE locals'[e] = locals[e]
  <2>1. locals' = [locals EXCEPT ![c] = [locals[c] EXCEPT !.pc = pc]] BY <1>4 DEF Steps
  <2>2. [locals[c] EXCEPT !.pc = pc].pc = pc BY <1>2 DEF LocalCall
  <2>. QED BY <1>1, <1>4, <2>1, <2>2
<1>5. CASE LocalEnds(c) BY <1>1, <1>5, NoLocalIs DEF LocalEnds
<1>6. CASE BeginPut(c) \/ BeginGet(c) \/ BeginDelete(c)
  <2>1. CASE BeginPut(c)
    <3>1. PICK d : locals' = [locals EXCEPT ![c] = [NoLocal EXCEPT !.pc = "payload", !.op = "put", !.dir = d]]
      BY <2>1 DEF BeginPut
    <3>2. [NoLocal EXCEPT !.pc = "payload", !.op = "put", !.dir = d].pc = "payload" BY DEF NoLocal
    <3>. QED BY <1>1, <3>1, <3>2
  <2>2. CASE BeginGet(c)
    <3>1. locals' = [locals EXCEPT ![c] = [NoLocal EXCEPT !.pc = "directory", !.op = "get"]] BY <2>2 DEF BeginGet
    <3>2. [NoLocal EXCEPT !.pc = "directory", !.op = "get"].pc = "directory" BY DEF NoLocal
    <3>. QED BY <1>1, <3>1, <3>2
  <2>3. CASE BeginDelete(c)
    <3>1. PICK o : locals' = [locals EXCEPT ![c] = [NoLocal EXCEPT !.pc = "tomb", !.op = "delete", !.owed = o]]
      BY <2>3 DEF BeginDelete
    <3>2. [NoLocal EXCEPT !.pc = "tomb", !.op = "delete", !.owed = o].pc = "tomb" BY DEF NoLocal
    <3>. QED BY <1>1, <3>1, <3>2
  <2>. QED BY <1>6, <2>1, <2>2, <2>3
<1>7. CASE WritePart(c, "payload", "metadata") \/ WritePart(c, "metadata", "lookup") BY <1>4, <1>7 DEF WritePart
<1>8. CASE LookUpObject(c) \/ Publish(c) \/ PutFails(c) \/ CleanUp(c)
  BY <1>4, <1>5, <1>8 DEF LookUpObject, Publish, PutFails, CleanUp
<1>9. CASE LookAtDirectory(c) \/ ReadDirectory(c)
  <2>1. LookAtDirectory(c) => locals[c].op \in {"get", "delete"} BY OpIs DEF LookAtDirectory, LAt
  <2>2. LookAtDirectory(c) => Steps(c, "identify") \/ LocalEnds(c) \/ Steps(c, "answer") BY <2>1 DEF LookAtDirectory
  <2>3. ReadDirectory(c) => Steps(c, "open") BY DEF ReadDirectory
  <2>. QED BY <1>4, <1>5, <1>9, <2>2, <2>3
<1>10. CASE Identify(c) \/ OpenMetadata(c) \/ OpenPayload(c)
  <2>1. PICK r : locals' = [locals EXCEPT ![c] = r] /\ r.pc \in {"read", "load", "confirm"}
    <3>1. ASSUME NEW d, locals' = [locals EXCEPT ![c].pc = "read", ![c].id = d]
          PROVE  \E r : locals' = [locals EXCEPT ![c] = r] /\ r.pc \in {"read", "load", "confirm"}
      <4>1. locals' = [locals EXCEPT ![c] = [locals[c] EXCEPT !.pc = "read", !.id = d]] BY <1>1, <3>1
      <4>2. [locals[c] EXCEPT !.pc = "read", !.id = d].pc = "read" BY <1>2 DEF LocalCall
      <4>. QED BY <4>1, <4>2
    <3>2. ASSUME NEW d, locals' = [locals EXCEPT ![c].pc = "load", ![c].meta = d]
          PROVE  \E r : locals' = [locals EXCEPT ![c] = r] /\ r.pc \in {"read", "load", "confirm"}
      <4>1. locals' = [locals EXCEPT ![c] = [locals[c] EXCEPT !.pc = "load", !.meta = d]] BY <1>1, <3>2
      <4>2. [locals[c] EXCEPT !.pc = "load", !.meta = d].pc = "load" BY <1>2 DEF LocalCall
      <4>. QED BY <4>1, <4>2
    <3>3. ASSUME NEW d, locals' = [locals EXCEPT ![c].pc = "confirm", ![c].dir = d]
          PROVE  \E r : locals' = [locals EXCEPT ![c] = r] /\ r.pc \in {"read", "load", "confirm"}
      <4>1. locals' = [locals EXCEPT ![c] = [locals[c] EXCEPT !.pc = "confirm", !.dir = d]] BY <1>1, <3>3
      <4>2. [locals[c] EXCEPT !.pc = "confirm", !.dir = d].pc = "confirm" BY <1>2 DEF LocalCall
      <4>. QED BY <4>1, <4>2
    <3>. QED BY <1>10, <3>1, <3>2, <3>3 DEF Identify, OpenMetadata, OpenPayload
  <2>. QED BY <1>1, <2>1
<1>11. CASE Confirm(c)
  <2>1. CASE Steps(c, "move") BY <1>4, <2>1
  <2>2. CASE Steps(c, "loaded")
    <3>1. locals' = [locals EXCEPT ![c] = [locals[c] EXCEPT !.pc = "loaded"]] BY <2>2 DEF Steps
    <3>. QED BY <1>1, <1>11, <3>1
  <2>. QED BY <1>11, <2>1, <2>2 DEF Confirm
<1>12. CASE Streamed(c) \/ Answer(c) \/ LocalThrows(c) BY <1>5, <1>12 DEF Streamed, Answer, LocalThrows
<1>13. CASE LookAtTomb(c) \/ ScanTomb(c) \/ RemoveTomb(c)
  BY <1>4, <1>13 DEF LookAtTomb, ScanTomb, RemoveTomb, AfterTomb
<1>14. CASE Move(c)
  <2>1. PICK o : locals' = [locals EXCEPT ![c] = [locals[c] EXCEPT !.pc = "tomb", !.moved = TRUE, !.owed = o]]
    BY <1>1, <1>14 DEF Move
  <2>2. [locals[c] EXCEPT !.pc = "tomb", !.moved = TRUE, !.owed = o].pc = "tomb" BY <1>2 DEF LocalCall
  <2>. QED BY <1>1, <2>1, <2>2
<1>. QED BY <1>6, <1>7, <1>8, <1>9, <1>10, <1>11, <1>12, <1>13, <1>14 DEF LocalStep

LEMMA StoreStepKeeps == ASSUME StoreInv, [LocalNext]_localVars PROVE StoreInv'
<1>1. LocalInv' BY LocalStepKeeps DEF StoreInv
<1>2. CASE UNCHANGED localVars
  <2>1. NumbersOk' BY <1>2 DEF StoreInv, localVars, NumbersOk
  <2>2. LoadedOk' BY <1>2 DEF StoreInv, localVars, LoadedOk, LAt, Reused
  <2>. QED BY <1>1, <2>1, <2>2 DEF StoreInv
<1>3. CASE LocalCrash
  <2>1. NumbersOk' BY <1>3 DEF StoreInv, LocalCrash, NumbersOk
  <2>2. LoadedOk' BY <1>3, NoLocalIs DEF LocalCrash, LoadedOk, LAt
  <2>. QED BY <1>1, <2>1, <2>2 DEF StoreInv
<1>4. ASSUME NEW c \in LocalCalls, LocalStep(c) PROVE StoreInv'
  <2>1. NumbersOk' /\ \A id \in Dirs : Reused(id) => Reused(id)' BY <1>4, NumbersKept
  <2>2. ASSUME NEW e \in LocalCalls, locals'[e].pc = "loaded"
        PROVE  \E id \in Dirs : id = locals'[e].id /\ (locals'[e].dir = locals'[e].meta \/ Reused(id)')
    <3>1. CASE locals'[e] = locals[e]
      <4>1. locals[e].id \in Dirs /\ (locals[e].dir = locals[e].meta \/ Reused(locals[e].id))
        BY <2>2, <3>1 DEF StoreInv, LoadedOk, LAt
      <4>2. PICK id \in Dirs : id = locals[e].id BY <4>1
      <4>. QED BY <2>1, <3>1, <4>1, <4>2
    <3>2. CASE e = c /\ Confirm(c) /\ locals'[c] = [locals[c] EXCEPT !.pc = "loaded"]
      <4>1. PICK x \in LocalCall : x = locals[c] BY DEF StoreInv, LocalInv, LocalTypes
      <4>2. locals'[e].id = x.id /\ locals'[e].dir = x.dir /\ locals'[e].meta = x.meta BY <3>2, <4>1 DEF LocalCall
      <4>3. LoadOk(x, place) /\ x.pc = "confirm" BY <3>2, <4>1 DEF StoreInv, LocalInv, LocalOk, Confirm, LAt
      <4>4. PICK d \in Found("object") : inode[x.id] = inode[d] BY <3>2, <4>1 DEF Confirm, Same
      <4>5. d \in Dirs /\ place[d] = "object" BY <4>4 DEF Found
      <4>8. PICK id \in Dirs : id = x.id BY <4>3 DEF LoadOk
      <4>6. CASE d = x.id
        <5>1. x.dir = x.meta BY <4>3, <4>5, <4>6 DEF LoadOk
        <5>. QED BY <4>2, <4>8, <5>1
      <4>7. CASE d # x.id
        <5>1. place[x.id] = "removed" BY <4>3, <4>4, <4>5, <4>7 DEF LoadOk, StoreInv, NumbersOk, Free
        <5>2. Reused(id) BY <4>4, <4>5, <4>7, <4>8, <5>1 DEF Reused
        <5>3. Reused(id)' BY <2>1, <5>2
        <5>. QED BY <4>2, <4>8, <5>3
      <4>. QED BY <4>6, <4>7
    <3>. QED BY <1>4, <2>2, <3>1, <3>2, LoadedComes DEF StoreInv
  <2>3. LoadedOk' BY <2>2 DEF LoadedOk, LAt, Reused
  <2>. QED BY <1>1, <2>1, <2>3 DEF StoreInv
<1>. QED BY <1>2, <1>3, <1>4 DEF LocalNext

LEMMA LocalIsSound == StoreInv => ObjectsAreWhole
<1>. SUFFICES ASSUME StoreInv PROVE ObjectsAreWhole OBVIOUS
<1>0. LocalInv BY DEF StoreInv
<1>1. \A c \in LocalCalls : LocalOk(locals[c], place, entries) BY <1>0 DEF LocalInv
<1>2. ReadsAreWhole BY DEF StoreInv, LoadedOk, ReadsAreWhole
<1>3. PublishedStays BY <1>0 DEF LocalInv, PublishedStays, PathsOk, Found
<1>4. DeletedIsGone
  <2>1. ASSUME NEW c \in LocalCalls, LAt(c, "answer"), NEW d \in locals[c].owed PROVE entries[d] = {}
    <3>1. PICK x \in LocalCall : x = locals[c] BY <1>0 DEF LocalInv, LocalTypes
    <3>2. x.pc = "answer" /\ x.op = "delete" BY <1>0, <2>1, <3>1, OpIs DEF LAt
    <3>3. d \in Dirs /\ place[d] = "removed" BY <1>0, <1>1, <2>1, <3>1, <3>2, DeleteIs DEF LocalOk, DeleteOk, TombPcs
    <3>. QED BY <1>0, <3>3 DEF LocalInv, PathsOk
  <2>. QED BY <2>1 DEF DeletedIsGone
<1>. QED BY <1>2, <1>3, <1>4 DEF ObjectsAreWhole

(* Every object stays whole (ObjectsAreWhole: ReadsAreWhole, PublishedStays *)
(* and DeletedIsGone), whatever inode numbers the file system gives again.  *)
THEOREM ObjectsStayWhole == LocalSpec => []ObjectsAreWhole
<1>1. LocalInit => StoreInv BY StoreStarts
<1>2. StoreInv /\ [LocalNext]_localVars => StoreInv' BY StoreStepKeeps
<1>3. StoreInv => ObjectsAreWhole BY LocalIsSound
<1>. QED BY <1>1, <1>2, <1>3, PTL DEF LocalSpec

-----------------------------------------------------------------------------
(***************************************************************************)
(* Sessions                                                                *)
(***************************************************************************)
SessionRow == [revision : Nat, digest : Nat, issuedAt : Int, expiresAt : Int, idle : Nat, renewAfter : Nat,
               lastActiveAt : Int, renewedAt : Int, revoked : BOOLEAN]
AuthPcs == {"idle", "create", "read", "active", "mutate", "revoke", "revokeRevision"}
AuthCall == [pc : AuthPcs, p : AuthProcs \cup {0}, kind : {"none", "verify", "touch", "renew", "revoke"}, digest : Nat,
             record : SessionRow, time : Int]
SessionTypes == /\ session \in SessionRow /\ authClock \in Nat /\ digests \in Nat
                /\ authCalls \in [AuthCalls -> AuthCall]

(* A record that was read, and the row, which may have changed since.      *)
ReadOf(record, row) == /\ record.revision <= row.revision
                       /\ record.revision = row.revision => record.expiresAt = row.expiresAt

AuthCallOk(x, row, n) == /\ x.pc # "idle" => x.p \in AuthProcs
                         /\ x.pc = "create" => row = NoSession /\ n = 1
                         /\ x.pc \notin {"idle", "create"} => row # NoSession
                         /\ x.pc \in {"active", "mutate"} => ReadOf(x.record, row)

SessionInv == /\ SessionTypes
              /\ digests = 0 => session = NoSession
              /\ \A c \in AuthCalls : AuthCallOk(authCalls[c], session, digests)
              /\ \A c, d \in AuthCalls : AuthAt(c, "create") /\ AuthAt(d, "create") => c = d

LEMMA NoSessionIs == NoSession \in SessionRow /\ NoSession.revision = 0 BY DEF NoSession, SessionRow

LEMMA NoAuthCallIs == NoAuthCall \in AuthCall /\ NoAuthCall.pc = "idle" /\ \A row, n : AuthCallOk(NoAuthCall, row, n)
<1>1. NoAuthCall \in AuthCall /\ NoAuthCall.pc = "idle" BY NoSessionIs DEF NoAuthCall, AuthCall, AuthPcs
<1>. QED BY <1>1 DEF AuthCallOk

LEMMA SessionsStart == SessionsInit => SessionInv
<1>. SUFFICES ASSUME SessionsInit PROVE SessionInv OBVIOUS
<1>1. SessionTypes BY NoSessionIs, NoAuthCallIs DEF SessionsInit, SessionTypes
<1>2. \A c \in AuthCalls : authCalls[c] = NoAuthCall BY DEF SessionsInit
<1>3. session = NoSession BY DEF SessionsInit
<1>. QED BY <1>1, <1>2, <1>3, NoAuthCallIs DEF SessionInv, AuthAt

(* The row becomes r, and a call x.                                        *)
LEMMA AuthMoves ==
  ASSUME SessionInv, NEW c \in AuthCalls, NEW x \in AuthCall, authCalls' = [authCalls EXCEPT ![c] = x],
         NEW r \in SessionRow, session' = r, NEW n \in Nat, digests' = n, authClock' = authClock,
         ReadOf(session, r), AuthCallOk(x, r, n), n = 0 => r = NoSession, session # NoSession => r # NoSession,
         (\E d \in AuthCalls : d # c /\ AuthAt(d, "create")) => r = NoSession /\ n = 1 /\ x.pc # "create"
  PROVE  SessionInv'
<1>1. SessionTypes' BY DEF SessionInv, SessionTypes
<1>2. \A d \in AuthCalls : authCalls'[d] = IF d = c THEN x ELSE authCalls[d] BY DEF SessionInv, SessionTypes
<1>3. ASSUME NEW d \in AuthCalls PROVE AuthCallOk(authCalls'[d], r, n)
  <2>1. CASE d = c BY <1>2, <2>1
  <2>2. CASE d # c
    <3>1. PICK y \in AuthCall : y = authCalls[d] /\ y = authCalls'[d] BY <1>2, <2>2 DEF SessionInv, SessionTypes
    <3>2. AuthCallOk(y, session, digests) BY <3>1 DEF SessionInv
    <3>3. y.pc = "create" => r = NoSession /\ n = 1 BY <2>2, <3>1 DEF AuthAt
    <3>4. PICK rec \in SessionRow : rec = y.record BY DEF AuthCall
    <3>5. PICK s \in SessionRow : s = session BY DEF SessionInv, SessionTypes
    <3>6. ReadOf(rec, s) => ReadOf(rec, r)
      <4>1. rec.revision \in Nat /\ s.revision \in Nat /\ r.revision \in Nat BY DEF SessionRow
      <4>2. ReadOf(s, r) BY <3>5
      <4>. QED BY <4>1, <4>2 DEF ReadOf
    <3>. QED BY <3>1, <3>2, <3>3, <3>4, <3>5, <3>6 DEF AuthCallOk
  <2>. QED BY <2>1, <2>2
<1>4. \A d, e \in AuthCalls : authCalls'[d].pc = "create" /\ authCalls'[e].pc = "create" => d = e
  BY <1>2 DEF SessionInv, AuthAt
<1>. QED BY <1>1, <1>3, <1>4 DEF SessionInv, AuthAt

(* Nothing changes but the call.                                           *)
LEMMA AuthQuiet ==
  ASSUME SessionInv, NEW c \in AuthCalls, NEW x \in AuthCall, authCalls' = [authCalls EXCEPT ![c] = x],
         UNCHANGED <<session, authClock, digests>>, AuthCallOk(x, session, digests), x.pc # "create"
  PROVE  SessionInv'
<1>1. session \in SessionRow /\ digests \in Nat BY DEF SessionInv, SessionTypes
<1>2. ReadOf(session, session)
  <2>1. PICK s \in SessionRow : s = session BY <1>1
  <2>2. s.revision \in Nat BY DEF SessionRow
  <2>. QED BY <2>1, <2>2 DEF ReadOf
<1>3. (\E d \in AuthCalls : d # c /\ AuthAt(d, "create")) => session = NoSession /\ digests = 1
  BY DEF SessionInv, AuthCallOk, AuthAt
<1>4. digests = 0 => session = NoSession BY DEF SessionInv
<1>. QED BY <1>1, <1>2, <1>3, <1>4, AuthMoves

(* A call that is past "create" ends; the row was there.                   *)
LEMMA AuthEnds ==
  ASSUME SessionInv, NEW c \in AuthCalls, SessionEnds(c), NEW r \in SessionRow, session' = r, authClock' = authClock,
         NEW n \in Nat, digests' = n, n >= digests, ReadOf(session, r),
         \/ session # NoSession /\ r # NoSession
         \/ r = session /\ n = digests
  PROVE  SessionInv'
<1>1. authCalls' = [authCalls EXCEPT ![c] = NoAuthCall] BY DEF SessionEnds
<1>2. (\E d \in AuthCalls : d # c /\ AuthAt(d, "create")) => r = NoSession /\ n = 1
  BY DEF SessionInv, AuthCallOk, AuthAt
<1>3. n = 0 => r = NoSession BY DEF SessionInv, SessionTypes
<1>4. NoAuthCall \in AuthCall /\ NoAuthCall.pc = "idle" /\ AuthCallOk(NoAuthCall, r, n) BY NoAuthCallIs
<1>. QED BY <1>1, <1>2, <1>3, <1>4, AuthMoves

LEMMA ReadsSame == \A r \in SessionRow : ReadOf(r, r)
<1>. TAKE r \in SessionRow
<1>1. r.revision \in Nat BY DEF SessionRow
<1>. QED BY <1>1 DEF ReadOf

LEMMA EndsWithoutChange ==
  ASSUME SessionInv, NEW c \in AuthCalls, SessionEnds(c), UNCHANGED <<session, authClock, digests>> PROVE SessionInv'
<1>1. session \in SessionRow /\ digests \in Nat /\ digests >= digests BY DEF SessionInv, SessionTypes
<1>2. ReadOf(session, session) BY <1>1, ReadsSame
<1>. QED BY <1>1, <1>2, AuthEnds

LEMMA BeginsCall ==
  ASSUME SessionInv, NEW c \in AuthCalls, NEW p \in AuthProcs,
         \/ Issue(c, p) \/ InspectSession(c, p)
         \/ \E kind \in {"verify", "touch", "renew", "revoke"}, d \in 1..digests : SessionCall(c, p, kind, d)
  PROVE  SessionInv'
<1>1. session \in SessionRow /\ digests \in Nat /\ authClock \in Nat BY DEF SessionInv, SessionTypes
<1>2. CASE Issue(c, p)
  <2>1. PICK t \in Int : t = Now(p) BY <1>1, LifetimeAssumption DEF Now
  <2>2. PICK x \in AuthCall : x = [NoAuthCall EXCEPT !.pc = "create", !.p = p, !.time = t] BY NoAuthCallIs DEF AuthCall, AuthPcs
  <2>3. x.pc = "create" /\ x.p = p BY <2>2 DEF NoAuthCall
  <2>4. authCalls' = [authCalls EXCEPT ![c] = x] BY <1>2, <2>1, <2>2 DEF Issue
  <2>5. session = NoSession /\ \A d \in AuthCalls : ~AuthAt(d, "create")
    BY <1>2 DEF Issue, SessionInv, AuthCallOk, AuthAt
  <2>6. AuthCallOk(x, session, 1) BY <2>3, <2>5 DEF AuthCallOk
  <2>7. ReadOf(session, session) BY <1>1, ReadsSame
  <2>8. session' = session /\ digests' = 1 /\ authClock' = authClock BY <1>2 DEF Issue
  <2>. QED BY <1>1, <2>4, <2>5, <2>6, <2>7, <2>8, AuthMoves
<1>3. CASE InspectSession(c, p)
  <2>1. PICK x \in AuthCall : x = [NoAuthCall EXCEPT !.pc = "revokeRevision", !.p = p, !.record = session]
    BY <1>1, NoAuthCallIs DEF AuthCall, AuthPcs
  <2>2. x.pc = "revokeRevision" /\ x.p = p BY <2>1 DEF NoAuthCall
  <2>3. AuthCallOk(x, session, digests) BY <1>3, <2>2 DEF AuthCallOk, InspectSession
  <2>. QED BY <1>3, <2>1, <2>2, <2>3, AuthQuiet DEF InspectSession
<1>4. ASSUME NEW kind \in {"verify", "touch", "renew", "revoke"}, NEW d \in 1 .. digests, SessionCall(c, p, kind, d) PROVE SessionInv'
  <2>1. d \in Nat BY <1>1
  <2>2. PICK x \in AuthCall : x = [NoAuthCall EXCEPT !.pc = "read", !.p = p, !.kind = kind, !.digest = d]
    BY <2>1, NoAuthCallIs DEF AuthCall, AuthPcs
  <2>3. x.pc = "read" /\ x.p = p BY <2>2 DEF NoAuthCall
  <2>4. AuthCallOk(x, session, digests) BY <1>4, <2>3 DEF AuthCallOk, SessionCall
  <2>. QED BY <1>4, <2>2, <2>3, <2>4, AuthQuiet DEF SessionCall
<1>. QED BY <1>2, <1>3, <1>4

LEMMA CreateKeeps == ASSUME SessionInv, NEW c \in AuthCalls, CreateSession(c) PROVE SessionInv'
<1>1. PICK x \in AuthCall : x = authCalls[c] BY DEF SessionInv, SessionTypes
<1>2. x.p \in AuthProcs /\ session = NoSession /\ digests = 1 BY <1>1 DEF CreateSession, AuthAt, SessionInv, AuthCallOk
<1>3. PICK t \in Int : t = x.time BY DEF AuthCall
<1>4. PICK life \in [idle : Nat, absolute : Nat, renewAfter : Nat] : life = Lifetime[x.p] BY <1>2, LifetimeAssumption
<1>5. PICK r \in SessionRow : r = [revision |-> 1, digest |-> 1, issuedAt |-> t, expiresAt |-> t + life.absolute, idle |-> life.idle,
                                   renewAfter |-> life.renewAfter, lastActiveAt |-> t, renewedAt |-> t, revoked |-> FALSE]
  <2>1. life.idle \in Nat /\ life.renewAfter \in Nat /\ t + life.absolute \in Int OBVIOUS
  <2>. QED BY <2>1 DEF SessionRow
<1>6. session' = r BY <1>1, <1>3, <1>4, <1>5 DEF CreateSession
<1>7. r.revision = 1 BY <1>5
<1>8. ReadOf(session, r) BY <1>2, <1>7, NoSessionIs DEF ReadOf
<1>9. \A d \in AuthCalls : d # c => ~AuthAt(d, "create") BY DEF CreateSession, SessionInv
<1>10. AuthCallOk(NoAuthCall, r, 1) /\ NoAuthCall \in AuthCall BY NoAuthCallIs
<1>11. digests' = 1 /\ authClock' = authClock /\ authCalls' = [authCalls EXCEPT ![c] = NoAuthCall]
  BY <1>2 DEF CreateSession, SessionEnds
<1>12. /\ 1 = 0 => r = NoSession
       /\ session # NoSession => r # NoSession
       /\ (\E d \in AuthCalls : d # c /\ AuthAt(d, "create")) => r = NoSession /\ 1 = 1 /\ NoAuthCall.pc # "create"
  BY <1>2, <1>9
<1>. QED BY <1>6, <1>8, <1>10, <1>11, <1>12, AuthMoves

LEMMA LookupKeeps == ASSUME SessionInv, NEW c \in AuthCalls, LookupSession(c) PROVE SessionInv'
<1>1. PICK x \in AuthCall : x = authCalls[c] BY DEF SessionInv, SessionTypes
<1>2. x.p \in AuthProcs /\ session # NoSession BY <1>1 DEF LookupSession, AuthAt, SessionInv, AuthCallOk
<1>3. CASE SessionEnds(c) BY <1>3, EndsWithoutChange DEF LookupSession
<1>4. ASSUME NEW pc \in {"revoke", "active"}, authCalls' = [authCalls EXCEPT ![c].pc = pc, ![c].record = session] PROVE SessionInv'
  <2>1. PICK s \in SessionRow : s = session BY DEF SessionInv, SessionTypes
  <2>2. PICK y \in AuthCall : y = [x EXCEPT !.pc = pc, !.record = s] BY DEF AuthCall, AuthPcs
  <2>3. y.pc = pc /\ y.p = x.p /\ y.record = s BY <2>2 DEF AuthCall
  <2>4. AuthCallOk(y, session, digests) BY <1>2, <2>1, <2>3, ReadsSame DEF AuthCallOk
  <2>5. authCalls' = [authCalls EXCEPT ![c] = y]
    <3>1. authCalls' = [authCalls EXCEPT ![c] = [x EXCEPT !.pc = pc, !.record = s]] BY <1>1, <1>4, <2>1 DEF SessionInv, SessionTypes
    <3>. QED BY <2>2, <3>1
  <2>. QED BY <2>3, <2>4, <2>5, AuthQuiet DEF LookupSession
<1>5. \/ SessionEnds(c)
      \/ authCalls' = [authCalls EXCEPT ![c].pc = "revoke", ![c].record = session]
      \/ authCalls' = [authCalls EXCEPT ![c].pc = "active", ![c].record = session]
  BY DEF LookupSession
<1>. QED BY <1>3, <1>4, <1>5

LEMMA ActiveKeeps == ASSUME SessionInv, NEW c \in AuthCalls, Active(c) PROVE SessionInv'
<1>1. PICK x \in AuthCall : x = authCalls[c] BY DEF SessionInv, SessionTypes
<1>2. AuthCallOk(x, session, digests) /\ x.pc = "active" BY <1>1 DEF Active, AuthAt, SessionInv
<1>3. CASE SessionEnds(c) BY <1>3, EndsWithoutChange DEF Active
<1>4. CASE ~SessionEnds(c)
  <2>1. PICK t \in Int : t = Now(x.p) BY <1>2, LifetimeAssumption DEF Now, AuthCallOk, SessionInv, SessionTypes
  <2>2. PICK y \in AuthCall : y = [x EXCEPT !.pc = "mutate", !.time = t] BY DEF AuthCall, AuthPcs
  <2>3. y.pc = "mutate" /\ y.p = x.p /\ y.record = x.record BY <2>2 DEF AuthCall
  <2>4. AuthCallOk(y, session, digests) BY <1>2, <2>3 DEF AuthCallOk
  <2>5. authCalls' = [authCalls EXCEPT ![c] = y]
    <3>1. authCalls' = [authCalls EXCEPT ![c].pc = "mutate", ![c].time = t] BY <1>1, <1>4, <2>1 DEF Active
    <3>2. authCalls' = [authCalls EXCEPT ![c] = [x EXCEPT !.pc = "mutate", !.time = t]] BY <1>1, <3>1 DEF SessionInv, SessionTypes
    <3>. QED BY <2>2, <3>2
  <2>. QED BY <2>3, <2>4, <2>5, AuthQuiet DEF Active
<1>. QED BY <1>3, <1>4

LEMMA NextRowIs ==
  ASSUME NEW x \in AuthCall, x.p \in AuthProcs, digests \in Nat, NEW revoked \in BOOLEAN
  PROVE  LET next == [NextRow(x) EXCEPT !.revoked = revoked]
         IN /\ next \in SessionRow /\ next.revision = x.record.revision + 1 /\ next.expiresAt <= x.record.expiresAt
            /\ next.revoked = revoked
<1>1. PICK r \in SessionRow : r = x.record BY DEF AuthCall
<1>2. PICK life \in [idle : Nat, absolute : Nat, renewAfter : Nat] : life = Lifetime[x.p] BY LifetimeAssumption
<1>3. PICK t \in Int : t = x.time BY DEF AuthCall
<1>4. /\ r.revision \in Nat /\ r.digest \in Nat /\ r.issuedAt \in Int /\ r.expiresAt \in Int /\ r.idle \in Nat
      /\ r.renewAfter \in Nat /\ r.renewedAt \in Int
  BY DEF SessionRow
<1>5. PICK e \in Int : e = Least(r.expiresAt, r.issuedAt + life.absolute) BY <1>4 DEF Least
<1>6. PICK idle \in Nat : idle = Least(r.idle, life.idle) BY <1>4 DEF Least
<1>7. PICK after \in Nat : after = Most(r.renewAfter, life.renewAfter) BY <1>4 DEF Most
<1>8. PICK renewed \in Int : renewed = IF x.kind = "renew" THEN t ELSE r.renewedAt BY <1>4
<1>9. PICK digest \in Nat : digest = IF x.kind = "renew" THEN digests + 1 ELSE r.digest BY <1>4
<1>10. PICK revision \in Nat : revision = r.revision + 1 BY <1>4
<1>11. PICK n \in SessionRow : n = [r EXCEPT !.revision = revision, !.expiresAt = e, !.idle = idle, !.renewAfter = after,
                                             !.lastActiveAt = t, !.renewedAt = renewed, !.digest = digest]
  BY DEF SessionRow
<1>12. n = NextRow(x) BY <1>1, <1>2, <1>3, <1>5, <1>6, <1>7, <1>8, <1>9, <1>10, <1>11 DEF NextRow
<1>13. n.revision = revision /\ n.expiresAt = e BY <1>11 DEF SessionRow
<1>14. PICK m \in SessionRow : m = [n EXCEPT !.revoked = revoked] BY DEF SessionRow
<1>15. m.revision = n.revision /\ m.expiresAt = n.expiresAt /\ m.revoked = revoked BY <1>14 DEF SessionRow
<1>16. e <= r.expiresAt BY <1>4, <1>5 DEF Least
<1>. QED BY <1>1, <1>10, <1>12, <1>13, <1>14, <1>15, <1>16

(* What a mutation leaves of the row.                                      *)
Mutated(c, r) == \/ r = session
                 \/ \E next : /\ MutationPredicate(authCalls[c], next) /\ session.revision < r.revision
                              /\ r.expiresAt <= session.expiresAt

LEMMA MutateIs ==
  ASSUME SessionInv, NEW c \in AuthCalls, MutateSession(c)
  PROVE  session' \in SessionRow /\ Mutated(c, session')
<1>1. PICK x \in AuthCall : x = authCalls[c] BY DEF SessionInv, SessionTypes
<1>2. AuthCallOk(x, session, digests) /\ x.pc = "mutate" BY <1>1 DEF MutateSession, AuthAt, SessionInv
<1>3. PICK s \in SessionRow : s = session BY DEF SessionInv, SessionTypes
<1>4. CASE session' = session BY <1>3, <1>4 DEF Mutated
<1>5. CASE session' # session
  <2>1. MutationPredicate(x, NextRow(x)) /\ session' = [NextRow(x) EXCEPT !.revoked = s.revoked]
    BY <1>1, <1>3, <1>5 DEF MutateSession
  <2>2. x.p \in AuthProcs /\ digests \in Nat /\ s.revoked \in BOOLEAN BY <1>2 DEF AuthCallOk, SessionInv, SessionTypes, SessionRow
  <2>3. PICK n \in SessionRow : n = session' /\ n.revision = x.record.revision + 1 /\ n.expiresAt <= x.record.expiresAt
    BY <2>1, <2>2, NextRowIs
  <2>4. x.record.revision = s.revision BY <1>3, <2>1 DEF MutationPredicate
  <2>5. x.record.expiresAt = s.expiresAt BY <1>2, <1>3, <2>4 DEF AuthCallOk, ReadOf
  <2>6. s.revision \in Nat BY DEF SessionRow
  <2>7. s.revision < n.revision /\ n.expiresAt <= s.expiresAt BY <2>3, <2>4, <2>5, <2>6
  <2>. QED BY <1>1, <1>3, <2>1, <2>3, <2>7 DEF Mutated
<1>. QED BY <1>4, <1>5

LEMMA MutateKeeps == ASSUME SessionInv, NEW c \in AuthCalls, MutateSession(c) PROVE SessionInv'
<1>1. PICK s \in SessionRow : s = session BY DEF SessionInv, SessionTypes
<1>2. PICK r \in SessionRow : r = session' /\ Mutated(c, r) BY MutateIs
<1>3. PICK x \in AuthCall : x = authCalls[c] BY DEF SessionInv, SessionTypes
<1>4. AuthCallOk(x, session, digests) /\ x.pc = "mutate" BY <1>3 DEF MutateSession, AuthAt, SessionInv
<1>5. s.revision \in Nat /\ r.revision \in Nat BY DEF SessionRow
<1>6. ReadOf(s, r) BY <1>1, <1>2, <1>5, ReadsSame DEF Mutated, ReadOf
<1>7. SessionEnds(c) /\ authClock' = authClock BY DEF MutateSession
<1>8. PICK n \in Nat : n = digests' /\ n >= digests BY DEF MutateSession, SessionInv, SessionTypes
<1>9. s # NoSession BY <1>1, <1>4 DEF AuthCallOk
<1>10. r # NoSession BY <1>1, <1>2, <1>5, <1>9, NoSessionIs DEF Mutated
<1>. QED BY <1>1, <1>2, <1>6, <1>7, <1>8, <1>9, <1>10, AuthEnds

(* A revocation ends the session, and nothing else.                        *)
LEMMA RevokeIs ==
  ASSUME SessionInv, NEW c \in AuthCalls, RevokeSession(c) \/ RevokeRevision(c)
  PROVE  /\ session # NoSession /\ session' \in SessionRow /\ session'.expiresAt = session.expiresAt
         /\ session'.digest = session.digest /\ ReadOf(session, session')
         /\ session' = session \/ session'.revoked
<1>1. PICK s \in SessionRow : s = session BY DEF SessionInv, SessionTypes
<1>2. PICK x \in AuthCall : x = authCalls[c] BY DEF SessionInv, SessionTypes
<1>3. AuthCallOk(x, session, digests) /\ x.pc \in {"revoke", "revokeRevision"}
  BY <1>2 DEF RevokeSession, RevokeRevision, AuthAt, SessionInv
<1>4. s # NoSession BY <1>1, <1>3 DEF AuthCallOk
<1>5. s.revision \in Nat BY DEF SessionRow
<1>6. CASE session' = session BY <1>1, <1>4, <1>6, ReadsSame
<1>7. CASE session' = [s EXCEPT !.revoked = TRUE]
  <2>1. PICK r \in SessionRow : r = [s EXCEPT !.revoked = TRUE] BY DEF SessionRow
  <2>2. r.revision = s.revision /\ r.expiresAt = s.expiresAt /\ r.digest = s.digest /\ r.revoked BY <2>1 DEF SessionRow
  <2>. QED BY <1>1, <1>4, <1>5, <1>7, <2>1, <2>2 DEF ReadOf
<1>8. CASE session' = [s EXCEPT !.revoked = TRUE, !.revision = s.revision + 1]
  <2>0. PICK n \in Nat : n = s.revision + 1 BY <1>5
  <2>1. PICK r \in SessionRow : r = [s EXCEPT !.revoked = TRUE, !.revision = n] BY DEF SessionRow
  <2>2. r.revision = n /\ r.expiresAt = s.expiresAt /\ r.digest = s.digest /\ r.revoked BY <2>1 DEF SessionRow
  <2>. QED BY <1>1, <1>4, <1>5, <1>8, <2>0, <2>1, <2>2 DEF ReadOf
<1>. QED BY <1>1, <1>6, <1>7, <1>8 DEF RevokeSession, RevokeRevision

LEMMA RevokeKeeps == ASSUME SessionInv, NEW c \in AuthCalls, RevokeSession(c) \/ RevokeRevision(c) PROVE SessionInv'
<1>1. PICK r \in SessionRow : r = session' BY RevokeIs
<1>2. r = session \/ r # NoSession BY <1>1, RevokeIs DEF NoSession
<1>3. SessionEnds(c) /\ authClock' = authClock /\ digests' = digests BY DEF RevokeSession, RevokeRevision
<1>4. digests \in Nat /\ digests >= digests BY DEF SessionInv, SessionTypes
<1>5. ReadOf(session, r) /\ session # NoSession BY <1>1, RevokeIs
<1>. QED BY <1>1, <1>2, <1>3, <1>4, <1>5, AuthEnds

LEMMA SessionStepKeeps == ASSUME SessionInv, [SessionsNext]_authVars PROVE SessionInv'
<1>1. CASE UNCHANGED authVars BY <1>1 DEF authVars, SessionInv, SessionTypes, AuthCallOk, ReadOf, AuthAt
<1>2. CASE AuthTick
  <2>1. authClock' \in Nat BY <1>2 DEF AuthTick, SessionInv, SessionTypes
  <2>. QED BY <1>2, <2>1 DEF AuthTick, SessionInv, SessionTypes, AuthCallOk, ReadOf, AuthAt
<1>3. ASSUME NEW p \in AuthProcs, CloseSessions(p) \/ ClosedSessions(p) PROVE SessionInv'
  <2>1. UNCHANGED <<session, authClock, digests, authCalls>> BY <1>3 DEF CloseSessions, ClosedSessions
  <2>. QED BY <2>1 DEF SessionInv, SessionTypes, AuthCallOk, ReadOf, AuthAt
<1>. QED BY <1>1, <1>2, <1>3, CreateKeeps, LookupKeeps, ActiveKeeps, MutateKeeps, RevokeKeeps, BeginsCall DEF SessionsNext

(* An ended session stays ended, and no end is put off.                    *)
EndIsKept == /\ Ended => Ended' /\ session'.digest = session.digest
             /\ session # NoSession => session'.expiresAt <= session.expiresAt

LEMMA SameRowEnds ==
  ASSUME SessionInv, session' = session, authClock' \in Nat, authClock' >= authClock PROVE EndIsKept
<1>1. PICK s \in SessionRow : s = session BY DEF SessionInv, SessionTypes
<1>2. PICK m \in Int : m = Least(s.expiresAt, s.lastActiveAt + s.idle) BY DEF Least, SessionRow
<1>3. s.expiresAt \in Int BY DEF SessionRow
<1>4. authClock \in Nat BY DEF SessionInv, SessionTypes
<1>5. Ended => Ended' BY <1>1, <1>2, <1>4 DEF Ended
<1>. QED BY <1>1, <1>3, <1>5 DEF EndIsKept

LEMMA SessionStepEnds == ASSUME SessionInv, [SessionsNext]_authVars PROVE EndIsKept
<1>1. authClock \in Nat /\ authClock >= authClock BY DEF SessionInv, SessionTypes
<1>2. CASE UNCHANGED authVars BY <1>1, <1>2, SameRowEnds DEF authVars
<1>3. CASE AuthTick
  <2>1. authClock' \in Nat /\ authClock' >= authClock /\ session' = session BY <1>1, <1>3 DEF AuthTick
  <2>. QED BY <2>1, SameRowEnds
<1>4. ASSUME NEW p \in AuthProcs, CloseSessions(p) \/ ClosedSessions(p) PROVE EndIsKept
  <2>1. UNCHANGED <<session, authClock, digests, authCalls>> BY <1>4 DEF CloseSessions, ClosedSessions
  <2>. QED BY <1>1, <2>1, SameRowEnds
<1>5. ASSUME NEW c \in AuthCalls, CreateSession(c) PROVE EndIsKept
  <2>1. session = NoSession BY <1>5 DEF CreateSession, AuthAt, SessionInv, AuthCallOk
  <2>. QED BY <2>1 DEF EndIsKept, Ended
<1>6. ASSUME NEW c \in AuthCalls, LookupSession(c) \/ Active(c) PROVE EndIsKept
  BY <1>1, <1>6, SameRowEnds DEF LookupSession, Active
<1>7. ASSUME NEW c \in AuthCalls, MutateSession(c) PROVE EndIsKept
  <2>1. PICK s \in SessionRow : s = session BY DEF SessionInv, SessionTypes
  <2>2. session' \in SessionRow /\ Mutated(c, session') /\ authClock' = authClock BY <1>7, MutateIs DEF MutateSession
  <2>3. CASE session' = session BY <1>1, <2>2, <2>3, SameRowEnds
  <2>4. ASSUME NEW next, MutationPredicate(authCalls[c], next), session'.expiresAt <= session.expiresAt PROVE EndIsKept
    <3>1. PICK t \in Int : t = authCalls[c].time BY DEF SessionInv, SessionTypes, AuthCall
    <3>2. PICK clock \in Int : clock = Most(t, authClock) /\ authClock <= clock BY <1>1 DEF Most
    <3>3. ~s.revoked /\ clock < s.expiresAt /\ clock < s.lastActiveAt + s.idle BY <2>1, <2>4, <3>1, <3>2 DEF MutationPredicate
    <3>4. s.expiresAt \in Int /\ s.lastActiveAt + s.idle \in Int BY DEF SessionRow
    <3>5. ~Ended BY <1>1, <2>1, <3>2, <3>3, <3>4 DEF Ended, Least
    <3>. QED BY <2>4, <3>5 DEF EndIsKept
  <2>. QED BY <2>2, <2>3, <2>4 DEF Mutated
<1>8. ASSUME NEW c \in AuthCalls, RevokeSession(c) \/ RevokeRevision(c) PROVE EndIsKept
  <2>1. PICK s \in SessionRow : s = session BY DEF SessionInv, SessionTypes
  <2>2. session'.expiresAt = s.expiresAt /\ s.expiresAt \in Int /\ session'.digest = s.digest BY <1>8, <2>1, RevokeIs DEF SessionRow
  <2>3. CASE session' = session BY <1>1, <1>8, <2>3, SameRowEnds DEF RevokeSession, RevokeRevision
  <2>4. CASE session'.revoked /\ session' # session
    <3>1. session' # NoSession BY <2>4 DEF NoSession
    <3>2. Ended' BY <2>4, <3>1 DEF Ended
    <3>. QED BY <2>1, <2>2, <3>2 DEF EndIsKept
  <2>. QED BY <1>8, <2>3, <2>4, RevokeIs
<1>9. ASSUME NEW c \in AuthCalls, NEW p \in AuthProcs,
             \/ Issue(c, p) \/ InspectSession(c, p)
             \/ \E kind \in {"verify", "touch", "renew", "revoke"}, d \in 1..digests : SessionCall(c, p, kind, d)
      PROVE  EndIsKept
  <2>1. session' = session /\ authClock' = authClock BY <1>9 DEF Issue, InspectSession, SessionCall
  <2>. QED BY <1>1, <2>1, SameRowEnds
<1>. QED BY <1>2, <1>3, <1>4, <1>5, <1>6, <1>7, <1>8, <1>9 DEF SessionsNext

(* A session ends for good, whichever lifetimes the processes have and     *)
(* however far their clocks are off (SessionEndsForGood).                  *)
THEOREM SessionsEndForGood == SessionsSpec => SessionEndsForGood
<1>1. SessionsInit => SessionInv BY SessionsStart
<1>2. SessionInv /\ [SessionsNext]_authVars => SessionInv' BY SessionStepKeeps
<1>3. SessionInv /\ [SessionsNext]_authVars => [EndIsKept]_authVars BY SessionStepEnds
<1>4. SessionsSpec => [][EndIsKept]_authVars BY <1>1, <1>2, <1>3, PTL DEF SessionsSpec
<1>. QED BY <1>4 DEF SessionEndsForGood, EndIsKept

-----------------------------------------------------------------------------
(***************************************************************************)
(* API keys                                                                *)
(***************************************************************************)
UsePcs == {"idle", "first", "active", "policy", "second", "still", "used"}
KeyRow == [stored : BOOLEAN, digest : Nat, previous : Nat, overlapUntil : Nat, revision : Nat, expiresAt : Nat, revoked : BOOLEAN]
KeyUse == [pc : UsePcs, secret : Nat, dead : BOOLEAN]
KeyTypes == /\ keyClock \in Nat \ {0} /\ key \in KeyRow /\ secrets \in Nat
            /\ uses \in [KeyCalls -> KeyUse]
            /\ handed \subseteq Nat \X Nat /\ promised \subseteq Nat \X Nat /\ revocation \in BOOLEAN

(* verify() of a row, and what no service accepts any more.                *)
Good(r, secret, now) == /\ r.stored /\ ~r.revoked /\ r.expiresAt > now
                        /\ secret = r.digest \/ (secret = r.previous /\ r.overlapUntil > now)
Dead(r, clock, secret) == \A now \in (clock - KeySkew) .. clock : now > 0 => ~Good(r, secret, now)

RowOk(r, n) == /\ r.digest <= n /\ r.previous <= n
               /\ r.stored => r.digest > 0 /\ r.previous < r.digest
HandedOk(r, n, hs) == /\ ~r.stored => hs = {}
                      /\ \A h \in hs : h[2] \in 1 .. n /\ h[1] <= r.revision
                      /\ \A h, i \in hs : h[1] = i[1] => h = i
UseOk(u, r, clock, n) == /\ u.pc # "idle" => u.secret \in 1 .. n
                         /\ u.pc \in {"second", "still", "used"} /\ u.dead => Dead(r, clock, u.secret)
                         /\ u.pc \in {"still", "used"} => ~u.dead
PromiseOk(p, r, clock) == /\ r.stored /\ 0 < p[1] /\ p[1] < r.digest
                          /\ ~r.revoked => /\ p[1] = r.previous => r.overlapUntil = p[2]
                                           /\ clock < p[2] => p[1] = r.previous

KeyInv == /\ KeyTypes /\ RowOk(key, secrets) /\ HandedOk(key, secrets, handed)
          /\ \A c \in KeyCalls : UseOk(uses[c], key, keyClock, secrets)
          /\ \A p \in promised : PromiseOk(p, key, keyClock)
          /\ revocation => key.stored /\ key.revoked

LEMMA VerifiesIsGood ==
  /\ \A secret, now : Verifies(secret, now) <=> Good(key, secret, now)
  /\ \A secret : DeadForAll(secret) <=> Dead(key, keyClock, secret)
BY DEF Verifies, Good, DeadForAll, Dead, ServiceTimes

LEMMA NoUseIs == NoUse \in KeyUse /\ NoUse.pc = "idle" /\ \A r, clock, n : UseOk(NoUse, r, clock, n)
<1>1. NoUse \in KeyUse /\ NoUse.pc = "idle" BY DEF NoUse, KeyUse, UsePcs, NoSecret
<1>. QED BY <1>1 DEF UseOk

LEMMA KeysStart == KeysInit => KeyInv
<1>. SUFFICES ASSUME KeysInit PROVE KeyInv OBVIOUS
<1>1. NoKeyRow \in KeyRow /\ NoKeyRow.stored = FALSE /\ NoKeyRow.digest = 0 /\ NoKeyRow.previous = 0
  BY DEF NoKeyRow, KeyRow, NoSecret
<1>2. KeyTypes
  <2>1. keyClock \in Nat \ {0} /\ key \in KeyRow /\ secrets \in Nat BY <1>1 DEF KeysInit, NoSecret
  <2>2. uses \in [KeyCalls -> KeyUse] BY NoUseIs DEF KeysInit
  <2>3. handed = {} /\ promised = {} /\ revocation \in BOOLEAN BY DEF KeysInit
  <2>. QED BY <2>1, <2>2, <2>3 DEF KeyTypes
<1>3. RowOk(key, secrets) /\ HandedOk(key, secrets, handed) BY <1>1 DEF KeysInit, RowOk, HandedOk, NoSecret
<1>. QED BY <1>2, <1>3, NoUseIs DEF KeysInit, KeyInv

(* The row becomes r, the clock t: what was dead stays dead, and what was  *)
(* promised stays promised.                                                *)
LEMMA RowKeeps ==
  ASSUME KeyInv, NEW r \in KeyRow, NEW t \in Nat \ {0}, NEW n \in Nat, key' = r, keyClock' = t, secrets' = n,
         n >= secrets, t >= keyClock, uses' = uses, RowOk(r, n), HandedOk(r, n, handed'), handed' \subseteq Nat \X Nat,
         revocation' \in BOOLEAN, revocation' => r.stored /\ r.revoked,
         \A secret \in 1 .. secrets : Dead(key, keyClock, secret) => Dead(r, t, secret),
         promised' \subseteq Nat \X Nat, \A p \in promised' : PromiseOk(p, r, t)
  PROVE  KeyInv'
<1>1. KeyTypes' BY DEF KeyInv, KeyTypes
<1>2. ASSUME NEW c \in KeyCalls PROVE UseOk(uses[c], r, t, n)
  <2>1. PICK u \in KeyUse : u = uses[c] BY DEF KeyInv, KeyTypes
  <2>2. UseOk(u, key, keyClock, secrets) BY <2>1 DEF KeyInv
  <2>3. u.secret \in 1 .. secrets => u.secret \in 1 .. n BY DEF KeyInv, KeyTypes
  <2>. QED BY <2>1, <2>2, <2>3 DEF UseOk
<1>. QED BY <1>1, <1>2 DEF KeyInv

LEMMA KeyTickKeeps == ASSUME KeyInv, KeyTick PROVE KeyInv'
<1>1. PICK t \in Nat \ {0} : t = keyClock + 1 BY DEF KeyInv, KeyTypes
<1>2. key \in KeyRow /\ keyClock \in Nat \ {0} /\ secrets \in Nat /\ promised \subseteq Nat \X Nat BY DEF KeyInv, KeyTypes
<1>3. ASSUME NEW secret \in 1 .. secrets, Dead(key, keyClock, secret) PROVE Dead(key, t, secret)
  <2>1. ASSUME NEW now \in (t - KeySkew) .. t, now > 0, Good(key, secret, now) PROVE FALSE
    <3>1. PICK k \in KeyRow : k = key BY <1>2
    <3>2. PICK w \in Int : w = IF now = t THEN t - 1 ELSE now BY <1>1
    <3>3. w \in (keyClock - KeySkew) .. keyClock /\ w > 0 /\ w <= now BY <1>1, <1>2, <2>1, <3>2, KeyAssumption
    <3>4. Good(k, secret, w)
      <4>1. k.expiresAt \in Nat /\ k.overlapUntil \in Nat BY DEF KeyRow
      <4>. QED BY <2>1, <3>1, <3>2, <3>3, <4>1 DEF Good
    <3>. QED BY <1>3, <3>1, <3>3, <3>4 DEF Dead
  <2>. QED BY <2>1 DEF Dead
<1>4. ASSUME NEW p \in promised PROVE PromiseOk(p, key, t)
  <2>1. PromiseOk(p, key, keyClock) /\ p[2] \in Nat BY <1>2 DEF KeyInv
  <2>. QED BY <1>1, <1>2, <2>1 DEF PromiseOk
<1>5. /\ key' = key /\ keyClock' = t /\ secrets' = secrets /\ uses' = uses /\ handed' = handed
      /\ promised' = promised /\ revocation' = revocation
  BY <1>1 DEF KeyTick
<1>6. /\ RowOk(key, secrets) /\ HandedOk(key, secrets, handed) /\ handed \subseteq Nat \X Nat
      /\ revocation \in BOOLEAN /\ (revocation => key.stored /\ key.revoked)
  BY DEF KeyInv, KeyTypes
<1>7. secrets >= secrets /\ t >= keyClock BY <1>1, <1>2
<1>. QED BY <1>2, <1>3, <1>4, <1>5, <1>6, <1>7, RowKeeps

LEMMA IssueKeeps == ASSUME KeyInv, NEW at \in ServiceTimes, IssueKey(at) PROVE KeyInv'
<1>1. /\ keyClock \in Nat \ {0} /\ secrets \in Nat /\ handed \subseteq Nat \X Nat /\ promised \subseteq Nat \X Nat
      /\ revocation \in BOOLEAN
  BY DEF KeyInv, KeyTypes
<1>2. PICK n \in Nat : n = secrets + 1 BY <1>1
<1>3. at \in Nat BY <1>1, KeyAssumption DEF ServiceTimes
<1>4. PICK e \in Nat : e = at + KeyLife BY <1>3, KeyAssumption
<1>5. PICK r \in KeyRow : r = [NoKeyRow EXCEPT !.stored = TRUE, !.digest = n, !.expiresAt = e] BY DEF NoKeyRow, KeyRow, NoSecret
<1>6. r.stored /\ r.digest = n /\ r.previous = 0 /\ r.revision = 0 BY <1>5 DEF NoKeyRow, NoSecret
<1>7. /\ key' = r /\ secrets' = n /\ keyClock' = keyClock /\ uses' = uses /\ promised' = promised /\ revocation' = revocation
      /\ handed' \in {handed, handed \cup {<<0, n>>}} /\ ~key.stored
  BY <1>2, <1>4, <1>5 DEF IssueKey
<1>8. handed = {} /\ promised = {} /\ ~revocation BY <1>7 DEF KeyInv, HandedOk, PromiseOk
<1>9. RowOk(r, n) BY <1>1, <1>2, <1>6 DEF RowOk
<1>10. handed' \subseteq {<<0, n>>} BY <1>7, <1>8
<1>11. HandedOk(r, n, handed')
  <2>1. n \in 1 .. n BY <1>1, <1>2
  <2>. QED BY <1>6, <1>10, <2>1 DEF HandedOk
<1>12. ASSUME NEW secret \in 1 .. secrets PROVE Dead(r, keyClock, secret)
  <2>1. secret # r.digest /\ secret # r.previous BY <1>1, <1>2, <1>6
  <2>. QED BY <2>1 DEF Dead, Good
<1>13. n >= secrets /\ keyClock >= keyClock /\ handed' \subseteq Nat \X Nat BY <1>1, <1>2, <1>10
<1>14. revocation' \in BOOLEAN /\ (revocation' => r.stored /\ r.revoked) BY <1>1, <1>7, <1>8
<1>15. promised' \subseteq Nat \X Nat /\ \A p \in promised' : PromiseOk(p, r, keyClock) BY <1>7, <1>8
<1>. QED BY <1>1, <1>7, <1>9, <1>11, <1>12, <1>13, <1>14, <1>15, RowKeeps

LEMMA RotateKeeps == ASSUME KeyInv, NEW expected, NEW overlap \in Overlaps, RotateKey(expected, overlap) PROVE KeyInv'
<1>1. /\ keyClock \in Nat \ {0} /\ secrets \in Nat /\ handed \subseteq Nat \X Nat /\ promised \subseteq Nat \X Nat
      /\ revocation \in BOOLEAN
  BY DEF KeyInv, KeyTypes
<1>2. PICK k \in KeyRow : k = key BY DEF KeyInv, KeyTypes
<1>3. k.digest \in Nat /\ k.previous \in Nat /\ k.overlapUntil \in Nat /\ k.revision \in Nat /\ k.expiresAt \in Nat
  BY DEF KeyRow
<1>4. k.stored /\ ~k.revoked /\ k.expiresAt > keyClock /\ k.overlapUntil <= keyClock BY <1>2 DEF RotateKey, MayRotate
<1>5. PICK n \in Nat : n = secrets + 1 BY <1>1
<1>6. overlap \in Nat BY KeyAssumption
<1>7. PICK until \in Nat : until = IF overlap = 0 THEN 0 ELSE IF k.expiresAt < keyClock + overlap THEN k.expiresAt ELSE keyClock + overlap
  BY <1>1, <1>3, <1>6
<1>8. PICK before \in Nat : before = IF overlap = 0 THEN 0 ELSE k.digest BY <1>3
<1>2a. PICK m \in Nat : m = k.revision + 1 BY <1>3
<1>9. PICK r \in KeyRow : r = [k EXCEPT !.digest = n, !.previous = before, !.revision = m, !.overlapUntil = until]
  BY DEF KeyRow
<1>10. /\ r.stored /\ r.digest = n /\ r.previous = before /\ r.revision = m /\ r.overlapUntil = until
       /\ r.expiresAt = k.expiresAt /\ r.revoked = k.revoked
  BY <1>4, <1>9 DEF KeyRow
<1>11. secrets' = n /\ keyClock' = keyClock /\ uses' = uses /\ revocation' = revocation BY <1>5 DEF RotateKey
<1>12. key' = r
  <2>1. key' = [k EXCEPT !.digest = n, !.previous = before, !.revision = m, !.overlapUntil = until]
    BY <1>2, <1>5, <1>7, <1>8, <1>2a DEF RotateKey, NoSecret
  <2>. QED BY <1>9, <2>1
<1>13. handed' \subseteq handed \cup {<<m, n>>} /\ promised' \subseteq promised \cup {<<k.digest, until>>}
  <2>1. key'.revision = m BY <1>10, <1>12
  <2>. QED BY <1>2, <1>5, <1>7, <2>1 DEF RotateKey
<1>14. k.digest \in 1 .. secrets /\ k.previous < k.digest BY <1>1, <1>2, <1>3, <1>4 DEF KeyInv, RowOk
<1>15. RowOk(r, n) BY <1>1, <1>3, <1>5, <1>8, <1>10, <1>14 DEF RowOk
<1>16. HandedOk(r, n, handed')
  <2>1. \A h \in handed : h[2] \in 1 .. secrets /\ h[1] <= k.revision /\ h[1] \in Nat /\ h = <<h[1], h[2]>>
    BY <1>1, <1>2 DEF KeyInv, HandedOk
  <2>2. \A h, i \in handed : h[1] = i[1] => h = i BY DEF KeyInv, HandedOk
  <2>3. \A l \in 1 .. secrets : l \in 1 .. n BY <1>1, <1>5
  <2>4. n \in 1 .. n /\ \A l \in Nat : l <= k.revision => l <= m /\ l # m BY <1>1, <1>3, <1>5, <1>2a
  <2>5. \A h \in handed' : h \in handed \/ h = <<m, n>> BY <1>13
  <2>6. \A h \in handed' : h[2] \in 1 .. n /\ h[1] <= r.revision BY <1>3, <1>10, <2>1, <2>3, <2>4, <2>5
  <2>7. \A h, i \in handed' : h[1] = i[1] => h = i BY <2>1, <2>2, <2>4, <2>5
  <2>. QED BY <1>10, <2>6, <2>7 DEF HandedOk
<1>17. ASSUME NEW secret \in 1 .. secrets, Dead(k, keyClock, secret) PROVE Dead(r, keyClock, secret)
  <2>1. keyClock \in (keyClock - KeySkew) .. keyClock /\ keyClock > 0 BY <1>1, KeyAssumption
  <2>2. secret # k.digest BY <1>4, <1>17, <2>1 DEF Dead, Good
  <2>3. secret # r.digest /\ secret # r.previous BY <1>1, <1>5, <1>8, <1>10, <2>2
  <2>. QED BY <2>3 DEF Dead, Good
<1>18. ASSUME NEW p \in promised' PROVE PromiseOk(p, r, keyClock)
  <2>1. CASE p \in promised
    <3>1. PromiseOk(p, k, keyClock) /\ p[1] \in Nat /\ p[2] \in Nat BY <1>1, <1>2, <2>1 DEF KeyInv
    <3>2. p[1] # before BY <1>3, <1>8, <3>1 DEF PromiseOk
    <3>3. ~(keyClock < p[2]) BY <1>1, <1>3, <1>4, <3>1 DEF PromiseOk
    <3>4. p[1] < n BY <1>1, <1>3, <1>5, <1>14, <3>1 DEF PromiseOk
    <3>. QED BY <1>10, <3>1, <3>2, <3>3, <3>4 DEF PromiseOk
  <2>2. CASE p = <<k.digest, until>>
    <3>1. p[1] = k.digest /\ p[2] = until BY <2>2
    <3>2. keyClock < until => before = k.digest BY <1>1, <1>7, <1>8
    <3>3. 0 < k.digest /\ k.digest < n BY <1>1, <1>5, <1>14
    <3>. QED BY <1>10, <3>1, <3>2, <3>3 DEF PromiseOk
  <2>. QED BY <1>13, <2>1, <2>2
<1>19. n >= secrets /\ keyClock >= keyClock BY <1>1, <1>5
<1>20. handed' \subseteq Nat \X Nat /\ promised' \subseteq Nat \X Nat BY <1>1, <1>3, <1>13
<1>21. revocation' \in BOOLEAN /\ (revocation' => r.stored /\ r.revoked) BY <1>1, <1>2, <1>4, <1>11 DEF KeyInv
<1>. QED BY <1>1, <1>2, <1>11, <1>12, <1>15, <1>16, <1>17, <1>18, <1>19, <1>20, <1>21, RowKeeps

LEMMA RevokeKeyKeeps == ASSUME KeyInv, RevokeKey PROVE KeyInv'
<1>1. /\ keyClock \in Nat \ {0} /\ secrets \in Nat /\ handed \subseteq Nat \X Nat /\ promised \subseteq Nat \X Nat
      /\ revocation \in BOOLEAN
  BY DEF KeyInv, KeyTypes
<1>2. PICK k \in KeyRow : k = key BY DEF KeyInv, KeyTypes
<1>3. PICK r \in KeyRow : r = [k EXCEPT !.revoked = TRUE, !.previous = 0, !.overlapUntil = 0] BY DEF KeyRow
<1>4. r.stored = k.stored /\ r.digest = k.digest /\ r.previous = 0 /\ r.revision = k.revision /\ r.revoked /\ k.digest \in Nat
  BY <1>3 DEF KeyRow
<1>5. /\ key' = r /\ secrets' = secrets /\ keyClock' = keyClock /\ uses' = uses /\ handed' = handed /\ promised' = promised
      /\ revocation' \in BOOLEAN /\ k.stored
  BY <1>1, <1>2, <1>3 DEF RevokeKey, NoSecret
<1>6. RowOk(r, secrets) /\ HandedOk(r, secrets, handed) BY <1>1, <1>2, <1>4, <1>5 DEF KeyInv, RowOk, HandedOk
<1>7. \A secret \in 1 .. secrets : Dead(r, keyClock, secret) BY <1>4 DEF Dead, Good
<1>8. \A p \in promised : PromiseOk(p, r, keyClock) BY <1>2, <1>4, <1>5 DEF KeyInv, PromiseOk
<1>9. secrets >= secrets /\ keyClock >= keyClock BY <1>1
<1>10. revocation' => r.stored /\ r.revoked BY <1>4, <1>5
<1>. QED BY <1>1, <1>5, <1>6, <1>7, <1>8, <1>9, <1>10, RowKeeps

(* A use() call takes a step.                                              *)
LEMMA UseMoves ==
  ASSUME KeyInv, NEW c \in KeyCalls, NEW u \in KeyUse, uses' = [uses EXCEPT ![c] = u],
         UseOk(u, key, keyClock, secrets), UNCHANGED <<keyClock, key, secrets, handed, promised, revocation>>
  PROVE  KeyInv'
<1>1. \A d \in KeyCalls : uses'[d] = IF d = c THEN u ELSE uses[d] BY DEF KeyInv, KeyTypes
<1>2. KeyTypes' BY DEF KeyInv, KeyTypes
<1>3. \A d \in KeyCalls : UseOk(uses'[d], key, keyClock, secrets) BY <1>1 DEF KeyInv
<1>. QED BY <1>2, <1>3 DEF KeyInv

LEMMA ReadKeeps ==
  ASSUME KeyInv, NEW c \in KeyCalls, NEW pc \in UsePcs, NEW next \in UsePcs, ReadKey(c, pc, next),
         <<pc, next>> \in {<<"first", "active">>, <<"active", "policy">>, <<"second", "still">>, <<"still", "used">>}
  PROVE  KeyInv'
<1>1. PICK u \in KeyUse : u = uses[c] BY DEF KeyInv, KeyTypes
<1>2. UseOk(u, key, keyClock, secrets) /\ u.pc = pc BY <1>1 DEF KeyInv, ReadKey
<1>3. CASE uses' = [uses EXCEPT ![c] = NoUse] BY <1>3, NoUseIs, UseMoves DEF ReadKey
<1>4. ASSUME NEW now \in ServiceTimes, Verifies(u.secret, now), uses' = [uses EXCEPT ![c].pc = next] PROVE KeyInv'
  <2>1. PICK v \in KeyUse : v = [u EXCEPT !.pc = next] BY DEF KeyUse
  <2>2. v.pc = next /\ v.secret = u.secret /\ v.dead = u.dead BY <2>1 DEF KeyUse
  <2>3. ~Dead(key, keyClock, u.secret) BY <1>4, VerifiesIsGood DEF DeadForAll
  <2>4. UseOk(v, key, keyClock, secrets) BY <1>2, <2>2, <2>3 DEF UseOk
  <2>5. uses' = [uses EXCEPT ![c] = v] BY <1>1, <1>4, <2>1
  <2>. QED BY <2>4, <2>5, UseMoves DEF ReadKey
<1>. QED BY <1>1, <1>3, <1>4 DEF ReadKey

LEMMA UseStepKeeps == ASSUME KeyInv, NEW c \in KeyCalls, UseStep(c) PROVE KeyInv'
<1>1. CASE BeginUse(c)
  <2>1. PICK h \in handed : uses' = [uses EXCEPT ![c] = [NoUse EXCEPT !.pc = "first", !.secret = h[2]]] BY <1>1 DEF BeginUse
  <2>2. h[2] \in Nat /\ h[2] \in 1 .. secrets BY DEF KeyInv, KeyTypes, HandedOk
  <2>3. PICK u \in KeyUse : u = [NoUse EXCEPT !.pc = "first", !.secret = h[2]] BY <2>2, NoUseIs DEF KeyUse, UsePcs
  <2>4. u.pc = "first" /\ u.secret = h[2] BY <2>3 DEF NoUse
  <2>5. UseOk(u, key, keyClock, secrets) BY <2>2, <2>4 DEF UseOk
  <2>6. uses' = [uses EXCEPT ![c] = u] BY <2>1, <2>3
  <2>. QED BY <1>1, <2>5, <2>6, UseMoves DEF BeginUse
<1>2. CASE PolicyAnswers(c)
  <2>1. PICK u \in KeyUse : u = uses[c] BY DEF KeyInv, KeyTypes
  <2>2. UseOk(u, key, keyClock, secrets) /\ u.pc = "policy" BY <1>2, <2>1 DEF KeyInv, PolicyAnswers
  <2>3. PICK dead \in BOOLEAN : dead = DeadForAll(u.secret) BY DEF DeadForAll
  <2>4. uses' = [uses EXCEPT ![c].pc = "second", ![c].dead = dead] BY <1>2, <2>1, <2>3 DEF PolicyAnswers
  <2>5. PICK v \in KeyUse : v = [u EXCEPT !.pc = "second", !.dead = dead] BY DEF KeyUse, UsePcs
  <2>6. v.pc = "second" /\ v.secret = u.secret /\ v.dead = dead BY <2>5 DEF KeyUse
  <2>7. UseOk(v, key, keyClock, secrets) BY <2>2, <2>3, <2>6, VerifiesIsGood DEF UseOk
  <2>8. uses' = [uses EXCEPT ![c] = v]
    <3>1. uses' = [uses EXCEPT ![c] = [u EXCEPT !.pc = "second", !.dead = dead]] BY <2>1, <2>4 DEF KeyInv, KeyTypes
    <3>. QED BY <2>5, <3>1
  <2>. QED BY <1>2, <2>7, <2>8, UseMoves DEF PolicyAnswers
<1>3. CASE UseEnds(c) BY <1>3, NoUseIs, UseMoves DEF UseEnds
<1>4. CASE ReadKey(c, "first", "active") BY <1>4, ReadKeeps DEF UsePcs
<1>5. CASE ReadKey(c, "active", "policy") BY <1>5, ReadKeeps DEF UsePcs
<1>6. CASE ReadKey(c, "second", "still") BY <1>6, ReadKeeps DEF UsePcs
<1>7. CASE ReadKey(c, "still", "used") BY <1>7, ReadKeeps DEF UsePcs
<1>. QED BY <1>1, <1>2, <1>3, <1>4, <1>5, <1>6, <1>7 DEF UseStep

LEMMA KeyStepKeeps == ASSUME KeyInv, [KeysNext]_keyVars PROVE KeyInv'
<1>1. CASE UNCHANGED keyVars
  BY <1>1 DEF keyVars, KeyInv, KeyTypes, RowOk, HandedOk, UseOk, PromiseOk, Dead, Good
<1>. QED BY <1>1, KeyTickKeeps, RevokeKeyKeeps, IssueKeeps, RotateKeeps, UseStepKeeps DEF KeysNext

LEMMA KeyInvIsSound == KeyInv => KeysAreSound
<1>. SUFFICES ASSUME KeyInv PROVE KeysAreSound OBVIOUS
<1>1. \A c \in KeyCalls : UseOk(uses[c], key, keyClock, secrets) BY DEF KeyInv
<1>2. UseIsCurrent BY <1>1 DEF UseIsCurrent, UseOk
<1>3. OverlapIsKept
  <2>1. ASSUME NEW p \in promised, NEW now \in ServiceTimes, ~key.revoked, key.expiresAt > now
        PROVE  (keyClock < p[2] => Verifies(p[1], now)) /\ (now >= p[2] => ~Verifies(p[1], now))
    <3>1. PICK k \in KeyRow : k = key BY DEF KeyInv, KeyTypes
    <3>2. PromiseOk(p, k, keyClock) BY <3>1 DEF KeyInv
    <3>3. p[1] \in Nat /\ p[2] \in Nat /\ keyClock \in Nat /\ now \in Int /\ now <= keyClock
      BY KeyAssumption DEF KeyInv, KeyTypes, ServiceTimes
    <3>4. k.overlapUntil \in Nat /\ k.digest \in Nat /\ k.previous \in Nat BY DEF KeyRow
    <3>5. keyClock < p[2] => Good(k, p[1], now) BY <2>1, <3>1, <3>2, <3>3, <3>4 DEF PromiseOk, Good
    <3>6. now >= p[2] => ~Good(k, p[1], now) BY <2>1, <3>1, <3>2, <3>3, <3>4 DEF PromiseOk, Good
    <3>. QED BY <3>1, <3>5, <3>6, VerifiesIsGood
  <2>. QED BY <2>1 DEF OverlapIsKept
<1>4. HandedOnce
  <2>1. revocation => \A s : DeadForAll(s) BY DEF KeyInv, DeadForAll, Verifies
  <2>. QED BY <2>1 DEF HandedOnce, KeyInv, HandedOk
<1>. QED BY <1>2, <1>3, <1>4 DEF KeysAreSound

(* A key's credential is used only while it is good, its overlap is kept,  *)
(* and a revocation ends it (KeysAreSound: UseIsCurrent, OverlapIsKept,    *)
(* HandedOnce).                                                            *)
THEOREM KeysStaySound == KeysSpec => []KeysAreSound
<1>1. KeysInit => KeyInv BY KeysStart
<1>2. KeyInv /\ [KeysNext]_keyVars => KeyInv' BY KeyStepKeeps
<1>3. KeyInv => KeysAreSound BY KeyInvIsSound
<1>. QED BY <1>1, <1>2, <1>3, PTL DEF KeysSpec

-----------------------------------------------------------------------------
(***************************************************************************)
(* OAuth grants                                                            *)
(***************************************************************************)
Subjects == Users \cup {Nobody}
RequestRow == [rev : Nat, state : {"live", "expired"}, subject : Subjects, scopes : Nat, used : BOOLEAN]
CodeRow == [rev : Nat, used : BOOLEAN, state : {"absent", "live", "expired"}]
GrantRow == [rev : Nat, state : {"absent", "live", "expired"}, subject : Subjects, revoked : BOOLEAN, pair : Nat, used : SUBSET Nat]
ConsentCall == [pc : {"consent"}, op : {"consent", "decide"}, user : Users, read : RequestRow]
DecideCall == [pc : {"decide", "grant"}, user : Users, rev : Nat]
CodeCall == [pc : {"code"}, grant : GrantIds]
GrantedCall == [pc : {"granted"}, grant : GrantIds, coderev : Nat]
UseCodeCall == [pc : {"usecode"}, grant : GrantIds, coderev : Nat, row : GrantRow]
SaveCall == [pc : {"save"}, grant : GrantIds, by : Nat, row : GrantRow]
RevokeCall == [pc : {"revoke", "again"}, grant : GrantIds, rev : Nat, op : {"grant", "token", "refresh"}, pair : Nat \cup {AllPairs}]
OAuthCall == {NoOAuthCall} \cup ConsentCall \cup DecideCall \cup CodeCall \cup GrantedCall \cup UseCodeCall
             \cup SaveCall \cup RevokeCall
OAuthTypes == /\ request \in RequestRow /\ codes \in [GrantIds -> CodeRow] /\ grants \in [GrantIds -> GrantRow]
              /\ oauthCalls \in [OAuthCalls -> OAuthCall]
              /\ drawn \in [GrantIds -> Nat] /\ admitted \subseteq Users
              /\ answered \subseteq GrantIds \X Nat \X Nat
              /\ confirmed \subseteq GrantIds \X (Nat \cup {AllPairs})

(* What a call read, and the record, which may have changed since.         *)
ReadRequest(read, user, rq) == /\ ~read.used /\ read.subject \in {Nobody, user} /\ read.state = "live"
                               /\ read.subject # Nobody => rq.subject = read.subject
                               /\ read.rev <= rq.rev
                               /\ read.rev = rq.rev => rq.subject = read.subject /\ ~rq.used
ReadRow(row, gr) == /\ row.state = "live" /\ ~row.revoked /\ gr.state # "absent" /\ row.rev <= gr.rev
                    /\ row.rev = gr.rev => row.subject = gr.subject /\ row.pair = gr.pair /\ ~gr.revoked

OAuthCallOk(x, rq, cd, gr, dr, ad) ==
  /\ x.pc = "consent" => ReadRequest(x.read, x.user, rq)
  /\ x.pc = "decide" => /\ x.user \in ad /\ x.rev <= rq.rev
                        /\ x.rev = rq.rev => ~rq.used
  /\ x.pc = "grant" => x.user \in ad /\ rq.used
  /\ x.pc \in {"granted", "usecode"} => /\ x.coderev <= cd[x.grant].rev
                                        /\ x.coderev = cd[x.grant].rev => ~cd[x.grant].used
  /\ x.pc \in {"usecode", "save"} => ReadRow(x.row, gr[x.grant])
  /\ x.pc = "save" => /\ cd[x.grant].used
                      /\ x.row.rev = gr[x.grant].rev => x.by = gr[x.grant].pair
  /\ x.pc \in {"revoke", "again"} => /\ gr[x.grant].state # "absent"
                                     /\ x.op = "token" \/ x.pc = "again" => x.pair \in Nat /\ x.op = "token"
                                     /\ x.op = "grant" => x.pair = AllPairs
                                     /\ x.pair \in Nat => x.pair <= dr[x.grant]

(* A confirmed revocation.                                                 *)
RevokedOk(r, gr, dr) == /\ gr[r[1]].state # "absent"
                        /\ r[2] = AllPairs => gr[r[1]].revoked
                        /\ r[2] # AllPairs => /\ r[2] <= dr[r[1]]
                                              /\ gr[r[1]].state # "live" \/ gr[r[1]].revoked \/ gr[r[1]].pair # r[2]

RecordsOk(rq, cd, gr, dr, ad, an, cf) ==
  /\ ad \subseteq {rq.subject} \ {Nobody}
  /\ \A g \in GrantIds : /\ ~rq.used => gr[g].state = "absent"
                         /\ gr[g].state # "absent" => gr[g].subject \in ad
                         /\ gr[g].state = "absent" => gr[g] = NoGrant
                         /\ gr[g].pair = dr[g]
                         /\ ~cd[g].used => dr[g] = 0
  /\ \A g, h \in GrantIds : gr[g].state # "absent" /\ gr[h].state # "absent" => g = h
  /\ \A p \in an : p[2] < p[3] /\ p[3] <= dr[p[1]]
  /\ \A p, q \in an : p[1] = q[1] /\ p[2] = q[2] => p = q
  /\ \A r \in cf : RevokedOk(r, gr, dr)

(* At most one call is about to insert a grant, and before there is one.   *)
GrantsOnce == \A c \in OAuthCalls : OAt(c, "grant") => /\ \A d \in OAuthCalls : OAt(d, "grant") => c = d
                                                       /\ \A g \in GrantIds : grants[g].state = "absent"

OAuthInv == /\ OAuthTypes /\ RecordsOk(request, codes, grants, drawn, admitted, answered, confirmed) /\ GrantsOnce
            /\ \A c \in OAuthCalls : OAuthCallOk(oauthCalls[c], request, codes, grants, drawn, admitted)

LEMMA OAuthCallIs ==
  ASSUME NEW x \in OAuthCall
  PROVE  /\ x.pc = "idle" => x = NoOAuthCall
         /\ x.pc = "consent" => x \in ConsentCall
         /\ x.pc \in {"decide", "grant"} => x \in DecideCall
         /\ x.pc = "code" => x \in CodeCall
         /\ x.pc = "granted" => x \in GrantedCall
         /\ x.pc = "usecode" => x \in UseCodeCall
         /\ x.pc = "save" => x \in SaveCall
         /\ x.pc \in {"revoke", "again"} => x \in RevokeCall
         /\ x.pc \in {"idle", "consent", "decide", "grant", "code", "granted", "usecode", "save", "revoke", "again"}
BY DEF OAuthCall, NoOAuthCall, ConsentCall, DecideCall, CodeCall, GrantedCall, UseCodeCall, SaveCall, RevokeCall

LEMMA NoOAuthCallIs == /\ NoOAuthCall \in OAuthCall /\ NoOAuthCall.pc = "idle"
                       /\ \A rq, cd, gr, dr, ad : OAuthCallOk(NoOAuthCall, rq, cd, gr, dr, ad)
<1>1. NoOAuthCall \in OAuthCall /\ NoOAuthCall.pc = "idle" BY DEF NoOAuthCall, OAuthCall
<1>. QED BY <1>1 DEF OAuthCallOk

LEMMA NoGrantIs == /\ NoGrant \in GrantRow /\ NoGrant.state = "absent" /\ NoGrant.pair = 0 /\ NoGrant.rev = 0
                   /\ ~NoGrant.revoked
BY DEF NoGrant, GrantRow, Subjects, NoPair

LEMMA OAuthStarts == OAuthInit => OAuthInv
<1>. SUFFICES ASSUME OAuthInit PROVE OAuthInv OBVIOUS
<1>1. OAuthTypes
  <2>1. request \in RequestRow BY OAuthAssumption DEF OAuthInit, RequestRow, Subjects
  <2>2. NoCode \in CodeRow BY DEF NoCode, CodeRow
  <2>3. codes \in [GrantIds -> CodeRow] /\ grants \in [GrantIds -> GrantRow] BY <2>2, NoGrantIs DEF OAuthInit
  <2>4. oauthCalls \in [OAuthCalls -> OAuthCall] BY NoOAuthCallIs DEF OAuthInit
  <2>5. drawn \in [GrantIds -> Nat] BY DEF OAuthInit, NoPair
  <2>. QED BY <2>1, <2>3, <2>4, <2>5 DEF OAuthInit, OAuthTypes
<1>2. \A g \in GrantIds : grants[g] = NoGrant /\ drawn[g] = 0 BY DEF OAuthInit, NoPair
<1>3. RecordsOk(request, codes, grants, drawn, admitted, answered, confirmed)
  BY <1>2, NoGrantIs DEF OAuthInit, RecordsOk
<1>4. \A c \in OAuthCalls : oauthCalls[c] = NoOAuthCall BY DEF OAuthInit
<1>. QED BY <1>1, <1>3, <1>4, NoOAuthCallIs DEF OAuthInv, GrantsOnce, OAt

-----------------------------------------------------------------------------
(* How the records change, whoever changes them.                           *)
RequestFollows(rq, to) == /\ rq.rev <= to.rev
                          /\ rq.subject # Nobody => to.subject = rq.subject
                          /\ rq.rev = to.rev => to.subject = rq.subject /\ (~rq.used => ~to.used)
                          /\ rq.used => to.used
CodeFollows(cd, to) == /\ cd.rev <= to.rev
                       /\ cd.rev = to.rev => (~cd.used => ~to.used)
                       /\ cd.used => to.used
GrantFollows(gr, to) == /\ gr.state # "absent" => to.state # "absent"
                        /\ gr.rev <= to.rev
                        /\ gr.state # "absent" /\ gr.rev = to.rev =>
                             to.subject = gr.subject /\ to.pair = gr.pair /\ (~gr.revoked => ~to.revoked)

LEMMA OAuthCallStays ==
  ASSUME OAuthInv, NEW c \in OAuthCalls,
         NEW rq \in RequestRow, NEW cd \in [GrantIds -> CodeRow], NEW gr \in [GrantIds -> GrantRow],
         NEW dr \in [GrantIds -> Nat], NEW ad, admitted \subseteq ad,
         RequestFollows(request, rq),
         \A g \in GrantIds : CodeFollows(codes[g], cd[g]) /\ GrantFollows(grants[g], gr[g]) /\ drawn[g] <= dr[g]
  PROVE  OAuthCallOk(oauthCalls[c], rq, cd, gr, dr, ad)
<1>1. PICK x \in OAuthCall : x = oauthCalls[c] BY DEF OAuthInv, OAuthTypes
<1>2. OAuthCallOk(x, request, codes, grants, drawn, admitted) BY <1>1 DEF OAuthInv
<1>3. PICK r \in RequestRow : r = request BY DEF OAuthInv, OAuthTypes
<1>4. codes \in [GrantIds -> CodeRow] /\ grants \in [GrantIds -> GrantRow] /\ drawn \in [GrantIds -> Nat]
  BY DEF OAuthInv, OAuthTypes
<1>5. r.rev \in Nat /\ rq.rev \in Nat BY DEF RequestRow
<1>6. RequestFollows(r, rq) BY <1>3
<1>7. CASE x.pc = "consent"
  <2>1. PICK read \in RequestRow : read = x.read BY <1>7, OAuthCallIs DEF ConsentCall
  <2>2. ReadRequest(read, x.user, r) /\ read.rev \in Nat BY <1>2, <1>3, <1>7, <2>1 DEF OAuthCallOk, RequestRow
  <2>3. ReadRequest(read, x.user, rq) BY <1>5, <1>6, <2>2 DEF ReadRequest, RequestFollows
  <2>. QED BY <1>1, <1>7, <2>1, <2>3 DEF OAuthCallOk
<1>8. CASE x.pc \in {"decide", "grant"}
  <2>1. x.rev \in Nat BY <1>8, OAuthCallIs DEF DecideCall
  <2>. QED BY <1>1, <1>2, <1>3, <1>5, <1>6, <1>8, <2>1 DEF OAuthCallOk, RequestFollows
<1>9. ASSUME x.pc \in {"granted", "usecode"}
      PROVE  x.coderev <= cd[x.grant].rev /\ (x.coderev = cd[x.grant].rev => ~cd[x.grant].used)
  <2>1. PICK g \in GrantIds : g = x.grant BY <1>9, OAuthCallIs DEF GrantedCall, UseCodeCall
  <2>2. x.coderev \in Nat BY <1>9, OAuthCallIs DEF GrantedCall, UseCodeCall
  <2>3. codes[g].rev \in Nat /\ cd[g].rev \in Nat BY <1>4 DEF CodeRow
  <2>4. x.coderev <= codes[g].rev /\ (x.coderev = codes[g].rev => ~codes[g].used) BY <1>2, <1>9, <2>1 DEF OAuthCallOk
  <2>5. CodeFollows(codes[g], cd[g]) OBVIOUS
  <2>6. codes[g].rev <= cd[g].rev BY <2>5 DEF CodeFollows
  <2>7. x.coderev = cd[g].rev => codes[g].rev = cd[g].rev /\ x.coderev = codes[g].rev BY <2>2, <2>3, <2>4, <2>6
  <2>8. x.coderev = cd[g].rev => ~cd[g].used BY <2>4, <2>5, <2>7, Zenon DEF CodeFollows
  <2>9. x.coderev <= cd[g].rev BY <2>2, <2>3, <2>4, <2>6
  <2>. QED BY <2>1, <2>8, <2>9
<1>10. ASSUME x.pc \in {"usecode", "save"}
       PROVE  ReadRow(x.row, gr[x.grant])
  <2>1. PICK g \in GrantIds : g = x.grant BY <1>10, OAuthCallIs DEF SaveCall, UseCodeCall
  <2>2. PICK row \in GrantRow : row = x.row BY <1>10, OAuthCallIs DEF SaveCall, UseCodeCall
  <2>3. PICK old \in GrantRow : old = grants[g] BY <1>4
  <2>4. PICK new \in GrantRow : new = gr[g] OBVIOUS
  <2>5. ReadRow(row, old) /\ GrantFollows(old, new) BY <1>2, <1>10, <2>1, <2>2, <2>3, <2>4 DEF OAuthCallOk
  <2>6. row.rev \in Nat /\ old.rev \in Nat /\ new.rev \in Nat BY DEF GrantRow
  <2>7. row.rev <= old.rev /\ old.rev <= new.rev BY <2>5 DEF ReadRow, GrantFollows
  <2>8. row.rev <= new.rev /\ (row.rev = new.rev => old.rev = new.rev /\ row.rev = old.rev) BY <2>6, <2>7
  <2>9. ReadRow(row, new) BY <2>5, <2>8, Zenon DEF ReadRow, GrantFollows
  <2>. QED BY <2>1, <2>2, <2>4, <2>9
<1>11. ASSUME x.pc = "save"
       PROVE  cd[x.grant].used /\ (x.row.rev = gr[x.grant].rev => x.by = gr[x.grant].pair)
  <2>1. PICK g \in GrantIds : g = x.grant BY <1>11, OAuthCallIs DEF SaveCall
  <2>2. PICK row \in GrantRow : row = x.row BY <1>11, OAuthCallIs DEF SaveCall
  <2>3. PICK old \in GrantRow : old = grants[g] BY <1>4
  <2>4. PICK new \in GrantRow : new = gr[g] OBVIOUS
  <2>5. ReadRow(row, old) /\ GrantFollows(old, new) /\ (row.rev = old.rev => x.by = old.pair) /\ codes[g].used
    BY <1>2, <1>11, <2>1, <2>2, <2>3, <2>4 DEF OAuthCallOk
  <2>6. row.rev \in Nat /\ old.rev \in Nat /\ new.rev \in Nat BY DEF GrantRow
  <2>9. row.rev <= old.rev /\ old.rev <= new.rev BY <2>5 DEF ReadRow, GrantFollows
  <2>10. row.rev = new.rev => old.rev = new.rev /\ row.rev = old.rev BY <2>6, <2>9
  <2>7. row.rev = new.rev => x.by = new.pair BY <2>5, <2>10, Zenon DEF ReadRow, GrantFollows
  <2>8. cd[g].used BY <2>5 DEF CodeFollows
  <2>. QED BY <2>1, <2>2, <2>4, <2>7, <2>8
<1>12. CASE x.pc \in {"revoke", "again"}
  <2>1. PICK g \in GrantIds : g = x.grant BY <1>12, OAuthCallIs DEF RevokeCall
  <2>2. gr[g].state # "absent" BY <1>2, <1>12, <2>1 DEF OAuthCallOk, GrantFollows
  <2>3. x.pair \in Nat => x.pair <= dr[g] BY <1>2, <1>4, <1>12, <2>1 DEF OAuthCallOk
  <2>. QED BY <1>1, <1>2, <1>12, <2>1, <2>2, <2>3 DEF OAuthCallOk
<1>13. CASE x.pc \in {"granted", "usecode", "save"} BY <1>1, <1>9, <1>10, <1>11, <1>13 DEF OAuthCallOk
<1>14. CASE x.pc \in {"idle", "code"} BY <1>1, <1>14 DEF OAuthCallOk
<1>. QED BY <1>7, <1>8, <1>12, <1>13, <1>14, OAuthCallIs

(* A call takes a step.                                                    *)
LEMMA OAuthMoves ==
  ASSUME OAuthInv, NEW c \in OAuthCalls, NEW x \in OAuthCall, oauthCalls' = [oauthCalls EXCEPT ![c] = x],
         NEW rq \in RequestRow, NEW cd \in [GrantIds -> CodeRow], NEW gr \in [GrantIds -> GrantRow],
         NEW dr \in [GrantIds -> Nat], NEW ad \in SUBSET Users,
         request' = rq, codes' = cd, grants' = gr, drawn' = dr, admitted' = ad,
         answered' \subseteq GrantIds \X Nat \X Nat, confirmed' \subseteq GrantIds \X (Nat \cup {AllPairs}),
         admitted \subseteq ad, RequestFollows(request, rq),
         \A g \in GrantIds : CodeFollows(codes[g], cd[g]) /\ GrantFollows(grants[g], gr[g]) /\ drawn[g] <= dr[g],
         RecordsOk(rq, cd, gr, dr, ad, answered', confirmed'), OAuthCallOk(x, rq, cd, gr, dr, ad),
         x.pc = "grant" => \A d \in OAuthCalls : d # c => ~OAt(d, "grant"),
         (x.pc = "grant" \/ \E d \in OAuthCalls : d # c /\ OAt(d, "grant")) => \A g \in GrantIds : gr[g].state = "absent"
  PROVE  OAuthInv'
<1>1. OAuthTypes' BY DEF OAuthInv, OAuthTypes
<1>2. \A d \in OAuthCalls : oauthCalls'[d] = IF d = c THEN x ELSE oauthCalls[d] BY DEF OAuthInv, OAuthTypes
<1>3. ASSUME NEW d \in OAuthCalls PROVE OAuthCallOk(oauthCalls'[d], rq, cd, gr, dr, ad)
  BY <1>2, OAuthCallStays
<1>4. GrantsOnce' BY <1>2 DEF GrantsOnce, OAt, OAuthInv
<1>. QED BY <1>1, <1>3, <1>4 DEF OAuthInv

LEMMA FollowsSame ==
  /\ \A r \in RequestRow : RequestFollows(r, r)
  /\ \A r \in CodeRow : CodeFollows(r, r)
  /\ \A r \in GrantRow : GrantFollows(r, r)
<1>1. ASSUME NEW r \in RequestRow PROVE RequestFollows(r, r)
  <2>1. r.rev \in Nat BY DEF RequestRow
  <2>. QED BY <2>1 DEF RequestFollows
<1>2. ASSUME NEW r \in CodeRow PROVE CodeFollows(r, r)
  <2>1. r.rev \in Nat BY DEF CodeRow
  <2>. QED BY <2>1 DEF CodeFollows
<1>3. ASSUME NEW r \in GrantRow PROVE GrantFollows(r, r)
  <2>1. r.rev \in Nat BY DEF GrantRow
  <2>. QED BY <2>1 DEF GrantFollows
<1>. QED BY <1>1, <1>2, <1>3

LEMMA RecordTypes ==
  ASSUME OAuthInv
  PROVE  /\ request \in RequestRow /\ codes \in [GrantIds -> CodeRow] /\ grants \in [GrantIds -> GrantRow]
         /\ drawn \in [GrantIds -> Nat] /\ admitted \in SUBSET Users
         /\ answered \subseteq GrantIds \X Nat \X Nat /\ confirmed \subseteq GrantIds \X (Nat \cup {AllPairs})
         /\ RequestFollows(request, request)
         /\ \A g \in GrantIds : /\ CodeFollows(codes[g], codes[g]) /\ GrantFollows(grants[g], grants[g])
                                /\ drawn[g] <= drawn[g]
         /\ RecordsOk(request, codes, grants, drawn, admitted, answered, confirmed)
         /\ \A c \in OAuthCalls : OAt(c, "grant") => /\ \A d \in OAuthCalls : OAt(d, "grant") => c = d
                                                     /\ request.used /\ \A g \in GrantIds : grants[g].state = "absent"
<1>1. /\ request \in RequestRow /\ codes \in [GrantIds -> CodeRow] /\ grants \in [GrantIds -> GrantRow]
      /\ drawn \in [GrantIds -> Nat] /\ admitted \in SUBSET Users
      /\ answered \subseteq GrantIds \X Nat \X Nat /\ confirmed \subseteq GrantIds \X (Nat \cup {AllPairs})
  BY DEF OAuthInv, OAuthTypes
<1>2. RequestFollows(request, request) BY <1>1, FollowsSame
<1>3. \A g \in GrantIds : CodeFollows(codes[g], codes[g]) /\ GrantFollows(grants[g], grants[g]) /\ drawn[g] <= drawn[g]
  BY <1>1, FollowsSame
<1>4. \A c \in OAuthCalls : OAt(c, "grant") => request.used BY DEF OAuthInv, OAuthCallOk, OAt
<1>. QED BY <1>1, <1>2, <1>3, <1>4 DEF OAuthInv, GrantsOnce

(* The records stay; a revocation may be confirmed.                        *)
LEMMA OAuthQuiet ==
  ASSUME OAuthInv, NEW c \in OAuthCalls, NEW x \in OAuthCall, oauthCalls' = [oauthCalls EXCEPT ![c] = x],
         UNCHANGED <<request, codes, grants, drawn, admitted, answered>>,
         confirmed' \subseteq GrantIds \X (Nat \cup {AllPairs}), \A r \in confirmed' : RevokedOk(r, grants, drawn),
         OAuthCallOk(x, request, codes, grants, drawn, admitted), x.pc # "grant"
  PROVE  OAuthInv'
<1>1. RecordsOk(request, codes, grants, drawn, admitted, answered', confirmed') BY RecordTypes DEF RecordsOk
<1>2. (\E d \in OAuthCalls : d # c /\ OAt(d, "grant")) => \A g \in GrantIds : grants[g].state = "absent" BY RecordTypes
<1>3. /\ request' = request /\ codes' = codes /\ grants' = grants /\ drawn' = drawn /\ admitted' = admitted
      /\ answered' \subseteq GrantIds \X Nat \X Nat
  BY RecordTypes
<1>4. /\ x.pc = "grant" => \A d \in OAuthCalls : d # c => ~OAt(d, "grant")
      /\ (x.pc = "grant" \/ \E d \in OAuthCalls : d # c /\ OAt(d, "grant")) => \A g \in GrantIds : grants[g].state = "absent"
  BY <1>2
<1>5. /\ request \in RequestRow /\ codes \in [GrantIds -> CodeRow] /\ grants \in [GrantIds -> GrantRow]
      /\ drawn \in [GrantIds -> Nat] /\ admitted \in SUBSET Users
      /\ admitted \subseteq admitted /\ RequestFollows(request, request)
      /\ \A g \in GrantIds : CodeFollows(codes[g], codes[g]) /\ GrantFollows(grants[g], grants[g]) /\ drawn[g] <= drawn[g]
  BY RecordTypes
<1>. QED BY <1>1, <1>3, <1>4, <1>5, OAuthMoves

LEMMA ConfirmedStays ==
  ASSUME OAuthInv, confirmed' = confirmed
  PROVE  confirmed' \subseteq GrantIds \X (Nat \cup {AllPairs}) /\ \A r \in confirmed' : RevokedOk(r, grants, drawn)
BY RecordTypes DEF RecordsOk

LEMMA OAuthEndsQuietly ==
  ASSUME OAuthInv, NEW c \in OAuthCalls, OEnds(c), UNCHANGED <<request, codes, grants, drawn, admitted, answered, confirmed>>
  PROVE  OAuthInv'
<1>1. oauthCalls' = [oauthCalls EXCEPT ![c] = NoOAuthCall] BY DEF OEnds, OGoes
<1>2. NoOAuthCall.pc # "grant" BY NoOAuthCallIs
<1>3. confirmed' = confirmed OBVIOUS
<1>. QED BY <1>1, <1>2, <1>3, NoOAuthCallIs, ConfirmedStays, OAuthQuiet

(* Reading changes nothing, and what is read is current.                   *)
LEMMA ReadsKeep ==
  ASSUME OAuthInv, NEW c \in OAuthCalls,
         \/ \E user \in Users, op \in {"consent", "decide"} : ReadConsent(c, user, op)
         \/ \E g \in GrantIds : ReadCode(c, g) \/ ReadRevoke(c, g)
         \/ ReadGrant(c) \/ OAuthFails(c)
  PROVE  OAuthInv'
<1>. USE RecordTypes
<1>1. ASSUME NEW user \in Users, NEW op \in {"consent", "decide"}, ReadConsent(c, user, op) PROVE OAuthInv'
  <2>1. PICK r \in RequestRow : r = request OBVIOUS
  <2>2. PICK x \in OAuthCall : x = [pc |-> "consent", op |-> op, user |-> user, read |-> r] BY DEF OAuthCall, ConsentCall
  <2>3. r.state = "live" /\ ~r.used /\ r.subject \in {Nobody, user} BY <1>1, <2>1 DEF ReadConsent
  <2>4. r.rev <= r.rev BY DEF RequestRow
  <2>5. ReadRequest(r, user, request) BY <2>1, <2>3, <2>4 DEF ReadRequest
  <2>6. OAuthCallOk(x, request, codes, grants, drawn, admitted) /\ x.pc # "grant" BY <2>2, <2>5 DEF OAuthCallOk
  <2>7. oauthCalls' = [oauthCalls EXCEPT ![c] = x] BY <1>1, <2>1, <2>2 DEF ReadConsent, OGoes
  <2>8. UNCHANGED <<request, codes, grants, drawn, admitted, answered, confirmed>> BY <1>1 DEF ReadConsent
  <2>. QED BY <2>6, <2>7, <2>8, ConfirmedStays, OAuthQuiet
<1>2. ASSUME NEW g \in GrantIds, ReadCode(c, g) PROVE OAuthInv'
  <2>1. PICK rev \in Nat : rev = codes[g].rev BY DEF CodeRow
  <2>2. PICK x \in OAuthCall : x = [pc |-> "granted", grant |-> g, coderev |-> rev] BY DEF OAuthCall, GrantedCall
  <2>3. OAuthCallOk(x, request, codes, grants, drawn, admitted) /\ x.pc # "grant" BY <1>2, <2>1, <2>2 DEF OAuthCallOk, ReadCode
  <2>4. oauthCalls' = [oauthCalls EXCEPT ![c] = x] BY <1>2, <2>1, <2>2 DEF ReadCode, OGoes
  <2>5. UNCHANGED <<request, codes, grants, drawn, admitted, answered, confirmed>> BY <1>2 DEF ReadCode
  <2>. QED BY <2>3, <2>4, <2>5, ConfirmedStays, OAuthQuiet
<1>3. ASSUME NEW g \in GrantIds, ReadRevoke(c, g) PROVE OAuthInv'
  <2>1. PICK rev \in Nat : rev = grants[g].rev BY DEF GrantRow
  <2>2. PICK x \in OAuthCall : x = [pc |-> "revoke", grant |-> g, rev |-> rev, op |-> "grant", pair |-> AllPairs]
    BY DEF OAuthCall, RevokeCall
  <2>3. x.pc = "revoke" /\ x.grant = g /\ x.op = "grant" /\ x.pair = AllPairs /\ AllPairs \notin Nat BY <2>2 DEF AllPairs
  <2>4. grants[g].state # "absent" BY <1>3 DEF ReadRevoke
  <2>5. OAuthCallOk(x, request, codes, grants, drawn, admitted) BY <2>3, <2>4 DEF OAuthCallOk
  <2>6. oauthCalls' = [oauthCalls EXCEPT ![c] = x] BY <1>3, <2>1, <2>2 DEF ReadRevoke, OGoes
  <2>7. UNCHANGED <<request, codes, grants, drawn, admitted, answered, confirmed>> BY <1>3 DEF ReadRevoke
  <2>. QED BY <2>3, <2>5, <2>6, <2>7, ConfirmedStays, OAuthQuiet
<1>4. CASE ReadGrant(c)
  <2>1. PICK y \in OAuthCall : y = oauthCalls[c] /\ y.pc = "granted" BY <1>4 DEF ReadGrant, OAt, OAuthInv, OAuthTypes
  <2>2. PICK g \in GrantIds : g = y.grant BY <2>1, OAuthCallIs DEF GrantedCall
  <2>3. PICK rev \in Nat : rev = y.coderev BY <2>1, OAuthCallIs DEF GrantedCall
  <2>4. PICK row \in GrantRow : row = grants[g] OBVIOUS
  <2>5. UNCHANGED <<request, codes, grants, drawn, admitted, answered, confirmed>> BY <1>4 DEF ReadGrant
  <2>6. CASE ~Usable(g)
    <3>1. OEnds(c) BY <1>4, <2>1, <2>2, <2>6 DEF ReadGrant
    <3>. QED BY <2>5, <3>1, OAuthEndsQuietly
  <2>7. CASE Usable(g)
    <3>1. PICK x \in OAuthCall : x = [pc |-> "usecode", grant |-> g, coderev |-> rev, row |-> row] BY DEF OAuthCall, UseCodeCall
    <3>2. OAuthCallOk(y, request, codes, grants, drawn, admitted) BY <2>1 DEF OAuthInv
    <3>3. rev <= codes[g].rev /\ (rev = codes[g].rev => ~codes[g].used) BY <2>1, <2>2, <2>3, <3>2 DEF OAuthCallOk
    <3>4. ReadRow(row, row)
      <4>1. row.rev <= row.rev BY DEF GrantRow
      <4>2. row.state = "live" /\ ~row.revoked BY <2>4, <2>7 DEF Usable
      <4>. QED BY <4>1, <4>2 DEF ReadRow
    <3>5. OAuthCallOk(x, request, codes, grants, drawn, admitted) /\ x.pc # "grant" BY <2>4, <3>1, <3>3, <3>4 DEF OAuthCallOk
    <3>6. oauthCalls' = [oauthCalls EXCEPT ![c] = x] BY <1>4, <2>1, <2>2, <2>3, <2>4, <2>7, <3>1 DEF ReadGrant, OGoes
    <3>. QED BY <2>5, <3>5, <3>6, ConfirmedStays, OAuthQuiet
  <2>. QED BY <2>6, <2>7
<1>5. CASE OAuthFails(c) BY <1>5, OAuthEndsQuietly DEF OAuthFails
<1>. QED BY <1>1, <1>2, <1>3, <1>4, <1>5

-----------------------------------------------------------------------------
(* The request changes, and who is let in.                                 *)
LEMMA RequestMoves ==
  ASSUME OAuthInv, NEW c \in OAuthCalls, NEW x \in OAuthCall, oauthCalls' = [oauthCalls EXCEPT ![c] = x],
         NEW rq \in RequestRow, request' = rq, NEW ad \in SUBSET Users, admitted' = ad, admitted \subseteq ad,
         UNCHANGED <<codes, grants, drawn, answered, confirmed>>,
         RequestFollows(request, rq), ad \subseteq {rq.subject} \ {Nobody},
         OAuthCallOk(x, rq, codes, grants, drawn, ad), x.pc = "grant" => ~request.used
  PROVE  OAuthInv'
<1>. USE RecordTypes
<1>1. ~rq.used => ~request.used BY DEF RequestFollows
<1>2. RecordsOk(rq, codes, grants, drawn, ad, answered', confirmed') BY <1>1 DEF RecordsOk
<1>3. x.pc = "grant" => \A d \in OAuthCalls : d # c => ~OAt(d, "grant") OBVIOUS
<1>4. (x.pc = "grant" \/ \E d \in OAuthCalls : d # c /\ OAt(d, "grant")) => \A g \in GrantIds : grants[g].state = "absent"
  BY DEF RecordsOk
<1>5. /\ codes' = codes /\ grants' = grants /\ drawn' = drawn
      /\ answered' \subseteq GrantIds \X Nat \X Nat /\ confirmed' \subseteq GrantIds \X (Nat \cup {AllPairs})
  OBVIOUS
<1>. QED BY <1>2, <1>3, <1>4, <1>5, OAuthMoves

LEMMA BindKeeps == ASSUME OAuthInv, NEW c \in OAuthCalls, BindRequest(c) PROVE OAuthInv'
<1>. USE RecordTypes
<1>1. PICK y \in OAuthCall : y = oauthCalls[c] /\ y.pc = "consent" BY DEF BindRequest, OAt, OAuthInv, OAuthTypes
<1>2. PICK user \in Users : user = y.user BY <1>1, OAuthCallIs DEF ConsentCall
<1>3. PICK read \in RequestRow : read = y.read BY <1>1, OAuthCallIs DEF ConsentCall
<1>4. OAuthCallOk(y, request, codes, grants, drawn, admitted) BY <1>1 DEF OAuthInv
<1>5. PICK r \in RequestRow : r = request OBVIOUS
<1>6. ReadRequest(read, user, r) BY <1>1, <1>2, <1>3, <1>4, <1>5 DEF OAuthCallOk
<1>7. read.rev \in Nat /\ r.rev \in Nat /\ read.scopes \in Nat BY DEF RequestRow
<1>8. PICK n \in 1 .. read.scopes :
        LET bound == read.subject = user /\ n = read.scopes
            saved == r.state = "live" /\ Current(r, read.rev)
            next(rev) == IF y.op = "consent" THEN NoOAuthCall ELSE [pc |-> "decide", user |-> user, rev |-> rev]
        IN \/ /\ bound
              /\ OGoes(c, next(read.rev))
              /\ admitted' = admitted \cup {user}
              /\ UNCHANGED <<request, oauthFaults>>
           \/ /\ ~bound /\ saved
              /\ request' = [read EXCEPT !.rev = r.rev + 1, !.subject = user, !.scopes = n]
              /\ \/ OGoes(c, next(read.rev + 1)) /\ admitted' = admitted \cup {user} /\ UNCHANGED oauthFaults
                 \/ OEnds(c) /\ Lost /\ UNCHANGED admitted
           \/ ~bound /\ ~saved /\ OEnds(c) /\ UNCHANGED <<request, admitted, oauthFaults>>
  BY <1>1, <1>2, <1>3, <1>5 DEF BindRequest
<1>9. UNCHANGED <<codes, grants, drawn, answered, confirmed>> BY DEF BindRequest
<1>10. n \in Nat BY <1>7
<1>11. user # Nobody BY UserAssumption
<1>12. ASSUME NEW rev \in Nat, NEW rq \in RequestRow, NEW ad, user \in ad, rev <= rq.rev, rev = rq.rev => ~rq.used,
              OGoes(c, IF y.op = "consent" THEN NoOAuthCall ELSE [pc |-> "decide", user |-> user, rev |-> rev])
       PROVE  \E x \in OAuthCall : /\ oauthCalls' = [oauthCalls EXCEPT ![c] = x] /\ x.pc # "grant"
                                   /\ OAuthCallOk(x, rq, codes, grants, drawn, ad)
  <2>1. CASE y.op = "consent" BY <1>12, <2>1, NoOAuthCallIs DEF OGoes
  <2>2. CASE y.op # "consent"
    <3>1. PICK x \in OAuthCall : x = [pc |-> "decide", user |-> user, rev |-> rev] BY DEF OAuthCall, DecideCall
    <3>2. OAuthCallOk(x, rq, codes, grants, drawn, ad) /\ x.pc # "grant" BY <1>12, <3>1 DEF OAuthCallOk
    <3>. QED BY <1>12, <2>2, <3>1, <3>2 DEF OGoes
  <2>. QED BY <2>1, <2>2
<1>13. PICK ad \in SUBSET Users : ad = admitted \cup {user} OBVIOUS
<1>14. admitted \subseteq {r.subject} \ {Nobody} BY <1>5 DEF RecordsOk
<1>15. CASE read.subject = user /\ OGoes(c, IF y.op = "consent" THEN NoOAuthCall ELSE [pc |-> "decide", user |-> user, rev |-> read.rev])
            /\ admitted' = admitted \cup {user} /\ UNCHANGED request
  <2>1. r.subject = user /\ read.rev <= r.rev /\ (read.rev = r.rev => ~r.used) BY <1>6, <1>11, <1>15 DEF ReadRequest
  <2>2. PICK x \in OAuthCall : /\ oauthCalls' = [oauthCalls EXCEPT ![c] = x] /\ x.pc # "grant"
                               /\ OAuthCallOk(x, r, codes, grants, drawn, ad)
    BY <1>7, <1>12, <1>13, <1>15, <2>1
  <2>3. ad \subseteq {r.subject} \ {Nobody} BY <1>11, <1>13, <1>14, <2>1
  <2>4. request' = r /\ admitted' = ad /\ admitted \subseteq ad BY <1>5, <1>13, <1>15
  <2>5. RequestFollows(request, r) BY <1>5
  <2>. HIDE RecordTypes
  <2>. QED BY <1>9, <2>2, <2>3, <2>4, <2>5, RequestMoves
<1>16. ASSUME r.state = "live", Current(r, read.rev),
              request' = [read EXCEPT !.rev = r.rev + 1, !.subject = user, !.scopes = n],
              \/ /\ OGoes(c, IF y.op = "consent" THEN NoOAuthCall ELSE [pc |-> "decide", user |-> user, rev |-> read.rev + 1])
                 /\ admitted' = admitted \cup {user}
              \/ OEnds(c) /\ UNCHANGED admitted
       PROVE  OAuthInv'
  <2>1. PICK rev \in Nat : rev = read.rev + 1 /\ rev = r.rev + 1 BY <1>7, <1>16 DEF Current
  <2>2. PICK rq \in RequestRow : rq = [read EXCEPT !.rev = rev, !.subject = user, !.scopes = n]
    BY <1>10 DEF RequestRow, Subjects
  <2>3. rq.rev = rev /\ rq.subject = user /\ rq.used = read.used BY <2>2 DEF RequestRow
  <2>4. /\ ~rq.used /\ ~r.used /\ r.subject = read.subject /\ r.subject \in {Nobody, user}
    BY <1>6, <1>16, <2>3 DEF ReadRequest, Current
  <2>5. request' = rq BY <1>16, <2>1, <2>2
  <2>6. r.rev <= rev /\ r.rev # rev BY <1>7, <2>1
  <2>7. RequestFollows(r, rq) BY <2>3, <2>4, <2>6 DEF RequestFollows
  <2>8. ad \subseteq {rq.subject} \ {Nobody} /\ admitted \subseteq {rq.subject} \ {Nobody} BY <1>11, <1>13, <1>14, <2>3, <2>4
  <2>9. CASE OEnds(c) /\ UNCHANGED admitted
    <3>1. oauthCalls' = [oauthCalls EXCEPT ![c] = NoOAuthCall] BY <2>9 DEF OEnds, OGoes
    <3>2. NoOAuthCall.pc # "grant" BY NoOAuthCallIs
    <3>3. admitted' = admitted BY <2>9
    <3>. QED BY <1>5, <1>9, <2>5, <2>7, <2>8, <3>1, <3>2, <3>3, NoOAuthCallIs, RequestMoves
  <2>10. CASE /\ OGoes(c, IF y.op = "consent" THEN NoOAuthCall ELSE [pc |-> "decide", user |-> user, rev |-> read.rev + 1])
              /\ admitted' = admitted \cup {user}
    <3>1. rev <= rq.rev BY <2>3
    <3>2. PICK x \in OAuthCall : /\ oauthCalls' = [oauthCalls EXCEPT ![c] = x] /\ x.pc # "grant"
                                 /\ OAuthCallOk(x, rq, codes, grants, drawn, ad)
      BY <1>12, <1>13, <2>1, <2>4, <2>10, <3>1
    <3>3. admitted' = ad /\ admitted \subseteq ad BY <1>13, <2>10
    <3>. QED BY <1>5, <1>9, <2>5, <2>7, <2>8, <3>2, <3>3, RequestMoves
  <2>. QED BY <1>16, <2>9, <2>10
<1>17. CASE OEnds(c) /\ UNCHANGED <<request, admitted>> BY <1>9, <1>17, OAuthEndsQuietly
<1>. QED BY <1>8, <1>15, <1>16, <1>17

LEMMA UseRequestKeeps == ASSUME OAuthInv, NEW c \in OAuthCalls, UseRequest(c) PROVE OAuthInv'
<1>. USE RecordTypes
<1>1. PICK y \in OAuthCall : y = oauthCalls[c] /\ y.pc = "decide" BY DEF UseRequest, OAt, OAuthInv, OAuthTypes
<1>2. y \in DecideCall BY <1>1, OAuthCallIs
<1>3. OAuthCallOk(y, request, codes, grants, drawn, admitted) BY <1>1 DEF OAuthInv
<1>4. PICK r \in RequestRow : r = request OBVIOUS
<1>5. UNCHANGED <<codes, grants, drawn, admitted, answered, confirmed>> BY DEF UseRequest
<1>6. CASE OEnds(c) /\ UNCHANGED request BY <1>5, <1>6, OAuthEndsQuietly
<1>7. ASSUME Current(r, y.rev), request' = [r EXCEPT !.rev = r.rev + 1, !.used = TRUE],
             OGoes(c, [y EXCEPT !.pc = "grant"]) \/ OEnds(c)
      PROVE  OAuthInv'
  <2>1. PICK rev \in Nat : rev = r.rev + 1 /\ r.rev <= rev /\ r.rev # rev BY DEF RequestRow
  <2>2. PICK rq \in RequestRow : rq = [r EXCEPT !.rev = rev, !.used = TRUE] BY DEF RequestRow
  <2>3. rq.rev = rev /\ rq.used /\ rq.subject = r.subject BY <2>2 DEF RequestRow
  <2>4. RequestFollows(r, rq) BY <2>1, <2>3 DEF RequestFollows
  <2>5. ~r.used BY <1>1, <1>3, <1>4, <1>7 DEF OAuthCallOk, Current
  <2>6. admitted \subseteq {rq.subject} \ {Nobody} BY <1>4, <2>3 DEF RecordsOk
  <2>7. PICK x \in OAuthCall : /\ oauthCalls' = [oauthCalls EXCEPT ![c] = x]
                               /\ OAuthCallOk(x, rq, codes, grants, drawn, admitted)
    <3>1. CASE OEnds(c) BY <3>1, NoOAuthCallIs DEF OEnds, OGoes
    <3>2. CASE OGoes(c, [y EXCEPT !.pc = "grant"])
      <4>1. PICK x \in DecideCall : x = [y EXCEPT !.pc = "grant"] BY <1>2 DEF DecideCall
      <4>2. x.pc = "grant" /\ x.user = y.user /\ x \in OAuthCall BY <1>2, <4>1 DEF DecideCall, OAuthCall
      <4>3. OAuthCallOk(x, rq, codes, grants, drawn, admitted) BY <1>1, <1>3, <2>3, <4>2 DEF OAuthCallOk
      <4>. QED BY <3>2, <4>1, <4>2, <4>3 DEF OGoes
    <3>. QED BY <1>7, <3>1, <3>2
  <2>8. request' = rq /\ admitted' = admitted BY <1>5, <1>7, <2>1, <2>2
  <2>. QED BY <1>4, <1>5, <2>4, <2>5, <2>6, <2>7, <2>8, RequestMoves
<1>. QED BY <1>1, <1>4, <1>6, <1>7 DEF UseRequest

-----------------------------------------------------------------------------
(* A code changes.                                                         *)
LEMMA CodesMove ==
  ASSUME OAuthInv, NEW c \in OAuthCalls, NEW x \in OAuthCall, oauthCalls' = [oauthCalls EXCEPT ![c] = x],
         NEW g \in GrantIds, NEW code \in CodeRow, codes' = [codes EXCEPT ![g] = code], CodeFollows(codes[g], code),
         UNCHANGED <<request, grants, drawn, admitted, answered, confirmed>>,
         OAuthCallOk(x, request, [codes EXCEPT ![g] = code], grants, drawn, admitted), x.pc # "grant"
  PROVE  OAuthInv'
<1>1. PICK cd \in [GrantIds -> CodeRow] : cd = [codes EXCEPT ![g] = code] BY RecordTypes
<1>2. \A h \in GrantIds : cd[h] = IF h = g THEN code ELSE codes[h] BY <1>1, RecordTypes
<1>3. \A h \in GrantIds : CodeFollows(codes[h], cd[h]) BY <1>2, RecordTypes
<1>4. \A h \in GrantIds : ~cd[h].used => ~codes[h].used BY <1>3 DEF CodeFollows
<1>5. RecordsOk(request, cd, grants, drawn, admitted, answered', confirmed') BY <1>4, RecordTypes DEF RecordsOk
<1>6. /\ x.pc = "grant" => \A d \in OAuthCalls : d # c => ~OAt(d, "grant")
      /\ (x.pc = "grant" \/ \E d \in OAuthCalls : d # c /\ OAt(d, "grant")) => \A h \in GrantIds : grants[h].state = "absent"
  BY RecordTypes
<1>7. /\ answered' \subseteq GrantIds \X Nat \X Nat /\ confirmed' \subseteq GrantIds \X (Nat \cup {AllPairs})
      /\ codes' = cd /\ request' = request /\ grants' = grants /\ drawn' = drawn /\ admitted' = admitted
      /\ admitted \subseteq admitted
      /\ \A h \in GrantIds : CodeFollows(codes[h], cd[h]) /\ GrantFollows(grants[h], grants[h]) /\ drawn[h] <= drawn[h]
  BY <1>1, <1>3, RecordTypes
<1>8. OAuthCallOk(x, request, cd, grants, drawn, admitted) BY <1>1
<1>9. /\ request \in RequestRow /\ grants \in [GrantIds -> GrantRow] /\ drawn \in [GrantIds -> Nat]
      /\ admitted \in SUBSET Users /\ RequestFollows(request, request)
  BY RecordTypes
<1>. QED BY <1>1, <1>5, <1>6, <1>7, <1>8, <1>9, OAuthMoves, ZenonT(60)

LEMMA InsertCodeKeeps == ASSUME OAuthInv, NEW c \in OAuthCalls, InsertCode(c) PROVE OAuthInv'
<1>. USE RecordTypes
<1>1. PICK y \in OAuthCall : y = oauthCalls[c] /\ y.pc = "code" BY DEF InsertCode, OAt, OAuthInv, OAuthTypes
<1>2. PICK g \in GrantIds : g = y.grant BY <1>1, OAuthCallIs DEF CodeCall
<1>3. UNCHANGED <<request, grants, drawn, admitted, answered, confirmed>> /\ OEnds(c) BY DEF InsertCode
<1>4. CASE UNCHANGED codes BY <1>3, <1>4, OAuthEndsQuietly
<1>5. CASE codes' = [codes EXCEPT ![g].state = "live"]
  <2>1. PICK old \in CodeRow : old = codes[g] OBVIOUS
  <2>2. PICK code \in CodeRow : code = [old EXCEPT !.state = "live"] BY DEF CodeRow
  <2>3. code.rev = old.rev /\ code.used = old.used /\ old.rev <= old.rev BY <2>2 DEF CodeRow
  <2>4. CodeFollows(codes[g], code) BY <2>1, <2>3 DEF CodeFollows
  <2>5. codes' = [codes EXCEPT ![g] = code] BY <1>5, <2>1, <2>2
  <2>6. oauthCalls' = [oauthCalls EXCEPT ![c] = NoOAuthCall] /\ NoOAuthCall.pc # "grant" BY <1>3, NoOAuthCallIs DEF OEnds, OGoes
  <2>. QED BY <1>3, <2>4, <2>5, <2>6, NoOAuthCallIs, CodesMove
<1>. QED BY <1>1, <1>2, <1>4, <1>5 DEF InsertCode

LEMMA UseCodeKeeps == ASSUME OAuthInv, NEW c \in OAuthCalls, UseCode(c) PROVE OAuthInv'
<1>. USE RecordTypes
<1>1. PICK y \in OAuthCall : y = oauthCalls[c] /\ y.pc = "usecode" BY DEF UseCode, OAt, OAuthInv, OAuthTypes
<1>2. PICK g \in GrantIds : g = y.grant BY <1>1, OAuthCallIs DEF UseCodeCall
<1>3. PICK row \in GrantRow : row = y.row BY <1>1, OAuthCallIs DEF UseCodeCall
<1>4. OAuthCallOk(y, request, codes, grants, drawn, admitted) BY <1>1 DEF OAuthInv
<1>5. UNCHANGED <<request, grants, drawn, admitted, answered, confirmed>> BY DEF UseCode
<1>6. CASE OEnds(c) /\ UNCHANGED codes BY <1>5, <1>6, OAuthEndsQuietly
<1>7. ASSUME Current(codes[g], y.coderev), codes' = [codes EXCEPT ![g].rev = @ + 1, ![g].used = TRUE],
             OGoes(c, [pc |-> "save", grant |-> g, by |-> NoPair, row |-> row]) \/ OEnds(c)
      PROVE  OAuthInv'
  <2>1. PICK old \in CodeRow : old = codes[g] OBVIOUS
  <2>2. PICK rev \in Nat : rev = old.rev + 1 /\ old.rev <= rev /\ old.rev # rev BY DEF CodeRow
  <2>3. PICK code \in CodeRow : code = [old EXCEPT !.rev = rev, !.used = TRUE] BY DEF CodeRow
  <2>4. code.rev = rev /\ code.used BY <2>3 DEF CodeRow
  <2>5. CodeFollows(codes[g], code) BY <2>1, <2>2, <2>4 DEF CodeFollows
  <2>6. codes' = [codes EXCEPT ![g] = code]
    <3>1. codes' = [codes EXCEPT ![g] = [old EXCEPT !.rev = old.rev + 1, !.used = TRUE]] BY <1>7, <2>1
    <3>. QED BY <2>2, <2>3, <3>1
  <2>7. PICK cd \in [GrantIds -> CodeRow] : cd = [codes EXCEPT ![g] = code] OBVIOUS
  <2>8. cd[g].used BY <2>4, <2>7
  <2>9. ~codes[g].used BY <1>1, <1>2, <1>4, <1>7 DEF OAuthCallOk, Current
  <2>10. grants[g].pair = 0 BY <2>9 DEF RecordsOk
  <2>11. ReadRow(row, grants[g]) BY <1>1, <1>2, <1>3, <1>4 DEF OAuthCallOk
  <2>12. PICK x \in OAuthCall : /\ oauthCalls' = [oauthCalls EXCEPT ![c] = x] /\ x.pc # "grant"
                                /\ OAuthCallOk(x, request, cd, grants, drawn, admitted)
    <3>1. CASE OEnds(c) BY <3>1, NoOAuthCallIs DEF OEnds, OGoes
    <3>2. CASE OGoes(c, [pc |-> "save", grant |-> g, by |-> NoPair, row |-> row])
      <4>1. PICK x \in OAuthCall : x = [pc |-> "save", grant |-> g, by |-> NoPair, row |-> row]
        BY DEF OAuthCall, SaveCall, NoPair
      <4>2. x.pc = "save" /\ x.grant = g /\ x.by = 0 /\ x.row = row BY <4>1 DEF NoPair
      <4>3. OAuthCallOk(x, request, cd, grants, drawn, admitted) BY <2>8, <2>10, <2>11, <4>2 DEF OAuthCallOk
      <4>. QED BY <3>2, <4>1, <4>2, <4>3 DEF OGoes
    <3>. QED BY <1>7, <3>1, <3>2
  <2>. QED BY <1>5, <2>5, <2>6, <2>7, <2>12, CodesMove
<1>. QED BY <1>1, <1>2, <1>3, <1>6, <1>7 DEF UseCode

-----------------------------------------------------------------------------
(* A grant changes: the request was used already.                          *)
LEMMA GrantMoves ==
  ASSUME OAuthInv, NEW c \in OAuthCalls, NEW x \in OAuthCall, oauthCalls' = [oauthCalls EXCEPT ![c] = x], x.pc # "grant",
         NEW g \in GrantIds, NEW row \in GrantRow, grants' = [grants EXCEPT ![g] = row], GrantFollows(grants[g], row),
         NEW n \in Nat, drawn' = [drawn EXCEPT ![g] = n], drawn[g] <= n, row.pair = n, row.state # "absent",
         codes[g].used \/ n = 0, row.subject \in admitted,
         \/ grants[g].state # "absent"
         \/ OAt(c, "grant") /\ \A h \in GrantIds : grants[h].state = "absent",
         UNCHANGED <<request, codes, admitted>>,
         answered' \subseteq GrantIds \X Nat \X Nat, confirmed' \subseteq GrantIds \X (Nat \cup {AllPairs}),
         NEW gr, gr = [grants EXCEPT ![g] = row], NEW dr, dr = [drawn EXCEPT ![g] = n],
         \A p \in answered' : p[2] < p[3] /\ p[3] <= dr[p[1]],
         \A p, q \in answered' : p[1] = q[1] /\ p[2] = q[2] => p = q,
         \A r \in confirmed' : RevokedOk(r, gr, dr),
         OAuthCallOk(x, request, codes, gr, dr, admitted)
  PROVE  OAuthInv'
<1>. USE RecordTypes
<1>1. gr \in [GrantIds -> GrantRow] /\ dr \in [GrantIds -> Nat] OBVIOUS
<1>2. \A h \in GrantIds : gr[h] = (IF h = g THEN row ELSE grants[h]) /\ dr[h] = (IF h = g THEN n ELSE drawn[h]) OBVIOUS
<1>3. \A h \in GrantIds : GrantFollows(grants[h], gr[h]) /\ drawn[h] <= dr[h] BY <1>2
<1>4. request.used BY DEF RecordsOk
<1>5. \A h \in GrantIds : h # g => grants[h].state = "absent" BY DEF RecordsOk
<1>6. RecordsOk(request, codes, gr, dr, admitted, answered', confirmed')
  <2>1. admitted \subseteq {request.subject} \ {Nobody} BY DEF RecordsOk
  <2>2. \A h \in GrantIds : /\ gr[h].state # "absent" => gr[h].subject \in admitted
                            /\ gr[h].state = "absent" => gr[h] = NoGrant
                            /\ gr[h].pair = dr[h]
                            /\ ~codes[h].used => dr[h] = 0
    BY <1>2 DEF RecordsOk
  <2>3. \A h, i \in GrantIds : gr[h].state # "absent" /\ gr[i].state # "absent" => h = i BY <1>2, <1>5
  <2>. QED BY <1>4, <2>1, <2>2, <2>3 DEF RecordsOk
<1>7. \A d \in OAuthCalls : d # c => ~OAt(d, "grant") OBVIOUS
<1>8. /\ x.pc = "grant" => \A d \in OAuthCalls : d # c => ~OAt(d, "grant")
      /\ (x.pc = "grant" \/ \E d \in OAuthCalls : d # c /\ OAt(d, "grant")) => \A h \in GrantIds : gr[h].state = "absent"
  BY <1>7
<1>9. /\ codes' = codes /\ request' = request /\ grants' = gr /\ drawn' = dr /\ admitted' = admitted /\ admitted \subseteq admitted
      /\ \A h \in GrantIds : CodeFollows(codes[h], codes[h]) /\ GrantFollows(grants[h], gr[h]) /\ drawn[h] <= dr[h]
  BY <1>3
<1>10. /\ request \in RequestRow /\ codes \in [GrantIds -> CodeRow] /\ admitted \in SUBSET Users
       /\ RequestFollows(request, request)
  OBVIOUS
<1>. HIDE RecordTypes
<1>11. ASSUME NEW to, to = gr, NEW last, last = dr PROVE OAuthInv'
  <2>1. to \in [GrantIds -> GrantRow] /\ last \in [GrantIds -> Nat] /\ grants' = to /\ drawn' = last
    BY <1>1, <1>9, <1>11
  <2>2. OAuthCallOk(x, request, codes, to, last, admitted) BY <1>11
  <2>3. RecordsOk(request, codes, to, last, admitted, answered', confirmed') BY <1>6, <1>11
  <2>4. \A h \in GrantIds : CodeFollows(codes[h], codes[h]) /\ GrantFollows(grants[h], to[h]) /\ drawn[h] <= last[h]
    BY <1>9, <1>11
  <2>5. (x.pc = "grant" \/ \E d \in OAuthCalls : d # c /\ OAt(d, "grant")) => \A h \in GrantIds : to[h].state = "absent"
    BY <1>8, <1>11
  <2>. QED BY <2>1, <2>2, <2>3, <2>4, <2>5, <1>8, <1>9, <1>10, OAuthMoves, ZenonT(60)
<1>. QED BY <1>11

LEMMA InsertGrantKeeps == ASSUME OAuthInv, NEW c \in OAuthCalls, InsertGrant(c) PROVE OAuthInv'
<1>. USE RecordTypes
<1>1. PICK y \in OAuthCall : y = oauthCalls[c] /\ y.pc = "grant" BY DEF InsertGrant, OAt, OAuthInv, OAuthTypes
<1>2. PICK user \in Users : user = y.user /\ user \in admitted BY <1>1, OAuthCallIs DEF DecideCall, OAuthInv, OAuthCallOk
<1>3. PICK g \in GrantIds : /\ grants[g] = NoGrant
                            /\ grants' = [grants EXCEPT ![g] = [NoGrant EXCEPT !.state = "live", !.subject = user]]
                            /\ \/ OGoes(c, [pc |-> "code", grant |-> g])
                               \/ OEnds(c)
  BY <1>1, <1>2 DEF InsertGrant
<1>4. PICK row \in GrantRow : row = [NoGrant EXCEPT !.state = "live", !.subject = user] BY NoGrantIs DEF GrantRow, Subjects
<1>5. row.state = "live" /\ row.subject = user /\ row.pair = 0 /\ row.rev = 0 BY <1>4 DEF NoGrant, NoPair
<1>6. \A h \in GrantIds : grants[h].state = "absent" BY <1>1 DEF OAt
<1>7. GrantFollows(grants[g], row) BY <1>3, <1>5, NoGrantIs DEF GrantFollows
<1>19. PICK n \in Nat : n = 0 OBVIOUS
<1>8. drawn[g] = n BY <1>3, <1>19, NoGrantIs DEF RecordsOk
<1>9. drawn' = [drawn EXCEPT ![g] = n] BY <1>8 DEF InsertGrant
<1>10. PICK gr : gr = [grants EXCEPT ![g] = row] OBVIOUS
<1>11. PICK dr : dr = [drawn EXCEPT ![g] = n] OBVIOUS
<1>12. dr = drawn BY <1>8, <1>11
<1>13. UNCHANGED <<request, codes, admitted, answered, confirmed>> BY DEF InsertGrant
<1>14. confirmed = {} BY <1>6 DEF RecordsOk, RevokedOk
<1>15. /\ \A p \in answered' : p[2] < p[3] /\ p[3] <= dr[p[1]]
       /\ \A p, q \in answered' : p[1] = q[1] /\ p[2] = q[2] => p = q
       /\ \A r \in confirmed' : RevokedOk(r, gr, dr)
       /\ answered' \subseteq GrantIds \X Nat \X Nat /\ confirmed' \subseteq GrantIds \X (Nat \cup {AllPairs})
  BY <1>12, <1>13, <1>14 DEF RecordsOk
<1>16. PICK x \in OAuthCall : /\ oauthCalls' = [oauthCalls EXCEPT ![c] = x] /\ x.pc # "grant"
                              /\ OAuthCallOk(x, request, codes, gr, dr, admitted)
  <2>1. CASE OEnds(c) BY <2>1, NoOAuthCallIs DEF OEnds, OGoes
  <2>2. CASE OGoes(c, [pc |-> "code", grant |-> g])
    <3>1. PICK x \in OAuthCall : x = [pc |-> "code", grant |-> g] BY DEF OAuthCall, CodeCall
    <3>2. OAuthCallOk(x, request, codes, gr, dr, admitted) /\ x.pc # "grant" BY <3>1 DEF OAuthCallOk
    <3>. QED BY <2>2, <3>1, <3>2 DEF OGoes
  <2>. QED BY <1>3, <2>1, <2>2
<1>17. grants' = [grants EXCEPT ![g] = row] /\ OAt(c, "grant") BY <1>1, <1>3, <1>4 DEF OAt
<1>18. /\ drawn[g] <= n /\ row.pair = n /\ row.state # "absent" /\ row.subject \in admitted
       /\ codes[g].used \/ n = 0
  BY <1>2, <1>5, <1>8, <1>19
<1>. QED BY <1>6, <1>7, <1>9, <1>10, <1>11, <1>13, <1>15, <1>16, <1>17, <1>18, GrantMoves

(* Tokens are drawn.                                                       *)
LEMMA SaveKeeps == ASSUME OAuthInv, NEW c \in OAuthCalls, SaveTokens(c) PROVE OAuthInv'
<1>. USE RecordTypes
<1>1. PICK y \in OAuthCall : y = oauthCalls[c] /\ y.pc = "save" BY DEF SaveTokens, OAt, OAuthInv, OAuthTypes
<1>2. PICK g \in GrantIds : g = y.grant BY <1>1, OAuthCallIs DEF SaveCall
<1>3. PICK row \in GrantRow : row = y.row BY <1>1, OAuthCallIs DEF SaveCall
<1>4. PICK by \in Nat : by = y.by BY <1>1, OAuthCallIs DEF SaveCall
<1>5. OAuthCallOk(y, request, codes, grants, drawn, admitted) BY <1>1 DEF OAuthInv
<1>6. PICK old \in GrantRow : old = grants[g] OBVIOUS
<1>7. PICK pair \in Nat : pair = drawn[g] + 1 OBVIOUS
<1>8. UNCHANGED <<request, codes, admitted, confirmed>> /\ OEnds(c) BY DEF SaveTokens
<1>9. CASE UNCHANGED <<grants, drawn, answered>> BY <1>8, <1>9, OAuthEndsQuietly
<1>10. ASSUME old.state = "live", Current(old, row.rev), drawn' = [drawn EXCEPT ![g] = pair],
              grants' = [grants EXCEPT ![g] = [row EXCEPT !.rev = old.rev + 1, !.pair = pair]],
              answered' \subseteq answered \cup {<<g, by, pair>>}
       PROVE  OAuthInv'
  <2>1. ReadRow(row, old) /\ codes[g].used /\ (row.rev = old.rev => by = old.pair)
    BY <1>1, <1>2, <1>3, <1>4, <1>5, <1>6 DEF OAuthCallOk
  <2>2. /\ row.state = "live" /\ row.subject = old.subject /\ ~old.revoked /\ by = drawn[g]
    BY <1>6, <1>10, <2>1 DEF ReadRow, Current, RecordsOk
  <2>3. PICK rev \in Nat : rev = old.rev + 1 /\ old.rev <= rev /\ old.rev # rev BY DEF GrantRow
  <2>4. PICK new \in GrantRow : new = [row EXCEPT !.rev = rev, !.pair = pair] BY DEF GrantRow
  <2>5. new.rev = rev /\ new.pair = pair /\ new.state = "live" /\ new.subject = old.subject BY <2>2, <2>4 DEF GrantRow
  <2>6. GrantFollows(grants[g], new) BY <1>6, <2>3, <2>5 DEF GrantFollows
  <2>7. PICK gr : gr = [grants EXCEPT ![g] = new] OBVIOUS
  <2>8. PICK dr : dr = [drawn EXCEPT ![g] = pair] OBVIOUS
  <2>9. \A h \in GrantIds : gr[h] = (IF h = g THEN new ELSE grants[h]) /\ dr[h] = (IF h = g THEN pair ELSE drawn[h]) BY <2>7, <2>8
  <2>10. \A h \in GrantIds : drawn[h] \in Nat /\ drawn[h] <= dr[h] /\ dr[h] \in Nat BY <1>7, <2>9
  <2>11. \A p \in answered : /\ p[1] \in GrantIds /\ p[2] \in Nat /\ p[3] \in Nat /\ p[2] < p[3] /\ p[3] <= drawn[p[1]]
    BY DEF RecordsOk
  <2>12. by < pair /\ dr[g] = pair BY <1>7, <2>2, <2>9
  <2>13. \A p \in answered' : p[2] < p[3] /\ p[3] <= dr[p[1]]
    <3>1. ASSUME NEW p \in answered PROVE p[2] < p[3] /\ p[3] <= dr[p[1]]
      <4>1. p[3] <= drawn[p[1]] /\ drawn[p[1]] <= dr[p[1]] /\ p[3] \in Nat /\ drawn[p[1]] \in Nat /\ dr[p[1]] \in Nat
        BY <2>10, <2>11
      <4>. QED BY <2>11, <4>1
    <3>2. \A p : p = <<g, by, pair>> => p[2] < p[3] /\ p[3] <= dr[p[1]] BY <2>12
    <3>. QED BY <1>10, <3>1, <3>2
  <2>14. \A p, q \in answered' : p[1] = q[1] /\ p[2] = q[2] => p = q
    <3>1. \A p, q \in answered : p[1] = q[1] /\ p[2] = q[2] => p = q BY DEF RecordsOk
    <3>2. \A p \in answered : p[1] = g => p[2] # by BY <2>2, <2>10, <2>11
    <3>3. \A p \in answered' : p \in answered \/ p = <<g, by, pair>> BY <1>10
    <3>. QED BY <3>1, <3>2, <3>3
  <2>15. ASSUME NEW r \in confirmed' PROVE RevokedOk(r, gr, dr)
    <3>1. r \in confirmed /\ RevokedOk(r, grants, drawn) BY <1>8 DEF RecordsOk
    <3>2. PICK h \in GrantIds : h = r[1] BY <3>1
    <3>3. r[2] \in Nat \cup {AllPairs} BY <3>1
    <3>4. CASE h # g BY <2>9, <3>1, <3>2, <3>4 DEF RevokedOk
    <3>5. CASE h = g
      <4>1. r[2] # AllPairs BY <1>6, <2>2, <3>1, <3>2, <3>5 DEF RevokedOk
      <4>2. r[2] \in Nat /\ r[2] <= drawn[g] BY <3>1, <3>2, <3>3, <3>5, <4>1 DEF RevokedOk
      <4>3. r[2] <= dr[h] /\ gr[h].pair # r[2] BY <1>7, <2>5, <2>9, <3>5, <4>2
      <4>4. gr[h].state # "absent" BY <2>5, <2>9, <3>5
      <4>. QED BY <3>2, <4>1, <4>3, <4>4 DEF RevokedOk
    <3>. QED BY <3>4, <3>5
  <2>16. answered' \subseteq GrantIds \X Nat \X Nat /\ confirmed' \subseteq GrantIds \X (Nat \cup {AllPairs})
    BY <1>8, <1>10
  <2>17. oauthCalls' = [oauthCalls EXCEPT ![c] = NoOAuthCall] /\ NoOAuthCall.pc # "grant" BY <1>8, NoOAuthCallIs DEF OEnds, OGoes
  <2>18. new.subject \in admitted /\ grants[g].state # "absent" BY <1>6, <1>10, <2>5 DEF RecordsOk
  <2>19. grants' = [grants EXCEPT ![g] = new] BY <1>10, <2>3, <2>4
  <2>20. drawn[g] <= pair /\ new.state # "absent" BY <1>7, <2>5
  <2>21. OAuthCallOk(NoOAuthCall, request, codes, gr, dr, admitted) /\ NoOAuthCall \in OAuthCall BY NoOAuthCallIs
  <2>. QED BY <1>8, <1>10, <2>1, <2>5, <2>6, <2>7, <2>8, <2>13, <2>14, <2>15, <2>16, <2>17, <2>18, <2>19, <2>20, <2>21, GrantMoves
<1>. QED BY <1>1, <1>2, <1>3, <1>4, <1>6, <1>7, <1>9, <1>10 DEF SaveTokens

(* A token that was handed out is of a grant and a code that were used.    *)
LEMMA AnsweredIs ==
  ASSUME OAuthInv, NEW p \in answered
  PROVE  /\ p[1] \in GrantIds /\ p[3] \in Nat /\ p[3] <= drawn[p[1]]
         /\ codes[p[1]].used /\ grants[p[1]].state # "absent"
<1>. USE RecordTypes
<1>1. PICK g \in GrantIds : g = p[1] OBVIOUS
<1>2. p[2] \in Nat /\ p[3] \in Nat /\ p[2] < p[3] /\ p[3] <= drawn[g] /\ drawn[g] \in Nat BY <1>1 DEF RecordsOk
<1>3. drawn[g] # 0 BY <1>2
<1>. QED BY <1>1, <1>2, <1>3, NoGrantIs DEF RecordsOk

LEMMA ReadRefreshKeeps == ASSUME OAuthInv, NEW c \in OAuthCalls, NEW g \in GrantIds, NEW n, ReadRefresh(c, g, n) PROVE OAuthInv'
<1>. USE RecordTypes
<1>1. PICK p \in answered : p[1] = g /\ p[3] = n BY DEF ReadRefresh
<1>2. PICK pair \in Nat : pair = n BY <1>1, AnsweredIs
<1>3. PICK row \in GrantRow : row = grants[g] OBVIOUS
<1>4. UNCHANGED <<request, codes, grants, drawn, admitted, answered, confirmed>> BY DEF ReadRefresh
<1>5. pair <= drawn[g] /\ codes[g].used /\ row.state = "live" /\ ~row.revoked
  BY <1>1, <1>2, <1>3, AnsweredIs DEF ReadRefresh, Usable
<1>6. CASE pair = row.pair /\ OGoes(c, [pc |-> "save", grant |-> g, by |-> pair, row |-> [row EXCEPT !.used = @ \cup {pair}]])
  <2>1. row.used \cup {pair} \in SUBSET Nat BY DEF GrantRow
  <2>2. PICK new \in GrantRow : new = [row EXCEPT !.used = @ \cup {pair}] BY <2>1 DEF GrantRow
  <2>3. /\ new.rev = row.rev /\ new.state = row.state /\ new.subject = row.subject /\ new.revoked = row.revoked
        /\ new.pair = row.pair /\ row.rev <= row.rev
    BY <2>2 DEF GrantRow
  <2>4. ReadRow(new, row) BY <1>5, <2>3 DEF ReadRow
  <2>5. PICK x \in OAuthCall : x = [pc |-> "save", grant |-> g, by |-> pair, row |-> new] BY DEF OAuthCall, SaveCall
  <2>6. x.pc = "save" /\ x.grant = g /\ x.by = pair /\ x.row = new BY <2>5
  <2>7. OAuthCallOk(x, request, codes, grants, drawn, admitted) BY <1>3, <1>5, <1>6, <2>4, <2>6 DEF OAuthCallOk
  <2>8. oauthCalls' = [oauthCalls EXCEPT ![c] = x] BY <1>6, <2>2, <2>5 DEF OGoes
  <2>. QED BY <1>4, <2>6, <2>7, <2>8, ConfirmedStays, OAuthQuiet
<1>7. CASE OGoes(c, [pc |-> "revoke", grant |-> g, rev |-> row.rev, op |-> "refresh", pair |-> pair])
  <2>1. PICK rev \in Nat : rev = row.rev BY DEF GrantRow
  <2>2. PICK x \in OAuthCall : x = [pc |-> "revoke", grant |-> g, rev |-> rev, op |-> "refresh", pair |-> pair]
    BY DEF OAuthCall, RevokeCall
  <2>3. x.pc = "revoke" /\ x.grant = g /\ x.op = "refresh" /\ x.pair = pair BY <2>2
  <2>4. OAuthCallOk(x, request, codes, grants, drawn, admitted) BY <1>3, <1>5, <2>3 DEF OAuthCallOk
  <2>5. oauthCalls' = [oauthCalls EXCEPT ![c] = x] BY <1>7, <2>1, <2>2 DEF OGoes
  <2>. QED BY <1>4, <2>3, <2>4, <2>5, ConfirmedStays, OAuthQuiet
<1>. QED BY <1>2, <1>3, <1>6, <1>7 DEF ReadRefresh

LEMMA ConfirmedIs ==
  ASSUME OAuthInv, NEW g \in GrantIds, NEW pair \in Nat, pair <= drawn[g], grants[g].state # "absent", Inactive(g, pair)
  PROVE  RevokedOk(<<g, pair>>, grants, drawn)
<1>1. PICK r : r = <<g, pair>> OBVIOUS
<1>2. r[1] = g /\ r[2] = pair /\ pair # AllPairs BY <1>1 DEF AllPairs
<1>. QED BY <1>1, <1>2 DEF RevokedOk, Inactive, Usable

LEMMA ReadTokenKeeps == ASSUME OAuthInv, NEW c \in OAuthCalls, NEW g \in GrantIds, NEW n, ReadToken(c, g, n) PROVE OAuthInv'
<1>. USE RecordTypes
<1>1. PICK p \in answered : p[1] = g /\ p[3] = n BY DEF ReadToken
<1>2. PICK pair \in Nat : pair = n BY <1>1, AnsweredIs
<1>3. pair <= drawn[g] /\ grants[g].state # "absent" BY <1>1, <1>2, AnsweredIs
<1>4. UNCHANGED <<request, codes, grants, drawn, admitted, answered>> BY DEF ReadToken
<1>5. CASE Inactive(g, pair)
  <2>1. confirmed' = confirmed \cup {<<g, pair>>} /\ oauthCalls' = oauthCalls BY <1>2, <1>5 DEF ReadToken
  <2>2. \A r \in confirmed' : RevokedOk(r, grants, drawn) BY <1>3, <1>5, <2>1, ConfirmedIs DEF RecordsOk
  <2>3. confirmed' \subseteq GrantIds \X (Nat \cup {AllPairs}) BY <2>1
  <2>4. oauthCalls[c] = NoOAuthCall BY OAuthCallIs DEF ReadToken, OAt, OAuthInv, OAuthTypes
  <2>5. oauthCalls' = [oauthCalls EXCEPT ![c] = NoOAuthCall] BY <2>1, <2>4 DEF OAuthInv, OAuthTypes
  <2>6. NoOAuthCall.pc # "grant" BY NoOAuthCallIs
  <2>. QED BY <1>4, <2>2, <2>3, <2>5, <2>6, NoOAuthCallIs, OAuthQuiet
<1>6. CASE ~Inactive(g, pair)
  <2>1. PICK rev \in Nat : rev = grants[g].rev BY DEF GrantRow
  <2>2. PICK x \in OAuthCall : x = [pc |-> "revoke", grant |-> g, rev |-> rev, op |-> "token", pair |-> pair]
    BY DEF OAuthCall, RevokeCall
  <2>3. x.pc = "revoke" /\ x.grant = g /\ x.op = "token" /\ x.pair = pair BY <2>2
  <2>4. OAuthCallOk(x, request, codes, grants, drawn, admitted) BY <1>3, <2>3 DEF OAuthCallOk
  <2>5. oauthCalls' = [oauthCalls EXCEPT ![c] = x] BY <1>2, <1>6, <2>1, <2>2 DEF ReadToken, OGoes
  <2>6. confirmed' = confirmed BY <1>2, <1>6 DEF ReadToken
  <2>. QED BY <1>4, <2>3, <2>4, <2>5, <2>6, ConfirmedStays, OAuthQuiet
<1>. QED BY <1>5, <1>6

LEMMA LookAgainKeeps == ASSUME OAuthInv, NEW c \in OAuthCalls, LookAgain(c) PROVE OAuthInv'
<1>. USE RecordTypes
<1>1. PICK y \in OAuthCall : y = oauthCalls[c] /\ y.pc = "again" BY DEF LookAgain, OAt, OAuthInv, OAuthTypes
<1>2. PICK g \in GrantIds : g = y.grant BY <1>1, OAuthCallIs DEF RevokeCall
<1>3. OAuthCallOk(y, request, codes, grants, drawn, admitted) BY <1>1 DEF OAuthInv
<1>4. PICK pair \in Nat : pair = y.pair /\ pair <= drawn[g] /\ grants[g].state # "absent" BY <1>1, <1>2, <1>3 DEF OAuthCallOk
<1>5. confirmed' = confirmed \cup (IF Inactive(g, pair) THEN {<<g, pair>>} ELSE {}) BY <1>1, <1>2, <1>4 DEF LookAgain
<1>6. \A r \in confirmed' : RevokedOk(r, grants, drawn) BY <1>4, <1>5, ConfirmedIs DEF RecordsOk
<1>7. confirmed' \subseteq GrantIds \X (Nat \cup {AllPairs}) BY <1>5
<1>8. oauthCalls' = [oauthCalls EXCEPT ![c] = NoOAuthCall] /\ NoOAuthCall.pc # "grant" BY NoOAuthCallIs DEF LookAgain, OEnds, OGoes
<1>9. UNCHANGED <<request, codes, grants, drawn, admitted, answered>> BY DEF LookAgain
<1>. QED BY <1>6, <1>7, <1>8, <1>9, NoOAuthCallIs, OAuthQuiet

LEMMA RevokeGrantKeeps == ASSUME OAuthInv, NEW c \in OAuthCalls, RevokeGrant(c) PROVE OAuthInv'
<1>. USE RecordTypes
<1>1. PICK y \in OAuthCall : y = oauthCalls[c] /\ y.pc = "revoke" BY DEF RevokeGrant, OAt, OAuthInv, OAuthTypes
<1>2. y \in RevokeCall BY <1>1, OAuthCallIs
<1>3. PICK g \in GrantIds : g = y.grant BY <1>2 DEF RevokeCall
<1>4. PICK pair \in Nat \cup {AllPairs} : pair = y.pair BY <1>2 DEF RevokeCall
<1>5. OAuthCallOk(y, request, codes, grants, drawn, admitted) BY <1>1 DEF OAuthInv
<1>6. PICK old \in GrantRow : old = grants[g] OBVIOUS
<1>7. UNCHANGED <<request, codes, drawn, admitted, answered>> BY DEF RevokeGrant
<1>8. PICK unsure \in OAuthCall : /\ unsure = IF y.op = "token" THEN [y EXCEPT !.pc = "again"] ELSE NoOAuthCall
                                  /\ unsure.pc # "grant"
                                  /\ unsure.pc = "again" => /\ y.op = "token" /\ unsure.grant = g /\ unsure.op = "token"
                                                            /\ unsure.pair = pair
                                  /\ unsure.pc \in {"idle", "again"}
  <2>1. CASE y.op = "token"
    <3>1. PICK x \in RevokeCall : x = [y EXCEPT !.pc = "again"] BY <1>2 DEF RevokeCall
    <3>2. x.pc = "again" /\ x.grant = g /\ x.op = "token" /\ x.pair = pair BY <1>2, <1>3, <1>4, <2>1, <3>1 DEF RevokeCall
    <3>. QED BY <2>1, <3>1, <3>2 DEF OAuthCall
  <2>2. CASE y.op # "token" BY <2>2, NoOAuthCallIs
  <2>. QED BY <2>1, <2>2
<1>9. old.state # "absent" /\ (y.op = "token" => pair \in Nat) /\ (pair \in Nat => pair <= drawn[g])
  BY <1>1, <1>3, <1>4, <1>5, <1>6 DEF OAuthCallOk
<1>10. ASSUME NEW gr, gr[g].state # "absent" PROVE OAuthCallOk(unsure, request, codes, gr, drawn, admitted)
  BY <1>8, <1>9, <1>10 DEF OAuthCallOk
<1>11. CASE OGoes(c, unsure) /\ UNCHANGED <<grants, confirmed>>
  <2>1. OAuthCallOk(unsure, request, codes, grants, drawn, admitted) BY <1>6, <1>9, <1>10
  <2>2. oauthCalls' = [oauthCalls EXCEPT ![c] = unsure] BY <1>11 DEF OGoes
  <2>. QED BY <1>7, <1>8, <1>11, <2>1, <2>2, ConfirmedStays, OAuthQuiet
<1>12. ASSUME grants' = [grants EXCEPT ![g].rev = @ + 1, ![g].revoked = TRUE],
              confirmed' \subseteq confirmed \cup {<<g, pair>>},
              NEW x \in OAuthCall, oauthCalls' = [oauthCalls EXCEPT ![c] = x], x \in {unsure, NoOAuthCall}
       PROVE  OAuthInv'
  <2>1. PICK rev \in Nat : rev = old.rev + 1 /\ old.rev <= rev /\ old.rev # rev BY DEF GrantRow
  <2>2. PICK new \in GrantRow : new = [old EXCEPT !.rev = rev, !.revoked = TRUE] BY DEF GrantRow
  <2>3. new.rev = rev /\ new.revoked /\ new.state = old.state /\ new.subject = old.subject /\ new.pair = old.pair
    BY <2>2 DEF GrantRow
  <2>4. GrantFollows(grants[g], new) BY <1>6, <2>1, <2>3 DEF GrantFollows
  <2>5. grants' = [grants EXCEPT ![g] = new]
    <3>1. grants' = [grants EXCEPT ![g] = [old EXCEPT !.rev = old.rev + 1, !.revoked = TRUE]] BY <1>6, <1>12
    <3>. QED BY <2>1, <2>2, <3>1
  <2>6. PICK n \in Nat : n = drawn[g] OBVIOUS
  <2>7. PICK dr : dr = [drawn EXCEPT ![g] = n] OBVIOUS
  <2>19. dr = drawn BY <2>6, <2>7
  <2>20. drawn' = [drawn EXCEPT ![g] = n] BY <1>7, <2>7, <2>19
  <2>8. PICK gr : gr = [grants EXCEPT ![g] = new] OBVIOUS
  <2>9. \A h \in GrantIds : gr[h] = IF h = g THEN new ELSE grants[h] BY <2>8
  <2>10. new.pair = n /\ drawn[g] <= n /\ new.state # "absent" /\ grants[g].state # "absent" BY <1>6, <1>9, <2>3, <2>6 DEF RecordsOk
  <2>11. new.subject \in admitted /\ (codes[g].used \/ n = 0) BY <1>6, <1>9, <2>3, <2>6 DEF RecordsOk
  <2>12. ASSUME NEW r \in confirmed' PROVE RevokedOk(r, gr, dr)
    <3>1. CASE r \in confirmed
      <4>1. r[1] \in GrantIds /\ RevokedOk(r, grants, drawn) BY <3>1 DEF RecordsOk
      <4>. QED BY <2>3, <2>9, <2>10, <2>19, <4>1 DEF RevokedOk
    <3>2. CASE r = <<g, pair>>
      <4>1. r[1] = g /\ r[2] = pair BY <3>2
      <4>2. pair # AllPairs => pair <= drawn[g] BY <1>9
      <4>. QED BY <2>3, <2>9, <2>10, <2>19, <4>1, <4>2 DEF RevokedOk
    <3>. QED BY <1>12, <3>1, <3>2
  <2>13. /\ \A p \in answered' : p[2] < p[3] /\ p[3] <= dr[p[1]]
         /\ \A p, q \in answered' : p[1] = q[1] /\ p[2] = q[2] => p = q
         /\ answered' \subseteq GrantIds \X Nat \X Nat /\ confirmed' \subseteq GrantIds \X (Nat \cup {AllPairs})
    BY <1>7, <1>12, <2>19 DEF RecordsOk
  <2>14. gr[g].state # "absent" BY <2>9, <2>10
  <2>15. OAuthCallOk(x, request, codes, gr, dr, admitted) /\ x.pc # "grant"
    <3>1. OAuthCallOk(unsure, request, codes, gr, drawn, admitted) /\ unsure.pc # "grant" BY <1>8, <1>10, <2>14
    <3>2. OAuthCallOk(NoOAuthCall, request, codes, gr, drawn, admitted) /\ NoOAuthCall.pc # "grant" BY NoOAuthCallIs
    <3>. QED BY <1>12, <2>19, <3>1, <3>2
  <2>16. UNCHANGED <<request, codes, admitted>> BY <1>7
  <2>17. \A r \in confirmed' : RevokedOk(r, gr, dr) BY <2>12
  <2>18. oauthCalls' = [oauthCalls EXCEPT ![c] = x] BY <1>12
  <2>. QED BY <2>4, <2>5, <2>7, <2>8, <2>20, <2>10, <2>11, <2>13, <2>15, <2>16, <2>17, <2>18, GrantMoves
<1>13. ASSUME OEnds(c) PROVE oauthCalls' = [oauthCalls EXCEPT ![c] = NoOAuthCall] BY <1>13 DEF OEnds, OGoes
<1>14. ASSUME OGoes(c, unsure) PROVE oauthCalls' = [oauthCalls EXCEPT ![c] = unsure] BY <1>14 DEF OGoes
<1>15. \/ OGoes(c, unsure) /\ UNCHANGED <<grants, confirmed>>
       \/ /\ grants' = [grants EXCEPT ![g].rev = @ + 1, ![g].revoked = TRUE]
          /\ \/ OEnds(c) /\ confirmed' = confirmed \cup (IF y.op = "refresh" THEN {} ELSE {<<g, pair>>})
             \/ OGoes(c, unsure) /\ UNCHANGED confirmed
  BY <1>1, <1>3, <1>4, <1>8 DEF RevokeGrant
<1>. QED BY <1>8, <1>11, <1>12, <1>13, <1>14, <1>15, NoOAuthCallIs

LEMMA ExpireKeeps == ASSUME OAuthInv, Expire PROVE OAuthInv'
<1>. USE RecordTypes
<1>1. UNCHANGED <<oauthCalls, drawn, admitted, answered, confirmed>> BY DEF Expire
<1>2. ASSUME NEW rq \in RequestRow, NEW cd \in [GrantIds -> CodeRow], NEW gr \in [GrantIds -> GrantRow],
             request' = rq, codes' = cd, grants' = gr, RequestFollows(request, rq), rq.subject = request.subject,
             rq.used => request.used,
             \A h \in GrantIds : /\ CodeFollows(codes[h], cd[h]) /\ GrantFollows(grants[h], gr[h])
                                 /\ gr[h] = grants[h] \/ /\ grants[h].state # "absent" /\ gr[h].subject = grants[h].subject
                                                         /\ gr[h].pair = grants[h].pair /\ gr[h].state = "expired"
                                                         /\ grants[h].revoked => gr[h].revoked
      PROVE  OAuthInv'
  <2>1. \A h \in GrantIds : gr[h].state = "absent" <=> grants[h].state = "absent" BY <1>2 DEF GrantFollows
  <2>2. \A h \in GrantIds : ~cd[h].used => ~codes[h].used BY <1>2 DEF CodeFollows
  <2>3. \A h \in GrantIds : drawn[h] <= drawn[h] OBVIOUS
  <2>4. \A c \in OAuthCalls : OAuthCallOk(oauthCalls[c], rq, cd, gr, drawn, admitted) BY <1>2, <2>3, OAuthCallStays
  <2>5. RecordsOk(rq, cd, gr, drawn, admitted, answered, confirmed)
    <3>1. admitted \subseteq {rq.subject} \ {Nobody} BY <1>2 DEF RecordsOk
    <3>2. \A h \in GrantIds : /\ ~rq.used => gr[h].state = "absent"
                              /\ gr[h].state # "absent" => gr[h].subject \in admitted
                              /\ gr[h].state = "absent" => gr[h] = NoGrant
                              /\ gr[h].pair = drawn[h]
                              /\ ~cd[h].used => drawn[h] = 0
      <4>. TAKE h \in GrantIds
      <4>1. ~rq.used => gr[h].state = "absent" BY <1>2, <2>1 DEF RecordsOk, RequestFollows
      <4>2. ~cd[h].used => drawn[h] = 0 BY <2>2 DEF RecordsOk
      <4>3. gr[h].state # "absent" => gr[h].subject \in admitted BY <1>2, <2>1 DEF RecordsOk
      <4>4. gr[h].state = "absent" => gr[h] = NoGrant BY <1>2, <2>1 DEF RecordsOk
      <4>5. gr[h].pair = drawn[h] BY <1>2 DEF RecordsOk
      <4>. QED BY <4>1, <4>2, <4>3, <4>4, <4>5
    <3>3. \A h, i \in GrantIds : gr[h].state # "absent" /\ gr[i].state # "absent" => h = i BY <2>1 DEF RecordsOk
    <3>4. ASSUME NEW r \in confirmed PROVE RevokedOk(r, gr, drawn)
      <4>1. r[1] \in GrantIds /\ RevokedOk(r, grants, drawn) BY DEF RecordsOk
      <4>. QED BY <1>2, <2>1, <4>1 DEF RevokedOk
    <3>. QED BY <3>1, <3>2, <3>3, <3>4 DEF RecordsOk
  <2>6. OAuthTypes' BY <1>1, <1>2 DEF OAuthInv, OAuthTypes
  <2>7. GrantsOnce' BY <1>1, <1>2, <2>1 DEF GrantsOnce, OAt, OAuthInv
  <2>. QED BY <1>1, <1>2, <2>4, <2>5, <2>6, <2>7 DEF OAuthInv
<1>3. CASE ~request.used /\ request' = [request EXCEPT !.state = "expired"] /\ UNCHANGED <<codes, grants>>
  <2>1. PICK r \in RequestRow : r = request OBVIOUS
  <2>2. PICK rq \in RequestRow : rq = [r EXCEPT !.state = "expired"] BY DEF RequestRow
  <2>3. rq.rev = r.rev /\ rq.subject = r.subject /\ rq.used = r.used /\ r.rev <= r.rev BY <2>2 DEF RequestRow
  <2>4. RequestFollows(r, rq) BY <2>3 DEF RequestFollows
  <2>5. request' = rq /\ codes' = codes /\ grants' = grants BY <1>3, <2>1, <2>2
  <2>. QED BY <1>2, <2>1, <2>3, <2>4, <2>5
<1>4. ASSUME NEW g \in GrantIds, codes' = [codes EXCEPT ![g].state = "expired"], UNCHANGED <<request, grants>> PROVE OAuthInv'
  <2>1. PICK old \in CodeRow : old = codes[g] OBVIOUS
  <2>2. PICK code \in CodeRow : code = [old EXCEPT !.state = "expired"] BY DEF CodeRow
  <2>3. code.rev = old.rev /\ code.used = old.used /\ old.rev <= old.rev BY <2>2 DEF CodeRow
  <2>4. CodeFollows(old, code) BY <2>3 DEF CodeFollows
  <2>5. PICK cd \in [GrantIds -> CodeRow] : cd = [codes EXCEPT ![g] = code] OBVIOUS
  <2>6. codes' = cd /\ request' = request /\ grants' = grants BY <1>4, <2>1, <2>2, <2>5
  <2>7. \A h \in GrantIds : CodeFollows(codes[h], cd[h]) BY <2>1, <2>4, <2>5
  <2>. QED BY <1>2, <2>6, <2>7
<1>5. ASSUME NEW g \in GrantIds, Usable(g), grants' = [grants EXCEPT ![g].state = "expired"], UNCHANGED <<request, codes>> PROVE OAuthInv'
  <2>1. PICK old \in GrantRow : old = grants[g] OBVIOUS
  <2>2. PICK row \in GrantRow : row = [old EXCEPT !.state = "expired"] BY DEF GrantRow
  <2>3. /\ row.rev = old.rev /\ row.subject = old.subject /\ row.pair = old.pair /\ row.revoked = old.revoked
        /\ row.state = "expired" /\ old.rev <= old.rev
    BY <2>2 DEF GrantRow
  <2>4. old.state = "live" BY <1>5, <2>1 DEF Usable
  <2>5. GrantFollows(old, row) BY <2>3 DEF GrantFollows
  <2>6. PICK gr \in [GrantIds -> GrantRow] : gr = [grants EXCEPT ![g] = row] OBVIOUS
  <2>7. grants' = gr /\ request' = request /\ codes' = codes BY <1>5, <2>1, <2>2, <2>6
  <2>8. \A h \in GrantIds : /\ GrantFollows(grants[h], gr[h])
                            /\ gr[h] = grants[h] \/ /\ grants[h].state # "absent" /\ gr[h].subject = grants[h].subject
                                                    /\ gr[h].pair = grants[h].pair /\ gr[h].state = "expired"
                                                    /\ grants[h].revoked => gr[h].revoked
    BY <2>1, <2>3, <2>4, <2>5, <2>6
  <2>. QED BY <1>2, <2>7, <2>8
<1>. QED BY <1>3, <1>4, <1>5 DEF Expire

LEMMA OAuthStepKeeps == ASSUME OAuthInv, [OAuthNext]_oauthVars PROVE OAuthInv'
<1>1. CASE UNCHANGED oauthVars BY <1>1 DEF oauthVars, OAuthInv, OAuthTypes, GrantsOnce, OAt
<1>2. ASSUME NEW c \in OAuthCalls, OAuthStep(c) PROVE OAuthInv'
  BY <1>2, ReadsKeep, BindKeeps, UseRequestKeeps, InsertGrantKeeps, InsertCodeKeeps, UseCodeKeeps, SaveKeeps,
     ReadRefreshKeeps, ReadTokenKeeps, RevokeGrantKeeps, LookAgainKeeps
  DEF OAuthStep
<1>. QED BY <1>1, <1>2, ExpireKeeps DEF OAuthNext

LEMMA OAuthIsSound == OAuthInv => GrantsAreSound
<1>. SUFFICES ASSUME OAuthInv PROVE GrantsAreSound OBVIOUS
<1>. USE RecordTypes
<1>1. RevocationHolds
  <2>1. ASSUME NEW r \in confirmed PROVE IF r[2] = AllPairs THEN grants[r[1]].revoked ELSE Inactive(r[1], r[2])
    <3>1. RevokedOk(r, grants, drawn) BY DEF RecordsOk
    <3>. QED BY <3>1 DEF RevokedOk, Inactive, Usable
  <2>. QED BY <2>1 DEF RevocationHolds
<1>2. TokensDescendOnce BY DEF TokensDescendOnce, RecordsOk
<1>3. ConsentIsOnes
  <2>1. PICK given : given = {g \in GrantIds : grants[g] # NoGrant} OBVIOUS
  <2>2. \A g, h \in given : g = h BY <2>1, NoGrantIs DEF RecordsOk
  <2>3. \A g \in given : grants[g].subject \in admitted BY <2>1, NoGrantIs DEF RecordsOk
  <2>4. \A a, b \in admitted : a = b BY DEF RecordsOk
  <2>5. ASSUME NEW S, \A a, b \in S : a = b PROVE Cardinality(S) <= 1
    <3>1. CASE S = {} BY <3>1, FS_EmptySet
    <3>2. CASE S # {}
      <4>1. PICK a : a \in S BY <3>2
      <4>2. S = {a} BY <2>5, <4>1
      <4>3. Cardinality({a}) = 1 BY FS_Singleton
      <4>. QED BY <4>2, <4>3
    <3>. QED BY <3>1, <3>2
  <2>. QED BY <2>1, <2>2, <2>3, <2>4, <2>5 DEF ConsentIsOnes
<1>. QED BY <1>1, <1>2, <1>3 DEF GrantsAreSound

(* A revocation that was confirmed holds, codes and refresh tokens are     *)
(* exchanged once, and a request leads to one grant, of the user who was   *)
(* let in (GrantsAreSound: RevocationHolds, TokensDescendOnce,             *)
(* ConsentIsOnes).                                                         *)
THEOREM GrantsStaySound == OAuthSpec => []GrantsAreSound
<1>1. OAuthInit => OAuthInv BY OAuthStarts
<1>2. OAuthInv /\ [OAuthNext]_oauthVars => OAuthInv' BY OAuthStepKeeps
<1>3. OAuthInv => GrantsAreSound BY OAuthIsSound
<1>. QED BY <1>1, <1>2, <1>3, PTL DEF OAuthSpec

-----------------------------------------------------------------------------
(***************************************************************************)
(* The components together                                                 *)
(***************************************************************************)
(* A step of AccessSpec is one of each component, or leaves it alone.      *)
LEMMA EachMoves ==
  ASSUME [AccessNext]_accessVars
  PROVE  /\ [SessionsNext]_authVars /\ [OAuthNext]_oauthVars /\ [KeysNext]_keyVars
         /\ [FilesNext]_fileVars /\ [LocalNext]_localVars
BY DEF AccessNext, Only, accessVars

(* A ready file has its object and under a deleted one there is none but   *)
(* of a PUT that was under way, and what is published to the local object  *)
(* store is read whole until it is deleted (StorageIsSound).               *)
THEOREM StorageStaysSound == AccessSpec => []StorageIsSound
<1>. DEFINE Inv == FileInv /\ StoreInv
<1>1. AccessInit => Inv BY FilesStart, StoreStarts DEF AccessInit
<1>2. Inv /\ [AccessNext]_accessVars => Inv' BY EachMoves, FileStepKeeps, StoreStepKeeps
<1>3. Inv => StorageIsSound BY LocalIsSound DEF StorageIsSound, FileInv, RowIsTrue, FileKeepsItsObject, Gone
<1>. QED BY <1>1, <1>2, <1>3, PTL DEF AccessSpec

(* Sessions, grants, tokens and keys end for good and are handed out once  *)
(* (CredentialsEndForGood), for any number of concurrent calls, users,     *)
(* grants and credentials.                                                 *)
THEOREM CredentialsEnd == AccessSpec => CredentialsEndForGood
<1>. DEFINE Inv == SessionInv /\ OAuthInv /\ KeyInv
<1>1. AccessInit => Inv BY SessionsStart, OAuthStarts, KeysStart DEF AccessInit
<1>2. Inv /\ [AccessNext]_accessVars => Inv' BY EachMoves, SessionStepKeeps, OAuthStepKeeps, KeyStepKeeps
<1>3. Inv => GrantsAreSound /\ KeysAreSound BY OAuthIsSound, KeyInvIsSound
<1>4. Inv /\ [AccessNext]_accessVars => [EndIsKept]_authVars BY EachMoves, SessionStepEnds
<1>5. AccessSpec => []GrantsAreSound /\ []KeysAreSound BY <1>1, <1>2, <1>3, PTL DEF AccessSpec
<1>6. AccessSpec => [][EndIsKept]_authVars BY <1>1, <1>2, <1>4, PTL DEF AccessSpec
<1>7. AccessSpec => SessionEndsForGood BY <1>6 DEF SessionEndsForGood, EndIsKept
<1>. QED BY <1>5, <1>7, PTL DEF CredentialsEndForGood
=============================================================================
