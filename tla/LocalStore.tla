------------------------------ MODULE LocalStore ------------------------------
(***************************************************************************)
(* The local object store (packages/storage/src/local.ts): put, get and    *)
(* delete of one key by concurrent calls of a process that may die.        *)
(*                                                                         *)
(* An object is a directory that holds a payload and its metadata.  put    *)
(* fills a temporary directory and renames it to the key's path; delete    *)
(* renames the object to the key's tomb and removes that, entry by entry.  *)
(* A directory is named by the put that made it, so it is also the version *)
(* of what lies in it.  One action is one call of the file system; `pc' is *)
(* the await at which a call stands, and any call may fail or be aborted.  *)
(*                                                                         *)
(* A reader recognizes its directory by the inode number.  The file system *)
(* may give the number of a directory that is removed to a new one.        *)
(*                                                                         *)
(* Abstracted: hashing, sizes (different versions may have the same size), *)
(* symbolic links and permissions, ranges, head (which is get without the  *)
(* body) and list.                                                         *)
(*                                                                         *)
(* The definition introduced by `Slip:' is not part of the model: it is a  *)
(* plausible mistake in the one that follows it, and a mutation run checks *)
(* that a property notices it.                                             *)
(***************************************************************************)
EXTENDS Integers

CONSTANTS LocalCalls,      \* slots of put, get and delete calls
          Dirs             \* directories that put may make

VARIABLES entries,      \* entries[d]: the files in d
          place,        \* place[d]: the path that leads to d
          inode,        \* inode[d]: its number, once it was made
          locals,       \* locals[c]: the call in slot c
          published,    \* history: what put acknowledged
          taken         \* history: what delete moved to the tomb
localVars == <<entries, place, inode, locals, published, taken>>

Parts == {"payload", "metadata"}
NoDir == 0
NoLocal == [pc |-> "idle", op |-> "none", dir |-> NoDir, id |-> NoDir, meta |-> NoDir, owed |-> {}, moved |-> FALSE]

LocalInit == /\ entries = [d \in Dirs |-> {}] /\ place = [d \in Dirs |-> "unmade"] /\ inode = [d \in Dirs |-> d]
             /\ locals = [c \in LocalCalls |-> NoLocal]
             /\ published = {} /\ taken = {}

Found(path) == {d \in Dirs : place[d] = path}
LAt(c, pc) == locals[c].pc = pc
Steps(c, pc) == locals' = [locals EXCEPT ![c].pc = pc]
LocalEnds(c) == locals' = [locals EXCEPT ![c] = NoLocal]

Keeps(c) == UNCHANGED <<entries, place, inode, published, taken>>

-----------------------------------------------------------------------------
(***************************************************************************)
(* put                                                                     *)
(***************************************************************************)
(* The numbers for a new directory: its own, or one that is free again.    *)
InUse == {inode[d] : d \in {e \in Dirs : place[e] \notin {"unmade", "removed"}}}
Numbers(d) == ({d} \cup {inode[e] : e \in Found("removed")}) \ InUse

BeginPut(c) ==
  /\ LAt(c, "idle")
  /\ \E d \in Found("unmade") :
       /\ \A e \in Found("unmade") : d <= e
       /\ place' = [place EXCEPT ![d] = "temp"]
       /\ \E n \in Numbers(d) : inode' = [inode EXCEPT ![d] = n]
       /\ locals' = [locals EXCEPT ![c] = [NoLocal EXCEPT !.pc = "payload", !.op = "put", !.dir = d]]
  /\ UNCHANGED <<entries, published, taken>>

(* The payload is written and synced, then the metadata.                   *)
WritePart(c, part, pc) ==
  /\ LAt(c, part)
  /\ entries' = [entries EXCEPT ![locals[c].dir] = @ \cup {part}]
  /\ Steps(c, pc) /\ UNCHANGED <<place, inode, published, taken>>

LookUpObject(c) ==
  /\ LAt(c, "lookup")
  /\ Steps(c, IF Found("object") = {} THEN "publish" ELSE "clean")
  /\ Keeps(c)

(* rename() does not replace a directory that is not empty.                *)
Publish(c) ==
  /\ LAt(c, "publish")
  /\ IF Found("object") = {}
     THEN /\ place' = [place EXCEPT ![locals[c].dir] = "object"]
          /\ published' = published \cup {locals[c].dir}
          /\ LocalEnds(c)
     ELSE Steps(c, "clean") /\ UNCHANGED <<place, published>>
  /\ UNCHANGED <<entries, inode, taken>>

PutFails(c) == /\ locals[c].op = "put" /\ locals[c].pc # "clean"
               /\ Steps(c, "clean") /\ Keeps(c)

(* The temporary directory is removed, unless that fails too.              *)
CleanUp(c) ==
  /\ LAt(c, "clean")
  /\ \/ /\ place' = [place EXCEPT ![locals[c].dir] = "removed"]
        /\ entries' = [entries EXCEPT ![locals[c].dir] = {}]
     \/ UNCHANGED <<entries, place>>
  /\ LocalEnds(c) /\ UNCHANGED <<inode, published, taken>>

-----------------------------------------------------------------------------
(***************************************************************************)
(* load(): every look at the path may find another directory there, or     *)
(* none, which ends the call except at the first look.                     *)
(***************************************************************************)
BeginGet(c) == /\ LAt(c, "idle")
               /\ locals' = [locals EXCEPT ![c] = [NoLocal EXCEPT !.pc = "directory", !.op = "get"]]
               /\ Keeps(c)

LookAtDirectory(c) ==
  /\ LAt(c, "directory")
  /\ CASE Found("object") # {} -> Steps(c, "identify")
       [] Found("object") = {} /\ locals[c].op = "get" -> LocalEnds(c)
       [] Found("object") = {} /\ locals[c].op = "delete" -> Steps(c, "answer")
  /\ Keeps(c)

Identify(c) ==
  /\ LAt(c, "identify")
  /\ \E d \in Found("object") : locals' = [locals EXCEPT ![c].pc = "read", ![c].id = d]
  /\ Keeps(c)

ReadDirectory(c) ==
  /\ LAt(c, "read")
  /\ \E d \in Found("object") : entries[d] = Parts
  /\ Steps(c, "open") /\ Keeps(c)

OpenMetadata(c) ==
  /\ LAt(c, "open")
  /\ \E d \in Found("object") : /\ "metadata" \in entries[d]
                                /\ locals' = [locals EXCEPT ![c].pc = "load", ![c].meta = d]
  /\ Keeps(c)

OpenPayload(c) ==
  /\ LAt(c, "load")
  /\ \E d \in Found("object") : /\ "payload" \in entries[d]
                                /\ locals' = [locals EXCEPT ![c].pc = "confirm", ![c].dir = d]
  /\ Keeps(c)

(* Slip: what is at the path is what was there.                            *)
SameAtPath(id, d) == TRUE

Same(id, d) == inode[id] = inode[d]

Confirm(c) ==
  /\ LAt(c, "confirm")
  /\ \E d \in Found("object") : Same(locals[c].id, d)
  /\ Steps(c, IF locals[c].op = "get" THEN "loaded" ELSE "move")
  /\ Keeps(c)

(* The stream ends; it holds the payload whatever happens to the path.     *)
Streamed(c) == LAt(c, "loaded") /\ LocalEnds(c) /\ Keeps(c)

-----------------------------------------------------------------------------
(***************************************************************************)
(* delete: what an earlier one left in the tomb, load, rename, the tomb    *)
(* again.                                                                  *)
(***************************************************************************)
BeginDelete(c) ==
  /\ LAt(c, "idle")
  /\ locals' = [locals EXCEPT ![c] = [NoLocal EXCEPT !.pc = "tomb", !.op = "delete", !.owed = Found("tomb")]]
  /\ Keeps(c)

AfterTomb(c) == IF locals[c].moved THEN "answer" ELSE "directory"

LookAtTomb(c) ==
  /\ LAt(c, "tomb")
  /\ Steps(c, IF Found("tomb") = {} THEN AfterTomb(c) ELSE "scan")
  /\ Keeps(c)

ScanTomb(c) == LAt(c, "scan") /\ Found("tomb") # {} /\ Steps(c, "remove") /\ Keeps(c)

(* rm(): one entry after the other, then the directory.                    *)
RemoveTomb(c) ==
  /\ LAt(c, "remove")
  /\ \/ \E d \in Found("tomb") :
          \/ /\ \E e \in entries[d] : entries' = [entries EXCEPT ![d] = @ \ {e}]
             /\ UNCHANGED <<place, locals>>
          \/ /\ entries[d] = {}
             /\ place' = [place EXCEPT ![d] = "removed"]
             /\ Steps(c, AfterTomb(c)) /\ UNCHANGED entries
     \/ Found("tomb") = {} /\ Steps(c, AfterTomb(c)) /\ UNCHANGED <<entries, place>>
  /\ UNCHANGED <<inode, published, taken>>

(* rename() to the tomb, over an empty one; without an object there may be *)
(* one in the tomb.                                                        *)
Move(c) ==
  /\ LAt(c, "move")
  /\ LET moved == Found("object")
     IN /\ moved # {} => \A t \in Found("tomb") : entries[t] = {}
        /\ place' = [d \in Dirs |-> IF d \in moved THEN "tomb"
                                    ELSE IF place[d] = "tomb" /\ moved # {} THEN "removed" ELSE place[d]]
        /\ taken' = taken \cup moved
        /\ locals' = [locals EXCEPT ![c].pc = "tomb", ![c].moved = TRUE, ![c].owed = @ \cup moved]
  /\ UNCHANGED <<entries, inode, published>>

Answer(c) == LAt(c, "answer") /\ LocalEnds(c) /\ Keeps(c)

-----------------------------------------------------------------------------
(* A call of the file system fails, finds nothing or is aborted.           *)
LocalThrows(c) == /\ locals[c].op \in {"get", "delete"} /\ locals[c].pc \notin {"loaded", "answer"}
                  /\ LocalEnds(c) /\ Keeps(c)

(* The process dies.                                                       *)
LocalCrash == /\ \E c \in LocalCalls : ~LAt(c, "idle")
              /\ locals' = [c \in LocalCalls |-> NoLocal]
              /\ UNCHANGED <<entries, place, inode, published, taken>>

LocalStep(c) ==
  \/ BeginPut(c) \/ WritePart(c, "payload", "metadata") \/ WritePart(c, "metadata", "lookup")
  \/ LookUpObject(c) \/ Publish(c) \/ PutFails(c) \/ CleanUp(c)
  \/ BeginGet(c) \/ LookAtDirectory(c) \/ Identify(c) \/ ReadDirectory(c) \/ OpenMetadata(c) \/ OpenPayload(c)
  \/ Confirm(c) \/ Streamed(c)
  \/ BeginDelete(c) \/ LookAtTomb(c) \/ ScanTomb(c) \/ RemoveTomb(c) \/ Move(c) \/ Answer(c)
  \/ LocalThrows(c)

LocalNext == LocalCrash \/ \E c \in LocalCalls : LocalStep(c)

LocalSpec == LocalInit /\ [][LocalNext]_localVars

-----------------------------------------------------------------------------
(* The directory is gone, and another one was given its number.            *)
Reused(id) == /\ place[id] = "removed"
              /\ \E d \in Dirs \ {id} : place[d] # "unmade" /\ inode[d] = inode[id]

(* A reader gets the payload that its metadata describes, although the     *)
(* object is deleted and put again between its looks at the path, and with *)
(* any number of directories there in between; the one case that escapes   *)
(* it is that the directory it first saw was removed and a later one has   *)
(* its inode number (load).                                                *)
ReadsAreWhole ==
  \A c \in LocalCalls : LAt(c, "loaded") => locals[c].dir = locals[c].meta \/ Reused(locals[c].id)

(* What put acknowledged is there, whole, until a delete takes it; neither *)
(* another put nor a failed one touches it (put's two renames).            *)
PublishedStays == /\ \A d \in published \ taken : place[d] = "object"
                  /\ \A d \in Found("object") : entries[d] = Parts

(* When delete answers, nothing remains of what it moved, nor of what an   *)
(* earlier delete that failed or died had left (removeTomb).               *)
DeletedIsGone == \A c \in LocalCalls : LAt(c, "answer") => \A d \in locals[c].owed : entries[d] = {}

ObjectsAreWhole == ReadsAreWhole /\ PublishedStays /\ DeletedIsGone
=============================================================================
