------------------------------ MODULE Realtime ------------------------------
(***************************************************************************)
(* Realtime subscriptions (packages/realtime, index.ts): one connection of *)
(* one instance with its subscriptions to one resource, the provider's     *)
(* deliveries, and the client that reads the connection as a response.     *)
(*                                                                         *)
(* A cursor is a generation and a sequence number.  Whatever the provider  *)
(* has published may be delivered late, twice, out of order or never.      *)
(* Validity of a grant and of the identity are flags that time may lower.  *)
(* Abstracted: payloads and their sizes, the limits on the numbers of      *)
(* connections, topics and pending operations.                             *)
(*                                                                         *)
(* Definitions introduced by `Slip:' are not part of the model: each is a  *)
(* plausible mistake in the definition that follows it, and the mutation   *)
(* runs check that some property notices it.                               *)
(***************************************************************************)
EXTENDS Integers, Sequences, FiniteSets, FiniteSetsExt

CONSTANTS Handles,            \* ids of subscriptions
          MaxBufferedEvents,
          MaxPublished,       \* bound: publications
          MaxTopicGenerations \* bound: generations of the topic

(* 0 stands for the connection where an event is about no subscription.    *)
ASSUME RealtimeAssumption == 0 \notin Handles

VARIABLES topicLog,    \* topicLog[g]: what the provider published in generation g
          conn,        \* the connection
          handles,     \* handles[u]: a SubState
          frame,       \* the event the response has taken and not yet sent
          shown,       \* shown[u]: the last event about u that was sent
          realtime     \* open, failed or stopped

rtVars == <<topicLog, conn, handles, frame, shown, realtime>>

Event(kind, u, cursor) == [kind |-> kind, sub |-> u, cursor |-> cursor]
NoCursor == [g |-> 0, s |-> 0]
NoEvent == Event("none", 0, NoCursor)
NoHandle == [pc |-> "none", listed |-> FALSE, initializing |-> TRUE, valid |-> FALSE, renewing |-> FALSE,
             cursor |-> NoCursor]
Current == [g |-> Len(topicLog), s |-> Len(topicLog[Len(topicLog)])]   \* provider.current

RealtimeInit == /\ topicLog = <<<< >>>>
                /\ conn = [open |-> TRUE, queue |-> << >>, terminal |-> NoEvent, fresh |-> TRUE]
                /\ handles = [u \in Handles |-> NoHandle]
                /\ frame = NoEvent /\ shown = [u \in Handles |-> NoEvent]
                /\ realtime = "open"

(* In connection.subscriptions: a closed connection has none.              *)
Listed(u) == conn.open /\ handles[u].listed

-----------------------------------------------------------------------------
Shut(c, terminal) == IF c.open THEN [c EXCEPT !.open = FALSE, !.queue = << >>, !.terminal = terminal] ELSE c

(* push(): an expired identity or a full queue closes the connection.      *)
Push(c, e) == CASE ~c.open -> c
                [] c.open /\ ~c.fresh -> Shut(c, Event("closed", 0, NoCursor))
                [] c.open /\ c.fresh /\ Len(c.queue) >= MaxBufferedEvents -> Shut(c, Event("gap", 0, NoCursor))
                [] OTHER -> [c EXCEPT !.queue = Append(@, e)]

(* The events of a queue that are about one of us, in their order.         *)
About(q, us) ==
  LET upTo[n \in 0..Len(q)] == IF n = 0 THEN << >>
                               ELSE IF q[n].sub \in us THEN Append(upTo[n - 1], q[n]) ELSE upTo[n - 1]
  IN upTo[Len(q)]

Purge(c, u) == [c EXCEPT !.queue = About(@, (Handles \cup {0}) \ {u})]

(* removeSub(), what it does to the connection and to the subscriptions.   *)
Removed(c, u) == Push(Purge(c, u), Event("closed", u, NoCursor))
Without(us) == [u \in Handles |-> IF u \in us THEN [handles[u] EXCEPT !.listed = FALSE] ELSE handles[u]]

(* Slip: a sequence number of another generation continues this one.       *)
ReasonOfSequence(previous, next) ==
  CASE next.s < previous.s -> "out-of-order"
    [] next.s > previous.s + 1 -> "sequence"
    [] OTHER -> "none"

(* Why the event does not follow the one before.                           *)
Reason(previous, next) ==
  CASE next.g # previous.g -> "generation"
    [] next.g = previous.g /\ next.s < previous.s -> "out-of-order"
    [] next.g = previous.g /\ next.s > previous.s + 1 -> "sequence"
    [] OTHER -> "none"

(* What a delivery adds for a subscription: a gap, an update, or both.     *)
Heard(c, u, cursor) ==
  LET reason == Reason(handles[u].cursor, cursor)
      told == IF reason = "none" THEN c ELSE Push(c, Event("gap", u, cursor))
  IN IF reason = "out-of-order" THEN told ELSE Push(told, Event("update", u, cursor))

(* One listener after the other: removed if it is gone, or told.           *)
Visited(c, us, gone, cursor) ==
  FoldSet(LAMBDA u, d : IF u \in gone THEN Removed(d, u) ELSE Heard(d, u, cursor), c, us)
Removes(c, us) == Visited(c, us, us, NoCursor)

RemoveSub(u) == /\ conn' = Removed(conn, u)
                /\ handles' = Without({u})
RemoveSubs(us) == /\ conn' = Removes(conn, us)
                  /\ handles' = Without(us)

-----------------------------------------------------------------------------
(***************************************************************************)
(* The provider: external                                                  *)
(***************************************************************************)
Published(kind) == topicLog' = [topicLog EXCEPT ![Len(topicLog)] = Append(@, kind)]
MayPublish == Cardinality(UNION {{g} \X DOMAIN topicLog[g] : g \in DOMAIN topicLog}) < MaxPublished   \* bound

(* Anyone publishes, here or elsewhere; the provider begins anew.          *)
PublishUpdate == /\ MayPublish /\ Published("update")
                 /\ UNCHANGED <<conn, handles, frame, shown, realtime>>
Restarts == /\ Len(topicLog) < MaxTopicGenerations /\ topicLog' = Append(topicLog, << >>)
            /\ UNCHANGED <<conn, handles, frame, shown, realtime>>

(* revokeResource() and deleteResource(): the subscriptions here at once.  *)
RevokeResource == /\ MayPublish /\ Published("revoke")
                  /\ \/ RemoveSubs({u \in Handles : Listed(u)})   \* called here
                     \/ UNCHANGED <<conn, handles>>              \* called elsewhere
                  /\ UNCHANGED <<frame, shown, realtime>>

-----------------------------------------------------------------------------
(***************************************************************************)
(* receive()                                                               *)
(***************************************************************************)
Expired(u) == Listed(u) /\ ~handles[u].initializing /\ ~handles[u].valid
Ignores(u, cursor) == handles[u].initializing \/ handles[u].cursor = cursor

Receive(cursor) ==
  LET kind == topicLog[cursor.g][cursor.s]
      removed == {u \in Handles : Listed(u) /\ (kind = "revoke" \/ Expired(u))}
      told == {u \in Handles : Listed(u) /\ u \notin removed /\ ~Ignores(u, cursor)}
  IN /\ realtime = "open"
     /\ conn' = Visited(conn, removed \cup told, removed, cursor)
     /\ handles' = [u \in Handles |-> IF u \in told /\ Reason(handles[u].cursor, cursor) # "out-of-order"
                                      THEN [handles[u] EXCEPT !.cursor = cursor] ELSE Without(removed)[u]]
     /\ UNCHANGED <<topicLog, frame, shown, realtime>>

-----------------------------------------------------------------------------
(***************************************************************************)
(* subscribe(), renew(), snapshot()                                        *)
(***************************************************************************)
(* live(): what a call meets at its start and after an await; an expired   *)
(* identity closes the connection.                                         *)
LiveSub == realtime = "open" /\ conn.open /\ conn.fresh
NotLive(u) == /\ conn' = (IF realtime = "open" /\ conn.open THEN Shut(conn, Event("closed", 0, NoCursor)) ELSE conn)
              /\ handles' = [handles EXCEPT ![u].listed = FALSE, ![u].pc = "done"]

Subscribe(u) ==
  /\ handles[u].pc = "none" /\ LiveSub
  /\ handles' = [handles EXCEPT ![u].pc = "authorize", ![u].listed = TRUE]
  /\ UNCHANGED <<topicLog, conn, frame, shown, realtime>>

(* The subscription ends without being told of it.                         *)
Gives(u) == conn' = Purge(conn, u) /\ handles' = [Without({u}) EXCEPT ![u].pc = "done"]

Authorized(u) ==
  /\ handles[u].pc = "authorize"
  /\ \/ LiveSub /\ Listed(u) /\ handles' = [handles EXCEPT ![u].pc = "current", ![u].valid = TRUE] /\ UNCHANGED conn
     \/ LiveSub /\ Gives(u)   \* denied, timed out, or removed meanwhile
     \/ ~LiveSub /\ NotLive(u)
  /\ UNCHANGED <<topicLog, frame, shown, realtime>>

(* The provider answers with a cursor that is old by the time it arrives.  *)
CurrentRead(u) ==
  /\ handles[u].pc = "current"
  /\ handles' = [handles EXCEPT ![u].pc = "ready", ![u].cursor = Current]
  /\ UNCHANGED <<topicLog, conn, frame, shown, realtime>>

Ready(u) ==
  /\ handles[u].pc = "ready"
  /\ CASE ~LiveSub -> NotLive(u)
       [] LiveSub /\ (~Listed(u) \/ ~handles[u].valid) -> Gives(u)
       [] OTHER -> /\ handles' = [handles EXCEPT ![u].pc = "done", ![u].initializing = FALSE]
                   /\ LET c == Push(conn, Event("ready", u, handles[u].cursor))
                      IN conn' \in {c, Push(c, Event("gap", u, handles[u].cursor))}   \* a gap if the caller has a cursor
  /\ UNCHANGED <<topicLog, frame, shown, realtime>>

(* renew(): the grant may run out while the authorizer is asked.           *)
RenewSub(u) ==
  /\ handles[u].pc = "done" /\ LiveSub /\ Listed(u) /\ ~handles[u].renewing
  /\ IF handles[u].valid THEN handles' = [handles EXCEPT ![u].renewing = TRUE] /\ UNCHANGED conn
                         ELSE RemoveSub(u)
  /\ UNCHANGED <<topicLog, frame, shown, realtime>>

RenewedSub(u) ==
  /\ handles[u].renewing
  /\ \/ LiveSub /\ Listed(u) /\ handles' = [handles EXCEPT ![u].renewing = FALSE, ![u].valid = TRUE] /\ UNCHANGED conn
     \/ /\ conn' = IF LiveSub /\ Listed(u) THEN Removed(conn, u)
                   ELSE IF realtime = "open" /\ conn.open /\ ~conn.fresh THEN Shut(conn, Event("closed", 0, NoCursor)) ELSE conn
        /\ handles' = [Without({u}) EXCEPT ![u].renewing = FALSE]
  /\ UNCHANGED <<topicLog, frame, shown, realtime>>

(* snapshot() met a change between its two looks at the cursor.            *)
SnapshotRace(u) ==
  /\ LiveSub /\ Listed(u) /\ handles[u].valid /\ ~handles[u].initializing
  /\ conn' = Push(conn, Event("gap", u, Current))
  /\ UNCHANGED <<topicLog, handles, frame, shown, realtime>>

Unsubscribe(u) == /\ handles[u].pc = "done" /\ Listed(u)
                  /\ RemoveSub(u)
                  /\ UNCHANGED <<topicLog, frame, shown, realtime>>

-----------------------------------------------------------------------------
(* Time lowers what is valid; the sweep notices.                           *)
GrantExpires(u) == /\ handles[u].valid /\ handles' = [handles EXCEPT ![u].valid = FALSE]
                   /\ UNCHANGED <<topicLog, conn, frame, shown, realtime>>
IdentityExpires == /\ conn.open /\ conn.fresh /\ conn' = [conn EXCEPT !.fresh = FALSE]
                   /\ UNCHANGED <<topicLog, handles, frame, shown, realtime>>

ExpiredSubs == {u \in Handles : Expired(u)}

Sweep ==
  /\ realtime = "open" /\ conn.open
  /\ IF conn.fresh THEN /\ LET c == Removes(conn, ExpiredSubs)
                           IN conn' \in {c, Push(c, Event("heartbeat", 0, NoCursor))}
                        /\ handles' = Without(ExpiredSubs)
                   ELSE conn' = Shut(conn, Event("closed", 0, NoCursor)) /\ UNCHANGED handles
  /\ UNCHANGED <<topicLog, frame, shown, realtime>>

(* close(), a failed provider, revokeSubject(), or the client leaves.      *)
StreamEnds ==
  /\ conn.open
  /\ \E r \in {"open", "failed", "stopped"}, terminal \in {NoEvent, Event("closed", 0, NoCursor), Event("gap", 0, NoCursor)} :
       /\ r = "failed" => terminal.kind = "gap"
       /\ r = "stopped" => terminal.kind = "closed"
       /\ r = "open" => terminal.kind # "gap"
       /\ realtime' = r /\ conn' = Shut(conn, terminal)
  /\ UNCHANGED <<topicLog, handles, frame, shown>>

-----------------------------------------------------------------------------
(***************************************************************************)
(* The response                                                            *)
(***************************************************************************)
(* next(): drop what has expired, then take the next event.                *)
Take ==
  LET tidy == Removes(conn, ExpiredSubs)
      c == IF tidy.open /\ ~tidy.fresh THEN Shut(tidy, Event("closed", 0, NoCursor)) ELSE tidy
  IN /\ handles' = Without(ExpiredSubs)
     /\ \/ c.queue # << >> /\ frame' = Head(c.queue) /\ conn' = [c EXCEPT !.queue = Tail(@)]
        \/ c.queue = << >> /\ frame' = c.terminal /\ conn' = [c EXCEPT !.terminal = NoEvent]

Pull == /\ frame = NoEvent
        /\ Take
        /\ UNCHANGED <<topicLog, shown, realtime>>

(* pull(): the event was taken before an await, and is checked after it;   *)
(* the loop goes on at once with what it does not send.                    *)
MaySend == \/ frame.kind = "closed" \/ (frame.kind = "gap" /\ frame.sub = 0)
           \/ conn.open /\ conn.fresh /\ (frame.sub # 0 => Listed(frame.sub) /\ handles[frame.sub].valid)

Send == /\ frame # NoEvent
        /\ \/ /\ MaySend
              /\ shown' = IF frame.sub = 0 THEN shown ELSE [shown EXCEPT ![frame.sub] = frame]
              /\ frame' = NoEvent /\ UNCHANGED <<conn, handles>>
           \/ ~MaySend /\ Take /\ UNCHANGED shown
        /\ UNCHANGED <<topicLog, realtime>>

-----------------------------------------------------------------------------
HandleStep(u) == \/ Subscribe(u) \/ Authorized(u) \/ CurrentRead(u) \/ Ready(u) \/ RenewSub(u) \/ RenewedSub(u)
                 \/ SnapshotRace(u) \/ Unsubscribe(u) \/ GrantExpires(u)

RealtimeNext == \/ PublishUpdate \/ Restarts \/ RevokeResource
                \/ \E g \in DOMAIN topicLog : \E s \in DOMAIN topicLog[g] : Receive([g |-> g, s |-> s])
                \/ \E u \in Handles : HandleStep(u)
                \/ IdentityExpires \/ Sweep \/ StreamEnds \/ Pull \/ Send

RealtimeSpec == RealtimeInit /\ [][RealtimeNext]_rtVars

-----------------------------------------------------------------------------
(* What the client has been sent about u, and will be.                     *)
Stream(u) == <<shown[u]>> \o About(<<frame>> \o conn.queue, {u})
Follows(e, f) == \/ e.kind = "gap"
                 \/ e.kind \in {"ready", "update"} /\ f.cursor = [e.cursor EXCEPT !.s = @ + 1]

(* A client is never silently behind: an update is the successor of the    *)
(* update or the ready before it, or a gap stands between them, whatever   *)
(* was lost, repeated or reordered, also between the snapshot of the       *)
(* cursor and ready; and nothing about a subscription that was revoked,    *)
(* expired or left remains queued but that it is closed (receive, purge).  *)
StreamIsHonest ==
  \A u \in Handles :
    /\ \A i \in 2..Len(Stream(u)) : Stream(u)[i].kind = "update" => Follows(Stream(u)[i - 1], Stream(u)[i])
    /\ \A i \in DOMAIN conn.queue : conn.queue[i].sub = u /\ conn.queue[i].kind # "closed" => Listed(u)
=============================================================================
