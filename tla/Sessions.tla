------------------------------ MODULE Sessions ------------------------------
(***************************************************************************)
(* Managed sessions (packages/auth, sessions.ts over the Drizzle store):   *)
(* one session's row and the calls issue, verify, status, touch, renew,    *)
(* revoke, the administrator's revoke and close of several processes,      *)
(* whose configured lifetimes and clocks may differ.                       *)
(*                                                                         *)
(* A store call is one statement and one step; the statement counts also   *)
(* when its answer is lost, which nobody but the caller notices.  A        *)
(* credential is its digest.  Abstracted: the subject, and the evidence    *)
(* that a login needs (external).                                          *)
(*                                                                         *)
(* The definition introduced by `Slip:' is not part of the model: it is a  *)
(* plausible mistake in the one that follows it, and a mutation run checks *)
(* that a property notices it.                                             *)
(***************************************************************************)
EXTENDS Integers

CONSTANTS AuthProcs, AuthCalls,
          Lifetime,       \* Lifetime[p]: idle, absolute and renewAfter, as configured
          Behind,         \* Behind[p]: how far p's clock is behind the database's
          AuthHorizon,    \* bound: the database's clock
          MaxDigests,     \* bound: credentials made
          MaxSessionRevision     \* bound: the revision at which calls still begin

(* Lifetimes are safe integers (sessionLifetime); clocks are off by any    *)
(* amount.                                                                 *)
ASSUME LifetimeAssumption == /\ Lifetime \in [AuthProcs -> [idle : Nat, absolute : Nat, renewAfter : Nat]]
                             /\ Behind \in [AuthProcs -> Int]

VARIABLES session,     \* the row
          authClock,   \* the database's clock
          digests,     \* credentials made so far
          authCalls, authProcs

authVars == <<session, authClock, digests, authCalls, authProcs>>

NoSession == [revision |-> 0, digest |-> 0, issuedAt |-> 0, expiresAt |-> 0, idle |-> 0, renewAfter |-> 0,
              lastActiveAt |-> 0, renewedAt |-> 0, revoked |-> FALSE]
NoAuthCall == [pc |-> "idle", p |-> 0, kind |-> "none", digest |-> 0, record |-> NoSession, time |-> 0]

SessionsInit == /\ session = NoSession /\ authClock = 2 /\ digests = 0
                /\ authCalls = [c \in AuthCalls |-> NoAuthCall]
                /\ authProcs = [p \in AuthProcs |-> "open"]

Least(a, b) == IF a < b THEN a ELSE b
Most(a, b) == IF a < b THEN b ELSE a
Now(p) == authClock - Behind[p]
AuthAt(c, pc) == authCalls[c].pc = pc
SessionEnds(c) == authCalls' = [authCalls EXCEPT ![c] = NoAuthCall]

AuthTick == /\ authClock < AuthHorizon /\ authClock' = authClock + 1
            /\ UNCHANGED <<session, digests, authCalls, authProcs>>

-----------------------------------------------------------------------------
(* issue(): once the login is verified.                                    *)
Issue(c, p) ==
  /\ AuthAt(c, "idle") /\ authProcs[p] = "open" /\ digests = 0
  /\ digests' = 1
  /\ authCalls' = [authCalls EXCEPT ![c] = [NoAuthCall EXCEPT !.pc = "create", !.p = p, !.time = Now(p)]]
  /\ UNCHANGED <<session, authClock, authProcs>>

CreateSession(c) ==
  /\ AuthAt(c, "create")
  /\ LET t == authCalls[c].time
         life == Lifetime[authCalls[c].p]
     IN session' = [revision |-> 1, digest |-> 1, issuedAt |-> t, expiresAt |-> t + life.absolute, idle |-> life.idle,
                    renewAfter |-> life.renewAfter, lastActiveAt |-> t, renewedAt |-> t, revoked |-> FALSE]
  /\ SessionEnds(c)
  /\ UNCHANGED <<authClock, digests, authProcs>>

(* run(): a call with a credential that exists or existed.                 *)
SessionCall(c, p, kind, digest) ==
  /\ AuthAt(c, "idle") /\ authProcs[p] = "open" /\ session # NoSession /\ session.revision < MaxSessionRevision
  /\ authCalls' = [authCalls EXCEPT ![c] = [NoAuthCall EXCEPT !.pc = "read", !.p = p, !.kind = kind, !.digest = digest]]
  /\ UNCHANGED <<session, authClock, digests, authProcs>>

(* What a process takes to be the session's end.                           *)
Expiry(p, r) == Least(Least(r.expiresAt, r.issuedAt + Lifetime[p].absolute), r.lastActiveAt + Least(r.idle, Lifetime[p].idle))

(* store.read and the checks on what it returns.                           *)
AcceptsSession(p, r, digest) == r.digest = digest /\ ~r.revoked /\ r.lastActiveAt <= Now(p)

LookupSession(c) ==
  /\ AuthAt(c, "read")
  /\ LET call == authCalls[c]
         fits == /\ AcceptsSession(call.p, session, call.digest)
                 /\ call.kind # "revoke" => Now(call.p) < Expiry(call.p, session)
     IN IF fits /\ authProcs[call.p] = "open"
        THEN authCalls' = [authCalls EXCEPT ![c].pc = IF call.kind = "revoke" THEN "revoke" ELSE "active", ![c].record = session]
        ELSE SessionEnds(c)
  /\ UNCHANGED <<session, authClock, digests, authProcs>>

(* The subject policy answers, the time is checked again, and mutate()     *)
(* prepares the new row; a verification ends here.                         *)
Due(p, r) == Now(p) >= r.renewedAt + Most(r.renewAfter, Lifetime[p].renewAfter)

Active(c) ==
  /\ AuthAt(c, "active")
  /\ LET call == authCalls[c]
         goes == /\ Now(call.p) < Expiry(call.p, call.record) /\ authProcs[call.p] = "open"
                 /\ call.kind = "touch" \/ (call.kind = "renew" /\ Due(call.p, call.record))
     IN \/ goes /\ authCalls' = [authCalls EXCEPT ![c].pc = "mutate", ![c].time = Now(call.p)]
        \/ SessionEnds(c)
  /\ UNCHANGED <<session, authClock, digests, authProcs>>

NextRow(call) ==
  LET r == call.record
      life == Lifetime[call.p]
  IN [r EXCEPT !.revision = @ + 1, !.expiresAt = Least(@, r.issuedAt + life.absolute), !.idle = Least(@, life.idle),
               !.renewAfter = Most(@, life.renewAfter), !.lastActiveAt = call.time,
               !.renewedAt = IF call.kind = "renew" THEN call.time ELSE @,
               !.digest = IF call.kind = "renew" THEN digests + 1 ELSE @]

(* Slip: the revision vouches for the row, but revoke does not count one.  *)
MutationPredicateRevoked(call, next) ==
  LET clock == Most(call.time, authClock)
  IN /\ session.revision = call.record.revision /\ session.digest = call.record.digest
     /\ clock < session.expiresAt /\ clock < session.lastActiveAt + session.idle
     /\ clock < next.expiresAt /\ clock < session.lastActiveAt + next.idle
     /\ next.lastActiveAt >= session.lastActiveAt
     /\ call.kind = "renew" => clock >= session.renewedAt + next.renewAfter

(* mutationPredicate(): by the database's clock, unless the caller's is    *)
(* ahead.  Conditions that NextRow meets anyway are left out.              *)
MutationPredicate(call, next) ==
  LET clock == Most(call.time, authClock)
  IN /\ session.revision = call.record.revision /\ session.digest = call.record.digest /\ ~session.revoked
     /\ clock < session.expiresAt /\ clock < session.lastActiveAt + session.idle
     /\ clock < next.expiresAt /\ clock < session.lastActiveAt + next.idle
     /\ next.lastActiveAt >= session.lastActiveAt
     /\ call.kind = "renew" => clock >= session.renewedAt + next.renewAfter

MutateSession(c) ==
  /\ AuthAt(c, "mutate")
  /\ LET call == authCalls[c]
         next == NextRow(call)
     IN /\ call.kind = "renew" => digests < MaxDigests
        /\ digests' = IF call.kind = "renew" THEN digests + 1 ELSE digests
        /\ session' = IF MutationPredicate(call, next) THEN [next EXCEPT !.revoked = session.revoked] ELSE session
  /\ SessionEnds(c)
  /\ UNCHANGED <<authClock, authProcs>>

(* revoke() does not count revisions.                                      *)
RevokeSession(c) ==
  /\ AuthAt(c, "revoke")
  /\ session' = [session EXCEPT !.revoked = TRUE]
  /\ SessionEnds(c)
  /\ UNCHANGED <<authClock, digests, authProcs>>

(* The administrator has seen a revision, and revokes it if it still is.   *)
InspectSession(c, p) ==
  /\ AuthAt(c, "idle") /\ authProcs[p] = "open" /\ session # NoSession /\ ~session.revoked
  /\ authCalls' = [authCalls EXCEPT ![c] = [NoAuthCall EXCEPT !.pc = "revokeRevision", !.p = p, !.record = session]]
  /\ UNCHANGED <<session, authClock, digests, authProcs>>

RevokeRevision(c) ==
  /\ AuthAt(c, "revokeRevision")
  /\ session' = IF session.revision = authCalls[c].record.revision /\ ~session.revoked
                THEN [session EXCEPT !.revoked = TRUE, !.revision = @ + 1] ELSE session
  /\ SessionEnds(c)
  /\ UNCHANGED <<authClock, digests, authProcs>>

(* close(): calls end at their next await; what they sent is carried out.  *)
CloseSessions(p) == /\ authProcs[p] = "open"
                    /\ authProcs' = [authProcs EXCEPT ![p] = "closing"]
                    /\ UNCHANGED <<session, authClock, digests, authCalls>>

ClosedSessions(p) == /\ authProcs[p] = "closing" /\ \A c \in AuthCalls : authCalls[c].p # p
                     /\ authProcs' = [authProcs EXCEPT ![p] = "closed"]
                     /\ UNCHANGED <<session, authClock, digests, authCalls>>

-----------------------------------------------------------------------------
SessionsNext == \/ AuthTick
                \/ \E p \in AuthProcs : CloseSessions(p) \/ ClosedSessions(p)
                \/ \E c \in AuthCalls :
                     \/ CreateSession(c) \/ LookupSession(c) \/ Active(c) \/ MutateSession(c) \/ RevokeSession(c) \/ RevokeRevision(c)
                     \/ \E p \in AuthProcs : \/ Issue(c, p) \/ InspectSession(c, p)
                                             \/ \E kind \in {"verify", "touch", "renew", "revoke"}, d \in 1..digests : SessionCall(c, p, kind, d)

SessionsSpec == SessionsInit /\ [][SessionsNext]_authVars

-----------------------------------------------------------------------------
Ended == session # NoSession /\ \/ session.revoked
                                \/ authClock >= Least(session.expiresAt, session.lastActiveAt + session.idle)

(* A session that was revoked or has expired by the database's clock has   *)
(* ended for good: a touch or a renewal that found it alive and is late    *)
(* neither revives it nor changes its credential, whichever lifetimes the  *)
(* processes are configured with; and no process extends the end that was  *)
(* set when it was issued (mutate, mutationPredicate).                     *)
SessionEndsForGood ==
  [][/\ Ended => Ended' /\ session'.digest = session.digest
     /\ session # NoSession => session'.expiresAt <= session.expiresAt]_authVars
=============================================================================
