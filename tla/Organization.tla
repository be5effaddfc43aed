---------------------------- MODULE Organization ----------------------------
(***************************************************************************)
(* Organizations (packages/organization, service.ts over the D1 store,     *)
(* with the member relationship policy): one organization's row and calls  *)
(* that read it, compute its next state and swap it in, again after a      *)
(* conflict.                                                               *)
(*                                                                         *)
(* A store call is one step; an answer that is lost changes nothing but    *)
(* what the caller knows.  Tokens are abstracted: whoever is the target of *)
(* an invitation has its token.  So are names, the size of the snapshot    *)
(* and the limit on invitations.                                           *)
(*                                                                         *)
(* Definitions introduced by `Slip:' are not part of the model: each is a  *)
(* plausible mistake in the definition that follows it, and the mutation   *)
(* runs check that some property notices it.                               *)
(***************************************************************************)
EXTENDS Integers, FiniteSets

CONSTANTS People, Invitations, OrgCalls,
          Founder,              \* who creates the organization
          InvitationLifetime, MaxMembers,
          OrgHorizon,           \* bound: the database's clock
          MaxVersion            \* bound: the version at which calls still begin

ASSUME OrgAssumption == Founder \in People /\ InvitationLifetime \in Nat

VARIABLES org, orgClock, orgCalls,
          barred    \* invitations that were pending when their target was removed or left

orgVars == <<org, orgClock, orgCalls, barred>>

NoInvitation == [target |-> 0, status |-> "none", expiresAt |-> 0, resolvedAt |-> 0]

(* createOrganization(); there is one.                                     *)
Created == [version |-> 1, members |-> [m \in People |-> IF m = Founder THEN "owner" ELSE "none"],
            invites |-> [i \in Invitations |-> NoInvitation]]
NoOrgCall == [pc |-> "idle", op |-> "none", who |-> 0, target |-> 0, invite |-> 0, role |-> "none", state |-> Created, at |-> 0]

OrgInit == /\ org = Created
           /\ orgClock = 0 /\ barred = {}
           /\ orgCalls = [c \in OrgCalls |-> NoOrgCall]

OrgTick == /\ orgClock < OrgHorizon /\ orgClock' = orgClock + 1
           /\ UNCHANGED <<org, orgCalls, barred>>

Members(s) == {m \in People : s.members[m] # "none"}
Owners(s) == {m \in People : s.members[m] = "owner"}

-----------------------------------------------------------------------------
(* memberRelationshipPolicy()                                              *)
Permitted(call, s) ==
  LET role == s.members[call.who]
      target == IF call.invite # 0 /\ s.invites[call.invite].status # "none" THEN s.invites[call.invite].target ELSE call.target
  IN \/ call.op = "accept"
     \/ call.op = "leave" /\ role # "none"
     \/ call.op \in {"transfer", "grant", "role"} /\ role = "owner"
     \/ /\ call.op \in {"add", "remove", "invite", "revoke", "prune", "update"} /\ role \in {"owner", "admin"}
        /\ target # 0 /\ s.members[target] \in {"owner", "admin"} => role = "owner"

(* Slip: what a member was invited to stays open when the member goes.     *)
RevokePendingForNobody(s, m, now) == s.invites

RevokePendingFor(s, m, now) ==
  [i \in Invitations |-> IF s.invites[i].target = m /\ s.invites[i].status = "pending"
                         THEN [s.invites[i] EXCEPT !.status = "revoked", !.resolvedAt = now] ELSE s.invites[i]]

WithoutMember(s, m, now) == [s EXCEPT !.members[m] = "none", !.invites = RevokePendingFor(s, m, now)]

InvitationPending(s, i, now) == s.invites[i].status = "pending" /\ s.invites[i].expiresAt > now

Pruned(v, before) ==
  IF v.status # "none" /\ (IF v.status = "pending" THEN v.expiresAt ELSE v.resolvedAt) < before
  THEN [NoInvitation EXCEPT !.status = "pruned"] ELSE v

(* The change of a call to the state it has read, at the time it was read: *)
(* no next state if it is refused.                                         *)
Changes(call, s, now) ==
  LET t == call.target
      i == call.invite
      me == call.who
      isMember(m) == s.members[m] # "none"
      only(cond, next) == IF cond THEN {next} ELSE {}
  IN CASE call.op = "add" -> only(~isMember(t), [s EXCEPT !.members[t] = "member"])
       [] call.op = "leave" -> only(isMember(me), WithoutMember(s, me, now))
       [] call.op = "remove" -> only(isMember(t), WithoutMember(s, t, now))
       [] call.op = "role" -> only(isMember(t) /\ ~(me = t /\ s.members[t] = "member" /\ call.role = "admin"),
                                   [s EXCEPT !.members[t] = call.role])
       [] call.op = "grant" -> only(isMember(t) /\ me # t, [s EXCEPT !.members[t] = "owner"])
       [] call.op = "transfer" -> only(isMember(t) /\ me # t /\ s.members[me] = "owner",
                                       [s EXCEPT !.members[me] = "member", !.members[t] = "owner"])
       [] call.op = "invite" -> only(~isMember(t) /\ s.invites[i] = NoInvitation,
                                     [s EXCEPT !.invites[i] = [target |-> t, status |-> "pending", resolvedAt |-> 0,
                                                               expiresAt |-> now + InvitationLifetime]])
       [] call.op = "accept" -> only(s.invites[i].target = me /\ InvitationPending(s, i, now) /\ ~isMember(me),
                                     [s EXCEPT !.members[me] = "member",
                                               !.invites[i].status = "accepted", !.invites[i].resolvedAt = now])
       [] call.op = "revoke" -> only(InvitationPending(s, i, now),
                                     [s EXCEPT !.invites[i].status = "revoked", !.invites[i].resolvedAt = now])
       [] call.op = "prune" -> {[s EXCEPT !.invites = [j \in Invitations |-> Pruned(s.invites[j], before)]] : before \in 0..now}
       [] OTHER -> {s}    \* updateOrganization(): the name

(* capacity(), with preserveOwners().                                      *)
Fits(next, s) == /\ Owners(next) # {}
                 /\ \/ Cardinality(Members(next)) <= MaxMembers
                    \/ Cardinality(Members(next)) <= Cardinality(Members(s))

-----------------------------------------------------------------------------
(* load(): the state and the time of the database.                         *)
Loads(c, call) == orgCalls' = [orgCalls EXCEPT ![c] = [call EXCEPT !.pc = "swap", !.state = org, !.at = orgClock]]

BeginCall(c, call) ==
  /\ orgCalls[c].pc = "idle" /\ org.version < MaxVersion
  /\ Permitted(call, org)
  /\ Loads(c, call)
  /\ UNCHANGED <<org, orgClock, barred>>

(* compareAndSwap(): the version that was read, before `validUntil'.       *)
Swaps(call) == /\ org.version = call.state.version
               /\ call.op = "accept" => orgClock < call.state.invites[call.invite].expiresAt

(* mutate(): the change is computed and swapped in; after a conflict it    *)
(* starts over, or gives up after conflictRetries.                         *)
MutateOrganization(c) ==
  LET call == orgCalls[c]
      nexts == {n \in Changes(call, call.state, call.at) : Fits(n, call.state)}
      gone == {i \in Invitations : /\ call.state.invites[i].status = "pending"
                                   /\ \/ call.op = "leave" /\ call.state.invites[i].target = call.who
                                      \/ call.op = "remove" /\ call.state.invites[i].target = call.target}
  IN /\ call.pc = "swap"
     /\ \/ /\ nexts # {} /\ Swaps(call)
           /\ \E next \in nexts : org' = [next EXCEPT !.version = call.state.version + 1]
           /\ barred' = barred \cup gone
           /\ orgCalls' = [orgCalls EXCEPT ![c] = NoOrgCall]
        \/ nexts # {} /\ ~Swaps(call) /\ Permitted(call, org) /\ Loads(c, call) /\ UNCHANGED <<org, barred>>
        \/ (nexts = {} \/ ~Swaps(call)) /\ orgCalls' = [orgCalls EXCEPT ![c] = NoOrgCall] /\ UNCHANGED <<org, barred>>
     /\ UNCHANGED orgClock

-----------------------------------------------------------------------------
CallOf(op, me) == [NoOrgCall EXCEPT !.op = op, !.who = me]

OrgNext == \/ OrgTick
           \/ \E c \in OrgCalls :
                \/ MutateOrganization(c)
                \/ \E me \in People :
                     \/ \E op \in {"leave", "prune", "update"} : BeginCall(c, CallOf(op, me))
                     \/ \E t \in People :
                          \/ \E op \in {"add", "remove", "grant", "transfer"} : BeginCall(c, [CallOf(op, me) EXCEPT !.target = t])
                          \/ \E r \in {"member", "admin"} : BeginCall(c, [CallOf("role", me) EXCEPT !.target = t, !.role = r])
                          \/ \E i \in Invitations \ {orgCalls[d].invite : d \in OrgCalls} :   \* a new id
                               BeginCall(c, [CallOf("invite", me) EXCEPT !.target = t, !.invite = i])
                     \/ \E i \in Invitations, op \in {"accept", "revoke"} : BeginCall(c, [CallOf(op, me) EXCEPT !.invite = i])

OrgSpec == OrgInit /\ [][OrgNext]_orgVars

-----------------------------------------------------------------------------
BecomesAccepted(i) == org.invites[i].status # "accepted" /\ org'.invites[i].status = "accepted"

(* However calls race, the organization keeps an owner, and an invitation  *)
(* is accepted once, before it expires by the database's clock, and not    *)
(* when its target has meanwhile been removed or has left (preserveOwners, *)
(* revokePendingFor, compareAndSwap).                                      *)
OrganizationIsSound ==
  [][/\ Owners(org') # {}
     /\ \A i \in Invitations :
          BecomesAccepted(i) => /\ orgClock < org'.invites[i].expiresAt
                                /\ org.invites[i].status = "pending"
                                /\ i \notin barred]_orgVars
=============================================================================
