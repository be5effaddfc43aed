----------------------------- MODULE OAuthGrants -----------------------------
(***************************************************************************)
(* The OAuth authorization server (packages/auth/src/oauth.ts) over its    *)
(* store of records: one authorization request of one client, the grants   *)
(* and codes it leads to, rotation of their tokens, and revocation.        *)
(*                                                                         *)
(* Records are read, then replaced if their revision is still the one that *)
(* was read; in between the server awaits the user, the policy and digests.*)
(* A replacement whose answer is lost may have happened.  An access and a  *)
(* refresh token are drawn together and called by one number.              *)
(*                                                                         *)
(* Abstracted: clients, redirections, proofs of possession, digests (the   *)
(* presented one matches or the call ends), which scopes a request has     *)
(* (only how many), and times: a record expires at some moment, for all at *)
(* once; pruning an expired record changes no answer.                      *)
(*                                                                         *)
(* The definition introduced by `Slip:' is not part of the model: it is a  *)
(* plausible mistake in the one that follows it, and a mutation run checks *)
(* that a property notices it.                                             *)
(***************************************************************************)
EXTENDS Integers, FiniteSets

CONSTANTS Users,             \* subjects who may open the consent page
          GrantIds,          \* UUIDs that decide may draw
          OAuthCalls,        \* slots of concurrent calls
          Scopes,            \* how many scopes the client asks for
          MaxTokens,         \* bound: pairs of tokens drawn for a grant
          MaxGrantRevision,  \* bound: replacements of a grant before its user's last
          MaxUsedRefresh,    \* usedRefresh.length at which the grant ends (2048)
          MaxOAuthFaults     \* bound: lost answers

ASSUME OAuthAssumption == MaxUsedRefresh \in Nat /\ Scopes \in Nat \ {0}

VARIABLES request,      \* the record of the authorization request
          codes,        \* codes[g]: the record of the code for grant g
          grants,       \* grants[g]: the record of the grant
          oauthCalls,   \* oauthCalls[c]: the call in slot c
          drawn,        \* drawn[g]: the last pair of tokens drawn for g
          admitted,     \* history: whom consent or decide let in
          answered,     \* history: <<grant, by what, pair>>, the pairs that were handed out
          confirmed,    \* history: <<grant, pair>>, the tokens whose revocation was confirmed
          oauthFaults
oauthVars == <<request, codes, grants, oauthCalls, drawn, admitted, answered, confirmed, oauthFaults>>

(* The subject of a request that no user has opened, "" in the source: no  *)
(* user's identifier is empty.                                             *)
Nobody == "nobody"
ASSUME UserAssumption == Nobody \notin Users
NoPair == 0
AllPairs == -1      \* the revocation of the grant itself
NoCode == [rev |-> 0, used |-> FALSE, state |-> "absent"]
NoGrant == [rev |-> 0, state |-> "absent", subject |-> Nobody, revoked |-> FALSE, pair |-> NoPair, used |-> {}]
NoOAuthCall == [pc |-> "idle"]

OAuthInit == /\ request = [rev |-> 0, state |-> "live", subject |-> Nobody, scopes |-> Scopes, used |-> FALSE]
             /\ codes = [g \in GrantIds |-> NoCode] /\ grants = [g \in GrantIds |-> NoGrant]
             /\ oauthCalls = [c \in OAuthCalls |-> NoOAuthCall]
             /\ drawn = [g \in GrantIds |-> NoPair]
             /\ admitted = {} /\ answered = {} /\ confirmed = {} /\ oauthFaults = 0

OAt(c, pc) == oauthCalls[c].pc = pc
OGoes(c, call) == oauthCalls' = [oauthCalls EXCEPT ![c] = call]
OEnds(c) == OGoes(c, NoOAuthCall)

(* Slip: a record is replaced as if nobody else had meanwhile.             *)
CurrentBlind(row, rev) == TRUE

(* store.replace compares the revision.                                    *)
Current(row, rev) == row.rev = rev

(* A failing call: the replacement may have taken place.                   *)
Lost == oauthFaults < MaxOAuthFaults /\ oauthFaults' = oauthFaults + 1

-----------------------------------------------------------------------------
(***************************************************************************)
(* consent() and decide()                                                  *)
(***************************************************************************)

(* readConsent up to the store's answer: a request is of its first reader. *)
ReadConsent(c, user, op) ==
  /\ OAt(c, "idle") /\ request.state = "live" /\ ~request.used
  /\ request.subject \in {Nobody, user}
  /\ OGoes(c, [pc |-> "consent", op |-> op, user |-> user, read |-> request])
  /\ UNCHANGED <<request, codes, grants, drawn, admitted, answered, confirmed, oauthFaults>>

(* The request's scopes are narrowed to what the user has by now; saveLive *)
(* unless it is the user's already, with these scopes.                     *)
BindRequest(c) ==
  /\ OAt(c, "consent")
  /\ \E n \in 1 .. oauthCalls[c].read.scopes :
       LET call == oauthCalls[c]
           bound == call.read.subject = call.user /\ n = call.read.scopes
           saved == request.state = "live" /\ Current(request, call.read.rev)
           next(rev) == IF call.op = "consent" THEN NoOAuthCall ELSE [pc |-> "decide", user |-> call.user, rev |-> rev]
       IN \/ /\ bound
             /\ OGoes(c, next(call.read.rev))
             /\ admitted' = admitted \cup {call.user}
             /\ UNCHANGED <<request, oauthFaults>>
          \/ /\ ~bound /\ saved
             /\ request' = [call.read EXCEPT !.rev = request.rev + 1, !.subject = call.user, !.scopes = n]
             /\ \/ OGoes(c, next(call.read.rev + 1)) /\ admitted' = admitted \cup {call.user} /\ UNCHANGED oauthFaults
                \/ OEnds(c) /\ Lost /\ UNCHANGED admitted
          \/ ~bound /\ ~saved /\ OEnds(c) /\ UNCHANGED <<request, admitted, oauthFaults>>
  /\ UNCHANGED <<codes, grants, drawn, answered, confirmed>>

UseRequest(c) ==
  /\ OAt(c, "decide")
  /\ LET saved == request.state = "live" /\ Current(request, oauthCalls[c].rev)
     IN IF saved
        THEN /\ request' = [request EXCEPT !.rev = @ + 1, !.used = TRUE]
             /\ \/ OGoes(c, [oauthCalls[c] EXCEPT !.pc = "grant"]) /\ UNCHANGED oauthFaults
                \/ OEnds(c) /\ UNCHANGED oauthFaults        \* denied
                \/ OEnds(c) /\ Lost
        ELSE OEnds(c) /\ UNCHANGED <<request, oauthFaults>>
  /\ UNCHANGED <<codes, grants, drawn, admitted, answered, confirmed>>

InsertGrant(c) ==
  /\ OAt(c, "grant")
  /\ \E g \in GrantIds :
       /\ grants[g] = NoGrant
       /\ grants' = [grants EXCEPT ![g] = [NoGrant EXCEPT !.state = "live", !.subject = oauthCalls[c].user]]
       /\ \/ OGoes(c, [pc |-> "code", grant |-> g]) /\ UNCHANGED oauthFaults
          \/ OEnds(c) /\ Lost
  /\ UNCHANGED <<request, codes, drawn, admitted, answered, confirmed>>

(* A code that the user did not get is one that nobody knows.              *)
InsertCode(c) ==
  /\ OAt(c, "code")
  /\ \/ codes' = [codes EXCEPT ![oauthCalls[c].grant].state = "live"] /\ UNCHANGED oauthFaults
     \/ UNCHANGED codes /\ Lost
  /\ OEnds(c)
  /\ UNCHANGED <<request, grants, drawn, admitted, answered, confirmed>>

-----------------------------------------------------------------------------
(***************************************************************************)
(* exchange()                                                              *)
(***************************************************************************)
Usable(g) == grants[g].state = "live" /\ ~grants[g].revoked

ReadCode(c, g) ==
  /\ OAt(c, "idle") /\ codes[g].state = "live" /\ ~codes[g].used
  /\ OGoes(c, [pc |-> "granted", grant |-> g, coderev |-> codes[g].rev])
  /\ UNCHANGED <<request, codes, grants, drawn, admitted, answered, confirmed, oauthFaults>>

ReadGrant(c) ==
  /\ OAt(c, "granted")
  /\ LET g == oauthCalls[c].grant
     IN IF Usable(g)
        THEN OGoes(c, [pc |-> "usecode", grant |-> g, coderev |-> oauthCalls[c].coderev, row |-> grants[g]])
        ELSE OEnds(c)
  /\ UNCHANGED <<request, codes, grants, drawn, admitted, answered, confirmed, oauthFaults>>

UseCode(c) ==
  /\ OAt(c, "usecode")
  /\ LET call == oauthCalls[c]
         g == call.grant
     IN IF codes[g].state = "live" /\ Current(codes[g], call.coderev)
        THEN /\ codes' = [codes EXCEPT ![g].rev = @ + 1, ![g].used = TRUE]
             /\ \/ /\ OGoes(c, [pc |-> "save", grant |-> g, by |-> NoPair, row |-> call.row]) /\ UNCHANGED oauthFaults
                \/ OEnds(c) /\ Lost
        ELSE OEnds(c) /\ UNCHANGED <<codes, oauthFaults>>
  /\ UNCHANGED <<request, grants, drawn, admitted, answered, confirmed>>

(* refresh: the grant with the pair whose refresh token is presented.      *)
ReadRefresh(c, g, pair) ==
  /\ OAt(c, "idle") /\ Usable(g)
  /\ \E p \in answered : p[1] = g /\ p[3] = pair
  /\ LET row == grants[g]
     IN \/ /\ pair = row.pair /\ Cardinality(row.used) < MaxUsedRefresh
           /\ OGoes(c, [pc |-> "save", grant |-> g, by |-> pair, row |-> [row EXCEPT !.used = @ \cup {pair}]])
        \/ /\ pair \in row.used \/ (pair = row.pair /\ Cardinality(row.used) >= MaxUsedRefresh)
           /\ OGoes(c, [pc |-> "revoke", grant |-> g, rev |-> row.rev, op |-> "refresh", pair |-> pair])
  /\ UNCHANGED <<request, codes, grants, drawn, admitted, answered, confirmed, oauthFaults>>

(* tokens() and saveLive: the row that was read, with a new pair.          *)
SaveTokens(c) ==
  /\ OAt(c, "save")
  /\ LET call == oauthCalls[c]
         g == call.grant
         pair == drawn[g] + 1
     IN IF grants[g].state = "live" /\ Current(grants[g], call.row.rev)
        THEN /\ pair <= MaxTokens
             /\ drawn' = [drawn EXCEPT ![g] = pair]
             /\ grants' = [grants EXCEPT ![g] = [call.row EXCEPT !.rev = grants[g].rev + 1, !.pair = pair]]
             /\ \/ answered' = answered \cup {<<g, call.by, pair>>} /\ UNCHANGED oauthFaults
                \/ UNCHANGED answered /\ Lost
        ELSE UNCHANGED <<grants, drawn, answered, oauthFaults>>
  /\ OEnds(c)
  /\ UNCHANGED <<request, codes, admitted, confirmed>>

-----------------------------------------------------------------------------
(***************************************************************************)
(* Revocation: of a grant by its user, of a token by its client, and of a  *)
(* grant whose refresh token comes a second time.                          *)
(***************************************************************************)
ReadRevoke(c, g) ==
  /\ OAt(c, "idle") /\ grants[g].state = "live" /\ grants[g].rev < MaxGrantRevision
  /\ OGoes(c, [pc |-> "revoke", grant |-> g, rev |-> grants[g].rev, op |-> "grant", pair |-> AllPairs])
  /\ UNCHANGED <<request, codes, grants, drawn, admitted, answered, confirmed, oauthFaults>>

Inactive(g, pair) == ~Usable(g) \/ grants[g].pair # pair

ReadToken(c, g, pair) ==
  /\ OAt(c, "idle") /\ \E p \in answered : p[1] = g /\ p[3] = pair
  /\ IF Inactive(g, pair)
     THEN confirmed' = confirmed \cup {<<g, pair>>} /\ UNCHANGED oauthCalls
     ELSE /\ OGoes(c, [pc |-> "revoke", grant |-> g, rev |-> grants[g].rev, op |-> "token", pair |-> pair])
          /\ UNCHANGED confirmed
  /\ UNCHANGED <<request, codes, grants, drawn, admitted, answered, oauthFaults>>

(* Without the store's confirmation, revokeToken looks once more.          *)
RevokeGrant(c) ==
  /\ OAt(c, "revoke")
  /\ LET call == oauthCalls[c]
         g == call.grant
         unsure == IF call.op = "token" THEN [call EXCEPT !.pc = "again"] ELSE NoOAuthCall
     IN IF Current(grants[g], call.rev)
        THEN /\ grants' = [grants EXCEPT ![g].rev = @ + 1, ![g].revoked = TRUE]
             /\ \/ /\ OEnds(c) /\ UNCHANGED oauthFaults
                   /\ confirmed' = confirmed \cup (IF call.op = "refresh" THEN {} ELSE {<<g, call.pair>>})
                \/ OGoes(c, unsure) /\ Lost /\ UNCHANGED confirmed
        ELSE OGoes(c, unsure) /\ UNCHANGED <<grants, confirmed, oauthFaults>>
  /\ UNCHANGED <<request, codes, drawn, admitted, answered>>

LookAgain(c) ==
  /\ OAt(c, "again")
  /\ LET call == oauthCalls[c]
     IN confirmed' = confirmed \cup (IF Inactive(call.grant, call.pair) THEN {<<call.grant, call.pair>>} ELSE {})
  /\ OEnds(c)
  /\ UNCHANGED <<request, codes, grants, drawn, admitted, answered, oauthFaults>>

-----------------------------------------------------------------------------
(* Refused by the user's identity, the policy, the proof or a signal, or   *)
(* the process dies.                                                       *)
OAuthFails(c) == /\ ~OAt(c, "idle") /\ OEnds(c)
                 /\ UNCHANGED <<request, codes, grants, drawn, admitted, answered, confirmed, oauthFaults>>

(* A record that was used already is as good as gone.                      *)
Expire ==
  /\ \/ /\ request.state = "live" /\ ~request.used /\ request' = [request EXCEPT !.state = "expired"] /\ UNCHANGED <<codes, grants>>
     \/ /\ UNCHANGED request
        /\ \E g \in GrantIds :
             \/ codes[g].state = "live" /\ ~codes[g].used /\ codes' = [codes EXCEPT ![g].state = "expired"] /\ UNCHANGED grants
             \/ Usable(g) /\ grants' = [grants EXCEPT ![g].state = "expired"] /\ UNCHANGED codes
  /\ UNCHANGED <<oauthCalls, drawn, admitted, answered, confirmed, oauthFaults>>

OAuthStep(c) ==
  \/ \E user \in Users, op \in {"consent", "decide"} : ReadConsent(c, user, op)
  \/ BindRequest(c) \/ UseRequest(c) \/ InsertGrant(c) \/ InsertCode(c)
  \/ \E g \in GrantIds : ReadCode(c, g) \/ ReadRevoke(c, g)
  \/ ReadGrant(c) \/ UseCode(c) \/ SaveTokens(c)
  \/ \E g \in GrantIds, pair \in 1 .. MaxTokens : ReadRefresh(c, g, pair) \/ ReadToken(c, g, pair)
  \/ RevokeGrant(c) \/ LookAgain(c) \/ OAuthFails(c)

OAuthNext == Expire \/ \E c \in OAuthCalls : OAuthStep(c)

OAuthSpec == OAuthInit /\ [][OAuthNext]_oauthVars

-----------------------------------------------------------------------------
(* A revocation that was confirmed holds for ever: no rotation that read   *)
(* the grant before brings it or its token back (saveLive, revokeGrant,    *)
(* revokeToken).                                                           *)
RevocationHolds ==
  \A r \in confirmed : IF r[2] = AllPairs THEN grants[r[1]].revoked ELSE Inactive(r[1], r[2])

(* A code is exchanged once and a refresh token once, although two calls   *)
(* present it at the same time or again after a lost answer (exchange).    *)
TokensDescendOnce == \A p, q \in answered : p[1] = q[1] /\ p[2] = q[2] => p = q

(* One request leads to one grant, of the one user who was let in          *)
(* (readConsent, decide).                                                  *)
ConsentIsOnes == LET given == {g \in GrantIds : grants[g] # NoGrant}
                 IN /\ Cardinality(given) <= 1 /\ Cardinality(admitted) <= 1
                    /\ \A g \in given : grants[g].subject \in admitted

GrantsAreSound == RevocationHolds /\ TokensDescendOnce /\ ConsentIsOnes
=============================================================================
