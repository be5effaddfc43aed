------------------------------- MODULE ApiKeys -------------------------------
(***************************************************************************)
(* API keys (packages/api-keys/src/index.ts over drizzle/sqlite.ts and     *)
(* shared.ts): issuing under a request id, rotation with an overlap,       *)
(* revocation, and the use of a credential around a policy's answer.       *)
(*                                                                         *)
(* issue, rotate and revoke await their permissions and then decide by one *)
(* conditional statement, so each is one action whose inputs may be old;   *)
(* the answer of a statement may be lost.  use() reads the row four times, *)
(* with awaits in between.  A credential is a number, drawn in order.  The *)
(* store's clock is keyClock; a service's clock may be KeySkew behind.     *)
(*                                                                         *)
(* Abstracted: subjects and scopes (one), digests, list and read, close.   *)
(***************************************************************************)
EXTENDS Integers

CONSTANTS KeyCalls,      \* slots of use() calls
          KeyLife,       \* expiresAt - issuedAt that callers ask for
          Overlaps,      \* overlapMs that callers ask for; 0 among them for none
          KeySkew,
          KeyHorizon,    \* bound: time
          MaxSecrets     \* bound: credentials drawn

ASSUME KeyAssumption == KeyLife \in Nat \ {0} /\ Overlaps \subseteq Nat /\ KeySkew \in Nat

VARIABLES keyClock,
          key,          \* the row of the request id
          secrets,      \* the last credential drawn
          uses,         \* uses[c]: the call in slot c
          handed,       \* history: <<revision, credential>> that callers got
          promised,     \* history: <<credential, time>>, the overlaps that rotate announced
          revocation    \* history: a revocation was confirmed
keyVars == <<keyClock, key, secrets, uses, handed, promised, revocation>>

NoSecret == 0
NoKeyRow == [stored |-> FALSE, digest |-> NoSecret, previous |-> NoSecret, overlapUntil |-> 0, revision |-> 0,
             expiresAt |-> 0, revoked |-> FALSE]
NoUse == [pc |-> "idle", secret |-> NoSecret, dead |-> FALSE]

KeysInit == /\ keyClock = 1 /\ key = NoKeyRow /\ secrets = NoSecret
            /\ uses = [c \in KeyCalls |-> NoUse]
            /\ handed = {} /\ promised = {} /\ revocation = FALSE

ServiceTimes == {t \in (keyClock - KeySkew) .. keyClock : t > 0}

KeyTick == /\ keyClock < KeyHorizon /\ keyClock' = keyClock + 1
           /\ UNCHANGED <<key, secrets, uses, handed, promised, revocation>>

-----------------------------------------------------------------------------
(* store.create: the first one under the request id draws the credential;  *)
(* a repetition gets the record without one.                               *)
IssueKey(issuedAt) ==
  /\ ~key.stored /\ keyClock < issuedAt + KeyLife /\ secrets < MaxSecrets
  /\ secrets' = secrets + 1
  /\ key' = [NoKeyRow EXCEPT !.stored = TRUE, !.digest = secrets', !.expiresAt = issuedAt + KeyLife]
  /\ handed' \in {handed, handed \cup {<<0, secrets'>>}}
  /\ UNCHANGED <<keyClock, uses, promised, revocation>>

(* rotationPredicate                                                       *)
MayRotate(expected) ==
  /\ key.stored /\ key.revision = expected /\ ~key.revoked /\ key.expiresAt > keyClock
  /\ key.overlapUntil <= keyClock

RotateKey(expected, overlap) ==
  /\ MayRotate(expected) /\ secrets < MaxSecrets
  /\ secrets' = secrets + 1
  /\ LET until == IF overlap = 0 THEN 0 ELSE IF key.expiresAt < keyClock + overlap THEN key.expiresAt ELSE keyClock + overlap
     IN /\ key' = [key EXCEPT !.digest = secrets', !.previous = IF overlap = 0 THEN NoSecret ELSE key.digest,
                              !.revision = @ + 1, !.overlapUntil = until]
        /\ \/ /\ handed' = handed \cup {<<key'.revision, secrets'>>}
              /\ promised' = promised \cup {<<key.digest, until>>}
           \/ UNCHANGED <<handed, promised>>
  /\ UNCHANGED <<keyClock, uses, revocation>>

RevokeKey == /\ key.stored
             /\ key' = [key EXCEPT !.revoked = TRUE, !.previous = NoSecret, !.overlapUntil = 0]
             /\ revocation' \in {revocation, TRUE}
             /\ UNCHANGED <<keyClock, secrets, uses, handed, promised>>

-----------------------------------------------------------------------------
(* verify(): live, and the current credential or the overlapping one.      *)
Verifies(secret, now) ==
  /\ key.stored /\ ~key.revoked /\ key.expiresAt > now
  /\ secret = key.digest \/ (secret = key.previous /\ key.overlapUntil > now)

DeadForAll(secret) == \A now \in ServiceTimes : ~Verifies(secret, now)

(* use(): verify, authorizeUse, verify; a verify reads, awaits             *)
(* subjectActive and reads again.                                          *)
BeginUse(c) ==
  /\ uses[c].pc = "idle"
  /\ \E h \in handed : uses' = [uses EXCEPT ![c] = [NoUse EXCEPT !.pc = "first", !.secret = h[2]]]
  /\ UNCHANGED <<keyClock, key, secrets, handed, promised, revocation>>

ReadKey(c, pc, next) ==
  /\ uses[c].pc = pc
  /\ \E now \in ServiceTimes : IF Verifies(uses[c].secret, now) THEN uses' = [uses EXCEPT ![c].pc = next]
                                                                ELSE uses' = [uses EXCEPT ![c] = NoUse]
  /\ UNCHANGED <<keyClock, key, secrets, handed, promised, revocation>>

(* The policy answers; no verification is remembered across it.            *)
PolicyAnswers(c) ==
  /\ uses[c].pc = "policy"
  /\ uses' = [uses EXCEPT ![c].pc = "second", ![c].dead = DeadForAll(uses[c].secret)]
  /\ UNCHANGED <<keyClock, key, secrets, handed, promised, revocation>>

UseEnds(c) == /\ uses[c].pc # "idle" /\ uses' = [uses EXCEPT ![c] = NoUse]
              /\ UNCHANGED <<keyClock, key, secrets, handed, promised, revocation>>

UseStep(c) == \/ BeginUse(c) \/ PolicyAnswers(c) \/ UseEnds(c)
              \/ ReadKey(c, "first", "active") \/ ReadKey(c, "active", "policy")
              \/ ReadKey(c, "second", "still") \/ ReadKey(c, "still", "used")

KeysNext == \/ KeyTick \/ RevokeKey
            \/ \E t \in ServiceTimes : IssueKey(t)
            \/ \E r \in 0 .. key.revision, o \in Overlaps : RotateKey(r, o)
            \/ \E c \in KeyCalls : UseStep(c)

KeysSpec == KeysInit /\ [][KeysNext]_keyVars

-----------------------------------------------------------------------------
(* A use is allowed only with a credential that was still good when the    *)
(* policy had answered, although it may have been revoked or rotated while *)
(* the policy was asked (use).                                             *)
UseIsCurrent == \A c \in KeyCalls : uses[c].pc = "used" => ~uses[c].dead

(* An overlap that rotate announced is kept: until then, by the store's    *)
(* clock, the credential is good unless the key was revoked or is over,    *)
(* and from then on, by a service's clock, it is not (rotationPredicate's  *)
(* open overlap, rotationValues).                                          *)
OverlapIsKept ==
  \A p \in promised : \A now \in ServiceTimes :
     ~key.revoked /\ key.expiresAt > now => /\ keyClock < p[2] => Verifies(p[1], now)
                                            /\ now >= p[2] => ~Verifies(p[1], now)

(* A revision's credential is handed to one caller, and a confirmed        *)
(* revocation leaves none that verifies (create, rotate, revoke).          *)
HandedOnce == /\ \A h, i \in handed : h[1] = i[1] => h = i
              /\ revocation => \A h \in handed : DeadForAll(h[2])

KeysAreSound == UseIsCurrent /\ OverlapIsKept /\ HandedOnce
=============================================================================
