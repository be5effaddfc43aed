------------------------------ MODULE MCAccess ------------------------------
(***************************************************************************)
(* Small instances of the components that keep credentials and files,      *)
(* checked in one run.  They share no state: each behavior is of one       *)
(* component, chosen at the start.                                         *)
(***************************************************************************)
EXTENDS Sessions, OAuthGrants, ApiKeys, Files, LocalStore, TLC

CONSTANTS c1, c2, p1, p2

VARIABLE part    \* the component that this behavior is of

MCLifetime == p1 :> [idle |-> 2, absolute |-> 4, renewAfter |-> 1]
           @@ p2 :> [idle |-> 3, absolute |-> 3, renewAfter |-> 1]
MCBehind == p1 :> 0 @@ p2 :> 1
CallSymmetry == Permutations({c1, c2})

AccessInit == /\ part \in {"sessions", "oauth", "keys", "files", "objects"}
              /\ SessionsInit /\ OAuthInit /\ KeysInit /\ FilesInit /\ LocalInit

accessVars == <<part, authVars, oauthVars, keyVars, fileVars, localVars>>

Only(name, next, others) == part = name /\ next /\ UNCHANGED <<part, others>>

AccessNext == \/ Only("sessions", SessionsNext, <<oauthVars, keyVars, fileVars, localVars>>)
              \/ Only("oauth", OAuthNext, <<authVars, keyVars, fileVars, localVars>>)
              \/ Only("keys", KeysNext, <<authVars, oauthVars, fileVars, localVars>>)
              \/ Only("files", FilesNext, <<authVars, oauthVars, keyVars, localVars>>)
              \/ Only("objects", LocalNext, <<authVars, oauthVars, keyVars, fileVars>>)

AccessSpec == AccessInit /\ [][AccessNext]_accessVars

(* What is stored stays whole: a file's row and its object, although PUTs  *)
(* land late (Files' FileKeepsItsObject), and an object's directory,       *)
(* although inode numbers are given again (LocalStore's ObjectsAreWhole,   *)
(* which names the one case where that escapes a reader).                  *)
StorageIsSound == FileKeepsItsObject /\ ObjectsAreWhole

(* What gives access ends for good and is handed out once: sessions,       *)
(* grants with their tokens, and keys (Sessions' SessionEndsForGood,       *)
(* OAuthGrants' GrantsAreSound, ApiKeys' KeysAreSound).                    *)
CredentialsEndForGood == SessionEndsForGood /\ []GrantsAreSound /\ []KeysAreSound
=============================================================================
