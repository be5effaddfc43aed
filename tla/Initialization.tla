--------------------------- MODULE Initialization ---------------------------
(***************************************************************************)
(* First initialization (packages/lenso, initialization.ts): apply() and   *)
(* activate() of several processes over one database, and the callbacks    *)
(* the host provides: read, commit, check, activate and complete.          *)
(*                                                                         *)
(* Each await is a step; a callback may fail, with or without its effect,  *)
(* and a process may die.  The callbacks are external, modelled by what    *)
(* their declarations ask of them: commit reserves the first owner and is  *)
(* idempotent, complete compares the revision.  A record's revision stands *)
(* and falls with its request.  Abstracted: the input and the blockers'    *)
(* details; status() and assertReady() only read.                          *)
(*                                                                         *)
(* Definitions introduced by `Slip:' are not part of the model: each is a  *)
(* plausible mistake in the definition that follows it, and the mutation   *)
(* runs check that some property notices it.                               *)
(***************************************************************************)
EXTENDS Integers

CONSTANTS Requests,        \* request ids of apply()
          SetupCalls,      \* slots for calls
          MaxSetupFaults   \* bound: failing callbacks and crashes

VARIABLES setup,        \* the stored record
          hostActive,   \* the host's activation has succeeded for it
          blocked,      \* there are blockers: the environment is not configured
          setupCalls,
          confirmed,    \* requests whose apply() was answered with a ready status
          setupFaults

setupVars == <<setup, hostActive, blocked, setupCalls, confirmed, setupFaults>>

NoSetup == [request |-> 0, activated |-> FALSE]
NoSetupCall == [pc |-> "idle", request |-> 0, record |-> NoSetup]

SetupInit == /\ setup = NoSetup /\ hostActive = FALSE /\ blocked \in BOOLEAN
             /\ setupCalls = [c \in SetupCalls |-> NoSetupCall]
             /\ confirmed = {} /\ setupFaults = 0

SetupFault == setupFaults < MaxSetupFaults /\ setupFaults' = setupFaults + 1
SetupAt(c, pc) == setupCalls[c].pc = pc
SetupGoes(c, pc, record) == setupCalls' = [setupCalls EXCEPT ![c].pc = pc, ![c].record = record]
SetupEnds(c) == setupCalls' = [setupCalls EXCEPT ![c] = NoSetupCall]

(* The environment is configured, or is no longer.                         *)
Configure == /\ blocked' = ~blocked
             /\ UNCHANGED <<setup, hostActive, setupCalls, confirmed, setupFaults>>

(* apply(request) or activate(), authorized and with valid input.          *)
Begin(c, request) ==
  /\ SetupAt(c, "idle")
  /\ setupCalls' = [setupCalls EXCEPT ![c] = [NoSetupCall EXCEPT !.pc = "read", !.request = request]]
  /\ UNCHANGED <<setup, hostActive, blocked, confirmed, setupFaults>>

(* A callback throws, authorization is refused, or the process dies.       *)
GiveUp(c) == /\ ~SetupAt(c, "idle") /\ SetupFault /\ SetupEnds(c)
             /\ UNCHANGED <<setup, hostActive, blocked, confirmed>>

ReadSetup(c) ==
  /\ SetupAt(c, "read")
  /\ LET request == setupCalls[c].request
     IN IF request = 0
        THEN IF setup = NoSetup THEN SetupEnds(c) ELSE SetupGoes(c, "inspect", setup)
        ELSE IF setup # NoSetup /\ setup.request # request THEN SetupEnds(c)   \* initialization-closed
                                                           ELSE SetupGoes(c, "before", setup)
  /\ UNCHANGED <<setup, hostActive, blocked, confirmed, setupFaults>>

BeforeCommit(c) ==
  /\ SetupAt(c, "before")
  /\ IF blocked THEN SetupEnds(c) ELSE SetupGoes(c, "commit", NoSetup)
  /\ UNCHANGED <<setup, hostActive, blocked, confirmed, setupFaults>>

(* Slip: what was committed is what this call asked for.                   *)
AcceptsAny(c, committed) == TRUE

Accepts(c, committed) == committed.request = setupCalls[c].request

(* commit: the first request is stored; a repetition, and possibly a       *)
(* competitor, gets what is stored.                                        *)
Commit(c) ==
  /\ SetupAt(c, "commit")
  /\ setup' = IF setup = NoSetup THEN [NoSetup EXCEPT !.request = setupCalls[c].request] ELSE setup
  /\ \/ /\ IF Accepts(c, setup') THEN SetupGoes(c, "inspect", setup') ELSE SetupEnds(c)
        /\ UNCHANGED setupFaults
     \/ SetupFault /\ SetupEnds(c)   \* the outcome is unknown
  /\ UNCHANGED <<hostActive, blocked, confirmed>>

(* inspect() before activation: blockers end it, and so does a record that *)
(* is activated.                                                           *)
Inspect(c) ==
  /\ SetupAt(c, "inspect")
  /\ CASE blocked -> SetupEnds(c)
       [] ~blocked /\ setupCalls[c].record.activated -> SetupGoes(c, "report", setupCalls[c].record)
       [] OTHER -> SetupGoes(c, "activate", setupCalls[c].record)
  /\ UNCHANGED <<setup, hostActive, blocked, confirmed, setupFaults>>

(* options.activate; its failure is reported as activation-failed.         *)
Activation(c) == \/ hostActive' = TRUE /\ SetupGoes(c, "complete", setupCalls[c].record)
                 \/ hostActive' = hostActive /\ SetupEnds(c)

Activate(c) == /\ SetupAt(c, "activate")
               /\ Activation(c)
               /\ UNCHANGED <<setup, blocked, confirmed, setupFaults>>

(* complete(revision), and the check that it is this record, activated.    *)
Complete(c) ==
  /\ SetupAt(c, "complete")
  /\ LET request == setupCalls[c].record.request
     IN /\ setup' = IF setup.request = request THEN [setup EXCEPT !.activated = TRUE] ELSE setup
        /\ \/ /\ IF setup'.request = request /\ setup'.activated THEN SetupGoes(c, "report", setup') ELSE SetupEnds(c)
              /\ UNCHANGED setupFaults
           \/ SetupFault /\ SetupEnds(c)   \* the outcome is unknown
  /\ UNCHANGED <<hostActive, blocked, confirmed>>

(* The last inspect().                                                     *)
Report(c) ==
  /\ SetupAt(c, "report")
  /\ confirmed' = IF blocked \/ setupCalls[c].request = 0 THEN confirmed ELSE confirmed \cup {setupCalls[c].request}
  /\ SetupEnds(c)
  /\ UNCHANGED <<setup, hostActive, blocked, setupFaults>>

-----------------------------------------------------------------------------
SetupNext == \/ Configure
             \/ \E c \in SetupCalls :
                  \/ \E request \in Requests \cup {0} : Begin(c, request)
                  \/ GiveUp(c) \/ ReadSetup(c) \/ BeforeCommit(c) \/ Commit(c) \/ Inspect(c)
                  \/ Activate(c) \/ Complete(c) \/ Report(c)

SetupSpec == SetupInit /\ [][SetupNext]_setupVars

-----------------------------------------------------------------------------
(* The application has one first owner: of requests that race, at most the *)
(* one that is stored is ever confirmed to its caller; and it counts as    *)
(* activated only after the host's activation has succeeded, although      *)
(* calls race, fail and are repeated (apply, activate).                    *)
OneFirstOwner ==
  /\ confirmed \subseteq {setup.request}
  /\ setup.activated => hostActive
=============================================================================
