---------------------------- MODULE JobLifecycle ----------------------------
(***************************************************************************)
(* What the ingestion queue promises of a job, with no workers, no leases, *)
(* no clock and no lost messages: a job is attempted at most MaxAttempts   *)
(* times, one attempt after the other; it succeeds only if the handler     *)
(* returned in the attempt under way; and success and exhaustion are       *)
(* final.  IngestionQueue implements it.                                   *)
(***************************************************************************)
EXTENDS Naturals

CONSTANTS Jobs, MaxAttempts

VARIABLES
    phase,  \* where each job is
    tries,  \* attempts begun
    done    \* the jobs whose handler returned in the attempt under way

vars == <<phase, tries, done>>

Init ==
    /\ phase = [j \in Jobs |-> "absent"]
    /\ tries = [j \in Jobs |-> 0]
    /\ done = {}

Submit(j) ==
    /\ phase[j] = "absent"
    /\ phase' = [phase EXCEPT ![j] = "waiting"]
    /\ UNCHANGED <<tries, done>>

Begin(j) ==
    /\ phase[j] = "waiting"
    /\ tries[j] < MaxAttempts
    /\ phase' = [phase EXCEPT ![j] = "running"]
    /\ tries' = [tries EXCEPT ![j] = @ + 1]
    /\ UNCHANGED done

HandlerDone(j) ==
    /\ phase[j] = "running"
    /\ done' = done \cup {j}
    /\ UNCHANGED <<phase, tries>>

Complete(j) ==
    /\ phase[j] = "running" /\ j \in done
    /\ phase' = [phase EXCEPT ![j] = "succeeded"]
    /\ done' = done \ {j}
    /\ UNCHANGED tries

\* The attempts under way of the jobs in S end without success, all at once.
GiveUp(S) ==
    /\ \A j \in S : phase[j] = "running"
    /\ phase' = [j \in Jobs |-> IF j \notin S THEN phase[j]
                                ELSE IF tries[j] = MaxAttempts THEN "dead_letter"
                                ELSE "waiting"]
    /\ done' = done \ S
    /\ UNCHANGED tries

Next ==
    \/ \E j \in Jobs : Submit(j) \/ Begin(j) \/ HandlerDone(j) \/ Complete(j)
    \/ \E S \in SUBSET Jobs : GiveUp(S)

Spec == Init /\ [][Next]_vars
=============================================================================
