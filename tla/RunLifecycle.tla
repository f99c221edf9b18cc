---------------------------- MODULE RunLifecycle ----------------------------
(***************************************************************************)
(* What the run API promises, without tables, threads or crashes: a run is *)
(* queued, picked up by the one executor, completes the stages of the plan *)
(* one by one in plan order, never twice, and ends failed or ready; ready  *)
(* only when every stage is done.  A client may queue any run again, and   *)
(* the executor may lose the run it holds.                                 *)
(***************************************************************************)
EXTENDS Naturals, Sequences

CONSTANTS
  Runs, NoRun,
  Plan,     \* the plan, which may name steps that are nobody's work
  Stages    \* the entries of the plan that have to be done

VARIABLES
  phase,    \* of each run
  done,     \* the stages each run has completed
  active    \* the run in the executor's hands, or NoRun

vars == <<phase, done, active>>

Init ==
  /\ phase = [r \in Runs |-> "absent"]
  /\ done = [r \in Runs |-> {}]
  /\ active = NoRun

Submit(r) ==
  /\ phase[r] = "absent"
  /\ phase' = [phase EXCEPT ![r] = "queued"]
  /\ UNCHANGED <<done, active>>

Requeue(r) ==
  /\ phase[r] # "absent"
  /\ phase' = [phase EXCEPT ![r] = "queued"]
  /\ UNCHANGED <<done, active>>

Take(r) ==
  /\ active = NoRun
  /\ phase[r] = "queued"
  /\ phase' = [phase EXCEPT ![r] = "running"]
  /\ active' = r
  /\ UNCHANGED done

\* The executor claims the status back from a client that queued its run again.
Reassert(r) ==
  /\ active = r
  /\ phase' = [phase EXCEPT ![r] = "running"]
  /\ UNCHANGED <<done, active>>

Complete(r) ==
  /\ active = r
  /\ \E i \in 1..Len(Plan) :
       /\ Plan[i] \in Stages \ done[r]
       /\ \A j \in 1..(i - 1) : Plan[j] \in Stages => Plan[j] \in done[r]
       /\ done' = [done EXCEPT ![r] = @ \cup {Plan[i]}]
  /\ UNCHANGED <<phase, active>>

Fail(r) ==
  /\ active = r
  /\ phase' = [phase EXCEPT ![r] = "failed"]
  /\ active' = NoRun
  /\ UNCHANGED done

Publish(r) ==
  /\ active = r
  /\ done[r] = Stages
  /\ phase' = [phase EXCEPT ![r] = "ready_for_wiki"]
  /\ active' = NoRun
  /\ UNCHANGED done

Lose ==
  /\ active' = NoRun
  /\ UNCHANGED <<phase, done>>

Next ==
  \/ \E r \in Runs :
       \/ Submit(r) \/ Requeue(r) \/ Take(r) \/ Reassert(r)
       \/ Complete(r) \/ Fail(r) \/ Publish(r)
  \/ Lose

Spec == Init /\ [][Next]_vars

=============================================================================
