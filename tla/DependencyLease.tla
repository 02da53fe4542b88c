---------------------------- MODULE DependencyLease ----------------------------
(***************************************************************************)
(* What the tasks of server/services/task.js promise each other, without   *)
(* processes, timers or exit codes: a task holds a lease on each task it   *)
(* depends on from its creation until it ends.  A task that is no panel    *)
(* task is brought down by the loss of its last lease, at once; losing a   *)
(* lease that is not the last one, or being a panel task, never brings a   *)
(* task down; a task gives up its leases before it is down.                *)
(***************************************************************************)
CONSTANTS
  Task,    \* the tasks
  Needs,   \* Needs[t]: the tasks t holds a lease on
  Root     \* panel tasks

VARIABLES phase, holders

leaseVars == <<phase, holders>>

Phase == {"absent", "up", "ending", "down"}

LeaseTypeOK ==
  /\ phase \in [Task -> Phase]
  /\ holders \in [Task -> SUBSET Task]

LeaseInit ==
  /\ phase = [t \in Task |-> "absent"]
  /\ holders = [t \in Task |-> {}]

Lives(t) == phase[t] \in {"up", "ending"}

\* A task appears and takes its leases.
Arrive(t) ==
  /\ phase[t] = "absent"
  /\ \A d \in Needs[t] : phase[d] # "absent"
  /\ phase' = [phase EXCEPT ![t] = "up"]
  /\ holders' = [d \in Task |-> IF d \in Needs[t] THEN holders[d] \cup {t}
                                                  ELSE holders[d]]

\* A task ends for a reason of its own: its child, a user, a timer.
End(t) ==
  /\ phase[t] = "up"
  /\ phase' = [phase EXCEPT ![t] = "ending"]
  /\ UNCHANGED holders

\* An ending task gives up one lease; the last one takes the task along.
GiveUpLease(p, d) ==
  /\ phase[p] = "ending" /\ p \in holders[d]
  /\ holders' = [holders EXCEPT ![d] = @ \ {p}]
  /\ phase' = [phase EXCEPT ![d] =
       IF @ = "up" /\ d \notin Root /\ ~\E q \in holders[d] \ {p} : Lives(q)
       THEN "ending" ELSE @]

\* Only a task that holds no lease any more is down.
GoDown(t) ==
  /\ phase[t] = "ending"
  /\ \A d \in Task : t \notin holders[d]
  /\ phase' = [phase EXCEPT ![t] = "down"]
  /\ UNCHANGED holders

\* A task that was stopped before its turn came and that needs no other task
\* is brought up again when a holder, or the dev proxy, comes to start it.
Revive(t) ==
  /\ phase[t] = "down" /\ Needs[t] = {}
  /\ \/ t \in Root \/ \A p \in Task : t \notin Needs[p]
     \/ \E p \in holders[t] : phase[p] = "up"
  /\ phase' = [phase EXCEPT ![t] = "up"]
  /\ UNCHANGED holders

LeaseNext ==
  \E t \in Task :
    \/ Arrive(t) \/ End(t) \/ GoDown(t) \/ Revive(t)
    \/ \E d \in Task : GiveUpLease(t, d)

LeaseSpec == LeaseInit /\ [][LeaseNext]_leaseVars

=============================================================================
