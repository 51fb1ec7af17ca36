------------------------------ MODULE LeasedWork ------------------------------
(***************************************************************************)
(* What the job queues of the control plane promise about one piece of     *)
(* work.  It is offered, a process takes it under a lease and finishes it; *)
(* a lease that is not renewed lapses, and only then is the work recovered *)
(* from a process that may be dead.  The work is taken within a budget     *)
(* that only a new offer enlarges.                                         *)
(*                                                                         *)
(* A process that lost the work is not stopped: it stays in working until  *)
(* it ends, and only the process of the latest take may finish the work.   *)
(*                                                                         *)
(* The concrete queues write what they read some time ago.  Two steps say  *)
(* what such a late write may do: work that was withdrawn in the meantime  *)
(* may be revived, and nothing else.                                       *)
(***************************************************************************)
EXTENDS Naturals

CONSTANT MaxTakes  \* how often an offer may be taken

VARIABLES
  phase,    \* "none", "offered", "held" or "closed"
  lease,    \* "none" unless held; "live" or "lapsed"
  takes,    \* how often the work was taken; a take is named by its number
  budget,   \* how often it may be taken
  working   \* the takes some process still works under

workVars == <<phase, lease, takes, budget, working>>

WorkInit == /\ phase = "none" /\ lease = "none"
            /\ takes = 0 /\ budget = 0 /\ working = {}

\* A new offer; work that was closed before may be taken once more.
Offer == /\ phase \in {"none", "closed"}
         /\ phase' = "offered"
         /\ budget' = IF phase = "none" THEN MaxTakes ELSE budget + 1
         /\ UNCHANGED <<lease, takes, working>>

Take == /\ phase = "offered" /\ takes < budget
        /\ phase' = "held" /\ lease' = "live"
        /\ takes' = takes + 1 /\ working' = working \cup {takes'}
        /\ UNCHANGED budget

Lapse == /\ lease = "live" /\ lease' = "lapsed"
         /\ UNCHANGED <<phase, takes, budget, working>>

\* The process of the latest take closes the work or gives it back, even when
\* its lease has lapsed and even when the work was withdrawn under it.
Finish(t) == /\ t \in working /\ t = takes /\ phase \in {"held", "closed"}
             /\ phase' \in {"offered", "closed"} /\ lease' = "none"
             /\ working' = working \ {t}
             /\ UNCHANGED <<takes, budget>>

\* A process ends without a word: it crashed, or it found its take lost.
Leave(t) == /\ t \in working /\ working' = working \ {t}
            /\ UNCHANGED <<phase, lease, takes, budget>>

\* Work is taken from a process only once its lease has lapsed.
Recover == /\ phase = "held" /\ lease = "lapsed"
           /\ phase' \in {"offered", "closed"} /\ lease' = "none"
           /\ UNCHANGED <<takes, budget, working>>

Withdraw == /\ phase \in {"offered", "held"}
            /\ phase' = "closed" /\ lease' = "none"
            /\ UNCHANGED <<takes, budget, working>>

\* A recovery that read the work before it was withdrawn offers it again.
Revive == /\ phase = "closed" /\ phase' = "offered"
          /\ UNCHANGED <<lease, takes, budget, working>>

WorkNext == \/ Offer \/ Take \/ Lapse \/ Recover \/ Withdraw \/ Revive
            \/ \E t \in working : Finish(t) \/ Leave(t)

WorkSpec == WorkInit /\ [][WorkNext]_workVars
=============================================================================
