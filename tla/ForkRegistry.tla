----------------------------- MODULE ForkRegistry -----------------------------
(***************************************************************************)
(* EpochAuthenticatorRegistry (ironcore/sequencer/fork.go) beside the      *)
(* ordering contract: members process commits, the one that the register   *)
(* decided or, in a partition that has no access to it, any; each reports  *)
(* the epoch authenticator of where it stands.                             *)
(*                                                                         *)
(* The epoch secret covers every commit of the branch that leads to it, so *)
(* the branch stands for the authenticator: two members have the same one  *)
(* exactly if they processed the same commits.                             *)
(***************************************************************************)
EXTENDS Ordering

CONSTANTS Members,  \* members of the group
          Astray    \* those that do not ask the register

ASSUME EpochsAssumption == Epochs \subseteq Nat \ {0}
ASSUME AstrayAssumption == Astray \subseteq Members

VARIABLES at,      \* the epoch of each member
          branch,  \* the commit that the member processed in each epoch
          seen,    \* the registry: the authenticators reported for each epoch
          reported \* history: the members that reported where they stand

fvars == <<decided, acked, refused, at, branch, seen, reported>>

Reached == Epochs \union {e + 1 : e \in Epochs} \union {1}
NoCommits == [e \in Epochs |-> NoRef]

RegistryTypeOK ==
    /\ at \in [Members -> Reached]
    /\ branch \in [Members -> [Epochs -> Refs \union {NoRef}]]
    /\ seen \in [Reached -> SUBSET [Epochs -> Refs \union {NoRef}]]
    /\ reported \subseteq Members

ForkInit ==
    /\ Init
    /\ at = [m \in Members |-> 1]
    /\ branch = [m \in Members |-> NoCommits]
    /\ seen = [e \in Reached |-> {}]
    /\ reported = {}

-----------------------------------------------------------------------------
Order ==
    /\ Next
    /\ UNCHANGED <<at, branch, seen, reported>>

(* A member processes a commit of its epoch.                                *)
Process(m, c) ==
    /\ at[m] \in Epochs
    /\ m \in Astray \/ decided[at[m]] = c
    /\ branch' = [branch EXCEPT ![m][at[m]] = c]
    /\ at' = [at EXCEPT ![m] = @ + 1]
    /\ reported' = reported \ {m}
    /\ UNCHANGED <<decided, acked, refused, seen>>

(* Mutants: the key lacks the epoch; only the last report is kept.          *)
Report_OneKey(m) ==
    /\ seen' = [e \in Reached |-> seen[e] \union {branch[m]}]
    /\ reported' = reported \union {m}
    /\ UNCHANGED <<decided, acked, refused, at, branch>>

Report_LastOnly(m) ==
    /\ seen' = [seen EXCEPT ![at[m]] = {branch[m]}]
    /\ reported' = reported \union {m}
    /\ UNCHANGED <<decided, acked, refused, at, branch>>

Report(m) ==
    /\ seen' = [seen EXCEPT ![at[m]] = @ \union {branch[m]}]
    /\ reported' = reported \union {m}
    /\ UNCHANGED <<decided, acked, refused, at, branch>>

Divergent(e) == \E a, b \in seen[e] : a # b

ForkNext ==
    \/ Order
    \/ \E m \in Members, c \in Refs : Process(m, c)
    \/ \E m \in Members : Report(m)

ForkSpec == ForkInit /\ [][ForkNext]_fvars

-----------------------------------------------------------------------------
(* Member m has processed a commit that the register has not decided.       *)
OffBranch(m) == \E e \in Epochs : branch[m][e] \notin {NoRef, decided[e]}

(* Report flags no fork while every member follows the register: two        *)
(* authenticators of one epoch mean that some member has left the decided   *)
(* branch, however late or often members report.                            *)
NoFalseFork ==
    (\E e \in Reached : Divergent(e)) => \E m \in Astray : OffBranch(m)

(* Active fork detection: members that stand on different branches of one   *)
(* epoch and have both reported are flagged, whatever was reported between. *)
ForkDetected ==
    \A m, n \in reported : at[m] = at[n] /\ branch[m] # branch[n] => Divergent(at[m])
=============================================================================
