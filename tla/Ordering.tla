------------------------------- MODULE Ordering -------------------------------
(***************************************************************************)
(* The ordering contract of one MLS group: the map epoch -> decided Commit *)
(* as a single-valued register that the first valid writer wins.  It is    *)
(* MemorySequencer (ironcore/sequencer/sequencer.go), whose AcceptCommit   *)
(* runs under one mutex and is therefore one step; LeasedSpec is what      *)
(* FencedSequencer keeps of it.                                            *)
(*                                                                         *)
(* A group id is fixed: seqKey is injective in (group, epoch), so groups   *)
(* do not interact.  A CommitRef is compared by equality only.             *)
(***************************************************************************)
EXTENDS Integers

CONSTANTS Epochs,   \* epochs that commits are submitted for
          Refs,     \* commit references
          NoRef     \* an undecided slot

ASSUME NoRefAssumption == NoRef \notin Refs

VARIABLES decided,  \* MemorySequencer.decided, NoRef where the map has no key
          acked,    \* history: the <<epoch, ref>> answered (true, nil)
          refused   \* history: the <<epoch, ref>> answered (false, nil)

ovars == <<decided, acked, refused>>

TypeOK ==
    /\ decided \in [Epochs -> Refs \union {NoRef}]
    /\ acked \subseteq Epochs \X Refs
    /\ refused \subseteq Epochs \X Refs

Init ==
    /\ decided = [e \in Epochs |-> NoRef]
    /\ acked = {}
    /\ refused = {}

-----------------------------------------------------------------------------
(* Mutant: the last writer wins.                                            *)
AcceptCommit_LastWriterWins(e, c) ==
    /\ decided' = [decided EXCEPT ![e] = c]
    /\ acked' = acked \union {<<e, c>>}
    /\ UNCHANGED refused

-----------------------------------------------------------------------------
(* AcceptCommit: a fresh slot takes the commit; a decided slot answers     *)
(* whether it holds the same commit.                                       *)
AcceptCommit(e, c) ==
    /\ decided' = [decided EXCEPT ![e] = IF @ = NoRef THEN c ELSE @]
    /\ IF decided[e] \in {NoRef, c}
       THEN acked' = acked \union {<<e, c>>} /\ UNCHANGED refused
       ELSE refused' = refused \union {<<e, c>>} /\ UNCHANGED acked

Next == \E e \in Epochs, c \in Refs : AcceptCommit(e, c)

Spec == Init /\ [][Next]_ovars

(* What is left of the contract when the authority is leased: a reflector   *)
(* that another one's lease keeps out answers (false, nil) without asking   *)
(* the register, even for the commit that the register holds.               *)
FencedOut(e, c) ==
    /\ refused' = refused \union {<<e, c>>}
    /\ UNCHANGED <<decided, acked>>

LeasedNext == Next \/ \E e \in Epochs, c \in Refs : FencedOut(e, c)

LeasedSpec == Init /\ [][LeasedNext]_ovars

-----------------------------------------------------------------------------
(* Section 5.1 of the design: for every epoch at most one Commit is ever   *)
(* reported as accepted, to any caller, and it is the one in the register. *)
Agreement ==
    \A a, b \in acked : a[1] = b[1] => a[2] = b[2] /\ decided[a[1]] = a[2]

(* AcceptCommit's answer for a commit never changes: what one call accepts *)
(* no later call refuses, and a refused commit is never accepted later.    *)
(* This is Spec's; LeasedSpec has lost it.                                 *)
AnswersStable == acked \intersect refused = {}

(* A decided slot is immutable (the defensive copies of cloneRef and the   *)
(* first-writer check): no step changes or clears it.                      *)
DecidedOnce == [][\A e \in Epochs : decided[e] # NoRef => decided'[e] = decided[e]]_ovars
=============================================================================
