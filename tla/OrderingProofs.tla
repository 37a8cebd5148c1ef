---------------------------- MODULE OrderingProofs ----------------------------
(***************************************************************************)
(* Proofs about the ordering contract and the fork registry, for every set *)
(* of epochs, refs, members and members astray.                            *)
(* Agreement and AnswersStable are not inductive: they follow from what    *)
(* the histories say about the register, AnswersMatch.                     *)
(***************************************************************************)
EXTENDS ForkRegistry, TLAPS

(* The provers get more time than their defaults. *)
USE SMTT(30), ZenonT(30)

(* A commit was acknowledged only if it is the decided one, and refused     *)
(* only if another one is.                                                  *)
AnswersMatch ==
    /\ \A e \in Epochs, c \in Refs : <<e, c>> \in acked => decided[e] = c
    /\ \A e \in Epochs, c \in Refs :
          <<e, c>> \in refused => decided[e] # NoRef /\ decided[e] # c

IInv == TypeOK /\ AnswersMatch

LEMMA InitIInv == Init => IInv
BY DEF Init, IInv, TypeOK, AnswersMatch

(* AcceptCommit preserves the match of answers and register.                *)
LEMMA NextIInv == IInv /\ [Next]_ovars => IInv'
<1> SUFFICES ASSUME IInv, [Next]_ovars PROVE IInv'
    OBVIOUS
<1>1. CASE UNCHANGED ovars
    BY <1>1 DEF IInv, TypeOK, AnswersMatch, ovars
<1>2. ASSUME NEW e \in Epochs, NEW c \in Refs, AcceptCommit(e, c)
      PROVE  IInv'
    <2>1. TypeOK'
        BY <1>2 DEF IInv, TypeOK, AcceptCommit
    <2>2. AnswersMatch'
        <3>1. CASE decided[e] \in {NoRef, c}
            BY <1>2, <3>1, NoRefAssumption DEF IInv, TypeOK, AnswersMatch, AcceptCommit
        <3>2. CASE decided[e] \notin {NoRef, c}
            BY <1>2, <3>2, NoRefAssumption DEF IInv, TypeOK, AnswersMatch, AcceptCommit
        <3>3. QED
            BY <3>1, <3>2
    <2>3. QED
        BY <2>1, <2>2 DEF IInv
<1>3. QED
    BY <1>1, <1>2 DEF Next

LEMMA IInvInvariant == Spec => []IInv
BY InitIInv, NextIInv, PTL DEF Spec

(* The register holds one commit, or none, for every epoch.                 *)
THEOREM OrderingTypeOK == Spec => []TypeOK
<1>1. IInv => TypeOK
    BY DEF IInv
<1>2. QED
    BY <1>1, IInvInvariant, PTL

(* MemorySequencer never acknowledges two commits for one epoch.            *)
THEOREM OrderingAgreement == Spec => []Agreement
<1>1. IInv => Agreement
    BY DEF IInv, TypeOK, AnswersMatch, Agreement
<1>2. QED
    BY <1>1, IInvInvariant, PTL

(* MemorySequencer's answer for a commit never changes.                     *)
THEOREM OrderingAnswersStable == Spec => []AnswersStable
<1>1. IInv => AnswersStable
    BY DEF IInv, TypeOK, AnswersMatch, AnswersStable
<1>2. QED
    BY <1>1, IInvInvariant, PTL

(* MemorySequencer never changes or clears a decided slot.                  *)
THEOREM OrderingDecidedOnce == Spec => DecidedOnce
<1>1. TypeOK /\ [Next]_ovars =>
          [\A e \in Epochs : decided[e] # NoRef => decided'[e] = decided[e]]_ovars
    BY DEF TypeOK, Next, AcceptCommit, ovars
<1>2. IInv => TypeOK
    BY DEF IInv
<1>3. QED
    BY <1>1, <1>2, IInvInvariant, PTL DEF Spec, DecidedOnce

-----------------------------------------------------------------------------
(* Fork detection.  NoFalseFork is not inductive: it needs that a member    *)
(* has processed one commit in each epoch it has passed, that those who ask *)
(* the register processed decided ones, and that what is filed under an     *)
(* epoch is what some member had processed up to it.                        *)

Passed ==
    \A m \in Members, e \in Epochs : branch[m][e] # NoRef <=> e < at[m]

Follows ==
    \A m \in Members \ Astray, e \in Epochs : branch[m][e] \in {NoRef, decided[e]}

UpTo(m, e) == [i \in Epochs |-> IF i < e THEN branch[m][i] ELSE NoRef]

Filed ==
    \A e \in Reached : \A a \in seen[e] :
        \E m \in Members : at[m] >= e /\ a = UpTo(m, e)

Registered == \A m \in reported : branch[m] \in seen[at[m]]

ForkInv == TypeOK /\ RegistryTypeOK /\ Passed /\ Follows /\ Filed /\ Registered

LEMMA ReachedNat == Reached \subseteq Nat \ {0} /\ Epochs \subseteq Reached
<1>1. \A e \in Epochs : e \in Nat \ {0} /\ e + 1 \in Nat \ {0}
    BY EpochsAssumption
<1>2. \A x \in Reached : x \in Epochs \/ x = 1 \/ \E e \in Epochs : x = e + 1
    BY DEF Reached
<1>3. Reached \subseteq Nat \ {0}
    BY <1>1, <1>2
<1>4. QED
    BY <1>3 DEF Reached

LEMMA InitForkInv == ForkInit => ForkInv
<1> SUFFICES ASSUME ForkInit PROVE ForkInv
    OBVIOUS
<1>1. TypeOK
    BY DEF ForkInit, Init, TypeOK
<1>2. RegistryTypeOK
    BY Zenon DEF ForkInit, RegistryTypeOK, Reached, NoCommits
<1>3. Passed
    BY EpochsAssumption DEF ForkInit, Passed, NoCommits
<1>4. Follows /\ Filed /\ Registered
    BY DEF ForkInit, Follows, Filed, Registered, NoCommits
<1>5. QED
    BY <1>1, <1>2, <1>3, <1>4 DEF ForkInv

(* AcceptCommit leaves a decided slot as it is.                             *)
LEMMA OrderKeeps ==
    ASSUME TypeOK, Next
    PROVE  /\ TypeOK'
           /\ \A e \in Epochs : decided[e] # NoRef => decided'[e] = decided[e]
BY NoRefAssumption DEF TypeOK, Next, AcceptCommit

LEMMA OrderForkInv == ASSUME ForkInv, Order PROVE ForkInv'
<1>1. TypeOK' /\ \A e \in Epochs : decided[e] # NoRef => decided'[e] = decided[e]
    BY OrderKeeps DEF ForkInv, Order
<1>2. RegistryTypeOK' /\ Passed' /\ Filed' /\ Registered'
    BY DEF ForkInv, Order, RegistryTypeOK, Passed, Filed, Registered, UpTo
<1>3. Follows'
    BY <1>1 DEF ForkInv, Order, Follows
<1>4. QED
    BY <1>1, <1>2, <1>3 DEF ForkInv

LEMMA ProcessForkInv ==
    ASSUME ForkInv, NEW m \in Members, NEW c \in Refs, Process(m, c)
    PROVE  ForkInv'
<1> USE DEF ForkInv, Process
<1>1. TypeOK' /\ RegistryTypeOK'
    BY ReachedNat DEF TypeOK, RegistryTypeOK, Reached
<1>2. Passed'
    <2> SUFFICES ASSUME NEW n \in Members, NEW e \in Epochs
                 PROVE  branch'[n][e] # NoRef <=> e < at'[n]
        BY DEF Passed
    <2>1. at[m] \in Nat /\ e \in Nat
        BY ReachedNat, Zenon DEF RegistryTypeOK
    <2>2. CASE n = m
        <3>1. at'[m] = at[m] + 1 /\ branch'[m] = [branch[m] EXCEPT ![at[m]] = c]
            BY DEF RegistryTypeOK
        <3>2. branch'[m][e] = IF e = at[m] THEN c ELSE branch[m][e]
            BY <3>1 DEF RegistryTypeOK
        <3>3. branch[m][e] # NoRef <=> e < at[m]
            BY DEF Passed
        <3>4. e < at[m] + 1 <=> e < at[m] \/ e = at[m]
            BY <2>1
        <3>5. QED
            BY <2>2, <3>1, <3>2, <3>3, <3>4, NoRefAssumption
    <2>3. CASE n # m
        BY <2>3 DEF RegistryTypeOK, Passed
    <2>4. QED
        BY <2>2, <2>3
<1>3. Follows' /\ Registered'
    BY DEF RegistryTypeOK, Follows, Registered
<1>4. Filed'
    <2> SUFFICES ASSUME NEW e \in Reached, NEW a \in seen[e]
                 PROVE  \E n \in Members : at'[n] >= e /\ a = UpTo(n, e)'
        BY DEF Filed
    <2>1. PICK n \in Members : at[n] >= e /\ a = UpTo(n, e)
        BY DEF Filed
    <2>2. at[n] \in Nat /\ e \in Nat /\ at[m] \in Nat
        BY ReachedNat, Zenon DEF RegistryTypeOK
    <2>3. at'[n] >= e
        BY <2>1, <2>2 DEF RegistryTypeOK
    <2>4. \A i \in Epochs : i < e => branch'[n][i] = branch[n][i]
        BY <2>1, <2>2, ReachedNat DEF RegistryTypeOK
    <2>5. UpTo(n, e)' = UpTo(n, e)
        BY <2>4 DEF UpTo
    <2>6. QED
        BY <2>1, <2>3, <2>5
<1>5. QED
    BY <1>1, <1>2, <1>3, <1>4

LEMMA ReportForkInv ==
    ASSUME ForkInv, NEW m \in Members, Report(m)
    PROVE  ForkInv'
<1> USE DEF ForkInv, Report
<1>1. TypeOK' /\ RegistryTypeOK' /\ Passed' /\ Follows' /\ Registered'
    BY DEF TypeOK, RegistryTypeOK, Passed, Follows, Registered
<1>2. branch[m] = UpTo(m, at[m])
    BY DEF RegistryTypeOK, Passed, UpTo
<1>3. Filed'
    <2> SUFFICES ASSUME NEW e \in Reached, NEW a \in seen'[e]
                 PROVE  \E n \in Members : at[n] >= e /\ a = UpTo(n, e)
        BY DEF Filed, UpTo
    <2>1. at[m] \in Nat
        BY ReachedNat, Zenon DEF RegistryTypeOK
    <2>2. CASE a \in seen[e]
        BY <2>2 DEF Filed
    <2>3. CASE a \notin seen[e]
        BY <1>2, <2>1, <2>3 DEF RegistryTypeOK
    <2>4. QED
        BY <2>2, <2>3
<1>4. QED
    BY <1>1, <1>3

LEMMA NextForkInv == ForkInv /\ [ForkNext]_fvars => ForkInv'
<1> SUFFICES ASSUME ForkInv, [ForkNext]_fvars PROVE ForkInv'
    OBVIOUS
<1>1. CASE UNCHANGED fvars
    BY <1>1 DEF fvars, ForkInv, TypeOK, RegistryTypeOK, Passed, Follows, Filed, Registered, UpTo
<1>2. CASE ForkNext
    BY <1>2, OrderForkInv, ProcessForkInv, ReportForkInv DEF ForkNext
<1>3. QED
    BY <1>1, <1>2

LEMMA ForkInvInvariant == ForkSpec => []ForkInv
BY InitForkInv, NextForkInv, PTL DEF ForkSpec

(* Two authenticators filed under one epoch differ only if a member astray  *)
(* has left the decided branch: Report raises no false alarm.               *)
THEOREM ForkNoFalseFork == ForkSpec => []NoFalseFork
<1>1. ForkInv => NoFalseFork
    <2> SUFFICES ASSUME ForkInv,
                        NEW e \in Reached, NEW a \in seen[e], NEW b \in seen[e],
                        \A m \in Astray : ~OffBranch(m)
                 PROVE  a = b
        BY DEF NoFalseFork, Divergent
    <2>1. \A m \in Members, i \in Epochs : branch[m][i] \in {NoRef, decided[i]}
        BY DEF ForkInv, Follows, OffBranch
    <2>2. PICK m \in Members : at[m] >= e /\ a = UpTo(m, e)
        BY DEF ForkInv, Filed
    <2>3. PICK n \in Members : at[n] >= e /\ b = UpTo(n, e)
        BY DEF ForkInv, Filed
    <2>4. at[m] \in Nat /\ at[n] \in Nat /\ e \in Nat /\ Epochs \subseteq Nat
        BY ReachedNat, Zenon DEF ForkInv, RegistryTypeOK
    <2>5. \A i \in Epochs : i < e => branch[m][i] = decided[i] /\ branch[n][i] = decided[i]
        <3> SUFFICES ASSUME NEW i \in Epochs, i < e
                     PROVE  branch[m][i] = decided[i] /\ branch[n][i] = decided[i]
            OBVIOUS
        <3>1. i < at[m] /\ i < at[n]
            BY <2>2, <2>3, <2>4
        <3>2. branch[m][i] # NoRef /\ branch[n][i] # NoRef
            BY <3>1 DEF ForkInv, Passed
        <3>3. QED
            BY <2>1, <3>2
    <2>6. QED
        BY <2>2, <2>3, <2>5 DEF UpTo
<1>2. QED
    BY <1>1, ForkInvInvariant, PTL

(* Two members that have reported from different branches of one epoch are  *)
(* always flagged: Report misses no fork.                                   *)
THEOREM ForkForkDetected == ForkSpec => []ForkDetected
<1>1. ForkInv => ForkDetected
    BY DEF ForkInv, Registered, ForkDetected, Divergent
<1>2. QED
    BY <1>1, ForkInvInvariant, PTL
=============================================================================
