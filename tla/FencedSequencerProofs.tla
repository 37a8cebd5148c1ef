------------------------- MODULE FencedSequencerProofs -------------------------
(***************************************************************************)
(* Proofs about the lease-fenced sequencer, for every set of reflectors,   *)
(* epochs and commits, every TTL, clock skew and bound.                    *)
(***************************************************************************)
EXTENDS FencedSequencer, TLAPS

(* The provers get more time than their defaults. *)
USE SMTT(30), ZenonT(30)

USE OwnerAssumption, RefAssumption, BoundAssumption

-----------------------------------------------------------------------------
(* The tokens: no reflector and no slot carries a token above the counter   *)
(* of the store, and no slot one above the register's highest.              *)
TokensBounded ==
    /\ \A o \in Owners : token[o] <= next
    /\ \A e \in Epochs : writer[e] <= maxToken

IInv == TypeOK /\ TokensBounded /\ TokenUnique

LEMMA InitIInv == Init => IInv
BY DEF Init, IInv, TypeOK, TokensBounded, TokenUnique, Calls, NoCall

LEMMA NextTypeOK == TypeOK /\ [Next]_vars => TypeOK'
<1> SUFFICES ASSUME TypeOK, [Next]_vars PROVE TypeOK'
    OBVIOUS
<1> USE DEF TypeOK, Calls, NoCall, storeVars, regVars, leaseVars, callVars
<1>1. CASE UNCHANGED vars
    BY <1>1 DEF vars
<1>2. ASSUME NEW o \in Owners, NEW e \in Epochs, NEW c \in Refs, Submit(o, e, c)
      PROVE  TypeOK'
    BY <1>2 DEF Submit
<1>3. ASSUME NEW o \in Owners, AcquireGranted(o) PROVE TypeOK'
    BY <1>3 DEF AcquireGranted, MintToken
<1>4. ASSUME NEW o \in Owners, AcquireRefused(o) PROVE TypeOK'
    <2>1. call[o] \in Calls
        BY <1>4 DEF AcquireRefused
    <2>2. refused' \subseteq Epochs \X Refs
        BY <1>4, <2>1 DEF AcquireRefused
    <2>3. QED
        BY <1>4, <2>2 DEF AcquireRefused, Return
<1>5. ASSUME NEW o \in Owners, AcceptFenced(o) PROVE TypeOK'
    BY <1>5 DEF AcceptFenced, Return
<1>6. ASSUME NEW o \in Owners, Accept(o) PROVE TypeOK'
    <2>1. call[o] \in Calls
        BY <1>6 DEF Accept
    <2>2. call[o].epoch \in Epochs /\ call[o].ref \in Refs
        BY <2>1
    <2>3. /\ decided' \in [Epochs -> Refs \union {NoRef}]
          /\ acked' \subseteq Epochs \X Refs
          /\ refused' \subseteq Epochs \X Refs
          /\ writer' \in [Epochs -> Nat]
          /\ maxToken' \in Nat
        BY <1>6, <2>2 DEF Accept, Decide, NewMaxToken
    <2>4. QED
        BY <1>6, <2>3 DEF Accept, Return
<1>7. ASSUME NEW o \in Owners, Renew(o) \/ Release(o) \/ Restart(o) PROVE TypeOK'
    <2>1. CASE Renew(o)
        BY <2>1 DEF Renew
    <2>2. CASE Release(o)
        BY <2>2 DEF Release
    <2>3. CASE Restart(o)
        BY <2>3 DEF Restart
    <2>4. QED
        BY <1>7, <2>1, <2>2, <2>3
<1>8. CASE Tick
    BY <1>8 DEF Tick, Minus1
<1>9. QED
    BY <1>1, <1>2, <1>3, <1>4, <1>5, <1>6, <1>7, <1>8 DEF Next, Step

(* Only AcquireGranted mints a token and only Accept raises the register's. *)
LEMMA NextIInv == IInv /\ [Next]_vars => IInv'
<1> SUFFICES ASSUME IInv, [Next]_vars PROVE TokensBounded' /\ TokenUnique'
    BY NextTypeOK DEF IInv
<1> USE DEF IInv, TypeOK, TokensBounded, TokenUnique, storeVars, regVars, leaseVars
<1>1. CASE UNCHANGED vars
    BY <1>1 DEF vars
<1>2. ASSUME NEW o \in Owners, NEW e \in Epochs, NEW c \in Refs, Submit(o, e, c)
      PROVE  TokensBounded' /\ TokenUnique'
    BY <1>2 DEF Submit
<1>3. ASSUME NEW o \in Owners, AcquireGranted(o) PROVE TokensBounded' /\ TokenUnique'
    BY <1>3 DEF AcquireGranted, MintToken
<1>4. ASSUME NEW o \in Owners, AcquireRefused(o) \/ AcceptFenced(o)
      PROVE  TokensBounded' /\ TokenUnique'
    BY <1>4 DEF AcquireRefused, AcceptFenced
<1>5. ASSUME NEW o \in Owners, Accept(o) PROVE TokensBounded' /\ TokenUnique'
    BY <1>5 DEF Accept, NewMaxToken, Fenced
<1>6. ASSUME NEW o \in Owners, Renew(o) \/ Release(o) \/ Restart(o)
      PROVE  TokensBounded' /\ TokenUnique'
    BY <1>6 DEF Renew, Release, Restart
<1>7. CASE Tick
    BY <1>7 DEF Tick
<1>8. QED
    BY <1>1, <1>2, <1>3, <1>4, <1>5, <1>6, <1>7 DEF Next, Step

LEMMA IInvInvariant == Spec => []IInv
BY InitIInv, NextIInv, PTL DEF Spec

(* The state of store, register and sequencers keeps its type.              *)
THEOREM FencedTypeOK == Spec => []TypeOK
<1>1. IInv => TypeOK
    BY DEF IInv
<1>2. QED
    BY <1>1, IInvInvariant, PTL

(* No two reflectors ever hold the same fencing token.                      *)
THEOREM FencedTokenUnique == Spec => []TokenUnique
<1>1. IInv => TokenUnique
    BY DEF IInv
<1>2. QED
    BY <1>1, IInvInvariant, PTL

(* Once a tenure has written to the register, no older tenure decides a     *)
(* slot: the register's highest token bounds every writer, and Accept       *)
(* requires a token that is at least as high.                               *)
THEOREM FencedFencingOrder == Spec => FencingOrder
<1>1. IInv /\ [Next]_vars =>
          [\A e, f \in Epochs : decided[e] = NoRef /\ decided'[e] # NoRef
               => writer[f] <= writer'[e]]_vars
    <2> SUFFICES ASSUME IInv, Next,
                        NEW e \in Epochs, NEW f \in Epochs,
                        decided[e] = NoRef, decided'[e] # NoRef
                 PROVE  writer[f] <= writer'[e]
        OBVIOUS
    <2>1. PICK o \in Owners : Accept(o)
        BY DEF Next, Step, Submit, AcquireGranted, AcquireRefused, AcceptFenced,
               Renew, Release, Tick, Restart, regVars
    <2>2. e = call[o].epoch
        BY <2>1 DEF Accept, Decide, IInv, TypeOK
    <2>3. writer'[e] = token[o]
        BY <2>1, <2>2 DEF Accept, IInv, TypeOK
    <2>4. writer[f] <= maxToken /\ ~(token[o] < maxToken)
        BY <2>1 DEF Accept, Fenced, IInv, TokensBounded
    <2>5. QED
        BY <2>3, <2>4 DEF IInv, TypeOK
<1>2. QED
    BY <1>1, IInvInvariant, PTL DEF Spec, FencingOrder

-----------------------------------------------------------------------------
(* The fenced sequencers implement the leased ordering contract: an Accept  *)
(* is an AcceptCommit of Ordering, a refused Acquire is a FencedOut, every  *)
(* other step changes neither the register nor what callers were told.      *)
THEOREM FencedImplementsLeasedOrdering == Spec => ImplementsLeasedOrdering
<1>1. Init => O!Init
    BY DEF Init, O!Init
<1>2. IInv /\ [Next]_vars => [O!LeasedNext]_(O!ovars)
    <2> SUFFICES ASSUME IInv, [Next]_vars PROVE O!LeasedNext \/ UNCHANGED O!ovars
        OBVIOUS
    <2> USE DEF O!ovars, regVars
    <2>1. ASSUME NEW o \in Owners, Accept(o) PROVE O!LeasedNext
        <3> DEFINE e == call[o].epoch
                   c == call[o].ref
        <3>1. e \in Epochs /\ c \in Refs
            BY <2>1 DEF Accept, IInv, TypeOK, Calls
        <3>2. O!AcceptCommit(e, c)
            BY <2>1 DEF Accept, Decide, O!AcceptCommit
        <3>3. QED
            BY <3>1, <3>2 DEF O!Next, O!LeasedNext
    <2>2. ASSUME NEW o \in Owners, AcquireRefused(o) PROVE O!LeasedNext
        <3> DEFINE e == call[o].epoch
                   c == call[o].ref
        <3>1. e \in Epochs /\ c \in Refs
            BY <2>2 DEF AcquireRefused, IInv, TypeOK, Calls
        <3>2. O!FencedOut(e, c)
            BY <2>2 DEF AcquireRefused, O!FencedOut
        <3>3. QED
            BY <3>1, <3>2 DEF O!LeasedNext
    <2>3. CASE UNCHANGED vars
        BY <2>3 DEF vars
    <2>4. ASSUME NEW o \in Owners, NEW e \in Epochs, NEW c \in Refs, Submit(o, e, c)
          PROVE  UNCHANGED O!ovars
        BY <2>4 DEF Submit
    <2>5. ASSUME NEW o \in Owners, AcquireGranted(o) \/ AcceptFenced(o)
          PROVE  UNCHANGED O!ovars
        BY <2>5 DEF AcquireGranted, AcceptFenced
    <2>6. ASSUME NEW o \in Owners, Renew(o) \/ Release(o) \/ Restart(o)
          PROVE  UNCHANGED O!ovars
        BY <2>6 DEF Renew, Release, Restart
    <2>7. CASE Tick
        BY <2>7 DEF Tick
    <2>8. QED
        BY <2>1, <2>2, <2>3, <2>4, <2>5, <2>6, <2>7 DEF Next, Step
<1>3. QED
    BY <1>1, <1>2, IInvInvariant, PTL DEF Spec, ImplementsLeasedOrdering, O!LeasedSpec

(* A commit was acknowledged only if it is the decided one.                 *)
AckedDecided == \A e \in Epochs, c \in Refs : <<e, c>> \in acked => decided[e] = c

LEMMA AcceptAckedDecided ==
    ASSUME TypeOK, AckedDecided, NEW o \in Owners, Accept(o)
    PROVE  AckedDecided'
<1>1. PICK e, c : e = call[o].epoch /\ c = call[o].ref
    OBVIOUS
<1>2. e \in Epochs /\ c \in Refs
    BY <1>1 DEF Accept, TypeOK, Calls
<1>3. CASE decided[e] \in {NoRef, c}
    <2>1. acked' = acked \union {<<e, c>>} /\ decided' = [decided EXCEPT ![e] = c]
        BY <1>1, <1>2, <1>3 DEF Accept, Decide, TypeOK
    <2>2. QED
        BY <1>2, <1>3, <2>1 DEF AckedDecided, TypeOK
<1>4. CASE decided[e] \notin {NoRef, c}
    <2>1. acked' = acked /\ decided' = decided
        BY <1>1, <1>2, <1>4 DEF Accept, Decide, TypeOK
    <2>2. QED
        BY <2>1 DEF AckedDecided
<1>5. QED
    BY <1>3, <1>4

(* No two reflectors report different commits of one epoch as accepted,     *)
(* whatever they answer to the callers they keep out: only Accept answers   *)
(* true, and what it acknowledges is in the register for good.              *)
THEOREM FencedAgreement == Spec => []AgreementAcross
<1>1. Init => AckedDecided
    BY DEF Init, AckedDecided
<1>2. TypeOK /\ AckedDecided /\ [Next]_vars => AckedDecided'
    <2> SUFFICES ASSUME TypeOK, AckedDecided, [Next]_vars PROVE AckedDecided'
        OBVIOUS
    <2>1. ASSUME NEW o \in Owners, Accept(o) PROVE AckedDecided'
        BY <2>1, AcceptAckedDecided
    <2>2. CASE \A o \in Owners : ~Accept(o)
        <3>1. UNCHANGED <<decided, acked>>
            BY <2>2 DEF Next, Step, vars, Submit, AcquireGranted, AcquireRefused,
                        AcceptFenced, Renew, Release, Restart, Tick, regVars
        <3>2. QED
            BY <3>1 DEF AckedDecided
    <2>3. QED
        BY <2>1, <2>2
<1>3. TypeOK /\ AckedDecided => AgreementAcross
    BY DEF TypeOK, AckedDecided, AgreementAcross, O!Agreement
<1>4. QED
    BY <1>1, <1>2, <1>3, FencedTypeOK, PTL DEF Spec

-----------------------------------------------------------------------------
(* A lease that a sequencer is sure of is the one the store holds, and the  *)
(* store's copy lasts as long, up to the difference of the clocks.          *)
BeliefBacked ==
    \A o \in Owners : Sure(o) => heldBy = o /\ left[o] <= heldLeft + MaxSkew

(* Whatever the clocks, two reflectors are never both sure that they own    *)
(* the VNI (design 5.5): who acquires the lease finds it expired, and then  *)
(* what is left of the old holder's belief is within the clocks' difference.*)
THEOREM FencedExclusiveBelief == Spec => []ExclusiveBelief
<1> USE DEF BeliefBacked, Sure, TypeOK, storeVars, regVars, leaseVars
<1>1. Init => BeliefBacked
    BY DEF Init
<1>2. TypeOK /\ BeliefBacked /\ [Next]_vars => BeliefBacked'
    <2> SUFFICES ASSUME TypeOK, BeliefBacked, [Next]_vars PROVE BeliefBacked'
        OBVIOUS
    <2>1. CASE UNCHANGED vars
        BY <2>1 DEF vars
    <2>2. ASSUME NEW o \in Owners, NEW e \in Epochs, NEW c \in Refs, Submit(o, e, c)
          PROVE  BeliefBacked'
        BY <2>2 DEF Submit
    <2>3. ASSUME NEW o \in Owners, AcquireGranted(o) PROVE BeliefBacked'
        <3>1. \A p \in Owners \ {o} : ~Sure(p)
            BY <2>3 DEF AcquireGranted, HeldByOther, Valid
        <3>2. left'[o] <= TTL + MaxSkew
            BY <2>3 DEF AcquireGranted
        <3>3. QED
            BY <2>3, <3>1, <3>2 DEF AcquireGranted
    <2>4. ASSUME NEW o \in Owners, AcquireRefused(o) \/ AcceptFenced(o) \/ Accept(o)
          PROVE  BeliefBacked'
        BY <2>4 DEF AcquireRefused, AcceptFenced, Accept
    <2>5. ASSUME NEW o \in Owners, Renew(o) PROVE BeliefBacked'
        BY <2>5 DEF Renew
    <2>6. ASSUME NEW o \in Owners, Release(o) PROVE BeliefBacked'
        BY <2>6 DEF Release, Holds
    <2>7. ASSUME NEW o \in Owners, Restart(o) PROVE BeliefBacked'
        BY <2>7 DEF Restart
    <2>8. CASE Tick
        BY <2>8 DEF Tick, Minus1
    <2>9. QED
        BY <2>1, <2>2, <2>3, <2>4, <2>5, <2>6, <2>7, <2>8 DEF Next, Step
<1>3. BeliefBacked => ExclusiveBelief
    BY DEF ExclusiveBelief
<1>4. QED
    BY <1>1, <1>2, <1>3, FencedTypeOK, PTL DEF Spec
=============================================================================
