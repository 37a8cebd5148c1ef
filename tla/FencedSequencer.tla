---------------------------- MODULE FencedSequencer ----------------------------
(***************************************************************************)
(* The lease-fenced ordering authority (ironcore/sequencer/fencing.go):    *)
(* several route reflectors run a FencedSequencer for one (VNI, group);    *)
(* they share a MemoryLeaseStore and a FencedRegister.                     *)
(*                                                                         *)
(* AcceptCommit holds the sequencer's own mutex, but the store and the     *)
(* register have mutexes of their own, so one call is up to three steps    *)
(* (Submit, Acquire, Accept) and other reflectors run between them.        *)
(*                                                                         *)
(* Time is kept as what is left of a lease: Expiry - Now(), never below 0. *)
(* A lease is valid iff something is left.  A reflector's clock may differ *)
(* from the store's by MaxSkew, so what it believes is left of the lease   *)
(* it is granted differs from the TTL by up to MaxSkew.                    *)
(***************************************************************************)
EXTENDS Integers

CONSTANTS Owners,        \* route reflectors (FencedSequencer.owner)
          NoOwner,       \* no lease is held
          Standby,       \* the reflector whose takeover is examined
          Epochs, Refs, NoRef,
          Submissions,   \* the calls of AcceptCommit: pairs of epoch and commit
          TTL,           \* lease time to live
          MaxSkew,       \* bound on the difference of two clocks
          MaxToken,      \* bound: fencing tokens minted
          MaxRestarts    \* bound: reflector restarts

ASSUME OwnerAssumption == NoOwner \notin Owners /\ Standby \in Owners
ASSUME RefAssumption == NoRef \notin Refs /\ Submissions \subseteq Epochs \X Refs
ASSUME BoundAssumption ==
    /\ TTL \in Nat \ {0}
    /\ MaxSkew \in Nat
    /\ MaxToken \in Nat
    /\ MaxRestarts \in Nat

VARIABLES
    heldBy, heldToken, heldLeft,  \* MemoryLeaseStore.held
    next,                         \* MemoryLeaseStore.next
    decided, maxToken,            \* FencedRegister
    has, token, left,             \* FencedSequencer.held and .lease
    pc, call,                     \* the AcceptCommit call in progress
    restarts,
    writer, acked, refused,       \* history: the token that decided a slot,
                                  \* and the callers' answers
    released                      \* history: the reflectors whose cached
                                  \* lease was dropped by Release

storeVars == <<heldBy, heldToken, heldLeft, next>>
regVars   == <<decided, maxToken, writer, acked, refused>>
leaseVars == <<has, token, left, released>>
callVars  == <<pc, call>>
vars == <<storeVars, regVars, leaseVars, callVars, restarts>>

(* The arguments of the call in progress.                                   *)
Calls == [epoch : Epochs, ref : Refs]
NoCall == [epoch |-> 0, ref |-> NoRef]

TypeOK ==
    /\ heldBy \in Owners \union {NoOwner}
    /\ heldToken \in Nat
    /\ heldLeft \in 0 .. TTL
    /\ next \in 0 .. MaxToken
    /\ decided \in [Epochs -> Refs \union {NoRef}]
    /\ maxToken \in Nat
    /\ has \in [Owners -> BOOLEAN]
    /\ token \in [Owners -> Nat]
    /\ left \in [Owners -> 0 .. TTL + MaxSkew]
    /\ pc \in [Owners -> {"idle", "acquire", "write"}]
    /\ call \in [Owners -> Calls \union {NoCall}]
    /\ \A o \in Owners : pc[o] # "idle" => call[o] \in Calls
    /\ restarts \in 0 .. MaxRestarts
    /\ writer \in [Epochs -> Nat]
    /\ acked \subseteq Epochs \X Refs
    /\ refused \subseteq Epochs \X Refs
    /\ released \subseteq Owners

Init ==
    /\ heldBy = NoOwner /\ heldToken = 0 /\ heldLeft = 0 /\ next = 0
    /\ decided = [e \in Epochs |-> NoRef] /\ maxToken = 0
    /\ has = [o \in Owners |-> FALSE]
    /\ token = [o \in Owners |-> 0]
    /\ left = [o \in Owners |-> 0]
    /\ pc = [o \in Owners |-> "idle"]
    /\ call = [o \in Owners |-> NoCall]
    /\ restarts = 0
    /\ writer = [e \in Epochs |-> 0] /\ acked = {} /\ refused = {} /\ released = {}

-----------------------------------------------------------------------------
(* FencedSequencer.AcceptCommit                                             *)

Valid(l) == l > 0

(* AcceptCommit is called: the cached lease is used while it looks valid.   *)
Submit(o, e, c) ==
    /\ pc[o] = "idle"
    /\ call' = [call EXCEPT ![o] = [epoch |-> e, ref |-> c]]
    /\ pc' = [pc EXCEPT ![o] = IF has[o] /\ Valid(left[o]) THEN "write" ELSE "acquire"]
    /\ UNCHANGED <<storeVars, regVars, leaseVars, restarts>>

(* AcceptCommit returns.                                                    *)
Return(o) ==
    /\ pc' = [pc EXCEPT ![o] = "idle"]
    /\ call' = [call EXCEPT ![o] = NoCall]

(* MemoryLeaseStore.Acquire refuses o: a different owner's lease is valid.  *)
HeldByOther_IgnoresExpiry(o) == heldBy \notin {NoOwner, o}
HeldByOther_IgnoresHolder(o) == FALSE

HeldByOther(o) == heldBy \notin {NoOwner, o} /\ Valid(heldLeft)

(* MemoryLeaseStore.Acquire grants: a new token, even to the same owner.    *)
MintToken(o) == next + 1

AcquireGranted(o) ==
    /\ pc[o] = "acquire"
    /\ ~HeldByOther(o)
    /\ next < MaxToken
    /\ next' = MintToken(o)
    /\ heldBy' = o /\ heldToken' = MintToken(o) /\ heldLeft' = TTL
    /\ has' = [has EXCEPT ![o] = TRUE]
    /\ token' = [token EXCEPT ![o] = MintToken(o)]
    /\ \E l \in {x \in 0 .. TTL + MaxSkew : x >= TTL - MaxSkew} :
           left' = [left EXCEPT ![o] = l]
    /\ released' = released \ {o}
    /\ pc' = [pc EXCEPT ![o] = "write"]
    /\ UNCHANGED <<regVars, call, restarts>>

(* The caller is told (false, nil), whatever the slot holds: the register   *)
(* is not asked, and the answer is the one a lost race would give.          *)
AcquireRefused(o) ==
    /\ pc[o] = "acquire"
    /\ HeldByOther(o)
    /\ has' = [has EXCEPT ![o] = FALSE]
    /\ refused' = refused \union {<<call[o].epoch, call[o].ref>>}
    /\ Return(o)
    /\ UNCHANGED <<storeVars, decided, maxToken, writer, acked, token, left, released, restarts>>

(* FencedRegister.Accept rejects a token below the highest it has seen.     *)
Fenced_Off(o) == FALSE
Fenced(o) == token[o] < maxToken

AcceptFenced(o) ==
    /\ pc[o] = "write"
    /\ Fenced(o)
    /\ Return(o)
    /\ UNCHANGED <<storeVars, regVars, leaseVars, restarts>>

(* FencedRegister.Accept with a token that is not stale: the token is       *)
(* remembered even when the slot is decided already.                        *)
NewMaxToken(o) == token[o]

(* The register's own compare: the first writer wins, a resubmission of the *)
(* decided commit is accepted again.                                        *)
Decide_Overwrites(e, c) == decided' = [decided EXCEPT ![e] = c]
Decide(e, c) == decided' = [decided EXCEPT ![e] = IF @ = NoRef THEN c ELSE @]

Accept(o) ==
    LET e == call[o].epoch
        c == call[o].ref
        ok == decided[e] \in {NoRef, c}
    IN  /\ pc[o] = "write"
        /\ ~Fenced(o)
        /\ maxToken' = NewMaxToken(o)
        /\ Decide(e, c)
        /\ writer' = [writer EXCEPT ![e] = IF decided[e] = NoRef THEN token[o] ELSE @]
        /\ acked' = IF ok THEN acked \union {<<e, c>>} ELSE acked
        /\ refused' = IF ok THEN refused ELSE refused \union {<<e, c>>}
        /\ Return(o)
        /\ UNCHANGED <<storeVars, leaseVars, restarts>>

-----------------------------------------------------------------------------
(* The environment of the sequencers                                        *)

(* o still holds the lease with the token it caches (owner and token match).*)
Holds(o) == heldBy = o /\ heldToken = token[o]

(* MemoryLeaseStore.Renew by its holder: the store's copy is extended, even *)
(* an expired one; the sequencer's cached lease is not.                     *)
Renew(o) ==
    /\ Holds(o)
    /\ heldLeft' = TTL
    /\ UNCHANGED <<heldBy, heldToken, next, regVars, leaseVars, callVars, restarts>>

(* MemoryLeaseStore.Release by its holder: nothing tells the sequencer.     *)
Release(o) ==
    /\ Holds(o)
    /\ heldBy' = NoOwner /\ heldToken' = 0 /\ heldLeft' = 0
    /\ released' = released \union {o}
    /\ UNCHANGED <<next, regVars, has, token, left, callVars, restarts>>

(* Time passes, for the store's clock and every reflector's alike.          *)
Minus1(l) == IF l = 0 THEN 0 ELSE l - 1
Tick ==
    /\ heldLeft' = Minus1(heldLeft)
    /\ left' = [o \in Owners |-> Minus1(left[o])]
    /\ UNCHANGED <<heldBy, heldToken, next, regVars, has, token, released, callVars, restarts>>

(* A reflector restarts: NewFencedSequencer over the same store and         *)
(* register; the call it was serving gets no answer.                        *)
Restart(o) ==
    /\ restarts < MaxRestarts
    /\ restarts' = restarts + 1
    /\ has' = [has EXCEPT ![o] = FALSE]
    /\ token' = [token EXCEPT ![o] = 0]
    /\ left' = [left EXCEPT ![o] = 0]
    /\ released' = released \ {o}
    /\ pc' = [pc EXCEPT ![o] = "idle"]
    /\ call' = [call EXCEPT ![o] = NoCall]
    /\ UNCHANGED <<storeVars, regVars>>

Step(o) == AcquireGranted(o) \/ AcquireRefused(o) \/ AcceptFenced(o) \/ Accept(o)

Next ==
    \/ \E o \in Owners :
          \/ \E s \in Submissions : Submit(o, s[1], s[2])
          \/ Step(o)
          \/ Renew(o) \/ Release(o) \/ Restart(o)
    \/ Tick

Spec == Init /\ [][Next]_vars

(* Fairness: clocks advance, the standby finishes its calls, and its caller *)
(* retries.  Nothing is assumed of any other reflector.                     *)
FairSpec ==
    /\ Spec
    /\ WF_vars(Tick)
    /\ WF_vars(Step(Standby))
    /\ WF_vars(\E s \in Submissions : Submit(Standby, s[1], s[2]))

-----------------------------------------------------------------------------
(* The leased, fenced sequencers implement the ordering contract (design    *)
(* 5.1, 5.5) as far as a lease allows: whatever the clocks, restarts,       *)
(* releases and interleavings, the register is written at most once per     *)
(* epoch, true is answered for the commit it holds and only for that, and   *)
(* false is answered by the register or by a reflector without the lease,   *)
(* which leaves the register alone.                                         *)
O == INSTANCE Ordering WITH decided <- decided, acked <- acked, refused <- refused
ImplementsLeasedOrdering == O!LeasedSpec

(* At most one commit per epoch is ever reported as accepted, by whichever  *)
(* reflectors, and it is the one in the register (design 5.1).              *)
AgreementAcross == O!Agreement

(* Clock-independent safety (design 5.5): once a tenure has written, no     *)
(* older tenure decides a slot, whatever its reflector believes.            *)
FencingOrder ==
    [][\A e, f \in Epochs : decided[e] = NoRef /\ decided'[e] # NoRef
           => writer[f] <= writer'[e]]_vars

(* A fencing token stands for one tenure: two reflectors never hold the     *)
(* same one, so FencedRegister can tell them apart.                         *)
TokenUnique == \A o, p \in Owners : token[o] = token[p] /\ token[o] # 0 => o = p

(* Design 5.5: two reflectors never both believe that they own the VNI.     *)
(* The code keeps this only up to what it cannot see: a belief that is      *)
(* older than the clocks agree (at most MaxSkew is left of it), or a lease  *)
(* that Release dropped behind the sequencer's back.                        *)
Sure(o) == has[o] /\ left[o] > MaxSkew /\ o \notin released
ExclusiveBelief == \A o, p \in Owners : Sure(o) /\ Sure(p) => o = p

(* The standby takes over (design 5.4): when from some time on no step      *)
(* extends the lease of another reflector, the register accepts the         *)
(* standby's writes, under a token newer than that of any other tenure,     *)
(* also after the old primary has decided slots and without its Release.    *)
StandbyTakesOver ==
    <>[][heldBy' \notin {Standby, NoOwner} => heldLeft' <= heldLeft]_vars
    => []<>(maxToken = next /\ token[Standby] = next)
=============================================================================
