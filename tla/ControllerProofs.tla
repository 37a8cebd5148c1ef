--------------------------- MODULE ControllerProofs ---------------------------
(***************************************************************************)
(* Proofs about the controllers and the ordering authority, for every set  *)
(* of nodes and commits and every bound, where losing callers recover on   *)
(* the decided commit and AcceptCommit does not fail (Disciplined).        *)
(***************************************************************************)
EXTENDS ControllerFaultsProofs

(* Zenon is tried before the SMT solver, which gets more time than its default. *)
USE ZenonT(10), SMTT(30)

USE NamesAssumption, BoundsAreNat

-----------------------------------------------------------------------------
(* The inductive invariant                                                  *)

(* A decided commit was made in a decided state, for its own slot.          *)
DecidedOK ==
    \A e \in Epochs : decided[e] # NoRef =>
        /\ decided[e] \in DOMAIN log \ {Genesis}
        /\ EpochOf(decided[e]) = e + 1
        /\ Canonical(log[decided[e]].parent)

(* The slots are decided in order.                                          *)
Prefix == \A e, f \in Epochs : f < e /\ decided[e] # NoRef => decided[f] # NoRef

(* Where a controller stands between its optimistic commit and the answer:  *)
(* the SA stays with the decided state the commit was made in.              *)
NodeOK(n) ==
    /\ status[n] \in {"ready", "removed"} => Canonical(tip[n]) /\ cur[n] = tip[n]
    /\ status[n] = "ordering" =>
          /\ tip[n] \in DOMAIN log \ {Genesis}
          /\ Canonical(log[tip[n]].parent)
          /\ cur[n] = log[tip[n]].parent
    /\ status[n] = "out" => cur[n] = NoState /\ prev[n] = NoState
    /\ status[n] # "out" => Canonical(cur[n])
    /\ prev[n] # NoState => Canonical(prev[n]) /\ EpochOf(prev[n]) < EpochOf(cur[n])
NodesOK == \A n \in Nodes : NodeOK(n)

(* The network carries decided commits and GroupInfos of decided states.    *)
NetOK ==
    /\ \A t \in sent \union published : Canonical(t)
    /\ \A n \in Nodes : \A t \in outbox[n] : Canonical(t)

IInv == TypeOK /\ WellFormed /\ DecidedOK /\ Prefix /\ NodesOK /\ NetOK

(* The callers and the authority behave: errors do not occur, and recovery  *)
(* is given the decided commit.                                             *)
Disciplined == OrderingFails = FALSE /\ Competing = FALSE

LEMMA EpochsAreInt == ASSUME NEW e \in Epochs PROVE e \in Int
BY DEF Epochs

LEMMA LaterEpoch ==
    ASSUME NEW a \in Int, NEW b \in Int, NEW e \in Int, a <= e, b = e + 1
    PROVE  a < b
OBVIOUS

(* The facts about epochs that every step below needs.                      *)
LEMMA EpochFacts ==
    ASSUME IInv, NEW t \in DOMAIN log
    PROVE  /\ EpochOf(t) \in 0 .. MaxEpoch
           /\ t # NoState
           /\ t # Genesis => EpochOf(t) - 1 \in Epochs /\ t \in Refs /\ t # NoRef
BY StateFacts DEF IInv

LEMMA CanonicalFacts ==
    ASSUME IInv, NEW t, Canonical(t)
    PROVE  t \in DOMAIN log /\ t # NoState
BY EpochFacts DEF IInv, TypeOK, Canonical

(* A decided state stays decided.                                           *)
LEMMA CanonicalStable ==
    ASSUME IInv, Grows, NEW t, Canonical(t)
    PROVE  Canonical(t)' /\ EpochOf(t)' = EpochOf(t) /\ log'[t] = log[t]
BY WonStays DEF IInv, EpochOf

(* Two decided states of the same epoch are the same; a decided state whose *)
(* next slot is free has the highest decided epoch.                         *)
LEMMA CanonicalHighest ==
    ASSUME IInv, NEW s, NEW t, Canonical(s), Canonical(t),
           EpochOf(t) \in Epochs, decided[EpochOf(t)] = NoRef
    PROVE  EpochOf(s) <= EpochOf(t)
<1>1. s \in DOMAIN log /\ t \in DOMAIN log
    BY CanonicalFacts
<1>2. EpochOf(s) \in 0 .. MaxEpoch /\ EpochOf(t) \in 0 .. MaxEpoch
    BY <1>1, EpochFacts
<1>3. CASE s = Genesis
    BY <1>2, <1>3 DEF IInv, WellFormed
<1>4. CASE s # Genesis
    <2>1. EpochOf(s) - 1 \in Epochs /\ decided[EpochOf(s) - 1] = s /\ s # NoRef
        BY <1>1, <1>4, EpochFacts DEF Canonical
    <2>2. ~(EpochOf(t) < EpochOf(s) - 1)
        BY <2>1 DEF IInv, Prefix
    <2>3. EpochOf(t) # EpochOf(s) - 1
        BY <2>1
    <2>4. QED
        BY <1>2, <2>2, <2>3
<1>5. QED
    BY <1>3, <1>4
-----------------------------------------------------------------------------
(* Frames: what a step leaves alone keeps its part of the invariant.        *)

LEMMA NodeStable ==
    ASSUME IInv, Grows, NEW n \in Nodes,
           tip'[n] = tip[n], status'[n] = status[n],
           cur'[n] = cur[n], prev'[n] = prev[n]
    PROVE  NodeOK(n)'
<1>1. NodeOK(n)
    BY DEF IInv, NodesOK
<1>2. status[n] \in {"ready", "removed"} => Canonical(tip[n])' /\ cur[n] = tip[n]
    BY <1>1, CanonicalStable DEF NodeOK
<1>3. status[n] = "ordering" =>
          /\ tip[n] \in DOMAIN log' \ {Genesis}
          /\ Canonical(log[tip[n]].parent)'
          /\ cur[n] = log[tip[n]].parent
          /\ log'[tip[n]] = log[tip[n]]
    BY <1>1, CanonicalStable DEF NodeOK, Grows
<1>4. status[n] # "out" => Canonical(cur[n])'
    BY <1>1, CanonicalStable DEF NodeOK
<1>5. prev[n] # NoState => Canonical(prev[n])' /\ EpochOf(prev[n])' < EpochOf(cur[n])'
    <2> SUFFICES ASSUME prev[n] # NoState
                 PROVE  Canonical(prev[n])' /\ EpochOf(prev[n])' < EpochOf(cur[n])'
        OBVIOUS
    <2>1. Canonical(prev[n]) /\ Canonical(cur[n]) /\ EpochOf(prev[n]) < EpochOf(cur[n])
        BY <1>1 DEF NodeOK
    <2>2. QED
        BY <2>1, CanonicalStable
<1>6. QED
    BY <1>1, <1>2, <1>3, <1>4, <1>5 DEF NodeOK, Canonical, EpochOf

LEMMA NetStable ==
    ASSUME IInv, Grows,
           \A t \in sent' \union published' : t \in sent \union published \/ Canonical(t)
                                                \/ Canonical(t)',
           \A n \in Nodes : \A t \in outbox'[n] : t \in outbox[n] \/ Canonical(t)'
    PROVE  NetOK'
<1>1. \A t \in sent \union published : Canonical(t)'
    BY CanonicalStable DEF IInv, NetOK
<1>2. \A n \in Nodes : \A t \in outbox[n] : Canonical(t)'
    BY CanonicalStable DEF IInv, NetOK
<1>3. \A t : Canonical(t) => Canonical(t)'
    BY CanonicalStable
<1>4. QED
    BY <1>1, <1>2, <1>3 DEF NetOK

(* A step that touches neither the log nor the register.                    *)
LEMMA RegisterUnchanged ==
    ASSUME IInv, UNCHANGED <<log, decided>>
    PROVE  Grows /\ WellFormed' /\ DecidedOK' /\ Prefix'
BY DEF IInv, Grows, WellFormed, DecidedOK, Prefix, EpochOf, Canonical

(* A step that lets the commit c of the free slot e decide it.              *)
LEMMA SlotDecided ==
    ASSUME IInv, NEW e \in Epochs, NEW c, NEW t, Canonical(t), EpochOf(t) = e,
           decided[e] = NoRef,
           decided'[e] = c, \A f \in Epochs \ {e} : decided'[f] = decided[f],
           \A x \in DOMAIN log : x \in DOMAIN log' /\ log'[x] = log[x],
           c \in DOMAIN log' \ {Genesis}, log'[c].parent = t, EpochOf(c)' = e + 1
    PROVE  Grows /\ DecidedOK' /\ Prefix' /\ Canonical(c)'
<1>1. Grows
    BY DEF Grows
<1>2. Canonical(t)'
    BY <1>1, CanonicalStable
<1>3. DecidedOK'
    <2>1. ASSUME NEW f \in Epochs, NEW d, d = decided'[f], d # NoRef
          PROVE  /\ d \in DOMAIN log' \ {Genesis}
                 /\ log'[d].epoch = f + 1
                 /\ \A q : q = log'[d].parent => Canonical(q)'
        <3>1. CASE f = e
            BY <1>2, <2>1, <3>1 DEF EpochOf
        <3>2. CASE f # e
            <4>1. /\ d = decided[f]
                  /\ d \in DOMAIN log \ {Genesis}
                  /\ EpochOf(d) = f + 1
                  /\ Canonical(log[d].parent)
                BY <2>1, <3>2 DEF IInv, DecidedOK
            <4>2. log'[d] = log[d] /\ d \in DOMAIN log'
                BY <4>1
            <4>3. \A q : q = log[d].parent => Canonical(q)'
                BY <1>1, <4>1, CanonicalStable
            <4>4. QED
                BY <4>1, <4>2, <4>3 DEF EpochOf
        <3>3. QED
            BY <3>1, <3>2
    <2>2. QED
        BY <2>1 DEF DecidedOK, EpochOf, Canonical
<1>4. Prefix'
    <2>1. \A f \in Epochs : f < e => decided[f] # NoRef
        <3> SUFFICES ASSUME NEW f \in Epochs, f < e PROVE decided[f] # NoRef
            OBVIOUS
        <3>1. t # Genesis /\ t \in DOMAIN log
            BY CanonicalFacts DEF IInv, WellFormed, Epochs
        <3>2. e - 1 \in Epochs /\ decided[e - 1] # NoRef
            BY <3>1, EpochFacts DEF Canonical
        <3>3. QED
            BY <3>2 DEF IInv, Prefix, Epochs
    <2>2. QED
        BY <2>1 DEF IInv, Prefix, Epochs
<1>5. Canonical(c)'
    BY DEF Canonical, Epochs
<1>6. QED
    BY <1>1, <1>3, <1>4, <1>5
LEMMA DecidedUnchanged ==
    ASSUME IInv, \A x \in DOMAIN log : x \in DOMAIN log' /\ log'[x] = log[x],
           UNCHANGED decided
    PROVE  Grows /\ DecidedOK' /\ Prefix'
<1>1. Grows
    BY DEF Grows
<1>2. ASSUME NEW f \in Epochs, NEW d, d = decided[f], d # NoRef
      PROVE  /\ d \in DOMAIN log' \ {Genesis}
             /\ log'[d].epoch = f + 1
             /\ \A q : q = log'[d].parent => Canonical(q)'
    <2>1. d \in DOMAIN log \ {Genesis} /\ EpochOf(d) = f + 1 /\ Canonical(log[d].parent)
        BY <1>2 DEF IInv, DecidedOK
    <2>2. log'[d] = log[d] /\ d \in DOMAIN log'
        BY <2>1
    <2>3. \A q : q = log[d].parent => Canonical(q)'
        BY <1>1, <2>1, CanonicalStable
    <2>4. QED
        BY <2>1, <2>2, <2>3 DEF EpochOf
<1>3. DecidedOK'
    BY <1>2 DEF DecidedOK, EpochOf, Canonical
<1>4. QED
    BY <1>1, <1>3 DEF IInv, Prefix

(* A node that adopts the decided state c, later than its SA's.             *)
LEMMA NodeAdopts ==
    ASSUME IInv, Grows, NEW n \in Nodes, NEW c, Canonical(c)',
           tip'[n] = c, cur'[n] = c, status'[n] = "ready",
           prev'[n] = cur[n] \/ prev'[n] = NoState,
           cur[n] # NoState => EpochOf(cur[n]) < EpochOf(c)'
    PROVE  NodeOK(n)'
<1>1. ASSUME prev'[n] # NoState
      PROVE  prev'[n] = cur[n] /\ Canonical(cur[n])
    BY <1>1 DEF IInv, NodesOK, NodeOK
<1>2. ASSUME NEW p, p = prev'[n], p # NoState
      PROVE  Canonical(p)' /\ EpochOf(p)' < EpochOf(c)'
    BY <1>1, <1>2, CanonicalStable
<1>3. QED
    BY <1>2 DEF NodeOK, Canonical, EpochOf

LEMMA RosterInType ==
    ASSUME IInv, NEW t \in DOMAIN log
    PROVE  log[t].roster \in RosterType /\ DOMAIN log[t].roster \subseteq Leaves
<1>1. log[t].roster \in RosterType
    BY DEF IInv, TypeOK, GroupStates, RosterType
<1>2. QED
    BY <1>1 DEF RosterType

-----------------------------------------------------------------------------
(* The actions                                                              *)

(* Rekey and Reconcile: the optimistic commit.                              *)
LEMMA CommitStep ==
    ASSUME IInv, TypeOK', WellFormed', NEW n \in Nodes, NEW rm \in SUBSET Leaves, NEW add \in SUBSET Nodes,
           Commit(n, rm, add)
    PROVE  IInv'
<1> PICK c \in Refs, r \in Rosters(Roster(n), rm, add) :
          NewCommit(c, tip[n], rm, add, r) /\ tip' = [tip EXCEPT ![n] = c]
    BY DEF Commit
<1> PICK t : t = tip[n]
    OBVIOUS
<1>1. /\ status[n] = "ready" /\ status' = [status EXCEPT ![n] = "ordering"]
      /\ UNCHANGED <<cur, prev, netVars, seqVars, crashes>>
    BY DEF Commit
<1>2. Canonical(t) /\ cur[n] = t /\ t \in DOMAIN log /\ t # NoState
    BY <1>1, CanonicalFacts DEF IInv, NodesOK, NodeOK
<1>3. TypeOK /\ WellFormed
    BY DEF IInv
<1>4. /\ DOMAIN log' = DOMAIN log \union {c}
      /\ c \notin DOMAIN log /\ c # Genesis /\ c # NoState
      /\ \A x \in DOMAIN log : log'[x] = log[x]
      /\ log'[c].parent = t
    <2>1. r \in Rosters(log[t].roster, rm, add) /\ NewCommit(c, t, rm, add, r)
        BY DEF Roster
    <2>2. QED
        BY <1>2, <1>3, <2>1, CommitAppended
<1>5. Grows /\ DecidedOK' /\ Prefix'
    BY <1>1, <1>4, DecidedUnchanged DEF seqVars
<1>6. Canonical(t)'
    BY <1>2, <1>5, CanonicalStable
<1>7. NodesOK'
    <2>1. ASSUME NEW p \in Nodes \ {n} PROVE NodeOK(p)'
        BY <1>1, <1>5, NodeStable DEF IInv, TypeOK
    <2>2. NodeOK(n)'
        <3>1. tip'[n] = c /\ status'[n] = "ordering" /\ cur'[n] = t /\ prev'[n] = prev[n]
            BY <1>1, <1>2 DEF IInv, TypeOK
        <3>2. ASSUME prev[n] # NoState
              PROVE  \A q : q = prev[n] => Canonical(q)' /\ EpochOf(q)' < EpochOf(t)'
            <4>1. Canonical(prev[n]) /\ EpochOf(prev[n]) < EpochOf(t)
                BY <1>2, <3>2 DEF IInv, NodesOK, NodeOK
            <4>2. QED
                BY <1>2, <1>5, <4>1, CanonicalStable
        <3>3. QED
            BY <1>4, <1>6, <3>1, <3>2 DEF NodeOK, Canonical, EpochOf
    <2>3. QED
        BY <2>1, <2>2 DEF NodesOK
<1>8. NetOK'
    BY <1>1, <1>5, NetStable DEF netVars
<1>9. QED
    BY <1>5, <1>7, <1>8 DEF IInv

(* The commit wins its slot.                                                *)
LEMMA OrderWonStep ==
    ASSUME IInv, TypeOK', WellFormed', NEW n \in Nodes, OrderWon(n)
    PROVE  IInv'
<1> PICK c : c = tip[n]
    OBVIOUS
<1> PICK e : e = EpochOf(c) - 1
    OBVIOUS
<1> PICK t : t = log[c].parent
    OBVIOUS
<1>1. /\ status[n] = "ordering" /\ Wins(e, c) /\ Sequencer!AcceptCommit(e, c)
      /\ RotateSA(n, c) /\ status' = [status EXCEPT ![n] = "ready"]
      /\ outbox' = [outbox EXCEPT ![n] = @ \union {c}]
      /\ UNCHANGED <<log, tip, sent, published, crashes>>
    BY DEF OrderWon
<1>2. /\ c \in DOMAIN log \ {Genesis} /\ Canonical(t) /\ cur[n] = t
    BY <1>1 DEF IInv, NodesOK, NodeOK
<1>3. e \in Epochs /\ c \in Refs /\ c # NoRef /\ c # NoState
    BY <1>2, EpochFacts
<1>4. t \in DOMAIN log /\ EpochOf(t) = e /\ EpochOf(c) = e + 1
    BY <1>2, EpochFacts DEF IInv, WellFormed
<1>5. /\ Sequencer!TypeOK'
      /\ \A f \in Epochs : decided[f] # NoRef => decided'[f] = decided[f]
      /\ \A f \in Epochs \ {e} : decided'[f] = decided[f]
      /\ decided'[e] = c
    BY <1>1, <1>3, AcceptCommitEffect DEF IInv, TypeOK
<1>6. Grows /\ DecidedOK' /\ Prefix' /\ Canonical(c)'
    <2>1. CASE decided[e] = NoRef
        BY <1>1, <1>2, <1>3, <1>4, <1>5, <2>1, SlotDecided DEF EpochOf
    <2>2. CASE decided[e] = c
        <3>1. \A f \in Epochs : decided'[f] = decided[f]
            BY <1>5, <2>2
        <3>2. /\ decided \in [Epochs -> Refs \union {NoRef}]
              /\ decided' \in [Epochs -> Refs \union {NoRef}]
            BY <1>5 DEF IInv, TypeOK, Sequencer!TypeOK
        <3>3. decided' = decided
            BY <3>1, <3>2
        <3>4. QED
            BY <1>1, <1>4, <3>3, <1>2, <2>2, RegisterUnchanged DEF Canonical, EpochOf
    <2>3. QED
        BY <1>1, <2>1, <2>2 DEF Wins
<1>8. NodesOK'
    <2>1. ASSUME NEW p \in Nodes \ {n} PROVE NodeOK(p)'
        BY <1>1, <1>6, NodeStable DEF IInv, TypeOK, RotateSA
    <2>2. /\ tip'[n] = c /\ cur'[n] = c /\ status'[n] = "ready" /\ prev'[n] = cur[n]
        BY <1>1 DEF IInv, TypeOK, RotateSA
    <2>3. EpochOf(cur[n]) < EpochOf(c)'
        <3>1. e \in Int
            BY <1>3, EpochsAreInt
        <3>2. EpochOf(cur[n]) = e
            BY <1>2, <1>4
        <3>3. log' = log
            BY <1>1
        <3>4. EpochOf(c)' = e + 1
            BY <1>4, <3>3 DEF EpochOf
        <3>5. QED
            BY <3>1, <3>2, <3>4, LaterEpoch
    <2>4. NodeOK(n)'
        BY <1>6, <2>2, <2>3, NodeAdopts
    <2>5. QED
        BY <2>1, <2>4 DEF NodesOK
<1>9. NetOK'
    <2>1. \A p \in Nodes : \A x \in outbox'[p] : x \in outbox[p] \/ Canonical(x)'
        BY <1>1, <1>6 DEF IInv, TypeOK
    <2>2. QED
        BY <1>1, <1>6, <2>1, NetStable
<1>10. QED
    BY <1>6, <1>8, <1>9 DEF IInv

(* The commit loses its slot, or the sequencer is fenced out.               *)
LEMMA OrderLostStep ==
    ASSUME Disciplined, IInv, TypeOK', WellFormed', NEW n \in Nodes, OrderLost(n) \/ OrderFencedOut(n)
    PROVE  IInv'
<1>1. /\ status[n] = "ordering" /\ status' = [status EXCEPT ![n] = "lost"]
      /\ outbox' = outbox
      /\ UNCHANGED <<log, tip, cur, prev, sent, published, crashes>>
    BY DEF OrderLost, OrderFencedOut, Loses, netVars
<1>2. decided' = decided /\ Sequencer!TypeOK'
    <2>1. CASE OrderLost(n)
        <3> PICK c : c = tip[n]
            OBVIOUS
        <3> PICK e : e = EpochOf(c) - 1
            OBVIOUS
        <3>1. ~Wins(e, c) /\ Sequencer!AcceptCommit(e, c)
            BY <2>1 DEF OrderLost
        <3>2. c \in DOMAIN log \ {Genesis}
            BY <1>1 DEF IInv, NodesOK, NodeOK
        <3>3. e \in Epochs /\ c \in Refs
            BY <3>2, EpochFacts
        <3>4. QED
            BY <3>1, <3>3, AcceptCommitEffect DEF IInv, TypeOK
    <2>2. CASE OrderFencedOut(n)
        <3> PICK c : c = tip[n]
            OBVIOUS
        <3> PICK e : e = EpochOf(c) - 1
            OBVIOUS
        <3>1. Sequencer!FencedOut(e, c)
            BY <2>2 DEF OrderFencedOut
        <3>2. c \in DOMAIN log \ {Genesis}
            BY <1>1 DEF IInv, NodesOK, NodeOK
        <3>3. e \in Epochs /\ c \in Refs
            BY <3>2, EpochFacts
        <3>4. QED
            BY <3>1, <3>3 DEF IInv, TypeOK, Sequencer!TypeOK, Sequencer!FencedOut
    <2>3. QED
        BY <2>1, <2>2
<1>3. Grows /\ WellFormed' /\ DecidedOK' /\ Prefix'
    BY <1>1, <1>2, RegisterUnchanged
<1>4. NodesOK'
    <2>1. ASSUME NEW p \in Nodes \ {n} PROVE NodeOK(p)'
        BY <1>1, <1>3, NodeStable DEF IInv, TypeOK
    <2>2. NodeOK(n)'
        BY <1>1, <1>2 DEF IInv, TypeOK, NodesOK, NodeOK, Canonical, EpochOf
    <2>3. QED
        BY <2>1, <2>2 DEF NodesOK
<1>5. NetOK'
    BY <1>1, <1>3, NetStable
<1>6. QED
    BY <1>3, <1>4, <1>5 DEF IInv

(* Steps of callers and network that touch neither log nor register.        *)
LEMMA NetStep ==
    ASSUME Disciplined, IInv, TypeOK', WellFormed', NEW n \in Nodes, Broadcast(n) \/ PublishGroupInfo(n)
    PROVE  IInv'
<1>1. UNCHANGED <<log, nodeVars, seqVars, crashes>>
    BY DEF Broadcast, PublishGroupInfo
<1>2. Grows /\ WellFormed' /\ DecidedOK' /\ Prefix'
    BY <1>1, RegisterUnchanged DEF seqVars
<1>3. NodesOK'
    BY <1>1, <1>2, NodeStable DEF nodeVars, NodesOK
<1>4. /\ \A t \in sent' \union published' : t \in sent \union published \/ Canonical(t)
      /\ \A p \in Nodes : \A t \in outbox'[p] : t \in outbox[p]
    <2>1. CASE Broadcast(n)
        <3>1. PICK c : sent' = sent \union {c} /\ c \in outbox[n]
                      /\ outbox' = [outbox EXCEPT ![n] = @ \ {c}] /\ published' = published
            BY <2>1 DEF Broadcast
        <3>2. Canonical(c)
            BY <3>1 DEF IInv, NetOK
        <3>3. outbox \in [Nodes -> SUBSET (DOMAIN log)]
            BY DEF IInv, TypeOK
        <3>4. QED
            BY <3>1, <3>2, <3>3
    <2>2. CASE PublishGroupInfo(n)
        <3>1. status[n] = "ready" /\ published' = published \union {tip[n]}
              /\ sent' = sent /\ outbox' = outbox
            BY <2>2 DEF PublishGroupInfo, Disciplined
        <3>2. Canonical(tip[n])
            BY <3>1 DEF IInv, NodesOK, NodeOK
        <3>3. QED
            BY <3>1, <3>2
    <2>3. QED
        BY <2>1, <2>2
<1>5. NetOK'
    BY <1>2, <1>4, NetStable
<1>6. QED
    BY <1>2, <1>3, <1>5 DEF IInv

(* HandleCommit and JoinViaWelcome: the node adopts a commit it was sent.   *)
LEMMA ReceiveStep ==
    ASSUME IInv, TypeOK', WellFormed', NEW n \in Nodes, NEW c \in sent,
           \/ HandleCommit(n, c)
           \/ HandleCommitSelfRemoved(n, c)
           \/ JoinViaWelcome(n, c)
    PROVE  IInv'
<1>1. UNCHANGED <<log, netVars, seqVars, crashes>>
    BY DEF HandleCommit, HandleCommitSelfRemoved, JoinViaWelcome
<1>2. Grows /\ WellFormed' /\ DecidedOK' /\ Prefix'
    BY <1>1, RegisterUnchanged DEF seqVars
<1>3. Canonical(c) /\ c \in DOMAIN log /\ c # NoState
    BY CanonicalFacts DEF IInv, NetOK
<1>4. Canonical(c)' /\ EpochOf(c)' = EpochOf(c)
    BY <1>2, <1>3, CanonicalStable
<1>5. /\ \A p \in Nodes \ {n} : NodeOK(p)'
      /\ NodeOK(n)'
    <2> USE DEF IInv, TypeOK, netVars, seqVars, Sequencer!TypeOK, Statuses
    <2>1. CASE HandleCommit(n, c)
        <3>1. /\ tip' = [tip EXCEPT ![n] = c] /\ cur' = [cur EXCEPT ![n] = c]
              /\ prev' = [prev EXCEPT ![n] = cur[n]] /\ status' = status
              /\ status[n] = "ready" /\ log[c].parent = tip[n] /\ c # Genesis
            BY <2>1 DEF HandleCommit, RotateSA, Processable
        <3>2. \A p \in Nodes \ {n} : NodeOK(p)'
            BY <1>2, <3>1, NodeStable
        <3>3. cur[n] = tip[n] /\ tip[n] \in DOMAIN log
            BY <3>1, CanonicalFacts DEF NodesOK, NodeOK
        <3>4. EpochOf(cur[n]) < EpochOf(c)
            <4>1. EpochOf(c) = EpochOf(cur[n]) + 1
                BY <1>3, <3>1, <3>3 DEF WellFormed
            <4>2. EpochOf(cur[n]) \in Int
                BY <3>3, EpochFacts
            <4> HIDE DEF IInv, TypeOK
            <4>3. QED
                BY <4>1, <4>2, LaterEpoch
        <3>5. NodeOK(n)'
            <4>1. /\ tip'[n] = c /\ cur'[n] = c /\ status'[n] = "ready"
                  /\ prev'[n] = cur[n]
                BY <3>1
            <4> HIDE DEF IInv, TypeOK
            <4>2. EpochOf(cur[n]) < EpochOf(c)'
                BY <1>4, <3>4
            <4>3. QED
                BY <1>2, <1>4, <4>1, <4>2, NodeAdopts
        <3>6. QED
            BY <3>2, <3>5
    <2>2. CASE HandleCommitSelfRemoved(n, c)
        <3>1. /\ status' = [status EXCEPT ![n] = "removed"] /\ status[n] = "ready"
              /\ UNCHANGED <<tip, cur, prev>>
            BY <2>2 DEF HandleCommitSelfRemoved
        <3>2. \A p \in Nodes \ {n} : NodeOK(p)'
            BY <1>2, <3>1, NodeStable
        <3>3. NodeOK(n)'
            BY <1>1, <3>1 DEF NodesOK, NodeOK, Canonical, EpochOf
        <3>4. QED
            BY <3>2, <3>3
    <2>3. CASE JoinViaWelcome(n, c)
        <3>1. /\ tip' = [tip EXCEPT ![n] = c] /\ cur' = [cur EXCEPT ![n] = c]
              /\ status' = [status EXCEPT ![n] = "ready"] /\ prev' = prev
              /\ status[n] = "out"
            BY <2>3 DEF JoinViaWelcome
        <3>2. \A p \in Nodes \ {n} : NodeOK(p)'
            BY <1>2, <3>1, NodeStable
        <3>3. cur[n] = NoState /\ prev[n] = NoState
            BY <3>1 DEF NodesOK, NodeOK
        <3>4. NodeOK(n)'
            BY <1>2, <1>4, <3>1, <3>3, NodeAdopts
        <3>5. QED
            BY <3>2, <3>4
    <2>4. QED
        BY <2>1, <2>2, <2>3
<1>6. NetOK'
    BY <1>1, <1>2, NetStable DEF netVars
<1>7. QED
    BY <1>2, <1>5, <1>6 DEF IInv, NodesOK

(* Leave and Crash.                                                         *)
LEMMA ResetStep ==
    ASSUME IInv, TypeOK', WellFormed', NEW n \in Nodes, Reset(n)
    PROVE  IInv'
<1>1. Grows /\ WellFormed' /\ DecidedOK' /\ Prefix'
    BY RegisterUnchanged DEF Reset, seqVars
<1>2. NodesOK'
    <2>1. ASSUME NEW p \in Nodes \ {n} PROVE NodeOK(p)'
        BY <1>1, NodeStable DEF Reset, IInv, TypeOK
    <2>2. NodeOK(n)'
        BY DEF Reset, NodeOK, IInv, TypeOK
    <2>3. QED
        BY <2>1, <2>2 DEF NodesOK
<1>3. NetOK'
    BY <1>1, NetStable DEF Reset, IInv, TypeOK
<1>4. QED
    BY <1>1, <1>2, <1>3 DEF IInv

(* A refused external commit.                                               *)
LEMMA SupersededStep ==
    ASSUME IInv, TypeOK', WellFormed', NEW t, NEW c, Superseded(t, c)
    PROVE  IInv'
<1>1. /\ EpochOf(t) \in Epochs /\ c \in Refs /\ ~Wins(EpochOf(t), c)
      /\ Sequencer!AcceptCommit(EpochOf(t), c)
      /\ UNCHANGED <<log, nodeVars, netVars, crashes>>
    BY DEF Superseded
<1>2. decided' = decided /\ Sequencer!TypeOK'
    BY <1>1, AcceptCommitEffect DEF IInv, TypeOK
<1>3. Grows /\ WellFormed' /\ DecidedOK' /\ Prefix'
    BY <1>1, <1>2, RegisterUnchanged
<1>4. NodesOK'
    BY <1>1, <1>3, NodeStable DEF nodeVars, NodesOK
<1>5. NetOK'
    BY <1>1, <1>3, NetStable DEF netVars
<1>6. QED
    BY <1>3, <1>4, <1>5 DEF IInv

(* An accepted external commit from the GroupInfo of a decided state: the   *)
(* slot was free, so the state is later than the SA of the node.            *)
LEMMA ExternalCommitStep ==
    ASSUME IInv, TypeOK', WellFormed', NEW n \in Nodes, NEW t \in published, NEW c \in Refs, ExternalCommit(n, t, c),
           cur' = [cur EXCEPT ![n] = c],
           \/ prev' = [prev EXCEPT ![n] = cur[n]]
           \/ prev' = prev /\ status[n] = "out"
    PROVE  IInv'
<1> PICK e : e = EpochOf(t)
    OBVIOUS
<1>1. /\ e \in Epochs /\ Wins(e, c) /\ Sequencer!AcceptCommit(e, c)
      /\ tip' = [tip EXCEPT ![n] = c]
      /\ status' = [status EXCEPT ![n] = "ready"]
      /\ outbox' = [outbox EXCEPT ![n] = @ \union {c}]
      /\ UNCHANGED <<sent, published, crashes>>
    BY DEF ExternalCommit
<1>2. Canonical(t) /\ t \in DOMAIN log
    BY CanonicalFacts DEF IInv, NetOK
<1>3. TypeOK /\ WellFormed
    BY DEF IInv
<1>4. /\ DOMAIN log' = DOMAIN log \union {c}
      /\ c \notin DOMAIN log /\ c # Genesis /\ c # NoState
      /\ \A x \in DOMAIN log : log'[x] = log[x]
      /\ log'[c].parent = t
      /\ EpochOf(c)' = e + 1
    <2>1. /\ DOMAIN log' = DOMAIN log \union {c}
          /\ c \notin DOMAIN log /\ c # Genesis /\ c # NoState
          /\ \A x \in DOMAIN log : log'[x] = log[x]
          /\ log'[c].parent = t /\ log'[c].epoch = e + 1
        BY <1>3, ExternalAppended
    <2>2. QED
        BY <2>1 DEF EpochOf
<1>5. /\ Sequencer!TypeOK'
      /\ \A f \in Epochs \ {e} : decided'[f] = decided[f]
      /\ decided'[e] = c
    BY <1>1, <1>4, AcceptCommitEffect DEF IInv, TypeOK
<1>6. decided[e] = NoRef
    BY <1>1, <1>4 DEF Wins, IInv, DecidedOK
<1>7. Grows /\ DecidedOK' /\ Prefix' /\ Canonical(c)'
    BY <1>1, <1>2, <1>4, <1>5, <1>6, SlotDecided
<1>8. ASSUME cur[n] # NoState PROVE EpochOf(cur[n]) < EpochOf(c)'
    <2>1. Canonical(cur[n])
        BY <1>8 DEF IInv, NodesOK, NodeOK
    <2>2. EpochOf(cur[n]) <= e
        BY <1>1, <1>2, <1>6, <2>1, CanonicalHighest
    <2>3. EpochOf(cur[n]) \in 0 .. MaxEpoch
        BY <2>1, CanonicalFacts, EpochFacts
    <2>4. EpochOf(c)' = e + 1
        BY <1>4
    <2>5. e \in Int
        BY <1>1, EpochsAreInt
    <2>6. EpochOf(cur[n]) \in Int
        BY <2>3
    <2>7. QED
        BY <2>2, <2>4, <2>5, <2>6, LaterEpoch
<1>9. NodesOK'
    <2>1. ASSUME NEW p \in Nodes \ {n} PROVE NodeOK(p)'
        BY <1>1, <1>7, NodeStable DEF IInv, TypeOK
    <2>2. /\ tip'[n] = c /\ cur'[n] = c /\ status'[n] = "ready"
          /\ prev'[n] = cur[n] \/ prev'[n] = NoState
        BY <1>1 DEF IInv, TypeOK, NodesOK, NodeOK
    <2>3. NodeOK(n)'
        BY <1>7, <1>8, <2>2, NodeAdopts
    <2>4. QED
        BY <2>1, <2>3 DEF NodesOK
<1>10. NetOK'
    <2>1. \A p \in Nodes : \A x \in outbox'[p] : x \in outbox[p] \/ Canonical(x)'
        BY <1>1, <1>7 DEF IInv, TypeOK
    <2>2. QED
        BY <1>1, <1>7, <2>1, NetStable
<1>11. QED
    BY <1>7, <1>9, <1>10 DEF IInv

-----------------------------------------------------------------------------
LEMMA InitIInv == Init => IInv
<1> SUFFICES ASSUME Init PROVE IInv
    OBVIOUS
<1>2. TypeOK
    BY FInit DEF FInv
<1>3. WellFormed /\ DecidedOK /\ Prefix /\ NetOK
    BY DEF Init, WellFormed, DecidedOK, Prefix, NetOK, EpochOf, Sequencer!Init
<1>4. NodesOK
    BY DEF Init, NodesOK, NodeOK, Canonical
<1>5. QED
    BY <1>2, <1>3, <1>4 DEF IInv

LEMMA NextIInv ==
    ASSUME Disciplined, IInv, FInv', [Next]_vars
    PROVE  IInv'
<1> TypeOK' /\ WellFormed'
    BY DEF FInv
<1>1. CASE UNCHANGED vars
    <2>1. Grows /\ WellFormed' /\ DecidedOK' /\ Prefix'
        BY <1>1, RegisterUnchanged DEF vars, seqVars
    <2>2. NodesOK' /\ NetOK'
        BY <1>1, <2>1, NodeStable, NetStable DEF vars, nodeVars, netVars, NodesOK
    <2>3. QED
        BY <2>1, <2>2 DEF IInv
<1>2. ASSUME NEW n \in Nodes, Rekey(n) PROVE IInv'
    BY <1>2, CommitStep DEF Rekey
<1>3. ASSUME NEW n \in Nodes, Converge(n) PROVE IInv'
    <2>1. PICK desired \in SUBSET Nodes : Reconcile(n, desired)
        BY <1>3 DEF Converge
    <2>2. tip[n] \in DOMAIN log
        BY <2>1, CanonicalFacts DEF Reconcile, IInv, NodesOK, NodeOK
    <2>3. DOMAIN Roster(n) \subseteq Leaves
        BY <2>2, RosterInType DEF Roster, IInv
    <2>4. PICK rm \in SUBSET Leaves, add \in SUBSET Nodes : Commit(n, rm, add)
        BY <2>1, <2>3 DEF Reconcile
    <2>5. QED
        BY <2>4, CommitStep
<1>4. ASSUME NEW n \in Nodes, Order(n) PROVE IInv'
    BY <1>4, OrderWonStep, OrderLostStep DEF Order, OrderError, Disciplined
<1>5. ASSUME NEW n \in Nodes, Broadcast(n) \/ PublishGroupInfo(n) PROVE IInv'
    BY <1>5, NetStep
<1>6. ASSUME NEW n \in Nodes, Receive(n) \/ \E c \in sent : JoinViaWelcome(n, c)
      PROVE  IInv'
    BY <1>6, ReceiveStep DEF Receive
<1>7. ASSUME NEW n \in Nodes, NEW t \in published, NEW c \in Refs,
             JoinViaExternalCommit(n, t, c)
      PROVE  IInv'
    BY <1>7, ExternalCommitStep, SupersededStep DEF JoinViaExternalCommit
<1>8. ASSUME NEW n \in Nodes, Recover(n) PROVE IInv'
    <2>1. PICK e \in Epochs, c \in Refs : AutoRecover(n, e, c)
        BY <1>8 DEF Recover
    <2>2. PICK t : t = CanonicalCommit(Candidates(e))
        OBVIOUS
    <2>3. /\ t \in published
          /\ (ExternalCommit(n, t, c) /\ RotateSA(n, c)) \/ Superseded(t, c)
        BY <2>1, <2>2 DEF AutoRecover
    <2>4. QED
        BY <2>3, ExternalCommitStep, SupersededStep DEF RotateSA
<1>9. ASSUME NEW n \in Nodes, Leave(n) \/ Crash(n) PROVE IInv'
    <2>1. Reset(n)
        BY <1>9 DEF Leave, Crash
    <2>2. QED
        BY <2>1, ResetStep
<1>10. QED
    BY <1>1, <1>2, <1>3, <1>4, <1>5, <1>6, <1>7, <1>8, <1>9 DEF Next

LEMMA IInvInvariant == ASSUME Disciplined PROVE Spec => []IInv
<1>1. IInv /\ FInv' /\ [Next]_vars => IInv'
    BY NextIInv
<1>2. QED
    BY <1>1, InitIInv, FInvInvariant, PTL DEF Spec

(* Members that were not told of a loss are in decided states, whatever the *)
(* races, losses, crashes and deliveries.                                   *)
THEOREM ControllerMembersOnDecidedBranch ==
    ASSUME Disciplined PROVE Spec => []MembersOnDecidedBranch
<1>1. IInv => MembersOnDecidedBranch
    BY DEF IInv, NodesOK, NodeOK, MembersOnDecidedBranch
<1>2. QED
    BY <1>1, IInvInvariant, PTL

(* The decided commits form one chain.                                      *)
THEOREM ControllerDecidedChain ==
    ASSUME Disciplined PROVE Spec => []DecidedChain
<1>1. IInv => DecidedChain
    <2> SUFFICES ASSUME IInv, NEW e \in Epochs, decided[e] # NoRef
                 PROVE  log[decided[e]].parent = IF e = 0 THEN Genesis ELSE decided[e - 1]
        BY DEF DecidedChain
    <2>1. PICK t : t = log[decided[e]].parent
        OBVIOUS
    <2>2. Canonical(t) /\ t \in DOMAIN log /\ EpochOf(t) + 1 = e + 1
        BY <2>1 DEF IInv, DecidedOK, WellFormed
    <2>3. EpochOf(t) = e
        BY <2>2, EpochFacts DEF Epochs
    <2>4. CASE t = Genesis
        BY <2>1, <2>3, <2>4 DEF IInv, WellFormed
    <2>5. CASE t # Genesis
        BY <2>1, <2>2, <2>3, <2>5, EpochFacts DEF Canonical, Epochs
    <2>6. QED
        BY <2>4, <2>5
<1>2. QED
    BY <1>1, IInvInvariant, PTL

(* The data plane only gets SAs of decided epochs, the previous one older.  *)
THEOREM ControllerSADecided ==
    ASSUME Disciplined PROVE Spec => []SADecided
<1>1. IInv => SACanonical
    <2> SUFFICES ASSUME IInv, NEW n \in Nodes, NEW t \in {cur[n], prev[n]} \ {NoState}
                 PROVE  Canonical(t)
        BY DEF SACanonical
    <2> QED
        BY DEF IInv, NodesOK, NodeOK, TypeOK, Statuses
<1>2. IInv => SADecided
    BY <1>1 DEF IInv, NodesOK, NodeOK, SADecided
<1>3. QED
    BY <1>2, IInvInvariant, PTL

(* A controller's SA never goes back to an earlier epoch: wherever it       *)
(* changes, the old one has become the previous one.                        *)
THEOREM ControllerSAForward ==
    ASSUME Disciplined PROVE Spec => SAForward
<1>1. ASSUME IInv, IInv', Next, NEW n \in Nodes,
             cur[n] # NoState, cur'[n] # NoState, cur'[n] # cur[n]
      PROVE  log'[cur'[n]].epoch > EpochOf(cur[n])
    <2>1. \A x \in DOMAIN log : log'[x] = log[x]
        <3>1. \/ UNCHANGED log
              \/ \E m, rm, add : Commit(m, rm, add)
              \/ \E m, t, c : ExternalCommit(m, t, c)
            <4>1. PICK m \in Nodes :
                      \/ Rekey(m) \/ Converge(m)
                      \/ Order(m) \/ Broadcast(m) \/ PublishGroupInfo(m)
                      \/ Receive(m) \/ \E c \in sent : JoinViaWelcome(m, c)
                      \/ \E t \in published, c \in Refs : JoinViaExternalCommit(m, t, c)
                      \/ Recover(m)
                      \/ Leave(m) \/ Crash(m)
                BY <1>1 DEF Next
            <4>2. CASE Rekey(m) \/ Converge(m)
                BY <4>2 DEF Rekey, Converge, Reconcile
            <4>3. CASE Order(m) \/ Broadcast(m) \/ PublishGroupInfo(m)
                BY <4>3 DEF Order, OrderWon, OrderLost, OrderFencedOut, OrderError, Loses,
                            Broadcast, PublishGroupInfo
            <4>4. CASE Receive(m) \/ \E c \in sent : JoinViaWelcome(m, c)
                BY <4>4 DEF Receive, HandleCommit, HandleCommitSelfRemoved, JoinViaWelcome
            <4>5. CASE \/ \E t \in published, c \in Refs : JoinViaExternalCommit(m, t, c)
                       \/ Recover(m)
                BY <4>5 DEF JoinViaExternalCommit, Recover, AutoRecover, Superseded
            <4>6. CASE Leave(m) \/ Crash(m)
                BY <4>6 DEF Leave, Crash, Reset
            <4>7. QED
                BY <4>1, <4>2, <4>3, <4>4, <4>5, <4>6
        <3>2. UNCHANGED log \/ \E c, t, rm, add, r : NewCommit(c, t, rm, add, r)
            BY <3>1 DEF Commit, ExternalCommit
        <3>3. QED
            BY <3>2 DEF NewCommit
    <2>2. prev'[n] = cur[n]
        <3> DEFINE Rotates(m) ==
                       \/ UNCHANGED cur
                       \/ \E c : RotateSA(m, c)
                       \/ (\E c : cur' = [cur EXCEPT ![m] = c]) /\ status[m] = "out"
                       \/ Reset(m)
        <3>1. PICK m \in Nodes : Rotates(m)
            <4>1. PICK m \in Nodes :
                      \/ Rekey(m) \/ Converge(m) \/ Broadcast(m) \/ PublishGroupInfo(m)
                      \/ Order(m)
                      \/ Receive(m) \/ \E c \in sent : JoinViaWelcome(m, c)
                      \/ \E t \in published, c \in Refs : JoinViaExternalCommit(m, t, c)
                      \/ Recover(m)
                      \/ Leave(m) \/ Crash(m)
                BY <1>1 DEF Next
            <4>2. CASE Rekey(m) \/ Converge(m) \/ Broadcast(m) \/ PublishGroupInfo(m)
                BY <4>2 DEF Rekey, Converge, Reconcile, Commit, Broadcast,
                            PublishGroupInfo, nodeVars
            <4>3. CASE Order(m)
                BY <4>3 DEF Order, OrderWon, OrderLost, OrderFencedOut, OrderError, Loses
            <4>4. CASE Receive(m) \/ \E c \in sent : JoinViaWelcome(m, c)
                BY <4>4 DEF Receive, HandleCommit, HandleCommitSelfRemoved, JoinViaWelcome
            <4>5. CASE \E t \in published, c \in Refs : JoinViaExternalCommit(m, t, c)
                BY <4>5 DEF JoinViaExternalCommit, Superseded, nodeVars
            <4>6. CASE Recover(m)
                BY <4>6 DEF Recover, AutoRecover, Superseded, nodeVars
            <4>7. CASE Leave(m) \/ Crash(m)
                BY <4>7 DEF Leave, Crash
            <4>8. QED
                BY <4>1, <4>2, <4>3, <4>4, <4>5, <4>6, <4>7
        <3>2. m = n
            BY <1>1, <3>1 DEF RotateSA, Reset, IInv, TypeOK
        <3>3. ~Reset(m) /\ status[m] # "out"
            BY <1>1, <3>2 DEF Reset, IInv, TypeOK, NodesOK, NodeOK
        <3>4. PICK c : RotateSA(n, c)
            BY <1>1, <3>1, <3>2, <3>3
        <3>5. QED
            BY <1>1, <3>4 DEF RotateSA, IInv, TypeOK
    <2>3. log'[prev'[n]].epoch < log'[cur'[n]].epoch
        BY <1>1, <2>2 DEF IInv, NodesOK, NodeOK, EpochOf
    <2>4. log'[cur[n]].epoch = EpochOf(cur[n])
        BY <1>1, <2>1 DEF IInv, TypeOK, EpochOf
    <2>5. cur[n] \in DOMAIN log /\ cur'[n] \in DOMAIN log'
        BY <1>1 DEF IInv, TypeOK
    <2>6. EpochOf(cur[n]) \in Nat /\ log'[cur'[n]].epoch \in Nat
        <3>1. log[cur[n]] \in GroupStates /\ log'[cur'[n]] \in GroupStates
            BY <1>1, <2>5 DEF IInv, TypeOK
        <3>2. \A g \in GroupStates : g.epoch \in Nat
            BY DEF GroupStates
        <3>3. QED
            BY <3>1, <3>2 DEF EpochOf
    <2>7. QED
        BY <2>2, <2>3, <2>4, <2>6
<1>2. IInv /\ IInv' /\ [Next]_vars =>
          [\A n \in Nodes : cur[n] # NoState /\ cur'[n] # NoState /\ cur'[n] # cur[n]
               => log'[cur'[n]].epoch > EpochOf(cur[n])]_vars
    BY <1>1
<1>3. QED
    BY <1>2, IInvInvariant, PTL DEF Spec, SAForward
=============================================================================
