------------------------ MODULE ControllerFaultsProofs ------------------------
(***************************************************************************)
(* What the controllers keep whatever goes wrong: the ordering authority   *)
(* may fence out, fail, or let a recovery build on the lowest hash.  The   *)
(* invariant FInv and the theorems hold for every set of nodes and         *)
(* commits, every bound and every value of Fenced, OrderingFails and       *)
(* Competing.                                                              *)
(***************************************************************************)
EXTENDS Controller, TLAPS

(* Zenon is tried before the SMT solver, which gets more time than its default. *)
USE ZenonT(10), SMTT(30)

LEMMA BoundsAreNat == MaxEpoch \in Nat /\ MaxCrashes \in Nat
BY BoundsAssumption

USE NamesAssumption, BoundsAreNat

-----------------------------------------------------------------------------
(* Types                                                                    *)

RosterType == UNION {[D -> Nodes] : D \in SUBSET Leaves}

(* Removing leaves from a roster and adding nodes to it yields a roster.    *)
LEMMA RostersType ==
    ASSUME NEW r \in RosterType, NEW rm, NEW add \in SUBSET Nodes,
           NEW s \in Rosters(r, rm, add)
    PROVE  s \in RosterType
<1> DEFINE kept == Restrict(r, DOMAIN r \ rm)
           new == Blanks(kept, Cardinality(add))
<1>1. PICK D \in SUBSET Leaves : r \in [D -> Nodes]
    BY DEF RosterType
<1>2. DOMAIN kept = D \ rm
    BY <1>1 DEF Restrict
<1>3. new \subseteq Leaves
    BY DEF Blanks
<1>4. PICK f \in [new -> add] :
          s = [l \in DOMAIN kept \union new |-> IF l \in new THEN f[l] ELSE r[l]]
    BY DEF Rosters, Bijection, Injection
<1>5. s \in [(D \ rm) \union new -> Nodes]
    BY <1>1, <1>2, <1>4
<1>6. (D \ rm) \union new \in SUBSET Leaves
    BY <1>3
<1>7. QED
    BY <1>5, <1>6 DEF RosterType

(* A new commit keeps the log well-formed and the earlier entries.          *)
LogType(l) ==
    /\ DOMAIN l \subseteq States /\ Genesis \in DOMAIN l
    /\ \A t \in DOMAIN l : l[t] \in GroupStates

LEMMA NewCommitType ==
    ASSUME LogType(log), NEW c, NEW t \in DOMAIN log,
           NEW rm \in SUBSET Leaves, NEW add \in SUBSET Nodes, NEW r \in RosterType,
           NewCommit(c, t, rm, add, r)
    PROVE  /\ LogType(log)'
           /\ DOMAIN log' = DOMAIN log \union {c}
           /\ c \in Refs /\ c \notin DOMAIN log
           /\ \A x \in DOMAIN log : log'[x] = log[x]
           /\ log'[c].parent = t /\ log'[c].epoch = log[t].epoch + 1
           /\ log[t].epoch < MaxEpoch
<1>1. log[t] \in GroupStates
    BY DEF LogType
<1>2. log[t].epoch \in 0 .. MaxEpoch /\ t \in States
    BY <1>1 DEF GroupStates, LogType
<1> DEFINE new == [parent |-> t, epoch |-> log[t].epoch + 1, roster |-> r,
                   removed |-> rm, added |-> add]
<1>3. /\ log' = [x \in DOMAIN log \union {c} |-> IF x = c THEN new ELSE log[x]]
      /\ c \in Refs \ DOMAIN log
      /\ log[t].epoch < MaxEpoch
    BY DEF NewCommit, EpochOf
<1>4. new \in GroupStates
    BY <1>2, <1>3 DEF GroupStates, RosterType
<1> HIDE DEF new
<1>5. /\ DOMAIN log' = DOMAIN log \union {c}
      /\ \A x \in DOMAIN log : log'[x] = log[x]
      /\ log'[c] = new
    BY <1>3
<1>6. new.parent = t /\ new.epoch = log[t].epoch + 1
    BY DEF new
<1>7. LogType(log')
    <2>1. DOMAIN log' \subseteq States /\ Genesis \in DOMAIN log'
        BY <1>3, <1>5 DEF LogType, States
    <2>2. \A x \in DOMAIN log' : log'[x] \in GroupStates
        BY <1>4, <1>5 DEF LogType
    <2>3. QED
        BY <2>1, <2>2 DEF LogType
<1>8. QED
    BY <1>3, <1>5, <1>6, <1>7

(* AcceptCommit writes a free slot, keeps every other, and a commit that    *)
(* wins is the decided one.                                                 *)
LEMMA AcceptCommitEffect ==
    ASSUME Sequencer!TypeOK, NEW e \in Epochs, NEW c \in Refs,
           Sequencer!AcceptCommit(e, c)
    PROVE  /\ Sequencer!TypeOK'
           /\ \A f \in Epochs : decided[f] # NoRef => decided'[f] = decided[f]
           /\ \A f \in Epochs \ {e} : decided'[f] = decided[f]
           /\ Wins(e, c) => decided'[e] = c
           /\ ~Wins(e, c) => decided' = decided
BY DEF Sequencer!TypeOK, Sequencer!AcceptCommit, Wins

-----------------------------------------------------------------------------
(* The inductive invariant                                                  *)

(* Epochs count the commits that lead to a state.                           *)
WellFormed ==
    /\ EpochOf(Genesis) = 0
    /\ \A t \in DOMAIN log \ {Genesis} :
          /\ t \in Refs
          /\ log[t].parent \in DOMAIN log
          /\ EpochOf(t) = EpochOf(log[t].parent) + 1

(* The log and the register only grow.                                      *)
Grows ==
    /\ \A t \in DOMAIN log : t \in DOMAIN log' /\ log'[t] = log[t]
    /\ \A e \in Epochs : decided[e] # NoRef => decided'[e] = decided[e]


-----------------------------------------------------------------------------
(* States, epochs and decided states, from the well-formedness of the log.  *)

LEMMA StateFacts ==
    ASSUME TypeOK, WellFormed, NEW t \in DOMAIN log
    PROVE  /\ EpochOf(t) \in 0 .. MaxEpoch /\ EpochOf(t) \in Int
           /\ t # NoState
           /\ t # Genesis => EpochOf(t) - 1 \in Epochs /\ t \in Refs /\ t # NoRef
<1>1. EpochOf(t) \in 0 .. MaxEpoch /\ t \in States
    BY DEF TypeOK, EpochOf, GroupStates
<1>2. ASSUME t # Genesis PROVE EpochOf(t) - 1 \in Epochs
    <2>1. EpochOf(t) = EpochOf(log[t].parent) + 1 /\ log[t].parent \in DOMAIN log
        BY <1>2 DEF WellFormed
    <2>2. EpochOf(log[t].parent) \in 0 .. MaxEpoch
        BY <2>1 DEF TypeOK, EpochOf, GroupStates
    <2>3. QED
        BY <1>1, <2>1, <2>2 DEF Epochs
<1>3. QED
    BY <1>1, <1>2 DEF States

(* A state that won its slot keeps it, its epoch and its content.           *)
LEMMA WonStays ==
    ASSUME TypeOK, WellFormed, Grows, NEW t, Canonical(t)
    PROVE  /\ t \in DOMAIN log /\ t # NoState
           /\ Canonical(t)' /\ log'[t] = log[t]
<1>1. t \in DOMAIN log
    BY DEF TypeOK, Canonical
<1>2. t \in DOMAIN log' /\ log'[t] = log[t]
    BY <1>1 DEF Grows
<1>3. CASE t = Genesis
    BY <1>1, <1>2, <1>3, StateFacts DEF Canonical
<1>4. CASE t # Genesis
    <2>1. EpochOf(t) - 1 \in Epochs /\ t # NoRef /\ decided[EpochOf(t) - 1] = t
        BY <1>1, <1>4, StateFacts DEF Canonical
    <2>2. decided'[EpochOf(t) - 1] = t
        BY <2>1 DEF Grows
    <2>3. QED
        BY <1>1, <1>2, <2>2, StateFacts DEF Canonical, EpochOf
<1>5. QED
    BY <1>3, <1>4

(* A step that appends the commit c, made in state t, to the log.           *)
LEMMA CommitAppended ==
    ASSUME TypeOK, WellFormed, NEW c, NEW t \in DOMAIN log,
           NEW rm \in SUBSET Leaves, NEW add \in SUBSET Nodes,
           NEW old \in SUBSET Leaves,
           NEW r \in Rosters(log[t].roster, old, add),
           NewCommit(c, t, rm, add, r) \/ NewCommit(c, t, {}, {}, r)
    PROVE  /\ LogType(log)'
           /\ DOMAIN log' = DOMAIN log \union {c}
           /\ c \in Refs /\ c \notin DOMAIN log /\ c # Genesis /\ c # NoState
           /\ \A x \in DOMAIN log : log'[x] = log[x]
           /\ log'[c].parent = t /\ log'[c].epoch = EpochOf(t) + 1
           /\ EpochOf(t) < MaxEpoch
           /\ WellFormed'
<1>1. LogType(log)
    BY DEF TypeOK, LogType
<1>2. r \in RosterType
    <2>1. log[t].roster \in RosterType
        BY DEF TypeOK, GroupStates, RosterType
    <2>2. QED
        BY <2>1, RostersType
<1>3. /\ LogType(log)'
      /\ DOMAIN log' = DOMAIN log \union {c}
      /\ c \in Refs /\ c \notin DOMAIN log
      /\ \A x \in DOMAIN log : log'[x] = log[x]
      /\ log'[c].parent = t /\ log'[c].epoch = log[t].epoch + 1
      /\ log[t].epoch < MaxEpoch
    <2>1. CASE NewCommit(c, t, rm, add, r)
        BY <1>1, <1>2, <2>1, NewCommitType
    <2>2. CASE NewCommit(c, t, {}, {}, r)
        <3>1. {} \in SUBSET Leaves /\ {} \in SUBSET Nodes
            OBVIOUS
        <3>2. QED
            BY <1>1, <1>2, <2>2, <3>1, NewCommitType
    <2>3. QED
        BY <2>1, <2>2
<1>4. WellFormed'
    <2>1. EpochOf(Genesis)' = 0
        BY <1>3 DEF TypeOK, WellFormed, EpochOf
    <2>2. ASSUME NEW x \in DOMAIN log' \ {Genesis}
          PROVE  /\ x \in Refs /\ log'[x].parent \in DOMAIN log'
                 /\ log'[x].epoch = log'[log'[x].parent].epoch + 1
        <3>1. CASE x = c
            BY <1>3, <3>1
        <3>2. CASE x # c
            BY <1>3, <2>2, <3>2 DEF WellFormed, EpochOf
        <3>3. QED
            BY <3>1, <3>2
    <2>3. QED
        BY <2>1, <2>2 DEF WellFormed, EpochOf
<1>5. QED
    BY <1>3, <1>4 DEF TypeOK, EpochOf

-----------------------------------------------------------------------------
(* The invariant: a controller's SAs are of states that won their slot, and *)
(* never ahead of its group; while a commit is being ordered they are       *)
(* behind it.  The network carries only commits that won, and a slot is     *)
(* decided by a commit that was made.                                       *)
HolderOK(n) ==
    /\ status[n] = "out" => cur[n] = NoState /\ prev[n] = NoState
    /\ status[n] = "ordering" => tip[n] # Genesis
    /\ \A t \in {cur[n], prev[n]} \ {NoState} : Canonical(t)
    /\ cur[n] # NoState =>
          /\ EpochOf(cur[n]) <= EpochOf(tip[n])
          /\ status[n] = "ordering" => EpochOf(cur[n]) < EpochOf(tip[n])
HoldersOK == \A n \in Nodes : HolderOK(n)

CarriedOK == \A t : t \in sent \/ (\E n \in Nodes : t \in outbox[n]) => Canonical(t)

SlotsOK == \A e \in Epochs : decided[e] # NoRef => decided[e] \in DOMAIN log

FInv == TypeOK /\ WellFormed /\ SlotsOK /\ HoldersOK /\ CarriedOK

(* SABackOnlyIntoGap, for the step of one node.                             *)
BackIntoGap(n) ==
    cur[n] # NoState /\ cur'[n] # NoState /\ cur'[n] # cur[n]
        => \/ log'[cur'[n]].epoch > EpochOf(cur[n])
           \/ decided[log'[cur'[n]].epoch - 1] = NoRef

-----------------------------------------------------------------------------
(* Frames                                                                   *)

LEMMA HolderStable ==
    ASSUME FInv, Grows, NEW n \in Nodes,
           tip'[n] = tip[n], cur'[n] = cur[n], prev'[n] = prev[n],
           \/ status'[n] = status[n]
           \/ status[n] = "ordering" /\ status'[n] \in {"ready", "lost"}
           \/ status[n] = "ready" /\ status'[n] = "removed"
    PROVE  HolderOK(n)'
<1>1. HolderOK(n) /\ TypeOK /\ WellFormed
    BY DEF FInv, HoldersOK
<1>2. \A t \in {cur[n], prev[n]} \ {NoState} : Canonical(t)' /\ log'[t] = log[t]
    BY <1>1, WonStays DEF HolderOK
<1>3. ASSUME cur[n] # NoState
      PROVE  log'[cur[n]] = log[cur[n]] /\ log'[tip[n]] = log[tip[n]]
    <2>1. tip[n] \in DOMAIN log
        BY <1>1, <1>3 DEF HolderOK, TypeOK
    <2>2. QED
        BY <1>2, <1>3, <2>1 DEF Grows
<1>4. status'[n] = "out" => status[n] = "out"
    OBVIOUS
<1>5. status'[n] = "ordering" => status[n] = "ordering"
    OBVIOUS
<1>6. cur[n] # NoState => /\ log'[cur[n]].epoch <= log'[tip[n]].epoch
                          /\ status'[n] = "ordering" =>
                                log'[cur[n]].epoch < log'[tip[n]].epoch
    BY <1>1, <1>3, <1>5 DEF HolderOK, EpochOf
<1>7. \A t \in {cur'[n], prev'[n]} \ {NoState} : Canonical(t)'
    BY <1>2
<1>8. QED
    BY <1>1, <1>4, <1>5, <1>6, <1>7 DEF HolderOK, Canonical, EpochOf

(* A node that adopts a state that has won its slot.                        *)
LEMMA HolderAdopts ==
    ASSUME FInv, Grows, TypeOK', WellFormed', NEW n \in Nodes, NEW c, Canonical(c)',
           tip'[n] = c, cur'[n] = c, status'[n] = "ready",
           prev'[n] \in {cur[n], prev[n], NoState}
    PROVE  HolderOK(n)'
<1>1. HolderOK(n) /\ TypeOK /\ WellFormed
    BY DEF FInv, HoldersOK
<1>2. \A t \in {cur[n], prev[n]} \ {NoState} : Canonical(t)'
    BY <1>1, WonStays DEF HolderOK
<1>3. \A t \in {cur'[n], prev'[n]} \ {NoState} : Canonical(t)'
    BY <1>2
<1>4. log'[c].epoch \in Int
    <2>1. c \in DOMAIN log'
        BY DEF Canonical, TypeOK
    <2>2. log'[c] \in GroupStates
        BY <2>1 DEF TypeOK
    <2>3. QED
        BY <2>2 DEF GroupStates
<1>5. log'[c].epoch <= log'[c].epoch
    BY <1>4
<1>6. QED
    BY <1>3, <1>5 DEF HolderOK, Canonical, EpochOf

LEMMA CarriedStable ==
    ASSUME FInv, Grows,
           \A t \in sent' : t \in sent \/ Canonical(t) \/ Canonical(t)',
           \A n \in Nodes : \A t \in outbox'[n] : t \in outbox[n] \/ Canonical(t)'
    PROVE  CarriedOK'
<1>1. \A t : Canonical(t) => Canonical(t)'
    BY WonStays DEF FInv
<1>2. QED
    BY <1>1 DEF FInv, CarriedOK

LEMMA LogAndRegisterKept ==
    ASSUME FInv, UNCHANGED <<log, decided>>
    PROVE  Grows /\ WellFormed' /\ SlotsOK'
BY DEF FInv, Grows, WellFormed, SlotsOK, EpochOf

(* A step of n alone: the others keep their SAs.                            *)
LEMMA OthersKept ==
    ASSUME FInv, Grows, NEW n \in Nodes, HolderOK(n)', BackIntoGap(n),
           \A p \in Nodes \ {n} : /\ tip'[p] = tip[p] /\ status'[p] = status[p]
                                  /\ cur'[p] = cur[p] /\ prev'[p] = prev[p]
    PROVE  HoldersOK' /\ \A p \in Nodes : BackIntoGap(p)
<1>1. ASSUME NEW p \in Nodes \ {n} PROVE HolderOK(p)' /\ BackIntoGap(p)
    <2>1. /\ p \in Nodes
          /\ tip'[p] = tip[p] /\ cur'[p] = cur[p] /\ prev'[p] = prev[p]
          /\ status'[p] = status[p]
        OBVIOUS
    <2>2. HolderOK(p)'
        BY <2>1, HolderStable
    <2>3. BackIntoGap(p)
        BY <2>1 DEF BackIntoGap
    <2>4. QED
        BY <2>2, <2>3
<1>2. \A p \in Nodes : HolderOK(p)'
    BY <1>1
<1>3. \A p \in Nodes : BackIntoGap(p)
    BY <1>1
<1>4. QED
    BY <1>2, <1>3 DEF HoldersOK

-----------------------------------------------------------------------------
(* The actions                                                              *)

LEMMA FCommit ==
    ASSUME FInv, NEW n \in Nodes, NEW rm \in SUBSET Leaves, NEW add \in SUBSET Nodes,
           Commit(n, rm, add)
    PROVE  FInv' /\ \A p \in Nodes : BackIntoGap(p)
<1> USE DEF FInv
<1> PICK c \in Refs, r \in Rosters(Roster(n), rm, add) :
          NewCommit(c, tip[n], rm, add, r) /\ tip' = [tip EXCEPT ![n] = c]
    BY DEF Commit
<1> PICK t : t = tip[n]
    OBVIOUS
<1>1. /\ status[n] = "ready" /\ status' = [status EXCEPT ![n] = "ordering"]
      /\ UNCHANGED <<cur, prev, outbox, sent, published, decided, acked, refused, crashes>>
    BY DEF Commit, netVars, seqVars
<1>2. t \in DOMAIN log
    BY <1>1 DEF TypeOK
<1>3. /\ LogType(log)'
      /\ DOMAIN log' = DOMAIN log \union {c}
      /\ c \notin DOMAIN log /\ c # Genesis /\ c # NoState
      /\ \A x \in DOMAIN log : log'[x] = log[x]
      /\ log'[c].epoch = EpochOf(t) + 1
      /\ WellFormed'
    BY <1>2, CommitAppended DEF Roster
<1>4. Grows /\ SlotsOK'
    BY <1>1, <1>3 DEF Grows, SlotsOK
<1>5. TypeOK'
    BY <1>1, <1>2, <1>3 DEF TypeOK, LogType, Statuses, Sequencer!TypeOK
<1>6. HolderOK(n)'
    <2>1. /\ tip'[n] = c /\ status'[n] = "ordering" /\ cur'[n] = cur[n] /\ prev'[n] = prev[n]
          /\ HolderOK(n)
        BY <1>1 DEF TypeOK, HoldersOK
    <2>2. \A x \in {cur[n], prev[n]} \ {NoState} : Canonical(x)' /\ log'[x] = log[x]
        BY <1>4, <2>1, WonStays DEF HolderOK
    <2>3. ASSUME cur[n] # NoState
          PROVE  log'[cur[n]].epoch < log'[c].epoch /\ log'[cur[n]].epoch <= log'[c].epoch
        <3>1. cur[n] \in DOMAIN log
            BY <2>3 DEF TypeOK
        <3>2. EpochOf(cur[n]) \in Int /\ EpochOf(t) \in Int
            BY <1>2, <3>1, StateFacts
        <3>3. EpochOf(cur[n]) <= EpochOf(t)
            BY <2>1, <2>3 DEF HolderOK
        <3>4. log'[cur[n]].epoch = EpochOf(cur[n])
            BY <1>3, <3>1 DEF EpochOf
        <3>5. QED
            BY <1>3, <3>2, <3>3, <3>4
    <2>4. QED
        BY <1>3, <2>1, <2>2, <2>3 DEF HolderOK, Canonical, EpochOf
<1>7. HoldersOK' /\ \A p \in Nodes : BackIntoGap(p)
    <2>1. BackIntoGap(n)
        BY <1>1 DEF BackIntoGap
    <2>2. QED
        BY <1>1, <1>4, <1>6, <2>1, OthersKept DEF TypeOK
<1>8. CarriedOK'
    BY <1>1, <1>4, CarriedStable
<1>9. QED
    BY <1>3, <1>4, <1>5, <1>7, <1>8

(* The commit wins its slot: its epoch is later than the SA's.              *)
LEMMA FOrderWon ==
    ASSUME FInv, NEW n \in Nodes, OrderWon(n)
    PROVE  FInv' /\ \A p \in Nodes : BackIntoGap(p)
<1> USE DEF FInv
<1> PICK c : c = tip[n]
    OBVIOUS
<1> PICK e : e = EpochOf(c) - 1
    OBVIOUS
<1>1. /\ status[n] = "ordering" /\ Wins(e, c) /\ Sequencer!AcceptCommit(e, c)
      /\ RotateSA(n, c) /\ status' = [status EXCEPT ![n] = "ready"]
      /\ outbox' = [outbox EXCEPT ![n] = @ \union {c}]
      /\ UNCHANGED <<log, tip, sent, published, crashes>>
    BY DEF OrderWon
<1>2. c \in DOMAIN log /\ c # Genesis /\ HolderOK(n)
    BY <1>1 DEF TypeOK, HoldersOK, HolderOK
<1>3. e \in Epochs /\ c \in Refs /\ c # NoRef /\ c # NoState /\ EpochOf(c) = e + 1
    BY <1>2, StateFacts
<1>4. /\ Sequencer!TypeOK'
      /\ \A f \in Epochs : decided[f] # NoRef => decided'[f] = decided[f]
      /\ \A f \in Epochs \ {e} : decided'[f] = decided[f]
      /\ decided'[e] = c
    BY <1>1, <1>3, AcceptCommitEffect DEF TypeOK
<1>5. Grows /\ WellFormed' /\ SlotsOK'
    <2>1. Grows /\ WellFormed'
        BY <1>1, <1>4 DEF Grows, WellFormed, EpochOf
    <2>2. SlotsOK'
        BY <1>1, <1>2, <1>4 DEF SlotsOK
    <2>3. QED
        BY <2>1, <2>2
<1>6. Canonical(c)'
    BY <1>1, <1>2, <1>4 DEF Canonical, EpochOf
<1>7. TypeOK'
    BY <1>1, <1>2, <1>3, <1>4 DEF TypeOK, Statuses, RotateSA
<1>8. /\ tip'[n] = c /\ cur'[n] = c /\ status'[n] = "ready" /\ prev'[n] = cur[n]
    BY <1>1 DEF TypeOK, RotateSA
<1>9. HolderOK(n)'
    BY <1>5, <1>6, <1>7, <1>8, HolderAdopts
<1>10. BackIntoGap(n)
    <2> SUFFICES ASSUME cur[n] # NoState PROVE log'[c].epoch > EpochOf(cur[n])
        BY <1>8 DEF BackIntoGap
    <2>1. EpochOf(cur[n]) < EpochOf(c)
        BY <1>1, <1>2 DEF HolderOK
    <2>2. EpochOf(cur[n]) \in Int /\ EpochOf(c) \in Int
        BY <1>2, StateFacts DEF TypeOK
    <2>3. log'[c].epoch = EpochOf(c)
        BY <1>1 DEF EpochOf
    <2>4. QED
        BY <2>1, <2>2, <2>3
<1>11. HoldersOK' /\ \A p \in Nodes : BackIntoGap(p)
    BY <1>1, <1>5, <1>9, <1>10, OthersKept DEF TypeOK, RotateSA
<1>12. CarriedOK'
    <2>1. \A p \in Nodes : \A x \in outbox'[p] : x \in outbox[p] \/ Canonical(x)'
        BY <1>1, <1>6 DEF TypeOK
    <2>2. QED
        BY <1>1, <1>5, <2>1, CarriedStable
<1>13. QED
    BY <1>5, <1>7, <1>11, <1>12

(* The authority answers no, fences out or fails: no SA changes.            *)
LEMMA FOrderNot ==
    ASSUME FInv, NEW n \in Nodes, OrderLost(n) \/ OrderFencedOut(n) \/ OrderError(n)
    PROVE  FInv' /\ \A p \in Nodes : BackIntoGap(p)
<1> USE DEF FInv
<1>1. /\ status[n] = "ordering"
      /\ \E s \in {"ready", "lost"} : status' = [status EXCEPT ![n] = s]
      /\ UNCHANGED <<log, tip, cur, prev, outbox, sent, published, crashes>>
    BY DEF OrderLost, OrderFencedOut, OrderError, Loses, netVars
<1>2. decided' = decided /\ Sequencer!TypeOK'
    <2>1. CASE OrderLost(n)
        <3> PICK c : c = tip[n]
            OBVIOUS
        <3> PICK e : e = EpochOf(c) - 1
            OBVIOUS
        <3>1. ~Wins(e, c) /\ Sequencer!AcceptCommit(e, c)
            BY <2>1 DEF OrderLost
        <3>2. c \in DOMAIN log /\ c # Genesis
            BY <1>1 DEF TypeOK, HoldersOK, HolderOK
        <3>3. e \in Epochs /\ c \in Refs
            BY <3>2, StateFacts
        <3>4. QED
            BY <3>1, <3>3, AcceptCommitEffect DEF TypeOK
    <2>2. CASE OrderFencedOut(n)
        <3> PICK c : c = tip[n]
            OBVIOUS
        <3> PICK e : e = EpochOf(c) - 1
            OBVIOUS
        <3>1. Sequencer!FencedOut(e, c)
            BY <2>2 DEF OrderFencedOut
        <3>2. c \in DOMAIN log /\ c # Genesis
            BY <1>1 DEF TypeOK, HoldersOK, HolderOK
        <3>3. e \in Epochs /\ c \in Refs
            BY <3>2, StateFacts
        <3>4. QED
            BY <3>1, <3>3 DEF TypeOK, Sequencer!TypeOK, Sequencer!FencedOut
    <2>3. CASE OrderError(n)
        BY <2>3 DEF OrderError, seqVars, TypeOK, Sequencer!TypeOK
    <2>4. QED
        BY <2>1, <2>2, <2>3
<1>3. Grows /\ WellFormed' /\ SlotsOK'
    BY <1>1, <1>2, LogAndRegisterKept
<1>4. TypeOK'
    BY <1>1, <1>2 DEF TypeOK, Statuses
<1>5. HolderOK(n)'
    <2>1. tip'[n] = tip[n] /\ cur'[n] = cur[n] /\ prev'[n] = prev[n]
          /\ status[n] = "ordering" /\ status'[n] \in {"ready", "lost"}
        BY <1>1 DEF TypeOK
    <2>2. QED
        BY <1>3, <2>1, HolderStable
<1>6. BackIntoGap(n)
    BY <1>1 DEF BackIntoGap
<1>7. HoldersOK' /\ \A p \in Nodes : BackIntoGap(p)
    BY <1>1, <1>3, <1>5, <1>6, OthersKept DEF TypeOK
<1>8. CarriedOK'
    BY <1>1, <1>3, CarriedStable
<1>9. QED
    BY <1>3, <1>4, <1>7, <1>8

(* Broadcast and PublishGroupInfo.                                          *)
LEMMA FNet ==
    ASSUME FInv, NEW n \in Nodes, Broadcast(n) \/ PublishGroupInfo(n)
    PROVE  FInv' /\ \A p \in Nodes : BackIntoGap(p)
<1> USE DEF FInv
<1>1. UNCHANGED <<log, tip, status, cur, prev, decided, acked, refused, crashes>>
    BY DEF Broadcast, PublishGroupInfo, nodeVars, seqVars
<1>2. Grows /\ WellFormed' /\ SlotsOK'
    BY <1>1, LogAndRegisterKept
<1>3. /\ \A t \in sent' : t \in sent \/ Canonical(t)
      /\ \A p \in Nodes : \A t \in outbox'[p] : t \in outbox[p]
      /\ TypeOK'
    <2>1. CASE Broadcast(n)
        <3>1. PICK c : sent' = sent \union {c} /\ c \in outbox[n]
                       /\ outbox' = [outbox EXCEPT ![n] = @ \ {c}] /\ published' = published
            BY <2>1 DEF Broadcast
        <3>2. Canonical(c) /\ c \in DOMAIN log
            BY <3>1 DEF CarriedOK, TypeOK
        <3>3. outbox \in [Nodes -> SUBSET (DOMAIN log)]
            BY DEF TypeOK
        <3>4. QED
            BY <1>1, <3>1, <3>2, <3>3 DEF TypeOK, Sequencer!TypeOK
    <2>2. CASE PublishGroupInfo(n)
        <3>1. /\ published' = published \union {tip[n]} /\ outbox' = outbox /\ sent' = sent
              /\ status[n] # "out"
            BY <2>2 DEF PublishGroupInfo
        <3>2. tip[n] \in DOMAIN log
            BY <3>1 DEF TypeOK
        <3>3. QED
            BY <1>1, <3>1, <3>2 DEF TypeOK, Sequencer!TypeOK
    <2>3. QED
        BY <2>1, <2>2
<1>4. HolderOK(n)' /\ BackIntoGap(n)
    <2>1. HolderOK(n)'
        BY <1>1, <1>2, HolderStable
    <2>2. QED
        BY <1>1, <2>1 DEF BackIntoGap
<1>5. HoldersOK' /\ \A p \in Nodes : BackIntoGap(p)
    BY <1>1, <1>2, <1>4, OthersKept
<1>6. CarriedOK'
    BY <1>2, <1>3, CarriedStable
<1>7. QED
    BY <1>2, <1>3, <1>5, <1>6

(* HandleCommit: the commit was made in the own state, which is not behind  *)
(* the SA's.                                                                *)
LEMMA FReceive ==
    ASSUME FInv, NEW n \in Nodes, NEW c \in sent,
           HandleCommit(n, c) \/ HandleCommitSelfRemoved(n, c)
    PROVE  FInv' /\ \A p \in Nodes : BackIntoGap(p)
<1> USE DEF FInv
<1> PICK t : t = tip[n]
    OBVIOUS
<1>1. /\ status[n] = "ready" /\ log[c].parent = t /\ c # Genesis
      /\ UNCHANGED <<log, outbox, sent, published, decided, acked, refused, crashes>>
    BY DEF HandleCommit, HandleCommitSelfRemoved, Processable, netVars, seqVars
<1>2. Grows /\ WellFormed' /\ SlotsOK'
    BY <1>1, LogAndRegisterKept
<1>3. /\ c \in DOMAIN log /\ Canonical(c)' /\ t \in DOMAIN log
      /\ EpochOf(c) = EpochOf(t) + 1 /\ HolderOK(n)
    <2>1. c \in DOMAIN log /\ Canonical(c)' /\ t \in DOMAIN log
        BY <1>1, <1>2, WonStays DEF CarriedOK, TypeOK
    <2>2. EpochOf(c) = EpochOf(t) + 1 /\ HolderOK(n)
        BY <1>1, <2>1 DEF WellFormed, HoldersOK
    <2>3. QED
        BY <2>1, <2>2
<1>4. TypeOK' /\ HolderOK(n)' /\ BackIntoGap(n)
      /\ \A p \in Nodes \ {n} : /\ tip'[p] = tip[p] /\ status'[p] = status[p]
                                /\ cur'[p] = cur[p] /\ prev'[p] = prev[p]
    <2>1. CASE HandleCommit(n, c)
        <3>1. /\ tip' = [tip EXCEPT ![n] = c] /\ RotateSA(n, c) /\ status' = status
            BY <2>1 DEF HandleCommit
        <3>2. TypeOK'
            <4>1. c # NoState /\ t # NoState
                BY <1>3, StateFacts
            <4>2. QED
                BY <1>1, <1>3, <3>1, <4>1 DEF TypeOK, RotateSA, Sequencer!TypeOK
        <3>3. /\ tip'[n] = c /\ cur'[n] = c /\ status'[n] = "ready" /\ prev'[n] = cur[n]
            BY <1>1, <3>1 DEF TypeOK, RotateSA
        <3>4. HolderOK(n)'
            BY <1>2, <1>3, <3>2, <3>3, HolderAdopts
        <3>5. BackIntoGap(n)
            <4> SUFFICES ASSUME cur[n] # NoState PROVE log'[c].epoch > EpochOf(cur[n])
                BY <3>3 DEF BackIntoGap
            <4>1. EpochOf(cur[n]) <= EpochOf(t)
                BY <1>3 DEF HolderOK
            <4>2. EpochOf(cur[n]) \in Int /\ EpochOf(t) \in Int
                BY <1>3, StateFacts DEF TypeOK
            <4>3. log'[c].epoch = EpochOf(t) + 1
                BY <1>1, <1>3 DEF EpochOf
            <4>4. QED
                BY <4>1, <4>2, <4>3
        <3>6. QED
            BY <3>1, <3>2, <3>4, <3>5 DEF TypeOK, RotateSA
    <2>2. CASE HandleCommitSelfRemoved(n, c)
        <3>1. status' = [status EXCEPT ![n] = "removed"] /\ UNCHANGED <<tip, cur, prev>>
            BY <2>2 DEF HandleCommitSelfRemoved
        <3>2. TypeOK'
            BY <1>1, <3>1 DEF TypeOK, Statuses, Sequencer!TypeOK
        <3>3. HolderOK(n)'
            <4>1. /\ tip'[n] = tip[n] /\ cur'[n] = cur[n] /\ prev'[n] = prev[n]
                  /\ status[n] = "ready" /\ status'[n] = "removed"
                BY <1>1, <3>1 DEF TypeOK
            <4>2. QED
                BY <1>2, <4>1, HolderStable
        <3>4. BackIntoGap(n)
            BY <3>1 DEF BackIntoGap
        <3>5. QED
            BY <3>1, <3>2, <3>3, <3>4 DEF TypeOK
    <2>3. QED
        BY <2>1, <2>2
<1>5. HoldersOK' /\ \A p \in Nodes : BackIntoGap(p)
    BY <1>2, <1>4, OthersKept
<1>6. CarriedOK'
    BY <1>1, <1>2, CarriedStable
<1>7. QED
    BY <1>2, <1>4, <1>5, <1>6

LEMMA FWelcome ==
    ASSUME FInv, NEW n \in Nodes, NEW c \in sent, JoinViaWelcome(n, c)
    PROVE  FInv' /\ \A p \in Nodes : BackIntoGap(p)
<1> USE DEF FInv
<1>1. /\ status[n] = "out" /\ tip' = [tip EXCEPT ![n] = c] /\ cur' = [cur EXCEPT ![n] = c]
      /\ status' = [status EXCEPT ![n] = "ready"]
      /\ UNCHANGED <<log, prev, outbox, sent, published, decided, acked, refused, crashes>>
    BY DEF JoinViaWelcome, netVars, seqVars
<1>2. Grows /\ WellFormed' /\ SlotsOK'
    BY <1>1, LogAndRegisterKept
<1>3. c \in DOMAIN log /\ c # NoState /\ Canonical(c)'
    BY <1>2, WonStays DEF CarriedOK
<1>4. TypeOK'
    BY <1>1, <1>3 DEF TypeOK, Statuses, Sequencer!TypeOK
<1>5. /\ tip'[n] = c /\ cur'[n] = c /\ status'[n] = "ready" /\ prev'[n] = prev[n]
      /\ cur[n] = NoState
    BY <1>1 DEF TypeOK, HoldersOK, HolderOK
<1>6. HolderOK(n)'
    BY <1>2, <1>3, <1>4, <1>5, HolderAdopts
<1>7. BackIntoGap(n)
    BY <1>5 DEF BackIntoGap
<1>8. HoldersOK' /\ \A p \in Nodes : BackIntoGap(p)
    BY <1>1, <1>2, <1>6, <1>7, OthersKept DEF TypeOK
<1>9. CarriedOK'
    BY <1>1, <1>2, CarriedStable
<1>10. QED
    BY <1>2, <1>4, <1>8, <1>9

(* JoinViaExternalCommit derives the SA, RecoverViaExternalCommit rotates it.*)
SwitchSA(n, c) ==
    /\ cur' = [cur EXCEPT ![n] = c]
    /\ prev' = prev \/ prev' = [prev EXCEPT ![n] = cur[n]]

LEMMA ExternalAppended ==
    ASSUME TypeOK, WellFormed, NEW n \in Nodes, NEW t \in published, NEW c \in Refs,
           ExternalCommit(n, t, c)
    PROVE  /\ LogType(log)'
           /\ DOMAIN log' = DOMAIN log \union {c}
           /\ c \notin DOMAIN log /\ c # Genesis /\ c # NoState
           /\ \A x \in DOMAIN log : log'[x] = log[x]
           /\ log'[c].parent = t /\ log'[c].epoch = EpochOf(t) + 1
           /\ WellFormed'
<1> DEFINE old == OwnLeaves(log[t].roster, n)
<1>1. t \in DOMAIN log
    BY DEF TypeOK
<1>2. old \in SUBSET Leaves
    <2>1. log[t].roster \in RosterType
        BY <1>1 DEF TypeOK, GroupStates, RosterType
    <2>2. QED
        BY <2>1 DEF OwnLeaves, RosterType
<1>3. PICK r \in Rosters(log[t].roster, old, {n}) : NewCommit(c, t, {}, {}, r)
    BY DEF ExternalCommit
<1> HIDE DEF old
<1>4. {n} \in SUBSET Nodes /\ {} \in SUBSET Leaves
    OBVIOUS
<1>5. QED
    BY <1>1, <1>2, <1>3, <1>4, CommitAppended

LEMMA SlotBefore ==
    ASSUME NEW e \in Epochs, NEW x, x = e + 1
    PROVE  x - 1 = e
BY DEF Epochs

(* An external commit wins a slot that was open until then.                 *)
LEMMA FExternal ==
    ASSUME FInv, NEW n \in Nodes, NEW t \in published, NEW c \in Refs,
           ExternalCommit(n, t, c), SwitchSA(n, c)
    PROVE  FInv' /\ \A p \in Nodes : BackIntoGap(p)
<1> PICK e : e = EpochOf(t)
    OBVIOUS
<1>1. TypeOK /\ WellFormed /\ SlotsOK
    BY DEF FInv
<1>2. e \in Epochs /\ Wins(e, c) /\ Sequencer!AcceptCommit(e, c)
    BY DEF ExternalCommit
<1>3. /\ tip' = [tip EXCEPT ![n] = c] /\ status' = [status EXCEPT ![n] = "ready"]
      /\ outbox' = [outbox EXCEPT ![n] = @ \union {c}]
      /\ UNCHANGED <<sent, published, crashes>>
    BY DEF ExternalCommit
<1>4. /\ LogType(log)'
      /\ DOMAIN log' = DOMAIN log \union {c}
      /\ c \notin DOMAIN log /\ c # Genesis /\ c # NoState
      /\ \A x \in DOMAIN log : log'[x] = log[x]
      /\ log'[c].epoch = e + 1
      /\ WellFormed'
    BY <1>1, ExternalAppended
<1>5. log'[c].epoch - 1 = e
    BY <1>2, <1>4, SlotBefore
<1>6. /\ Sequencer!TypeOK'
      /\ \A f \in Epochs : decided[f] # NoRef => decided'[f] = decided[f]
      /\ \A f \in Epochs \ {e} : decided'[f] = decided[f]
      /\ decided'[e] = c
    BY <1>1, <1>2, AcceptCommitEffect DEF TypeOK
<1>7. Grows
    BY <1>4, <1>6 DEF Grows
<1>8. SlotsOK'
    BY <1>1, <1>4, <1>6 DEF SlotsOK
<1>9. Canonical(c)'
    BY <1>4, <1>5, <1>6 DEF Canonical, EpochOf
<1>10. TypeOK'
    BY <1>1, <1>3, <1>4, <1>6 DEF SwitchSA, TypeOK, LogType, Statuses
<1>11. /\ tip'[n] = c /\ cur'[n] = c /\ status'[n] = "ready"
       /\ prev'[n] \in {cur[n], prev[n], NoState}
    BY <1>1, <1>3 DEF SwitchSA, TypeOK
<1>12. HolderOK(n)'
    BY <1>4, <1>7, <1>9, <1>10, <1>11, HolderAdopts
<1>13. BackIntoGap(n)
    <2>1. decided[e] = NoRef
        BY <1>1, <1>2, <1>4 DEF Wins, SlotsOK
    <2>2. QED
        BY <1>5, <1>11, <2>1 DEF BackIntoGap
<1>14. \A p \in Nodes \ {n} : /\ tip'[p] = tip[p] /\ status'[p] = status[p]
                              /\ cur'[p] = cur[p] /\ prev'[p] = prev[p]
    BY <1>1, <1>3 DEF SwitchSA, TypeOK
<1>15. HoldersOK' /\ \A p \in Nodes : BackIntoGap(p)
    BY <1>7, <1>12, <1>13, <1>14, OthersKept
<1>16. CarriedOK'
    <2>1. \A p \in Nodes : \A x \in outbox'[p] : x \in outbox[p] \/ Canonical(x)'
        BY <1>1, <1>3, <1>9 DEF TypeOK
    <2>2. QED
        BY <1>3, <1>7, <2>1, CarriedStable
<1>17. QED
    BY <1>4, <1>8, <1>10, <1>15, <1>16 DEF FInv

(* The slot is taken: the commit is dropped.                                *)
LEMMA FSuperseded ==
    ASSUME FInv, NEW t \in published, NEW c \in Refs, Superseded(t, c)
    PROVE  FInv' /\ \A p \in Nodes : BackIntoGap(p)
<1> USE DEF FInv
<1>1. UNCHANGED <<log, tip, status, cur, prev, outbox, sent, published, crashes>>
    BY DEF Superseded, nodeVars, netVars
<1>2. decided' = decided /\ Sequencer!TypeOK'
    BY AcceptCommitEffect DEF Superseded, TypeOK
<1>3. Grows /\ WellFormed' /\ SlotsOK'
    BY <1>1, <1>2, LogAndRegisterKept
<1>4. ASSUME NEW p \in Nodes PROVE HolderOK(p)' /\ BackIntoGap(p)
    <2>1. HolderOK(p)'
        BY <1>1, <1>3, HolderStable
    <2>2. QED
        BY <1>1, <2>1 DEF BackIntoGap
<1>5. TypeOK'
    BY <1>1, <1>2 DEF TypeOK
<1>6. CarriedOK'
    BY <1>1, <1>3, CarriedStable
<1>7. QED
    BY <1>3, <1>4, <1>5, <1>6 DEF HoldersOK

LEMMA FReset ==
    ASSUME FInv, NEW n \in Nodes, Leave(n) \/ Crash(n)
    PROVE  FInv' /\ \A p \in Nodes : BackIntoGap(p)
<1> USE DEF FInv
<1>1. /\ tip' = [tip EXCEPT ![n] = NoState] /\ cur' = [cur EXCEPT ![n] = NoState]
      /\ prev' = [prev EXCEPT ![n] = NoState] /\ status' = [status EXCEPT ![n] = "out"]
      /\ outbox' = [outbox EXCEPT ![n] = {}]
      /\ UNCHANGED <<log, sent, published, decided, acked, refused>>
    BY DEF Leave, Crash, Reset, seqVars
<1>2. crashes' \in 0 .. MaxCrashes
    BY DEF Leave, Crash, TypeOK
<1>3. Grows /\ WellFormed' /\ SlotsOK'
    BY <1>1, LogAndRegisterKept
<1>4. TypeOK'
    BY <1>1, <1>2 DEF TypeOK, Statuses, Sequencer!TypeOK
<1>5. /\ tip'[n] = NoState /\ cur'[n] = NoState /\ prev'[n] = NoState
      /\ status'[n] = "out"
    BY <1>1 DEF TypeOK
<1>6. HolderOK(n)' /\ BackIntoGap(n)
    BY <1>5 DEF HolderOK, BackIntoGap
<1>7. HoldersOK' /\ \A p \in Nodes : BackIntoGap(p)
    BY <1>1, <1>3, <1>6, OthersKept DEF TypeOK
<1>8. CarriedOK'
    <2>1. \A p \in Nodes : \A x \in outbox'[p] : x \in outbox[p]
        BY <1>1 DEF TypeOK
    <2>2. QED
        BY <1>1, <1>3, <2>1, CarriedStable
<1>9. QED
    BY <1>3, <1>4, <1>7, <1>8

-----------------------------------------------------------------------------
LEMMA FInit == Init => FInv
<1> SUFFICES ASSUME Init PROVE FInv
    OBVIOUS
<1>1. log[Genesis] \in GroupStates
    <2>1. log[Genesis] = [parent |-> Genesis, epoch |-> 0, roster |-> Founders,
                          removed |-> {}, added |-> {}]
        BY DEF Init
    <2>2. Genesis \in States /\ 0 \in 0 .. MaxEpoch /\ Founders \in RosterType
        BY FoundersAssumption DEF States, RosterType
    <2>3. QED
        BY <2>1, <2>2 DEF GroupStates, RosterType
<1>2. TypeOK /\ WellFormed
    <2>1. tip \in [Nodes -> {Genesis, NoState}] /\ cur \in [Nodes -> {Genesis, NoState}]
        BY DEF Init
    <2>2. \A n \in Nodes : status[n] = "out" <=> tip[n] = NoState
        BY DEF Init
    <2>3. TypeOK
        BY <1>1, <2>1, <2>2 DEF Init, TypeOK, Sequencer!Init, Sequencer!TypeOK, Statuses, States
    <2>4. WellFormed
        BY DEF Init, WellFormed, EpochOf
    <2>5. QED
        BY <2>3, <2>4
<1>3. SlotsOK /\ CarriedOK
    BY DEF Init, Sequencer!Init, SlotsOK, CarriedOK
<1>4. ASSUME NEW n \in Nodes PROVE HolderOK(n)
    <2>1. cur[n] = tip[n] /\ prev[n] = NoState /\ status[n] \in {"ready", "out"}
          /\ tip[n] \in {Genesis, NoState} /\ (status[n] = "out" <=> tip[n] = NoState)
        BY <1>2 DEF Init, TypeOK
    <2>2. EpochOf(Genesis) = 0
        BY <1>2 DEF WellFormed
    <2>3. 0 <= 0
        OBVIOUS
    <2>4. CASE tip[n] = NoState
        BY <2>1, <2>4 DEF HolderOK
    <2>5. CASE tip[n] = Genesis
        BY <2>1, <2>2, <2>3, <2>5 DEF HolderOK, Canonical
    <2>6. QED
        BY <2>1, <2>4, <2>5
<1>5. QED
    BY <1>2, <1>3, <1>4 DEF FInv, HoldersOK

LEMMA FNext ==
    ASSUME FInv, [Next]_vars
    PROVE  FInv' /\ \A p \in Nodes : BackIntoGap(p)
<1> DEFINE Kept == FInv' /\ \A p \in Nodes : BackIntoGap(p)
<1>1. CASE UNCHANGED vars
    <2>1. UNCHANGED <<log, tip, status, cur, prev, outbox, sent, published,
                      decided, acked, refused, crashes>>
        BY <1>1 DEF vars, nodeVars, netVars, seqVars
    <2>2. FInv'
        BY <2>1 DEF FInv, TypeOK, WellFormed, SlotsOK, HoldersOK, HolderOK, CarriedOK,
                    Canonical, EpochOf, Sequencer!TypeOK
    <2>3. QED
        BY <2>1, <2>2 DEF BackIntoGap
<1>2. ASSUME NEW n \in Nodes, Rekey(n) PROVE Kept
    <2>1. Commit(n, {}, {})
        BY <1>2 DEF Rekey
    <2>2. QED
        BY <2>1, FCommit
<1>3. ASSUME NEW n \in Nodes, Converge(n) PROVE Kept
    <2>1. PICK desired \in SUBSET Nodes : Reconcile(n, desired)
        BY <1>3 DEF Converge
    <2>2. tip[n] \in DOMAIN log
        BY <2>1 DEF Reconcile, FInv, TypeOK
    <2>3. Roster(n) \in RosterType
        BY <2>2 DEF Roster, RosterType, FInv, TypeOK, GroupStates
    <2>4. DOMAIN Roster(n) \subseteq Leaves
        BY <2>3 DEF RosterType
    <2>5. PICK rm \in SUBSET Leaves, add \in SUBSET Nodes : Commit(n, rm, add)
        BY <2>1, <2>4 DEF Reconcile
    <2>6. QED
        BY <2>5, FCommit
<1>4. ASSUME NEW n \in Nodes, Order(n) PROVE Kept
    BY <1>4, FOrderWon, FOrderNot DEF Order
<1>5. ASSUME NEW n \in Nodes, Broadcast(n) \/ PublishGroupInfo(n) PROVE Kept
    BY <1>5, FNet
<1>6. ASSUME NEW n \in Nodes, Receive(n) \/ \E c \in sent : JoinViaWelcome(n, c) PROVE Kept
    BY <1>6, FReceive, FWelcome DEF Receive
<1>7. ASSUME NEW n \in Nodes, NEW t \in published, NEW c \in Refs,
             JoinViaExternalCommit(n, t, c)
      PROVE  Kept
    BY <1>7, FExternal, FSuperseded DEF JoinViaExternalCommit, SwitchSA
<1>8. ASSUME NEW n \in Nodes, Recover(n) PROVE Kept
    <2>1. PICK e \in Epochs, c \in Refs : AutoRecover(n, e, c)
        BY <1>8 DEF Recover
    <2>2. PICK t : t = CanonicalCommit(Candidates(e))
        OBVIOUS
    <2>3. /\ t \in published
          /\ (ExternalCommit(n, t, c) /\ RotateSA(n, c)) \/ Superseded(t, c)
        BY <2>1, <2>2 DEF AutoRecover
    <2>4. QED
        BY <2>3, FExternal, FSuperseded DEF RotateSA, SwitchSA
<1>9. ASSUME NEW n \in Nodes, Leave(n) \/ Crash(n) PROVE Kept
    BY <1>9, FReset
<1>10. QED
    BY <1>1, <1>2, <1>3, <1>4, <1>5, <1>6, <1>7, <1>8, <1>9 DEF Next

LEMMA FInvInvariant == Spec => []FInv
<1>1. FInv /\ [Next]_vars => FInv'
    BY FNext
<1>2. QED
    BY <1>1, FInit, PTL DEF Spec

(* The state of controllers, network and authority keeps its type.          *)
THEOREM ControllerTypeOK == Spec => []TypeOK
<1>1. FInv => TypeOK
    BY DEF FInv
<1>2. QED
    BY <1>1, FInvInvariant, PTL

(* The data plane only gets SAs of decided epochs: also where AcceptCommit  *)
(* fails and the controller goes on with its optimistic commit, and where a *)
(* recovery builds on a commit that no slot holds.                          *)
THEOREM ControllerSACanonical == Spec => []SACanonical
<1>1. FInv => SACanonical
    BY DEF FInv, HoldersOK, HolderOK, SACanonical
<1>2. QED
    BY <1>1, FInvInvariant, PTL

(* An SA goes back to an earlier epoch only by an external commit that      *)
(* fills a slot nobody had decided.                                         *)
THEOREM ControllerSABackOnlyIntoGap == Spec => SABackOnlyIntoGap
<1>1. FInv /\ [Next]_vars =>
          [\A n \in Nodes : cur[n] # NoState /\ cur'[n] # NoState /\ cur'[n] # cur[n]
               => \/ log'[cur'[n]].epoch > EpochOf(cur[n])
                  \/ decided[log'[cur'[n]].epoch - 1] = NoRef]_vars
    BY FNext DEF BackIntoGap
<1>2. QED
    BY <1>1, FInvInvariant, PTL DEF Spec, SABackOnlyIntoGap

-----------------------------------------------------------------------------
(* Rosters: one leaf each for the nodes that are added.                     *)

LEMMA RostersInjective ==
    ASSUME NEW r \in RosterType, IsInjective(r), NEW rm, NEW add \in SUBSET Nodes,
           \A l \in DOMAIN r \ rm : r[l] \notin add,
           NEW s \in Rosters(r, rm, add)
    PROVE  IsInjective(s)
<1> DEFINE kept == Restrict(r, DOMAIN r \ rm)
           new == Blanks(kept, Cardinality(add))
<1>1. DOMAIN kept = DOMAIN r \ rm
    BY DEF Restrict
<1>2. PICK f \in Bijection(new, add) :
          s = [l \in DOMAIN kept \union new |-> IF l \in new THEN f[l] ELSE r[l]]
    BY DEF Rosters
<1> HIDE DEF new, kept
<1>3. f \in [new -> add] /\ \A a, b \in new : f[a] = f[b] => a = b
    BY DEF Bijection, Injection, IsInjective
<1>4. ASSUME NEW a \in DOMAIN s, NEW b \in DOMAIN s, s[a] = s[b] PROVE a = b
    <2>1. DOMAIN s = (DOMAIN r \ rm) \union new
        BY <1>1, <1>2
    <2>2. CASE a \in new /\ b \in new
        BY <1>2, <1>3, <1>4, <2>2
    <2>3. CASE a \notin new /\ b \notin new
        BY <1>1, <1>2, <1>4, <2>1, <2>3 DEF IsInjective
    <2>4. CASE a \in new /\ b \notin new
        BY <1>1, <1>2, <1>3, <1>4, <2>1, <2>4
    <2>5. CASE a \notin new /\ b \in new
        BY <1>1, <1>2, <1>3, <1>4, <2>1, <2>5
    <2>6. QED
        BY <2>2, <2>3, <2>4, <2>5
<1>5. QED
    BY <1>4 DEF IsInjective

(* A commit whose roster has one leaf per node keeps them all so.           *)
LEMMA LeafKept ==
    ASSUME OneLeafPerNode, NEW c, NEW t, NEW rm, NEW add, NEW r, IsInjective(r),
           NewCommit(c, t, rm, add, r)
    PROVE  OneLeafPerNode'
<1>1. ASSUME NEW x \in DOMAIN log' PROVE IsInjective(log'[x].roster)
    <2>1. CASE x = c
        <3>1. log'[x].roster = r
            BY <1>1, <2>1 DEF NewCommit
        <3>2. QED
            BY <3>1
    <2>2. CASE x # c
        <3>1. x \in DOMAIN log /\ log'[x] = log[x]
            BY <1>1, <2>2 DEF NewCommit
        <3>2. QED
            BY <3>1 DEF OneLeafPerNode
    <2>3. QED
        BY <2>1, <2>2
<1>2. QED
    BY <1>1 DEF OneLeafPerNode

LEMMA LeafCommit ==
    ASSUME TypeOK, OneLeafPerNode, NEW n \in Nodes, NEW rm, NEW add \in SUBSET Nodes,
           \A l \in DOMAIN Roster(n) \ rm : Roster(n)[l] \notin add,
           Commit(n, rm, add)
    PROVE  OneLeafPerNode'
<1>1. tip[n] \in DOMAIN log
    BY DEF Commit, TypeOK
<1>2. Roster(n) \in RosterType /\ IsInjective(Roster(n))
    BY <1>1 DEF Roster, RosterType, TypeOK, GroupStates, OneLeafPerNode
<1>3. PICK c \in Refs, r \in Rosters(Roster(n), rm, add) : NewCommit(c, tip[n], rm, add, r)
    BY DEF Commit
<1>4. IsInjective(r)
    BY <1>2, RostersInjective
<1>5. QED
    BY <1>3, <1>4, LeafKept

LEMMA LeafExternal ==
    ASSUME TypeOK, OneLeafPerNode, NEW n \in Nodes, NEW t \in published, NEW c,
           ExternalCommit(n, t, c)
    PROVE  OneLeafPerNode'
<1>1. PICK q : q = log[t].roster
    OBVIOUS
<1>2. q \in RosterType /\ IsInjective(q)
    <2>1. t \in DOMAIN log
        BY DEF TypeOK
    <2>2. IsInjective(q)
        BY <1>1, <2>1 DEF OneLeafPerNode
    <2>3. q \in RosterType
        BY <1>1, <2>1 DEF RosterType, TypeOK, GroupStates
    <2>4. QED
        BY <2>2, <2>3
<1>3. PICK r \in Rosters(q, OwnLeaves(q, n), {n}) : NewCommit(c, t, {}, {}, r)
    BY <1>1 DEF ExternalCommit
<1>4. \A l \in DOMAIN q \ OwnLeaves(q, n) : q[l] \notin {n}
    BY DEF OwnLeaves
<1>5. IsInjective(r)
    BY <1>2, <1>4, RostersInjective
<1>6. QED
    BY <1>3, <1>5, LeafKept

(* No node has two leaves of a group state, whatever branch the state is    *)
(* on: Reconcile adds only nodes that are not in the roster, and an         *)
(* external commit removes the old leaf of its sender.                      *)
THEOREM ControllerOneLeafPerNode == Spec => []OneLeafPerNode
<1>1. Init => OneLeafPerNode
    BY FoundersAssumption DEF Init, OneLeafPerNode
<1>2. ASSUME FInv, OneLeafPerNode, [Next]_vars PROVE OneLeafPerNode'
    <2> USE DEF FInv
    <2>1. ASSUME UNCHANGED log PROVE OneLeafPerNode'
        BY <1>2, <2>1 DEF OneLeafPerNode
    <2>2. ASSUME NEW n \in Nodes, Rekey(n) PROVE OneLeafPerNode'
        BY <1>2, <2>2, LeafCommit DEF Rekey
    <2>3. ASSUME NEW n \in Nodes, Converge(n) PROVE OneLeafPerNode'
        <3>1. PICK desired \in SUBSET Nodes : Reconcile(n, desired)
            BY <2>3 DEF Converge
        <3>2. PICK rm \in SUBSET (DOMAIN Roster(n)), add \in SUBSET (desired \ Range(Roster(n))) :
                 Commit(n, rm, add)
            BY <3>1 DEF Reconcile
        <3>3. \A l \in DOMAIN Roster(n) \ rm : Roster(n)[l] \notin add
            BY <3>2 DEF Range
        <3>4. add \in SUBSET Nodes
            BY <3>1, <3>2
        <3>5. QED
            BY <1>2, <3>2, <3>3, <3>4, LeafCommit
    <2>4. ASSUME NEW n \in Nodes, Order(n) \/ Broadcast(n) \/ PublishGroupInfo(n)
          PROVE  UNCHANGED log
        BY <2>4 DEF Order, OrderWon, OrderLost, OrderFencedOut, OrderError, Loses,
                    Broadcast, PublishGroupInfo
    <2>5. ASSUME NEW n \in Nodes, Receive(n) \/ \E c \in sent : JoinViaWelcome(n, c)
          PROVE  UNCHANGED log
        BY <2>5 DEF Receive, HandleCommit, HandleCommitSelfRemoved, JoinViaWelcome
    <2>6. ASSUME NEW n \in Nodes, NEW t \in published, NEW c \in Refs,
                 ExternalCommit(n, t, c) \/ Superseded(t, c)
          PROVE  OneLeafPerNode'
        BY <1>2, <2>1, <2>6, LeafExternal DEF Superseded
    <2>7. ASSUME NEW n \in Nodes, Recover(n) PROVE OneLeafPerNode'
        <3>1. PICK e \in Epochs, c \in Refs : AutoRecover(n, e, c)
            BY <2>7 DEF Recover
        <3>2. PICK t \in published : ExternalCommit(n, t, c) \/ Superseded(t, c)
            BY <3>1 DEF AutoRecover
        <3>3. QED
            BY <2>6, <3>2
    <2>8. ASSUME NEW n \in Nodes, Leave(n) \/ Crash(n) PROVE UNCHANGED log
        BY <2>8 DEF Leave, Crash, Reset
    <2>9. ASSUME NEW n \in Nodes, NEW t \in published, NEW c \in Refs,
                 JoinViaExternalCommit(n, t, c)
          PROVE  OneLeafPerNode'
        BY <2>6, <2>9 DEF JoinViaExternalCommit
    <2>10. CASE UNCHANGED vars
        BY <2>1, <2>10 DEF vars
    <2>11. QED
        BY <1>2, <2>1, <2>2, <2>3, <2>4, <2>5, <2>7, <2>8, <2>9, <2>10 DEF Next
<1>3. FInv /\ OneLeafPerNode /\ [Next]_vars => OneLeafPerNode'
    BY <1>2
<1>4. QED
    BY <1>1, <1>3, FInvInvariant, PTL DEF Spec
=============================================================================
