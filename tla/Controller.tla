------------------------------ MODULE Controller ------------------------------
(***************************************************************************)
(* The membership controllers of one VNI (ironcore/controller.go and       *)
(* recovery.go), one per node, composed with the ordering authority        *)
(* (Ordering) and a network that loses, repeats and reorders messages.     *)
(*                                                                         *)
(* A group state is named by the commit that led to it: MLS binds a commit *)
(* to the state it was made in, so a member can process exactly the        *)
(* commits whose parent is its own state, and everything else (epoch,      *)
(* tree, keys) follows from the name.  An SA is named by the state it was  *)
(* derived from.                                                           *)
(*                                                                         *)
(* Commit and AcceptCommit are two steps: the optimistic commit advances   *)
(* the group before the authority has answered.  What the controller       *)
(* leaves to its caller is an assumption of the model: calls on one        *)
(* Controller are serialised, a caller told that its commit lost does      *)
(* nothing but AutoRecover, and GroupInfos are published by members.       *)
(***************************************************************************)
EXTENDS Integers, FiniteSets, FiniteSetsExt, Functions

CONSTANTS Nodes,          \* identities of the control plane
          Founders,       \* the roster of epoch 0: leaf |-> node
          Refs, NoRef,    \* CommitRefs: Hash(commitMsg)
          Genesis,        \* the group state of epoch 0
          NoState,        \* no group, no SA
          Hash,           \* [Refs -> Nat]: the order of the hashes of refs
          MaxEpoch,       \* bound on epochs
          MaxCrashes,     \* bound on crashes
          Fenced,         \* AcceptCommit may answer (false, nil) without deciding
          OrderingFails,  \* AcceptCommit may return an error (ErrFenced)
          Competing       \* recovery is given all the competing commits, not
                          \* only the decided one

Leaves == 0 .. Cardinality(Nodes) - 1
Epochs == 0 .. MaxEpoch - 1   \* the slots of the ordering authority

ASSUME NamesAssumption ==
    /\ Genesis \notin Refs /\ NoState \notin Refs /\ NoRef \notin Refs
    /\ NoState # Genesis
ASSUME FoundersAssumption ==
    /\ Founders \in UNION {[D -> Nodes] : D \in SUBSET Leaves}
    /\ IsInjective(Founders)
ASSUME BoundsAssumption ==
    /\ MaxEpoch \in Nat /\ MaxCrashes \in Nat
    /\ Hash \in [Refs -> Nat]
    /\ {Fenced, OrderingFails, Competing} \subseteq BOOLEAN

VARIABLES
    log,        \* the commits made so far, and the states they lead to
    tip,        \* Controller.g of each node
    status,     \* where the node's caller stands
    cur, prev,  \* Controller.curSA, prevSA (NoState: hasPrev = false)
    outbox,     \* commits returned to the caller and not yet broadcast
    sent,       \* commits (and their Welcomes) the network can deliver
    published,  \* states of which a GroupInfo can be fetched
    decided, acked, refused,  \* the ordering authority
    crashes

nodeVars == <<tip, status, cur, prev>>
netVars == <<outbox, sent, published>>
seqVars == <<decided, acked, refused>>
vars == <<log, nodeVars, netVars, seqVars, crashes>>

Sequencer == INSTANCE Ordering WITH decided <- decided, acked <- acked, refused <- refused

States == Refs \union {Genesis}
Statuses == {"out", "ready", "ordering", "lost", "removed"}

(* epoch and roster are those of the state the commit leads to.             *)
GroupStates ==
    [parent : States, epoch : 0 .. MaxEpoch,
     roster : UNION {[D -> Nodes] : D \in SUBSET Leaves},
     removed : SUBSET Leaves, added : SUBSET Nodes]

TypeOK ==
    /\ DOMAIN log \subseteq States /\ Genesis \in DOMAIN log
    /\ \A t \in DOMAIN log : log[t] \in GroupStates
    /\ tip \in [Nodes -> DOMAIN log \union {NoState}]
    /\ status \in [Nodes -> Statuses]
    /\ \A n \in Nodes : status[n] = "out" <=> tip[n] = NoState
    /\ cur \in [Nodes -> DOMAIN log \union {NoState}]
    /\ prev \in [Nodes -> DOMAIN log \union {NoState}]
    /\ outbox \in [Nodes -> SUBSET (DOMAIN log)]
    /\ sent \subseteq DOMAIN log
    /\ published \subseteq DOMAIN log
    /\ Sequencer!TypeOK
    /\ crashes \in 0 .. MaxCrashes

Init ==
    /\ log = [t \in {Genesis} |->
                 [parent |-> Genesis, epoch |-> 0, roster |-> Founders,
                  removed |-> {}, added |-> {}]]
    /\ tip = [n \in Nodes |-> IF n \in Range(Founders) THEN Genesis ELSE NoState]
    /\ status = [n \in Nodes |-> IF n \in Range(Founders) THEN "ready" ELSE "out"]
    /\ cur = tip                                      \* NewController: deriveCur
    /\ prev = [n \in Nodes |-> NoState]
    /\ outbox = [n \in Nodes |-> {}] /\ sent = {} /\ published = {}
    /\ Sequencer!Init
    /\ crashes = 0

-----------------------------------------------------------------------------
(* Group states                                                             *)

Roster(n) == log[tip[n]].roster
OwnLeaves(r, n) == {l \in DOMAIN r : r[l] = n}
EpochOf(t) == log[t].epoch

(* AddLeaf takes the leftmost blank leaf: the leaves that k Adds fill.      *)
Blanks(r, k) ==
    LET blank == Leaves \ DOMAIN r
    IN  {l \in blank : Cardinality({m \in blank : m < l}) < k}

(* The rosters after removing the leaves rm and then adding the nodes, in   *)
(* any order.                                                               *)
Rosters_KeepsRemoved(r, rm, add) ==
    LET kept == IF add = {} THEN Restrict(r, DOMAIN r \ rm) ELSE r
        new == Blanks(kept, Cardinality(add))
    IN  {[l \in DOMAIN kept \union new |-> IF l \in new THEN f[l] ELSE r[l]] :
            f \in Bijection(new, add)}

Rosters(r, rm, add) ==
    LET kept == Restrict(r, DOMAIN r \ rm)
        new == Blanks(kept, Cardinality(add))
    IN  {[l \in DOMAIN kept \union new |-> IF l \in new THEN f[l] ELSE r[l]] :
            f \in Bijection(new, add)}

(* A new commit made in state t.                                            *)
NewCommit(c, t, rm, add, roster) ==
    /\ c \in Refs \ DOMAIN log
    /\ EpochOf(t) < MaxEpoch
    /\ log' = [x \in DOMAIN log \union {c} |->
                  IF x = c
                  THEN [parent |-> t, epoch |-> EpochOf(t) + 1, roster |-> roster,
                        removed |-> rm, added |-> add]
                  ELSE log[x]]

-----------------------------------------------------------------------------
(* commitAndOrder, first half: group.Commit advances the group in place.    *)
Commit(n, rm, add) ==
    /\ status[n] = "ready"
    /\ \E c \in Refs, r \in Rosters(Roster(n), rm, add) :
          /\ NewCommit(c, tip[n], rm, add, r)
          /\ tip' = [tip EXCEPT ![n] = c]
    /\ status' = [status EXCEPT ![n] = "ordering"]
    /\ UNCHANGED <<cur, prev, netVars, seqVars, crashes>>

(* IsCommitter: the own leaf is the lowest active one.                      *)
IsCommitter(n) ==
    /\ DOMAIN Roster(n) # {}
    /\ OwnLeaves(Roster(n), n) = {Min(DOMAIN Roster(n))}

Rekey(n) ==
    /\ status[n] = "ready"
    /\ IsCommitter(n)
    /\ Commit(n, {}, {})

(* Reconcile: the leaves of undesired members go, the desired nodes that    *)
(* have a KeyPackage (some of the missing ones) come; the committer-elect   *)
(* is the lowest leaf that stays.                                           *)
Reconcile(n, desired) ==
    /\ status[n] = "ready"
    /\ LET r == Roster(n)
           rm == {l \in DOMAIN r : r[l] \notin desired}
           missing == desired \ Range(r)
       IN  /\ DOMAIN r \ rm # {}
           /\ OwnLeaves(r, n) = {Min(DOMAIN r \ rm)}
           /\ \E add \in SUBSET missing :
                 /\ rm \union add # {}
                 /\ Commit(n, rm, add)

-----------------------------------------------------------------------------
(* commitAndOrder, second half: AcceptCommit for the slot of the old epoch. *)

Wins_Always(e, c) == TRUE
Wins(e, c) == decided[e] \in {NoRef, c}

(* rotateSA: the current SA becomes the previous one and is derived anew.   *)
RotateSA_SavesNew(n, t) ==
    /\ prev' = [prev EXCEPT ![n] = t]
    /\ cur' = [cur EXCEPT ![n] = t]

RotateSA(n, t) ==
    /\ prev' = [prev EXCEPT ![n] = cur[n]]
    /\ cur' = [cur EXCEPT ![n] = t]

(* The commit won: the SA rotates, the caller gets the message to broadcast.*)
OrderWon(n) ==
    LET c == tip[n] e == EpochOf(c) - 1
    IN  /\ status[n] = "ordering"
        /\ Wins(e, c)
        /\ Sequencer!AcceptCommit(e, c)
        /\ RotateSA(n, c)
        /\ status' = [status EXCEPT ![n] = "ready"]
        /\ outbox' = [outbox EXCEPT ![n] = @ \union {c}]
        /\ UNCHANGED <<log, tip, sent, published, crashes>>

(* The commit lost: the group stays on the dead branch, the SA on the old   *)
(* epoch, and the caller is told (Reconcile: ErrLostRace, Rekey: won=false).*)
Loses_Silently(n) ==
    /\ status' = [status EXCEPT ![n] = "ready"]
    /\ UNCHANGED <<log, tip, cur, prev, netVars, crashes>>

Loses_Rotates(n) ==
    /\ status' = [status EXCEPT ![n] = "lost"]
    /\ RotateSA(n, tip[n])
    /\ UNCHANGED <<log, tip, netVars, crashes>>

Loses(n) ==
    /\ status' = [status EXCEPT ![n] = "lost"]
    /\ UNCHANGED <<log, tip, cur, prev, netVars, crashes>>

OrderLost(n) ==
    LET c == tip[n] e == EpochOf(c) - 1
    IN  /\ status[n] = "ordering"
        /\ ~Wins(e, c)
        /\ Sequencer!AcceptCommit(e, c)
        /\ Loses(n)

(* FencedSequencer was fenced out: (false, nil), and nothing is decided.    *)
OrderFencedOut(n) ==
    /\ Fenced
    /\ status[n] = "ordering"
    /\ Sequencer!FencedOut(EpochOf(tip[n]) - 1, tip[n])
    /\ Loses(n)

(* AcceptCommit returned an error: Rekey and Reconcile return it; the group *)
(* stays on the optimistic branch and nothing tells the caller to recover.  *)
OrderError(n) ==
    /\ OrderingFails
    /\ status[n] = "ordering"
    /\ status' = [status EXCEPT ![n] = "ready"]
    /\ UNCHANGED <<log, tip, cur, prev, netVars, seqVars, crashes>>

-----------------------------------------------------------------------------
(* The caller and the network                                               *)

(* The caller broadcasts a commit and sends its Welcome.                    *)
Broadcast(n) ==
    /\ \E c \in outbox[n] :
          /\ sent' = sent \union {c}
          /\ outbox' = [outbox EXCEPT ![n] = @ \ {c}]
    /\ UNCHANGED <<log, nodeVars, published, seqVars, crashes>>

(* PublishGroupInfo.                                                        *)
PublishGroupInfo(n) ==
    /\ status[n] = "ready" \/ (Competing /\ status[n] = "lost")
    /\ published' = published \union {tip[n]}
    /\ UNCHANGED <<log, nodeVars, outbox, sent, seqVars, crashes>>

(* commitRemovesSelf: a member commit, made in the own state, that removes  *)
(* the own leaf by value.                                                   *)
RemovesSelf(n, c) == OwnLeaves(Roster(n), n) \intersect log[c].removed # {}

(* ProcessCommit: only a commit made in the own state authenticates.        *)
Processable_AnyEpoch(n, c) == c \notin {tip[n], Genesis}
Processable_RejectsEmpty(n, c) ==
    log[c].parent = tip[n] /\ (log[c].removed # {} \/ log[c].added # {})

Processable(n, c) == log[c].parent = tip[n] /\ c # Genesis

HandleCommit(n, c) ==
    /\ status[n] = "ready"
    /\ Processable(n, c)
    /\ ~RemovesSelf(n, c)
    /\ tip' = [tip EXCEPT ![n] = c]
    /\ RotateSA(n, c)
    /\ UNCHANGED <<log, status, netVars, seqVars, crashes>>

(* HandleCommit returns ErrSelfRemoved and leaves the group as it is.       *)
HandleCommitSelfRemoved(n, c) ==
    /\ status[n] = "ready"
    /\ Processable(n, c)
    /\ RemovesSelf(n, c)
    /\ status' = [status EXCEPT ![n] = "removed"]
    /\ UNCHANGED <<log, tip, cur, prev, netVars, seqVars, crashes>>

(* JoinViaWelcome by a node that the commit added.                          *)
JoinViaWelcome(n, c) ==
    /\ status[n] = "out"
    /\ n \in log[c].added
    /\ tip' = [tip EXCEPT ![n] = c]
    /\ cur' = [cur EXCEPT ![n] = c]
    /\ status' = [status EXCEPT ![n] = "ready"]
    /\ UNCHANGED <<log, prev, netVars, seqVars, crashes>>

(* A node's controller is lost or thrown away (NewController without a      *)
(* group is what replaces it): nothing of it is persisted.                  *)
Reset(n) ==
    /\ tip' = [tip EXCEPT ![n] = NoState]
    /\ cur' = [cur EXCEPT ![n] = NoState]
    /\ prev' = [prev EXCEPT ![n] = NoState]
    /\ status' = [status EXCEPT ![n] = "out"]
    /\ outbox' = [outbox EXCEPT ![n] = {}]
    /\ UNCHANGED <<log, sent, published, seqVars>>

Leave(n) ==
    /\ status[n] = "removed"
    /\ Reset(n)
    /\ UNCHANGED crashes

Crash(n) ==
    /\ status[n] # "out"
    /\ crashes < MaxCrashes
    /\ crashes' = crashes + 1
    /\ Reset(n)

-----------------------------------------------------------------------------
(* External commits                                                         *)

(* group.ExternalCommit from the GroupInfo of state t, ordered in the slot  *)
(* of t's epoch: the joiner's old leaf goes, and it takes the leftmost      *)
(* blank one.                                                               *)
ExternalCommit(n, t, c) ==
    /\ EpochOf(t) \in Epochs
    /\ Wins(EpochOf(t), c)
    /\ \E r \in Rosters(log[t].roster, OwnLeaves(log[t].roster, n), {n}) :
          NewCommit(c, t, {}, {}, r)
    /\ Sequencer!AcceptCommit(EpochOf(t), c)
    /\ tip' = [tip EXCEPT ![n] = c]
    /\ status' = [status EXCEPT ![n] = "ready"]
    /\ outbox' = [outbox EXCEPT ![n] = @ \union {c}]
    /\ UNCHANGED <<sent, published, crashes>>

(* The slot is taken: ErrJoinSuperseded, ErrRecoverySuperseded.  The commit *)
(* is dropped.                                                              *)
Superseded(t, c) ==
    /\ EpochOf(t) \in Epochs
    /\ c \in Refs \ DOMAIN log
    /\ ~Wins(EpochOf(t), c)
    /\ Sequencer!AcceptCommit(EpochOf(t), c)
    /\ UNCHANGED <<log, nodeVars, netVars, crashes>>

(* JoinViaExternalCommit: the SA is derived, not rotated.                   *)
JoinViaExternalCommit(n, t, c) ==
    /\ status[n] = "out"
    /\ \/ /\ ExternalCommit(n, t, c)
          /\ cur' = [cur EXCEPT ![n] = c]
          /\ UNCHANGED prev
       \/ Superseded(t, c)

(* CanonicalCommit: the candidate with the lowest hash.                     *)
CanonicalCommit(C) == CHOOSE c \in C : \A d \in C : Hash[c] <= Hash[d]

(* The commits a recovery for slot e chooses from.                          *)
Candidates(e) ==
    IF Competing
    THEN {c \in Refs \intersect DOMAIN log : EpochOf(c) = e + 1}
    ELSE {decided[e]} \ {NoRef}

(* AutoRecover and RecoverViaExternalCommit, for a losing or stale node.    *)
AutoRecover(n, e, c) ==
    /\ status[n] \in {"ready", "lost"}
    /\ Candidates(e) # {}
    /\ LET t == CanonicalCommit(Candidates(e))
       IN  /\ t \in published
           /\ \/ ExternalCommit(n, t, c) /\ RotateSA(n, c)
              \/ Superseded(t, c)

-----------------------------------------------------------------------------
Recover(n) == \E e \in Epochs, c \in Refs \ DOMAIN log : AutoRecover(n, e, c)
Receive(n) == \E c \in sent : HandleCommit(n, c) \/ HandleCommitSelfRemoved(n, c)
Order(n) == OrderWon(n) \/ OrderLost(n) \/ OrderFencedOut(n) \/ OrderError(n)
Converge(n) == \E desired \in SUBSET Nodes : Reconcile(n, desired)

Next ==
    \E n \in Nodes :
        \/ Rekey(n) \/ Converge(n) \/ Order(n)
        \/ Broadcast(n) \/ PublishGroupInfo(n)
        \/ Receive(n)
        \/ \E c \in sent : JoinViaWelcome(n, c)
        \/ \E t \in published, c \in Refs \ DOMAIN log : JoinViaExternalCommit(n, t, c)
        \/ Recover(n)
        \/ Leave(n) \/ Crash(n)

Spec == Init /\ [][Next]_vars

(* Fairness: AcceptCommit returns, callers broadcast and publish, the       *)
(* delivery service retransmits until a commit is processed, losing nodes   *)
(* retry, and the next committer reconciles.                                *)
FairSpec ==
    /\ Spec
    /\ \A n \in Nodes :
          /\ WF_vars(Order(n)) /\ WF_vars(Broadcast(n)) /\ WF_vars(PublishGroupInfo(n))
          /\ WF_vars(Receive(n)) /\ WF_vars(Leave(n))
          /\ WF_vars(status[n] = "lost" /\ Recover(n))
          /\ WF_vars(Converge(n))

-----------------------------------------------------------------------------
Canonical(t) == t = Genesis \/ (t \in DOMAIN log /\ decided[EpochOf(t) - 1] = t)

(* Design 5.7, "no two honest members ever permanently diverge": a member   *)
(* that is not told that its commit lost is always in a decided state, so   *)
(* members of the same epoch are in the same state.                         *)
MembersOnDecidedBranch ==
    \A n \in Nodes : status[n] \in {"ready", "removed"} => Canonical(tip[n])

(* The decided commits form one chain: each was made in the state that the  *)
(* decided commit of the epoch before leads to.  A slot decided by a commit *)
(* made on a dead branch would be one that no member can ever process.      *)
DecidedChain ==
    \A e \in Epochs : decided[e] # NoRef =>
        log[decided[e]].parent = IF e = 0 THEN Genesis ELSE decided[e - 1]

(* The data plane only ever gets SAs of decided epochs: whatever commits    *)
(* are in flight, lost, fenced out or failed, and whatever branch a         *)
(* recovery builds on, curSA and prevSA are of states that won their slot.  *)
SACanonical ==
    \A n \in Nodes : \A t \in {cur[n], prev[n]} \ {NoState} : Canonical(t)

(* Where losing callers recover and the authority does not fail, the        *)
(* previous SA is moreover of an older epoch than the current one: rotateSA *)
(* never saves as prevSA what it has just derived, nor a newer one.         *)
SADecided ==
    /\ SACanonical
    /\ \A n \in Nodes : prev[n] # NoState => EpochOf(prev[n]) < EpochOf(cur[n])

(* Two nodes never share a leaf index of a group state, and no node has two *)
(* leaves (anti-double-join), along every branch of optimistic commits.     *)
OneLeafPerNode ==
    \A t \in DOMAIN log : IsInjective(log[t].roster)

(* A controller's SA never goes back to an earlier epoch, except by losing  *)
(* the controller itself.                                                   *)
SAForward ==
    [][\A n \in Nodes : cur[n] # NoState /\ cur'[n] # NoState /\ cur'[n] # cur[n]
           => log'[cur'[n]].epoch > EpochOf(cur[n])]_vars

(* Where the authority fails or recovery takes the lowest hash, a commit    *)
(* can win a slot while an earlier one is still open.  Only a recovery that *)
(* fills such an open slot moves an SA back: no late commit, lost race or   *)
(* redelivery ever returns a node to an epoch that was decided before.      *)
SABackOnlyIntoGap ==
    [][\A n \in Nodes : cur[n] # NoState /\ cur'[n] # NoState /\ cur'[n] # cur[n]
           => \/ log'[cur'[n]].epoch > EpochOf(cur[n])
              \/ decided[log'[cur'[n]].epoch - 1] = NoRef]_vars

(* The state that the highest decided slot leads to.                        *)
DecidedEpochs == {e \in Epochs : decided[e] # NoRef}
HeadState == IF DecidedEpochs = {} THEN Genesis ELSE decided[Max(DecidedEpochs)]

(* Members converge: if no node crashes (its outbox may hold the only copy  *)
(* of a decided commit), once no more nodes join (an old Welcome that is    *)
(* redelivered for ever rejoins a removed node for ever), every member that *)
(* follows the group ends up in the state of the last decided commit.       *)
Converges ==
    /\ [](crashes = 0)
    /\ <>[][\A n \in Nodes : status[n] = "out" => status'[n] = "out"]_vars
    => <>[](\A n \in Nodes : status[n] = "ready" => tip[n] = HeadState)
=============================================================================
