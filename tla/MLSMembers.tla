----------------------------- MODULE MLSMembers -----------------------------
(***************************************************************************)
(* The members of one MLS group as processes.  Each holds a view and moves *)
(* it with the operations of MLSGroup.  The delivery service orders the    *)
(* commits: log[e] is the one commit that opens epoch e (Ordering!Spec is  *)
(* what guarantees this), every member processes them in that order and at *)
(* its own pace, and only a member that has caught up can commit.          *)
(*                                                                         *)
(* A node is named by its signature key.  A removed node keeps its last    *)
(* view; so does a node that cannot process a commit, since a failure      *)
(* leaves the view alone.                                                  *)
(***************************************************************************)
EXTENDS MLSGroup

CONSTANTS Nodes, Founder,
          Encrypting,       \* nodes that called SetEncryptHandshakes(true)
          PSKHolders,       \* nodes whose JoinOptions carry the external PSK
          Absent,           \* nodes that are added and do not come online
          Plans,            \* what a committer may propose itself: which leaves it
                            \* evicts, which nodes it admits, what else, in groups
                            \* of which sizes, and whether with proposals in flight
          MaxEpoch,         \* bound on the commits of a behaviour
          MaxLeaves,        \* bound on the members at one time
          MaxLag,           \* bound on the epochs a receiver is behind a committer
          MaxProposals,     \* bound on the proposals in flight
          ProposalEpochs,   \* the epochs, and
          ProposalSizes,    \* the sizes of the groups in which proposals are sent ahead
          ExternalSizes     \* sizes of the groups that nodes join with external commits

VARIABLES view,   \* each node's Group, NoView before it has one
          kp,     \* the key package a node has handed out and not yet used
          result, \* how the node's last call ended
          log,    \* the decided commits, with the proposals and the Welcome sent along
          props,  \* proposals of the head epoch in flight, in order of delivery
          draw    \* the next random value

vars == <<view, kp, result, log, props, draw>>

NoView == [kind |-> "none"]
NoKP == [init |-> 0]
ExternalPSKName == "psk"
Refusals == {"removed", "commit refused", "welcome refused", "info refused"}

Entry(msg, msgs, welcome) == [msg |-> msg, msgs |-> msgs, welcome |-> welcome]

Joined(n) == view[n] # NoView
AtHead(n) == Joined(n) /\ view[n].gc.epoch = Len(log)
NextEntry(n) == log[view[n].gc.epoch + 1]
Addressed(w, n) == w # NoWelcome /\ \E e \in w.secrets : e.init = kp[n].init

(* The tree of the head epoch; its committer is always there. *)
HeadTree == view[CHOOSE n \in Nodes : AtHead(n)].tree
Members == {HeadTree[2 * l].sig : l \in Leaves(HeadTree)}
PSKsOf(n) == IF n \in PSKHolders THEN {ExternalPSKName} ELSE {}

(* Nobody online that can still receive is more than MaxLag epochs behind.  A view
   depends on the log alone, so that more lag brings no new views. *)
InStep ==
  \A n \in Nodes \ Absent : result[n] \notin Refusals =>
    /\ Joined(n) => Len(log) - view[n].gc.epoch <= MaxLag
    /\ \A e \in DOMAIN log : Addressed(log[e].welcome, n) => Len(log) - e < MaxLag

CanAct(n) == AtHead(n) /\ Len(log) < MaxEpoch /\ InStep

Init ==
  /\ view = [n \in Nodes |-> IF n = Founder THEN NewGroup(1, n, n \in Encrypting) ELSE NoView]
  /\ kp = [n \in Nodes |-> NoKP]
  /\ result = [n \in Nodes |-> "ok"]
  /\ log = << >>
  /\ props = << >>
  /\ draw = 2

(***************************************************************************)
(* Proposals a member sends ahead of a commit, one Add at most for a node. *)
(***************************************************************************)
Propose(n, prop, g) ==
  LET f == FrameProposal(g, prop)
  IN  /\ view' = [view EXCEPT ![n] = f.view]
      /\ props' = Append(props, f.msg)
      /\ UNCHANGED <<log, result>>

CanPropose(n) ==
  /\ CanAct(n)
  /\ Len(props) < MaxProposals
  /\ Len(log) \in ProposalEpochs
  /\ Cardinality(Members) \in ProposalSizes

SendUpdate(n) ==
  /\ CanPropose(n)
  /\ LET u == ProposeUpdate(view[n], draw) IN Propose(n, u.prop, u.view)
  /\ draw' = draw + 1
  /\ UNCHANGED kp

SendRemove(n, l) ==
  /\ CanPropose(n)
  /\ l # view[n].own
  /\ Propose(n, ProposeRemove(l), view[n])
  /\ UNCHANGED <<kp, draw>>

SendAdd(n, j) ==
  /\ CanPropose(n)
  /\ kp[j] = NoKP /\ j \notin Members \cup Absent
  /\ Cardinality(Members) < MaxLeaves
  /\ kp' = [kp EXCEPT ![j] = NewKeyPackage(draw, j)]
  /\ Propose(n, ProposeAdd(kp'[j]), view[n])
  /\ draw' = draw + 1

(***************************************************************************)
(* Commits.  The member commits all proposals in flight or none, with      *)
(* proposals of its own after one of the Plans; the nodes it admits make a *)
(* fresh key package each.  Key packages of proposals left out are void.   *)
(***************************************************************************)
Sent(type) == {m \in Range(props) : m.body.type = type}
SentRemoves == {m.body.leaf : m \in Sent("remove")}
SentAdds == {m.body.kp.leaf.sig : m \in Sent("add")}

Further(n, kind) ==
  CASE kind = "none"       -> << >>
    [] kind = "gce"        -> <<ProposeGroupContextExtensions(Len(log) + 1)>>
    [] kind = "external"   -> <<ProposePSK(ExternalPSK(ExternalPSKName))>>
    [] kind = "resumption" -> <<ProposePSK(ResumptionPSK(Min(DOMAIN view[n].hist)))>>

Decide(n, c, msgs, welcome) ==
  /\ view' = [view EXCEPT ![n] = c.view]
  /\ result' = [result EXCEPT ![n] = "ok"]
  /\ log' = Append(log, Entry(c.msg, msgs, welcome))
  /\ props' = << >>

CommitChanges(n, refs, gone, js, further) ==
  LET kps  == [i \in DOMAIN js |-> NewKeyPackage(draw + i, js[i])]
      vals == [i \in 1 .. Cardinality(gone) |-> ProposeRemove(Ascending(gone)[i])]
                \o [i \in DOMAIN kps |-> ProposeAdd(kps[i])] \o further
      kept == IF refs = << >> THEN Nodes \ SentAdds ELSE Nodes
      decide(c) == c.ok /\ Decide(n, c, Range(refs), c.welcome)
  IN  /\ decide(Commit(view[n], draw, refs, vals))
      /\ kp' = [j \in Nodes |-> IF j \in Range(js) THEN kps[CHOOSE i \in DOMAIN js : js[i] = j]
                                ELSE IF j \in kept THEN kp[j] ELSE NoKP]
      /\ draw' = draw + 1 + Len(js)

(* The committer's own leaf is never removed: Commit has no check for it. *)
CommitAction(n, refs, plan) ==
  LET removed == IF refs = << >> THEN {} ELSE SentRemoves
      adding  == IF refs = << >> THEN {} ELSE SentAdds
      outside == {j \in Nodes \ (Members \cup adding) : kp[j] = NoKP}
      others  == Leaves(HeadTree) \ ({view[n].own} \cup removed)
  IN  /\ CanAct(n)
      /\ Cardinality(Members) \in plan.sizes
      /\ props = << >> \/ plan.late
      /\ view[n].own \notin removed
      /\ \E gone \in plan.evicts, js \in plan.admits :
           /\ gone \subseteq others /\ Range(js) \subseteq outside
           /\ Cardinality(Members) + Cardinality(adding) + Len(js) <= MaxLeaves
           /\ CommitChanges(n, refs, gone, js, Further(n, plan.further))

(* An external commit against the GroupInfo a member at the head publishes. *)
ExternalJoin(n, m) ==
  LET join(c) ==
        IF c.ok THEN Decide(n, c, {}, NoWelcome)
        ELSE result' = [result EXCEPT ![n] = "info refused"] /\ UNCHANGED <<view, log, props>>
  IN  /\ CanAct(m) /\ ~AtHead(n) /\ n \notin Absent
      /\ Cardinality(Members) \in ExternalSizes
      /\ n \in Members \/ Cardinality(Members) < MaxLeaves
      /\ join(ExternalCommit(PublishGroupInfo(view[m]), draw, n, n \in Encrypting))
      /\ draw' = draw + 1
      /\ kp' = [j \in Nodes |-> IF j = n \/ j \in SentAdds THEN NoKP ELSE kp[j]]

(***************************************************************************)
(* Receiving, as Controller.HandleCommit does: a commit that removes the   *)
(* member by value is reported and not processed.  A refused commit or     *)
(* Welcome changes nothing in the view.                                    *)
(***************************************************************************)
(* Mutant: any Remove in the commit is taken for one's own. *)
commitRemovesSelfAny(g, m) ==
  /\ PeekCommit(g, m).ok
  /\ \E i \in DOMAIN m.body.props : ~m.body.props[i].byRef /\ m.body.props[i].prop.type = "remove"

commitRemovesSelf(g, m) ==
  /\ PeekCommit(g, m).ok
  /\ ByValue(ProposeRemove(g.own)) \in Range(PeekCommit(g, m).cm.props)

Process(n) ==
  LET finish(p) ==
        /\ view' = [view EXCEPT ![n] = p.view]
        /\ result' = [result EXCEPT ![n] = IF p.ok THEN "ok" ELSE "commit refused"]
      handle(e) ==
        IF commitRemovesSelf(view[n], e.msg)
        THEN view' = view /\ result' = [result EXCEPT ![n] = "removed"]
        ELSE finish(ProcessCommit(view[n], e.msgs, e.msg))
  IN  /\ Joined(n) /\ ~AtHead(n) /\ result[n] \notin Refusals
      /\ handle(NextEntry(n))
      /\ UNCHANGED <<kp, log, props, draw>>

Join(n, e) ==
  LET join(r) ==
        \/ /\ r.ok
           /\ view' = [view EXCEPT ![n] = r.view]
           /\ kp' = [kp EXCEPT ![n] = NoKP]
           /\ result' = [result EXCEPT ![n] = "ok"]
        \/ ~r.ok /\ result' = [result EXCEPT ![n] = "welcome refused"] /\ UNCHANGED <<view, kp>>
  IN  /\ n \notin Absent
      /\ Addressed(log[e].welcome, n) /\ result[n] # "welcome refused"
      /\ join(JoinFromWelcome(log[e].welcome, kp[n], PSKsOf(n), n \in Encrypting))
      /\ UNCHANGED <<log, props, draw>>

Next ==
  \/ \E n \in Nodes : Process(n) \/ SendUpdate(n)
  \/ \E n \in Nodes, e \in DOMAIN log : Join(n, e)
  \/ \E n \in Nodes, refs \in {<< >>, props}, plan \in Plans : CommitAction(n, refs, plan)
  \/ \E n \in Nodes, l \in Leaves(HeadTree) : SendRemove(n, l)
  \/ \E n, j \in Nodes : SendAdd(n, j) \/ ExternalJoin(n, j)

Spec == Init /\ [][Next]_vars

(***************************************************************************)
(* Properties                                                              *)
(***************************************************************************)
(* Two members in the same epoch agree on everything the next commit depends
   on, whichever of Commit, ProcessCommit, JoinFromWelcome and ExternalCommit
   brought each of them there. *)
ViewsAgree ==
  \A n, m \in Nodes :
    Joined(n) /\ Joined(m) /\ view[n].gc.epoch = view[m].gc.epoch =>
      \A f \in {"tree", "gc", "es", "init", "interim"} : view[n][f] = view[m][f]

(* The part of it that the confirmation tag alone secures: the group context,
   the secrets of the epoch, the transcript hash, and the tree's hash. *)
SchedulesAgree ==
  \A n, m \in Nodes :
    Joined(n) /\ Joined(m) /\ view[n].gc.epoch = view[m].gc.epoch =>
      /\ \A f \in {"gc", "es", "init", "interim"} : view[n][f] = view[m][f]
      /\ RootTreeHash(view[n].tree) = RootTreeHash(view[m].tree)

(* A private key that a member holds is the one published for the node, unless
   a blank node lies between it and the leaf: installJoinerPriv ratchets at
   every ancestor, GenerateUpdatePath only at those it does not leave blank. *)
KeysMatch ==
  \A n \in Nodes : Joined(n) =>
    LET g == view[n]
    IN  \A x \in DOMAIN g.priv :
          \/ g.tree[x] = Blank
          \/ g.priv[x] = g.tree[x].key
          \/ \E y \in Range(DirectPath(2 * g.own, LeafCount(g.tree))) :
               level[y] < level[x] /\ g.tree[y] = Blank

(* The tree invariant of TreeKEM: whoever holds the private key of a node of
   the head tree, members removed earlier included, is a current member below
   that node. *)
HoldersBelow ==
  LET below(t, x, n) == \E l \in Leaves(t) : t[2 * l].sig = n /\ subtreeContains(x, 2 * l)
      holds(t, n, keys) == \A x \in DOMAIN t : t[x] # Blank /\ t[x].key \in keys => below(t, x, n)
  IN  \A n \in Nodes : Joined(n) => holds(HeadTree, n, Range(view[n].priv))

(* The nodes above a member's leaf whose private key it ought to have: those
   that are not blank and were keyed after it was added. *)
Owed(g) ==
  {x \in Range(DirectPath(2 * g.own, LeafCount(g.tree))) :
     g.tree[x] # Blank /\ g.own \notin g.tree[x].unmerged}

NextProposals(n) == Range(Resolved(NextEntry(n).msg.body.props, NextEntry(n).msg.sender))

Evicted(n) == \E r \in NextProposals(n) : r.prop.type = "remove" /\ r.prop.leaf = view[n].own

OwnUpdates(n) == {r \in NextProposals(n) : r.prop.type = "update" /\ r.sender = view[n].own}

PSKMissing(n) ==
  \E r \in {q \in NextProposals(n) : q.prop.type = "psk"} :
    IF r.prop.id.kind = "external" THEN r.prop.id.name \notin view[n].psks
    ELSE r.prop.id.epoch \notin DOMAIN view[n].hist

(* A member takes itself for removed only when the next decided commit evicts
   it, and a member that a by-value Remove evicts always notices: commits that
   evict without notice do so by reference (commitRemovesSelf). *)
EvictionNoticed ==
  \A n \in Nodes :
    /\ result[n] = "removed" => Evicted(n)
    /\ result[n] = "commit refused" =>
         ByValue(ProposeRemove(view[n].own)) \notin Range(NextEntry(n).msg.body.props)

(* installJoinerPriv gave the member a wrong key at a node that was keyed after
   it was added. *)
Miskeyed(g) == \E x \in Owed(g) \cap DOMAIN g.priv : g.priv[x] # g.tree[x].key

(* ProcessCommit refuses the next decided commit only when the commit evicts
   the member, or in one of five cases: the member dropped a key it ought to
   have when it rebuilt its private state; it holds a wrong one, ratcheted once
   too often past a node that the committer left blank; two Updates of its own
   are in the commit, of which it tracks the first and the tree has the second;
   it lacks a PSK; or the commit is an external one against epoch 0, whose
   interim hash the founder left empty. *)
FollowsUnless ==
  \A n \in Nodes : result[n] = "commit refused" =>
    \/ Evicted(n)
    \/ ~(Owed(view[n]) \subseteq DOMAIN view[n].priv)
    \/ Miskeyed(view[n])
    \/ Cardinality(OwnUpdates(n)) > 1
    \/ PSKMissing(n)
    \/ view[n].gc.epoch = 0 /\ NextEntry(n).msg.sender = NewMember

(* A receiver that holds no private key for any node on the path is an
   excluded or a newly added member (ProcessUpdatePath): no other member fails
   to follow for want of a key. *)
MembersFollow ==
  \A n \in Nodes : result[n] = "commit refused" =>
    \/ Evicted(n)
    \/ Cardinality(OwnUpdates(n)) > 1
    \/ PSKMissing(n)
    \/ view[n].gc.epoch = 0 /\ NextEntry(n).msg.sender = NewMember

(* A member that a decided commit removes never gets past that commit: in the
   tree of every view its owner has its leaf, under its signature key. *)
EvictedStays ==
  \A n \in Nodes : Joined(n) =>
    view[n].own \in Leaves(view[n].tree) /\ view[n].tree[2 * view[n].own].sig = n

(* A Welcome admits the node it was made for, whatever tree the commit left
   behind, unless it names a resumption PSK, which JoinFromWelcome refuses, or
   a PSK the joiner lacks; and no joiner refuses a published GroupInfo. *)
JoinersAdmitted ==
  \A n \in Nodes :
    /\ result[n] # "info refused"
    /\ result[n] = "welcome refused" =>
         \E e \in DOMAIN log :
           /\ Addressed(log[e].welcome, n)
           /\ \E s \in log[e].welcome.secrets : \E id \in Range(s.gs.psks) :
                id.kind = "resumption" \/ n \notin PSKHolders
=============================================================================
