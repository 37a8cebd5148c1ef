---------------------------- MODULE InteropServer ----------------------------
(***************************************************************************)
(* The gRPC server of the interop harness, interop/server: one process     *)
(* that plays any number of clients of any number of groups.  Every call   *)
(* runs under the server's lock; one that answers with an error changes    *)
(* nothing, except for a Commit that fails late, so the actions are that   *)
(* and the calls that succeed.  The caller is a test runner that carries   *)
(* messages from one client to another, in any order, late, repeatedly or  *)
(* never: wire holds all it has been given.  Nothing orders the commits    *)
(* here, and two clients may fork a group.                                 *)
(*                                                                         *)
(* A client has a credential and a signing key that is fresh each time, so *)
(* a signature key is the pair of the identity and the draw that made it.  *)
(***************************************************************************)
EXTENDS MLSGroup

CONSTANTS Identities,
          EncryptHandshake, \* the values callers give encrypt_handshake
          MaxIDs,           \* bound on the ids handed out
          MaxGroups,        \* groups are founded under the first ids only
          MaxDraws,         \* bound on the random draws
          MaxGeneration,    \* bound on the generations that failed commits spend
          MaxMessages,      \* for each kind of message, a bound on those sent
          MaxWire           \* bound on all messages

VARIABLES states, \* by id: a client's Group and the authenticator of its pending commit
          txns,   \* by id: key packages not yet used
          nextID, wire, draw

vars == <<states, txns, nextID, wire, draw>>

NoAuth == 0
Kinds == {"key_package", "proposal", "commit", "welcome", "application", "group_info"}

State(g) == [g |-> g, pendingEpochAuth |-> NoAuth]

Messages(kind) == {m \in wire : m.content = kind}
HasRoom(kind) == Cardinality(Messages(kind)) < MaxMessages[kind] /\ Cardinality(wire) < MaxWire

Init ==
  /\ states = << >>
  /\ txns = << >>
  /\ nextID = 1
  /\ wire = {}
  /\ draw = 1

Insert(f, id, v) == [i \in DOMAIN f \cup {id} |-> IF i = id THEN v ELSE f[i]]
Without(f, id) == [i \in DOMAIN f \ {id} |-> f[i]]

alloc == nextID

Drawn == draw <= MaxDraws /\ draw' = draw + 1
Allocated == nextID <= MaxIDs /\ nextID' = nextID + 1
NewState(g) == Allocated /\ states' = Insert(states, alloc, State(g))
SetGroup(id, g) == states' = [states EXCEPT ![id].g = g]

Send(m) == HasRoom(m.content) /\ wire' = wire \cup {m}

(* The leftmost leaf with the identity. *)
resolveIdentity(g, identity) ==
  FindLeaf({l \in Leaves(g.tree) : g.tree[2 * l].sig[1] = identity})

(***************************************************************************)
(* Clients come and go                                                     *)
(***************************************************************************)
CreateGroup(identity, enc) ==
  /\ nextID <= MaxGroups
  /\ Drawn
  /\ NewState(NewGroup(draw, <<identity, draw>>, enc))
  /\ UNCHANGED <<txns, wire>>

CreateKeyPackage(identity) ==
  LET kp == NewKeyPackage(draw, <<identity, draw>>)
  IN  /\ Drawn
      /\ Allocated
      /\ txns' = Insert(txns, alloc, kp)
      /\ Send([content |-> "key_package", kp |-> kp])
      /\ UNCHANGED states

(* Mutant: a key package outlives the group it was used for. *)
ConsumedStays(id) == txns' = txns

Consumed(id) == txns' = Without(txns, id)

JoinGroup(id, welcome, enc) ==
  LET join(r) == r.ok /\ NewState(r.view)
  IN  /\ join(JoinFromWelcome(welcome, txns[id], {}, enc))
      /\ Consumed(id)
      /\ UNCHANGED <<wire, draw>>

ExternalJoin(identity, info, enc) ==
  LET join(c) == c.ok /\ NewState(c.view) /\ Send(c.msg)
  IN  /\ Drawn
      /\ join(ExternalCommit(info.gi, draw, <<identity, draw>>, enc))
      /\ UNCHANGED txns

Free(id) ==
  /\ states' = Without(states, id)
  /\ UNCHANGED <<txns, nextID, wire, draw>>

(***************************************************************************)
(* Proposals and commits                                                   *)
(***************************************************************************)
Frame(id, g, prop) ==
  LET f == FrameProposal(g, prop)
  IN  SetGroup(id, f.view) /\ Send(f.msg)

AddProposal(id, kp) ==
  /\ Frame(id, states[id].g, ProposeAdd(kp))
  /\ UNCHANGED <<txns, nextID, draw>>

UpdateProposal(id) ==
  LET u == ProposeUpdate(states[id].g, draw)
  IN  /\ Drawn
      /\ Frame(id, u.view, u.prop)
      /\ UNCHANGED <<txns, nextID>>

RemoveProposal(id, identity) ==
  LET g == states[id].g
  IN  /\ resolveIdentity(g, identity) # NoIndex
      /\ Frame(id, g, ProposeRemove(resolveIdentity(g, identity)))
      /\ UNCHANGED <<txns, nextID, draw>>

(* GenerateUpdatePath indexes the tree with the committer's leaf. *)
Returns(g, byReference, byValue) ==
  LET ap == applyProposals(g, g.tree, Resolved(ProposalList(byReference, byValue), g.own))
  IN  (\A i \in DOMAIN byReference : Authentic(g, byReference[i])) /\ ap.ok => InRange(ap.tree, g.own)

(* Mutant: the authenticator is stashed before the commit is made. *)
PendingEarly(g, next) == [g |-> next, pendingEpochAuth |-> g.es]

(* The engine advances the committer at once; the authenticator of the new
   epoch is kept for HandlePendingCommit. *)
Pending(g, next) == [g |-> next, pendingEpochAuth |-> next.es]

(* When somebody else's Remove frees the committer's own leaf and an Add takes
   it, the Welcome cannot be built, after the generation has been spent.  A
   commit that truncates the committer's leaf away does not return. *)
CommitPending(id, byReference, byValue) ==
  LET g == states[id].g
      commit(c) ==
        \/ /\ c.ok
           /\ Drawn
           /\ HasRoom("commit")
           /\ states' = [states EXCEPT ![id] = Pending(g, c.view)]
           /\ wire' = wire \cup ({c.msg, c.welcome} \ {NoWelcome})
        \/ /\ ~c.ok
           /\ c.view # g /\ g.handshakeGeneration < MaxGeneration
           /\ SetGroup(id, c.view)
           /\ UNCHANGED <<wire, draw>>
  IN  /\ Returns(g, byReference, byValue)
      /\ commit(Commit(g, draw, byReference, byValue))
      /\ UNCHANGED <<txns, nextID>>

HandleCommit(id, proposals, m) ==
  LET handle(p) == p.ok /\ SetGroup(id, p.view)
  IN  /\ handle(ProcessCommit(states[id].g, proposals, m))
      /\ UNCHANGED <<txns, nextID, wire, draw>>

HandlePendingCommit(id) ==
  /\ states[id].pendingEpochAuth # NoAuth
  /\ states' = [states EXCEPT ![id].pendingEpochAuth = NoAuth]
  /\ UNCHANGED <<txns, nextID, wire, draw>>

(***************************************************************************)
(* Messages and group information                                          *)
(***************************************************************************)
(* No two plaintexts are the same. *)
Protect(id) ==
  LET p == ProtectApplication(states[id].g, [number |-> Cardinality(Messages("application"))])
  IN  /\ SetGroup(id, p.view)
      /\ Send(p.msg)
      /\ UNCHANGED <<txns, nextID, draw>>

Unprotect(id, m) == CanUnprotectApplication(states[id].g, m)

GroupInfo(id) ==
  /\ Send([content |-> "group_info", gi |-> PublishGroupInfo(states[id].g)])
  /\ UNCHANGED <<states, txns, nextID, draw>>

(***************************************************************************)
(* One proposal of each kind at most in a commit.                          *)
(***************************************************************************)
References == {<< >>} \cup {<<m>> : m \in Messages("proposal")}

Values(id) ==
  LET g == states[id].g
  IN  {<< >>} \cup {<<ProposeAdd(m.kp)>> : m \in Messages("key_package")}
      \cup {<<ProposeRemove(l)>> : l \in {resolveIdentity(g, i) : i \in Identities} \ {NoIndex}}

Next ==
  \/ \E i \in Identities : CreateKeyPackage(i)
  \/ \E i \in Identities, enc \in EncryptHandshake :
       CreateGroup(i, enc) \/ \E m \in Messages("group_info") : ExternalJoin(i, m, enc)
  \/ \E id \in DOMAIN txns, m \in Messages("welcome"), enc \in EncryptHandshake :
       JoinGroup(id, m, enc)
  \/ \E id \in DOMAIN states :
       \/ Free(id) \/ UpdateProposal(id) \/ HandlePendingCommit(id)
       \/ Protect(id) \/ GroupInfo(id)
       \/ \E m \in Messages("key_package") : AddProposal(id, m.kp)
       \/ \E i \in Identities : RemoveProposal(id, i)
       \/ \E refs \in References, vals \in Values(id) : CommitPending(id, refs, vals)
       \/ \E ps \in SUBSET Messages("proposal"), m \in Messages("commit") : HandleCommit(id, ps, m)

Spec == Init /\ [][Next]_vars

(***************************************************************************)
(* Properties                                                              *)
(***************************************************************************)
(* The ids of clients and of unused key packages are different and were handed
   out by alloc. *)
IdsAllocated ==
  /\ nextID \in Nat \ {0}
  /\ DOMAIN states \cap DOMAIN txns = {}
  /\ DOMAIN states \cup DOMAIN txns \subseteq 1 .. nextID - 1

(* An id names one client or key package for ever: what enters the tables, now
   or after any number of Free, has a new id, so that a late call with an old id
   never reaches another client. *)
IdsFresh ==
  [][\A id \in (DOMAIN states' \cup DOMAIN txns') \ (DOMAIN states \cup DOMAIN txns) :
       nextID <= id /\ id < nextID']_vars

(* No key and nonce of a sender's ratchet protect two different messages,
   however the calls interleave: the generation counters move with every
   message, an epoch is entered once, and a key package joins once. *)
NonceUnique ==
  \A m, n \in {x \in wire : x.content \in {"proposal", "commit", "application"}} :
    m.wf = "private" /\ n.wf = "private" /\ KeyNonce(m) = KeyNonce(n) => m = n

(* An application message can be read by every client in its epoch, whenever
   it arrives and whoever joined that epoch how (Protect, Unprotect). *)
Readable ==
  \A m \in Messages("application"), id \in DOMAIN states :
    states[id].g.es = m.es => Unprotect(id, m)

(* What HandlePendingCommit will report is the authenticator of an epoch that
   this client opened with a commit of its own; it may since have moved on. *)
PendingIsOwn ==
  \A id \in DOMAIN states : states[id].pendingEpochAuth # NoAuth =>
    \E m \in Messages("commit") :
      m.body.s = states[id].pendingEpochAuth /\ m.signer = states[id].g.sig
=============================================================================
