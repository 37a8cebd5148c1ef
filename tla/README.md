# A TLA+ model of mls-go

mls-go is a Go implementation of MLS (RFC 9420) with the IronCore layer that
uses it to key the overlay networks (VNIs) of a data centre. This directory
holds TLA+ modules translated from the source, the TLC configurations that check
them, and TLAPS proofs. `PROJECT.json` maps every definition to its source lines
and lists the runs, mutants, findings, hazards and theorems. Paths below are
relative to `src/`.

## The system

| Part | Source | What changes it | Module |
|---|---|---|---|
| Ordering register | `ironcore/sequencer/sequencer.go` | AcceptCommit | Ordering |
| Fork registry | `ironcore/sequencer/fork.go` | Report | ForkRegistry |
| Lease-fenced sequencer | `ironcore/sequencer/fencing.go` | AcceptCommit, Acquire, Renew, Release, Accept | FencedSequencer |
| Membership controller, recovery, tie-break | `ironcore/controller.go`, `recovery.go`, `sequencer/tiebreak.go` | joins, HandleCommit, Rekey, Reconcile, AutoRecover | Controller |
| SA derivation, ESP data path | `ironcore/sa.go`, `sim/client.go` | sendToReceiver, onData, cacheCurrentSA, trimSAs | DataPlane |
| Ratchet tree, TreeKEM | `mls/tree` | AddLeaf, RemoveLeaf, UpdateLeaf, update paths | RatchetTree |
| Group engine, key schedule | `mls/group`, `mls/keyschedule`, `mls/framing` | Commit, ProcessCommit, ExternalCommit, JoinFromWelcome, proposals, application messages | MLSGroup, MLSMembers |
| Wire encoding | `mls/syntax` and the marshal and decode functions of all packages | - | WireCodec |
| Simulation | `sim` | commits, Welcomes, heartbeats, catch-up, churn | DualGroupSim |
| Interop server | `interop/server` | its RPCs | InteropServer |

A controller commits optimistically: `group.Commit` advances its group, and only
then does `AcceptCommit` ask the ordering authority for the slot of the old
epoch. The winner's caller broadcasts the commit; members process it and rotate
their SA. A loser is on a dead branch and rejoins by an external commit, which
is ordered in the same way. What is hard here: several committers at a handover,
reflectors whose leases and clocks disagree, a crash between deciding and
broadcasting, late and repeated messages, recoveries that race each other; and
below that, whether the members of an epoch really hold the same tree and keys.

## Modules

- **Ordering** is `MemorySequencer`. AcceptCommit runs under one mutex, so it is
  one action; `acked` and `refused` are history variables with its answers. It
  is also the abstract specification of the ordering port. `LeasedSpec` is the
  weaker contract that is left when the register is behind leases: whoever does
  not hold the lease may be answered (false, nil) for any commit (`FencedOut`),
  and `decided` and `acked` are as before.
- **ForkRegistry** extends Ordering with members that follow the decided commits
  (those of `Astray` any commit) and report their authenticators, in any order.
- **FencedSequencer** has one process per reflector. A call of AcceptCommit is
  `Submit` (the cached lease is checked), `AcquireGranted` or `AcquireRefused`
  (the store's mutex) and `Accept` or `AcceptFenced` (the register's mutex).
  Leases are kept as the time that is left, `Tick` takes one unit from all; skew
  is a grant whose local remainder differs from the TTL by up to `MaxSkew`. Every
  answer is recorded, the (false, nil) of a refused Acquire included. It refines
  `LeasedSpec` of Ordering (`ImplementsLeasedOrdering`), and not `Spec`: see
  Findings.
- **Controller** composes one controller per node with Ordering (by INSTANCE)
  and a network. A group state is named by the commit that leads to it, and
  `log` gives each state's parent, epoch and roster (leaf to node). `tip`, `cur`
  and `prev` are `g`, `curSA` and `prevSA`; `status` is where the caller stands:
  `ordering` between group.Commit and AcceptCommit's answer, `lost` after a
  loss. The network delivers any commit of `sent` at any time and any number of
  times. `JoinViaExternalCommit` and `AutoRecover` are one step: what they
  compute before AcceptCommit is visible to nobody.
- **DataPlane** is one receiver, its senders and the packets between them, over
  several epochs. The outputs of ExpandWithLabel are a table chosen in Init, so
  that derived SPIs may coincide. The low byte of the epoch has `Low` values.
- **RatchetTree** has the array tree of `mls/tree` as operators: index
  arithmetic, mutations, resolutions, tree and parent hashes, update paths. A
  secret is a pair of a random draw and the number of ratchet steps; a hash is
  the tuple of what goes into it. **SequenceFolds** has the left fold and the
  ascending enumeration of a set that it needs. SequencesExt would have them too,
  but it brings in Bags, and with them every proof above it takes many times as
  long.
- **MLSGroup** has one member's `Group` as a record and each operation of
  `mls/group` as an operator from a view to a result with its error returns: a
  refused operation returns the view as the code leaves it. A confirmation tag
  is the tuple of the key schedule's inputs.
- **MLSMembers** makes processes of them: members propose, commit, receive, join
  by Welcome and by external commit. One commit opens each epoch, which is what
  Ordering guarantees.
- **InteropServer** has every RPC of the interop harness that changes the
  server's tables, on the views of MLSGroup. The caller carries messages between
  clients in any order; nothing orders the commits, and groups may fork.
- **DualGroupSim** has the clients of one VNI on several replicas and their
  reflectors. The founder is the only committer. What was sent is a function of
  the state, and whatever was sent may arrive at any later time, again, or never.
- **WireCodec** has the presentation language as `Encode` and `Decode` over
  schemas, and the schema of every message, skimmer and signed input. One schema
  stands for a type's marshal and its decode, which were compared field by
  field; framing's skimmers, a second reading of the same grammar, have their
  own. A byte has `Radix` values.
- **MC\*** instantiate these for TLC; **\*Proofs** hold the theorems.

Operators that follow a `Mutant:` comment, or are named `X_Something`, are
plausible bugs in the definition after them that a property has to catch.

### Assumptions of Controller

- MLS binds a commit to the state it was made in, so a member processes exactly
  the commits whose parent is its own state. (MLSMembers looks into this; see
  finding 2 for where the engine refuses a commit of the member's own state.)
  The proposals are those Reconcile makes (Remove and Add, by value). Each Add
  takes one leaf.
- Calls on one Controller are serialised, as its comment demands.
- A caller told that it lost does nothing but AutoRecover, as the comment of
  commitAndOrder demands; it is not a check in the code.
- Only commits that won are broadcast, as the clients of `sim` do it. (The
  comment of `ReconcileResult.CommitMsg`, "broadcast to members when Committed",
  reads otherwise: Committed is also true for a commit that lost.)
- The switches `Fenced`, `OrderingFails` and `Competing` say what the ordering
  authority and the caller may do: answer (false, nil) without deciding; return
  an error; hand every competing commit, and GroupInfos of losing branches, to
  recovery.

## Runs

| Run | Checks | Instance, distinct states |
|---|---|---|
| ordering | one commit per epoch; no false fork alarm, no reported fork missed | 2 epochs, 3 commits, 3 members, one astray; 85,178 |
| fenced | refinement of Ordering with leases, fencing order, exclusive belief, takeover by the standby | 2 reflectors, 2 epochs, TTL 1, skew 1, 3 tokens, a restart, renewals and releases, fenced-out answers for one commit; 368,305 |
| controller | members, decided slots and SAs on one chain, one leaf per node; every member reaches the last decided state | 2 nodes, 3 commits, 3 epochs, a crash, fenced-out answers; 107,282 |
| controller_faults | SAs of decided epochs only, and none goes back except into an open slot | 2 nodes, 4 commits, 3 epochs, failing and fenced-out answers, competing recovery; 178,496 |
| data_plane | no replay, no packet refused or lost without cause, epochs told apart, nonces used once | 2 senders, 3 epochs on 2 values of the epoch byte, window 2, overlap 1, 3 derivation tables; 174,054 |
| treekem | members of an epoch agree, hold the right keys and no others; who is evicted notices; who refuses a commit or a Welcome has one of the known reasons | 5 nodes and 6 that never come online, 3 epochs, trees of up to 16 leaves, 2 proposals in flight; 17,000 |
| interop | no key and nonce for two messages, messages readable, a pending commit is one's own | 2 identities, 4 ids, 5 messages; 34,863 |
| sim | only senders behind the receiver lose packets, Welcomes and logs stay usable, departed peers pruned, replicas converge, lag ends | 3 scenarios: 3 clients on one replica with joins and a leave or a rekey, 2 clients on two replicas; 43,213 |
| codec | round trip, canonical encoding, skimmers and decoders agree, signed inputs determine their parts, same transcript on both sides | every message type, each field varied, one byte lost, inserted or changed; 116,001 |

`controller_error`, `treekem_follow` and `sim_loss` are expected violations; see
Findings.

**Bounds.** Two epochs and three commits hold the interesting races of the
controllers: two commits for one slot and a third, made by a joiner, a recovery
or on the dead branch, for the next. Moving an SA back takes four commits: the
constraint `FourthAlone` of controller_faults admits the fourth only while one
node works alone, which is how it happens. The controller run has two nodes,
since it also checks liveness; the theorems cover its invariants for every
number. Two reflectors with three tokens allow a takeover, a return of the old
holder and a second takeover: the last token is the standby's
(`LastTokenForStandby`), because the code, unlike the model, never runs out of
tokens. The second epoch is submitted to after the first is decided and the
second commit by the standby alone (`SubmittedInOrder`); fenced-out answers are
about one commit (`OneRefused`). With TTL and skew both 1 a reflector is sure of
its lease only in the tick of the grant, so ExclusiveBelief rests on its proof
more than on the run. In data_plane epochs 0 and 2 share their low byte, so SPIs
come back, and five packets slide a window of two past its size twice. In
treekem groups grow step by step to three members, or at once to five, where
blank nodes lie between keyed ones, or at once to nine: there a committer skips
a node between two keyed ones, the least tree in which a wrong key of
installJoinerPriv is used. Six of the nine never come online (`Absent`).
Receivers are never more than one commit behind (`MaxLag`), since a view depends
on the log alone. In codec a byte of eight values puts the boundaries of the
length prefix at 2 and 16, within reach of short messages. Symmetry is used
where no hash order and no liveness property can tell names apart.
controller_faults has a view without `acked` and `refused`, the history of the
authority's answers: no action of Controller and no property of the run reads
it. The controller run, where symmetry is unsound, takes refs in order instead
(`FirstFreeRef`): they are only compared for equality there, and whatever some
free ref enables, the first one does too, so no fair behaviour is lost but for
renaming. Deadlock is not checked where a bound on commits, messages or packets
stops the model.

**Fairness.** In fenced: time passes, the standby's calls finish and its caller
retries; nothing is assumed of the other reflector. StandbyTakesOver supposes
that from some time on nobody but the standby is granted a lease or has one
renewed, and says that again and again the standby's is the newest token and the
register has been written with it; what the other decided before does not count.
In controller: AcceptCommit returns, callers broadcast, publish GroupInfos and
reconcile, delivery is retried until a commit is processed, and losers retry
AutoRecover. These are the duties that the comments of `controller.go` and
`recovery.go` give to the caller, and what the clients of `sim` do with
heartbeats and catch-up. Rekey, which is periodic, needs none. Converges
supposes that nobody crashes, since a crash between AcceptCommit and the
broadcast may take the only copy of a decided commit with it, and that nodes
that are out stay out from some time on. In sim: of what the timers repeat (the
unconfirmed head commit and its echo, Welcomes, heartbeats of the current epoch,
log requests of a client that is behind), something new gets through as long as
there is something new. This is one weak fairness condition on their
disjunction, and weaker than one for each message. Faults are lifted at the end
of every scenario.

## Proofs

The theorems hold for every value of the constants that satisfies the named
assumptions (`...Assumption`), which the code justifies: special names are no
commits, bounds are numbers, epochs start at 1, the founder is a client of every
scenario, the founders' roster has one leaf per node, the epochs kept are fewer
than the values of the epoch byte, leaf indices fit into the salt.

- **Ordering** (OrderingProofs). Agreement, AnswersStable, DecidedOnce: the
  inductive invariant adds to the types that every accepted pair is the
  register's content and every refused pair differs from it.
- **Fork registry** (OrderingProofs). NoFalseFork and ForkDetected: `ForkInv`
  says that a member that is not astray has followed decided commits alone, that
  it reports what it followed, and that the registry has the first report of
  every epoch and a flag for each that differs.
- **FencedSequencer** (FencedSequencerProofs). ImplementsLeasedOrdering needs only
  the types, because the register's own compare carries it: initial states map to
  initial states and every action to AcceptCommit, FencedOut or a stutter.
  AgreementAcross, Ordering's Agreement read over all reflectors, adds that what
  was accepted is what the register holds. FencingOrder and
  TokenUnique need that the tokens held are at most `next` and the writers'
  tokens at most `maxToken`. ExclusiveBelief needs that whoever is sure of the
  lease holds it in the store, with at most `MaxSkew` more time left.
- **Controller, whatever fails** (ControllerFaultsProofs). TypeOK, SACanonical,
  SABackOnlyIntoGap and OneLeafPerNode hold for every value of the switches: with
  errors of AcceptCommit, fenced-out answers, crashes and recoveries that build on
  losing branches. DecidedChain fails there, so the argument cannot go through
  the chain. `FInv` says instead that SAs are of states that won their slot and
  are not ahead of the group, strictly behind while a commit is being ordered,
  and that only commits that won are in outboxes and on the network. A rotation
  then goes forward, except for AutoRecover, whose external commit has just
  filled a free slot. OneLeafPerNode is an induction over the steps with the
  lemma that Rosters maps a roster without doubles, and nodes not in it, to one
  without doubles.
- **Controller, disciplined** (ControllerProofs). MembersOnDecidedBranch,
  DecidedChain, SADecided and SAForward under `Disciplined` (no errors of
  AcceptCommit, no competing candidates); crashes and fenced-out answers are
  allowed. `IInv` says that the decided slots are a prefix forming a chain, what
  each status means for `tip` and the SAs, and that everything sent or published
  is decided. The last conjunct makes recovery safe: an external commit starts
  from a decided state. Finding 1 shows that the discipline is needed.
- **DataPlane** (DataPlaneProofs). NoReplay, OnlyStaleMissed, SeenBounded,
  EpochsDemuxed, LostIsLate, NonceOnce for every window, overlap, set of senders
  and derivation. The invariant says that an accepted number is still remembered
  or already too old, that a refused packet is shadowed by an accepted one under
  its SPI, that the receiver holds exactly the SPIs of its last Overlap + 1
  epochs, and that nonces used carry numbers below their sender's counter.
- **MLS members** (MLSMembersProofs). SchedulesAgree: members in the same epoch
  have the same group context, epoch and init secrets and transcript hash, and
  trees of the same hash, for groups of any size and any history of commits,
  proposals, joins and refusals. `MInv` ties a view to the log: the tag of
  `log[e]` names a context of epoch e, the Welcome beside it agrees with it, and
  every view in epoch e has that context, a tree of that hash and the secrets of
  that commit. The lemmas follow Commit, ProcessCommit, JoinFromWelcome and
  ExternalCommit: each either leaves the view in its epoch or has checked the
  tag. Nothing about the shape of trees is needed. RemovedIsEvicted: a member that
  reported its removal is behind the log, and the next decided commit removes its
  leaf. This is the first half of EvictionNoticed, with more about where the
  member stands. `RInv` says that the Remove is there by value; it stays, since
  such a member neither processes nor sends and the log only grows.
- **DualGroupSim** (DualGroupSimProofs). LogComplete and WelcomeCurrent for every
  scenario. `SimInv` says of the founder on each replica that it stays joined and
  is never behind (so it never replays a commit), that the reflector has every
  commit but perhaps the last, that what was echoed was accepted, and that those
  it waits for were added by its last commit.
- **InteropServer** (InteropServerProofs). IdsAllocated and IdsFresh; and
  PendingIsOwn: `PInv` adds that every client's record is a view whose signer
  never changes, from lemmas on what each operation of MLSGroup does to a view.
  ClientNonceUnique: no client encrypts two messages with the same key and nonce,
  for any number of clients, groups and forks; and EpochsAgree: clients with the
  secrets of the same epoch have the same group context. Every call has one of
  seven forms (`Forms`): a client talks, commits, follows a commit, appears, joins
  with a key package, or goes; or a key package is made. `NInv` has three parts.
  `Sigs`: signature keys tell clients and unused key packages apart, and nothing
  is signed with the key of an unused key package. `Knowing`: one assignment of
  contexts to draws accounts for all views, commits, Welcomes and GroupInfos; no
  variable holds the contexts of epochs that everybody has left, so the invariant
  says that such an assignment exists. `Spending`: what a client has sent is of
  an epoch no later than its own, and in its own below the counter. An epoch has
  one number and a client's number grows, so no epoch is entered twice.

### Only model-checked

- Converges (both), StandbyTakesOver and LagEnds are liveness properties;
  fairness and ENABLED are beyond the prover.
- OnlyLateSendersLose and GhostsPruned depend on what a replay of the log
  computes: a fold over a sequence, and induction over data is beyond the prover.
- Of ViewsAgree, the equality of trees as against that of their hashes. It needs
  an induction over the tree that the hash was computed from.
- EvictedStays, KeysMatch, HoldersBelow, FollowsUnless and JoinersAdmitted speak
  about tree positions, paths and resolutions, which are recursive functions on
  trees, and about trees that a fold over the proposals of a commit has made.
- The second half of EvictionNoticed, that no by-value Remove of a member is
  merely refused, needs that the committer's leaf and its signature key are in
  the receiver's tree: the same agreement of trees.
- Of NonceUnique, that two different clients never use the same key and nonce:
  it needs that a leaf of an epoch belongs to one client in all trees of that
  epoch. Readable needs it too.
- WireCodec's Encode and Decode are recursive on the schema.

## Findings

1. *controller_error*. After an error of AcceptCommit the group is on an
   undecided branch, nothing marks it, and the next Rekey or Reconcile builds on
   it: the register decides a slot that no other member can follow.
2. *treekem_follow*. ProcessCommit rebuilds the private keys of a member from its
   own leaf and the path secrets from the common ancestor up. Keys of nodes on
   its path below the ancestor, still in the tree, are dropped, and a later commit
   that encrypts to such a node cannot be processed. In larger trees the key may
   be there and wrong instead: installJoinerPriv ratchets at every ancestor,
   GenerateUpdatePath only along the filtered path. With leaves 0 to 8, when
   leaf 0 commits and nothing is left below node 5, node 3 is skipped; leaf 1,
   new or old, derives a wrong key for node 7 and cannot follow a commit of
   leaf 8.
3. *sim_loss*. `client.go` says that a delivered packet must be decryptable, and
   the simulation's plan that this takes `spread <= W`. sendEpoch goes by the
   epochs last heard of peers and trimSAs by the receiver's own: a sender that is
   behind, with old reports, uses an epoch that the receiver has trimmed although
   all clients are within W epochs. OnlyLateSendersLose says what is left: the
   sender of a lost packet is behind the receiver, however old its reports are.

Other behaviour that properties had to be stated around, or that the model has
as it is in the code:

- `ports.go:26-29` has AcceptCommit "idempotently true when the SAME commit is
  re-submitted". A reflector without the lease answers (false, nil) for a commit
  that has won (`fencing.go:186-188`), so FencedSequencer does not implement
  Ordering's `Spec`: AnswersStable is a theorem about MemorySequencer and false of
  reflectors. What does hold of them is ImplementsLeasedOrdering: such an answer
  changes neither the register nor what was accepted.
- `controller.go:165` calls the previous SA that of the "immediately-prior" epoch.
  After a recovery it may be older; SADecided says that it is older than the
  current one and decided.
- A private key above a blank node may be wrong (KeysMatch, and finding 2).
- With two Updates of its own in a commit a member tracks the first, while the
  tree has the second. A founder refuses an external commit against epoch 0. A
  Welcome that names a resumption PSK is refused by its joiner (FollowsUnless,
  JoinersAdmitted).
- A Remove of the own leaf is detected when it is by value only
  (EvictionNoticed). Commit does not refuse to remove the committer's own leaf,
  nor the same leaf twice; the models make no such commits.
- processExternalCommit leaves handshakeGeneration as it was, which is harmless
  as the keys are new (NonceUnique).
- HandlePendingCommit may report the authenticator of an epoch that the client
  has left (PendingIsOwn). ExternalJoin of the server always makes a new signer,
  so that an identity may get two leaves.
- A joiner takes its peers to be at the epoch before its own. The founder's
  rekey does not prune departed peers (GhostsPruned). A client that was removed
  cannot join again.
- Replay windows are never deleted and SPIs come back after 256 epochs; a
  collision of SPIs that InboundSAs reports goes unnoticed by cacheCurrentSA
  (OnlyStaleMissed).
- With errors or competing recoveries a slot can be passed over and filled later,
  which moves an SA back (SABackOnlyIntoGap).

## Not modelled

- Cryptographic primitives: symbolic throughout. Secrets, tags and hashes are
  named by what they depend on.
- Certificates, credentials and the VNI encoding: validation without state.
- The scheduler, seeds, clocks and metrics of `sim`, benchmarks, the scaling
  model and the commands: measurement and I/O.
- In DualGroupSim, commits by others than the founder (MLSMembers has them) and
  data packets (DataPlane has them).
- ReInit and subgroup branching: the engine parses the proposals and leaves what
  they mean to a higher level.
