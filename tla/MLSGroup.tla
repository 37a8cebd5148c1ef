------------------------------ MODULE MLSGroup ------------------------------
(***************************************************************************)
(* Package mls/group with the parts of mls/framing and mls/keyschedule it  *)
(* calls: one member's view of a group as a value, and every operation on  *)
(* it as an operator from a view to a result.                              *)
(*                                                                         *)
(* A random draw is a number the caller supplies as s, fresh for each      *)
(* operation that draws.  The secrets of an epoch are named by the draw of *)
(* the operation that created the epoch (field es).  A confirmation tag is *)
(* the tuple of the key schedule's inputs it authenticates, so that two    *)
(* members compute the same tag exactly when they feed the key schedule    *)
(* the same values.                                                        *)
(***************************************************************************)
EXTENDS RatchetTree

(***************************************************************************)
(* keyschedule: context.go, schedule.go, transcript.go, psk.go             *)
(***************************************************************************)
GroupContext(epoch, treeHash, confirmed, ext) ==
  [epoch |-> epoch, tree |-> treeHash, confirmed |-> confirmed, ext |-> ext]

(* commit_secret of a member that could decrypt nothing: the zero vector. *)
ZeroSecret == <<0, 0>>

(* psk_secret chains the PSKs in commit order, each under a label with its id,
   its place and their number. *)
pskLabel(psks, i) == [id |-> psks[i].id, index |-> i - 1, count |-> Len(psks)]
PSKSecret(psks) == [i \in DOMAIN psks |-> <<pskLabel(psks, i), psks[i].psk>>]

(* Mutant: the commit secret does not enter the key schedule. *)
JoinerSecretNoCommit(init, commitSecret, gc) == [init |-> init, gc |-> gc]

JoinerSecret(init, commitSecret, gc) == [init |-> init, commit |-> commitSecret, gc |-> gc]

WelcomeKeyNonce(joiner, psks) == <<joiner, PSKSecret(psks)>>

EpochSecretsFromJoiner(joiner, psks, gc) == <<joiner, PSKSecret(psks), gc>>

(* A tag is named by the secrets whose confirmation key makes it. *)
ConfirmationTag(init, commitSecret, psks, gc) ==
  EpochSecretsFromJoiner(JoinerSecret(init, commitSecret, gc), psks, gc)

(* confirmed = Hash(interim || input); interim = Hash(confirmed || tag).  The
   input is named by the draw of the commit, the tag by the epoch it opens. *)
ConfirmedTranscriptHash(interim, s) == Append(interim, s)
InterimTranscriptHash(confirmed, es) == Append(confirmed, es)

(* init_secret for the next epoch: derived from the epoch, or shared between
   an external committer and the holders of the epoch's external secret. *)
InitSecret(es) == <<es>>
ExternalInitSecret(es, s) == <<es, s>>

(***************************************************************************)
(* Proposals, key packages and messages.                                   *)
(***************************************************************************)
NewKeyPackage(s, sig) ==
  [init |-> s, leaf |-> LeafNode(<<s, 0>>, sig, "key_package", NoIndex, NoHash)]

ProposeAdd(kp) == [type |-> "add", kp |-> kp]
ProposeRemove(leaf) == [type |-> "remove", leaf |-> leaf]
ProposeGroupContextExtensions(ext) == [type |-> "gce", ext |-> ext]
ProposePSK(id) == [type |-> "psk", id |-> id]
ExternalInit(kem) == [type |-> "external_init", kem |-> kem]

ExternalPSK(name) == [kind |-> "external", name |-> name]
ResumptionPSK(epoch) == [kind |-> "resumption", epoch |-> epoch]

(* A proposal in a commit: the proposal itself or the reference of one
   delivered before, which names its framed content. *)
ByValue(prop) == [byRef |-> FALSE, prop |-> prop]
ByReference(ref) == [byRef |-> TRUE, ref |-> ref]
ProposalRef(m) == [wf |-> m.wf, es |-> m.es, sender |-> m.sender, prop |-> m.body]

(***************************************************************************)
(* group.go: a member's view.  The pending Updates are named by their leaf *)
(* keys; psks are the external PSKs held, hist the resumption PSKs, which  *)
(* the epoch's secrets name.                                               *)
(***************************************************************************)
NewView(tree, priv, own, sig, gc, es, interim, psks, enc) ==
  [tree |-> tree, priv |-> priv, own |-> own, sig |-> sig, gc |-> gc, es |-> es,
   init |-> InitSecret(es), interim |-> interim, psks |-> psks,
   hist |-> [e \in {gc.epoch} |-> es], pending |-> {}, appGeneration |-> 0,
   handshakeGeneration |-> 0, encryptHandshakes |-> enc]

(* The state commit at the end of Commit and ProcessCommit. *)
Advance(g, tree, priv, gc, es, interim) ==
  [g EXCEPT !.tree = tree, !.priv = priv, !.gc = gc, !.es = es,
            !.init = InitSecret(es), !.interim = interim,
            !.hist = [e \in DOMAIN @ \cup {g.gc.epoch, gc.epoch} |->
                        IF e = gc.epoch THEN es
                        ELSE IF e = g.gc.epoch THEN g.es ELSE @[e]],
            !.pending = {}, !.appGeneration = 0, !.handshakeGeneration = 0]

(* Mutant: the secret is ratcheted before it is installed at the ancestor. *)
installJoinerPrivLate(priv, secret, own, sender, nLeaves) ==
  LET start == commonAncestor(2 * own, 2 * sender, nLeaves)
      path  == <<start>> \o DirectPath(start, nLeaves)
      at(i) == CHOOSE k \in DOMAIN path : path[k] = i
  IN  FoldLeft(LAMBDA p, i : AddPathSecret(p, i, Ratchet(secret, at(i))), priv, path)

(* installJoinerPriv ratchets once for every ancestor of the common one. *)
installJoinerPriv(priv, secret, own, sender, nLeaves) ==
  LET start == commonAncestor(2 * own, 2 * sender, nLeaves)
      path  == <<start>> \o DirectPath(start, nLeaves)
      at(i) == CHOOSE k \in DOMAIN path : path[k] = i
  IN  FoldLeft(LAMBDA p, i : AddPathSecret(p, i, Ratchet(secret, at(i) - 1)), priv, path)

(***************************************************************************)
(* create.go: both transcript hashes of epoch 0 are empty.                 *)
(***************************************************************************)
NewGroup(s, sig, enc) ==
  LET tree == NewRatchetTree(NewKeyPackage(s, sig).leaf)
  IN  NewView(tree, NewTreeKEMPrivate(0, <<s, 0>>), 0, sig,
              GroupContext(0, RootTreeHash(tree), << >>, 0), s, << >>, {}, enc)

(***************************************************************************)
(* framing: a member's message is protected with secrets of its epoch (the *)
(* membership key, or the sender-data secret and the sender's ratchet at a *)
(* generation) and signed with the key in the sender's leaf.  A receiver   *)
(* recovers it exactly when it is in that epoch and finds that key there.  *)
(***************************************************************************)
WireFormat(g) == IF g.encryptHandshakes THEN "private" ELSE "public"

ratchetTypeFor(content) == IF content = "application" THEN "application" ELSE "handshake"

(* The key and nonce of the sender's ratchet that a private message uses. *)
KeyNonce(m) == <<m.es, m.sender, ratchetTypeFor(m.content), m.gen>>

SignedBy(g, m) == g.tree[2 * m.sender].sig = m.signer

(* The membership tag is made with a key of the epoch. *)
UnprotectPublic(g, m) == m.es = g.es /\ SignedBy(g, m)

(* The sender data give the leaf and the generation, which give the key. *)
UnprotectPrivate(g, m) == KeyNonce(m)[1] = g.es /\ SignedBy(g, m)

Authentic(g, m) ==
  /\ m.sender \in Leaves(g.tree)
  /\ IF m.wf = "public" THEN UnprotectPublic(g, m) ELSE UnprotectPrivate(g, m)

Framed(g, wf, content, gen, body) ==
  [wf |-> wf, content |-> content, es |-> g.es, sender |-> g.own, signer |-> g.sig,
   gen |-> gen, body |-> body]

(***************************************************************************)
(* propose.go and application.go                                           *)
(***************************************************************************)
ProposeUpdate(g, s) ==
  [prop |-> [type |-> "update", node |-> LeafNode(<<s, 0>>, g.sig, "update", g.own, NoHash)],
   view |-> [g EXCEPT !.pending = @ \cup {<<s, 0>>}]]

(* An encrypted handshake message uses up a generation of the ratchet. *)
SpendGeneration(g) ==
  IF g.encryptHandshakes THEN [g EXCEPT !.handshakeGeneration = @ + 1] ELSE g

FrameProposal(g, prop) ==
  [msg  |-> Framed(g, WireFormat(g), "proposal", g.handshakeGeneration, prop),
   view |-> SpendGeneration(g)]

ProtectApplication(g, data) ==
  [msg  |-> Framed(g, "private", "application", g.appGeneration, data),
   view |-> [g EXCEPT !.appGeneration = @ + 1]]

CanUnprotectApplication(g, m) == m.content = "application" /\ Authentic(g, m)

(***************************************************************************)
(* process.go: resolving and applying the proposals of a commit.           *)
(***************************************************************************)
(* The delivered proposals a commit may refer to, by their references. *)
Cache(msgs) == {ProposalRef(m) : m \in msgs}

Resolvable(props, cache) == \A i \in DOMAIN props : props[i].byRef => props[i].ref \in cache

Resolved(props, committer) ==
  [i \in DOMAIN props |-> IF props[i].byRef
                          THEN [prop |-> props[i].ref.prop, sender |-> props[i].ref.sender]
                          ELSE [prop |-> props[i].prop, sender |-> committer]]

OfType(resolved, type) == SelectSeq(resolved, LAMBDA r : r.prop.type = type)

(* A Remove fails outside the tree as the Removes before it left it. *)
ApplyRemove(st, r) ==
  IF st.ok /\ InRange(st.tree, r.prop.leaf)
  THEN [st EXCEPT !.tree = RemoveLeaf(@, r.prop.leaf)]
  ELSE [st EXCEPT !.ok = FALSE]

ApplyAdd(st, r) ==
  LET put(a) == [st EXCEPT !.tree = a.tree, !.newlyAdded = Append(@, a.leaf)]
  IN  put(AddLeaf(st.tree, r.prop.kp.leaf))

(* The PSKs a commit names, in commit order, as far as the member has them. *)
ResolvePSKs(g, ids) ==
  LET known(id)  == IF id.kind = "external" THEN id.name \in g.psks ELSE id.epoch \in DOMAIN g.hist
      secret(id) == IF id.kind = "external" THEN 0 ELSE g.hist[id.epoch]
  IN  IF \A i \in DOMAIN ids : known(ids[i])
      THEN [ok |-> TRUE, psks |-> [i \in DOMAIN ids |-> [id |-> ids[i], psk |-> secret(ids[i])]]]
      ELSE [ok |-> FALSE, psks |-> << >>]

(* Updates, then Removes, then Adds, then GroupContextExtensions, of which the
   last one wins, and PSKs. *)
applyProposals(g, t, resolved) ==
  LET props(type) == LET of == OfType(resolved, type) IN [i \in DOMAIN of |-> of[i].prop]
      updated     == FoldLeft(LAMBDA u, r : UpdateLeaf(u, r.sender, r.prop.node),
                              t, OfType(resolved, "update"))
      removed     == FoldLeft(ApplyRemove, [ok |-> TRUE, tree |-> updated, newlyAdded |-> << >>],
                              OfType(resolved, "remove"))
      ids         == [i \in DOMAIN props("psk") |-> props("psk")[i].id]
      all(st, psks, gces) ==
        [ok         |-> st.ok /\ psks.ok,
         tree       |-> st.tree,
         newlyAdded |-> st.newlyAdded,
         addedKPs   |-> [i \in DOMAIN st.newlyAdded |-> props("add")[i].kp],
         ext        |-> IF gces = << >> THEN g.gc.ext ELSE gces[Len(gces)].ext,
         psks       |-> psks.psks]
  IN  all(FoldLeft(ApplyAdd, removed, OfType(resolved, "add")), ResolvePSKs(g, ids), props("gce"))

(* Mutant: the member goes on with its old leaf key. *)
resolveOwnUpdatePrivOld(g, resolved) == [ok |-> TRUE, key |-> NoSecret]

(* The pending key of the first Update of the member's own leaf. *)
resolveOwnUpdatePriv(g, resolved) ==
  LET own == SelectSeq(resolved, LAMBDA r : r.prop.type = "update" /\ r.sender = g.own)
  IN  IF own = << >> THEN [ok |-> TRUE, key |-> NoSecret]
      ELSE [ok |-> own[1].prop.node.key \in g.pending, key |-> own[1].prop.node.key]

(***************************************************************************)
(* groupinfo.go: what a signed GroupInfo tells, and when a newcomer trusts *)
(* it and the tree it carries.                                             *)
(***************************************************************************)
SignedGroupInfo(gc, tree, es, leaf, sig) ==
  [gc |-> gc, tree |-> Clone(tree), es |-> es, sender |-> leaf, signer |-> sig]

VerifySignature(gi) ==
  gi.sender \in Leaves(gi.tree) /\ gi.tree[2 * gi.sender].sig = gi.signer

VerifyTree(gi) ==
  /\ VerifyParentHashes(gi.tree)
  /\ VerifyLeafSignatures(gi.tree)
  /\ RootTreeHash(gi.tree) = gi.gc.tree

(***************************************************************************)
(* welcome_gen.go: what each added member gets, under its init key.        *)
(***************************************************************************)
GroupSecrets(joiner, ps, ids) == [joiner |-> joiner, ps |-> ps, psks |-> ids]
EncryptedGroupSecrets(kp, gs) == [init |-> kp.init, gs |-> gs]

buildWelcome(tree, gc, tag, es, joiner, committer, sig, newlyAdded, addedKPs, pathSecrets, psks) ==
  LET node(i) == commonAncestor(2 * newlyAdded[i], 2 * committer, LeafCount(tree))
      ids     == [i \in DOMAIN psks |-> psks[i].id]
  IN  IF \E i \in DOMAIN newlyAdded : node(i) \notin DOMAIN pathSecrets
      THEN [ok |-> FALSE]
      ELSE [ok  |-> TRUE,
            msg |-> [content |-> "welcome", key |-> WelcomeKeyNonce(joiner, psks), tag |-> tag,
                     gi |-> SignedGroupInfo(gc, tree, es, committer, sig),
                     secrets |-> {EncryptedGroupSecrets(addedKPs[i],
                                    GroupSecrets(joiner, pathSecrets[node(i)], ids)) :
                                    i \in DOMAIN newlyAdded}]]

NoWelcome == [content |-> "none"]

(* The private keys after a path of one's own: the new leaf key and every
   path secret. *)
CommitterPriv(own, s, pathSecrets) ==
  [i \in DOMAIN pathSecrets \cup {2 * own} |->
     IF i = 2 * own THEN <<s, 0>> ELSE pathSecrets[i]]

(***************************************************************************)
(* commit_gen.go: a member's Commit advances the member at once.  refs are *)
(* delivered proposal messages, vals proposals of the committer's own.     *)
(* When the Welcome cannot be built the ratchet generation is spent.       *)
(***************************************************************************)
ProposalList(refs, vals) ==
  [i \in DOMAIN refs |-> ByReference(ProposalRef(refs[i]))] \o [i \in DOMAIN vals |-> ByValue(vals[i])]

(* The framed commit, the Welcome and the committer's next view. *)
FinishCommit(g, s, props, ap, up, gc, tag, w) ==
  IF ~w.ok THEN [ok |-> FALSE, view |-> SpendGeneration(g), welcome |-> NoWelcome]
  ELSE [ok      |-> TRUE,
        msg     |-> Framed(g, WireFormat(g), "commit", g.handshakeGeneration,
                           [s |-> s, props |-> props, path |-> up.path, tag |-> tag]),
        welcome |-> IF ap.newlyAdded = << >> THEN NoWelcome ELSE w.msg,
        view    |-> Advance(g, up.tree, CommitterPriv(g.own, s, up.pathSecrets), gc, s,
                            InterimTranscriptHash(gc.confirmed, s))]

CommitPath(g, s, props, ap) ==
  LET ctx         == GroupContext(g.gc.epoch + 1, NoHash, g.gc.confirmed, ap.ext)
      welcome(up, gc, tag) ==
        buildWelcome(up.tree, gc, tag, s, JoinerSecret(g.init, up.commitSecret, gc), g.own, g.sig,
                     ap.newlyAdded, ap.addedKPs, up.pathSecrets, ap.psks)
      tagged(up, gc, tag) == FinishCommit(g, s, props, ap, up, gc, tag, welcome(up, gc, tag))
      confirm(up, gc) == tagged(up, gc, ConfirmationTag(g.init, up.commitSecret, ap.psks, gc))
      rekey(up)   == confirm(up, GroupContext(g.gc.epoch + 1, RootTreeHash(up.tree),
                                              ConfirmedTranscriptHash(g.interim, s), ap.ext))
  IN  rekey(GenerateUpdatePath(ap.tree, g.own, s, g.sig, Range(ap.newlyAdded), ctx))

Commit(g, s, refs, vals) ==
  LET apply(props, ap) ==
        IF ap.ok /\ g.own \in Leaves(ap.tree)
        THEN CommitPath(g, s, props, ap)
        ELSE [ok |-> FALSE, view |-> g, welcome |-> NoWelcome]
      commit(props) == apply(props, applyProposals(g, Clone(g.tree), Resolved(props, g.own)))
  IN  IF \A i \in DOMAIN refs : Authentic(g, refs[i])
      THEN commit(ProposalList(refs, vals))
      ELSE [ok |-> FALSE, view |-> g, welcome |-> NoWelcome]

(***************************************************************************)
(* join.go: a joiner checks the tree, the signer, its own leaf and the     *)
(* confirmation tag; a resumption PSK or an unknown external one fails.    *)
(***************************************************************************)
(* Mutant: the confirmation tag is left out of the interim hash. *)
JoinedViewNoTag(gi, priv, own, sig, psks, enc) ==
  NewView(gi.tree, priv, own, sig, gi.gc, gi.es, gi.gc.confirmed, psks, enc)

(* The transcript a joiner starts from is rebuilt from the GroupInfo. *)
JoinedView(gi, priv, own, sig, psks, enc) ==
  NewView(gi.tree, priv, own, sig, gi.gc, gi.es, InterimTranscriptHash(gi.gc.confirmed, gi.es),
          psks, enc)

JoinAs(gi, kp, psks, enc, own, ps) ==
  IF own = NoIndex THEN [ok |-> FALSE]
  ELSE [ok   |-> TRUE,
        view |-> JoinedView(gi, installJoinerPriv(NewTreeKEMPrivate(own, kp.leaf.key), ps, own,
                                                  gi.sender, LeafCount(gi.tree)),
                            own, kp.leaf.sig, psks, enc)]

JoinFromWelcome(w, kp, psks, enc) ==
  LET mine == {e \in w.secrets : e.init = kp.init}
      held(ids) == [i \in DOMAIN ids |-> [id |-> ids[i], psk |-> 0]]
      ok(gs) == /\ \A i \in DOMAIN gs.psks : gs.psks[i].kind = "external" /\ gs.psks[i].name \in psks
                /\ w.key = WelcomeKeyNonce(gs.joiner, held(gs.psks))
                /\ VerifyTree(w.gi)
                /\ VerifySignature(w.gi)
                /\ w.tag = EpochSecretsFromJoiner(gs.joiner, held(gs.psks), w.gi.gc)
      join(gs) == IF ok(gs)
                  THEN JoinAs(w.gi, kp, psks, enc, FindLeafByEncryptionKey(w.gi.tree, kp.leaf.key), gs.ps)
                  ELSE [ok |-> FALSE]
  IN  IF mine = {} THEN [ok |-> FALSE] ELSE join((CHOOSE e \in mine : TRUE).gs)

(***************************************************************************)
(* external_join.go and external_commit.go                                 *)
(***************************************************************************)
PublishGroupInfo(g) == SignedGroupInfo(g.gc, g.tree, g.es, g.own, g.sig)

(* The sender of an external commit has no leaf yet. *)
NewMember == NoIndex

(* The joiner's own leaf is in the tree, the path is to be made. *)
ExternalPath(gi, s, sig, enc, props, added) ==
  LET ctx         == GroupContext(gi.gc.epoch + 1, NoHash, gi.gc.confirmed, gi.gc.ext)
      confirmed   == ConfirmedTranscriptHash(InterimTranscriptHash(gi.gc.confirmed, gi.es), s)
      tag(up, gc) == ConfirmationTag(ExternalInitSecret(gi.es, s), up.commitSecret, << >>, gc)
      made(up, gc) ==
        [ok   |-> TRUE,
         msg  |-> [wf |-> "public", content |-> "commit", es |-> gi.es, sender |-> NewMember,
                   signer |-> sig, gen |-> 0,
                   body |-> [s |-> s, props |-> props, path |-> up.path, tag |-> tag(up, gc)]],
         view |-> NewView(up.tree, CommitterPriv(added.leaf, s, up.pathSecrets), added.leaf,
                          sig, gc, s, InterimTranscriptHash(confirmed, s), {}, enc)]
      rekey(up)   == made(up, GroupContext(gi.gc.epoch + 1, RootTreeHash(up.tree), confirmed, gi.gc.ext))
  IN  rekey(GenerateUpdatePath(added.tree, added.leaf, s, sig, {}, ctx))

(* A leaf that already has the joiner's signature key is removed first. *)
ExternalCommit(gi, s, sig, enc) ==
  LET init == ByValue(ExternalInit([to |-> gi.es, s |-> s]))
      leaf == NewKeyPackage(s, sig).leaf
      join(old) == IF old = NoIndex
                   THEN ExternalPath(gi, s, sig, enc, <<init>>, AddLeaf(gi.tree, leaf))
                   ELSE ExternalPath(gi, s, sig, enc, <<init, ByValue(ProposeRemove(old))>>,
                                     AddLeaf(RemoveLeaf(gi.tree, old), leaf))
  IN  IF VerifyTree(gi) THEN join(findLeafBySignatureKey(gi.tree, sig)) ELSE [ok |-> FALSE]

Types(props) == {props[i].prop.type : i \in DOMAIN props}

validateExternalCommit(cm) ==
  /\ \A i \in DOMAIN cm.props : ~cm.props[i].byRef
  /\ Types(cm.props) \subseteq {"external_init", "remove", "psk", "gce"}
  /\ Cardinality({i \in DOMAIN cm.props : cm.props[i].prop.type = "external_init"}) = 1

Failed(g) == [ok |-> FALSE, view |-> g]

(***************************************************************************)
(* What the two ways to process a commit share.  priv is the private state *)
(* the path is opened with, rebuilt what becomes of it when no path secret *)
(* is found; verify asks for the parent hashes of the merged tree.         *)
(***************************************************************************)
(* The key schedule with what the path gave (got), the confirmation tag and
   the rebuilt private keys. *)
ConfirmEpoch(g, cm, tree, sender, gc, got, init, psks, priv, rebuilt) ==
  LET secret == IF got.ps = NoSecret THEN ZeroSecret ELSE got.commitSecret
      keys   == IF got.ps = NoSecret THEN rebuilt
                ELSE installJoinerPriv(NewTreeKEMPrivate(g.own, priv[2 * g.own]), got.ps, g.own,
                                       sender, LeafCount(tree))
  IN  IF ConfirmationTag(init, secret, psks, gc) = cm.tag
      THEN [ok |-> TRUE, view |-> Advance(g, tree, keys, gc, cm.s,
                                          InterimTranscriptHash(gc.confirmed, cm.s))]
      ELSE Failed(g)

(* From the tree t with the sender's leaf in place to the next view.  The path
   is opened under the old transcript hash, the epoch is made with the new. *)
ProcessPath(g, cm, t, sender, ext, init, psks, newlyAdded, priv, rebuilt, verify) ==
  LET confirm(tree, ctx, got) ==
        IF got.ok
        THEN ConfirmEpoch(g, cm, tree, sender,
                          [ctx EXCEPT !.confirmed = ConfirmedTranscriptHash(g.interim, cm.s)],
                          got, init, psks, priv, rebuilt)
        ELSE Failed(g)
      decrypt(tree, ctx) ==
        confirm(tree, ctx, ProcessUpdatePath(t, sender, cm.path, priv, ctx, newlyAdded))
      merge(tree) == IF verify => VerifyParentHashes(tree)
                     THEN decrypt(tree, GroupContext(g.gc.epoch + 1, RootTreeHash(tree),
                                                     g.gc.confirmed, ext))
                     ELSE Failed(g)
  IN  IF CanMerge(t, sender, cm.path) THEN merge(Merge(t, sender, cm.path)) ELSE Failed(g)

(* The joiner's leaf goes where AddLeaf puts it on both sides.  A commit that
   came from outside leaves handshakeGeneration as it was. *)
processExternalCommit(g, m) ==
  LET cm       == m.body
      removes  == OfType(Resolved(cm.props, NewMember), "remove")
      kem      == OfType(Resolved(cm.props, NewMember), "external_init")[1].prop.kem
      cleared  == FoldLeft(LAMBDA t, r : RemoveLeaf(t, r.prop.leaf), Clone(g.tree), removes)
      leafOnly == NewTreeKEMPrivate(g.own, g.priv[2 * g.own])
      keep(r)  == [r EXCEPT !.view.handshakeGeneration = g.handshakeGeneration]
      join(added) ==
        IF LeafSignatureOK(cm.path.leaf, added.leaf)
        THEN keep(ProcessPath(g, cm, added.tree, added.leaf, g.gc.ext,
                              ExternalInitSecret(kem.to, kem.s), << >>, {}, g.priv, leafOnly, TRUE))
        ELSE Failed(g)
      authorized == /\ validateExternalCommit(cm)
                    /\ m.signer = cm.path.leaf.sig
                    /\ m.es = g.es
                    /\ cm.path.leaf.source = "commit"
                    /\ \A r \in Range(removes) : r.prop.leaf \in Leaves(g.tree)
                                              /\ g.tree[2 * r.prop.leaf].sig = m.signer
  IN  IF authorized THEN join(AddLeaf(cleared, cm.path.leaf)) ELSE Failed(g)

(***************************************************************************)
(* process.go: ProcessCommit, for the commits this engine makes, which     *)
(* always carry a path.  It leaves the view alone on every failure.        *)
(***************************************************************************)
ProcessMemberCommit(g, msgs, m) ==
  LET cm == m.body
      follow(ap, working) ==
        ProcessPath(g, cm, ap.tree, m.sender, ap.ext, g.init, ap.psks, Range(ap.newlyAdded),
                    working, working, FALSE)
      apply(ap, own) ==
        IF ~(ap.ok /\ own.ok) THEN Failed(g)
        ELSE follow(ap, IF own.key = NoSecret THEN g.priv ELSE NewTreeKEMPrivate(g.own, own.key))
      resolve(resolved) == apply(applyProposals(g, Clone(g.tree), resolved),
                                 resolveOwnUpdatePriv(g, resolved))
      authentic == /\ \A p \in msgs : Authentic(g, p)
                   /\ Authentic(g, m)
                   /\ Resolvable(cm.props, Cache(msgs))
  IN  IF authentic THEN resolve(Resolved(cm.props, m.sender)) ELSE Failed(g)

(* PeekCommit shows the proposals of a member's commit without applying it. *)
PeekCommit(g, m) ==
  [ok |-> m.sender # NewMember /\ m.content = "commit" /\ Authentic(g, m), cm |-> m.body]

ProcessCommit(g, msgs, m) ==
  IF m.sender = NewMember THEN processExternalCommit(g, m) ELSE ProcessMemberCommit(g, msgs, m)
=============================================================================
