--------------------------- MODULE MLSMembersProofs ---------------------------
(***************************************************************************)
(* Members of an epoch share its key schedule, for groups of any size and  *)
(* any number of commits, lost members and joiners, and whatever the trees *)
(* look like: whoever enters an epoch other than by its own commit has     *)
(* checked a confirmation tag, and the tag names the group context.        *)
(*                                                                         *)
(* The invariant ties a view to the log: log[e] is the commit that opened  *)
(* epoch e, its tag names a context of that epoch, the Welcome beside it   *)
(* agrees with it, and every view in epoch e has the context that tag      *)
(* names, a tree of the hash in it, and the secrets that commit drew.      *)
(* RemovedIsEvicted follows from it, with what the log says of those who   *)
(* take themselves for removed.                                            *)
(***************************************************************************)
EXTENDS MLSMembers, TLAPS

(* Zenon is tried before the SMT solver, which gets more time than its default. *)
USE ZenonT(10), SMTT(30)

(***************************************************************************)
(* What the engine's operations make of a view.                            *)
(***************************************************************************)
IsView(g) == {"tree", "gc", "es", "init", "interim"} \subseteq DOMAIN g

(* The group context that a confirmation tag authenticates. *)
TagContext(tag) == tag[3]

(* h is in the epoch that the commit body cm opens. *)
Opened(cm, h) ==
  /\ IsView(h)
  /\ h.gc = TagContext(cm.tag)
  /\ h.gc.tree = RootTreeHash(h.tree)
  /\ h.es = cm.s
  /\ h.init = InitSecret(cm.s)
  /\ h.interim = InterimTranscriptHash(h.gc.confirmed, cm.s)

(* h differs from g in nothing that the key schedule depends on. *)
SameEpoch(g, h) ==
  /\ IsView(h)
  /\ h.tree = g.tree /\ h.gc = g.gc /\ h.es = g.es /\ h.init = g.init /\ h.interim = g.interim

LEMMA TagNamesContext ==
  ASSUME NEW init, NEW secret, NEW psks, NEW gc
  PROVE  TagContext(ConfirmationTag(init, secret, psks, gc)) = gc
BY DEF TagContext, ConfirmationTag, EpochSecretsFromJoiner

LEMMA Advanced ==
  ASSUME NEW g, IsView(g), NEW tree, NEW priv, NEW gc, NEW es, NEW interim
  PROVE  LET h == Advance(g, tree, priv, gc, es, interim)
         IN  /\ IsView(h) /\ h.tree = tree /\ h.gc = gc /\ h.es = es
             /\ h.init = InitSecret(es) /\ h.interim = interim
BY DEF IsView, Advance

LEMMA NewViewFields ==
  ASSUME NEW tree, NEW priv, NEW own, NEW sig, NEW gc, NEW es, NEW interim, NEW psks, NEW enc
  PROVE  LET h == NewView(tree, priv, own, sig, gc, es, interim, psks, enc)
         IN  /\ IsView(h) /\ h.tree = tree /\ h.gc = gc /\ h.es = es
             /\ h.init = InitSecret(es) /\ h.interim = interim
BY DEF IsView, NewView

LEMMA SpendSame ==
  ASSUME NEW g, IsView(g)
  PROVE  SameEpoch(g, SpendGeneration(g))
BY DEF IsView, SameEpoch, SpendGeneration

LEMMA ProposeUpdateSame ==
  ASSUME NEW g, IsView(g), NEW s
  PROVE  SameEpoch(g, ProposeUpdate(g, s).view)
BY DEF IsView, SameEpoch, ProposeUpdate

LEMMA FrameSame ==
  ASSUME NEW g, IsView(g), NEW prop
  PROVE  SameEpoch(g, FrameProposal(g, prop).view)
BY SpendSame DEF FrameProposal
(* A Welcome that goes with the commit body cm. *)
Matches(w, cm) ==
  w # NoWelcome => /\ w.tag = cm.tag
                   /\ w.gi.gc = TagContext(cm.tag)
                   /\ w.gi.es = cm.s

(* A commit that was made opens the epoch after the one of its base. *)
Opens(c, epoch) ==
  c.ok => /\ Opened(c.msg.body, c.view)
          /\ TagContext(c.msg.body.tag).epoch = epoch
          /\ Matches(c.welcome, c.msg.body)

(* If the Welcome was built, it carries the commit's tag and the new epoch. *)
Carries(w, tag, gc, es) ==
  w.ok => w.msg.tag = tag /\ w.msg.gi.gc = gc /\ w.msg.gi.es = es

LEMMA WelcomeBuilt ==
  ASSUME NEW tree, NEW gc, NEW tag, NEW es, NEW joiner, NEW committer, NEW sig, NEW newlyAdded,
         NEW addedKPs, NEW pathSecrets, NEW psks
  PROVE  Carries(buildWelcome(tree, gc, tag, es, joiner, committer, sig, newlyAdded, addedKPs,
                              pathSecrets, psks), tag, gc, es)
BY DEF Carries, buildWelcome, SignedGroupInfo

LEMMA FinishCommitOpens ==
  ASSUME NEW g, IsView(g), NEW s, NEW ps, NEW ap, NEW up, NEW gc, NEW tag, NEW w, NEW epoch,
         gc.tree = RootTreeHash(up.tree), gc.epoch = epoch, TagContext(tag) = gc,
         Carries(w, tag, gc, s)
  PROVE  Opens(FinishCommit(g, s, ps, ap, up, gc, tag, w), epoch)
<1>1. CASE ~w.ok
  BY <1>1 DEF FinishCommit, Opens
<1>2. CASE w.ok
  <2> DEFINE priv == CommitterPriv(g.own, s, up.pathSecrets)
             interim == InterimTranscriptHash(gc.confirmed, s)
             next == Advance(g, up.tree, priv, gc, s, interim)
             c == FinishCommit(g, s, ps, ap, up, gc, tag, w)
  <2>1. /\ IsView(next) /\ next.tree = up.tree /\ next.gc = gc /\ next.es = s
        /\ next.init = InitSecret(s) /\ next.interim = interim
    BY Advanced
  <2>2. c.view = next /\ c.welcome \in {NoWelcome, w.msg}
    BY <1>2 DEF FinishCommit
  <2>3. c.msg.body.s = s /\ c.msg.body.tag = tag
    BY <1>2 DEF FinishCommit, Framed
  <2> HIDE DEF next, c
  <2>4. Opened(c.msg.body, c.view)
    BY <2>1, <2>2, <2>3 DEF Opened
  <2>5. Opens(c, epoch)
    BY <1>2, <2>2, <2>3, <2>4 DEF Opens, Matches, Carries
  <2>6. QED
    BY <2>5 DEF c
<1>3. QED
  BY <1>1, <1>2

LEMMA NewContext ==
  ASSUME NEW epoch, NEW treeHash, NEW confirmed, NEW ext
  PROVE  LET gc == GroupContext(epoch, treeHash, confirmed, ext)
         IN  gc.epoch = epoch /\ gc.tree = treeHash /\ gc.confirmed = confirmed
BY DEF GroupContext

LEMMA CommitPathOpens ==
  ASSUME NEW g, IsView(g), NEW s, NEW ps, NEW ap
  PROVE  Opens(CommitPath(g, s, ps, ap), g.gc.epoch + 1)
<1>1. ASSUME NEW up, NEW gc, NEW tag,
             gc = GroupContext(g.gc.epoch + 1, RootTreeHash(up.tree),
                               ConfirmedTranscriptHash(g.interim, s), ap.ext),
             tag = ConfirmationTag(g.init, up.commitSecret, ap.psks, gc)
      PROVE  Opens(FinishCommit(g, s, ps, ap, up, gc, tag,
                     buildWelcome(up.tree, gc, tag, s, JoinerSecret(g.init, up.commitSecret, gc),
                                  g.own, g.sig, ap.newlyAdded, ap.addedKPs, up.pathSecrets, ap.psks)),
                   g.gc.epoch + 1)
  <2> DEFINE w == buildWelcome(up.tree, gc, tag, s, JoinerSecret(g.init, up.commitSecret, gc),
                               g.own, g.sig, ap.newlyAdded, ap.addedKPs, up.pathSecrets, ap.psks)
  <2>1. Carries(w, tag, gc, s)
    BY WelcomeBuilt
  <2>2. TagContext(tag) = gc
    BY <1>1, TagNamesContext
  <2>3. gc.tree = RootTreeHash(up.tree) /\ gc.epoch = g.gc.epoch + 1
    BY <1>1, NewContext
  <2> HIDE DEF w
  <2>4. Opens(FinishCommit(g, s, ps, ap, up, gc, tag, w), g.gc.epoch + 1)
    BY <2>1, <2>2, <2>3, FinishCommitOpens
  <2>5. QED
    BY <2>4 DEF w
<1>2. QED
  BY <1>1 DEF CommitPath

LEMMA CommitOpens ==
  ASSUME NEW g, IsView(g), NEW s, NEW refs, NEW vals
  PROVE  Opens(Commit(g, s, refs, vals), g.gc.epoch + 1)
<1>1. ASSUME NEW c, ~c.ok
      PROVE  Opens(c, g.gc.epoch + 1)
  BY <1>1 DEF Opens
<1>2. ~[ok |-> FALSE, view |-> g, welcome |-> NoWelcome].ok
  OBVIOUS
<1>3. QED
  BY <1>1, <1>2, CommitPathOpens DEF Commit
(* A commit that a member processes: it is refused and leaves the epoch as it
   was, or the tag names the context that the member has computed. *)
Follows(g, cm, r) ==
  /\ {"ok", "view"} \subseteq DOMAIN r
  /\ \/ SameEpoch(g, r.view)
     \/ Opened(cm, r.view) /\ TagContext(cm.tag).epoch = g.gc.epoch + 1

LEMMA FailedFollows ==
  ASSUME NEW g, IsView(g), NEW cm
  PROVE  Follows(g, cm, Failed(g))
BY DEF Follows, Failed, SameEpoch

LEMMA ConfirmFollows ==
  ASSUME NEW g, IsView(g), NEW cm, NEW tree, NEW sender, NEW gc, NEW got, NEW init, NEW psks,
         NEW priv, NEW rebuilt, gc.tree = RootTreeHash(tree), gc.epoch = g.gc.epoch + 1
  PROVE  Follows(g, cm, ConfirmEpoch(g, cm, tree, sender, gc, got, init, psks, priv, rebuilt))
<1>1. ASSUME NEW secret, NEW keys, NEW h, ConfirmationTag(init, secret, psks, gc) = cm.tag,
             h = Advance(g, tree, keys, gc, cm.s, InterimTranscriptHash(gc.confirmed, cm.s))
      PROVE  Follows(g, cm, [ok |-> TRUE, view |-> h])
  <2>1. TagContext(cm.tag) = gc
    BY <1>1, TagNamesContext
  <2>2. /\ IsView(h) /\ h.tree = tree /\ h.gc = gc /\ h.es = cm.s
        /\ h.init = InitSecret(cm.s) /\ h.interim = InterimTranscriptHash(gc.confirmed, cm.s)
    BY <1>1, Advanced
  <2>3. Opened(cm, h)
    BY <2>1, <2>2 DEF Opened
  <2>4. QED
    BY <2>1, <2>3 DEF Follows
<1>2. QED
  BY <1>1, FailedFollows DEF ConfirmEpoch

LEMMA ProcessPathFollows ==
  ASSUME NEW g, IsView(g), NEW cm, NEW t, NEW sender, NEW ext, NEW init, NEW psks,
         NEW newlyAdded, NEW priv, NEW rebuilt, NEW verify
  PROVE  Follows(g, cm, ProcessPath(g, cm, t, sender, ext, init, psks, newlyAdded, priv, rebuilt,
                                    verify))
<1>1. ASSUME NEW tree, NEW got, NEW confirmed
      PROVE  Follows(g, cm, ConfirmEpoch(g, cm, tree, sender,
                              [GroupContext(g.gc.epoch + 1, RootTreeHash(tree), g.gc.confirmed, ext)
                                 EXCEPT !.confirmed = confirmed],
                              got, init, psks, priv, rebuilt))
  <2> DEFINE gc == [GroupContext(g.gc.epoch + 1, RootTreeHash(tree), g.gc.confirmed, ext)
                      EXCEPT !.confirmed = confirmed]
  <2>1. gc.tree = RootTreeHash(tree) /\ gc.epoch = g.gc.epoch + 1
    BY DEF GroupContext
  <2> HIDE DEF gc
  <2>2. Follows(g, cm, ConfirmEpoch(g, cm, tree, sender, gc, got, init, psks, priv, rebuilt))
    BY <2>1, ConfirmFollows
  <2>3. QED
    BY <2>2 DEF gc
<1>2. QED
  BY <1>1, FailedFollows DEF ProcessPath

LEMMA MemberCommitFollows ==
  ASSUME NEW g, IsView(g), NEW msgs, NEW m
  PROVE  Follows(g, m.body, ProcessMemberCommit(g, msgs, m))
BY ProcessPathFollows, FailedFollows, ZenonT(30) DEF ProcessMemberCommit

(* Putting the generation back changes nothing else. *)
LEMMA GenerationKept ==
  ASSUME NEW g, NEW cm, NEW r, Follows(g, cm, r), NEW gen
  PROVE  Follows(g, cm, [r EXCEPT !.view.handshakeGeneration = gen])
<1> DEFINE h == [r EXCEPT !.view.handshakeGeneration = gen]
<1>1. {"ok", "view"} \subseteq DOMAIN h /\ h.view = [r.view EXCEPT !.handshakeGeneration = gen]
  BY DEF Follows
<1>2. IsView(r.view)
  BY DEF Follows, Opened, SameEpoch
<1>3. SameEpoch(r.view, h.view)
  BY <1>1, <1>2 DEF IsView, SameEpoch
<1> HIDE DEF h
<1>4. Follows(g, cm, h)
  BY <1>1, <1>3 DEF Follows, Opened, SameEpoch
<1>5. QED
  BY <1>4 DEF h

LEMMA ExternalCommitFollows ==
  ASSUME NEW g, IsView(g), NEW m
  PROVE  Follows(g, m.body, processExternalCommit(g, m))
BY ProcessPathFollows, GenerationKept, FailedFollows, ZenonT(30) DEF processExternalCommit

LEMMA ProcessCommitFollows ==
  ASSUME NEW g, IsView(g), NEW msgs, NEW m
  PROVE  Follows(g, m.body, ProcessCommit(g, msgs, m))
BY MemberCommitFollows, ExternalCommitFollows DEF ProcessCommit

(* A joiner takes the context and the secrets that the Welcome names, and has
   checked the tree. *)
LEMMA WelcomeOpens ==
  ASSUME NEW w, NEW kpkg, NEW psks, NEW enc, NEW cm, w # NoWelcome, Matches(w, cm),
         JoinFromWelcome(w, kpkg, psks, enc).ok
  PROVE  Opened(cm, JoinFromWelcome(w, kpkg, psks, enc).view)
<1>1. PICK priv, own, sig :
        /\ JoinFromWelcome(w, kpkg, psks, enc).view = JoinedView(w.gi, priv, own, sig, psks, enc)
        /\ RootTreeHash(w.gi.tree) = w.gi.gc.tree
  BY DEF JoinFromWelcome, JoinAs, VerifyTree
<1>2. QED
  BY <1>1, NewViewFields DEF JoinedView, Opened, Matches

(* An external joiner makes the context itself. *)
ExternalOpened(c, epoch) ==
  c.ok => Opened(c.msg.body, c.view) /\ TagContext(c.msg.body.tag).epoch = epoch

LEMMA ExternalPathOpens ==
  ASSUME NEW gi, NEW s, NEW sig, NEW enc, NEW list, NEW added
  PROVE  ExternalOpened(ExternalPath(gi, s, sig, enc, list, added), gi.gc.epoch + 1)
<1>1. ASSUME NEW up, NEW confirmed, NEW gc, NEW tag, NEW c,
             gc = GroupContext(gi.gc.epoch + 1, RootTreeHash(up.tree), confirmed, gi.gc.ext),
             TagContext(tag) = gc,
             c.msg.body.s = s, c.msg.body.tag = tag,
             c.view = NewView(up.tree, CommitterPriv(added.leaf, s, up.pathSecrets), added.leaf,
                              sig, gc, s, InterimTranscriptHash(confirmed, s), {}, enc)
      PROVE  ExternalOpened(c, gi.gc.epoch + 1)
  <2>1. gc.epoch = gi.gc.epoch + 1 /\ gc.tree = RootTreeHash(up.tree) /\ gc.confirmed = confirmed
    BY <1>1, NewContext
  <2>2. /\ IsView(c.view) /\ c.view.tree = up.tree /\ c.view.gc = gc /\ c.view.es = s
        /\ c.view.init = InitSecret(s) /\ c.view.interim = InterimTranscriptHash(confirmed, s)
    BY <1>1, NewViewFields
  <2>3. QED
    BY <1>1, <2>1, <2>2 DEF ExternalOpened, Opened
<1>2. ASSUME NEW up, NEW confirmed
      PROVE  LET gc == GroupContext(gi.gc.epoch + 1, RootTreeHash(up.tree), confirmed, gi.gc.ext)
                 tag == ConfirmationTag(ExternalInitSecret(gi.es, s), up.commitSecret, << >>, gc)
             IN  ExternalOpened(
                   [ok   |-> TRUE,
                    msg  |-> [wf |-> "public", content |-> "commit", es |-> gi.es,
                              sender |-> NewMember, signer |-> sig, gen |-> 0,
                              body |-> [s |-> s, props |-> list, path |-> up.path, tag |-> tag]],
                    view |-> NewView(up.tree, CommitterPriv(added.leaf, s, up.pathSecrets),
                                     added.leaf, sig, gc, s, InterimTranscriptHash(confirmed, s),
                                     {}, enc)],
                   gi.gc.epoch + 1)
  BY <1>1, TagNamesContext
<1>3. QED
  BY <1>2 DEF ExternalPath

LEMMA ExternalOpens ==
  ASSUME NEW gi, NEW s, NEW sig, NEW enc
  PROVE  ExternalOpened(ExternalCommit(gi, s, sig, enc), gi.gc.epoch + 1)
<1>1. ExternalOpened([ok |-> FALSE], gi.gc.epoch + 1)
  BY DEF ExternalOpened
<1>2. QED
  BY <1>1, ExternalPathOpens DEF ExternalCommit
(***************************************************************************)
(* The invariant.                                                          *)
(***************************************************************************)
EntryOK(en, k) == TagContext(en.msg.body.tag).epoch = k /\ Matches(en.welcome, en.msg.body)

(* Node n may have the view g when lg is the log. *)
Held(n, g, lg) ==
  /\ IsView(g)
  /\ \/ n = Founder /\ g.gc.epoch = 0
     \/ \E k \in 1 .. Len(lg) : Opened(lg[k].msg.body, g)

LogOK(lg) == (\E T : lg \in Seq(T)) /\ \A k \in 1 .. Len(lg) : EntryOK(lg[k], k)

MInv ==
  /\ DOMAIN view = Nodes
  /\ LogOK(log)
  /\ \A n \in Nodes : Joined(n) => Held(n, view[n], log)

LEMMA MInit == Init => MInv
<1> SUFFICES ASSUME Init PROVE MInv
  OBVIOUS
<1>1. DOMAIN view = Nodes
  BY DEF Init
<1>2. LogOK(<< >>)
  <2>1. << >> \in Seq({}) /\ Len(<< >>) = 0
    OBVIOUS
  <2>2. \A k \in 1 .. 0 : FALSE
    OBVIOUS
  <2>3. QED
    BY <2>1, <2>2 DEF LogOK
<1>3. ASSUME NEW n \in Nodes, Joined(n)
      PROVE  Held(n, view[n], log)
  <2>1. n = Founder /\ view[n] = NewGroup(1, n, n \in Encrypting)
    BY <1>3 DEF Init, Joined
  <2>2. IsView(view[n]) /\ view[n].gc.epoch = 0
    BY <2>1, NewViewFields, NewContext DEF NewGroup
  <2>3. QED
    BY <2>1, <2>2 DEF Held
<1>4. QED
  BY <1>1, <1>2, <1>3 DEF Init, MInv

(* A node gets another view, the log stays. *)
LEMMA ViewChanged ==
  ASSUME MInv, NEW n \in Nodes, NEW h, view' = [view EXCEPT ![n] = h], log' = log,
         Held(n, h, log)
  PROVE  MInv'
<1>1. DOMAIN view' = Nodes /\ view'[n] = h /\ \A m \in Nodes : m # n => view'[m] = view[m]
  BY DEF MInv
<1>2. \A m \in Nodes : Joined(m)' => Held(m, view'[m], log')
  BY <1>1 DEF MInv, Joined
<1>3. QED
  BY <1>1, <1>2 DEF MInv, LogOK

LEMMA HeldSame ==
  ASSUME NEW n, NEW g, NEW lg, Held(n, g, lg), NEW h, SameEpoch(g, h)
  PROVE  Held(n, h, lg)
BY DEF Held, SameEpoch, Opened

(* One decided commit more. *)
LEMMA LogGrows ==
  ASSUME NEW lg, LogOK(lg), NEW en, EntryOK(en, Len(lg) + 1)
  PROVE  /\ LogOK(Append(lg, en))
         /\ Len(Append(lg, en)) = Len(lg) + 1 /\ Len(lg) \in Nat
         /\ Append(lg, en)[Len(lg) + 1] = en
         /\ \A k \in 1 .. Len(lg) : Append(lg, en)[k] = lg[k]
<1> PICK T : lg \in Seq(T)
  BY DEF LogOK
<1> DEFINE S == T \cup {en}
<1>1. lg \in Seq(S) /\ en \in S
  OBVIOUS
<1> HIDE DEF S
<1>2. /\ Append(lg, en) \in Seq(S) /\ Len(Append(lg, en)) = Len(lg) + 1 /\ Len(lg) \in Nat
      /\ Append(lg, en)[Len(lg) + 1] = en
      /\ \A k \in 1 .. Len(lg) : Append(lg, en)[k] = lg[k]
  BY <1>1
<1> PICK q : q = Append(lg, en)
  BY Zenon
<1>3. \A k \in 1 .. Len(q) : k = Len(lg) + 1 \/ k \in 1 .. Len(lg)
  BY <1>2
<1>4. \A k \in 1 .. Len(q) : EntryOK(q[k], k)
  BY <1>2, <1>3 DEF LogOK
<1>5. LogOK(q)
  BY <1>2, <1>4 DEF LogOK
<1>6. QED
  BY <1>2, <1>5

LEMMA Decided ==
  ASSUME MInv, NEW n \in Nodes, NEW c, NEW msgs, NEW welcome, Decide(n, c, msgs, welcome),
         Opened(c.msg.body, c.view), TagContext(c.msg.body.tag).epoch = Len(log) + 1,
         Matches(welcome, c.msg.body)
  PROVE  MInv'
<1> DEFINE en == Entry(c.msg, msgs, welcome)
<1>1. en.msg = c.msg /\ en.welcome = welcome
  BY DEF Entry
<1>2. log' = Append(log, en) /\ view' = [view EXCEPT ![n] = c.view]
  BY DEF Decide
<1> HIDE DEF en
<1>3. LogOK(log) /\ EntryOK(en, Len(log) + 1)
  BY <1>1 DEF MInv, EntryOK
<1>4. /\ LogOK(log') /\ Len(log') = Len(log) + 1 /\ Len(log) \in Nat
      /\ log'[Len(log) + 1] = en
      /\ \A k \in 1 .. Len(log) : log'[k] = log[k]
  BY <1>2, <1>3, LogGrows
<1>5. DOMAIN view' = Nodes /\ view'[n] = c.view /\ \A m \in Nodes : m # n => view'[m] = view[m]
  BY <1>2 DEF MInv
<1>6. Held(n, c.view, log')
  <2>1. Len(log) + 1 \in 1 .. Len(log') /\ Opened(log'[Len(log) + 1].msg.body, c.view)
    BY <1>1, <1>4
  <2>2. IsView(c.view)
    BY DEF Opened
  <2>3. QED
    BY <2>1, <2>2 DEF Held
<1>7. ASSUME NEW m \in Nodes, m # n, Joined(m)'
      PROVE  Held(m, view'[m], log')
  <2>1. Held(m, view[m], log) /\ view'[m] = view[m]
    BY <1>5, <1>7 DEF MInv, Joined
  <2>2. \A k \in 1 .. Len(log) : k \in 1 .. Len(log')
    BY <1>4
  <2>3. QED
    BY <1>4, <2>1, <2>2 DEF Held
<1>8. QED
  BY <1>4, <1>5, <1>6, <1>7 DEF MInv
(***************************************************************************)
(* The actions.                                                            *)
(***************************************************************************)
LEMMA AtHeadHeld ==
  ASSUME MInv, NEW n \in Nodes, AtHead(n)
  PROVE  IsView(view[n]) /\ Held(n, view[n], log) /\ view[n].gc.epoch = Len(log)
BY DEF MInv, AtHead, Held

LEMMA ProposeStep ==
  ASSUME MInv, NEW n \in Nodes, CanPropose(n), NEW prop, NEW g, SameEpoch(view[n], g),
         Propose(n, prop, g)
  PROVE  MInv'
<1>1. Held(n, view[n], log)
  BY AtHeadHeld DEF CanPropose, CanAct
<1>2. SameEpoch(g, FrameProposal(g, prop).view)
  BY FrameSame DEF SameEpoch
<1>3. Held(n, FrameProposal(g, prop).view, log)
  BY <1>1, <1>2, HeldSame
<1>4. QED
  BY <1>3, ViewChanged DEF Propose

LEMMA SendStep ==
  ASSUME MInv, NEW n \in Nodes,
         \/ SendUpdate(n)
         \/ \E l : SendRemove(n, l)
         \/ \E j \in Nodes : SendAdd(n, j)
  PROVE  MInv'
<1>0. CanPropose(n)
  BY DEF SendUpdate, SendRemove, SendAdd
<1>1. IsView(view[n]) /\ SameEpoch(view[n], view[n])
  BY <1>0, AtHeadHeld DEF CanPropose, CanAct, SameEpoch
<1>2. CASE SendUpdate(n)
  <2>1. SameEpoch(view[n], ProposeUpdate(view[n], draw).view)
    BY <1>1, ProposeUpdateSame
  <2>2. QED
    BY <1>0, <1>2, <2>1, ProposeStep DEF SendUpdate
<1>3. CASE \E l : SendRemove(n, l)
  BY <1>0, <1>1, <1>3, ProposeStep DEF SendRemove
<1>4. CASE \E j \in Nodes : SendAdd(n, j)
  BY <1>0, <1>1, <1>4, ProposeStep DEF SendAdd
<1>5. QED
  BY <1>2, <1>3, <1>4

LEMMA CommitStep ==
  ASSUME MInv, NEW n \in Nodes, NEW refs, NEW plan, CommitAction(n, refs, plan)
  PROVE  MInv'
<1>1. AtHead(n)
  BY DEF CommitAction, CanAct
<1>2. PICK gone, js, further : CommitChanges(n, refs, gone, js, further)
  BY DEF CommitAction
<1>3. PICK vals : LET c == Commit(view[n], draw, refs, vals)
                  IN  c.ok /\ Decide(n, c, Range(refs), c.welcome)
  BY <1>2 DEF CommitChanges
<1> DEFINE c == Commit(view[n], draw, refs, vals)
<1>4. Opens(c, view[n].gc.epoch + 1)
  BY <1>1, AtHeadHeld, CommitOpens
<1>5. c.ok /\ Decide(n, c, Range(refs), c.welcome)
  BY <1>3
<1> HIDE DEF c
<1>6. /\ Opened(c.msg.body, c.view)
      /\ TagContext(c.msg.body.tag).epoch = Len(log) + 1
      /\ Matches(c.welcome, c.msg.body)
  BY <1>1, <1>4, <1>5, AtHeadHeld DEF Opens
<1>7. QED
  BY <1>5, <1>6, Decided

LEMMA ExternalJoinStep ==
  ASSUME MInv, NEW n \in Nodes, NEW m \in Nodes, ExternalJoin(n, m)
  PROVE  MInv'
<1> DEFINE gi == PublishGroupInfo(view[m])
           c == ExternalCommit(gi, draw, n, n \in Encrypting)
<1>1. AtHead(m)
  BY DEF ExternalJoin, CanAct
<1>2. gi.gc.epoch = Len(log)
  BY <1>1, AtHeadHeld DEF PublishGroupInfo, SignedGroupInfo
<1>3. ExternalOpened(c, gi.gc.epoch + 1)
  BY ExternalOpens
<1>4. (c.ok /\ Decide(n, c, {}, NoWelcome)) \/ UNCHANGED <<view, log>>
  BY DEF ExternalJoin
<1> HIDE DEF c, gi
<1>5. CASE c.ok /\ Decide(n, c, {}, NoWelcome)
  BY <1>2, <1>3, <1>5, Decided DEF ExternalOpened, Matches
<1>6. CASE UNCHANGED <<view, log>>
  BY <1>6 DEF MInv, Joined
<1>7. QED
  BY <1>4, <1>5, <1>6

LEMMA ProcessStep ==
  ASSUME MInv, NEW n \in Nodes, Process(n)
  PROVE  MInv'
<1> DEFINE m == NextEntry(n).msg
           p == ProcessCommit(view[n], NextEntry(n).msgs, m)
<1>1. Joined(n) /\ ~AtHead(n) /\ log' = log
  BY DEF Process
<1>2. view' = view \/ view' = [view EXCEPT ![n] = p.view]
  BY DEF Process
<1>3. Held(n, view[n], log) /\ IsView(view[n])
  BY <1>1 DEF MInv, Held
<1>4. Follows(view[n], m.body, p)
  BY <1>3, ProcessCommitFollows
<1>5. CASE view' = view
  BY <1>1, <1>5 DEF MInv, Joined
<1>6. CASE view' = [view EXCEPT ![n] = p.view]
  <2>1. PICK k \in Nat : k = view[n].gc.epoch /\ k <= Len(log) /\ Len(log) \in Nat
    BY <1>3 DEF Held, MInv, LogOK, EntryOK, Opened
  <2>2. k + 1 \in 1 .. Len(log)
    BY <1>1, <2>1 DEF AtHead
  <2>3. m = log[k + 1].msg
    BY <2>1 DEF NextEntry
  <2> HIDE DEF m, p
  <2>4. CASE SameEpoch(view[n], p.view)
    BY <1>1, <1>3, <1>6, <2>4, HeldSame, ViewChanged
  <2>5. CASE Opened(m.body, p.view)
    <3>1. IsView(p.view)
      BY <2>5 DEF Opened
    <3>2. Held(n, p.view, log)
      BY <2>2, <2>3, <2>5, <3>1 DEF Held
    <3>3. QED
      BY <1>1, <1>6, <3>2, ViewChanged
  <2>6. QED
    BY <1>4, <2>4, <2>5 DEF Follows
<1>7. QED
  BY <1>2, <1>5, <1>6

LEMMA JoinStep ==
  ASSUME MInv, NEW n \in Nodes, NEW e \in DOMAIN log, Join(n, e)
  PROVE  MInv'
<1> DEFINE w == log[e].welcome
           r == JoinFromWelcome(w, kp[n], PSKsOf(n), n \in Encrypting)
<1>1. /\ w # NoWelcome /\ log' = log
      /\ (r.ok /\ view' = [view EXCEPT ![n] = r.view]) \/ view' = view
  BY DEF Join, Addressed
<1>2. e \in 1 .. Len(log)
  BY DEF MInv, LogOK
<1>3. Matches(w, log[e].msg.body)
  BY <1>2 DEF MInv, LogOK, EntryOK
<1>4. r.ok => Opened(log[e].msg.body, r.view)
  BY <1>1, <1>3, WelcomeOpens
<1> HIDE DEF w, r
<1>5. CASE r.ok /\ view' = [view EXCEPT ![n] = r.view]
  <2>1. Held(n, r.view, log)
    BY <1>2, <1>4, <1>5 DEF Held, Opened
  <2>2. QED
    BY <1>1, <1>5, <2>1, ViewChanged
<1>6. CASE view' = view
  BY <1>1, <1>6 DEF MInv, Joined
<1>7. QED
  BY <1>1, <1>5, <1>6

LEMMA MNext ==
  ASSUME MInv, [Next]_vars
  PROVE  MInv'
<1>1. CASE UNCHANGED vars
  BY <1>1 DEF vars, MInv, Joined
<1>2. CASE Next
  BY <1>2, ProcessStep, JoinStep, CommitStep, SendStep, ExternalJoinStep DEF Next
<1>3. QED
  BY <1>1, <1>2

(* In every group, however large and whatever has become of its tree, members
   that are in the same epoch have the same group context, epoch secrets and
   transcript hash and trees of the same hash, whichever of Commit,
   ProcessCommit, JoinFromWelcome and ExternalCommit brought them there. *)
THEOREM MembersSchedulesAgree == Spec => []SchedulesAgree
<1>1. MInv => SchedulesAgree
  <2> SUFFICES ASSUME MInv, NEW n \in Nodes, NEW m \in Nodes, Joined(n), Joined(m),
                      view[n].gc.epoch = view[m].gc.epoch, n # m
               PROVE  /\ \A f \in {"gc", "es", "init", "interim"} : view[n][f] = view[m][f]
                      /\ RootTreeHash(view[n].tree) = RootTreeHash(view[m].tree)
    BY DEF SchedulesAgree
  <2>1. Held(n, view[n], log) /\ Held(m, view[m], log)
    BY DEF MInv
  <2>2. \A k \in 1 .. Len(log) : \A g : Opened(log[k].msg.body, g) => g.gc.epoch = k
    BY DEF MInv, LogOK, EntryOK, Opened
  <2>3. PICK k \in 1 .. Len(log) : Opened(log[k].msg.body, view[n]) /\ Opened(log[k].msg.body, view[m])
    BY <2>1, <2>2 DEF Held
  <2>4. QED
    BY <2>3 DEF Opened
<1>2. QED
  BY <1>1, MInit, MNext, PTL DEF Spec
(***************************************************************************)
(* Whoever takes itself for removed stays before the commit that evicts    *)
(* it: it neither processes nor sends, and the log only grows.             *)
(***************************************************************************)
(* The commit after node n's epoch removes it by value. *)
OutBy(n) ==
  /\ Joined(n)
  /\ view[n].gc.epoch + 1 \in 1 .. Len(log)
  /\ ByValue(ProposeRemove(view[n].own)) \in Range(NextEntry(n).msg.body.props)

RInv ==
  /\ DOMAIN result = Nodes
  /\ \A n \in Nodes : result[n] = "removed" => OutBy(n)

(* A member that reported its removal is behind the decided commits, and the
   next of them is one that evicts it: commitRemovesSelf never makes a member
   leave that the group keeps. *)
RemovedIsEvicted ==
  \A n \in Nodes : result[n] = "removed" => Joined(n) /\ ~AtHead(n) /\ Evicted(n)

LEMMA OutByEvicted ==
  ASSUME MInv, NEW n \in Nodes, OutBy(n)
  PROVE  Joined(n) /\ ~AtHead(n) /\ Evicted(n)
<1> DEFINE ps == NextEntry(n).msg.body.props
           rm == ProposeRemove(view[n].own)
<1>1. PICK i \in DOMAIN ps : ps[i] = ByValue(rm)
  BY DEF OutBy, Range
<1>2. ~ps[i].byRef /\ ps[i].prop = rm
  BY <1>1 DEF ByValue
<1>3. rm.type = "remove" /\ rm.leaf = view[n].own
  BY DEF ProposeRemove
<1>4. PICK r : r = [prop |-> ps[i].prop, sender |-> NextEntry(n).msg.sender]
  OBVIOUS
<1>5. r \in NextProposals(n)
  BY <1>2, <1>4 DEF NextProposals, Range, Resolved
<1>6. r.prop.type = "remove" /\ r.prop.leaf = view[n].own
  BY <1>2, <1>3, <1>4
<1>7. Evicted(n)
  BY <1>5, <1>6 DEF Evicted
<1>8. view[n].gc.epoch # Len(log)
  <2>1. Len(log) \in Nat
    BY DEF MInv, LogOK
  <2>2. \A k : k + 1 \in 1 .. Len(log) => k # Len(log)
    BY <2>1
  <2>3. QED
    BY <2>2 DEF OutBy
<1>9. QED
  BY <1>7, <1>8 DEF OutBy, AtHead

(* The log that a step leaves begins with the one it found. *)
LogKept ==
  Len(log) \in Nat /\ Len(log') \in Nat /\ Len(log) <= Len(log')
    /\ \A k \in 1 .. Len(log) : log'[k] = log[k]

(* A step that concerns node n alone. *)
LEMMA OthersOut ==
  ASSUME RInv, LogKept, NEW n \in Nodes, DOMAIN result' = Nodes,
         \A m \in Nodes : m # n => view'[m] = view[m] /\ result'[m] = result[m],
         result'[n] = "removed" => OutBy(n)'
  PROVE  RInv'
<1> SUFFICES ASSUME NEW m \in Nodes, result'[m] = "removed", m # n
             PROVE  OutBy(m)'
  BY DEF RInv
<1>1. OutBy(m) /\ view'[m] = view[m]
  BY DEF RInv
<1>2. PICK k : k = view[m].gc.epoch + 1
  OBVIOUS
<1>3. k \in 1 .. Len(log) /\ k \in 1 .. Len(log') /\ log'[k] = log[k]
  BY <1>1, <1>2 DEF OutBy, LogKept
<1>4. QED
  BY <1>1, <1>2, <1>3 DEF OutBy, Joined, NextEntry

(* A member that has caught up has reported nothing. *)
LEMMA HeadNotRemoved ==
  ASSUME MInv, RInv, NEW n \in Nodes, AtHead(n)
  PROVE  result[n] # "removed"
BY OutByEvicted DEF RInv

LEMMA SameLog ==
  ASSUME MInv, log' = log
  PROVE  LogKept
BY DEF LogKept, MInv, LogOK

LEMMA DecideOut ==
  ASSUME MInv, RInv, NEW n \in Nodes, NEW c, NEW msgs, NEW welcome, Decide(n, c, msgs, welcome)
  PROVE  RInv'
<1>1. PICK T : log \in Seq(T)
  BY DEF MInv, LogOK
<1>2. PICK en : log' = Append(log, en)
  BY DEF Decide
<1>3. log \in Seq(T \cup {en}) /\ en \in T \cup {en}
  BY <1>1
<1>4. LogKept
  BY <1>2, <1>3 DEF LogKept
<1>5. /\ view' = [view EXCEPT ![n] = c.view]
      /\ result' = [result EXCEPT ![n] = "ok"]
  BY DEF Decide
<1>6. /\ DOMAIN result' = Nodes /\ result'[n] # "removed"
      /\ \A m \in Nodes : m # n => view'[m] = view[m] /\ result'[m] = result[m]
  BY <1>5 DEF RInv, MInv
<1>7. QED
  BY <1>4, <1>6, OthersOut

LEMMA ProposeOut ==
  ASSUME MInv, RInv, NEW n \in Nodes, CanPropose(n), NEW prop, NEW g, Propose(n, prop, g)
  PROVE  RInv'
<1>1. result[n] # "removed"
  BY HeadNotRemoved DEF CanPropose, CanAct
<1>2. view' = [view EXCEPT ![n] = FrameProposal(g, prop).view] /\ log' = log /\ result' = result
  BY DEF Propose
<1>3. \A m \in Nodes : m # n => view'[m] = view[m]
  BY <1>2 DEF MInv
<1>4. QED
  BY <1>1, <1>2, <1>3, SameLog, OthersOut DEF RInv

LEMMA ProcessOut ==
  ASSUME MInv, RInv, NEW n \in Nodes, Process(n)
  PROVE  RInv'
<1>1. Joined(n) /\ ~AtHead(n) /\ log' = log
  BY DEF Process
<1> DEFINE p == ProcessCommit(view[n], NextEntry(n).msgs, NextEntry(n).msg)
<1>2. \/ /\ commitRemovesSelf(view[n], NextEntry(n).msg)
         /\ view' = view /\ result' = [result EXCEPT ![n] = "removed"]
      \/ /\ view' = [view EXCEPT ![n] = p.view]
         /\ result' = [result EXCEPT ![n] = IF p.ok THEN "ok" ELSE "commit refused"]
  BY DEF Process
<1> HIDE DEF p
<1>3. /\ DOMAIN result' = Nodes
      /\ \A m \in Nodes : m # n => view'[m] = view[m] /\ result'[m] = result[m]
  BY <1>2 DEF RInv, MInv
<1>4. ASSUME result'[n] = "removed"
      PROVE  OutBy(n)'
  <2>1. view' = view /\ commitRemovesSelf(view[n], NextEntry(n).msg)
    BY <1>2, <1>4 DEF RInv
  <2>2. ByValue(ProposeRemove(view[n].own)) \in Range(NextEntry(n).msg.body.props)
    BY <2>1 DEF commitRemovesSelf, PeekCommit
  <2>3. PICK k \in Nat : k = view[n].gc.epoch /\ k <= Len(log) /\ Len(log) \in Nat
    BY <1>1 DEF Held, MInv, LogOK, EntryOK, Opened
  <2>4. k + 1 \in 1 .. Len(log)
    BY <1>1, <2>3 DEF AtHead
  <2>5. QED
    BY <1>1, <2>1, <2>2, <2>3, <2>4 DEF OutBy, Joined, NextEntry
<1>5. QED
  BY <1>1, <1>3, <1>4, SameLog, OthersOut

LEMMA JoinOut ==
  ASSUME MInv, RInv, NEW n \in Nodes, NEW e, Join(n, e)
  PROVE  RInv'
<1>1. PICK g, v : /\ view' \in {view, [view EXCEPT ![n] = g]} /\ log' = log
                  /\ result' = [result EXCEPT ![n] = v] /\ v # "removed"
  BY DEF Join
<1>2. /\ DOMAIN result' = Nodes /\ result'[n] # "removed"
      /\ \A m \in Nodes : m # n => view'[m] = view[m] /\ result'[m] = result[m]
  BY <1>1 DEF RInv, MInv
<1>3. QED
  BY <1>1, <1>2, SameLog, OthersOut

LEMMA ExternalJoinOut ==
  ASSUME MInv, RInv, NEW n \in Nodes, NEW m \in Nodes, ExternalJoin(n, m)
  PROVE  RInv'
<1>1. \/ \E c : Decide(n, c, {}, NoWelcome)
      \/ result' = [result EXCEPT ![n] = "info refused"] /\ UNCHANGED <<view, log>>
  BY DEF ExternalJoin
<1>2. CASE result' = [result EXCEPT ![n] = "info refused"] /\ UNCHANGED <<view, log>>
  <2>1. DOMAIN result' = Nodes /\ result'[n] # "removed" /\ \A k \in Nodes : k # n => result'[k] = result[k]
    BY <1>2 DEF RInv
  <2>2. QED
    BY <1>2, <2>1, SameLog, OthersOut
<1>3. QED
  BY <1>1, <1>2, DecideOut

LEMMA RNext ==
  ASSUME MInv, RInv, [Next]_vars
  PROVE  RInv'
<1>1. CASE UNCHANGED vars
  BY <1>1 DEF vars, RInv, OutBy, Joined, NextEntry
<1>2. ASSUME NEW n \in Nodes, SendUpdate(n) \/ (\E l : SendRemove(n, l)) \/ (\E j \in Nodes : SendAdd(n, j))
      PROVE  RInv'
  BY <1>2, ProposeOut DEF SendUpdate, SendRemove, SendAdd
<1>3. ASSUME NEW n \in Nodes, NEW refs, NEW plan, CommitAction(n, refs, plan)
      PROVE  RInv'
  <2>1. PICK c, msgs, welcome : Decide(n, c, msgs, welcome)
    BY <1>3 DEF CommitAction, CommitChanges
  <2>2. QED
    BY <2>1, DecideOut
<1>4. CASE Next
  BY <1>2, <1>3, <1>4, ProcessOut, JoinOut, ExternalJoinOut DEF Next
<1>5. QED
  BY <1>1, <1>4

(* A member never takes itself for removed by mistake, nor later than it may:
   in every group, the commit that follows its epoch removes its leaf. *)
THEOREM MembersRemovedIsEvicted == Spec => []RemovedIsEvicted
<1>1. Init => MInv /\ RInv
  BY MInit DEF Init, RInv
<1>2. MInv /\ RInv /\ [Next]_vars => MInv' /\ RInv'
  BY MNext, RNext
<1>3. MInv /\ RInv => RemovedIsEvicted
  BY OutByEvicted DEF RInv, RemovedIsEvicted
<1>4. QED
  BY <1>1, <1>2, <1>3, PTL DEF Spec
==============================================================================
