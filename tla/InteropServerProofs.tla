------------------------- MODULE InteropServerProofs -------------------------
(***************************************************************************)
(* Proofs about the interop server's tables, for every bound and whatever  *)
(* the engine answers.  IdsAllocated is inductive as it stands;            *)
(* PendingIsOwn is so together with the shape of the entries, and rests on *)
(* what each operation of the engine leaves of a view.  ClientNonceUnique  *)
(* and EpochsAgree come last, with an invariant of their own.              *)
(***************************************************************************)
EXTENDS InteropServer, TLAPS

(* Zenon is tried before the SMT solver, which gets more time than its default. *)
USE ZenonT(10), SMTT(30)

NewIdsOnly ==
  \A id \in (DOMAIN states' \cup DOMAIN txns') \ (DOMAIN states \cup DOMAIN txns) :
    nextID <= id /\ id < nextID'

(* A call that enters nothing into the tables. *)
LEMMA NothingNew ==
  ASSUME IdsAllocated, nextID' = nextID,
         DOMAIN states' \subseteq DOMAIN states, DOMAIN txns' \subseteq DOMAIN txns
  PROVE  IdsAllocated' /\ NewIdsOnly
BY DEF IdsAllocated, NewIdsOnly

(* The next id is in neither table, and the one after it is larger. *)
LEMMA NextIdFree ==
  ASSUME IdsAllocated
  PROVE  /\ nextID + 1 \in Nat \ {0}
         /\ nextID \notin DOMAIN states \cup DOMAIN txns
         /\ DOMAIN states \cup DOMAIN txns \cup {nextID} \subseteq 1 .. (nextID + 1) - 1
         /\ nextID <= nextID /\ nextID < nextID + 1
BY DEF IdsAllocated

(* A call that allocates an id for a client, which may use up a key package. *)
LEMMA NewClient ==
  ASSUME IdsAllocated, nextID' = nextID + 1,
         DOMAIN states' = DOMAIN states \cup {nextID}, DOMAIN txns' \subseteq DOMAIN txns
  PROVE  IdsAllocated' /\ NewIdsOnly
<1>1. IdsAllocated'
  BY NextIdFree DEF IdsAllocated
<1>2. NewIdsOnly
  BY NextIdFree DEF NewIdsOnly
<1>3. QED
  BY <1>1, <1>2

(* A call that allocates an id for a key package. *)
LEMMA NewTransaction ==
  ASSUME IdsAllocated, nextID' = nextID + 1,
         DOMAIN states' = DOMAIN states, DOMAIN txns' = DOMAIN txns \cup {nextID}
  PROVE  IdsAllocated' /\ NewIdsOnly
<1>1. IdsAllocated'
  BY NextIdFree DEF IdsAllocated
<1>2. NewIdsOnly
  BY NextIdFree DEF NewIdsOnly
<1>3. QED
  BY <1>1, <1>2

(* Calls about a client that exists keep the tables' ids. *)
LEMMA ClientCalls ==
  ASSUME NEW id \in DOMAIN states,
         \/ UpdateProposal(id) \/ HandlePendingCommit(id) \/ Protect(id) \/ GroupInfo(id)
         \/ \E m \in Messages("key_package") : AddProposal(id, m.kp)
         \/ \E i \in Identities : RemoveProposal(id, i)
         \/ \E refs \in References, vals \in Values(id) : CommitPending(id, refs, vals)
         \/ \E ps \in SUBSET Messages("proposal"), m \in Messages("commit") : HandleCommit(id, ps, m)
  PROVE  nextID' = nextID /\ DOMAIN states' = DOMAIN states /\ DOMAIN txns' = DOMAIN txns
<1>1. CASE UpdateProposal(id)
  BY <1>1 DEF UpdateProposal, Frame, SetGroup
<1>2. CASE HandlePendingCommit(id)
  BY <1>2 DEF HandlePendingCommit
<1>3. CASE Protect(id)
  BY <1>3 DEF Protect, SetGroup
<1>4. CASE GroupInfo(id)
  BY <1>4 DEF GroupInfo
<1>5. CASE \E m \in Messages("key_package") : AddProposal(id, m.kp)
  BY <1>5 DEF AddProposal, Frame, SetGroup
<1>6. CASE \E i \in Identities : RemoveProposal(id, i)
  BY <1>6 DEF RemoveProposal, Frame, SetGroup
<1>7. CASE \E refs \in References, vals \in Values(id) : CommitPending(id, refs, vals)
  BY <1>7 DEF CommitPending, SetGroup
<1>8. CASE \E ps \in SUBSET Messages("proposal"), m \in Messages("commit") : HandleCommit(id, ps, m)
  BY <1>8 DEF HandleCommit, SetGroup
<1>9. QED
  BY <1>1, <1>2, <1>3, <1>4, <1>5, <1>6, <1>7, <1>8

LEMMA StepIds ==
  ASSUME IdsAllocated, Next
  PROVE  IdsAllocated' /\ NewIdsOnly
<1>1. ASSUME NEW i \in Identities, CreateKeyPackage(i)
      PROVE  IdsAllocated' /\ NewIdsOnly
  BY <1>1, NewTransaction DEF CreateKeyPackage, Allocated, Insert, alloc
<1>2. ASSUME NEW i \in Identities, NEW enc \in EncryptHandshake, CreateGroup(i, enc)
      PROVE  IdsAllocated' /\ NewIdsOnly
  BY <1>2, NewClient DEF CreateGroup, NewState, Allocated, Insert, alloc
<1>3. ASSUME NEW i \in Identities, NEW enc \in EncryptHandshake,
             NEW m \in Messages("group_info"), ExternalJoin(i, m, enc)
      PROVE  IdsAllocated' /\ NewIdsOnly
  BY <1>3, NewClient DEF ExternalJoin, NewState, Allocated, Insert, alloc
<1>4. ASSUME NEW id \in DOMAIN txns, NEW m \in Messages("welcome"), NEW enc \in EncryptHandshake,
             JoinGroup(id, m, enc)
      PROVE  IdsAllocated' /\ NewIdsOnly
  BY <1>4, NewClient DEF JoinGroup, NewState, Allocated, Insert, alloc, Consumed, Without
<1>5. ASSUME NEW id \in DOMAIN states, Free(id)
      PROVE  IdsAllocated' /\ NewIdsOnly
  BY <1>5, NothingNew DEF Free, Without
<1>6. QED
  BY <1>1, <1>2, <1>3, <1>4, <1>5, ClientCalls, NothingNew DEF Next

LEMMA InitIds == Init => IdsAllocated
BY DEF Init, IdsAllocated

(* The tables of clients and of key packages never share an id, and every id
   in them was handed out by alloc. *)
THEOREM InteropIdsAllocated == Spec => []IdsAllocated
<1>1. IdsAllocated /\ [Next]_vars => IdsAllocated'
  BY StepIds DEF IdsAllocated, vars
<1>2. QED
  BY InitIds, <1>1, PTL DEF Spec

(* No call, Free included, brings an id back: what enters the tables has an id
   that was never handed out before. *)
THEOREM InteropIdsFresh == Spec => IdsFresh
<1>1. IdsAllocated /\ [Next]_vars =>
        [\A id \in (DOMAIN states' \cup DOMAIN txns') \ (DOMAIN states \cup DOMAIN txns) :
           nextID <= id /\ id < nextID']_vars
  BY StepIds DEF NewIdsOnly, vars
<1>2. QED
  BY InteropIdsAllocated, <1>1, PTL DEF Spec, IdsFresh
(***************************************************************************)
(* What the engine's operations leave of a view: the signature key always, *)
(* and the secrets of the epoch they open where they open one.  A view is  *)
(* known to be a record with these two fields, nothing else about it is    *)
(* needed.                                                                 *)
(***************************************************************************)
IsView(g) == {"sig", "es"} \subseteq DOMAIN g

(* h is a view of the client that g is a view of. *)
SameClient(g, h) == IsView(h) /\ h.sig = g.sig

LEMMA AdvanceSame ==
  ASSUME NEW g, IsView(g), NEW tree, NEW priv, NEW gc, NEW es, NEW interim
  PROVE  /\ SameClient(g, Advance(g, tree, priv, gc, es, interim))
         /\ Advance(g, tree, priv, gc, es, interim).es = es
BY DEF IsView, SameClient, Advance

LEMMA SpendSame ==
  ASSUME NEW g, IsView(g)
  PROVE  SameClient(g, SpendGeneration(g))
BY DEF IsView, SameClient, SpendGeneration

LEMMA ProposeUpdateSame ==
  ASSUME NEW g, IsView(g), NEW s
  PROVE  SameClient(g, ProposeUpdate(g, s).view)
BY DEF IsView, SameClient, ProposeUpdate

LEMMA FrameSame ==
  ASSUME NEW g, IsView(g), NEW prop
  PROVE  SameClient(g, FrameProposal(g, prop).view)
BY SpendSame DEF FrameProposal

LEMMA ProtectSame ==
  ASSUME NEW g, IsView(g), NEW data
  PROVE  SameClient(g, ProtectApplication(g, data).view)
BY DEF IsView, SameClient, ProtectApplication

(* A commit that is made carries the draw that names the epoch it opens, and
   its maker's signature key; whether it is made or not, its maker remains. *)
OwnCommit(g, s, c) ==
  /\ SameClient(g, c.view)
  /\ c.ok => /\ c.msg.content = "commit"
             /\ c.msg.body.s = s
             /\ c.msg.signer = g.sig
             /\ c.view.es = s

LEMMA FinishCommitOwn ==
  ASSUME NEW g, IsView(g), NEW s, NEW props, NEW ap, NEW up, NEW gc, NEW tag, NEW w
  PROVE  OwnCommit(g, s, FinishCommit(g, s, props, ap, up, gc, tag, w))
<1>1. CASE ~w.ok
  BY <1>1, SpendSame DEF FinishCommit, OwnCommit
<1>2. CASE w.ok
  <2> DEFINE next == Advance(g, up.tree, CommitterPriv(g.own, s, up.pathSecrets), gc, s,
                             InterimTranscriptHash(gc.confirmed, s))
  <2>1. SameClient(g, next) /\ next.es = s
    BY AdvanceSame
  <2> HIDE DEF next
  <2>2. QED
    BY <1>2, <2>1 DEF FinishCommit, OwnCommit, Framed, next
<1>3. QED
  BY <1>1, <1>2

LEMMA CommitPathOwn ==
  ASSUME NEW g, IsView(g), NEW s, NEW props, NEW ap
  PROVE  OwnCommit(g, s, CommitPath(g, s, props, ap))
BY FinishCommitOwn, ZenonT(30) DEF CommitPath

LEMMA CommitOwn ==
  ASSUME NEW g, IsView(g), NEW s, NEW refs, NEW vals
  PROVE  OwnCommit(g, s, Commit(g, s, refs, vals))
<1> DEFINE props  == ProposalList(refs, vals)
           ap     == applyProposals(g, Clone(g.tree), Resolved(props, g.own))
           failed == [ok |-> FALSE, view |-> g, welcome |-> NoWelcome]
<1>1. OwnCommit(g, s, failed)
  BY DEF OwnCommit, SameClient
<1>2. OwnCommit(g, s, CommitPath(g, s, props, ap))
  BY CommitPathOwn
<1>3. Commit(g, s, refs, vals) \in {failed, CommitPath(g, s, props, ap)}
  BY DEF Commit
<1> HIDE DEF props, ap, failed
<1>4. QED
  BY <1>1, <1>2, <1>3

(* Processing somebody's commit, whatever it is, leaves the member who it was. *)
Keeps(g, r) == {"ok", "view"} \subseteq DOMAIN r /\ SameClient(g, r.view)

LEMMA FailedKeeps ==
  ASSUME NEW g, IsView(g)
  PROVE  Keeps(g, Failed(g))
BY DEF Keeps, Failed, SameClient

LEMMA ConfirmKeeps ==
  ASSUME NEW g, IsView(g), NEW cm, NEW tree, NEW sender, NEW gc, NEW got, NEW init, NEW psks,
         NEW priv, NEW rebuilt
  PROVE  Keeps(g, ConfirmEpoch(g, cm, tree, sender, gc, got, init, psks, priv, rebuilt))
BY AdvanceSame, FailedKeeps DEF ConfirmEpoch, Keeps

LEMMA ProcessPathKeeps ==
  ASSUME NEW g, IsView(g), NEW cm, NEW t, NEW sender, NEW ext, NEW init, NEW psks,
         NEW newlyAdded, NEW priv, NEW rebuilt, NEW verify
  PROVE  Keeps(g, ProcessPath(g, cm, t, sender, ext, init, psks, newlyAdded, priv, rebuilt, verify))
BY ConfirmKeeps, FailedKeeps DEF ProcessPath

LEMMA MemberCommitKeeps ==
  ASSUME NEW g, IsView(g), NEW msgs, NEW m
  PROVE  Keeps(g, ProcessMemberCommit(g, msgs, m))
BY ProcessPathKeeps, FailedKeeps, ZenonT(30) DEF ProcessMemberCommit

(* Putting the generation back changes nothing else. *)
LEMMA GenerationKept ==
  ASSUME NEW g, NEW r, Keeps(g, r), NEW gen
  PROVE  Keeps(g, [r EXCEPT !.view.handshakeGeneration = gen])
BY DEF Keeps, SameClient, IsView

LEMMA ExternalCommitKeeps ==
  ASSUME NEW g, IsView(g), NEW m
  PROVE  Keeps(g, processExternalCommit(g, m))
BY ProcessPathKeeps, GenerationKept, FailedKeeps DEF processExternalCommit

LEMMA ProcessCommitKeeps ==
  ASSUME NEW g, IsView(g), NEW msgs, NEW m
  PROVE  Keeps(g, ProcessCommit(g, msgs, m))
BY MemberCommitKeeps, ExternalCommitKeeps DEF ProcessCommit

(* The views a client starts with. *)
LEMMA NewGroupView ==
  ASSUME NEW s, NEW sig, NEW enc
  PROVE  IsView(NewGroup(s, sig, enc))
BY DEF NewGroup, NewView, IsView

LEMMA JoinView ==
  ASSUME NEW w, NEW kp, NEW psks, NEW enc, JoinFromWelcome(w, kp, psks, enc).ok
  PROVE  IsView(JoinFromWelcome(w, kp, psks, enc).view)
BY DEF JoinFromWelcome, JoinAs, JoinedView, NewView, IsView

LEMMA ExternalJoinView ==
  ASSUME NEW gi, NEW s, NEW sig, NEW enc, ExternalCommit(gi, s, sig, enc).ok
  PROVE  IsView(ExternalCommit(gi, s, sig, enc).view)
BY DEF ExternalCommit, ExternalPath, NewView, IsView

(***************************************************************************)
(* PendingIsOwn with the shape of the table's entries.  A commit's sender  *)
(* and draw stay in wire, so that the authenticator kept for a client      *)
(* belongs to one of its own commits whatever the client does meanwhile,   *)
(* as long as no call changes its signature key.                           *)
(***************************************************************************)
EntryOK(st) == {"g", "pendingEpochAuth"} \subseteq DOMAIN st /\ IsView(st.g)

EntriesOK == \A id \in DOMAIN states : EntryOK(states[id])

PInv == EntriesOK /\ PendingIsOwn

(* A commit that a client may be waiting to confirm. *)
Owned(st, msgs) ==
  st.pendingEpochAuth # NoAuth =>
    \E m \in msgs : m.content = "commit" /\ m.body.s = st.pendingEpochAuth /\ m.signer = st.g.sig

LEMMA PInvEntries ==
  PInv <=> \A id \in DOMAIN states : EntryOK(states[id]) /\ Owned(states[id], wire)
BY DEF PInv, EntriesOK, PendingIsOwn, Owned, Messages

(* One entry of the table is new, the others and wire's messages remain. *)
LEMMA EntryChanged ==
  ASSUME PInv, wire \subseteq wire', NEW k,
         \A id \in DOMAIN states' : id # k => id \in DOMAIN states /\ states'[id] = states[id],
         k \in DOMAIN states' => EntryOK(states'[k]) /\ Owned(states'[k], wire')
  PROVE  PInv'
<1>1. \A id \in DOMAIN states : EntryOK(states[id]) /\ Owned(states[id], wire)
  BY PInvEntries
<1>2. ASSUME NEW id \in DOMAIN states'
      PROVE  EntryOK(states'[id]) /\ Owned(states'[id], wire')
  BY <1>1 DEF Owned
<1>3. QED
  BY <1>2 DEF PInv, EntriesOK, PendingIsOwn, Owned, Messages

(* A call that only sends. *)
LEMMA OnlySent ==
  ASSUME PInv, wire \subseteq wire', states' = states
  PROVE  PInv'
BY DEF PInv, EntriesOK, PendingIsOwn, Messages

(* A call that gives a client another view of its own. *)
LEMMA GroupSet ==
  ASSUME PInv, wire \subseteq wire', NEW id \in DOMAIN states, NEW g,
         SameClient(states[id].g, g), SetGroup(id, g)
  PROVE  PInv'
<1>1. EntryOK(states[id]) /\ Owned(states[id], wire)
  BY PInvEntries
<1>2. /\ DOMAIN states' = DOMAIN states
      /\ \A i \in DOMAIN states : i # id => states'[i] = states[i]
      /\ states'[id] = [states[id] EXCEPT !.g = g]
  BY DEF SetGroup
<1>3. EntryOK(states'[id])
  BY <1>1, <1>2 DEF EntryOK, SameClient
<1>4. states'[id].g.sig = states[id].g.sig /\ states'[id].pendingEpochAuth = states[id].pendingEpochAuth
  BY <1>1, <1>2 DEF EntryOK, SameClient
<1>5. Owned(states'[id], wire')
  BY <1>1, <1>4 DEF Owned
<1>6. QED
  BY <1>2, <1>3, <1>5, EntryChanged

(* A call that enters a client. *)
LEMMA ClientEntered ==
  ASSUME PInv, wire \subseteq wire', NEW g, IsView(g), NewState(g)
  PROVE  PInv'
<1>1. /\ DOMAIN states' = DOMAIN states \cup {nextID}
      /\ \A i \in DOMAIN states' : i # nextID => states'[i] = states[i]
      /\ states'[nextID] = State(g)
  BY DEF NewState, Insert, alloc
<1>2. EntryOK(State(g)) /\ Owned(State(g), wire')
  BY DEF State, EntryOK, Owned
<1>3. QED
  BY <1>1, <1>2, EntryChanged

LEMMA CommitPendingStep ==
  ASSUME PInv, NEW id \in DOMAIN states, NEW refs, NEW vals, CommitPending(id, refs, vals)
  PROVE  PInv'
<1> DEFINE g == states[id].g
           c == Commit(g, draw, refs, vals)
<1>1. EntryOK(states[id]) /\ IsView(g)
  BY PInvEntries DEF EntryOK
<1>2. OwnCommit(g, draw, c)
  BY <1>1, CommitOwn
<1>3. \/ c.ok /\ states' = [states EXCEPT ![id] = Pending(g, c.view)]
              /\ wire' = wire \cup ({c.msg, c.welcome} \ {NoWelcome})
      \/ ~c.ok /\ SetGroup(id, c.view) /\ wire' = wire
  BY DEF CommitPending
<1> HIDE DEF g, c
<1>4. CASE c.ok /\ states' = [states EXCEPT ![id] = Pending(g, c.view)]
                /\ wire' = wire \cup ({c.msg, c.welcome} \ {NoWelcome})
  <2>1. c.msg.content = "commit" /\ c.msg.body.s = draw /\ c.msg.signer = g.sig
    BY <1>2, <1>4 DEF OwnCommit
  <2>2. c.msg \in wire' /\ wire \subseteq wire'
    BY <2>1, <1>4 DEF NoWelcome
  <2>3. SameClient(g, c.view) /\ c.view.es = draw
    BY <1>2, <1>4 DEF OwnCommit
  <2>4. EntryOK(Pending(g, c.view)) /\ Owned(Pending(g, c.view), wire')
    BY <2>1, <2>2, <2>3 DEF Pending, EntryOK, Owned, SameClient
  <2>5. QED
    BY <1>4, <2>2, <2>4, EntryChanged
<1>5. CASE ~c.ok /\ SetGroup(id, c.view) /\ wire' = wire
  BY <1>2, <1>5, GroupSet DEF OwnCommit, g
<1>6. QED
  BY <1>3, <1>4, <1>5

LEMMA FrameStep ==
  ASSUME PInv, NEW id \in DOMAIN states, NEW g, SameClient(states[id].g, g), NEW prop, Frame(id, g, prop)
  PROVE  PInv'
<1>1. SameClient(g, FrameProposal(g, prop).view)
  BY FrameSame DEF SameClient
<1>2. SameClient(states[id].g, FrameProposal(g, prop).view)
  BY <1>1 DEF SameClient
<1>3. QED
  BY <1>2, GroupSet DEF Frame, Send

LEMMA StepPending ==
  ASSUME PInv, Next
  PROVE  PInv'
<1>0. \A id \in DOMAIN states : EntryOK(states[id]) /\ IsView(states[id].g)
  BY PInvEntries DEF EntryOK
<1>1. ASSUME NEW i \in Identities, CreateKeyPackage(i)
      PROVE  PInv'
  BY <1>1, OnlySent DEF CreateKeyPackage, Send
<1>2. ASSUME NEW i \in Identities, NEW enc \in EncryptHandshake, CreateGroup(i, enc)
      PROVE  PInv'
  BY <1>2, NewGroupView, ClientEntered DEF CreateGroup
<1>3. ASSUME NEW i \in Identities, NEW enc \in EncryptHandshake,
             NEW m \in Messages("group_info"), ExternalJoin(i, m, enc)
      PROVE  PInv'
  BY <1>3, ExternalJoinView, ClientEntered DEF ExternalJoin, Send
<1>4. ASSUME NEW id \in DOMAIN txns, NEW m \in Messages("welcome"), NEW enc \in EncryptHandshake,
             JoinGroup(id, m, enc)
      PROVE  PInv'
  BY <1>4, JoinView, ClientEntered DEF JoinGroup
<1>5. ASSUME NEW id \in DOMAIN states, Free(id)
      PROVE  PInv'
  BY <1>5, EntryChanged DEF Free, Without
<1>6. ASSUME NEW id \in DOMAIN states, UpdateProposal(id)
      PROVE  PInv'
  <2>1. SameClient(states[id].g, ProposeUpdate(states[id].g, draw).view)
    BY <1>0, ProposeUpdateSame
  <2>2. QED
    BY <1>6, <2>1, FrameStep DEF UpdateProposal
<1>7. ASSUME NEW id \in DOMAIN states, HandlePendingCommit(id)
      PROVE  PInv'
  <2>1. /\ DOMAIN states' = DOMAIN states
        /\ \A i \in DOMAIN states : i # id => states'[i] = states[i]
        /\ states'[id] = [states[id] EXCEPT !.pendingEpochAuth = NoAuth]
        /\ wire' = wire
    BY <1>7 DEF HandlePendingCommit
  <2>2. EntryOK(states'[id]) /\ Owned(states'[id], wire')
    BY <1>0, <2>1 DEF EntryOK, Owned
  <2>3. QED
    BY <2>1, <2>2, EntryChanged
<1>8. ASSUME NEW id \in DOMAIN states, Protect(id)
      PROVE  PInv'
  BY <1>0, <1>8, ProtectSame, GroupSet DEF Protect, Send
<1>9. ASSUME NEW id \in DOMAIN states, GroupInfo(id)
      PROVE  PInv'
  BY <1>9, OnlySent DEF GroupInfo, Send
<1>10. ASSUME NEW id \in DOMAIN states, NEW m \in Messages("key_package"), AddProposal(id, m.kp)
       PROVE  PInv'
  BY <1>0, <1>10, FrameStep DEF AddProposal, SameClient
<1>11. ASSUME NEW id \in DOMAIN states, NEW i \in Identities, RemoveProposal(id, i)
       PROVE  PInv'
  <2>1. Frame(id, states[id].g, ProposeRemove(resolveIdentity(states[id].g, i)))
    BY <1>11 DEF RemoveProposal
  <2>2. QED
    BY <1>0, <2>1, FrameStep DEF SameClient
<1>12. ASSUME NEW id \in DOMAIN states, NEW ps, NEW m, HandleCommit(id, ps, m)
       PROVE  PInv'
  BY <1>0, <1>12, ProcessCommitKeeps, GroupSet DEF HandleCommit, Keeps
<1>13. QED
  BY <1>1, <1>2, <1>3, <1>4, <1>5, <1>6, <1>7, <1>8, <1>9, <1>10, <1>11, <1>12,
     CommitPendingStep DEF Next

(* Whatever the callers do and the engine answers, what HandlePendingCommit
   will report is the authenticator of an epoch the client opened with a
   commit of its own. *)
THEOREM InteropPendingIsOwn == Spec => []PendingIsOwn
<1>1. Init => PInv
  BY DEF Init, PInv, EntriesOK, PendingIsOwn
<1>2. PInv /\ [Next]_vars => PInv'
  <2>1. ASSUME PInv, UNCHANGED vars
        PROVE  PInv'
    BY <2>1 DEF vars, PInv, EntriesOK, PendingIsOwn, Messages
  <2>2. QED
    BY <2>1, StepPending
<1>3. PInv => PendingIsOwn
  BY DEF PInv
<1>4. QED
  BY <1>1, <1>2, <1>3, PTL DEF Spec

(***************************************************************************)
(* No client uses a key and nonce of its ratchets twice.  Signature keys   *)
(* tell clients apart: a key is drawn once, and a key package that has     *)
(* been joined with is gone.  A client's epochs grow: the secrets of an    *)
(* epoch are drawn once, whoever enters it otherwise has found its context *)
(* under the confirmation tag, in a GroupInfo or in a Welcome, and so they *)
(* belong to one group context, of one number.  Within an epoch the        *)
(* counters grow with every message.                                       *)
(***************************************************************************)
Counted(g) ==
  /\ {"sig", "es", "gc", "appGeneration", "handshakeGeneration"} \subseteq DOMAIN g
  /\ g.appGeneration \in Nat /\ g.handshakeGeneration \in Nat

(* The generation that g's next message of m's kind takes. *)
Counter(g, m) == IF m.content = "application" THEN g.appGeneration ELSE g.handshakeGeneration

(* h is g later in the same epoch. *)
Stays(g, h) ==
  /\ Counted(h) /\ h.sig = g.sig /\ h.es = g.es /\ h.gc = g.gc
  /\ g.appGeneration <= h.appGeneration /\ g.handshakeGeneration <= h.handshakeGeneration

(* h is the same client in an epoch with secrets es and context gc. *)
Enters(g, h, es, gc) == Counted(h) /\ h.sig = g.sig /\ h.es = es /\ h.gc = gc

(* The message m is protected with what g has. *)
Uses(g, m) == m.signer = g.sig /\ m.es = g.es /\ m.gen = Counter(g, m)

(* g sends m and becomes h. *)
Sends(g, h, m) ==
  /\ Stays(g, h) /\ Uses(g, m)
  /\ m.content \in {"proposal", "application"}
  /\ m.wf = "private" => m.gen < Counter(h, m)

TagContext(tag) == tag[3]

LEMMA TagNamesContext ==
  ASSUME NEW init, NEW secret, NEW psks, NEW gc
  PROVE  TagContext(ConfirmationTag(init, secret, psks, gc)) = gc
BY DEF TagContext, ConfirmationTag, EpochSecretsFromJoiner

LEMMA NewContextEpoch ==
  ASSUME NEW epoch, NEW treeHash, NEW confirmed, NEW ext
  PROVE  GroupContext(epoch, treeHash, confirmed, ext).epoch = epoch
BY DEF GroupContext

LEMMA AdvanceEnters ==
  ASSUME NEW g, Counted(g), NEW tree, NEW priv, NEW gc, NEW es, NEW interim
  PROVE  Enters(g, Advance(g, tree, priv, gc, es, interim), es, gc)
BY DEF Counted, Enters, Advance

LEMMA NewViewCounted ==
  ASSUME NEW tree, NEW priv, NEW own, NEW sig, NEW gc, NEW es, NEW interim, NEW psks, NEW enc
  PROVE  LET h == NewView(tree, priv, own, sig, gc, es, interim, psks, enc)
         IN  Counted(h) /\ h.sig = sig /\ h.es = es /\ h.gc = gc
BY DEF Counted, NewView

LEMMA StaysItself ==
  ASSUME NEW g, Counted(g)
  PROVE  Stays(g, g)
BY DEF Counted, Stays

LEMMA StaysTwice ==
  ASSUME NEW f, NEW g, NEW h, Counted(f), Stays(f, g), Stays(g, h)
  PROVE  Stays(f, h)
BY DEF Counted, Stays

LEMMA SpendStays ==
  ASSUME NEW g, Counted(g)
  PROVE  /\ Stays(g, SpendGeneration(g))
         /\ g.encryptHandshakes => g.handshakeGeneration < SpendGeneration(g).handshakeGeneration
<1>1. PICK k \in Nat : k = g.handshakeGeneration
  BY DEF Counted
<1>2. k + 1 \in Nat /\ k <= k + 1 /\ k < k + 1 /\ k <= k
  OBVIOUS
<1>3. CASE g.encryptHandshakes
  <2> PICK h : h = SpendGeneration(g)
    OBVIOUS
  <2>1. h = [g EXCEPT !.handshakeGeneration = k + 1]
    BY <1>1, <1>3 DEF SpendGeneration
  <2>2. /\ DOMAIN h = DOMAIN g /\ h.handshakeGeneration = k + 1 /\ h.appGeneration = g.appGeneration
        /\ h.sig = g.sig /\ h.es = g.es /\ h.gc = g.gc
    BY <2>1 DEF Counted
  <2>3. Stays(g, h) /\ g.handshakeGeneration < h.handshakeGeneration
    BY <1>1, <1>2, <2>2 DEF Counted, Stays
  <2>4. QED
    BY <2>3
<1>4. CASE ~g.encryptHandshakes
  BY <1>4, StaysItself DEF SpendGeneration
<1>5. QED
  BY <1>3, <1>4

LEMMA ProposeUpdateStays ==
  ASSUME NEW g, Counted(g), NEW s
  PROVE  LET h == ProposeUpdate(g, s).view
         IN  /\ Stays(g, h) /\ h.appGeneration = g.appGeneration
             /\ h.handshakeGeneration = g.handshakeGeneration
<1> PICK h : h = ProposeUpdate(g, s).view
  OBVIOUS
<1>1. /\ DOMAIN h = DOMAIN g /\ h.handshakeGeneration = g.handshakeGeneration
      /\ h.appGeneration = g.appGeneration /\ h.sig = g.sig /\ h.es = g.es /\ h.gc = g.gc
  BY DEF Counted, ProposeUpdate
<1>2. Stays(g, h)
  BY <1>1 DEF Counted, Stays
<1>3. QED
  BY <1>1, <1>2

LEMMA FrameSends ==
  ASSUME NEW g, Counted(g), NEW prop
  PROVE  Sends(g, FrameProposal(g, prop).view, FrameProposal(g, prop).msg)
<1> PICK h, m : h = SpendGeneration(g)
             /\ m = Framed(g, WireFormat(g), "proposal", g.handshakeGeneration, prop)
  OBVIOUS
<1>1. /\ m.content = "proposal" /\ m.signer = g.sig /\ m.es = g.es /\ m.gen = g.handshakeGeneration
      /\ m.wf = WireFormat(g)
  BY DEF Framed
<1>2. Stays(g, h) /\ (g.encryptHandshakes => g.handshakeGeneration < h.handshakeGeneration)
  BY SpendStays
<1>3. m.wf = "private" => g.encryptHandshakes
  BY <1>1 DEF WireFormat
<1>4. Sends(g, h, m)
  BY <1>1, <1>2, <1>3 DEF Sends, Uses, Counter
<1>5. QED
  BY <1>4 DEF FrameProposal

LEMMA ProtectSends ==
  ASSUME NEW g, Counted(g), NEW data
  PROVE  Sends(g, ProtectApplication(g, data).view, ProtectApplication(g, data).msg)
<1> PICK k \in Nat : k = g.appGeneration
  BY DEF Counted
<1> PICK h, m : h = [g EXCEPT !.appGeneration = k + 1]
             /\ m = Framed(g, "private", "application", k, data)
  OBVIOUS
<1>1. m.content = "application" /\ m.signer = g.sig /\ m.es = g.es /\ m.gen = k
  BY DEF Framed
<1>2. /\ DOMAIN h = DOMAIN g /\ h.handshakeGeneration = g.handshakeGeneration
      /\ h.appGeneration = k + 1 /\ h.sig = g.sig /\ h.es = g.es /\ h.gc = g.gc
  BY DEF Counted
<1>3. k + 1 \in Nat /\ k <= k + 1 /\ k < k + 1
  OBVIOUS
<1>4. Stays(g, h)
  <2>1. g.handshakeGeneration <= h.handshakeGeneration
    BY <1>2 DEF Counted
  <2>2. QED
    BY <1>2, <1>3, <2>1 DEF Counted, Stays
<1>5. Sends(g, h, m)
  BY <1>1, <1>2, <1>3, <1>4 DEF Sends, Uses, Counter
<1>6. QED
  BY <1>5 DEF ProtectApplication

(* A commit of g's own, which opens an epoch with secrets s: the commit and the
   Welcome, if there is one, name the context of the view it leads to. *)
Commits(g, s, c) ==
  /\ ~c.ok => Stays(g, c.view)
  /\ c.ok => /\ Enters(g, c.view, s, c.view.gc) /\ c.view.gc.epoch = g.gc.epoch + 1
             /\ c.msg.content = "commit" /\ Uses(g, c.msg)
             /\ c.msg.body.s = s /\ TagContext(c.msg.body.tag) = c.view.gc
             /\ \/ c.welcome = NoWelcome
                \/ /\ c.welcome.content = "welcome"
                   /\ c.welcome.gi.es = s /\ c.welcome.gi.gc = c.view.gc

Announces(w, es, gc) ==
  w.ok => w.msg.content = "welcome" /\ w.msg.gi.es = es /\ w.msg.gi.gc = gc

LEMMA WelcomeAnnounces ==
  ASSUME NEW tree, NEW gc, NEW tag, NEW es, NEW joiner, NEW committer, NEW sig, NEW newlyAdded,
         NEW addedKPs, NEW pathSecrets, NEW psks
  PROVE  Announces(buildWelcome(tree, gc, tag, es, joiner, committer, sig, newlyAdded, addedKPs,
                                pathSecrets, psks), es, gc)
BY DEF Announces, buildWelcome, SignedGroupInfo

LEMMA FinishCommits ==
  ASSUME NEW g, Counted(g), NEW s, NEW props, NEW ap, NEW up, NEW gc, NEW tag, NEW w,
         gc.epoch = g.gc.epoch + 1, TagContext(tag) = gc, Announces(w, s, gc)
  PROVE  Commits(g, s, FinishCommit(g, s, props, ap, up, gc, tag, w))
<1> DEFINE next == Advance(g, up.tree, CommitterPriv(g.own, s, up.pathSecrets), gc, s,
                           InterimTranscriptHash(gc.confirmed, s))
           c == FinishCommit(g, s, props, ap, up, gc, tag, w)
<1>1. CASE ~w.ok
  BY <1>1, SpendStays DEF FinishCommit, Commits
<1>2. CASE w.ok
  <2>1. Enters(g, next, s, gc)
    BY AdvanceEnters
  <2>2. c.ok /\ c.view = next /\ c.welcome \in {NoWelcome, w.msg}
    BY <1>2 DEF FinishCommit
  <2>3. /\ c.msg.content = "commit" /\ c.msg.signer = g.sig /\ c.msg.es = g.es
        /\ c.msg.gen = g.handshakeGeneration /\ c.msg.body.s = s /\ c.msg.body.tag = tag
    BY <1>2 DEF FinishCommit, Framed
  <2> HIDE DEF next, c
  <2>4. next.gc = gc
    BY <2>1 DEF Enters
  <2>5. Uses(g, c.msg)
    BY <2>3 DEF Uses, Counter
  <2>6. Commits(g, s, c)
    BY <1>2, <2>1, <2>2, <2>3, <2>4, <2>5 DEF Commits, Announces
  <2>7. QED
    BY <2>6 DEF c
<1>3. QED
  BY <1>1, <1>2

LEMMA CommitPathCommits ==
  ASSUME NEW g, Counted(g), NEW s, NEW props, NEW ap
  PROVE  Commits(g, s, CommitPath(g, s, props, ap))
<1>1. ASSUME NEW up, NEW gc, NEW tag,
             gc = GroupContext(g.gc.epoch + 1, RootTreeHash(up.tree),
                               ConfirmedTranscriptHash(g.interim, s), ap.ext),
             tag = ConfirmationTag(g.init, up.commitSecret, ap.psks, gc)
      PROVE  Commits(g, s, FinishCommit(g, s, props, ap, up, gc, tag,
                     buildWelcome(up.tree, gc, tag, s, JoinerSecret(g.init, up.commitSecret, gc),
                                  g.own, g.sig, ap.newlyAdded, ap.addedKPs, up.pathSecrets, ap.psks)))
  <2> DEFINE w == buildWelcome(up.tree, gc, tag, s, JoinerSecret(g.init, up.commitSecret, gc),
                               g.own, g.sig, ap.newlyAdded, ap.addedKPs, up.pathSecrets, ap.psks)
  <2>1. Announces(w, s, gc)
    BY WelcomeAnnounces
  <2>2. TagContext(tag) = gc /\ gc.epoch = g.gc.epoch + 1
    BY <1>1, TagNamesContext, NewContextEpoch
  <2> HIDE DEF w
  <2>3. Commits(g, s, FinishCommit(g, s, props, ap, up, gc, tag, w))
    BY <2>1, <2>2, FinishCommits
  <2>4. QED
    BY <2>3 DEF w
<1>2. QED
  BY <1>1 DEF CommitPath

LEMMA CommitCommits ==
  ASSUME NEW g, Counted(g), NEW s, NEW refs, NEW vals
  PROVE  Commits(g, s, Commit(g, s, refs, vals))
<1> DEFINE props  == ProposalList(refs, vals)
           ap     == applyProposals(g, Clone(g.tree), Resolved(props, g.own))
           failed == [ok |-> FALSE, view |-> g, welcome |-> NoWelcome]
<1>1. Commits(g, s, failed)
  BY StaysItself DEF Commits
<1>2. Commits(g, s, CommitPath(g, s, props, ap))
  BY CommitPathCommits
<1>3. Commit(g, s, refs, vals) \in {failed, CommitPath(g, s, props, ap)}
  BY DEF Commit
<1> HIDE DEF props, ap, failed
<1>4. QED
  BY <1>1, <1>2, <1>3

(* A commit that is processed leads to the context its tag names. *)
Processed(g, cm, r) ==
  /\ {"ok", "view"} \subseteq DOMAIN r
  /\ r.ok => /\ Enters(g, r.view, cm.s, TagContext(cm.tag))
             /\ TagContext(cm.tag).epoch = g.gc.epoch + 1

LEMMA FailedProcessed ==
  ASSUME NEW g, NEW cm
  PROVE  Processed(g, cm, Failed(g))
BY DEF Processed, Failed

LEMMA ConfirmProcessed ==
  ASSUME NEW g, Counted(g), NEW cm, NEW tree, NEW sender, NEW gc, NEW got, NEW init, NEW psks,
         NEW priv, NEW rebuilt, gc.epoch = g.gc.epoch + 1
  PROVE  Processed(g, cm, ConfirmEpoch(g, cm, tree, sender, gc, got, init, psks, priv, rebuilt))
<1>1. ASSUME NEW secret, NEW keys, NEW h, ConfirmationTag(init, secret, psks, gc) = cm.tag,
             h = Advance(g, tree, keys, gc, cm.s, InterimTranscriptHash(gc.confirmed, cm.s))
      PROVE  Processed(g, cm, [ok |-> TRUE, view |-> h])
  <2>1. TagContext(cm.tag) = gc
    BY <1>1, TagNamesContext
  <2>2. Enters(g, h, cm.s, gc)
    BY <1>1, AdvanceEnters
  <2>3. QED
    BY <2>1, <2>2 DEF Processed
<1>2. QED
  BY <1>1, FailedProcessed DEF ConfirmEpoch

LEMMA PathProcessed ==
  ASSUME NEW g, Counted(g), NEW cm, NEW t, NEW sender, NEW ext, NEW init, NEW psks,
         NEW newlyAdded, NEW priv, NEW rebuilt, NEW verify
  PROVE  Processed(g, cm, ProcessPath(g, cm, t, sender, ext, init, psks, newlyAdded, priv, rebuilt,
                                      verify))
<1>1. ASSUME NEW tree, NEW got, NEW confirmed
      PROVE  Processed(g, cm, ConfirmEpoch(g, cm, tree, sender,
                                [GroupContext(g.gc.epoch + 1, RootTreeHash(tree), g.gc.confirmed, ext)
                                   EXCEPT !.confirmed = confirmed],
                                got, init, psks, priv, rebuilt))
  <2> DEFINE gc == [GroupContext(g.gc.epoch + 1, RootTreeHash(tree), g.gc.confirmed, ext)
                      EXCEPT !.confirmed = confirmed]
  <2>1. gc.epoch = g.gc.epoch + 1
    BY DEF GroupContext
  <2> HIDE DEF gc
  <2>2. Processed(g, cm, ConfirmEpoch(g, cm, tree, sender, gc, got, init, psks, priv, rebuilt))
    BY <2>1, ConfirmProcessed
  <2>3. QED
    BY <2>2 DEF gc
<1>2. QED
  BY <1>1, FailedProcessed DEF ProcessPath

LEMMA MemberCommitProcessed ==
  ASSUME NEW g, Counted(g), NEW msgs, NEW m
  PROVE  Processed(g, m.body, ProcessMemberCommit(g, msgs, m))
BY PathProcessed, FailedProcessed, ZenonT(30) DEF ProcessMemberCommit

(* An external commit leaves the counter of handshake messages as it was. *)
LEMMA CounterKept ==
  ASSUME NEW g, NEW cm, NEW r, Processed(g, cm, r), NEW gen \in Nat
  PROVE  Processed(g, cm, [r EXCEPT !.view.handshakeGeneration = gen])
<1> DEFINE h == [r EXCEPT !.view.handshakeGeneration = gen]
<1>1. /\ {"ok", "view"} \subseteq DOMAIN h /\ h.ok = r.ok
      /\ h.view = [r.view EXCEPT !.handshakeGeneration = gen]
  BY DEF Processed
<1> HIDE DEF h
<1>2. CASE h.ok
  <2>1. Counted(r.view)
    BY <1>1, <1>2 DEF Processed, Enters
  <2>2. /\ DOMAIN h.view = DOMAIN r.view /\ h.view.handshakeGeneration = gen
        /\ h.view.appGeneration = r.view.appGeneration
        /\ h.view.sig = r.view.sig /\ h.view.es = r.view.es /\ h.view.gc = r.view.gc
    BY <1>1, <2>1 DEF Counted
  <2>3. Counted(h.view)
    BY <2>1, <2>2 DEF Counted
  <2>4. Processed(g, cm, h)
    BY <1>1, <1>2, <2>2, <2>3 DEF Processed, Enters
  <2>5. QED
    BY <2>4 DEF h
<1>3. CASE ~h.ok
  <2>1. Processed(g, cm, h)
    BY <1>1, <1>3 DEF Processed
  <2>2. QED
    BY <2>1 DEF h
<1>4. QED
  BY <1>2, <1>3

LEMMA ExternalCommitProcessed ==
  ASSUME NEW g, Counted(g), NEW m
  PROVE  Processed(g, m.body, processExternalCommit(g, m))
<1>1. g.handshakeGeneration \in Nat
  BY DEF Counted
<1>2. QED
  BY <1>1, PathProcessed, CounterKept, FailedProcessed, ZenonT(30) DEF processExternalCommit

LEMMA CommitProcessed ==
  ASSUME NEW g, Counted(g), NEW msgs, NEW m
  PROVE  Processed(g, m.body, ProcessCommit(g, msgs, m))
BY MemberCommitProcessed, ExternalCommitProcessed DEF ProcessCommit

(* The views a client starts with. *)
LEMMA NewGroupCounted ==
  ASSUME NEW s, NEW sig, NEW enc
  PROVE  LET h == NewGroup(s, sig, enc)
         IN  Counted(h) /\ h.sig = sig /\ h.es = s /\ h.gc.epoch = 0
BY NewViewCounted, NewContextEpoch DEF NewGroup

LEMMA JoinCounted ==
  ASSUME NEW w, NEW kp, NEW psks, NEW enc, JoinFromWelcome(w, kp, psks, enc).ok
  PROVE  LET h == JoinFromWelcome(w, kp, psks, enc).view
         IN  Counted(h) /\ h.sig = kp.leaf.sig /\ h.es = w.gi.es /\ h.gc = w.gi.gc
<1>1. PICK priv, own :
        JoinFromWelcome(w, kp, psks, enc).view = JoinedView(w.gi, priv, own, kp.leaf.sig, psks, enc)
  BY DEF JoinFromWelcome, JoinAs
<1>2. QED
  BY <1>1, NewViewCounted DEF JoinedView

(* The commit that brings an external joiner is public. *)
JoinsWith(c, s, sig, epoch) ==
  c.ok => /\ Counted(c.view) /\ c.view.sig = sig /\ c.view.es = s /\ c.view.gc.epoch = epoch
          /\ c.msg.wf = "public" /\ c.msg.content = "commit"
          /\ c.msg.body.s = s /\ TagContext(c.msg.body.tag) = c.view.gc

LEMMA ExternalPathJoins ==
  ASSUME NEW gi, NEW s, NEW sig, NEW enc, NEW list, NEW added
  PROVE  JoinsWith(ExternalPath(gi, s, sig, enc, list, added), s, sig, gi.gc.epoch + 1)
<1>1. ASSUME NEW up, NEW confirmed, NEW gc, NEW tag, NEW c,
             gc = GroupContext(gi.gc.epoch + 1, RootTreeHash(up.tree), confirmed, gi.gc.ext),
             TagContext(tag) = gc,
             c.msg.wf = "public", c.msg.content = "commit",
             c.msg.body.s = s, c.msg.body.tag = tag,
             c.view = NewView(up.tree, CommitterPriv(added.leaf, s, up.pathSecrets), added.leaf,
                              sig, gc, s, InterimTranscriptHash(confirmed, s), {}, enc)
      PROVE  JoinsWith(c, s, sig, gi.gc.epoch + 1)
  <2>1. gc.epoch = gi.gc.epoch + 1
    BY <1>1, NewContextEpoch
  <2>2. Counted(c.view) /\ c.view.sig = sig /\ c.view.es = s /\ c.view.gc = gc
    BY <1>1, NewViewCounted
  <2>3. QED
    BY <1>1, <2>1, <2>2 DEF JoinsWith
<1>2. ASSUME NEW up, NEW confirmed
      PROVE  LET gc == GroupContext(gi.gc.epoch + 1, RootTreeHash(up.tree), confirmed, gi.gc.ext)
                 tag == ConfirmationTag(ExternalInitSecret(gi.es, s), up.commitSecret, << >>, gc)
             IN  JoinsWith(
                   [ok   |-> TRUE,
                    msg  |-> [wf |-> "public", content |-> "commit", es |-> gi.es,
                              sender |-> NewMember, signer |-> sig, gen |-> 0,
                              body |-> [s |-> s, props |-> list, path |-> up.path, tag |-> tag]],
                    view |-> NewView(up.tree, CommitterPriv(added.leaf, s, up.pathSecrets),
                                     added.leaf, sig, gc, s, InterimTranscriptHash(confirmed, s),
                                     {}, enc)],
                   s, sig, gi.gc.epoch + 1)
  BY <1>1, TagNamesContext
<1>3. QED
  BY <1>2 DEF ExternalPath

LEMMA ExternalJoins ==
  ASSUME NEW gi, NEW s, NEW sig, NEW enc
  PROVE  JoinsWith(ExternalCommit(gi, s, sig, enc), s, sig, gi.gc.epoch + 1)
<1>1. JoinsWith([ok |-> FALSE], s, sig, gi.gc.epoch + 1)
  BY DEF JoinsWith
<1>2. QED
  BY <1>1, ExternalPathJoins DEF ExternalCommit

(***************************************************************************)
(* What a call does to the tables, in seven forms.                         *)
(***************************************************************************)
(* The client k has the view h, the others are as they were. *)
ViewSet(k, h) ==
  /\ states'[k].g = h
  /\ \A i \in DOMAIN states' : i # k => i \in DOMAIN states /\ states'[i] = states[i]

(* A client sends a message, publishes its epoch, or changes nothing of note. *)
Talks(id, h) ==
  /\ ViewSet(id, h) /\ DOMAIN states' = DOMAIN states /\ txns' = txns /\ draw' \in {draw, draw + 1}
  /\ Stays(states[id].g, h)
  /\ \/ wire' = wire
     \/ \E m : /\ wire' = wire \cup {m}
               /\ \/ Sends(states[id].g, h, m)
                  \/ m.content = "group_info" /\ m.gi.es = h.es /\ m.gi.gc = h.gc

(* A client commits. *)
Opens(id, h) ==
  /\ ViewSet(id, h) /\ DOMAIN states' = DOMAIN states /\ txns' = txns /\ draw' = draw + 1
  /\ Enters(states[id].g, h, draw, h.gc) /\ h.gc.epoch = states[id].g.gc.epoch + 1
  /\ \E m, w : /\ wire \subseteq wire' /\ wire' \subseteq wire \cup {m, w}
               /\ m.content = "commit" /\ Uses(states[id].g, m)
               /\ m.body.s = draw /\ TagContext(m.body.tag) = h.gc
               /\ w = NoWelcome \/ (w.content = "welcome" /\ w.gi.es = draw /\ w.gi.gc = h.gc)

(* A client processes a commit. *)
Follows(id, h) ==
  /\ ViewSet(id, h) /\ DOMAIN states' = DOMAIN states /\ UNCHANGED <<txns, draw, wire>>
  /\ \E m \in Messages("commit") : /\ Enters(states[id].g, h, m.body.s, TagContext(m.body.tag))
                                   /\ TagContext(m.body.tag).epoch = states[id].g.gc.epoch + 1

(* A client founds a group or joins one from outside. *)
Appears(k, h) ==
  /\ ViewSet(k, h) /\ txns' = txns /\ draw' = draw + 1
  /\ Counted(h) /\ h.sig[2] = draw /\ h.es = draw /\ h.gc.epoch \in Nat
  /\ \/ wire' = wire
     \/ \E m : /\ wire' = wire \cup {m}
               /\ m.content = "commit" /\ m.wf = "public"
               /\ m.body.s = draw /\ TagContext(m.body.tag) = h.gc

(* A client joins with the key package j. *)
IsWelcomed(k, h, j) ==
  /\ ViewSet(k, h) /\ txns' = Without(txns, j) /\ UNCHANGED <<draw, wire>>
  /\ Counted(h) /\ h.sig = txns[j].leaf.sig
  /\ \E m \in Messages("welcome") : h.es = m.gi.es /\ h.gc = m.gi.gc

(* A key package is made. *)
Offers(k, kpkg) ==
  /\ states' = states /\ txns' = Insert(txns, k, kpkg) /\ draw' = draw + 1
  /\ kpkg.leaf.sig[2] = draw
  /\ \E m : wire' = wire \cup {m} /\ m.content = "key_package"

(* A client goes. *)
Goes ==
  /\ \A i \in DOMAIN states' : i \in DOMAIN states /\ states'[i] = states[i]
  /\ UNCHANGED <<txns, wire, draw>>

Forms ==
  \/ \E id \in DOMAIN states : \E h : Talks(id, h) \/ Opens(id, h) \/ Follows(id, h)
  \/ \E k, h : Appears(k, h)
  \/ \E j \in DOMAIN txns : \E k, h : IsWelcomed(k, h, j)
  \/ \E k, kpkg : Offers(k, kpkg)
  \/ Goes

(* What the proof needs of the tables to tell the form of a call. *)
Readied ==
  /\ EntriesOK
  /\ \A i \in DOMAIN states : Counted(states[i].g)
  /\ \A m \in Messages("group_info") : m.gi.gc.epoch \in Nat

LEMMA SetGroupSets ==
  ASSUME EntriesOK, NEW id \in DOMAIN states, NEW h, SetGroup(id, h)
  PROVE  ViewSet(id, h) /\ DOMAIN states' = DOMAIN states
<1>1. /\ DOMAIN states' = DOMAIN states
      /\ \A i \in DOMAIN states : i # id => states'[i] = states[i]
      /\ states'[id] = [states[id] EXCEPT !.g = h]
  BY DEF SetGroup
<1>2. "g" \in DOMAIN states[id]
  BY DEF EntriesOK, EntryOK
<1>3. states'[id].g = h
  BY <1>1, <1>2
<1>4. QED
  BY <1>1, <1>3 DEF ViewSet

LEMMA NewStateSets ==
  ASSUME NEW h, NewState(h)
  PROVE  ViewSet(nextID, h)
<1>1. /\ DOMAIN states' = DOMAIN states \cup {nextID}
      /\ \A i \in DOMAIN states' : i # nextID => states'[i] = states[i]
      /\ states'[nextID] = State(h)
  BY DEF NewState, Insert, alloc
<1>2. State(h).g = h
  BY DEF State
<1>3. QED
  BY <1>1, <1>2 DEF ViewSet

LEMMA FrameTalks ==
  ASSUME EntriesOK, NEW id \in DOMAIN states, NEW g, Counted(states[id].g), Stays(states[id].g, g),
         NEW prop, Frame(id, g, prop), txns' = txns, draw' \in {draw, draw + 1},
         g.appGeneration = states[id].g.appGeneration,
         g.handshakeGeneration = states[id].g.handshakeGeneration
  PROVE  \E h : Talks(id, h)
<1> PICK f : f = FrameProposal(g, prop)
  OBVIOUS
<1>1. SetGroup(id, f.view) /\ wire' = wire \cup {f.msg}
  BY DEF Frame, Send
<1>2. Sends(g, f.view, f.msg)
  BY FrameSends DEF Stays
<1>3. Stays(states[id].g, f.view)
  BY <1>2, StaysTwice DEF Sends
<1>4. Sends(states[id].g, f.view, f.msg)
  BY <1>2, <1>3 DEF Sends, Uses, Counter, Stays
<1>5. QED
  BY <1>1, <1>3, <1>4, SetGroupSets DEF Talks

LEMMA CommitForm ==
  ASSUME Readied, NEW id \in DOMAIN states, NEW refs, NEW vals, CommitPending(id, refs, vals)
  PROVE  \E h : Talks(id, h) \/ Opens(id, h)
<1> DEFINE g == states[id].g
           c == Commit(g, draw, refs, vals)
<1>1. EntriesOK /\ Counted(g) /\ EntryOK(states[id])
  BY DEF Readied, EntriesOK
<1>2. Commits(g, draw, c)
  BY <1>1, CommitCommits
<1>3. /\ txns' = txns
      /\ \/ c.ok /\ draw' = draw + 1 /\ states' = [states EXCEPT ![id] = Pending(g, c.view)]
                 /\ wire' = wire \cup ({c.msg, c.welcome} \ {NoWelcome})
         \/ ~c.ok /\ SetGroup(id, c.view) /\ wire' = wire /\ draw' = draw
  BY DEF CommitPending, Drawn
<1> HIDE DEF c
<1>4. CASE c.ok /\ draw' = draw + 1 /\ states' = [states EXCEPT ![id] = Pending(g, c.view)]
                /\ wire' = wire \cup ({c.msg, c.welcome} \ {NoWelcome})
  <2>1. DOMAIN states' = DOMAIN states /\ ViewSet(id, c.view)
    BY <1>4 DEF ViewSet, Pending
  <2>2. wire \subseteq wire' /\ wire' \subseteq wire \cup {c.msg, c.welcome}
    BY <1>4
  <2>3. Opens(id, c.view)
    BY <1>2, <1>3, <1>4, <2>1, <2>2 DEF Commits, Opens
  <2>4. QED
    BY <2>3
<1>5. CASE ~c.ok /\ SetGroup(id, c.view) /\ wire' = wire /\ draw' = draw
  <2>1. Talks(id, c.view)
    BY <1>1, <1>2, <1>3, <1>5, SetGroupSets DEF Talks, Commits
  <2>2. QED
    BY <2>1
<1>6. QED
  BY <1>3, <1>4, <1>5

LEMMA StepForms ==
  ASSUME Readied, Next
  PROVE  Forms
<1>0. EntriesOK /\ \A i \in DOMAIN states : Counted(states[i].g) /\ Stays(states[i].g, states[i].g)
  BY StaysItself DEF Readied
<1>1. ASSUME NEW i \in Identities, CreateKeyPackage(i)
      PROVE  Forms
  <2> DEFINE kpkg == NewKeyPackage(draw, <<i, draw>>)
  <2>1. kpkg.leaf.sig[2] = draw
    BY DEF NewKeyPackage, LeafNode
  <2> HIDE DEF kpkg
  <2>2. PICK m : m = [content |-> "key_package", kp |-> kpkg]
    OBVIOUS
  <2>3. states' = states /\ txns' = Insert(txns, nextID, kpkg) /\ draw' = draw + 1 /\ wire' = wire \cup {m}
    BY <1>1, <2>2 DEF CreateKeyPackage, Drawn, Send, alloc, kpkg
  <2>4. Offers(nextID, kpkg)
    BY <2>1, <2>2, <2>3 DEF Offers
  <2>5. QED
    BY <2>4 DEF Forms
<1>2. ASSUME NEW i \in Identities, NEW enc \in EncryptHandshake, CreateGroup(i, enc)
      PROVE  Forms
  <2> PICK h : h = NewGroup(draw, <<i, draw>>, enc)
    OBVIOUS
  <2>1. Counted(h) /\ h.sig = <<i, draw>> /\ h.es = draw /\ h.gc.epoch = 0
    BY NewGroupCounted, SMTT(30)
  <2>2. h.sig[2] = draw /\ h.gc.epoch \in Nat
    BY <2>1
  <2>3. ViewSet(nextID, h) /\ txns' = txns /\ draw' = draw + 1 /\ wire' = wire
    BY <1>2, NewStateSets DEF CreateGroup, Drawn
  <2>4. Appears(nextID, h)
    BY <2>1, <2>2, <2>3 DEF Appears
  <2>5. QED
    BY <2>4 DEF Forms
<1>3. ASSUME NEW i \in Identities, NEW enc \in EncryptHandshake,
             NEW m \in Messages("group_info"), ExternalJoin(i, m, enc)
      PROVE  Forms
  <2> PICK c : c = ExternalCommit(m.gi, draw, <<i, draw>>, enc)
    OBVIOUS
  <2>1. JoinsWith(c, draw, <<i, draw>>, m.gi.gc.epoch + 1)
    BY ExternalJoins
  <2>2. c.ok /\ NewState(c.view) /\ wire' = wire \cup {c.msg} /\ txns' = txns /\ draw' = draw + 1
    BY <1>3 DEF ExternalJoin, Drawn, Send
  <2>3. m.gi.gc.epoch + 1 \in Nat
    BY DEF Readied
  <2>4. c.view.sig[2] = draw /\ c.view.gc.epoch \in Nat
    BY <2>1, <2>2, <2>3 DEF JoinsWith
  <2>5. Appears(nextID, c.view)
    BY <2>1, <2>2, <2>4, NewStateSets DEF Appears, JoinsWith
  <2>6. QED
    BY <2>5 DEF Forms
<1>4. ASSUME NEW id \in DOMAIN txns, NEW m \in Messages("welcome"), NEW enc \in EncryptHandshake,
             JoinGroup(id, m, enc)
      PROVE  Forms
  <2> PICK r : r = JoinFromWelcome(m, txns[id], {}, enc)
    OBVIOUS
  <2>1. r.ok /\ NewState(r.view) /\ txns' = Without(txns, id) /\ UNCHANGED <<wire, draw>>
    BY <1>4 DEF JoinGroup, Consumed
  <2>2. /\ Counted(r.view) /\ r.view.sig = txns[id].leaf.sig
        /\ r.view.es = m.gi.es /\ r.view.gc = m.gi.gc
    BY <2>1, JoinCounted, SMTT(30)
  <2>3. IsWelcomed(nextID, r.view, id)
    BY <2>1, <2>2, NewStateSets DEF IsWelcomed
  <2>4. QED
    BY <2>3 DEF Forms
<1>5. ASSUME NEW id \in DOMAIN states, Free(id)
      PROVE  Forms
  BY <1>5 DEF Free, Without, Forms, Goes
<1>6. ASSUME NEW id \in DOMAIN states, UpdateProposal(id)
      PROVE  Forms
  <2> PICK u : u = ProposeUpdate(states[id].g, draw)
    OBVIOUS
  <2>1. /\ Stays(states[id].g, u.view) /\ u.view.appGeneration = states[id].g.appGeneration
        /\ u.view.handshakeGeneration = states[id].g.handshakeGeneration
    BY <1>0, ProposeUpdateStays
  <2>2. Frame(id, u.view, u.prop) /\ txns' = txns /\ draw' = draw + 1
    BY <1>6 DEF UpdateProposal, Drawn
  <2>3. QED
    BY <1>0, <2>1, <2>2, FrameTalks DEF Forms
<1>7. ASSUME NEW id \in DOMAIN states, HandlePendingCommit(id)
      PROVE  Forms
  <2>1. /\ DOMAIN states' = DOMAIN states
        /\ \A i \in DOMAIN states : i # id => states'[i] = states[i]
        /\ states'[id] = [states[id] EXCEPT !.pendingEpochAuth = NoAuth]
        /\ UNCHANGED <<txns, wire, draw>>
    BY <1>7 DEF HandlePendingCommit
  <2>2. "g" \in DOMAIN states[id]
    BY <1>0 DEF EntriesOK, EntryOK
  <2>3. states'[id].g = states[id].g
    BY <2>1, <2>2
  <2>4. Talks(id, states[id].g)
    BY <1>0, <2>1, <2>3 DEF Talks, ViewSet
  <2>5. QED
    BY <2>4 DEF Forms
<1>8. ASSUME NEW id \in DOMAIN states, Protect(id)
      PROVE  Forms
  <2> PICK p, data : p = ProtectApplication(states[id].g, data)
                  /\ SetGroup(id, p.view) /\ wire' = wire \cup {p.msg} /\ UNCHANGED <<txns, draw>>
    BY <1>8 DEF Protect, Send
  <2>1. Sends(states[id].g, p.view, p.msg)
    BY <1>0, ProtectSends
  <2>2. Talks(id, p.view)
    BY <1>0, <2>1, SetGroupSets DEF Talks, Sends
  <2>3. QED
    BY <2>2 DEF Forms
<1>9. ASSUME NEW id \in DOMAIN states, GroupInfo(id)
      PROVE  Forms
  <2> PICK g, m : g = states[id].g /\ m = [content |-> "group_info", gi |-> PublishGroupInfo(g)]
    OBVIOUS
  <2>1. m.content = "group_info" /\ m.gi.es = g.es /\ m.gi.gc = g.gc
    BY DEF PublishGroupInfo, SignedGroupInfo
  <2>2. states' = states /\ wire' = wire \cup {m} /\ UNCHANGED <<txns, draw>>
    BY <1>9 DEF GroupInfo, Send
  <2>3. Talks(id, g)
    BY <1>0, <2>1, <2>2 DEF Talks, ViewSet
  <2>4. QED
    BY <2>3 DEF Forms
<1>10. ASSUME NEW id \in DOMAIN states, NEW m \in Messages("key_package"), AddProposal(id, m.kp)
       PROVE  Forms
  BY <1>0, <1>10, FrameTalks DEF AddProposal, Forms
<1>11. ASSUME NEW id \in DOMAIN states, NEW i \in Identities, RemoveProposal(id, i)
       PROVE  Forms
  <2>1. Frame(id, states[id].g, ProposeRemove(resolveIdentity(states[id].g, i))) /\ UNCHANGED <<txns, draw>>
    BY <1>11 DEF RemoveProposal
  <2>2. QED
    BY <1>0, <2>1, FrameTalks DEF Forms
<1>12. ASSUME NEW id \in DOMAIN states, NEW ps, NEW m \in Messages("commit"), HandleCommit(id, ps, m)
       PROVE  Forms
  <2> PICK p : p = ProcessCommit(states[id].g, ps, m)
    OBVIOUS
  <2>1. p.ok /\ SetGroup(id, p.view) /\ UNCHANGED <<txns, wire, draw>>
    BY <1>12 DEF HandleCommit
  <2>2. Processed(states[id].g, m.body, p)
    BY <1>0, CommitProcessed
  <2>3. Follows(id, p.view)
    BY <1>0, <2>1, <2>2, SetGroupSets DEF Follows, Processed
  <2>4. QED
    BY <2>3 DEF Forms
<1>13. ASSUME NEW id \in DOMAIN states, NEW refs, NEW vals, CommitPending(id, refs, vals)
       PROVE  Forms
  BY <1>13, CommitForm DEF Forms
<1>14. QED
  BY <1>1, <1>2, <1>3, <1>4, <1>5, <1>6, <1>7, <1>8, <1>9, <1>10, <1>11, <1>12, <1>13 DEF Next

(***************************************************************************)
(* The invariant.  E is the context of every epoch by the draw that made   *)
(* its secrets; nothing in the tables remembers those that clients have    *)
(* left, so that the invariant says that there is such an E.               *)
(***************************************************************************)
Before(sig, d) == sig[2] \in 1 .. d - 1

Known(E, d, es, gc) == es \in 1 .. d - 1 /\ E[es] = gc

Private(msgs) ==
  {x \in msgs : x.content \in {"proposal", "commit", "application"} /\ x.wf = "private"}

(* Signature keys tell clients and unused key packages apart, and no message
   was ever signed with the key of an unused key package. *)
Sigs ==
  /\ draw \in Nat \ {0}
  /\ \A i \in DOMAIN states : Before(states[i].g.sig, draw)
  /\ \A j \in DOMAIN txns : Before(txns[j].leaf.sig, draw)
  /\ \A i, k \in DOMAIN states : states[i].g.sig = states[k].g.sig => i = k
  /\ \A j, k \in DOMAIN txns : txns[j].leaf.sig = txns[k].leaf.sig => j = k
  /\ \A i \in DOMAIN states, j \in DOMAIN txns : states[i].g.sig # txns[j].leaf.sig
  /\ \A m \in Private(wire) :
       Before(m.signer, draw) /\ \A j \in DOMAIN txns : txns[j].leaf.sig # m.signer

(* What a message says of an epoch is so. *)
Tells(E, d, m) ==
  /\ m.content = "commit" => Known(E, d, m.body.s, TagContext(m.body.tag))
  /\ m.content \in {"welcome", "group_info"} => Known(E, d, m.gi.es, m.gi.gc)

Knowing(E) ==
  /\ draw \in Nat \ {0}
  /\ \A e \in 1 .. draw - 1 : E[e].epoch \in Nat
  /\ \A i \in DOMAIN states :
       Counted(states[i].g) /\ Known(E, draw, states[i].g.es, states[i].g.gc)
  /\ \A m \in wire : Tells(E, draw, m)

(* The message m is behind the client with the view g. *)
Spent(E, g, m) ==
  E[m.es].epoch <= g.gc.epoch /\ (m.es = g.es => m.gen < Counter(g, m))

Spending(E) ==
  \A m \in Private(wire) :
    /\ m.es \in 1 .. draw - 1 /\ m.gen \in Nat
    /\ \A i \in DOMAIN states : states[i].g.sig = m.signer => Spent(E, states[i].g, m)

(* No client protects two messages with the same key and nonce, however the
   calls interleave, whoever forks the group, and whether or not other clients
   have taken its leaf in the meantime: a client's counters, its epochs and its
   signature key never return (FrameProposal, Commit, ProtectApplication). *)
ClientNonceUnique ==
  \A m, n \in Private(wire) : m.signer = n.signer /\ KeyNonce(m) = KeyNonce(n) => m = n

(* Clients with the secrets of the same epoch have the same group context: its
   number, tree hash, transcript and extensions, whichever of CreateGroup,
   Commit, HandleCommit, JoinGroup and ExternalJoin brought them there, and
   though nothing orders the commits. *)
EpochsAgree ==
  \A i, k \in DOMAIN states :
    states[i].g.es = states[k].g.es => states[i].g.gc = states[k].g.gc

LEMMA PrivateAdded ==
  ASSUME NEW W, NEW m, NEW x \in Private(W \cup {m})
  PROVE  x \in Private(W) \/ (x = m /\ m.content \in {"proposal", "commit", "application"}
                                    /\ m.wf = "private")
BY DEF Private

(* Time passes: what was drawn stays drawn, and the next draw is new. *)
LEMMA DrawGrows ==
  ASSUME NEW d \in Nat \ {0}, NEW e \in {d, d + 1}
  PROVE  /\ e \in Nat \ {0}
         /\ 1 .. d - 1 \subseteq 1 .. e - 1
         /\ d \notin 1 .. d - 1
         /\ e = d + 1 => d \in 1 .. e - 1 /\ \A i \in 1 .. e - 1 : i = d \/ i \in 1 .. d - 1
OBVIOUS

(***************************************************************************)
(* Signature keys, form by form.                                           *)
(***************************************************************************)
(* One entry of the clients' table may be new; unused key packages are kept. *)
LEMMA SigsKept ==
  ASSUME Sigs, draw' \in {draw, draw + 1}, NEW k, NEW h, ViewSet(k, h),
         \A j \in DOMAIN txns' : j \in DOMAIN txns /\ txns'[j] = txns[j],
         k \in DOMAIN states' =>
           /\ Before(h.sig, draw')
           /\ \A i \in DOMAIN states : i # k => states[i].g.sig # h.sig
           /\ \A j \in DOMAIN txns' : txns[j].leaf.sig # h.sig,
         \A m \in Private(wire') : m \in Private(wire) \/ (k \in DOMAIN states' /\ m.signer = h.sig)
  PROVE  Sigs'
<1>1. draw' \in Nat \ {0} /\ \A s : Before(s, draw) => Before(s, draw')
  BY DrawGrows, SMTT(30) DEF Sigs, Before
<1>2. \A i \in DOMAIN states' : \/ i = k /\ states'[i].g = h
                                \/ i # k /\ i \in DOMAIN states /\ states'[i] = states[i]
  BY DEF ViewSet
<1>3. \A i \in DOMAIN states' : Before(states'[i].g.sig, draw')
  BY <1>1, <1>2 DEF Sigs
<1>4. \A j \in DOMAIN txns' : Before(txns'[j].leaf.sig, draw')
  BY <1>1 DEF Sigs
<1>5. \A i, l \in DOMAIN states' : states'[i].g.sig = states'[l].g.sig => i = l
  BY <1>2, SMTT(30) DEF Sigs
<1>6. \A j, l \in DOMAIN txns' : txns'[j].leaf.sig = txns'[l].leaf.sig => j = l
  BY DEF Sigs
<1>7. \A i \in DOMAIN states', j \in DOMAIN txns' : states'[i].g.sig # txns'[j].leaf.sig
  BY <1>2, SMTT(30) DEF Sigs
<1>8. ASSUME NEW m \in Private(wire')
      PROVE  Before(m.signer, draw') /\ \A j \in DOMAIN txns' : txns'[j].leaf.sig # m.signer
  BY <1>1, SMTT(30) DEF Sigs
<1>9. QED
  BY <1>1, <1>3, <1>4, <1>5, <1>6, <1>7, <1>8 DEF Sigs

(* A client that exists, whatever it does, keeps its key and signs with it. *)
LEMMA SameSigs ==
  ASSUME Sigs, draw' \in {draw, draw + 1}, NEW id \in DOMAIN states, NEW h, ViewSet(id, h),
         DOMAIN states' = DOMAIN states, txns' = txns, h.sig = states[id].g.sig,
         \A m \in Private(wire') : m \in Private(wire) \/ m.signer = h.sig
  PROVE  Sigs'
<1>1. \A s : Before(s, draw) => Before(s, draw')
  BY DrawGrows DEF Sigs, Before
<1>2. /\ Before(h.sig, draw')
      /\ \A i \in DOMAIN states : i # id => states[i].g.sig # h.sig
      /\ \A j \in DOMAIN txns' : txns[j].leaf.sig # h.sig
  BY <1>1 DEF Sigs
<1>3. QED
  BY <1>2, SigsKept

(* The private messages that the forms add. *)
LEMMA TalksPrivate ==
  ASSUME NEW id, NEW h, Talks(id, h), NEW m \in Private(wire')
  PROVE  m \in Private(wire) \/ (Sends(states[id].g, h, m) /\ m.wf = "private")
BY PrivateAdded, SMTT(30) DEF Talks, Private

LEMMA OpensPrivate ==
  ASSUME NEW id, NEW h, Opens(id, h), NEW m \in Private(wire')
  PROVE  m \in Private(wire) \/ (Uses(states[id].g, m) /\ m.content = "commit")
<1>1. PICK c, w : /\ wire' \subseteq wire \cup {c, w} /\ Uses(states[id].g, c) /\ c.content = "commit"
                  /\ w = NoWelcome \/ w.content = "welcome"
  BY DEF Opens
<1>2. w.content \notin {"proposal", "commit", "application"}
  BY <1>1 DEF NoWelcome
<1>3. QED
  BY <1>1, <1>2 DEF Private

LEMMA AppearsPrivate ==
  ASSUME NEW k, NEW h, Appears(k, h)
  PROVE  Private(wire') = Private(wire)
BY DEF Appears, Private

LEMMA OffersPrivate ==
  ASSUME NEW k, NEW kpkg, Offers(k, kpkg)
  PROVE  Private(wire') = Private(wire)
BY DEF Offers, Private

LEMMA FormsSigs ==
  ASSUME Sigs, Forms
  PROVE  Sigs'
<1>1. ASSUME NEW id \in DOMAIN states, NEW h, Talks(id, h)
      PROVE  Sigs'
  <2>1. h.sig = states[id].g.sig
    BY <1>1 DEF Talks, Stays
  <2>2. \A m \in Private(wire') : m \in Private(wire) \/ m.signer = h.sig
    BY <1>1, <2>1, TalksPrivate DEF Sends, Uses
  <2>3. QED
    BY <1>1, <2>1, <2>2, SameSigs DEF Talks
<1>2. ASSUME NEW id \in DOMAIN states, NEW h, Opens(id, h)
      PROVE  Sigs'
  <2>1. h.sig = states[id].g.sig
    BY <1>2 DEF Opens, Enters
  <2>2. \A m \in Private(wire') : m \in Private(wire) \/ m.signer = h.sig
    BY <1>2, <2>1, OpensPrivate DEF Uses
  <2>3. QED
    BY <1>2, <2>1, <2>2, SameSigs DEF Opens
<1>3. ASSUME NEW id \in DOMAIN states, NEW h, Follows(id, h)
      PROVE  Sigs'
  BY <1>3, SameSigs DEF Follows, Enters
<1>4. ASSUME NEW k, NEW h, Appears(k, h)
      PROVE  Sigs'
  <2>1. h.sig[2] = draw /\ draw' = draw + 1 /\ ViewSet(k, h) /\ txns' = txns
    BY <1>4 DEF Appears
  <2>2. draw \in 1 .. draw' - 1 /\ draw \notin 1 .. draw - 1
    BY <2>1, SMTT(30) DEF Sigs
  <2>3. Before(h.sig, draw') /\ ~Before(h.sig, draw)
    BY <2>1, <2>2 DEF Before
  <2>4. /\ \A i \in DOMAIN states : states[i].g.sig # h.sig
        /\ \A j \in DOMAIN txns : txns[j].leaf.sig # h.sig
    BY <2>3 DEF Sigs
  <2>5. QED
    BY <1>4, <2>1, <2>3, <2>4, AppearsPrivate, SigsKept
<1>5. ASSUME NEW j \in DOMAIN txns, NEW k, NEW h, IsWelcomed(k, h, j)
      PROVE  Sigs'
  <2>1. h.sig = txns[j].leaf.sig /\ draw' = draw /\ wire' = wire /\ ViewSet(k, h)
    BY <1>5 DEF IsWelcomed
  <2>2. \A l \in DOMAIN txns' : l \in DOMAIN txns /\ txns'[l] = txns[l] /\ l # j
    BY <1>5 DEF IsWelcomed, Without
  <2>3. /\ Before(h.sig, draw')
        /\ \A i \in DOMAIN states : states[i].g.sig # h.sig
        /\ \A l \in DOMAIN txns' : txns[l].leaf.sig # h.sig
    BY <2>1, <2>2, SMTT(30) DEF Sigs
  <2>4. QED
    BY <2>1, <2>2, <2>3, SigsKept
<1>6. ASSUME NEW k, NEW kpkg, Offers(k, kpkg)
      PROVE  Sigs'
  <2>1. /\ states' = states /\ draw' = draw + 1 /\ kpkg.leaf.sig[2] = draw
        /\ \A j \in DOMAIN txns' : \/ j = k /\ txns'[j] = kpkg
                                   \/ j # k /\ j \in DOMAIN txns /\ txns'[j] = txns[j]
    BY <1>6 DEF Offers, Insert
  <2>2. draw' \in Nat \ {0} /\ draw \in 1 .. draw' - 1 /\ draw \notin 1 .. draw - 1
    BY <2>1, SMTT(30) DEF Sigs
  <2>3. Before(kpkg.leaf.sig, draw') /\ ~Before(kpkg.leaf.sig, draw)
    BY <2>1, <2>2 DEF Before
  <2>4. \A s : Before(s, draw) => Before(s, draw')
    BY <2>1, DrawGrows DEF Sigs, Before
  <2>5. Private(wire') = Private(wire)
    BY <1>6, OffersPrivate
  <2>6. \A j \in DOMAIN txns' : Before(txns'[j].leaf.sig, draw')
    BY <2>1, <2>3, <2>4 DEF Sigs
  <2>7. \A j, l \in DOMAIN txns' : txns'[j].leaf.sig = txns'[l].leaf.sig => j = l
    BY <2>1, <2>3, SMTT(30) DEF Sigs
  <2>8. \A s : Before(s, draw) /\ (\A j \in DOMAIN txns : txns[j].leaf.sig # s)
               => \A j \in DOMAIN txns' : txns'[j].leaf.sig # s
    BY <2>1, <2>3
  <2>9. QED
    BY <2>1, <2>2, <2>4, <2>5, <2>6, <2>7, <2>8, SMTT(30) DEF Sigs
<1>7. ASSUME Goes
      PROVE  Sigs'
  BY <1>7, SMTT(30) DEF Goes, Sigs
<1>8. QED
  BY <1>1, <1>2, <1>3, <1>4, <1>5, <1>6, <1>7 DEF Forms

(***************************************************************************)
(* Epochs, form by form: F knows what E knew.                              *)
(***************************************************************************)
Extends(E, F) == \A e \in 1 .. draw - 1 : F[e] = E[e]

(* An epoch is opened at the next draw. *)
LEMMA ContextAdded ==
  ASSUME NEW E, Knowing(E), draw' = draw + 1, NEW gc, gc.epoch \in Nat
  PROVE  \E F : /\ Extends(E, F) /\ Known(F, draw', draw, gc)
                /\ \A e \in 1 .. draw' - 1 : F[e].epoch \in Nat
<1>1. draw \in 1 .. draw' - 1 /\ \A e \in 1 .. draw' - 1 : e = draw \/ e \in 1 .. draw - 1
  BY DEF Knowing
<1>2. draw \notin 1 .. draw - 1
  BY DEF Knowing
<1> PICK F : F = [e \in 1 .. draw' - 1 |-> IF e = draw THEN gc ELSE E[e]]
  OBVIOUS
<1>3. F[draw] = gc /\ \A e \in 1 .. draw' - 1 : e # draw => F[e] = E[e]
  BY <1>1
<1>4. 1 .. draw - 1 \subseteq 1 .. draw' - 1
  BY DrawGrows DEF Knowing
<1>5. Extends(E, F)
  BY <1>2, <1>3, <1>4 DEF Extends
<1>6. \A e \in 1 .. draw' - 1 : F[e].epoch \in Nat
  BY <1>1, <1>3 DEF Knowing
<1>7. QED
  BY <1>1, <1>3, <1>5, <1>6 DEF Known

(* A draw that opens no epoch. *)
LEMMA DrawPassed ==
  ASSUME NEW E, Knowing(E), draw' \in {draw, draw + 1}
  PROVE  \E F : Extends(E, F) /\ \A e \in 1 .. draw' - 1 : F[e].epoch \in Nat
<1>1. CASE draw' = draw
  BY <1>1 DEF Extends, Knowing
<1>2. CASE draw' = draw + 1
  <2>1. [epoch |-> 0].epoch \in Nat
    OBVIOUS
  <2>2. QED
    BY <1>2, <2>1, ContextAdded
<1>3. QED
  BY <1>1, <1>2

LEMMA KnowingKept ==
  ASSUME NEW E, Knowing(E), draw' \in {draw, draw + 1}, NEW F, Extends(E, F),
         \A e \in 1 .. draw' - 1 : F[e].epoch \in Nat,
         \A i \in DOMAIN states' :
           \/ i \in DOMAIN states /\ states'[i] = states[i]
           \/ Counted(states'[i].g) /\ Known(F, draw', states'[i].g.es, states'[i].g.gc),
         \A m \in wire' : m \in wire \/ Tells(F, draw', m)
  PROVE  Knowing(F)'
<1>1. draw' \in Nat \ {0} /\ 1 .. draw - 1 \subseteq 1 .. draw' - 1
  BY DrawGrows, SMTT(30) DEF Knowing
<1>2. \A es, gc : Known(E, draw, es, gc) => Known(F, draw', es, gc)
  BY <1>1 DEF Known, Extends
<1>3. \A m : Tells(E, draw, m) => Tells(F, draw', m)
  BY <1>2 DEF Tells
<1>4. \A i \in DOMAIN states' : Counted(states'[i].g) /\ Known(F, draw', states'[i].g.es, states'[i].g.gc)
  BY <1>2 DEF Knowing
<1>5. \A m \in wire' : Tells(F, draw', m)
  BY <1>3 DEF Knowing
<1>6. QED
  BY <1>1, <1>4, <1>5 DEF Knowing

LEMMA SpendingKept ==
  ASSUME NEW E, Knowing(E), Spending(E), draw' \in {draw, draw + 1}, NEW F, Extends(E, F),
         \A i \in DOMAIN states' :
           \/ i \in DOMAIN states /\ states'[i] = states[i]
           \/ \A x \in Private(wire) : states'[i].g.sig = x.signer => Spent(F, states'[i].g, x),
         \A x \in Private(wire') :
           \/ x \in Private(wire)
           \/ /\ x.es \in 1 .. draw' - 1 /\ x.gen \in Nat
              /\ \A i \in DOMAIN states' : states'[i].g.sig = x.signer => Spent(F, states'[i].g, x)
  PROVE  Spending(F)'
<1>1. 1 .. draw - 1 \subseteq 1 .. draw' - 1
  BY DrawGrows DEF Knowing
<1>2. \A x \in Private(wire) : \A g : Spent(E, g, x) => Spent(F, g, x)
  BY DEF Spending, Spent, Extends
<1>3. ASSUME NEW x \in Private(wire)
      PROVE  /\ x.es \in 1 .. draw' - 1 /\ x.gen \in Nat
             /\ \A i \in DOMAIN states' : states'[i].g.sig = x.signer => Spent(F, states'[i].g, x)
  BY <1>1, <1>2 DEF Spending
<1>4. QED
  BY <1>3 DEF Spending

(* One private message more, whose key and nonce its sender has not used. *)
LEMMA UniqueKept ==
  ASSUME ClientNonceUnique, NEW m,
         \A x \in Private(wire') : x \in Private(wire) \/ x = m,
         \A x \in Private(wire) : x.signer = m.signer => KeyNonce(x) # KeyNonce(m)
  PROVE  ClientNonceUnique'
BY DEF ClientNonceUnique

LEMMA CounterFresh ==
  ASSUME NEW E, Knowing(E), Spending(E), NEW id \in DOMAIN states, NEW m, Uses(states[id].g, m),
         NEW x \in Private(wire), x.signer = m.signer
  PROVE  KeyNonce(x) # KeyNonce(m)
<1> PICK g : g = states[id].g
  OBVIOUS
<1> SUFFICES ASSUME KeyNonce(x) = KeyNonce(m)
             PROVE  FALSE
  OBVIOUS
<1>1. x.es = m.es /\ x.gen = m.gen /\ ratchetTypeFor(x.content) = ratchetTypeFor(m.content)
  BY DEF KeyNonce
<1>2. Counter(g, x) = Counter(g, m)
  BY <1>1 DEF ratchetTypeFor, Counter
<1>3. x.gen = Counter(g, x) /\ x.es = g.es /\ x.signer = g.sig
  BY <1>1, <1>2 DEF Uses
<1>4. x.gen < Counter(g, x)
  BY <1>3 DEF Spending, Spent
<1>5. x.gen \in Nat
  BY DEF Spending
<1>6. QED
  BY <1>3, <1>4, <1>5

(* A client keeps behind it what was behind it. *)
LEMMA StaysSpent ==
  ASSUME NEW E, Knowing(E), Spending(E), NEW id \in DOMAIN states, NEW F, Extends(E, F), NEW h,
         Stays(states[id].g, h), NEW x \in Private(wire), h.sig = x.signer
  PROVE  Spent(F, h, x)
<1> PICK g : g = states[id].g
  OBVIOUS
<1>1. Spent(E, g, x) /\ x.es \in 1 .. draw - 1 /\ x.gen \in Nat /\ Counted(g)
  BY DEF Spending, Knowing, Stays
<1>2. F[x.es] = E[x.es]
  BY <1>1 DEF Extends
<1>3. h.gc = g.gc /\ h.es = g.es
  BY DEF Stays
<1>4. Counter(g, x) \in Nat /\ Counter(h, x) \in Nat /\ Counter(g, x) <= Counter(h, x)
  BY <1>1 DEF Stays, Counted, Counter
<1>5. \A a, b, c \in Nat : a < b /\ b <= c => a < c
  BY SMTT(30)
<1>6. x.es = h.es => x.gen < Counter(h, x)
  BY <1>1, <1>3, <1>4, <1>5 DEF Spent
<1>7. QED
  BY <1>1, <1>2, <1>3, <1>6 DEF Spent

(* In a later epoch everything that the client has sent is behind it. *)
LEMMA EntersSpent ==
  ASSUME NEW E, Knowing(E), NEW id \in DOMAIN states, NEW F, Extends(E, F), NEW h,
         F[h.es] = h.gc, h.gc.epoch = states[id].g.gc.epoch + 1,
         NEW x, x.es \in 1 .. draw - 1, E[x.es].epoch <= states[id].g.gc.epoch
  PROVE  Spent(F, h, x)
<1>1. PICK a, b : a = E[x.es].epoch /\ b = states[id].g.gc.epoch
  OBVIOUS
<1>2. a \in Nat /\ b \in Nat /\ a <= b
  BY <1>1 DEF Knowing, Known
<1>3. F[x.es] = E[x.es]
  BY DEF Extends
<1>4. a <= b + 1 /\ a # b + 1
  BY <1>2
<1>5. x.es # h.es
  BY <1>1, <1>3, <1>4
<1>6. QED
  BY <1>1, <1>3, <1>4, <1>5 DEF Spent

(***************************************************************************)
(* The forms.                                                              *)
(***************************************************************************)
NInv == EntriesOK /\ Sigs /\ ClientNonceUnique /\ \E E : Knowing(E) /\ Spending(E)

Kept == ClientNonceUnique' /\ \E F : Knowing(F)' /\ Spending(F)'

LEMMA NothingSent ==
  ASSUME ClientNonceUnique, Private(wire') = Private(wire)
  PROVE  ClientNonceUnique'
BY DEF ClientNonceUnique

LEMMA TalksKept ==
  ASSUME Sigs, Sigs', ClientNonceUnique, NEW E, Knowing(E), Spending(E), NEW id \in DOMAIN states,
         NEW h, Talks(id, h)
  PROVE  Kept
<1> PICK g : g = states[id].g
  OBVIOUS
<1>1. /\ ViewSet(id, h) /\ DOMAIN states' = DOMAIN states /\ draw' \in {draw, draw + 1} /\ Stays(g, h)
  BY DEF Talks
<1>2. PICK F : Extends(E, F) /\ \A e \in 1 .. draw' - 1 : F[e].epoch \in Nat
  BY <1>1, DrawPassed
<1>3. Counted(g) /\ g.es \in 1 .. draw - 1 /\ E[g.es] = g.gc
  BY DEF Knowing, Known
<1>4. 1 .. draw - 1 \subseteq 1 .. draw' - 1
  BY <1>1, DrawGrows DEF Knowing
<1>5. Counted(h) /\ Known(F, draw', h.es, h.gc)
  BY <1>1, <1>2, <1>3, <1>4 DEF Stays, Known, Extends
<1>6. \A i \in DOMAIN states' : \/ i \in DOMAIN states /\ states'[i] = states[i]
                                \/ i = id /\ states'[i].g = h
  BY <1>1 DEF ViewSet
<1>7. \A x \in Private(wire) : h.sig = x.signer => Spent(F, h, x)
  BY <1>1, <1>2, StaysSpent
<1>8. CASE wire' = wire
  <2>1. Knowing(F)'
    BY <1>1, <1>2, <1>5, <1>6, <1>8, KnowingKept
  <2>2. Spending(F)'
    BY <1>1, <1>2, <1>6, <1>7, <1>8, SpendingKept
  <2>3. QED
    BY <1>8, <2>1, <2>2, NothingSent DEF Kept
<1>9. ASSUME NEW m, wire' = wire \cup {m},
             Sends(g, h, m) \/ (m.content = "group_info" /\ m.gi.es = h.es /\ m.gi.gc = h.gc)
      PROVE  Kept
  <2>1. Tells(F, draw', m)
    BY <1>5, <1>9 DEF Tells, Sends
  <2>2. \A x \in wire' : x \in wire \/ Tells(F, draw', x)
    BY <1>9, <2>1
  <2>3. Knowing(F)'
    BY <1>1, <1>2, <1>5, <1>6, <2>2, KnowingKept
  <2>4. \A x \in Private(wire') : x \in Private(wire) \/ (x = m /\ Sends(g, h, m) /\ m.wf = "private")
    BY <1>9, PrivateAdded
  <2>5. ASSUME Sends(g, h, m), m.wf = "private"
        PROVE  /\ m.es \in 1 .. draw' - 1 /\ m.gen \in Nat
               /\ \A i \in DOMAIN states' : states'[i].g.sig = m.signer => Spent(F, states'[i].g, m)
    <3>1. m.es = g.es /\ m.signer = g.sig /\ m.gen = Counter(g, m) /\ m.gen < Counter(h, m)
      BY <2>5 DEF Sends, Uses
    <3>2. m.gen \in Nat
      BY <1>3, <3>1 DEF Counter, Counted
    <3>3. h.sig = g.sig /\ h.es = g.es /\ h.gc = g.gc
      BY <1>1 DEF Stays
    <3>4. F[m.es] = h.gc /\ h.gc.epoch \in Nat
      BY <1>2, <1>5, <3>1, <3>3 DEF Known
    <3>5. F[m.es].epoch <= h.gc.epoch
      BY <3>4
    <3>6. Spent(F, h, m)
      BY <3>1, <3>5 DEF Spent
    <3>7. states'[id].g = h /\ id \in DOMAIN states'
      BY <1>1 DEF ViewSet
    <3>8. \A i \in DOMAIN states' : states'[i].g.sig = m.signer => i = id
      BY <3>1, <3>3, <3>7 DEF Sigs
    <3>9. QED
      BY <1>3, <1>4, <3>1, <3>2, <3>6, <3>7, <3>8
  <2>6. Spending(F)'
    BY <1>1, <1>2, <1>6, <1>7, <2>4, <2>5, SpendingKept
  <2>7. ClientNonceUnique'
    <3>1. CASE Sends(g, h, m)
      <4>1. \A x \in Private(wire) : x.signer = m.signer => KeyNonce(x) # KeyNonce(m)
        BY <3>1, CounterFresh DEF Sends
      <4>2. QED
        BY <2>4, <4>1, UniqueKept
    <3>2. CASE ~Sends(g, h, m)
      BY <2>4, <3>2 DEF ClientNonceUnique
    <3>3. QED
      BY <3>1, <3>2
  <2>8. QED
    BY <2>3, <2>6, <2>7 DEF Kept
<1>10. QED
  BY <1>8, <1>9 DEF Talks

LEMMA OpensKept ==
  ASSUME Sigs, Sigs', ClientNonceUnique, NEW E, Knowing(E), Spending(E), NEW id \in DOMAIN states,
         NEW h, Opens(id, h)
  PROVE  Kept
<1> PICK g : g = states[id].g
  OBVIOUS
<1>1. /\ ViewSet(id, h) /\ DOMAIN states' = DOMAIN states /\ draw' = draw + 1
      /\ Enters(g, h, draw, h.gc) /\ h.gc.epoch = g.gc.epoch + 1
  BY DEF Opens
<1>2. PICK m, w : /\ wire \subseteq wire' /\ wire' \subseteq wire \cup {m, w}
                  /\ m.content = "commit" /\ Uses(g, m)
                  /\ m.body.s = draw /\ TagContext(m.body.tag) = h.gc
                  /\ w = NoWelcome \/ (w.content = "welcome" /\ w.gi.es = draw /\ w.gi.gc = h.gc)
  BY DEF Opens
<1>3. Counted(g) /\ g.es \in 1 .. draw - 1 /\ E[g.es] = g.gc /\ g.gc.epoch \in Nat
  BY DEF Knowing, Known
<1>4. h.gc.epoch \in Nat
  BY <1>1, <1>3
<1>5. PICK F : /\ Extends(E, F) /\ Known(F, draw', draw, h.gc)
               /\ \A e \in 1 .. draw' - 1 : F[e].epoch \in Nat
  BY <1>1, <1>4, ContextAdded
<1>6. 1 .. draw - 1 \subseteq 1 .. draw' - 1
  BY <1>1, DrawGrows DEF Knowing
<1>7. \A i \in DOMAIN states' : \/ i \in DOMAIN states /\ states'[i] = states[i]
                                \/ i = id /\ states'[i].g = h
  BY <1>1 DEF ViewSet
<1>8. Counted(h) /\ h.sig = g.sig /\ h.es = draw /\ F[h.es] = h.gc
  BY <1>1, <1>5 DEF Enters, Known
<1>9. Tells(F, draw', m) /\ Tells(F, draw', w)
  <2>1. Tells(F, draw', m)
    BY <1>2, <1>5 DEF Tells
  <2>2. Tells(F, draw', w)
    BY <1>2, <1>5 DEF Tells, NoWelcome
  <2>3. QED
    BY <2>1, <2>2
<1>10. Knowing(F)'
  <2>1. \A x \in wire' : x \in wire \/ Tells(F, draw', x)
    BY <1>2, <1>9
  <2>2. Known(F, draw', h.es, h.gc)
    BY <1>5, <1>8
  <2>3. QED
    BY <1>1, <1>5, <1>7, <1>8, <2>1, <2>2, KnowingKept
<1>11. \A x \in Private(wire) : h.sig = x.signer => Spent(F, h, x)
  <2> SUFFICES ASSUME NEW x \in Private(wire), h.sig = x.signer
               PROVE  Spent(F, h, x)
    OBVIOUS
  <2>1. x.es \in 1 .. draw - 1 /\ E[x.es].epoch <= g.gc.epoch
    BY <1>8 DEF Spending, Spent
  <2>2. QED
    BY <1>1, <1>5, <1>8, <2>1, EntersSpent
<1>12. \A x \in Private(wire') : x \in Private(wire) \/ x = m
  BY <1>2, SMTT(30) DEF Private, NoWelcome
<1>13. /\ m.es \in 1 .. draw' - 1 /\ m.gen \in Nat
       /\ \A i \in DOMAIN states' : states'[i].g.sig = m.signer => Spent(F, states'[i].g, m)
  <2>1. m.es = g.es /\ m.signer = g.sig /\ m.gen = Counter(g, m)
    BY <1>2 DEF Uses
  <2>2. m.gen \in Nat
    BY <1>3, <2>1 DEF Counter, Counted
  <2>3. E[m.es].epoch <= g.gc.epoch
    BY <1>3, <2>1
  <2>4. Spent(F, h, m)
    BY <1>1, <1>3, <1>5, <1>8, <2>1, <2>3, EntersSpent
  <2>5. states'[id].g = h /\ id \in DOMAIN states'
    BY <1>1 DEF ViewSet
  <2>6. \A i \in DOMAIN states' : states'[i].g.sig = m.signer => i = id
    BY <1>8, <2>1, <2>5 DEF Sigs
  <2>7. QED
    BY <1>3, <1>6, <2>1, <2>2, <2>4, <2>5, <2>6
<1>14. Spending(F)'
  BY <1>1, <1>5, <1>7, <1>11, <1>12, <1>13, SpendingKept
<1>15. ClientNonceUnique'
  <2>1. \A x \in Private(wire) : x.signer = m.signer => KeyNonce(x) # KeyNonce(m)
    BY <1>2, CounterFresh
  <2>2. QED
    BY <1>12, <2>1, UniqueKept
<1>16. QED
  BY <1>10, <1>14, <1>15 DEF Kept

LEMMA FollowsKept ==
  ASSUME ClientNonceUnique, NEW E, Knowing(E), Spending(E), NEW id \in DOMAIN states,
         NEW h, Follows(id, h)
  PROVE  Kept
<1> PICK g : g = states[id].g
  OBVIOUS
<1>1. ViewSet(id, h) /\ DOMAIN states' = DOMAIN states /\ draw' = draw /\ wire' = wire
  BY DEF Follows
<1>2. PICK m \in wire : /\ m.content = "commit" /\ Enters(g, h, m.body.s, TagContext(m.body.tag))
                        /\ TagContext(m.body.tag).epoch = g.gc.epoch + 1
  BY DEF Follows, Messages
<1>3. Known(E, draw, m.body.s, TagContext(m.body.tag))
  BY <1>2 DEF Knowing, Tells
<1>4. /\ Counted(h) /\ h.sig = g.sig /\ Known(E, draw, h.es, h.gc) /\ h.gc.epoch = g.gc.epoch + 1
      /\ E[h.es] = h.gc
  BY <1>2, <1>3 DEF Enters, Known
<1>5. Extends(E, E) /\ \A e \in 1 .. draw' - 1 : E[e].epoch \in Nat
  BY <1>1 DEF Extends, Knowing
<1>6. \A i \in DOMAIN states' : \/ i \in DOMAIN states /\ states'[i] = states[i]
                                \/ i = id /\ states'[i].g = h
  BY <1>1 DEF ViewSet
<1>7. \A x \in Private(wire) : h.sig = x.signer => Spent(E, h, x)
  <2> SUFFICES ASSUME NEW x \in Private(wire), h.sig = x.signer
               PROVE  Spent(E, h, x)
    OBVIOUS
  <2>1. x.es \in 1 .. draw - 1 /\ E[x.es].epoch <= g.gc.epoch
    BY <1>4 DEF Spending, Spent
  <2>2. QED
    BY <1>4, <1>5, <2>1, EntersSpent
<1>8. Knowing(E)'
  BY <1>1, <1>4, <1>5, <1>6, KnowingKept
<1>9. Spending(E)'
  BY <1>1, <1>5, <1>6, <1>7, SpendingKept
<1>10. QED
  BY <1>1, <1>8, <1>9, NothingSent DEF Kept

LEMMA AppearsKept ==
  ASSUME Sigs, ClientNonceUnique, NEW E, Knowing(E), Spending(E), NEW k, NEW h, Appears(k, h)
  PROVE  Kept
<1>1. /\ ViewSet(k, h) /\ draw' = draw + 1 /\ Counted(h) /\ h.sig[2] = draw /\ h.es = draw
      /\ h.gc.epoch \in Nat
  BY DEF Appears
<1>2. PICK F : /\ Extends(E, F) /\ Known(F, draw', draw, h.gc)
               /\ \A e \in 1 .. draw' - 1 : F[e].epoch \in Nat
  BY <1>1, ContextAdded
<1>3. \A i \in DOMAIN states' : \/ i \in DOMAIN states /\ states'[i] = states[i]
                                \/ i = k /\ states'[i].g = h
  BY <1>1 DEF ViewSet
<1>4. \A x \in wire' : x \in wire \/ Tells(F, draw', x)
  BY <1>2 DEF Appears, Tells
<1>5. Knowing(F)'
  BY <1>1, <1>2, <1>3, <1>4, KnowingKept
<1>6. \A x \in Private(wire) : h.sig # x.signer
  <2>1. draw \notin 1 .. draw - 1
    BY SMTT(30) DEF Sigs
  <2>2. QED
    BY <1>1, <2>1 DEF Sigs, Before
<1>7. Private(wire') = Private(wire)
  BY AppearsPrivate
<1>8. Spending(F)'
  BY <1>1, <1>2, <1>3, <1>6, <1>7, SpendingKept
<1>9. QED
  BY <1>5, <1>7, <1>8, NothingSent DEF Kept

LEMMA WelcomedKept ==
  ASSUME Sigs, ClientNonceUnique, NEW E, Knowing(E), Spending(E), NEW j \in DOMAIN txns,
         NEW k, NEW h, IsWelcomed(k, h, j)
  PROVE  Kept
<1>1. ViewSet(k, h) /\ draw' = draw /\ wire' = wire /\ Counted(h) /\ h.sig = txns[j].leaf.sig
  BY DEF IsWelcomed
<1>2. PICK m \in wire : m.content = "welcome" /\ h.es = m.gi.es /\ h.gc = m.gi.gc
  BY DEF IsWelcomed, Messages
<1>3. Known(E, draw, h.es, h.gc)
  BY <1>2 DEF Knowing, Tells
<1>4. Extends(E, E) /\ \A e \in 1 .. draw' - 1 : E[e].epoch \in Nat
  BY <1>1 DEF Extends, Knowing
<1>5. \A i \in DOMAIN states' : \/ i \in DOMAIN states /\ states'[i] = states[i]
                                \/ i = k /\ states'[i].g = h
  BY <1>1 DEF ViewSet
<1>6. \A x \in Private(wire) : h.sig # x.signer
  BY <1>1 DEF Sigs
<1>7. Knowing(E)'
  BY <1>1, <1>3, <1>4, <1>5, KnowingKept
<1>8. Spending(E)'
  BY <1>1, <1>4, <1>5, <1>6, SpendingKept
<1>9. QED
  BY <1>1, <1>7, <1>8, NothingSent DEF Kept

LEMMA OffersKept ==
  ASSUME ClientNonceUnique, NEW E, Knowing(E), Spending(E), NEW k, NEW kpkg, Offers(k, kpkg)
  PROVE  Kept
<1>1. states' = states /\ draw' = draw + 1
  BY DEF Offers
<1>2. PICK F : Extends(E, F) /\ \A e \in 1 .. draw' - 1 : F[e].epoch \in Nat
  BY <1>1, DrawPassed
<1>3. \A x \in wire' : x \in wire \/ Tells(F, draw', x)
  BY DEF Offers, Tells
<1>4. Private(wire') = Private(wire)
  BY OffersPrivate
<1>5. Knowing(F)'
  BY <1>1, <1>2, <1>3, KnowingKept
<1>6. Spending(F)'
  BY <1>1, <1>2, <1>4, SpendingKept
<1>7. QED
  BY <1>4, <1>5, <1>6, NothingSent DEF Kept

LEMMA GoesKept ==
  ASSUME ClientNonceUnique, NEW E, Knowing(E), Spending(E), Goes
  PROVE  Kept
<1>1. draw' = draw /\ wire' = wire
  BY DEF Goes
<1>2. Extends(E, E) /\ \A e \in 1 .. draw' - 1 : E[e].epoch \in Nat
  BY <1>1 DEF Extends, Knowing
<1>3. Knowing(E)' /\ Spending(E)'
  BY <1>1, <1>2, KnowingKept, SpendingKept DEF Goes
<1>4. QED
  BY <1>1, <1>3, NothingSent DEF Kept

LEMMA NNext ==
  ASSUME PInv, NInv, [Next]_vars
  PROVE  PInv' /\ NInv'
<1>1. CASE UNCHANGED vars
  <2>1. PInv' /\ EntriesOK'
    BY <1>1 DEF vars, PInv, PendingIsOwn, Messages, EntriesOK
  <2>2. Sigs' /\ ClientNonceUnique'
    BY <1>1 DEF vars, NInv, Sigs, ClientNonceUnique
  <2>3. \A E : Knowing(E) /\ Spending(E) => Knowing(E)' /\ Spending(E)'
    BY <1>1 DEF vars, Knowing, Spending
  <2>4. QED
    BY <2>1, <2>2, <2>3 DEF NInv
<1>2. CASE Next
  <2>1. PInv' /\ EntriesOK'
    BY <1>2, StepPending DEF PInv
  <2>2. PICK E : Knowing(E) /\ Spending(E)
    BY DEF NInv
  <2>3. Readied
    BY <2>2 DEF Readied, NInv, Knowing, Tells, Known, Messages
  <2>4. Forms
    BY <1>2, <2>3, StepForms
  <2>5. Sigs'
    BY <2>4, FormsSigs DEF NInv
  <2>6. Kept
    BY <2>2, <2>4, <2>5, TalksKept, OpensKept, FollowsKept, AppearsKept, WelcomedKept, OffersKept,
       GoesKept DEF NInv, Forms
  <2>7. QED
    BY <2>1, <2>5, <2>6 DEF NInv, Kept
<1>3. QED
  BY <1>1, <1>2

LEMMA NInit == Init => PInv /\ NInv
<1> SUFFICES ASSUME Init
             PROVE  PInv /\ NInv
  OBVIOUS
<1>1. PInv /\ EntriesOK
  BY DEF Init, PInv, EntriesOK, PendingIsOwn
<1>2. Private(wire) = {}
  BY DEF Init, Private
<1>3. draw = 1 /\ \A e \in 1 .. draw - 1 : FALSE
  BY DEF Init
<1>4. Sigs /\ ClientNonceUnique
  BY <1>2, <1>3 DEF Init, Sigs, ClientNonceUnique
<1>5. \A E : Knowing(E) /\ Spending(E)
  BY <1>2, <1>3 DEF Init, Knowing, Spending
<1>6. QED
  BY <1>1, <1>4, <1>5 DEF NInv

LEMMA NAlways == Spec => [](PInv /\ NInv)
BY NInit, NNext, PTL DEF Spec

(* However the calls interleave, whatever the engine answers, and for any
   number of clients, groups and forks, no client encrypts two different
   messages with the same key and nonce. *)
THEOREM InteropClientNonceUnique == Spec => []ClientNonceUnique
<1>1. PInv /\ NInv => ClientNonceUnique
  BY DEF NInv
<1>2. QED
  BY <1>1, NAlways, PTL

(* Though nothing orders the commits here, clients that hold the secrets of the
   same epoch hold the same group context. *)
THEOREM InteropEpochsAgree == Spec => []EpochsAgree
<1>1. PInv /\ NInv => EpochsAgree
  BY DEF NInv, Knowing, Known, EpochsAgree
<1>2. QED
  BY <1>1, NAlways, PTL
=============================================================================
