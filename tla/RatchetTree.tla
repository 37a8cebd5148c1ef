---------------------------- MODULE RatchetTree ----------------------------
(***************************************************************************)
(* Package mls/tree: index arithmetic of the array tree, the public        *)
(* ratchet tree and its mutations, parent hashes, and TreeKEM, as          *)
(* operators on values.                                                    *)
(*                                                                         *)
(* Cryptography is symbolic.  A secret is a pair <<s, k>>: the random      *)
(* value s ratcheted k times with DeriveSecret(_, "path").  The HPKE key   *)
(* pair DeriveKeyPair(DeriveSecret(<<s, k>>, "node")) is named <<s, k>>    *)
(* too, its public and its private half alike.  A hash is the tuple of     *)
(* what goes into it.                                                      *)
(***************************************************************************)
EXTENDS Integers, Sequences, FiniteSets, FiniteSetsExt, Functions, SequenceFolds

(***************************************************************************)
(* math.go: leaf i is node 2i, intermediate nodes are odd.                 *)
(***************************************************************************)
NodeWidth(nLeaves) == IF nLeaves = 0 THEN 0 ELSE 2 * (nLeaves - 1) + 1

log2[x \in Nat] == IF x < 2 THEN 0 ELSE 1 + log2[x \div 2]

level[x \in Nat] == IF x % 2 = 0 THEN 0 ELSE 1 + level[x \div 2]

Root(nLeaves) == 2 ^ log2[NodeWidth(nLeaves)] - 1

IsParent(x) == level[x] > 0

Left(x) == x - 2 ^ (level[x] - 1)

Right(x, nLeaves) ==
  LET clamp[r \in Nat] == IF r >= NodeWidth(nLeaves) THEN clamp[Left(r)] ELSE r
  IN  clamp[x + 2 ^ (level[x] - 1)]

(* Sets bit k of x and clears bit k + 1, where k is the level. *)
parentStep(x) ==
  LET step(k) == x + 2 ^ k - ((x \div 2 ^ (k + 1)) % 2) * 2 ^ (k + 1)
  IN  step(level[x])

Parent(x, nLeaves) ==
  LET climb[p \in Nat] == IF p >= NodeWidth(nLeaves) THEN climb[parentStep(p)] ELSE p
  IN  climb[parentStep(x)]

Sibling(x, nLeaves) ==
  LET other(p) == IF Left(p) = x THEN Right(p, nLeaves) ELSE Left(p)
  IN  other(Parent(x, nLeaves))

subtreeContains(root, node) ==
  LET half == 2 ^ level[root] - 1
  IN  root - half <= node /\ node <= root + half

(* The nodes above x, bottom-up: the loop "for x != root { x = Parent(x) }". *)
DirectPath(x, nLeaves) ==
  LET up[y \in Nat] == <<y>> \o (IF y = Root(nLeaves) THEN << >> ELSE up[Parent(y, nLeaves)])
  IN  Tail(up[x])

(* The lower of two nodes climbs, both do when they are level. *)
commonAncestor(x, y, nLeaves) ==
  LET meet[p \in Nat \X Nat] ==
        IF p[1] = p[2] THEN p[1]
        ELSE meet[<<IF level[p[1]] <= level[p[2]] THEN Parent(p[1], nLeaves) ELSE p[1],
                    IF level[p[2]] <= level[p[1]] THEN Parent(p[2], nLeaves) ELSE p[2]>>]
  IN  meet[<<x, y>>]

(***************************************************************************)
(* node.go, leaf.go, parent.go: a node is blank, a leaf or a parent.  A    *)
(* leaf carries its encryption key, its owner's signature key, its source  *)
(* and, for the sources whose signature covers it, the index it was        *)
(* signed for (idx) and, for source commit, its parent hash.               *)
(***************************************************************************)
Blank == [kind |-> "blank"]

NoHash == << >>
NoIndex == -1

LeafNode(key, sig, source, idx, ph) ==
  [kind |-> "leaf", key |-> key, sig |-> sig, source |-> source, idx |-> idx, ph |-> ph]

ParentNode(key, ph, unmerged) ==
  [kind |-> "parent", key |-> key, ph |-> ph, unmerged |-> unmerged]

Width(t) == Cardinality(DOMAIN t)
LeafCount(t) == (Width(t) + 1) \div 2
Leaves(t) == {l \in 0 .. LeafCount(t) - 1 : t[2 * l] # Blank}

fullWidth(n) ==
  LET w[x \in Nat] == IF x < n THEN w[2 * x + 1] ELSE x
  IN  w[1]

(* Pads the first n slots of t with blanks to a complete tree. *)
Resize(t, n) == [i \in 0 .. fullWidth(n) - 1 |-> IF i < n /\ i \in DOMAIN t THEN t[i] ELSE Blank]

(* Marshalling drops the trailing blanks and parsing pads again. *)
Clone(t) == Resize(t, 1 + Max({0} \cup {i \in DOMAIN t : t[i] # Blank}))

NewRatchetTree(leaf) == [i \in {0} |-> leaf]

(* The leftmost of the leaves that a search finds. *)
FindLeaf(found) == IF found = {} THEN NoIndex ELSE Min(found)

(* Mutant: the first leaf is taken whatever its key. *)
FindLeafByEncryptionKeyAny(t, key) == FindLeaf(Leaves(t))

FindLeafByEncryptionKey(t, key) == FindLeaf({l \in Leaves(t) : t[2 * l].key = key})
findLeafBySignatureKey(t, sig) == FindLeaf({l \in Leaves(t) : t[2 * l].sig = sig})

(***************************************************************************)
(* mutate.go                                                               *)
(***************************************************************************)
BlankPath(t, leaf) ==
  LET path == Range(DirectPath(2 * leaf, LeafCount(t)))
  IN  [i \in DOMAIN t |-> IF i \in path THEN Blank ELSE t[i]]

InRange(t, leaf) == 2 * leaf < Width(t)

UpdateLeaf(t, leaf, ln) == BlankPath([t EXCEPT ![2 * leaf] = ln], leaf)

(* Mutant: the keys above the removed leaf stay. *)
RemoveLeafKeysStay(t, leaf) == Clone([t EXCEPT ![2 * leaf] = Blank])

RemoveLeaf(t, leaf) == Clone(BlankPath([t EXCEPT ![2 * leaf] = Blank], leaf))

(* A tree with a blank leaf: growing by a parent and a leaf creates one. *)
BlankLeaves(t) == {l \in 0 .. LeafCount(t) - 1 : t[2 * l] = Blank}
Grown(t) == IF BlankLeaves(t) = {} THEN Resize(t, Width(t) + 2) ELSE t

(* Leaf ln becomes unmerged at every node above it. *)
PlaceLeaf(t, leaf, ln) ==
  LET path == Range(DirectPath(2 * leaf, LeafCount(t)))
  IN  [i \in DOMAIN t |->
         IF i = 2 * leaf THEN ln
         ELSE IF t[i].kind = "parent" /\ i \in path THEN [t[i] EXCEPT !.unmerged = @ \cup {leaf}]
         ELSE t[i]]

(* AddLeaf returns the tree and the index of the leaf it took, the leftmost
   blank one. *)
AddLeaf(t, ln) ==
  LET at(u, leaf) == [leaf |-> leaf, tree |-> PlaceLeaf(u, leaf, ln)]
      first(u)    == at(u, Min(BlankLeaves(u)))
  IN  first(Grown(t))

(***************************************************************************)
(* treesync.go: resolutions and tree hashes.  Every node is created with a *)
(* key of its own, so that the key stands for what the node was created    *)
(* with; what changes later, unmerged_leaves, is hashed beside it.         *)
(***************************************************************************)
Resolution(t, i) ==
  LET res[x \in DOMAIN t] ==
        CASE t[x].kind = "leaf"   -> <<x>>
          [] t[x].kind = "parent" -> <<x>> \o [j \in 1 .. Cardinality(t[x].unmerged) |->
                                                 2 * Ascending(t[x].unmerged)[j]]
          [] ~IsParent(x)         -> << >>
          [] OTHER                -> res[Left(x)] \o res[Right(x, LeafCount(t))]
  IN  res[i]

(* The hash of the subtree at i: where it is and what its nodes contain. *)
treeHashExcept(t, i, excluded) ==
  LET content(x) == <<x, t[x].key, IF IsParent(x) THEN t[x].unmerged \ excluded ELSE {}>>
      hashed     == {x \in DOMAIN t : /\ subtreeContains(i, x)
                                      /\ t[x] # Blank
                                      /\ IsParent(x) \/ x \div 2 \notin excluded}
  IN  <<i, {content(x) : x \in hashed}>>

RootTreeHash(t) == treeHashExcept(t, Root(LeafCount(t)), {})

(***************************************************************************)
(* validation.go: what a joiner verifies of a tree it is handed.           *)
(***************************************************************************)
parentHashOf(t, pi, si) == <<t[pi].key, t[pi].ph, treeHashExcept(t, si, t[pi].unmerged)>>

CarriesParentHash(n) == n.kind = "parent" \/ (n.kind = "leaf" /\ n.source = "commit")

hasParentHashMatch(t, pi, ci, si) ==
  LET res      == Range(Resolution(t, ci))
      expected == {2 * l : l \in {u \in t[pi].unmerged : subtreeContains(ci, 2 * u)}}
  IN  \E d \in res : /\ CarriesParentHash(t[d])
                     /\ t[d].ph = parentHashOf(t, pi, si)
                     /\ res \ {d} = expected

VerifyParentHashes(t) ==
  \A i \in {x \in DOMAIN t : t[x].kind = "parent"} :
    LET l == Left(i)
        r == Right(i, LeafCount(t))
    IN  hasParentHashMatch(t, i, l, r) # hasParentHashMatch(t, i, r, l)

LeafSignatureOK(leaf, l) == leaf.source = "key_package" \/ leaf.idx = l

VerifyLeafSignatures(t) ==
  /\ \A l \in Leaves(t) : LeafSignatureOK(t[2 * l], l)
  /\ \A l, m \in Leaves(t) :
       l # m => t[2 * l].sig # t[2 * m].sig /\ t[2 * l].key # t[2 * m].key

(***************************************************************************)
(* treekem.go                                                              *)
(***************************************************************************)
NoSecret == << >>
DerivePath(secret) == <<secret[1], secret[2] + 1>>
Ratchet(secret, n) == <<secret[1], secret[2] + n>>

(* commit_secret: one step past the topmost path secret. *)
CommitSecret(last) == DerivePath(last)

NewTreeKEMPrivate(leaf, key) == [i \in {2 * leaf} |-> key]

AddPathSecret(priv, node, secret) ==
  [i \in DOMAIN priv \cup {node} |-> IF i = node THEN secret ELSE priv[i]]

pathChild(t, p, target) ==
  IF subtreeContains(Left(p), target) THEN Left(p) ELSE Right(p, LeafCount(t))

copathChild(t, p, target) == Sibling(pathChild(t, p, target), LeafCount(t))

filteredDirectPath(t, leaf) ==
  SelectSeq(DirectPath(2 * leaf, LeafCount(t)),
            LAMBDA p : Resolution(t, copathChild(t, p, 2 * leaf)) # << >>)

(* Blanks the direct path, installs pubs on the filtered one (fdp) and assigns
   the parent hashes from the root downwards. *)
installPath(t, leaf, fdp, pubs) ==
  LET n        == Len(fdp)
      blanked  == BlankPath(t, leaf)
      rekeyed  == [i \in DOMAIN t |->
                     IF i \in Range(fdp)
                     THEN ParentNode(pubs[CHOOSE k \in 1 .. n : fdp[k] = i], NoHash, {})
                     ELSE blanked[i]]
      below(u, k) == [u EXCEPT ![fdp[k]].ph =
                        parentHashOf(u, fdp[k + 1], copathChild(t, fdp[k + 1], fdp[k]))]
      hashed[k \in 1 .. n] == IF k = n THEN rekeyed ELSE below(hashed[k + 1], k)
  IN  IF n = 0 THEN blanked ELSE hashed[1]

(* Mutant: the parent hash of the leaf is taken over the wrong side. *)
leafParentHashOwn(t, leaf, fdp) ==
  IF fdp = << >> THEN NoHash
  ELSE parentHashOf(t, fdp[1], pathChild(t, fdp[1], 2 * leaf))

leafParentHash(t, leaf, fdp) ==
  IF fdp = << >> THEN NoHash
  ELSE parentHashOf(t, fdp[1], copathChild(t, fdp[1], 2 * leaf))

(* Merge fails when the UpdatePath does not have the length the receiver
   computes for the sender's filtered direct path. *)
CanMerge(t, leaf, up) == Len(filteredDirectPath(t, leaf)) = Len(up.nodes)

Merge(t, leaf, up) ==
  [installPath(t, leaf, filteredDirectPath(t, leaf), [k \in DOMAIN up.nodes |-> up.nodes[k].key])
     EXCEPT ![2 * leaf] = up.leaf]

(* For each node of the path the slots that get a ciphertext: the resolution
   of its copath child without the leaves added by the same commit. *)
Recipients(t, leaf, fdp, newlyAdded) ==
  [k \in DOMAIN fdp |-> SelectSeq(Resolution(t, copathChild(t, fdp[k], 2 * leaf)),
                                  LAMBDA d : d \notin {2 * l : l \in newlyAdded})]

(***************************************************************************)
(* The sender's side.  s is the random leaf secret, gc the provisional     *)
(* group context, into which mkGroupContext puts the new tree hash.  All   *)
(* ciphertexts of a path are made under that one context, which the path   *)
(* carries once; a ciphertext is the key it is made for.                   *)
(***************************************************************************)
mkGroupContext(gc, treeHash) == [gc EXCEPT !.tree = treeHash]

GenerateUpdatePath(t, leaf, s, sig, newlyAdded, gc) ==
  LET signed(u, fdp) == [u EXCEPT ![2 * leaf] =
                           LeafNode(<<s, 0>>, sig, "commit", leaf, leafParentHash(u, leaf, fdp))]
      made(u, fdp, slots) ==
        [tree         |-> u,
         path         |-> [leaf  |-> u[2 * leaf],
                           nodes |-> [k \in DOMAIN fdp |->
                                        [key |-> <<s, k>>,
                                         to  |-> [j \in DOMAIN slots[k] |-> t[slots[k][j]].key]]],
                           ctx   |-> mkGroupContext(gc, RootTreeHash(u))],
         commitSecret |-> CommitSecret(<<s, Len(fdp)>>),
         pathSecrets  |-> [p \in Range(fdp) |-> <<s, CHOOSE k \in DOMAIN fdp : fdp[k] = p>>]]
      along(fdp) == made(signed(installPath(t, leaf, fdp, [k \in DOMAIN fdp |-> <<s, k>>]), fdp),
                         fdp, Recipients(t, leaf, fdp, newlyAdded))
  IN  along(filteredDirectPath(t, leaf))

(***************************************************************************)
(* The receiver's side: the lowest path node at which a ciphertext is      *)
(* addressed to a key it holds.  No such node gives no secret; a           *)
(* ciphertext that does not open, or a path secret that does not yield the *)
(* published keys, is an error.                                            *)
(***************************************************************************)
NoPathSecret == [ok |-> TRUE, ps |-> NoSecret, commitSecret |-> NoSecret]
BadPath == [NoPathSecret EXCEPT !.ok = FALSE]

(* Ciphertext j of path node k, opened with the key of its slot. *)
OpenPath(slots, up, priv, ctx, k, j) ==
  LET secret  == up.nodes[k].key
      opens   == up.nodes[k].to[j] = priv[slots[k][j]] /\ up.ctx = ctx
      derives == \A i \in k .. Len(slots) : up.nodes[i].key = Ratchet(secret, i - k)
  IN  IF opens /\ derives
      THEN [ok |-> TRUE, ps |-> secret, commitSecret |-> CommitSecret(Ratchet(secret, Len(slots) - k))]
      ELSE BadPath

ProcessUpdatePath(t, sender, up, priv, ctx, newlyAdded) ==
  LET first(slots) == [k \in DOMAIN slots |->
                         Min({j \in DOMAIN slots[k] : slots[k][j] \in DOMAIN priv} \cup {Len(slots[k]) + 1})]
      usable(slots, j) == {k \in DOMAIN slots : j[k] <= Len(slots[k]) /\ j[k] <= Len(up.nodes[k].to)}
      open(slots, j, ks) == IF ks = {} THEN NoPathSecret
                            ELSE OpenPath(slots, up, priv, ctx, Min(ks), j[Min(ks)])
      search(slots, j) == open(slots, j, usable(slots, j))
      receive(slots) == IF Len(slots) # Len(up.nodes) THEN BadPath ELSE search(slots, first(slots))
  IN  receive(Recipients(t, sender, filteredDirectPath(t, sender), newlyAdded))
=============================================================================
