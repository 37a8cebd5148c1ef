------------------------------ MODULE WireCodec ------------------------------
(***************************************************************************)
(* The presentation language of RFC 9420 as mls/syntax implements it, and  *)
(* the wire types of mls/tree, mls/keyschedule, mls/group and mls/framing  *)
(* that are built with it.                                                 *)
(*                                                                         *)
(* A type is a schema: what its marshal writes and its decode reads, field *)
(* by field.  Encode and Decode are the Builder and the Cursor.  Values    *)
(* are sequences of field values; a select is <<tag, body>>, an optional   *)
(* is <<>> or <<value>>.                                                   *)
(*                                                                         *)
(* A message is marshalled, a byte of it may get lost, inserted or changed *)
(* on the way, and what arrives is decoded.                                *)
(***************************************************************************)
EXTENDS Integers, Sequences, TLC

CONSTANTS Radix,        \* values of a byte: 256 in the code
          HashLen,      \* length of a MAC (suite.HashLen)
          Samples,      \* the messages that are sent: kind -> values
          MaxFaults,    \* bound: bytes lost, inserted or changed
          MaxFaultLen   \* bound: length of a message that is disturbed

ASSUME RadixAssumption == Radix % 4 = 0 /\ Radix >= 8

Byte == 0 .. Radix - 1

-----------------------------------------------------------------------------
(* Builder and Cursor.  Reading gives the set of readings: a value and the  *)
(* bytes that follow it, or none when the code returns an error.            *)

Read(v, rest) == [val |-> v, rest |-> rest]

take(b, n) ==
  {Read(SubSeq(b, 1, k), SubSeq(b, k + 1, Len(b))) : k \in {n} \cap (0 .. Len(b))}

(* Fixed-width integers, big-endian.                                        *)
WriteUint(v, n) == [i \in 1 .. n |-> (v \div Radix ^ (n - i)) % Radix]

BigEndian(b) ==
  LET upto[i \in 0 .. Len(b)] == IF i = 0 THEN 0 ELSE upto[i - 1] * Radix + b[i]
  IN  upto[Len(b)]

ReadUint(b, n) == {Read(BigEndian(r.val), r.rest) : r \in take(b, n)}

(* Lengths: one, two or four bytes, told apart by the top two bits.  A      *)
(* length above MaxVarint has no form: the write returns nil and an error.  *)
Quarter == Radix \div 4

MaxVarint == Quarter * Radix ^ 3 - 1

VarintLen(v) ==
  CASE v < Quarter -> 1
    [] Quarter <= v /\ v < Quarter * Radix -> 2
    [] Quarter * Radix <= v /\ v <= MaxVarint -> 4
    [] OTHER -> 0

TopBits(n) == CASE n = 1 -> 0 [] n = 2 -> 1 [] n = 4 -> 2

VarintPrefix(n) == TopBits(n) * Quarter * Radix ^ (n - 1)

WriteVarint_Late(v) ==
  LET n == IF v <= Quarter THEN 1 ELSE VarintLen(v) IN WriteUint(v + VarintPrefix(n), n)

WriteVarint(v) ==
  LET n == VarintLen(v) IN IF n = 0 THEN <<>> ELSE WriteUint(v + VarintPrefix(n), n)

(* A length in more bytes than it needs is refused.                         *)
Minimal_Not(v, n) == TRUE
Minimal(v, n) == Len(WriteVarint(v)) = n

ReadVarint(b) ==
  LET lens == {n \in {1, 2, 4} : b # <<>> /\ b[1] \div Quarter = TopBits(n)}
      read(n) == {Read(BigEndian(r.val) - VarintPrefix(n), r.rest) : r \in take(b, n)}
  IN  UNION {{r \in read(n) : Minimal(r.val, n)} : n \in lens}

(* The error of WriteVarint is returned, so nothing is written of bytes that *)
(* are too many; no sample has as many.                                     *)
WriteOpaqueV(b) == IF Len(b) > MaxVarint THEN <<>> ELSE WriteVarint(Len(b)) \o b

ReadOpaqueV(b) == UNION {take(r.rest, r.val) : r \in ReadVarint(b)}

-----------------------------------------------------------------------------
(* Schemas                                                                  *)

U(n)          == [is |-> "uint", n |-> n]
Is(n, v)      == [is |-> "const", n |-> n, v |-> v]   \* a number that must be v
Raw(n)        == [is |-> "raw", n |-> n]
V             == [is |-> "opaque"]
Vector(s)     == [is |-> "vector", of |-> s]
Optional(s)   == [is |-> "optional", of |-> s]
Select(n, s)  == [is |-> "select", n |-> n, of |-> s]
Struct(s)     == [is |-> "struct", of |-> s]
Empty         == Struct(<<>>)

(* A field that is there iff the select in field i has one of these tags.   *)
When(i, tags, s) == [is |-> "when", field |-> i, tags |-> tags, of |-> s]

(* Bytes that are written as they are; reading finds their end with a       *)
(* schema of its own.  They hold a value of type t.                         *)
Skim(s, t) == [is |-> "skim", of |-> s, t |-> t]

Present(f, vals) == vals[f.field][1] \in f.tags

RECURSIVE Encode(_, _), EncodeEach(_, _), EncodeFields(_, _, _)

EncodeEach(s, vs) ==
  IF vs = <<>> THEN <<>> ELSE Encode(s, Head(vs)) \o EncodeEach(s, Tail(vs))

EncodeFields(fs, vals, i) ==
  CASE i > Len(fs) -> <<>>
    [] i <= Len(fs) /\ fs[i].is = "when" ->
         (IF Present(fs[i], vals) THEN Encode(fs[i].of, vals[i][1]) ELSE <<>>)
           \o EncodeFields(fs, vals, i + 1)
    [] OTHER -> Encode(fs[i], vals[i]) \o EncodeFields(fs, vals, i + 1)

WriteOptional(s, v) == IF v = <<>> THEN <<0>> ELSE <<1>> \o Encode(s, v[1])

WriteVectorV(s, vs) == WriteOpaqueV(EncodeEach(s, vs))

Encode(s, v) ==
  CASE s.is = "uint"     -> WriteUint(v, s.n)
    [] s.is = "const"    -> WriteUint(s.v, s.n)
    [] s.is = "raw"      -> v
    [] s.is = "opaque"   -> WriteOpaqueV(v)
    [] s.is = "vector"   -> WriteVectorV(s.of, v)
    [] s.is = "optional" -> WriteOptional(s.of, v)
    [] s.is = "select"   -> WriteUint(v[1], s.n) \o Encode(s.of[v[1]], v[2])
    [] s.is = "struct"   -> EncodeFields(s.of, v, 1)
    [] s.is = "skim"     -> v

RECURSIVE Decode(_, _), DecodeEach(_, _, _), DecodeFields(_, _, _)

(* The element decoder runs until the vector's body is used up.             *)
DecodeEach(s, b, got) ==
  IF b = <<>> THEN {Read(got, <<>>)}
  ELSE UNION {DecodeEach(s, r.rest, Append(got, r.val)) : r \in Decode(s, b)}

ReadVectorV(s, b) ==
  UNION {{Read(all.val, body.rest) : all \in DecodeEach(s, body.val, <<>>)} : body \in ReadOpaqueV(b)}

ReadOptional(s, b) ==
  UNION {IF present.val = 0 THEN {Read(<<>>, present.rest)}
         ELSE {Read(<<r.val>>, r.rest) : r \in Decode(s, present.rest)}
         : present \in {r \in ReadUint(b, 1) : r.val \in {0, 1}}}

ReadSelect(s, b) ==
  UNION {{Read(<<tag.val, r.val>>, r.rest) : r \in Decode(s.of[tag.val], tag.rest)}
         : tag \in {r \in ReadUint(b, s.n) : r.val \in DOMAIN s.of}}

ReadWhen(f, b, got) ==
  IF Present(f, got) THEN {Read(<<r.val>>, r.rest) : r \in Decode(f.of, b)} ELSE {Read(<<>>, b)}

DecodeFields(fs, b, got) ==
  IF Len(got) = Len(fs) THEN {Read(got, b)}
  ELSE LET f == fs[Len(got) + 1]
       IN  UNION {DecodeFields(fs, r.rest, Append(got, r.val))
                  : r \in IF f.is = "when" THEN ReadWhen(f, b, got) ELSE Decode(f, b)}

skim(s, b) == {Read(SubSeq(b, 1, Len(b) - Len(r.rest)), r.rest) : r \in Decode(s, b)}

Decode(s, b) ==
  CASE s.is = "uint"     -> ReadUint(b, s.n)
    [] s.is = "const"    -> {r \in ReadUint(b, s.n) : r.val = s.v}
    [] s.is = "raw"      -> take(b, s.n)
    [] s.is = "opaque"   -> ReadOpaqueV(b)
    [] s.is = "vector"   -> ReadVectorV(s.of, b)
    [] s.is = "optional" -> ReadOptional(s.of, b)
    [] s.is = "select"   -> ReadSelect(s, b)
    [] s.is = "struct"   -> DecodeFields(s.of, b, <<>>)
    [] s.is = "skim"     -> skim(s.of, b)

(* UnmarshalMLS: nothing may follow.                                        *)
Unmarshal(s, b) == {r \in Decode(s, b) : r.rest = <<>>}

-----------------------------------------------------------------------------
(* mls/tree                                                                 *)

Extension == Struct(<<U(2), V>>)

Credential == Select(2, (1 :> V) @@ (2 :> Vector(V)))

(* versions, cipher suites, extensions, proposals, credentials              *)
Capabilities == Struct([i \in 1 .. 5 |-> Vector(U(2))])

Lifetime == Struct(<<U(8), U(8)>>)

(* Field 5 is the source: key_package, update or commit.                    *)
LeafNodeContents ==
  <<V, V, Credential, Capabilities,
    Select(1, (1 :> Lifetime) @@ (2 :> Empty) @@ (3 :> V)), Vector(Extension)>>

LeafNode == Struct(Append(LeafNodeContents, V))

(* What a leaf's signature covers: group and leaf index for update, commit. *)
LeafNodeTBS(l, groupID, leafIndex) ==
  Encode(Struct(LeafNodeContents), SubSeq(l, 1, 6))
    \o (IF l[5][1] \in {2, 3} THEN WriteOpaqueV(groupID) \o WriteUint(leafIndex, 4) ELSE <<>>)

ParentNode == Struct(<<V, V, Vector(U(4))>>)

Node == Select(1, (1 :> LeafNode) @@ (2 :> ParentNode))

HPKECiphertext == Struct(<<V, V>>)

UpdatePathNode == Struct(<<V, Vector(HPKECiphertext)>>)

UpdatePath == Struct(<<LeafNode, Vector(UpdatePathNode)>>)

(* The tree's nodes by index, without the blanks at the end; reading fills  *)
(* them up to a complete tree.                                              *)
TreeNodes == Vector(Optional(Node))

fullWidth(n) ==
  LET w == {2 ^ k - 1 : k \in 1 .. n}
  IN  CHOOSE x \in w : x >= n /\ \A y \in w : y >= n => x <= y

WithoutTrailingBlanks(nodes) ==
  LET used == {0} \union {i \in 1 .. Len(nodes) : nodes[i] # <<>>}
  IN  SubSeq(nodes, 1, CHOOSE i \in used : \A j \in used : j <= i)

ParseRatchetTree(b) ==
  LET filled(nodes) == nodes \o [i \in 1 .. fullWidth(Len(nodes)) - Len(nodes) |-> <<>>]
  IN  {Read(filled(r.val), <<>>) :
         r \in {r \in Unmarshal(TreeNodes, b) : r.val # <<>> /\ r.val[Len(r.val)] # <<>>}}

-----------------------------------------------------------------------------
(* mls/keyschedule                                                          *)

PreSharedKeyID ==
  Struct(<<Select(1, (1 :> V) @@ (2 :> Struct(<<U(1), V, U(8)>>))), V>>)

pskLabel(id, index, count) ==
  Encode(PreSharedKeyID, id) \o WriteUint(index, 2) \o WriteUint(count, 2)

GroupContext == Struct(<<U(2), U(2), V, U(8), V, V, Vector(Extension)>>)

(* A commit's AuthenticatedContent without the confirmation tag at its end, *)
(* and the tag: cut off by length, not parsed.                              *)
SplitAt(ac, fieldLen) ==
  {[input |-> SubSeq(ac, 1, Len(ac) - n), tag |-> SubSeq(ac, Len(ac) - HashLen + 1, Len(ac))]
     : n \in {fieldLen} \cap (0 .. Len(ac))}

SplitAuthenticatedContent_OneByte(ac) == SplitAt(ac, 1 + HashLen)

SplitAuthenticatedContent(ac) == SplitAt(ac, Len(WriteOpaqueV([i \in 1 .. HashLen |-> 0])))

-----------------------------------------------------------------------------
(* mls/group                                                                *)

KeyPackageTBS == <<U(2), U(2), V, LeafNode, Vector(Extension)>>

KeyPackage == Struct(Append(KeyPackageTBS, V))

(* add, update, remove, psk, reinit, external_init, group_context_extensions*)
Proposal ==
  Select(2, (1 :> KeyPackage) @@ (2 :> LeafNode) @@ (3 :> U(4)) @@ (4 :> PreSharedKeyID)
            @@ (5 :> Struct(<<V, U(2), U(2), Vector(Extension)>>)) @@ (6 :> V)
            @@ (7 :> Vector(Extension)))

ProposalOrRef == Select(1, (1 :> Proposal) @@ (2 :> V))

Commit == Struct(<<Vector(ProposalOrRef), Optional(UpdatePath)>>)

GroupInfoTBS == <<GroupContext, Vector(Extension), V, U(4)>>

GroupInfo == Struct(Append(GroupInfoTBS, V))

PathSecret == V

GroupSecrets == Struct(<<V, Optional(PathSecret), Vector(PreSharedKeyID)>>)

EncryptedGroupSecrets == Struct(<<V, HPKECiphertext>>)

Welcome == Struct(<<U(2), Vector(EncryptedGroupSecrets), V>>)

(* The MLSMessage envelopes of this package: version and format must match. *)
Envelope(format, body) == Struct(<<Is(2, 1), Is(2, format), body>>)

WelcomeMessage == Envelope(3, Welcome)

GroupInfoMessage == Envelope(4, GroupInfo)

KeyPackageMessage == Envelope(5, KeyPackage)

-----------------------------------------------------------------------------
(* mls/framing.  It finds the end of an inline Proposal or Commit with      *)
(* schemas of its own.                                                      *)

skimPreSharedKeyID_NoNonce ==
  Select(1, (1 :> V) @@ (2 :> Struct(<<U(1), V, U(8)>>)))

skimPreSharedKeyID ==
  Struct(<<Select(1, (1 :> V) @@ (2 :> Struct(<<U(1), V, U(8)>>))), V>>)

skimKeyPackage == Struct(<<U(2), U(2), V, LeafNode, Vector(Extension), V>>)

skimProposal ==
  Select(2, (1 :> skimKeyPackage) @@ (2 :> LeafNode) @@ (3 :> U(4))
            @@ (4 :> skimPreSharedKeyID) @@ (5 :> Struct(<<V, U(2), U(2), V>>))
            @@ (6 :> V) @@ (7 :> V))

skimCommit == Struct(<<V, Optional(UpdatePath)>>)

(* member, external, new_member_proposal, new_member_commit                 *)
Sender == Select(1, (1 :> U(4)) @@ (2 :> U(4)) @@ (3 :> Empty) @@ (4 :> Empty))

(* application, proposal, commit                                            *)
Content ==
  Select(1, (1 :> V) @@ (2 :> Skim(skimProposal, Proposal)) @@ (3 :> Skim(skimCommit, Commit)))

(* Field 3 is the sender, field 5 the content.                              *)
FramedContent == <<V, U(8), Sender, V, Content>>

(* The confirmation tag comes with a commit; field i is the content.        *)
FramedContentAuthData(i) == <<V, When(i, {3}, V)>>

PublicMessage ==
  Struct(FramedContent \o FramedContentAuthData(5) \o <<When(3, {1}, V)>>)

PrivateMessage == Struct(<<V, U(8), U(1), V, V, V>>)

MLSMessage == Struct(<<U(2), Select(2, (1 :> PublicMessage) @@ (2 :> PrivateMessage))>>)

senderData == Struct(<<U(4), U(4), Raw(4)>>)

senderDataAAD(groupID, epoch, ct) ==
  WriteOpaqueV(groupID) \o WriteUint(epoch, 8) \o WriteUint(ct, 1)

privateContentAAD(groupID, epoch, ct, ad) == senderDataAAD(groupID, epoch, ct) \o WriteOpaqueV(ad)

(* What a signature and a membership tag cover: the group context is bound  *)
(* for members and for new members that commit.                             *)
framedContentTBS_Member(wf, fc, gc) ==
  WriteUint(1, 2) \o WriteUint(wf, 2) \o Encode(Struct(FramedContent), fc)
    \o (IF fc[3][1] = 1 THEN Encode(GroupContext, gc) ELSE <<>>)

framedContentTBS(wf, fc, gc) ==
  WriteUint(1, 2) \o WriteUint(wf, 2) \o Encode(Struct(FramedContent), fc)
    \o (IF fc[3][1] \in {1, 4} THEN Encode(GroupContext, gc) ELSE <<>>)

AuthData(fc, auth) == EncodeFields(FramedContent \o FramedContentAuthData(5), fc \o auth, 6)

authenticatedContentTBM(wf, fc, auth, gc) == framedContentTBS(wf, fc, gc) \o AuthData(fc, auth)

(* wire_format, content and auth: the bytes that SplitAuthenticatedContent  *)
(* gets; and the transcript input that SignCommit hashes for the committer. *)
AuthenticatedContent(wf, fc, auth) ==
  WriteUint(wf, 2) \o Encode(Struct(FramedContent), fc) \o AuthData(fc, auth)

SignCommit(wf, fc, signature) ==
  WriteUint(wf, 2) \o Encode(Struct(FramedContent), fc) \o WriteOpaqueV(signature)

(* The plaintext of a PrivateMessage: content and auth, whose content type  *)
(* stands outside, and zeros.                                               *)
PrivateContent == Struct(<<Content>> \o FramedContentAuthData(1))

privateMessageContent(v, padding) ==
  Tail(Encode(PrivateContent, v)) \o [i \in 1 .. padding |-> 0]

decodePrivateMessageContent(b, ct) ==
  {r \in Decode(PrivateContent, <<ct>> \o b) : \A i \in 1 .. Len(r.rest) : r.rest[i] = 0}

-----------------------------------------------------------------------------
(* Inputs of hashes and key derivations                                     *)

(* tree.treeHashExcept: a leaf with its index, a parent with both hashes.   *)
LeafHashInput(leafIndex, leaf) ==
  WriteUint(1, 1) \o WriteUint(leafIndex, 4) \o WriteOptional(LeafNode, leaf)

ParentHashInput(parent, leftHash, rightHash) ==
  WriteUint(2, 1) \o WriteOptional(ParentNode, parent)
    \o WriteOpaqueV(leftHash) \o WriteOpaqueV(rightHash)

(* cipher.ExpandWithLabel and labeledContext                                *)
KDFLabel(length, label, context) ==
  WriteUint(length, 2) \o WriteOpaqueV(label) \o WriteOpaqueV(context)

labeledContext(label, data) == WriteOpaqueV(label) \o WriteOpaqueV(data)

-----------------------------------------------------------------------------
(* Messages on their way                                                    *)

Messages ==
  ("Credential" :> Credential) @@ ("LeafNode" :> LeafNode) @@ ("ParentNode" :> ParentNode)
  @@ ("UpdatePath" :> UpdatePath) @@ ("PreSharedKeyID" :> PreSharedKeyID)
  @@ ("GroupContext" :> GroupContext) @@ ("KeyPackage" :> KeyPackage)
  @@ ("Proposal" :> Proposal) @@ ("ProposalOrRef" :> ProposalOrRef) @@ ("Commit" :> Commit)
  @@ ("GroupInfo" :> GroupInfo) @@ ("GroupSecrets" :> GroupSecrets) @@ ("Welcome" :> Welcome)
  @@ ("WelcomeMessage" :> WelcomeMessage) @@ ("GroupInfoMessage" :> GroupInfoMessage)
  @@ ("KeyPackageMessage" :> KeyPackageMessage) @@ ("MLSMessage" :> MLSMessage)
  @@ ("senderData" :> senderData)

(* What is written to be signed, authenticated or hashed and never read, by *)
(* the arguments of the functions above.                                    *)
Input(k, a) ==
  CASE k = "LeafNodeTBS" -> LeafNodeTBS(a[1], a[2], a[3])
    [] k = "framedContentTBS" -> framedContentTBS(a[1], a[2], a[3])
    [] k = "authenticatedContentTBM" -> authenticatedContentTBM(a[1], a[2], a[3], a[4])
    [] k = "SignCommit" -> SignCommit(a[1], a[2], a[3])
    [] k = "KeyPackageTBS" -> Encode(Struct(KeyPackageTBS), a)
    [] k = "GroupInfoTBS" -> Encode(Struct(GroupInfoTBS), a)
    [] k = "pskLabel" -> pskLabel(a[1], a[2], a[3])
    [] k = "privateContentAAD" -> privateContentAAD(a[1], a[2], a[3], a[4])
    [] k = "TreeHash" -> IF a[1] = "leaf" THEN LeafHashInput(a[2], a[3])
                         ELSE ParentHashInput(a[2], a[3], a[4])
    [] k = "KDFLabel" -> KDFLabel(a[1], a[2], a[3])
    [] k = "labeledContext" -> labeledContext(a[1], a[2])

Inputs == {"LeafNodeTBS", "framedContentTBS", "authenticatedContentTBM", "SignCommit",
           "KeyPackageTBS", "GroupInfoTBS", "pskLabel", "privateContentAAD", "TreeHash",
           "KDFLabel", "labeledContext"}

VARIABLES kind, sent,   \* the message that is marshalled
          wire,         \* its bytes, as they arrive
          faults

wvars == <<kind, sent, wire, faults>>

Marshal(k, v) ==
  CASE k \in DOMAIN Messages -> Encode(Messages[k], v)
    [] k = "RatchetTree" -> Encode(TreeNodes, WithoutTrailingBlanks(v))
    [] k = "PrivateMessageContent" -> privateMessageContent(v, 2)
    [] k \in Inputs -> Input(k, v)

(* The receiver decodes; of a PrivateMessage it knows the content type.     *)
Receive ==
  CASE kind \in DOMAIN Messages -> Unmarshal(Messages[kind], wire)
    [] kind = "RatchetTree" -> ParseRatchetTree(wire)
    [] kind = "PrivateMessageContent" -> decodePrivateMessageContent(wire, sent[1][1])
    [] kind \in Inputs -> {}

Init ==
  /\ kind \in DOMAIN Samples
  /\ sent \in Samples[kind]
  /\ wire = Marshal(kind, sent)
  /\ faults = 0

(* A byte is lost, inserted or changed.                                     *)
Disturb(new) ==
  /\ faults < MaxFaults
  /\ kind \notin Inputs
  /\ Len(wire) <= MaxFaultLen
  /\ faults' = faults + 1
  /\ wire' = new
  /\ wire' # wire
  /\ UNCHANGED <<kind, sent>>

Lose(i) == Disturb(SubSeq(wire, 1, i - 1) \o SubSeq(wire, i + 1, Len(wire)))
Insert(i, b) == Disturb(SubSeq(wire, 1, i - 1) \o <<b>> \o SubSeq(wire, i, Len(wire)))
Change(i, b) == Disturb([wire EXCEPT ![i] = b])

Next ==
  \/ \E i \in 1 .. Len(wire) : Lose(i)
  \/ \E i \in 1 .. Len(wire) + 1, b \in Byte : Insert(i, b)
  \/ \E i \in 1 .. Len(wire), b \in Byte : Change(i, b)

Spec == Init /\ [][Next]_wvars

-----------------------------------------------------------------------------
(* What is sent is what is received: every type's decode reads back exactly *)
(* what its marshal wrote, up to the last byte, whatever the lengths; a     *)
(* ratchet tree gets its trailing blanks back, padding is taken off.        *)
RoundTrip ==
  faults = 0 /\ kind \notin Inputs => {r.val : r \in Receive} = {sent}

(* What is signed, authenticated or hashed determines each of its parts:    *)
(* two contents, group contexts, positions or labels never give the same    *)
(* bytes, so a signature, tag or hash binds all of them.                    *)
InputsDetermined ==
  kind \in Inputs => \A other \in Samples[kind] : Marshal(kind, other) = wire => other = sent

(* Bytes have one reading and a value one encoding.  Signatures, refs and   *)
(* transcripts are computed from the decoded message, marshalled again, so  *)
(* whatever bytes decode accepts must be the ones marshal gives (padding    *)
(* aside).                                                                  *)
Canonical ==
  \A r \in Receive :
    \/ Marshal(kind, r.val) = wire
    \/ /\ kind = "PrivateMessageContent"
       /\ \E n \in 0 .. Len(wire) : privateMessageContent(r.val, n) = wire

(* Framing's skimmers and group's decoders are two readings of one grammar. *)
(* Where a Proposal or Commit ends for the decoder, it ends for the         *)
(* skimmer, whatever follows; else the signature is read from a wrong place.*)
SkimsAlike ==
  \A tail \in {<<>>, <<0, 1>>} :
    LET rests(s) == {r.rest : r \in Decode(s, wire \o tail)}
    IN  /\ kind = "Proposal" => rests(Proposal) \subseteq rests(skimProposal)
        /\ kind = "Commit" => rests(Commit) \subseteq rests(skimCommit)

(* The receiver of a commit cuts the confirmation tag off by its length and *)
(* gets the transcript input that the committer signed; a tag of another    *)
(* length never gives that input, so such a commit does not confirm.        *)
SameTranscript ==
  \A r \in Receive :
    LET m == r.val[2][2]
        fc == SubSeq(m, 1, 5)
        split == SplitAuthenticatedContent(AuthenticatedContent(1, fc, <<m[6], m[7]>>))
        input == SignCommit(1, fc, m[6])
    IN  kind = "MLSMessage" /\ r.val[2][1] = 1 /\ m[5][1] = 3 =>
          IF Len(m[7][1]) = HashLen
          THEN split = {[input |-> input, tag |-> m[7][1]]}
          ELSE \A p \in split : p.input # input
=============================================================================
