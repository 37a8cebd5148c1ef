---------------------------- MODULE MCWireCodec ----------------------------
(* Messages for WireCodec.  A byte has eight values, so that lengths of one,
   two and four bytes all occur in short messages (the boundaries are 2 and
   16).  Of a structure, one field at a time takes other values than its
   usual one. *)
EXTENDS WireCodec

RECURSIVE Usual(_), Variants(_), UsualFields(_, _)

UsualFields(fs, got) ==
  IF Len(got) = Len(fs) THEN got
  ELSE LET f == fs[Len(got) + 1]
           v == CASE f.is = "when" /\ Present(f, got) -> <<Usual(f.of)>>
                  [] f.is = "when" /\ ~Present(f, got) -> <<>>
                  [] OTHER -> Usual(f)
       IN  UsualFields(fs, Append(got, v))

Least(S) == CHOOSE x \in S : \A y \in S : x <= y

Usual(s) ==
  CASE s.is = "uint"     -> 1
    [] s.is = "const"    -> s.v
    [] s.is = "raw"      -> [i \in 1 .. s.n |-> 6]
    [] s.is = "opaque"   -> <<5>>
    [] s.is = "vector"   -> <<>>
    [] s.is = "optional" -> <<>>
    [] s.is = "select"   -> LET t == Least(DOMAIN s.of) IN <<t, Usual(s.of[t])>>
    [] s.is = "struct"   -> UsualFields(s.of, <<>>)
    [] s.is = "skim"     -> Encode(s.t, Usual(s.t))

(* The fields up to i as given, those after it as usual: a later field may
   come or go with what field i selects. *)
Vary(fs, i, v) == UsualFields(fs, Append(SubSeq(UsualFields(fs, <<>>), 1, i - 1), v))

Variants(s) ==
  CASE s.is = "uint"     -> {0, 1, Radix ^ s.n - 1}
    [] s.is = "const"    -> {s.v}
    [] s.is = "raw"      -> {Usual(s)}
    [] s.is = "opaque"   -> {<<>>, <<5>>, <<7, 0>>, [i \in 1 .. 16 |-> i % Radix]}
    [] s.is = "vector"   -> {<<>>, <<Usual(s.of), Usual(s.of)>>} \union {<<v>> : v \in Variants(s.of)}
    [] s.is = "optional" -> {<<>>} \union {<<v>> : v \in Variants(s.of)}
    [] s.is = "select"   -> UNION {{<<t, v>> : v \in Variants(s.of[t])} : t \in DOMAIN s.of}
    [] s.is = "skim"     -> {Encode(s.t, v) : v \in Variants(s.t)}
    [] s.is = "struct"   ->
         {Usual(s)} \union
         UNION {{Vary(s.of, i, v) : v \in IF s.of[i].is = "when"
                                          THEN IF Present(s.of[i], Usual(s))
                                               THEN {<<w>> : w \in Variants(s.of[i].of)}
                                               ELSE {<<>>}
                                          ELSE Variants(s.of[i])}
                : i \in DOMAIN s.of}

(* Trees of up to four leaves as the group keeps them: complete, with a leaf
   in the right half. *)
Leaf == <<1, Usual(LeafNode)>>
Parent == <<2, Usual(ParentNode)>>
Trees == {<<<<Leaf>>>>,
          <<<<Leaf>>, <<>>, <<Leaf>>>>,
          <<<<>>, <<Parent>>, <<Leaf>>>>,
          <<<<Leaf>>, <<>>, <<>>, <<Parent>>, <<Leaf>>, <<>>, <<>>>>,
          <<<<Leaf>>, <<Parent>>, <<Leaf>>, <<>>, <<>>, <<>>, <<Leaf>>>>}

Strings == {<<>>, <<5>>, <<1, 5>>, <<5, 1, 5>>}
Contexts == {Usual(GroupContext), Vary(GroupContext.of, 4, 2)}
Contents == {[Usual(Struct(FramedContent)) EXCEPT ![3] = s, ![5] = c] :
               s \in Variants(Sender), c \in {<<1, <<5>>>>, <<1, <<7, 0>>>>, <<3, <<0, 0>>>>}}

(* Commits by a member, with tags of the right and of other lengths.        *)
CommitMessages ==
  {<<1, <<1, [Usual(Struct(FramedContent)) EXCEPT ![5] = <<3, Usual(Content.of[3])>>]
             \o <<sig, <<tag>>, <<<<5>>>>>>>>>> : sig \in Variants(V), tag \in Variants(V)}

Binds(fc) == IF fc[3][1] \in {1, 4} THEN Contexts ELSE {Usual(GroupContext)}
Leaves == {Vary(LeafNode.of, 5, v) : v \in {<<1, <<1, 1>>>>, <<2, <<>>>>, <<3, <<5>>>>, <<3, <<1, 1>>>>}}

InputSamples ==
  ("LeafNodeTBS" :>
     UNION {{<<l, g, i>> : g \in IF l[5][1] = 1 THEN {<<>>} ELSE Strings,
                           i \in IF l[5][1] = 1 THEN {0} ELSE {0, 1}} : l \in Leaves})
  @@ ("framedContentTBS" :>
     UNION {{<<wf, fc, gc>> : wf \in {1, 2}, gc \in Binds(fc)} : fc \in Contents})
  @@ ("authenticatedContentTBM" :>
     UNION {{<<1, fc, <<sig, IF fc[5][1] = 3 THEN <<tag>> ELSE <<>>>>, gc>> :
               sig \in Strings, tag \in IF fc[5][1] = 3 THEN Strings ELSE {<<>>},
               gc \in Contexts} : fc \in {fc \in Contents : fc[3] = <<1, 1>>}})
  @@ ("SignCommit" :> {<<wf, fc, sig>> : wf \in {1, 2}, fc \in Contents, sig \in {<<5>>, <<1, 5>>}})
  @@ ("KeyPackageTBS" :> Variants(Struct(KeyPackageTBS)))
  @@ ("GroupInfoTBS" :> Variants(Struct(GroupInfoTBS)))
  @@ ("pskLabel" :> {<<id, i, n>> : id \in Variants(PreSharedKeyID), i \in 0 .. 1, n \in 1 .. 2})
  @@ ("privateContentAAD" :>
     {<<g, e, ct, ad>> : g \in Strings, e \in 0 .. 1, ct \in 1 .. 3, ad \in Strings})
  @@ ("TreeHash" :>
     {<<"leaf", i, l>> : i \in 0 .. 1, l \in {<<>>} \union {<<l>> : l \in Leaves}}
     \union {<<"parent", p, l, r>> : p \in {<<>>, <<Usual(ParentNode)>>}, l \in Strings, r \in Strings})
  @@ ("KDFLabel" :> {<<n, l, c>> : n \in 0 .. 1, l \in Strings, c \in Strings})
  @@ ("labeledContext" :> {<<l, d>> : l \in Strings, d \in Strings})

AllSamples ==
  ("MLSMessage" :> Variants(MLSMessage) \union CommitMessages)
  @@ [k \in DOMAIN Messages |-> Variants(Messages[k])]
  @@ ("RatchetTree" :> Trees)
  @@ ("PrivateMessageContent" :> Variants(PrivateContent))
  @@ InputSamples

MCSamples == AllSamples   \* TLC evaluates AllSamples once
=============================================================================
