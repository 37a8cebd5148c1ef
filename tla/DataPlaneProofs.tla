--------------------------- MODULE DataPlaneProofs ---------------------------
(* The data plane is correct for every window size, overlap, set of senders *)
(* and derivation.                                                          *)
EXTENDS DataPlane, FiniteSetTheorems, TLAPS

(* The provers get more time than their defaults. *)
USE SMTT(30), ZenonT(30)

(* What the windows remember of the packets accepted: a number that is gone *)
(* from seen is one that TooOld refuses, and seen spans at most Window + 1. *)
Remembers ==
    /\ \A p \in Packets : accepts[p] # 0 =>
          /\ p.seq <= replay[SPI(p)].high
          /\ p.seq \in replay[SPI(p)].seen \/ p.seq + Window <= replay[SPI(p)].high
    /\ \A s \in SPIs : \A x \in replay[s].seen :
          /\ x <= replay[s].high /\ replay[s].high <= x + Window
          /\ \E q \in Packets : accepts[q] # 0 /\ SPI(q) = s /\ q.seq = x
    /\ \A s \in SPIs : replay[s].high # 0 =>
          \E q \in Packets : accepts[q] # 0 /\ SPI(q) = s /\ q.seq = replay[s].high

(* The packet q, accepted under p's SPI, is why p is refused.               *)
Shadows(q, p) ==
    /\ accepts[q] # 0 /\ SPI(q) = SPI(p)
    /\ p.seq + Window <= q.seq \/ (q.seq = p.seq /\ q # p)

MissedShadowed == \A p \in missed : accepts[p] = 0 /\ \E q \in Packets : Shadows(q, p)

(* The receiver holds exactly the SPIs of its last Overlap + 1 epochs, and  *)
(* nobody sends under a later one.                                          *)
HoldsOverlap ==
    /\ joinEpoch <= cur
    /\ DOMAIN inSPIs = {e \in Epochs : joinEpoch <= e /\ e <= cur /\ cur <= e + Overlap}
    /\ \A e \in DOMAIN inSPIs : inSPIs[e] = CurrentSPIs(e)
    /\ \A l \in Leaves, e \in Epochs : sendSeq[l][e] # 0 => e <= cur

(* A nonce that was used carries a number below its sender's counter.       *)
NoncesCounted ==
    \A x \in used : \E l \in Leaves, e \in Epochs, n \in Nat :
       x = <<e, SenderSalt(e, l), n>> /\ n < sendSeq[l][e]

IInv ==
    /\ TypeOK /\ Remembers /\ NoReplay /\ MissedShadowed
    /\ HoldsOverlap /\ LostIsLate

-----------------------------------------------------------------------------
(* The arithmetic of TooOld and Pruned, without the unsigned subtraction.   *)
LEMMA WindowArithmetic ==
    ASSUME NEW h \in Int, NEW x \in Int, NEW w \in Int, x >= 0
    PROVE  /\ (h >= w /\ x < h - w) <=> x + w < h
           /\ (h >= w /\ x <= h - w) <=> x + w <= h
OBVIOUS

(* What accept does to one window.                                          *)
LEMMA WindowStep ==
    ASSUME NEW w \in [high : Seqs, seen : SUBSET Seqs], NEW s \in Seqs
    PROVE  /\ TooOld(w, s) <=> s + Window <= w.high
           /\ NewHigh(w, s) \in Seqs /\ w.high <= NewHigh(w, s) /\ s <= NewHigh(w, s)
           /\ NewHigh(w, s) \in {s, w.high}
           /\ Pruned(w, s) \in SUBSET Seqs
           /\ \A x \in Seqs : x \in Pruned(w, s) <=>
                 x \in w.seen \union {s} /\ NewHigh(w, s) <= x + Window
<1>1. Window \in Int /\ w.high \in Int /\ w.high \in Seqs /\ w.seen \subseteq Seqs
  BY DataAssumption DEF Seqs
<1>2. \A x \in Seqs : x \in Int /\ x >= 0
  BY DEF Seqs
<1>3. /\ NewHigh(w, s) \in Seqs /\ w.high <= NewHigh(w, s) /\ s <= NewHigh(w, s)
      /\ NewHigh(w, s) \in {s, w.high}
  BY <1>1, <1>2 DEF NewHigh
<1>4. TooOld(w, s) <=> s + Window <= w.high
  BY <1>1, <1>2, WindowArithmetic DEF TooOld
<1>5. PICK h \in Seqs : h = NewHigh(w, s)
  BY <1>3
<1>6. Pruned(w, s) = {x \in w.seen \union {s} : ~(h >= Window /\ x < h - Window)}
  BY <1>5 DEF Pruned
<1>7. \A x \in Seqs : (h >= Window /\ x < h - Window) <=> x + Window < h
  BY <1>1, <1>2, WindowArithmetic
<1>8. \A x \in Seqs : x + Window < h <=> ~(h <= x + Window)
  BY <1>1, <1>2
<1>9. \A x \in Seqs : x \in Pruned(w, s) <=> x \in w.seen \union {s} /\ h <= x + Window
  BY <1>6, <1>7, <1>8
<1>10. Pruned(w, s) \in SUBSET Seqs
  BY <1>1, <1>6
<1> QED
  BY <1>3, <1>4, <1>5, <1>9, <1>10

(* Every derived SPI is one of SPIs, those of the packets among them.       *)
LEMMA SPITypes ==
    ASSUME kdf \in KDFs
    PROVE  /\ \A e \in Epochs, l \in Leaves : SenderSPI(e, l) \in SPIs
           /\ \A e \in Epochs : CurrentSPIs(e) \subseteq SPIs
           /\ \A p \in Packets : SPI(p) \in SPIs
<1>1. \A e \in Epochs, l \in Leaves \union {Group} : deriveSPI(kdf.spi[e][l], e) \in SPIs
  BY DEF SPIs
<1> QED
  BY <1>1 DEF SenderSPI, GroupSPI, CurrentSPIs, SPI, sendSPI, Packets

-----------------------------------------------------------------------------
(* A multiple of m that is larger than another is larger by m or more.      *)
LEMMA MultiplesApart ==
    ASSUME NEW m \in Nat, NEW a \in Int, NEW b \in Int, a >= b + 1
    PROVE  a * m >= b * m + m
<1>1. (a - b) * m >= m
  BY SMTT(20)
<1> QED
  BY <1>1

(* The low byte of an SPI is its epoch's.                                   *)
LEMMA EpochByte ==
    ASSUME NEW r1 \in Nat, NEW r2 \in Nat, NEW e1 \in Nat, NEW e2 \in Nat,
           deriveSPI(r1, e1) = deriveSPI(r2, e2)
    PROVE  e1 % Low = e2 % Low
<1>1. Low \in Nat \ {0} /\ Top \in Nat \ {0}
  BY DataAssumption
<1>2. PICK i \in Int : i = e1 % Low /\ 0 <= i /\ i < Low
  BY <1>1
<1>3. PICK j \in Int : j = e2 % Low /\ 0 <= j /\ j < Low
  BY <1>1
<1>4. PICK a \in Int : a = (r1 % Top) \div Low
  BY <1>1
<1>5. PICK b \in Int : b = (r2 % Top) \div Low
  BY <1>1
<1>6. a * Low + i = b * Low + j
  <2>1. a * Low \in Int /\ b * Low \in Int
    BY <1>1
  <2>2. Top + a * Low + i = Top + b * Low + j
    BY <1>2, <1>3, <1>4, <1>5 DEF deriveSPI
  <2> QED
    BY <1>1, <2>1, <2>2
<1>7. ~(a >= b + 1) /\ ~(b >= a + 1)
  <2>1. a * Low \in Int /\ b * Low \in Int
    BY <1>1
  <2>2. CASE a >= b + 1
    BY <1>1, <1>2, <1>3, <1>6, <2>1, <2>2, MultiplesApart
  <2>3. CASE b >= a + 1
    BY <1>1, <1>2, <1>3, <1>6, <2>1, <2>3, MultiplesApart
  <2> QED
    BY <2>2, <2>3
<1>8. a = b
  BY <1>7
<1>9. i = j
  <2>1. a * Low \in Int
    BY <1>1
  <2> QED
    BY <1>6, <1>8, <2>1
<1> QED
  BY <1>2, <1>3, <1>9

(* A number is its quotient times the divisor, and the remainder.           *)
LEMMA Division ==
    ASSUME NEW m \in Nat \ {0}, NEW x \in Nat
    PROVE  x \div m \in Int /\ x = (x \div m) * m + (x % m)
OBVIOUS

(* Two epochs less than Low apart have different low bytes.                 *)
LEMMA BytesApart ==
    ASSUME NEW e1 \in Nat, NEW e2 \in Nat, e1 % Low = e2 % Low,
           e1 < e2 + Low, e2 < e1 + Low
    PROVE  e1 = e2
<1>1. Low \in Nat \ {0}
  BY DataAssumption
<1>2. PICK a \in Int : e1 = a * Low + (e1 % Low)
  BY <1>1, Division, Zenon
<1>3. PICK b \in Int : e2 = b * Low + (e2 % Low)
  BY <1>1, Division, Zenon
<1>4. a * Low \in Int /\ b * Low \in Int
  BY <1>1
<1>5. CASE a >= b + 1
  BY <1>1, <1>2, <1>3, <1>4, <1>5, MultiplesApart
<1>6. CASE b >= a + 1
  BY <1>1, <1>2, <1>3, <1>4, <1>6, MultiplesApart
<1> QED
  BY <1>2, <1>3, <1>5, <1>6

-----------------------------------------------------------------------------
(* The table of derived words never changes, so neither do the SPIs.        *)
LEMMA SPIsFixed ==
    ASSUME kdf' = kdf
    PROVE  /\ \A p \in Packets : SPI(p)' = SPI(p)
           /\ \A e \in Epochs : CurrentSPIs(e)' = CurrentSPIs(e)
BY DEF SPI, sendSPI, SenderSPI, GroupSPI, CurrentSPIs

(* A step that accepts nothing keeps what is said of the windows.           *)
LEMMA WindowsStay ==
    ASSUME IInv, UNCHANGED <<kdf, replay, accepts>>
    PROVE  Remembers' /\ NoReplay' /\ (missed' = missed => MissedShadowed')
BY SPIsFixed DEF IInv, TypeOK, Remembers, NoReplay, MissedShadowed, Shadows

(* Sending keeps IInv.                                                      *)
LEMMA SendStep ==
    ASSUME IInv, NEW l \in Leaves, NEW e \in Epochs, SendToReceiver(l, e)
    PROVE  IInv'
<1> USE DEF SendToReceiver
<1>1. sendSeq[l] \in [Epochs -> Nat] /\ NextSeq(l, e) \in [Epochs -> Nat]
  BY DEF IInv, TypeOK, NextSeq
<1>2. TypeOK'
  <2>1. sendSeq' \in [Leaves -> [Epochs -> Nat]]
    BY <1>1 DEF IInv, TypeOK
  <2>2. reused' \in BOOLEAN
    OBVIOUS
  <2> QED
    BY <2>1, <2>2 DEF IInv, TypeOK
<1>3. Remembers' /\ NoReplay' /\ MissedShadowed'
  BY WindowsStay
<1>4. HoldsOverlap'
  <2>1. \A m \in Leaves, f \in Epochs : sendSeq'[m][f] # 0 => sendSeq[m][f] # 0 \/ f = e
    BY <1>1 DEF IInv, TypeOK, NextSeq
  <2> QED
    BY <2>1, SPIsFixed DEF IInv, HoldsOverlap
<1>5. LostIsLate'
  BY DEF IInv, LostIsLate
<1> QED
  BY <1>2, <1>3, <1>4, <1>5 DEF IInv

(* Entering an epoch keeps IInv.                                            *)
LEMMA CacheStep ==
    ASSUME IInv, CacheCurrentSA
    PROVE  IInv'
<1> USE DEF CacheCurrentSA
<1>1. /\ kdf \in KDFs /\ cur \in Nat /\ cur' \in Epochs /\ cur' = cur + 1
      /\ joinEpoch \in Nat /\ Overlap \in Nat /\ \A e \in Epochs : e \in Nat
  BY DataAssumption DEF IInv, TypeOK, Epochs
<1>2. DOMAIN inSPIs' = Kept(DOMAIN inSPIs \union {cur'}, cur')
  BY <1>1
<1>3. DOMAIN inSPIs' = {e \in Epochs : joinEpoch <= e /\ e <= cur' /\ cur' <= e + Overlap}
  <2>1. \A e \in Epochs : (cur' >= Overlap /\ e < cur' - Overlap) <=> ~(cur' <= e + Overlap)
    BY <1>1
  <2>2. DOMAIN inSPIs = {e \in Epochs : joinEpoch <= e /\ e <= cur /\ cur <= e + Overlap}
    BY DEF IInv, HoldsOverlap
  <2>3. joinEpoch <= cur
    BY DEF IInv, HoldsOverlap
  <2>4. PICK c \in Epochs : c = cur'
    BY <1>1
  <2>5. DOMAIN inSPIs' = {e \in DOMAIN inSPIs \union {c} : ~(c >= Overlap /\ e < c - Overlap)}
    BY <1>2, <2>4 DEF Kept
  <2>6. \A e \in Epochs : e \in DOMAIN inSPIs \union {c} /\ c <= e + Overlap
                          <=> joinEpoch <= e /\ e <= c /\ c <= e + Overlap
    BY <1>1, <2>2, <2>3, <2>4
  <2>7. DOMAIN inSPIs \union {c} \subseteq Epochs
    BY <2>2, <2>4
  <2> HIDE DEF CacheCurrentSA
  <2> QED
    BY <2>1, <2>4, <2>5, <2>6, <2>7
<1>4. \A e \in DOMAIN inSPIs' : inSPIs'[e] = CurrentSPIs(e)
  <2>1. \A e \in DOMAIN inSPIs' : e = cur' \/ e \in DOMAIN inSPIs
    BY <1>2 DEF Kept
  <2> QED
    BY <1>1, <1>2, <2>1 DEF IInv, HoldsOverlap
<1>5. TypeOK'
  BY <1>1, <1>3, <1>4, SPITypes, Zenon DEF IInv, TypeOK
<1>6. Remembers' /\ NoReplay' /\ MissedShadowed'
  BY WindowsStay
<1>7. HoldsOverlap'
  <2>1. \A l \in Leaves, e \in Epochs : sendSeq'[l][e] # 0 => e <= cur'
    BY <1>1 DEF IInv, HoldsOverlap
  <2>2. joinEpoch' <= cur'
    BY <1>1 DEF IInv, HoldsOverlap
  <2> QED
    BY <1>3, <1>4, <2>1, <2>2, SPIsFixed DEF HoldsOverlap
<1>8. LostIsLate'
  <2>1. \A p \in lost : p.epoch \in Nat
    BY <1>1, Zenon DEF IInv, TypeOK, Packets
  <2> QED
    BY <1>1, <2>1 DEF IInv, LostIsLate
<1> QED
  BY <1>5, <1>6, <1>7, <1>8 DEF IInv

(* A packet without an SA keeps IInv: it is late.                           *)
LEMMA LoseStep ==
    ASSUME IInv, NEW p \in Packets, Lose(p)
    PROVE  IInv'
<1> USE DEF Lose
<1>1. p.epoch \in Epochs /\ p.leaf \in Leaves /\ p.epoch \in Nat /\ p.seq \in Nat
  BY DEF Packets, Epochs, Seqs
<1>2. joinEpoch <= p.epoch /\ p.epoch <= cur
  <2>1. sendSeq[p.leaf][p.epoch] # 0
    BY <1>1 DEF Arrives, IInv, TypeOK
  <2> QED
    BY <1>1, <2>1 DEF Arrives, IInv, HoldsOverlap, TypeOK, Epochs
<1>3. p.epoch \notin DOMAIN inSPIs
  <2>1. SPI(p) \in CurrentSPIs(p.epoch)
    BY <1>1 DEF SPI, sendSPI, CurrentSPIs
  <2> QED
    BY <1>2, <2>1 DEF Held, IInv, HoldsOverlap, TypeOK, Epochs
<1>4. p.epoch + Overlap < cur
  BY <1>1, <1>2, <1>3, DataAssumption DEF IInv, HoldsOverlap, TypeOK, Epochs
<1>5. LostIsLate'
  BY <1>4 DEF IInv, LostIsLate
<1>6. Remembers' /\ NoReplay' /\ MissedShadowed'
  BY WindowsStay
<1>7. HoldsOverlap'
  BY SPIsFixed DEF IInv, HoldsOverlap
<1> QED
  BY <1>5, <1>6, <1>7 DEF IInv, TypeOK

(* A packet that is fresh has not been accepted, nor is it shadowed.        *)
LEMMA FreshIsNew ==
    ASSUME IInv, NEW p \in Packets, Fresh(p)
    PROVE  accepts[p] = 0 /\ \A q \in Packets : ~Shadows(q, p)
<1>1. /\ kdf \in KDFs /\ replay \in [SPIs -> [high : Seqs, seen : SUBSET Seqs]]
      /\ Remembers /\ accepts \in [Packets -> Nat]
  BY DEF IInv, TypeOK
<1>2. SPI(p) \in SPIs
  BY <1>1, SPITypes
<1>3. PICK w \in [high : Seqs, seen : SUBSET Seqs] : w = replay[SPI(p)]
  BY <1>1, <1>2
<1>4. \A q \in Packets : q.seq \in Seqs
  BY DEF Packets
<1>5. ~(p.seq + Window <= w.high) /\ p.seq \notin w.seen
  BY <1>3, <1>4, WindowStep DEF Fresh
<1>6. \A q \in Packets : accepts[q] # 0 /\ SPI(q) = SPI(p) =>
         q.seq <= w.high /\ (q.seq \in w.seen \/ q.seq + Window <= w.high)
  BY <1>1, <1>3 DEF Remembers
<1>7. Window \in Nat /\ w.high \in Nat /\ \A q \in Packets : q.seq \in Nat
  BY <1>3, <1>4, DataAssumption DEF Seqs
<1> QED
  BY <1>5, <1>6, <1>7 DEF Shadows

(* Accepting a packet keeps IInv.                                           *)
LEMMA AcceptStep ==
    ASSUME IInv, NEW p \in Packets, Accept(p)
    PROVE  IInv'
<1>1. /\ kdf \in KDFs /\ replay \in [SPIs -> [high : Seqs, seen : SUBSET Seqs]]
      /\ Remembers /\ accepts \in [Packets -> Nat]
  BY DEF IInv, TypeOK
<1>2. PICK k \in SPIs : k = SPI(p)
  BY <1>1, SPITypes
<1>3. PICK w \in [high : Seqs, seen : SUBSET Seqs] : w = replay[k]
  BY <1>1
<1>4. p.seq \in Seqs
  BY DEF Packets
<1>5. PICK h \in Seqs : h = NewHigh(w, p.seq)
  BY <1>3, <1>4, WindowStep
<1>6. PICK S \in SUBSET Seqs : S = Pruned(w, p.seq)
  BY <1>3, <1>4, WindowStep
<1>7. /\ w.high <= h /\ p.seq <= h /\ h \in {p.seq, w.high}
      /\ \A x \in Seqs : x \in S <=> x \in w.seen \union {p.seq} /\ h <= x + Window
  BY <1>3, <1>4, <1>5, <1>6, WindowStep
<1>8. replay' = [replay EXCEPT ![k] = [high |-> h, seen |-> S]]
  BY <1>2, <1>3, <1>5, <1>6 DEF Accept
<1>9. accepts[p] = 0 /\ \A q \in Packets : ~Shadows(q, p)
  BY FreshIsNew DEF Accept
<1>10. accepts' = [accepts EXCEPT ![p] = 1]
  BY <1>1, <1>9 DEF Accept
<1>11. \A q \in Packets : SPI(q)' = SPI(q) /\ SPI(q) \in SPIs /\ q.seq \in Seqs
  BY <1>1, SPIsFixed, SPITypes DEF Accept, Packets
<1>12. Window \in Nat /\ w.high \in Nat /\ h \in Nat /\ \A x \in Seqs : x \in Nat
  BY <1>3, <1>5, DataAssumption DEF Seqs
<1>13. TypeOK'
  <2>1. replay' \in [SPIs -> [high : Seqs, seen : SUBSET Seqs]]
    BY <1>1, <1>8
  <2>2. accepts' \in [Packets -> Nat]
    BY <1>1, <1>10
  <2> QED
    BY <2>1, <2>2 DEF Accept, IInv, TypeOK
<1>14. \A q \in Packets : accepts'[q] # 0 <=> q = p \/ accepts[q] # 0
  BY <1>1, <1>9, <1>10
<1>15. \A s \in SPIs : replay'[s] = IF s = k THEN [high |-> h, seen |-> S] ELSE replay[s]
  BY <1>1, <1>8
<1>16. Remembers'
  <2>1. ASSUME NEW q \in Packets, accepts'[q] # 0
        PROVE  /\ q.seq <= replay'[SPI(q)].high
               /\ q.seq \in replay'[SPI(q)].seen \/ q.seq + Window <= replay'[SPI(q)].high
    <3>1. CASE SPI(q) # k
      BY <1>1, <1>2, <1>11, <1>14, <1>15, <2>1, <3>1 DEF Remembers
    <3>2. CASE SPI(q) = k
      <4> q.seq \in Seqs /\ q.seq \in Nat
        BY <1>11, <1>12, Zenon
      <4>1. q.seq <= h
        <5>1. CASE q = p
          BY <1>7, <5>1
        <5>2. CASE q # p
          <6>1. q.seq <= w.high
            BY <1>1, <1>3, <1>14, <2>1, <3>2, <5>2 DEF Remembers
          <6> QED
            BY <1>12, <1>7, <6>1
        <5> QED
          BY <5>1, <5>2
      <4>2. q.seq \in w.seen \union {p.seq} \/ q.seq + Window <= h
        <5>1. CASE q = p
          BY <5>1
        <5>2. CASE q # p
          <6>1. q.seq \in w.seen \/ q.seq + Window <= w.high
            BY <1>1, <1>3, <1>14, <2>1, <3>2, <5>2 DEF Remembers
          <6> QED
            BY <1>12, <1>7, <6>1
        <5> QED
          BY <5>1, <5>2
      <4>3. q.seq \in S \/ q.seq + Window <= h
        BY <1>12, <1>7, <4>2
      <4> QED
        BY <1>15, <3>2, <4>1, <4>3
    <3> QED
      BY <3>1, <3>2
  <2>2. ASSUME NEW s \in SPIs, NEW x \in replay'[s].seen
        PROVE  /\ x <= replay'[s].high /\ replay'[s].high <= x + Window
               /\ \E q \in Packets : accepts'[q] # 0 /\ SPI(q) = s /\ q.seq = x
    <3>1. CASE s # k
      BY <1>1, <1>14, <1>15, <2>2, <3>1 DEF Remembers
    <3>2. CASE s = k
      <4>1. x \in S /\ x \in Seqs
        BY <1>6, <1>15, <2>2, <3>2
      <4>2. x \in w.seen \union {p.seq} /\ h <= x + Window
        BY <1>7, <4>1
      <4>3. x <= h
        <5>1. CASE x = p.seq
          BY <1>7, <5>1
        <5>2. CASE x \in w.seen
          <6>1. x <= w.high
            BY <1>1, <1>3, <5>2 DEF Remembers
          <6> QED
            BY <1>7, <1>12, <4>1, <6>1
        <5> QED
          BY <4>2, <5>1, <5>2
      <4>4. \E q \in Packets : accepts'[q] # 0 /\ SPI(q) = s /\ q.seq = x
        <5>1. CASE x = p.seq
          BY <1>2, <1>14, <3>2, <5>1
        <5>2. CASE x \in w.seen
          <6>1. \E q \in Packets : accepts[q] # 0 /\ SPI(q) = s /\ q.seq = x
            BY <1>1, <1>3, <3>2, <5>2 DEF Remembers
          <6> QED
            BY <1>14, <6>1
        <5> QED
          BY <4>2, <5>1, <5>2
      <4> QED
        BY <1>15, <3>2, <4>2, <4>3, <4>4
    <3> QED
      BY <3>1, <3>2
  <2>3. ASSUME NEW s \in SPIs, replay'[s].high # 0
        PROVE  \E q \in Packets : accepts'[q] # 0 /\ SPI(q) = s /\ q.seq = replay'[s].high
    <3>1. CASE s # k
      BY <1>1, <1>14, <1>15, <2>3, <3>1 DEF Remembers
    <3>2. CASE s = k /\ h = p.seq
      BY <1>2, <1>14, <1>15, <3>2
    <3>3. CASE s = k /\ h = w.high
      <4>1. \E q \in Packets : accepts[q] # 0 /\ SPI(q) = s /\ q.seq = h
        BY <1>1, <1>3, <1>15, <2>3, <3>3 DEF Remembers
      <4> QED
        BY <1>14, <1>15, <3>3, <4>1
    <3> QED
      BY <1>7, <3>1, <3>2, <3>3
  <2> QED
    BY <1>11, <2>1, <2>2, <2>3 DEF Remembers
<1>17. NoReplay'
  BY <1>1, <1>10 DEF IInv, NoReplay
<1>18. MissedShadowed'
  <2>1. missed' = missed /\ p \notin missed
    BY <1>9 DEF Accept, IInv, MissedShadowed
  <2>2. \A m \in missed : accepts[m] = 0 /\ m \in Packets /\ \E q \in Packets : Shadows(q, m)
    BY DEF IInv, TypeOK, MissedShadowed
  <2>3. \A m \in missed : accepts'[m] = 0
    BY <1>14, <2>1, <2>2
  <2>4. \A m \in missed : \E q \in Packets : Shadows(q, m)'
    BY <1>11, <1>14, <2>2 DEF Shadows
  <2> QED
    BY <2>1, <2>3, <2>4 DEF MissedShadowed
<1>19. HoldsOverlap' /\ LostIsLate'
  BY SPIsFixed DEF Accept, IInv, HoldsOverlap, LostIsLate
<1> QED
  BY <1>13, <1>16, <1>17, <1>18, <1>19 DEF IInv

(* Refusing a packet keeps IInv: something shadows it.                      *)
LEMMA RefuseStep ==
    ASSUME IInv, NEW p \in Packets, Refuse(p)
    PROVE  IInv'
<1>1. /\ kdf \in KDFs /\ replay \in [SPIs -> [high : Seqs, seen : SUBSET Seqs]]
      /\ Remembers /\ accepts \in [Packets -> Nat]
  BY DEF IInv, TypeOK
<1>2. PICK k \in SPIs : k = SPI(p)
  BY <1>1, SPITypes
<1>3. PICK w \in [high : Seqs, seen : SUBSET Seqs] : w = replay[k]
  BY <1>1
<1>4. p.seq \in Seqs /\ p.seq \in Nat /\ Window \in Nat \ {0} /\ w.high \in Nat
  BY <1>3, DataAssumption DEF Packets, Seqs
<1>5. p.seq + Window <= w.high \/ p.seq \in w.seen
  BY <1>2, <1>3, <1>4, WindowStep DEF Refuse, Fresh
<1>6. accepts[p] = 0 => \E q \in Packets : Shadows(q, p)
  <2>1. CASE p.seq + Window <= w.high
    <3>1. w.high # 0
      BY <1>4, <2>1
    <3>2. PICK q \in Packets : accepts[q] # 0 /\ SPI(q) = k /\ q.seq = w.high
      BY <1>1, <1>3, <3>1 DEF Remembers
    <3> QED
      BY <1>2, <2>1, <3>2 DEF Shadows
  <2>2. CASE p.seq \in w.seen
    <3>1. PICK q \in Packets : accepts[q] # 0 /\ SPI(q) = k /\ q.seq = p.seq
      BY <1>1, <1>3, <2>2 DEF Remembers
    <3> QED
      BY <1>2, <3>1 DEF Shadows
  <2> QED
    BY <1>5, <2>1, <2>2
<1>7. MissedShadowed'
  <2>1. \A m \in missed' : accepts[m] = 0 /\ m \in Packets /\ \E q \in Packets : Shadows(q, m)
    BY <1>6 DEF Refuse, IInv, TypeOK, MissedShadowed
  <2>2. \A q \in Packets : SPI(q)' = SPI(q)
    BY SPIsFixed DEF Refuse
  <2> QED
    BY <2>1, <2>2 DEF Refuse, MissedShadowed, Shadows
<1>8. Remembers' /\ NoReplay'
  BY WindowsStay DEF Refuse
<1>9. HoldsOverlap' /\ LostIsLate' /\ TypeOK'
  BY SPIsFixed DEF Refuse, IInv, HoldsOverlap, LostIsLate, TypeOK
<1> QED
  BY <1>7, <1>8, <1>9 DEF IInv

-----------------------------------------------------------------------------
(* IInv holds in every state of the data plane.                             *)
LEMMA DataInvariant == Spec => []IInv
<1>1. Init => IInv
  <2> SUFFICES ASSUME Init PROVE IInv
    OBVIOUS
  <2> USE DEF Init
  <2>1. joinEpoch \in Epochs /\ cur = joinEpoch /\ joinEpoch \in Nat /\ kdf \in KDFs
    BY DataAssumption DEF Epochs
  <2>2. TypeOK
    <3>1. 0 \in Seqs
      BY DataAssumption DEF Seqs
    <3>2. replay \in [SPIs -> [high : Seqs, seen : SUBSET Seqs]]
      BY <3>1 DEF Window0
    <3>3. sendSeq \in [Leaves -> [Epochs -> Nat]] /\ accepts \in [Packets -> Nat]
      OBVIOUS
    <3>4. DOMAIN inSPIs \subseteq Epochs /\ \A e \in DOMAIN inSPIs : inSPIs[e] \subseteq SPIs
      BY <2>1, SPITypes
    <3> QED
      BY <2>1, <3>2, <3>3, <3>4, Zenon DEF TypeOK
  <2>3. Remembers /\ NoReplay /\ MissedShadowed /\ LostIsLate
    BY <2>1, SPITypes DEF Remembers, Window0, NoReplay, MissedShadowed, LostIsLate
  <2>4. HoldsOverlap
    <3>1. {e \in Epochs : joinEpoch <= e /\ e <= cur /\ cur <= e + Overlap} = {joinEpoch}
      BY <2>1, DataAssumption DEF Epochs
    <3> QED
      BY <2>1, <3>1 DEF HoldsOverlap
  <2> QED
    BY <2>2, <2>3, <2>4 DEF IInv
<1>2. IInv /\ [Next]_vars => IInv'
  <2> SUFFICES ASSUME IInv, [Next]_vars PROVE IInv'
    OBVIOUS
  <2>1. CASE UNCHANGED vars
    BY <2>1, WindowsStay, SPIsFixed DEF vars, IInv, TypeOK, HoldsOverlap, LostIsLate
  <2> QED
    BY <2>1, SendStep, CacheStep, LoseStep, AcceptStep, RefuseStep DEF Next
<1> QED
  BY <1>1, <1>2, PTL DEF Spec

(* The state of the data plane stays within its types: a window never holds *)
(* a number that no packet has.                                             *)
THEOREM DataTypeOK == Spec => []TypeOK
<1>1. IInv => TypeOK
  BY DEF IInv
<1> QED
  BY <1>1, DataInvariant, PTL

(* No packet is ever accepted twice by replayWin.accept.                    *)
THEOREM DataNoReplay == Spec => []NoReplay
<1>1. IInv => NoReplay
  BY DEF IInv
<1> QED
  BY <1>1, DataInvariant, PTL

(* A packet that finds no SA in onData is more than Overlap epochs late.    *)
THEOREM DataLostIsLate == Spec => []LostIsLate
<1>1. IInv => LostIsLate
  BY DEF IInv
<1> QED
  BY <1>1, DataInvariant, PTL

(* A packet that replayWin.accept refuses for good was a window behind its  *)
(* own sender, or its SPI was not its own.                                  *)
THEOREM DataOnlyStaleMissed == Spec => []OnlyStaleMissed
<1>1. IInv => OnlyStaleMissed
  <2> SUFFICES ASSUME IInv, NEW p \in missed
               PROVE  /\ accepts[p] = 0
                      /\ \/ \E q \in Packets : /\ accepts[q] # 0 /\ q.leaf = p.leaf
                                               /\ q.epoch = p.epoch /\ p.seq + Window <= q.seq
                         \/ InboundSAsFails(p.epoch)
                         \/ \E l \in Leaves, e \in Epochs :
                               /\ e # p.epoch /\ e % Low = p.epoch % Low
                               /\ SenderSPI(e, l) = SPI(p)
    BY DEF OnlyStaleMissed
  <2>1. p \in Packets /\ kdf \in KDFs
    BY DEF IInv, TypeOK
  <2>2. PICK q \in Packets : accepts[p] = 0 /\ Shadows(q, p)
    BY DEF IInv, MissedShadowed
  <2>3. /\ p.leaf \in Leaves /\ p.epoch \in Epochs /\ q.leaf \in Leaves /\ q.epoch \in Epochs
        /\ SenderSPI(q.epoch, q.leaf) = SenderSPI(p.epoch, p.leaf)
        /\ SPI(p) = SenderSPI(p.epoch, p.leaf)
    BY <2>1, <2>2 DEF Packets, Shadows, SPI, sendSPI
  <2>4. CASE q.leaf = p.leaf /\ q.epoch = p.epoch
    <3>1. q.seq = p.seq => q = p
      BY <2>1, <2>4 DEF Packets
    <3> QED
      BY <2>2, <2>4, <3>1 DEF Shadows
  <2>5. CASE q.leaf # p.leaf /\ q.epoch = p.epoch
    <3>1. InboundSAsFails(p.epoch)
      BY <2>3, <2>5 DEF InboundSAsFails
    <3> QED
      BY <2>2, <3>1
  <2>6. CASE q.epoch # p.epoch
    <3>1. \A e \in Epochs, l \in Leaves : kdf.spi[e][l] \in Nat /\ e \in Nat
      BY <2>1, DataAssumption DEF Epochs
    <3>2. deriveSPI(kdf.spi[q.epoch][q.leaf], q.epoch) = deriveSPI(kdf.spi[p.epoch][p.leaf], p.epoch)
      BY <2>3 DEF SenderSPI
    <3>3. q.epoch % Low = p.epoch % Low
      BY <2>3, <3>1, <3>2, EpochByte
    <3> QED
      BY <2>2, <2>3, <2>6, <3>3
  <2> QED
    BY <2>4, <2>5, <2>6
<1> QED
  BY <1>1, DataInvariant, PTL

(* The map replayWin.seen never holds more than Window + 1 numbers.         *)
THEOREM DataSeenBounded == Spec => []SeenBounded
<1>1. IInv => SeenBounded
  <2> SUFFICES ASSUME IInv, NEW s \in SPIs
               PROVE  Cardinality(replay[s].seen) <= Window + 1
    BY DEF SeenBounded
  <2>1. PICK w \in [high : Seqs, seen : SUBSET Seqs] : w = replay[s]
    BY DEF IInv, TypeOK
  <2>2. w.high \in Nat /\ Window \in Nat /\ w.seen \subseteq Nat
    BY <2>1, DataAssumption DEF Seqs
  <2>3. w.seen \subseteq (w.high - Window) .. w.high
    BY <2>1, <2>2 DEF IInv, Remembers
  <2>4. /\ IsFiniteSet((w.high - Window) .. w.high)
        /\ Cardinality((w.high - Window) .. w.high) = Window + 1
    <3>1. PICK a \in Int, b \in Int : a = w.high - Window /\ b = w.high
      BY <2>2
    <3>2. IsFiniteSet(a .. b) /\ Cardinality(a .. b) = IF a > b THEN 0 ELSE b - a + 1
      BY FS_Interval
    <3>3. ~(a > b) /\ b - a + 1 = Window + 1
      BY <2>2, <3>1
    <3> QED
      BY <3>1, <3>2, <3>3
  <2>5. Cardinality(w.seen) <= Cardinality((w.high - Window) .. w.high)
    BY <2>3, <2>4, FS_Subset, Zenon
  <2> QED
    BY <2>1, <2>4, <2>5
<1> QED
  BY <1>1, DataInvariant, PTL

(* Epochs held at once have disjoint SPIs, whatever the key schedule yields, *)
(* because fewer than Low of them overlap.                                  *)
THEOREM DataEpochsDemuxed == Spec => []EpochsDemuxed
<1>1. IInv => EpochsDemuxed
  <2> SUFFICES ASSUME IInv, NEW e \in DOMAIN inSPIs, NEW f \in DOMAIN inSPIs,
                      NEW x \in inSPIs[e], x \in inSPIs[f]
               PROVE  e = f
    BY DEF EpochsDemuxed
  <2>1. kdf \in KDFs /\ e \in Epochs /\ f \in Epochs
    BY DEF IInv, TypeOK
  <2>2. \A g \in Epochs, l \in Leaves \union {Group} : kdf.spi[g][l] \in Nat /\ g \in Nat
    BY <2>1, DataAssumption DEF Epochs
  <2>3. PICK l \in Leaves \union {Group} : x = deriveSPI(kdf.spi[e][l], e)
    BY DEF IInv, HoldsOverlap, CurrentSPIs, SenderSPI, GroupSPI
  <2>4. PICK m \in Leaves \union {Group} : x = deriveSPI(kdf.spi[f][m], f)
    BY DEF IInv, HoldsOverlap, CurrentSPIs, SenderSPI, GroupSPI
  <2>5. e % Low = f % Low
    <3>1. PICK r \in Nat : x = deriveSPI(r, e)
      BY <2>1, <2>2, <2>3
    <3>2. PICK t \in Nat : x = deriveSPI(t, f)
      BY <2>1, <2>2, <2>4
    <3>3. e \in Nat /\ f \in Nat /\ deriveSPI(r, e) = deriveSPI(t, f)
      BY <2>1, <3>1, <3>2 DEF Epochs
    <3> QED
      BY <3>3, EpochByte
  <2>6. e < f + Low /\ f < e + Low
    <3>1. e <= cur /\ cur <= e + Overlap /\ f <= cur /\ cur <= f + Overlap
      BY DEF IInv, HoldsOverlap
    <3>2. cur \in Nat /\ e \in Nat /\ f \in Nat
      BY <2>1, DataAssumption DEF IInv, TypeOK, Epochs
    <3> QED
      BY <3>1, <3>2, DataAssumption
  <2> QED
    BY <2>1, <2>2, <2>5, <2>6, BytesApart DEF Epochs
<1> QED
  BY <1>1, DataInvariant, PTL

-----------------------------------------------------------------------------
(* Flipping the bits of one mask tells the leaves apart.                    *)
LEMMA SaltsDiffer ==
    ASSUME kdf \in KDFs, NEW e \in Epochs, NEW l1 \in Leaves, NEW l2 \in Leaves,
           SenderSalt(e, l1) = SenderSalt(e, l2)
    PROVE  l1 = l2
<1>1. \A i \in Bits : kdf.mask[e][i] \in BOOLEAN /\ BE32(l1)[i] \in BOOLEAN /\ BE32(l2)[i] \in BOOLEAN
  BY DataAssumption DEF BE32
<1>2. \A i \in Bits : (kdf.mask[e][i] # BE32(l1)[i]) = (kdf.mask[e][i] # BE32(l2)[i])
  BY DEF SenderSalt
<1>3. \A i \in Bits : BE32(l1)[i] = BE32(l2)[i]
  BY <1>1, <1>2
<1>4. BE32(l1) = BE32(l2)
  BY <1>3 DEF BE32
<1> QED
  BY <1>4, SaltWidthAssumption

(* A sender's counter of an epoch only grows and salts are its own, so no   *)
(* nonce is used twice under the key of an epoch.                           *)
THEOREM DataNonceOnce == Spec => []NonceOnce
<1>1. Init => NoncesCounted /\ NonceOnce
  BY DEF Init, NoncesCounted, NonceOnce
<1>2. TypeOK /\ NoncesCounted /\ NonceOnce /\ [Next]_vars => NoncesCounted' /\ NonceOnce'
  <2> SUFFICES ASSUME TypeOK, NoncesCounted, NonceOnce, [Next]_vars
               PROVE  NoncesCounted' /\ NonceOnce'
    OBVIOUS
  <2>1. ASSUME NEW l \in Leaves, NEW e \in Epochs, SendToReceiver(l, e)
        PROVE  NoncesCounted' /\ NonceOnce'
    <3>1. /\ kdf' = kdf /\ kdf \in KDFs /\ sendSeq \in [Leaves -> [Epochs -> Nat]]
          /\ used' = used \union {Nonce(l, e)}
          /\ sendSeq' = [sendSeq EXCEPT ![l] = [sendSeq[l] EXCEPT ![e] = sendSeq[l][e] + 1]]
      BY <2>1 DEF SendToReceiver, TypeOK, NextSeq
    <3>2. PICK n \in Nat : n = sendSeq[l][e]
      BY <3>1
    <3>3. \A m \in Leaves, f \in Epochs, k \in Nat : k < sendSeq[m][f] => k < sendSeq'[m][f]
      BY <3>1
    <3>4. n < sendSeq'[l][e]
      BY <3>1, <3>2
    <3>5. \A f \in Epochs, m \in Leaves : SenderSalt(f, m)' = SenderSalt(f, m)
      BY <3>1 DEF SenderSalt
    <3>6. NoncesCounted'
      <4>1. ASSUME NEW x \in used'
            PROVE  \E m \in Leaves, f \in Epochs, k \in Nat :
                      x = <<f, SenderSalt(f, m), k>> /\ k < sendSeq'[m][f]
        <5>1. CASE x \in used
          BY <3>3, <5>1 DEF NoncesCounted
        <5>2. CASE x = <<e, SenderSalt(e, l), n>>
          BY <3>4, <5>2
        <5> QED
          BY <3>1, <3>2, <4>1, <5>1, <5>2 DEF Nonce
      <4> QED
        BY <3>5, <4>1 DEF NoncesCounted
    <3>7. Nonce(l, e) \notin used
      <4> SUFFICES ASSUME <<e, SenderSalt(e, l), n>> \in used PROVE FALSE
        BY <3>2 DEF Nonce
      <4>1. PICK m \in Leaves, f \in Epochs, k \in Nat :
               <<e, SenderSalt(e, l), n>> = <<f, SenderSalt(f, m), k>> /\ k < sendSeq[m][f]
        BY DEF NoncesCounted
      <4>2. f = e /\ k = n /\ SenderSalt(e, l) = SenderSalt(e, m)
        BY <4>1
      <4>3. m = l
        BY <3>1, <4>2, SaltsDiffer
      <4> QED
        BY <3>1, <3>2, <4>1, <4>2, <4>3
    <3> QED
      BY <2>1, <3>6, <3>7, Zenon DEF SendToReceiver, NonceOnce
  <2>2. CASE UNCHANGED <<kdf, sendSeq, used, reused>>
    BY <2>2 DEF NoncesCounted, NonceOnce, SenderSalt
  <2> QED
    BY <2>1, <2>2 DEF Next, vars, CacheCurrentSA, Lose, Accept, Refuse
<1> QED
  BY <1>1, <1>2, DataTypeOK, PTL DEF Spec
=============================================================================
