------------------------------ MODULE DataPlane ------------------------------
(***************************************************************************)
(* The ESP data plane of one receiver: the SPIs and salts that             *)
(* ironcore/sa.go derives for an epoch, the make-before-break window of    *)
(* SAs, and one anti-replay window per inbound SPI (sim/client.go).        *)
(*                                                                         *)
(* Every sender numbers the packets of an epoch with one counter for all   *)
(* its receivers; a packet for another receiver is one that never arrives  *)
(* here.  The network delivers a packet late, repeatedly or never.  The    *)
(* outputs of ExpandWithLabel are a table chosen in Init: 32 derived bits  *)
(* may well coincide.                                                      *)
(***************************************************************************)
EXTENDS Integers, FiniteSets

CONSTANTS Window,    \* replayWindow
          Overlap,   \* effectiveW: epochs kept besides the current one
          Leaves,    \* leaf indices of the senders
          Bits,      \* bit positions of a leaf index and of a salt
          Low,       \* values of the SPI's epoch byte: 256 in the code
          Top,       \* the SPI's top bit: 2^31 in the code
          Group,     \* stands for the leaf-independent context of deriveSPI
          KDFs,      \* tables of ExpandWithLabel outputs
          MaxEpoch, MaxSeq, MaxSent   \* bounds: epochs, numbers, packets

Epochs == 0 .. MaxEpoch
Seqs == 0 .. MaxSeq

ASSUME DataAssumption ==
    /\ Window \in Nat \ {0} /\ Low \in Nat \ {0}
    /\ Overlap \in Nat /\ Overlap < Low
    /\ Top \in Nat \ {0} /\ Top % Low = 0
    /\ Leaves \subseteq Nat /\ Group \notin Leaves
    /\ MaxEpoch \in Nat /\ MaxSeq \in Nat /\ MaxSent \in Nat
    /\ KDFs \subseteq [spi : [Epochs -> [Leaves \union {Group} -> Nat]],
                       mask : [Epochs -> [Bits -> BOOLEAN]]]

(* A packet: who sent it, under the SA of which epoch, and its number.      *)
Packets == [leaf : Leaves, epoch : Epochs, seq : Seqs]
Window0 == [high |-> 0, seen |-> {}]     \* newReplayWin

VARIABLES kdf,                 \* the table of this history
          sendSeq,             \* per sender and epoch
          joinEpoch, cur,      \* of the receiver
          inSPIs,              \* the receiver's SPIs for each epoch it holds
          replay,              \* its window for each SPI
          used, reused,        \* history: GCM nonces; one was used again
          accepts,             \* history: how often a packet was accepted
          missed, lost         \* history: refused unaccepted; no SA held

vars == <<kdf, sendSeq, joinEpoch, cur, inSPIs, replay, used, reused,
          accepts, missed, lost>>

-----------------------------------------------------------------------------
(* deriveSPI and deriveSenderSPI: the low byte of the derived word becomes  *)
(* the epoch's, and the top bit is set.                                     *)
deriveSPI_NoEpoch(raw, e) == Top + (raw % Top)
deriveSPI(raw, e) == Top + ((raw % Top) \div Low) * Low + (e % Low)

SPIs == {deriveSPI(k.spi[e][l], e) : k \in KDFs, e \in Epochs, l \in Leaves \union {Group}}

SenderSPI(e, leaf) == deriveSPI(kdf.spi[e][leaf], e)
GroupSPI(e) == deriveSPI(kdf.spi[e][Group], e)

(* What a sender stamps on its packets: OwnSPI, never the group's SPI.      *)
sendSPI_Shared(e, leaf) == GroupSPI(e)
sendSPI(e, leaf) == SenderSPI(e, leaf)
SPI(p) == sendSPI(p.epoch, p.leaf)

(* SenderSalt: the mask of the epoch, each bit flipped where the leaf index *)
(* has a one.                                                               *)
BE32(leaf) == [i \in Bits |-> (leaf \div 2^i) % 2 = 1]
SenderSalt(e, leaf) == [i \in Bits |-> kdf.mask[e][i] # BE32(leaf)[i]]

(* InboundSAs reports an error when two leaves have one SPI.                *)
InboundSAsFails(e) ==
    \E l1, l2 \in Leaves : l1 # l2 /\ SenderSPI(e, l1) = SenderSPI(e, l2)

(* cacheCurrentSA: the SPIs of an epoch.  A collision goes unnoticed.       *)
CurrentSPIs(e) == {GroupSPI(e)} \union {SenderSPI(e, l) : l \in Leaves}

(* The epochs that trimSAs keeps of E when the current one is c.            *)
Kept_Strict(E, c) == {e \in E : ~(c >= Overlap /\ e <= c - Overlap /\ e # c)}
Kept(E, c) == {e \in E : ~(c >= Overlap /\ e < c - Overlap)}

(* The indices fit into the salt.                                           *)
ASSUME SaltWidthAssumption ==
    \A l1, l2 \in Leaves : BE32(l1) = BE32(l2) => l1 = l2

-----------------------------------------------------------------------------
Init ==
    /\ kdf \in KDFs
    /\ sendSeq = [l \in Leaves |-> [e \in Epochs |-> 0]]
    /\ joinEpoch \in {0, 1} \intersect Epochs /\ cur = joinEpoch
    /\ inSPIs = [e \in {joinEpoch} |-> CurrentSPIs(e)]
    /\ replay = [s \in SPIs |-> Window0]
    /\ used = {} /\ reused = FALSE
    /\ accepts = [p \in Packets |-> 0] /\ missed = {} /\ lost = {}

(* sendToReceiver under an SA of an epoch that this receiver has reached:   *)
(* the sender's lag (sendEpoch) sees to that.                               *)
NextSeq_OneCounter(l, e) == [f \in Epochs |-> IF f = e THEN sendSeq[l][e] + 1 ELSE 0]
NextSeq(l, e) == [sendSeq[l] EXCEPT ![e] = @ + 1]

Nonce(l, e) == <<e, SenderSalt(e, l), sendSeq[l][e]>>

SendToReceiver(l, e) ==
    /\ e <= cur /\ sendSeq[l][e] <= MaxSeq /\ Cardinality(used) < MaxSent
    /\ sendSeq' = [sendSeq EXCEPT ![l] = NextSeq(l, e)]
    /\ used' = used \union {Nonce(l, e)}
    /\ reused' = (reused \/ Nonce(l, e) \in used)
    /\ UNCHANGED <<kdf, joinEpoch, cur, inSPIs, replay, accepts, missed, lost>>

(* The receiver enters the next epoch: cacheCurrentSA and trimSAs.          *)
CacheCurrentSA ==
    /\ cur < MaxEpoch
    /\ cur' = cur + 1
    /\ inSPIs' = [e \in Kept(DOMAIN inSPIs \union {cur + 1}, cur + 1) |->
                    IF e = cur + 1 THEN CurrentSPIs(e) ELSE inSPIs[e]]
    /\ UNCHANGED <<kdf, sendSeq, joinEpoch, replay, used, reused, accepts, missed, lost>>

-----------------------------------------------------------------------------
(* accept refuses a number at or below high - Window; the guard keeps the   *)
(* unsigned subtraction from wrapping round.                                *)
TooOld(w, s) == w.high >= Window /\ s <= w.high - Window

NewHigh(w, s) == IF s > w.high THEN s ELSE w.high

(* What accept keeps of seen under the new high.                            *)
Pruned_Window(w, s) ==
    {x \in w.seen \union {s} : ~(NewHigh(w, s) >= Window /\ x <= NewHigh(w, s) - Window + 1)}
Pruned(w, s) ==
    {x \in w.seen \union {s} : ~(NewHigh(w, s) >= Window /\ x < NewHigh(w, s) - Window)}

(* A packet that was sent arrives, for the first time or again.  onData     *)
(* ignores those of epochs before the receiver's; it looks for the SPI in   *)
(* all the epochs held, and takes the window of that SPI.                   *)
Arrives(p) == p.seq < sendSeq[p.leaf][p.epoch] /\ p.epoch >= joinEpoch
Held(p) == \E e \in DOMAIN inSPIs : e >= joinEpoch /\ SPI(p) \in inSPIs[e]
Fresh(p) == ~TooOld(replay[SPI(p)], p.seq) /\ p.seq \notin replay[SPI(p)].seen

Lose(p) ==
    /\ Arrives(p) /\ ~Held(p)
    /\ lost' = lost \union {p}
    /\ UNCHANGED <<kdf, sendSeq, joinEpoch, cur, inSPIs, replay, used, reused, accepts, missed>>

Accept(p) ==
    /\ Arrives(p) /\ Held(p) /\ Fresh(p)
    /\ replay' = [replay EXCEPT ![SPI(p)] =
                    [high |-> NewHigh(replay[SPI(p)], p.seq),
                     seen |-> Pruned(replay[SPI(p)], p.seq)]]
    /\ accepts' = [accepts EXCEPT ![p] = @ + 1]
    /\ UNCHANGED <<kdf, sendSeq, joinEpoch, cur, inSPIs, used, reused, missed, lost>>

Refuse(p) ==
    /\ Arrives(p) /\ Held(p) /\ ~Fresh(p)
    /\ missed' = IF accepts[p] = 0 THEN missed \union {p} ELSE missed
    /\ UNCHANGED <<kdf, sendSeq, joinEpoch, cur, inSPIs, replay, used, reused, accepts, lost>>

Next ==
    \/ \E l \in Leaves, e \in Epochs : SendToReceiver(l, e)
    \/ CacheCurrentSA
    \/ \E p \in Packets : Lose(p) \/ Accept(p) \/ Refuse(p)

Spec == Init /\ [][Next]_vars

-----------------------------------------------------------------------------
TypeOK ==
    /\ kdf \in KDFs
    /\ sendSeq \in [Leaves -> [Epochs -> Nat]]
    /\ joinEpoch \in Epochs /\ cur \in Epochs
    /\ DOMAIN inSPIs \subseteq Epochs
    /\ \A e \in DOMAIN inSPIs : inSPIs[e] \subseteq SPIs
    /\ replay \in [SPIs -> [high : Seqs, seen : SUBSET Seqs]]
    /\ reused \in BOOLEAN
    /\ accepts \in [Packets -> Nat]
    /\ missed \subseteq Packets /\ lost \subseteq Packets

(* Anti-replay: however packets are repeated and reordered, none is         *)
(* accepted twice, although accept forgets the numbers it prunes and the    *)
(* receiver trims SAs and never their windows.                              *)
NoReplay == \A p \in Packets : accepts[p] <= 1

(* No packet is refused by a window without cause.  One that was refused    *)
(* and never accepted had fallen a whole window behind its own sender; or   *)
(* InboundSAs fails for its epoch; or an epoch with the same low byte had   *)
(* its SPI, whose window the receiver still keeps.                          *)
OnlyStaleMissed ==
    \A p \in missed :
       /\ accepts[p] = 0
       /\ \/ \E q \in Packets : /\ accepts[q] # 0 /\ q.leaf = p.leaf /\ q.epoch = p.epoch
                                /\ p.seq + Window <= q.seq
          \/ InboundSAsFails(p.epoch)
          \/ \E l \in Leaves, e \in Epochs : /\ e # p.epoch /\ e % Low = p.epoch % Low
                                             /\ SenderSPI(e, l) = SPI(p)

(* The memory of a window is bounded, whatever the gaps: seen never holds   *)
(* more than the window and the one number just below it.                   *)
SeenBounded == \A s \in SPIs : Cardinality(replay[s].seen) <= Window + 1

(* Make before break: the SPI of a packet tells apart the epochs that the   *)
(* receiver holds at the same time, whatever ExpandWithLabel returns.       *)
EpochsDemuxed ==
    \A e, f \in DOMAIN inSPIs : e # f => inSPIs[e] \intersect inSPIs[f] = {}

(* A packet finds no SA only when it is more than Overlap epochs late.      *)
LostIsLate == \A p \in lost : p.epoch + Overlap < cur

(* GCM nonce safety: no two packets under the key of one epoch have the     *)
(* same salt and number, by one sender going back to an older epoch or by   *)
(* two senders.                                                             *)
NonceOnce == ~reused
=============================================================================
