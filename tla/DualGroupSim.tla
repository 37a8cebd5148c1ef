---------------------------- MODULE DualGroupSim ----------------------------
(***************************************************************************)
(* Package sim: the clients of one tenant VNI, each in one MLS group per   *)
(* replica, and the reflector that orders the commits of each replica.     *)
(*                                                                         *)
(* The founder is the one committer of every replica (no scenario removes  *)
(* it), so what a commit is follows from its replica and its base epoch:   *)
(* commits[r] holds the members of every epoch.  Only the founder's leaf   *)
(* ever carries a path, so a member can process every commit of its epoch  *)
(* (MLSMembers has the cases where others commit).                         *)
(*                                                                         *)
(* The bus drops messages, partitions and a downed reflector lose them,    *)
(* and jitter reorders them.  Whatever was once sent may therefore arrive  *)
(* at any later time, again after a resend, or never; what was sent can be *)
(* read off the state: every commit and Welcome issued, a heartbeat for    *)
(* every epoch that a member has been in.                                  *)
(***************************************************************************)
EXTENDS Integers, Sequences, FiniteSets, FiniteSetsExt, Functions, SequenceFolds

CONSTANTS Founder,
          Scenarios    \* clients, number of replicas, window W, churn (joins and
                       \* leaves in order) and bound on the rekeys of a replica

ASSUME ScenariosAssumption == \A s \in Scenarios : Founder \in s.clients

VARIABLES sc,       \* the scenario of this run
          churned,  \* how many of its churn operations have happened
          vnis,     \* vnis[c][r]: client c's state on replica r
          commits,  \* commits[r][e + 1]: the members of epoch e
          logs      \* logs[r]: the bases of the commits the reflector accepted

vars == <<sc, churned, vnis, commits, logs>>

Clients == sc.clients
Replicas == 0 .. sc.replicas - 1

Members(r, e) == commits[r][e + 1]

Desired(n) ==
  LET churn(ids, op) == IF op.join THEN ids \cup {op.client} ELSE ids \ {op.client}
  IN  FoldLeft(churn, {Founder}, SubSeq(sc.churn, 1, n))

(***************************************************************************)
(* A client's state.  saCache, inSPIs and the outbox follow from it: an SA *)
(* is cached at every epoch, and the outbox has every commit issued.       *)
(***************************************************************************)
NoPeers == [p \in {} |-> 0]

newVNIState ==
  [status |-> "prospective", epoch |-> 0, joinEpoch |-> 0, peerEpoch |-> NoPeers, heard |-> {},
   catchup |-> FALSE, confirmed |-> {}, pendingWelcome |-> {}]

foundVNI == [newVNIState EXCEPT !.status = "joined"]
prospectiveVNI == newVNIState

Joined(c, r) == vnis[c][r].status = "joined"

bootstrap ==
  /\ sc \in Scenarios
  /\ churned = 0
  /\ vnis = [c \in sc.clients |-> [r \in 0 .. sc.replicas - 1 |->
               IF c = Founder THEN foundVNI ELSE prospectiveVNI]]
  /\ commits = [r \in 0 .. sc.replicas - 1 |-> <<{Founder}>>]
  /\ logs = [r \in 0 .. sc.replicas - 1 |-> {}]

(* The epochs kept by cacheCurrentSA and trimSAs. *)
saCache(st) ==
  {e \in st.joinEpoch .. st.epoch : ~(st.epoch >= sc.W /\ e < st.epoch - sc.W)}

Seed(peerEpoch, peers, e) ==
  [p \in DOMAIN peerEpoch \cup peers |-> IF p \in DOMAIN peerEpoch THEN peerEpoch[p] ELSE e]

(* Mutant: peers that a commit removes are kept. *)
pruneDepartedPeersNot(st, members) == st

pruneDepartedPeers(st, members) ==
  [st EXCEPT !.peerEpoch = Restrict(@, DOMAIN @ \cap members),
             !.heard = @ \ (DOMAIN st.peerEpoch \ members)]

leaveVNI(st) ==
  [newVNIState EXCEPT !.status = "left", !.epoch = st.epoch, !.joinEpoch = st.joinEpoch]

(* HandleCommit and what onCommit and onLogReply do after it. *)
applyCommit(c, r, st, base) ==
  LET old == Members(r, base)
      new == Members(r, base + 1)
      next == [st EXCEPT !.epoch = base + 1, !.peerEpoch = Seed(@, new \ (old \cup {c}), base + 1)]
  IN  IF c \in new THEN pruneDepartedPeers(next, new) ELSE leaveVNI(st)

Become(c, r, st) == vnis' = [vnis EXCEPT ![c][r] = st]

(***************************************************************************)
(* The committer.                                                          *)
(***************************************************************************)
(* Mutant: a commit does not wait for the reflector's echo of the last. *)
canCommitUnconfirmed(st) == st.pendingWelcome = {}

(* Mutant: a commit does not wait for the joiners of the last. *)
canCommitAnyWelcome(st) == st.epoch > 0 => st.epoch - 1 \in st.confirmed

canCommit(st) ==
  /\ st.pendingWelcome = {}
  /\ st.epoch > 0 => st.epoch - 1 \in st.confirmed

reconcile(r) ==
  LET st == vnis[Founder][r]
      new == Desired(churned)
      added == new \ Members(r, st.epoch)
      next == pruneDepartedPeers([st EXCEPT !.epoch = @ + 1], new)
  IN  /\ canCommit(st)
      /\ new # Members(r, st.epoch)
      /\ commits' = [commits EXCEPT ![r] = Append(@, new)]
      /\ Become(Founder, r, [next EXCEPT !.peerEpoch = Seed(@, added, st.epoch + 1),
                                         !.pendingWelcome = added])
      /\ UNCHANGED <<sc, churned, logs>>

Rekeys(r) == Cardinality({i \in 2 .. Len(commits[r]) : commits[r][i] = commits[r][i - 1]})

rekey(r) ==
  LET st == vnis[Founder][r]
  IN  /\ canCommit(st)
      /\ Rekeys(r) < sc.rekeys
      /\ commits' = [commits EXCEPT ![r] = Append(@, @[Len(@)])]
      /\ Become(Founder, r, [st EXCEPT !.epoch = @ + 1])
      /\ UNCHANGED <<sc, churned, logs>>

(***************************************************************************)
(* What has been published on the bus: the founder's commits and Welcomes, *)
(* the reflector's copies, a heartbeat in every epoch a client has been in.*)
(***************************************************************************)
sendCommit(r, base) == base < vnis[Founder][r].epoch

reflect(r, base) == base \in logs[r]

sendWelcome(c, r, e) ==
  e \in 1 .. vnis[Founder][r].epoch /\ c \in Members(r, e) \ Members(r, e - 1)

sendHeartbeat(s, r, e) ==
  vnis[s][r].status # "prospective" /\ e \in vnis[s][r].joinEpoch .. vnis[s][r].epoch

(***************************************************************************)
(* The reflector: the founder's commit, first sent or resent, gets in.     *)
(***************************************************************************)
dsOnCommit(r, base) ==
  /\ sendCommit(r, base)
  /\ base \notin logs[r]
  /\ logs' = [logs EXCEPT ![r] = @ \cup {base}]
  /\ UNCHANGED <<sc, churned, vnis, commits>>

(***************************************************************************)
(* Deliveries to clients.                                                  *)
(***************************************************************************)
onCommit(c, r, base) ==
  LET st == vnis[c][r]
      echo == IF c = Founder THEN [st EXCEPT !.confirmed = @ \cup {base}] ELSE st
  IN  /\ reflect(r, base)
      /\ Joined(c, r)
      /\ Become(c, r, IF st.epoch = base THEN applyCommit(c, r, echo, base) ELSE echo)
      /\ UNCHANGED <<sc, churned, commits, logs>>

(* onWelcome: the existing members may not have processed the Add. *)
SeedJoiner(c, members, e) == [p \in members \ {c} |-> IF e > 0 THEN e - 1 ELSE 0]

onWelcome(c, r, e) ==
  /\ vnis[c][r].status = "prospective"
  /\ sendWelcome(c, r, e)
  /\ Become(c, r, [vnis[c][r] EXCEPT !.status = "joined", !.epoch = e, !.joinEpoch = e,
                                     !.peerEpoch = SeedJoiner(c, Members(r, e), e)])
  /\ UNCHANGED <<sc, churned, commits, logs>>

(* Mutant: a heartbeat of a later epoch does not make the receiver catch up. *)
hearDeaf(st, s, e) ==
  [st EXCEPT !.heard = @ \cup {s}, !.pendingWelcome = @ \ {s},
             !.peerEpoch = [p \in DOMAIN @ \cup {s} |->
                              IF p = s /\ (s \notin DOMAIN @ \/ @[s] < e) THEN e ELSE @[p]]]

(* Mutant: a peer's epoch is recorded once and not raised. *)
hearOnce(st, s, e) ==
  [st EXCEPT !.heard = @ \cup {s}, !.pendingWelcome = @ \ {s}, !.catchup = @ \/ e > st.epoch,
             !.peerEpoch = Seed(@, {s}, e)]

hear(st, s, e) ==
  [st EXCEPT !.heard = @ \cup {s}, !.pendingWelcome = @ \ {s}, !.catchup = @ \/ e > st.epoch,
             !.peerEpoch = [p \in DOMAIN @ \cup {s} |->
                              IF p = s /\ (s \notin DOMAIN @ \/ @[s] < e) THEN e ELSE @[p]]]

onHeartbeat(c, r, s, e) ==
  /\ Joined(c, r) /\ s # c
  /\ sendHeartbeat(s, r, e)
  /\ Become(c, r, hear(vnis[c][r], s, e))
  /\ UNCHANGED <<sc, churned, commits, logs>>

(* The log as it was when it held the bases below n. *)
onLogReply(c, r, n) ==
  LET recs == Ascending({b \in logs[r] : b < n})
      replay(st, b) ==
        IF st.status = "joined" /\ st.epoch = b THEN applyCommit(c, r, st, b) ELSE st
  IN  /\ Joined(c, r) /\ vnis[c][r].catchup
      /\ Become(c, r, FoldLeft(replay, vnis[c][r], recs))
      /\ UNCHANGED <<sc, churned, commits, logs>>

onDeliver(c, r, e) ==
  \/ onCommit(c, r, e)
  \/ onWelcome(c, r, e)
  \/ onLogReply(c, r, e)
  \/ \E s \in Clients : onHeartbeat(c, r, s, e)

dispatchChurn ==
  /\ churned < Len(sc.churn)
  /\ churned' = churned + 1
  /\ UNCHANGED <<sc, vnis, commits, logs>>

Epochs(r) == 0 .. vnis[Founder][r].epoch

Next ==
  \/ dispatchChurn
  \/ \E r \in Replicas :
       \/ reconcile(r) \/ rekey(r)
       \/ \E base \in Epochs(r) : dsOnCommit(r, base)
       \/ \E c \in Clients, e \in Epochs(r) : onDeliver(c, r, e)

Spec == bootstrap /\ [][Next]_vars

(***************************************************************************)
(* Fairness.  Timers are periodic and faults are lifted at the end: of     *)
(* what the timers repeat, something gets through.  They repeat the        *)
(* unconfirmed head commit (and with it the echo), Welcomes, heartbeats of *)
(* the current epoch and, for a client that they show to be behind, log    *)
(* requests.  Nobody repeats the echo of a confirmed commit.               *)
(***************************************************************************)
head(r) == vnis[Founder][r].epoch - 1

resendCommit(r) == dsOnCommit(r, head(r))
echoHead(r) == head(r) \notin vnis[Founder][r].confirmed /\ onCommit(Founder, r, head(r))
resendWelcome(c, r) == c \in vnis[Founder][r].pendingWelcome /\ onWelcome(c, r, vnis[Founder][r].epoch)
emitHeartbeat(s, c, r) == Joined(s, r) /\ onHeartbeat(c, r, s, vnis[s][r].epoch)
serveCatchup(c, r) ==
  /\ \E s \in Clients : Joined(s, r) /\ vnis[s][r].epoch > vnis[c][r].epoch
  /\ onLogReply(c, r, 1 + Max({-1} \cup logs[r]))

Repeated ==
  \/ dispatchChurn
  \/ \E r \in Replicas :
       \/ reconcile(r) \/ resendCommit(r) \/ echoHead(r)
       \/ \E c \in Clients :
            \/ resendWelcome(c, r) \/ serveCatchup(c, r)
            \/ \E s \in Clients : emitHeartbeat(s, c, r)

FairSpec == Spec /\ WF_vars(Repeated)

(***************************************************************************)
(* The data plane: what a client would send now, and whether the receiver  *)
(* could decrypt it.  The SPI names the sender, the replica and the epoch. *)
(***************************************************************************)
(* Mutant: a client sends under its own epoch (mbbDisabled). *)
sendEpochOwn(st) == st.epoch

sendEpoch(st) == Min({st.epoch} \cup Range(st.peerEpoch))

Usable(c, rcv) ==
  {r \in Replicas : /\ Joined(c, r)
                    /\ sendEpoch(vnis[c][r]) \in saCache(vnis[c][r])
                    /\ rcv \in Members(r, vnis[c][r].epoch)}

NoReplica == -1

(* The first replica on which the receiver was heard, or else any. *)
sendToReceiver(c, rcv) ==
  LET first(rs) == Min(rs)
      heard == {r \in Usable(c, rcv) : rcv \in vnis[c][r].heard}
  IN  IF heard # {} THEN first(heard)
      ELSE IF Usable(c, rcv) # {} THEN first(Usable(c, rcv)) ELSE NoReplica

(* onData counts a packet of epoch e on replica r as lost. *)
onDataLoses(rcv, r, e) ==
  Joined(rcv, r) /\ e >= vnis[rcv][r].joinEpoch /\ e \notin saCache(vnis[rcv][r])

(***************************************************************************)
(* Properties                                                              *)
(***************************************************************************)
Lost(c, rcv, r) == r # NoReplica /\ onDataLoses(rcv, r, sendEpoch(vnis[c][r]))

(* Sender lag: of the packets that onData counts as lost none was sent by a
   client that is level with the receiver or ahead of it, whoever else lags and
   however old the epochs it knows of its peers are. *)
OnlyLateSendersLose ==
  \A c, rcv \in Clients : c # rcv =>
    LET r == sendToReceiver(c, rcv)
    IN  Lost(c, rcv, r) => vnis[rcv][r].epoch > vnis[c][r].epoch

(* Invariant 2 of the simulation: every delivered packet can be decrypted, at
   least while the members of a replica are within W epochs of one another. *)
Spread(r) ==
  LET epochs == {vnis[c][r].epoch : c \in {d \in Clients : Joined(d, r)}}
  IN  Max(epochs) - Min(epochs)

ZeroKeyLoss ==
  (\A r \in Replicas : Spread(r) <= sc.W) =>
    \A c, rcv \in Clients : c # rcv => ~Lost(c, rcv, sendToReceiver(c, rcv))

(* The epoch does not advance underneath an outstanding Welcome (canCommit). *)
WelcomeCurrent ==
  \A r \in Replicas : LET e == vnis[Founder][r].epoch IN
    vnis[Founder][r].pendingWelcome # {} =>
      vnis[Founder][r].pendingWelcome \subseteq Members(r, e) \ Members(r, e - 1)

(* The reflector's log has no gap that a client catching up could not cross. *)
LogComplete ==
  \A r \in Replicas : \A b \in logs[r] : 0 .. b \subseteq logs[r]

(* A late heartbeat of a removed peer brings back its entry, and with it the
   lag; the next commit that the client handles or reconciles drops it.  (A
   rekey of the founder does not.) *)
GhostsPruned ==
  [][\A c \in Clients, r \in Replicas :
       LET st == vnis'[c][r] IN
       st.status = "joined" /\ st.epoch > vnis[c][r].epoch
         /\ (c = Founder => Members(r, vnis[c][r].epoch) # commits'[r][st.epoch + 1])
       => DOMAIN st.peerEpoch \subseteq commits'[r][st.epoch + 1]]_vars

(* After the churn the members of every replica are the desired ones, all in
   the same epoch (invariants 1 and 3 of Evaluate). *)
Settled ==
  \A r \in Replicas, c \in Clients :
    /\ Joined(c, r) <=> c \in Desired(Len(sc.churn))
    /\ Joined(c, r) => vnis[c][r].epoch = vnis[Founder][r].epoch

Converges == <>[]Settled

(* After the churn a client that keeps no departed peer sends under the current
   epoch again: the lag ends. *)
LagEnds ==
  <>[](\A r \in Replicas, c \in Clients :
         Joined(c, r) /\ DOMAIN vnis[c][r].peerEpoch \subseteq Members(r, vnis[c][r].epoch)
         => sendEpoch(vnis[c][r]) = vnis[c][r].epoch)
=============================================================================
