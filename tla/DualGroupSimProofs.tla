-------------------------- MODULE DualGroupSimProofs --------------------------
(***************************************************************************)
(* Proofs about the committer and the reflector of every replica, for      *)
(* every scenario: any clients, replicas, window, churn and rekeys, and    *)
(* any loss, delay, repetition and reordering of what is published.        *)
(*                                                                         *)
(* FounderOK says of the founder's state on a replica what makes the two   *)
(* properties inductive: it stays joined and is never behind, so that it   *)
(* replays no commit; the reflector has every commit but perhaps the last; *)
(* and what has been echoed has been accepted.                             *)
(***************************************************************************)
EXTENDS DualGroupSim, TLAPS

(* Zenon is tried before the SMT solver, which gets more time than its default. *)
USE ZenonT(10), SMTT(30)

USE ScenariosAssumption

(* The fields of the founder's state that the argument is about. *)
Fields == {"status", "epoch", "catchup", "confirmed", "pendingWelcome"}

StateOK(st, log, members) ==
  /\ Fields \subseteq DOMAIN st
  /\ st.status = "joined" /\ ~st.catchup
  /\ st.epoch \in Nat
  /\ \E T : members \in Seq(T)
  /\ Len(members) = st.epoch + 1
  /\ log \subseteq 0 .. st.epoch - 1
  /\ \A b \in 0 .. st.epoch - 2 : b \in log
  /\ st.confirmed \subseteq log
  /\ st.pendingWelcome # {} =>
       st.pendingWelcome \subseteq members[st.epoch + 1] \ members[st.epoch]

FounderOK(r) == StateOK(vnis[Founder][r], logs[r], commits[r])

SimInv ==
  /\ Founder \in DOMAIN vnis
  /\ DOMAIN vnis[Founder] = Replicas
  /\ DOMAIN logs = Replicas
  /\ DOMAIN commits = Replicas
  /\ \A r \in Replicas : FounderOK(r)

LEMMA SimInit == bootstrap => SimInv
<1> SUFFICES ASSUME bootstrap PROVE SimInv
  OBVIOUS
<1>1. /\ DOMAIN vnis = sc.clients /\ Founder \in sc.clients
      /\ DOMAIN vnis[Founder] = Replicas /\ DOMAIN logs = Replicas /\ DOMAIN commits = Replicas
      /\ \A r \in Replicas : vnis[Founder][r] = foundVNI /\ logs[r] = {} /\ commits[r] = <<{Founder}>>
  BY DEF bootstrap, Replicas
<1>2. <<{Founder}>> \in Seq({{Founder}}) /\ Len(<<{Founder}>>) = 1
  OBVIOUS
<1>3. /\ Fields \subseteq DOMAIN foundVNI
      /\ foundVNI.status = "joined" /\ foundVNI.catchup = FALSE /\ foundVNI.epoch = 0
      /\ foundVNI.confirmed = {} /\ foundVNI.pendingWelcome = {}
  BY DEF Fields, foundVNI, newVNIState
<1>4. StateOK(foundVNI, {}, <<{Founder}>>)
  <2>1. PICK members : members = <<{Founder}>>
    BY Zenon
  <2>2. (\E T : members \in Seq(T)) /\ Len(members) = 0 + 1
    <3>1. members \in Seq({{Founder}}) /\ Len(members) = 0 + 1
      BY <1>2, <2>1
    <3>2. QED
      BY <3>1
  <2>3. \A b \in 0 .. 0 - 2 : b \in {}
    OBVIOUS
  <2>4. StateOK(foundVNI, {}, members)
    BY <1>3, <2>2, <2>3 DEF StateOK
  <2>5. QED
    BY <2>1, <2>4
<1>5. QED
  BY <1>1, <1>4 DEF SimInv, FounderOK

(* One commit more: what Append does to the members of the epochs. *)
LEMMA OneMore ==
  ASSUME NEW T, NEW members \in Seq(T), NEW new, NEW e \in Nat, Len(members) = e + 1
  PROVE  /\ Append(members, new) \in Seq(T \cup {new})
         /\ Len(Append(members, new)) = (e + 1) + 1
         /\ Append(members, new)[(e + 1) + 1] = new
         /\ Append(members, new)[e + 1] = members[e + 1]
<1>1. members \in Seq(T \cup {new})
  OBVIOUS
<1>2. QED
  BY <1>1

(* The commit that reconcile or rekey makes: the reflector has all before it. *)
LEMMA Committed ==
  ASSUME NEW st, NEW log, NEW members, StateOK(st, log, members), canCommit(st),
         NEW next, NEW new, Fields \subseteq DOMAIN next,
         next.status = st.status, next.catchup = st.catchup, next.confirmed = st.confirmed,
         next.epoch = st.epoch + 1,
         next.pendingWelcome \subseteq new \ members[st.epoch + 1]
  PROVE  StateOK(next, log, Append(members, new))
<1> PICK T : members \in Seq(T)
  BY DEF StateOK
<1> PICK e \in Nat : e = st.epoch
  BY DEF StateOK
<1>1. /\ Append(members, new) \in Seq(T \cup {new})
      /\ Len(Append(members, new)) = (e + 1) + 1
      /\ Append(members, new)[(e + 1) + 1] = new
      /\ Append(members, new)[e + 1] = members[e + 1]
  BY OneMore DEF StateOK
<1>2. log \subseteq 0 .. (e + 1) - 1
  BY DEF StateOK
<1>3. \A b \in 0 .. (e + 1) - 2 : b \in log
  BY DEF StateOK, canCommit
<1>4. QED
  BY <1>1, <1>2, <1>3 DEF StateOK

LEMMA Committing ==
  ASSUME SimInv, NEW r \in Replicas, NEW new, NEW next,
         commits' = [commits EXCEPT ![r] = Append(@, new)],
         vnis' = [vnis EXCEPT ![Founder][r] = next],
         StateOK(next, logs[r], Append(commits[r], new)),
         UNCHANGED <<sc, logs>>
  PROVE  SimInv'
<1>1. Replicas' = Replicas
  BY DEF Replicas
<1>2. /\ Founder \in DOMAIN vnis' /\ DOMAIN vnis'[Founder] = Replicas
      /\ DOMAIN logs' = Replicas /\ DOMAIN commits' = Replicas
      /\ vnis'[Founder][r] = next /\ commits'[r] = Append(commits[r], new)
      /\ \A q \in Replicas : q # r => vnis'[Founder][q] = vnis[Founder][q] /\ commits'[q] = commits[q]
  BY DEF SimInv
<1>3. \A q \in Replicas : FounderOK(q)'
  BY <1>2 DEF SimInv, FounderOK
<1>4. QED
  BY <1>1, <1>2, <1>3 DEF SimInv
LEMMA reconcileStep ==
  ASSUME SimInv, NEW r \in Replicas, reconcile(r)
  PROVE  SimInv'
<1> DEFINE st == vnis[Founder][r]
           new == Desired(churned)
           added == new \ Members(r, st.epoch)
           grown == pruneDepartedPeers([st EXCEPT !.epoch = @ + 1], new)
           next == [grown EXCEPT !.peerEpoch = Seed(@, added, st.epoch + 1), !.pendingWelcome = added]
<1>1. /\ canCommit(st)
      /\ commits' = [commits EXCEPT ![r] = Append(@, new)]
      /\ vnis' = [vnis EXCEPT ![Founder][r] = next]
      /\ UNCHANGED <<sc, logs>>
  BY DEF reconcile, Become
<1>2. StateOK(st, logs[r], commits[r])
  BY DEF SimInv, FounderOK
<1>3. added \subseteq new \ commits[r][st.epoch + 1]
  BY DEF Members
<1> HIDE DEF st, new, added
<1>4. /\ DOMAIN grown = DOMAIN st
      /\ grown.status = st.status /\ grown.catchup = st.catchup
      /\ grown.confirmed = st.confirmed /\ grown.epoch = st.epoch + 1
  BY <1>2 DEF StateOK, Fields, pruneDepartedPeers
<1> HIDE DEF grown
<1>5. /\ Fields \subseteq DOMAIN next
      /\ next.status = st.status /\ next.catchup = st.catchup /\ next.confirmed = st.confirmed
      /\ next.epoch = st.epoch + 1 /\ next.pendingWelcome = added
  BY <1>2, <1>4 DEF StateOK, Fields
<1> HIDE DEF next
<1>6. StateOK(next, logs[r], Append(commits[r], new))
  BY <1>1, <1>2, <1>3, <1>5, Committed
<1>7. QED
  BY <1>1, <1>6, Committing

LEMMA rekeyStep ==
  ASSUME SimInv, NEW r \in Replicas, rekey(r)
  PROVE  SimInv'
<1> DEFINE st == vnis[Founder][r]
           new == commits[r][Len(commits[r])]
           next == [st EXCEPT !.epoch = @ + 1]
<1>1. /\ canCommit(st)
      /\ commits' = [commits EXCEPT ![r] = Append(@, new)]
      /\ vnis' = [vnis EXCEPT ![Founder][r] = next]
      /\ UNCHANGED <<sc, logs>>
  BY DEF rekey, Become, SimInv
<1>2. StateOK(st, logs[r], commits[r])
  BY DEF SimInv, FounderOK
<1> HIDE DEF st, new
<1>3. /\ Fields \subseteq DOMAIN next
      /\ next.status = st.status /\ next.catchup = st.catchup /\ next.confirmed = st.confirmed
      /\ next.epoch = st.epoch + 1 /\ next.pendingWelcome = {}
  BY <1>1, <1>2 DEF StateOK, Fields, canCommit
<1> HIDE DEF next
<1>4. StateOK(next, logs[r], Append(commits[r], new))
  BY <1>1, <1>2, <1>3, Committed
<1>5. QED
  BY <1>1, <1>4, Committing

(* The reflector accepts a commit that the founder has sent. *)
LEMMA dsOnCommitStep ==
  ASSUME SimInv, NEW r \in Replicas, NEW base \in Nat, dsOnCommit(r, base)
  PROVE  SimInv'
<1>1. /\ Replicas' = Replicas /\ UNCHANGED <<vnis, commits>>
      /\ DOMAIN logs' = Replicas /\ logs'[r] = logs[r] \cup {base}
      /\ \A q \in Replicas : q # r => logs'[q] = logs[q]
  BY DEF dsOnCommit, Replicas, SimInv
<1>2. StateOK(vnis[Founder][r], logs[r], commits[r]) /\ base < vnis[Founder][r].epoch
  BY DEF SimInv, FounderOK, dsOnCommit, sendCommit
<1>3. StateOK(vnis[Founder][r], logs[r] \cup {base}, commits[r])
  BY <1>2 DEF StateOK
<1>4. \A q \in Replicas : FounderOK(q)'
  BY <1>1, <1>3 DEF SimInv, FounderOK
<1>5. QED
  BY <1>1, <1>4 DEF SimInv

(* A delivery changes one client on one replica: the founder's state stays
   right if it is that client's. *)
LEMMA Delivered ==
  ASSUME SimInv, NEW c, NEW r \in Replicas, NEW next, Become(c, r, next),
         UNCHANGED <<sc, commits, logs>>,
         c = Founder => StateOK(next, logs[r], commits[r])
  PROVE  SimInv'
<1>1. Replicas' = Replicas
  BY DEF Replicas
<1>2. CASE c # Founder
  <2>1. Founder \in DOMAIN vnis' /\ vnis'[Founder] = vnis[Founder]
    BY <1>2 DEF SimInv, Become
  <2>2. QED
    BY <1>1, <2>1 DEF SimInv, FounderOK
<1>3. CASE c = Founder
  <2>1. /\ Founder \in DOMAIN vnis' /\ DOMAIN vnis'[Founder] = Replicas
        /\ vnis'[Founder][r] = next
        /\ \A q \in Replicas : q # r => vnis'[Founder][q] = vnis[Founder][q]
    BY <1>3 DEF SimInv, Become
  <2>2. \A q \in Replicas : FounderOK(q)'
    BY <1>3, <2>1 DEF SimInv, FounderOK
  <2>3. QED
    BY <1>1, <2>1, <2>2 DEF SimInv
<1>4. QED
  BY <1>2, <1>3

(* The echo of a commit is of one that the reflector accepted, and never the
   next one of the founder's own. *)
LEMMA onCommitStep ==
  ASSUME SimInv, NEW c, NEW r \in Replicas, NEW base, onCommit(c, r, base)
  PROVE  SimInv'
<1> DEFINE st == vnis[c][r]
           echo == IF c = Founder THEN [st EXCEPT !.confirmed = @ \cup {base}] ELSE st
           next == IF st.epoch = base THEN applyCommit(c, r, echo, base) ELSE echo
<1>1. Become(c, r, next) /\ base \in logs[r] /\ UNCHANGED <<sc, commits, logs>>
  BY DEF onCommit, reflect
<1>2. ASSUME c = Founder
      PROVE  StateOK(next, logs[r], commits[r])
  <2>1. StateOK(st, logs[r], commits[r])
    BY <1>2 DEF SimInv, FounderOK
  <2>2. st.epoch # base
    BY <1>1, <2>1 DEF StateOK
  <2>3. next = [st EXCEPT !.confirmed = @ \cup {base}]
    BY <1>2, <2>2
  <2> HIDE DEF next, st
  <2>4. /\ DOMAIN next = DOMAIN st
        /\ next.status = st.status /\ next.catchup = st.catchup /\ next.epoch = st.epoch
        /\ next.pendingWelcome = st.pendingWelcome /\ next.confirmed = st.confirmed \cup {base}
    BY <2>1, <2>3 DEF StateOK, Fields
  <2>5. QED
    BY <1>1, <2>1, <2>4 DEF StateOK
<1> HIDE DEF next
<1>3. QED
  BY <1>1, <1>2, Delivered

(* Nobody is ahead of the founder, so a heartbeat never makes it catch up. *)
LEMMA onHeartbeatStep ==
  ASSUME SimInv, NEW c, NEW r \in Replicas, NEW s, NEW e \in Epochs(r), onHeartbeat(c, r, s, e)
  PROVE  SimInv'
<1> DEFINE st == vnis[c][r]
           next == hear(st, s, e)
<1>1. Become(c, r, next) /\ UNCHANGED <<sc, commits, logs>>
  BY DEF onHeartbeat
<1>2. ASSUME c = Founder
      PROVE  StateOK(next, logs[r], commits[r])
  <2>1. StateOK(st, logs[r], commits[r]) /\ e \in 0 .. st.epoch
    BY <1>2 DEF SimInv, FounderOK, Epochs
  <2> HIDE DEF st
  <2>2. ~(e > st.epoch)
    BY <2>1 DEF StateOK
  <2>3. /\ DOMAIN next = DOMAIN st
        /\ next.status = st.status /\ next.epoch = st.epoch /\ next.confirmed = st.confirmed
        /\ next.catchup = (st.catchup \/ e > st.epoch)
        /\ next.pendingWelcome = st.pendingWelcome \ {s}
    BY <2>1 DEF StateOK, Fields, hear
  <2> HIDE DEF next
  <2>4. QED
    BY <2>1, <2>2, <2>3 DEF StateOK
<1> HIDE DEF next
<1>3. QED
  BY <1>1, <1>2, Delivered

(* The founder is joined and not behind: it takes no Welcome and no log. *)
LEMMA onWelcomeStep ==
  ASSUME SimInv, NEW c, NEW r \in Replicas, NEW e, onWelcome(c, r, e)
  PROVE  SimInv'
<1>1. c # Founder
  BY DEF onWelcome, SimInv, FounderOK, StateOK
<1>2. QED
  BY <1>1, Delivered DEF onWelcome

LEMMA onLogReplyStep ==
  ASSUME SimInv, NEW c, NEW r \in Replicas, NEW n, onLogReply(c, r, n)
  PROVE  SimInv'
<1>1. vnis[c][r].catchup /\ UNCHANGED <<sc, commits, logs>>
  BY DEF onLogReply
<1>2. c # Founder
  BY <1>1 DEF SimInv, FounderOK, StateOK
<1>3. \E next : Become(c, r, next)
  BY DEF onLogReply
<1>4. QED
  BY <1>1, <1>2, <1>3, Delivered

LEMMA SimNext ==
  ASSUME SimInv, [Next]_vars
  PROVE  SimInv'
<1>1. ASSUME dispatchChurn \/ UNCHANGED vars
      PROVE  SimInv'
  BY <1>1 DEF dispatchChurn, vars, SimInv, FounderOK, Replicas
<1>2. ASSUME NEW r \in Replicas, NEW base \in Epochs(r), dsOnCommit(r, base)
      PROVE  SimInv'
  BY <1>2, dsOnCommitStep DEF Epochs
<1>3. ASSUME NEW r \in Replicas, NEW c \in Clients, NEW e \in Epochs(r), onDeliver(c, r, e)
      PROVE  SimInv'
  BY <1>3, onCommitStep, onWelcomeStep, onLogReplyStep, onHeartbeatStep DEF onDeliver
<1>4. QED
  BY <1>1, <1>2, <1>3, reconcileStep, rekeyStep DEF Next

LEMMA SimInvInvariant == Spec => []SimInv
BY SimInit, SimNext, PTL DEF Spec

(* The reflector's log never has a gap: the founder makes no commit before it
   has the echo of the last (canCommit), so a client that catches up from any
   epoch finds every commit up to the newest in the log (dsOnCommit). *)
THEOREM SimLogComplete == Spec => []LogComplete
<1>1. ASSUME NEW e \in Nat, NEW log, log \subseteq 0 .. e - 1,
             \A b \in 0 .. e - 2 : b \in log, NEW b \in log
      PROVE  0 .. b \subseteq log
  BY <1>1
<1>2. SimInv => LogComplete
  BY <1>1 DEF SimInv, FounderOK, StateOK, LogComplete
<1>3. QED
  BY <1>2, SimInvInvariant, PTL

(* While a Welcome is outstanding the founder is in the epoch that it admits
   to: those it is waiting for were added by its last commit (canCommit). *)
THEOREM SimWelcomeCurrent == Spec => []WelcomeCurrent
<1>1. ASSUME NEW e \in Nat
      PROVE  (e - 1) + 1 = e
  OBVIOUS
<1>2. SimInv => WelcomeCurrent
  BY <1>1 DEF SimInv, FounderOK, StateOK, WelcomeCurrent, Members
<1>3. QED
  BY <1>2, SimInvInvariant, PTL

==============================================================================
