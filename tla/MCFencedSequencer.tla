------------------------- MODULE MCFencedSequencer -------------------------
(* Instances of FencedSequencer for TLC.                                    *)
EXTENDS FencedSequencer, FiniteSets, TLC

CONSTANTS x, y

MCSubmissions == {<<1, x>>, <<1, y>>, <<2, x>>}

(* Bound: slot 2 is asked for once slot 1 is decided, as its commits build  *)
(* on the decided one; the rival commit y comes through the standby.        *)
SubmittedInOrder ==
    \A o \in Owners :
        /\ call'[o].epoch = 2 => decided[1] # NoRef
        /\ call'[o].ref = y => o = Standby

(* Bound: the last token is left to the standby, which keeps it.  Without   *)
(* this bound the others could use up the tokens of the model, and a fair   *)
(* standby would have none to take over with; the code has no last token.   *)
LastTokenForStandby ==
    /\ next < next' /\ next' = MaxToken => heldBy' = Standby
    /\ next = MaxToken => restarts' = restarts

(* Bound: one of the commits is answered (false, nil), any number of times. *)
OneRefused == Cardinality(refused) <= 1
=============================================================================
