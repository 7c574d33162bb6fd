------------------------------- MODULE Escrow -------------------------------
(***************************************************************************)
(* What the three programs promise together: the stake behind an agent     *)
(* answers for its disputes.  A dispute may hold the stake from its        *)
(* opening.  What is held may grow and does not leave; it goes only as the *)
(* penalty of a dispute that is upheld, or with a slash, and both end      *)
(* every hold.  Anyone may lift all holds at once.  Protocol implements    *)
(* it.                                                                     *)
(***************************************************************************)
EXTENDS Dispute, Integers

CONSTANT Penalty         \* what an upheld dispute costs

VARIABLES
    stake,               \* what disputes can be paid from
    held                 \* open disputes that hold it

escrowVars == <<vars, stake, held>>

EscrowInit == Init /\ stake = 0 /\ held = {}

Deposit == stake' > stake /\ UNCHANGED <<vars, held>>

Withdraw ==
    /\ held = {}
    /\ stake' \in Nat /\ stake' < stake
    /\ UNCHANGED <<vars, held>>

Lift == held' = {} /\ UNCHANGED <<vars, stake>>

Slash ==
    /\ held' = {}
    /\ stake' \in Nat /\ stake' <= stake
    /\ UNCHANGED vars

Perform(t) ==
    /\ Assign(t) \/ Deliver(t)
    /\ UNCHANGED <<stake, held>>

\* Who opens a dispute may leave the stake alone, and so may who closes it.
Contest(t) ==
    /\ Open(t)
    /\ held' \in {held, held \cup {t}}
    /\ UNCHANGED stake

Close(t) ==
    /\ Uphold(t) \/ Dismiss(t)
    /\ held' \in {{}, held \ {t}}
    /\ UNCHANGED stake

Penalise(t) ==
    /\ Uphold(t)
    /\ stake >= Penalty
    /\ stake' = stake - Penalty
    /\ held' = {}

EscrowNext ==
    \/ Deposit \/ Withdraw \/ Lift \/ Slash
    \/ \E t \in Tasks : Perform(t) \/ Contest(t) \/ Close(t) \/ Penalise(t)

EscrowSpec == EscrowInit /\ [][EscrowNext]_escrowVars

=============================================================================
