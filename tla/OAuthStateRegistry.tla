------------------------- MODULE OAuthStateRegistry -------------------------
(***************************************************************************)
(* What the store of OAuth states promises to the flows: a state that was  *)
(* issued stays redeemable until it is redeemed, once, or until it has     *)
(* expired.  There is one exception: a write that fails may lose what is   *)
(* pending, or bring back what was pending before.  Each such accident is  *)
(* counted, so nothing else can pass for one; and even an accident brings  *)
(* back no state that was redeemed.                                        *)
(***************************************************************************)
EXTENDS Naturals

VARIABLES
    now,        \* the clock
    pending,    \* entries a callback may redeem: records with state and expires
    entered,    \* states that were ever pending
    redeemed,   \* states that were redeemed
    resets      \* number of accidents with the whole file

vars == <<now, pending, entered, redeemed, resets>>

Init ==
    /\ now = 0 /\ resets = 0
    /\ pending = {} /\ entered = {} /\ redeemed = {}

Tick ==
    /\ now' = now + 1
    /\ UNCHANGED <<pending, entered, redeemed, resets>>

Issue == \E e \in pending' :
    /\ e.state \notin entered
    /\ pending' = pending \cup {e}
    /\ entered' = entered \cup {e.state}
    /\ UNCHANGED <<now, redeemed, resets>>

Redeem == \E e \in pending :
    /\ e.state \notin redeemed
    /\ pending' = pending \ {e}
    /\ redeemed' = redeemed \cup {e.state}
    /\ UNCHANGED <<now, entered, resets>>

Purge ==
    /\ pending' \subseteq pending
    /\ \A e \in pending \ pending' : e.expires <= now
    /\ UNCHANGED <<now, entered, redeemed, resets>>

Reset ==
    /\ resets' = resets + 1
    /\ entered \subseteq entered' /\ redeemed \subseteq redeemed'
    /\ \A e \in pending' : e.state \in entered' \ redeemed'
    /\ UNCHANGED now

Next == Tick \/ Issue \/ Redeem \/ Purge \/ Reset

Spec == Init /\ [][Next]_vars
=============================================================================
