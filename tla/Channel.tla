------------------------------ MODULE Channel ------------------------------
(***************************************************************************)
(* What two seats of a tunnel promise together: one history, extended by   *)
(* one move at a time, each by the seat whose turn it is, of which either   *)
(* seat knows some part.  Nothing of frames, acknowledgements, records or   *)
(* reconnects is left.  DistributedTunnel is shown to implement it.         *)
(***************************************************************************)
EXTENDS Naturals, Sequences

CONSTANTS Party, Moves, Length, Turn(_)

VARIABLES agreed,   \* the histories that carry both signatures
          view      \* per seat: the one it takes for the present state

vars == <<agreed, view>>

Init ==
  /\ agreed = {<<>>}
  /\ view = [p \in Party |-> <<>>]

Latest(s) == s \in agreed /\ \A t \in agreed : Len(t) <= Len(s)

\* The seat whose turn it is plays m on the latest state; the other one co-signs it and
\* knows it at once.
Agree(p, q, m) ==
  \E s \in agreed :
    LET next == Append(s, [by |-> p, move |-> m])
    IN /\ Latest(s) /\ Len(s) < Length /\ Turn(Len(s)) = p
       /\ agreed' = agreed \cup {next}
       /\ view' = [view EXCEPT ![q] = next]

\* A seat moves to an agreed state: the acknowledgement arrives, it adopts what its peer
\* shows, or its page starts again from a record.
Learn(p) ==
  \E s \in agreed : view' = [view EXCEPT ![p] = s] /\ agreed' = agreed

Next ==
  \/ \E p, q \in Party, m \in Moves : p # q /\ Agree(p, q, m)
  \/ \E p \in Party : Learn(p)

Spec == Init /\ [][Next]_vars
=============================================================================
