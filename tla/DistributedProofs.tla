------------------------- MODULE DistributedProofs -------------------------
(***************************************************************************)
(* What the co-signing seats guarantee for every game, every length and    *)
(* every number of dropped sockets and reloads, whatever the network does  *)
(* to frames: the two confirmed histories agree, no nonce carries two      *)
(* co-signed states, and the seats are at most one move apart.             *)
(*                                                                         *)
(* The argument never looks at the network.  It rests on what a signature  *)
(* says about its signer: a seat that answered a move holds it, in memory  *)
(* and in the record it would restart from, and a seat that proposed one   *)
(* holds everything before it.                                             *)
(***************************************************************************)
EXTENDS DistributedTunnel, TLAPS, SequenceTheorems

\* s is an initial part of t.
Below(s, t) == Len(s) <= Len(t) /\ \A i \in 1 .. Len(s) : s[i] = t[i]

\* What the seat has now and has again after a reload.
Held(p) == IF live[p] /\ ~dirty[p] THEN disk[p].state ELSE seat[p].state

\* Who answers the last move of s, and how much of s its signer p holds.
Mover(s) == Turn(Len(s) - 1)
Part(p, s) == IF Mover(s) = p THEN Len(s) - 1 ELSE Len(s)

\* A co-signed state below s for every shorter length.
Grounded(s) ==
  \A k \in 1 .. Len(s) - 1 : \E y \in Seq(Move) : CoSigned(y) /\ Len(y) = k /\ Below(y, s)

\* What the signature of x[1] over x[2] says.
SignedOK(x) ==
  /\ x[2] # <<>> /\ Grounded(x[2])
  /\ x[2][Len(x[2])].by = Mover(x[2])
  /\ Part(x[1], x[2]) <= Len(Held(x[1]))
  /\ \A i \in 1 .. Part(x[1], x[2]) : x[2][i] = Held(x[1])[i]

\* What a seat and its record hold is co-signed, and a pending move is signed.
SeatOK(p) ==
  /\ seat[p].state # <<>> => CoSigned(seat[p].state)
  /\ disk[p].state # <<>> => CoSigned(disk[p].state)
  /\ Below(Held(p), seat[p].state)
  /\ seat[p].pending # NoMove => <<p, ApplyMove(seat[p].state, seat[p].pending, p)>> \in signed
  /\ disk[p].pending # NoMove => <<p, ApplyMove(disk[p].state, disk[p].pending, p)>> \in signed

SignedInv == \A x \in signed : SignedOK(x)
SeatInv == \A p \in Party : SeatOK(p)

IInv == TypeOK /\ (faults.kill = 0 => SignedInv /\ SeatInv)

-----------------------------------------------------------------------------
\* Initial parts of sequences.

\* Two initial parts of one sequence that are as long as each other are equal.
LEMMA BelowEqual ==
  ASSUME NEW S, NEW s \in Seq(S), NEW t \in Seq(S), NEW u \in Seq(S),
         Below(s, u), Below(t, u), Len(s) = Len(t)
  PROVE  s = t
<1>1. \A i \in 1 .. Len(s) : s[i] = t[i]
  BY DEF Below
<1> QED
  BY <1>1, SeqEqual

\* Below is transitive.
LEMMA BelowTrans ==
  ASSUME NEW S, NEW s \in Seq(S), NEW t \in Seq(S), NEW u \in Seq(S),
         Below(s, t), Below(t, u)
  PROVE  Below(s, u)
BY DEF Below

\* A sequence is below what is appended to it.
LEMMA BelowAppend ==
  ASSUME NEW S, NEW s \in Seq(S), NEW e \in S
  PROVE  Below(s, Append(s, e)) /\ Below(s, s)
BY DEF Below

\* The community operator says the same.
LEMMA BelowIsPrefix ==
  ASSUME NEW S, NEW s \in Seq(S), NEW t \in Seq(S), Below(s, t)
  PROVE  IsPrefix(s, t)
<1>1. Len(s) \in Nat /\ Len(t) \in Nat /\ Len(s) <= Len(t)
  BY DEF Below
<1>2. SubSeq(s, 1, Len(s)) \in Seq(S) /\ SubSeq(t, 1, Len(s)) \in Seq(S)
  BY <1>1, SubSeqProperties
<1>3. Len(SubSeq(s, 1, Len(s))) = Len(s) /\ Len(SubSeq(t, 1, Len(s))) = Len(s)
  BY <1>1
<1>4. \A i \in 1 .. Len(s) : SubSeq(s, 1, Len(s))[i] = SubSeq(t, 1, Len(s))[i]
  BY <1>1 DEF Below
<1> QED
  BY <1>1, <1>2, <1>3, <1>4, SeqEqual DEF IsPrefix

-----------------------------------------------------------------------------
\* Types.

\* The other seat of the match is the other one of the two.
LEMMA OtherSeat ==
  \A p \in Party : Other(p) \in Party /\ Other(p) # p /\ Other(Other(p)) = p
BY SeatAssumption DEF Party, Other

\* turn(nonce) names one seat, and the other one for the next nonce.
LEMMA TurnSeat ==
  \A n \in Nat : Turn(n) \in Party /\ Turn(n + 1) = Other(Turn(n))
<1> SUFFICES ASSUME NEW n \in Nat
             PROVE  Turn(n) \in Party /\ Turn(n + 1) = Other(Turn(n))
  OBVIOUS
<1>1. n % 2 = 0 <=> (n + 1) % 2 # 0
  OBVIOUS
<1> QED
  BY <1>1, SeatAssumption DEF Turn, Party, Other

\* A match starts with values of the types.
LEMMA InitTypes == Init => TypeOK
<1> SUFFICES ASSUME Init PROVE TypeOK
  OBVIOUS
<1>1. At(<<>>) \in [state : Seq(Move), pending : Moves \cup {NoMove}]
  BY DEF At
<1>2. \A p \in Party : Plan(p, <<>>, NoMove) \in BOOLEAN
  BY DEF Plan
<1> QED
  BY <1>1, <1>2 DEF Init, TypeOK, NoRecord

\* Every step keeps the types, a step per action.
LEMMA NextTypes == TypeOK /\ [Next]_vars => TypeOK'
<1> SUFFICES ASSUME TypeOK, [Next]_vars PROVE TypeOK'
  OBVIOUS
<1> DEFINE Record == [state : Seq(Move), pending : Moves \cup {NoMove}]
<1>0. /\ seat \in [Party -> Record] /\ disk \in [Party -> Record]
      /\ \A p \in Party : /\ seat[p].state \in Seq(Move)
                          /\ seat[p].pending \in Moves \cup {NoMove}
      /\ \A s \in Seq(Move) : At(s) \in Record
      /\ \A x \in signed : x[1] \in Party /\ x[2] \in Seq(Move)
      /\ NoRecord \in Record
  BY DEF TypeOK, At, NoRecord
<1>b. \A p \in Party : \A s, m : Plan(p, s, m) \in BOOLEAN /\ IsTerminal(s) \in BOOLEAN
  BY DEF Plan, IsTerminal
<1>1. ASSUME NEW p \in Party, NEW m \in Moves, Propose(p, m) PROVE TypeOK'
  <2>1. ApplyMove(seat[p].state, m, p) \in Seq(Move)
    <3>1. [by |-> p, move |-> m] \in Move
      BY DEF Move
    <3> QED
      BY <1>0, <3>1, AppendProperties DEF ApplyMove
  <2>2. seat' \in [Party -> Record]
    <3>1. [seat EXCEPT ![p].pending = m] \in [Party -> Record]
      BY <1>0
    <3> QED
      BY <1>0, <1>1, <3>1 DEF Propose
  <2>3. signed' \subseteq Party \X Seq(Move)
    BY <1>1, <2>1 DEF Propose, TypeOK, State
  <2>4. dirty' \in [Party -> BOOLEAN] /\ timer' \in [Party -> BOOLEAN]
    BY <1>1 DEF Propose, TypeOK, Persist
  <2> QED
    BY <1>1, <2>2, <2>3, <2>4 DEF Propose, TypeOK
<1>2. ASSUME NEW p \in Party, Input(p) PROVE TypeOK'
  BY <1>2 DEF Input, TypeOK
<1>c. ASSUME NEW p \in Party, NEW s \in Seq(Move), Confirm(p, s)
      PROVE  /\ seat' \in [Party -> Record] /\ dirty' \in [Party -> BOOLEAN]
             /\ timer' \in [Party -> BOOLEAN] /\ settling' \in [Party -> BOOLEAN]
             /\ armed' \in [Party -> BOOLEAN]
  <2>1. seat' \in [Party -> Record]
    BY <1>0, <1>c DEF Confirm
  <2>2. dirty' \in [Party -> BOOLEAN] /\ armed' \in [Party -> BOOLEAN]
    BY <1>c DEF Confirm, Persist, TypeOK
  <2>3. timer' \in [Party -> BOOLEAN]
    BY <1>c, <1>b DEF Confirm, TypeOK
  <2>4. settling' \in [Party -> BOOLEAN]
    BY <1>c, <1>b DEF Confirm, TypeOK
  <2> QED
    BY <2>1, <2>2, <2>3, <2>4
<1>3. ASSUME NEW p \in Party, OnMove(p) PROVE TypeOK'
  <2> DEFINE f == Head(net[p])
             next == ApplyMove(State(p), f.move, Other(p))
  <2>1. CASE UNCHANGED <<seat, timer, settling, armed, dirty, signed>>
    BY <1>3, <2>1 DEF OnMove, TypeOK
  <2>2. CASE /\ <<Other(p), next>> \in signed
             /\ signed' = signed \cup {<<p, next>>} /\ Confirm(p, next)
    <3>1. next \in Seq(Move)
      BY <2>2, <1>0
    <3>2. signed' \subseteq Party \X Seq(Move)
      BY <2>2, <3>1 DEF TypeOK
    <3> QED
      BY <1>3, <1>c, <2>2, <3>1, <3>2 DEF OnMove, TypeOK
  <2> QED
    BY <1>3, <2>1, <2>2 DEF OnMove
<1>4. ASSUME NEW p \in Party, OnAck(p) PROVE TypeOK'
  <2> DEFINE next == ApplyMove(State(p), Pending(p), p)
  <2>1. CASE UNCHANGED <<seat, timer, settling, armed, dirty>>
    BY <1>4, <2>1 DEF OnAck, TypeOK
  <2>2. CASE <<Other(p), next>> \in signed /\ Confirm(p, next)
    <3>1. next \in Seq(Move)
      BY <2>2, <1>0
    <3> QED
      BY <1>4, <1>c, <2>2, <3>1 DEF OnAck, TypeOK
  <2> QED
    BY <1>4, <2>1, <2>2 DEF OnAck
<1>5. ASSUME NEW p \in Party, OnResumed(p) PROVE TypeOK'
  BY <1>5 DEF OnResumed, TypeOK
<1>6. ASSUME NEW p \in Party, OnResync(p) PROVE TypeOK'
  <2>1. CASE UNCHANGED seat
    BY <1>6, <2>1 DEF OnResync, TypeOK
  <2>2. CASE /\ CoSigned(Head(net[p]).checkpoint)
             /\ seat' = [seat EXCEPT ![p] = At(Head(net[p]).checkpoint)]
    <3>1. Head(net[p]).checkpoint \in Seq(Move)
      BY <1>0, <2>2 DEF CoSigned, Party
    <3>2. seat' \in [Party -> Record]
      BY <1>0, <2>2, <3>1
    <3> QED
      BY <1>6, <3>2 DEF OnResync, TypeOK
  <2> QED
    BY <1>6, <2>1, <2>2 DEF OnResync
<1>7. ASSUME NEW p \in Party, Flush(p) PROVE TypeOK'
  BY <1>7, <1>0 DEF Flush, TypeOK
<1>f. ASSUME NEW f \in {"drop", "reload", "kill"}, NEW max \in Nat, Count(f, max)
      PROVE  faults' \in [drop : Nat, reload : Nat, kill : Nat]
  BY <1>f DEF Count, TypeOK
<1>8. ASSUME NEW p \in Party, NEW k, DropSocket(p, k) PROVE TypeOK'
  BY <1>8, <1>f, BoundAssumption DEF DropSocket, Disconnect, TypeOK
<1>r. ASSUME NEW p \in Party, NEW record \in Record, NEW k, Restart(p, record), Disconnect(p, k),
             faults' \in [drop : Nat, reload : Nat, kill : Nat]
      PROVE  TypeOK'
  <2>2. seat' \in [Party -> Record] /\ disk' \in [Party -> Record]
    BY <1>0, <1>r DEF Restart
  <2>3. record.pending # NoMove => ApplyMove(record.state, record.pending, p) \in Seq(Move)
    BY DEF ApplyMove, Move
  <2>4. signed' \subseteq Party \X Seq(Move)
    BY <1>r, <2>3 DEF Restart, TypeOK
  <2>5. /\ live' \in [Party -> BOOLEAN] /\ cold' \in [Party -> BOOLEAN]
        /\ timer' \in [Party -> BOOLEAN] /\ settling' \in [Party -> BOOLEAN]
        /\ armed' \in [Party -> BOOLEAN] /\ dirty' \in [Party -> BOOLEAN]
    BY <1>r, <1>b DEF Restart, TypeOK
  <2>6. up' \in [Party -> BOOLEAN]
    BY <1>r DEF Disconnect, TypeOK
  <2> QED
    BY <1>r, <2>2, <2>4, <2>5, <2>6 DEF TypeOK
<1>9. ASSUME NEW p \in Party, NEW k, Reload(p, k) PROVE TypeOK'
  BY <1>0, <1>9, <1>f, <1>r, BoundAssumption DEF Reload
<1>10. ASSUME NEW p \in Party, NEW k, Kill(p, k) PROVE TypeOK'
  BY <1>0, <1>10, <1>f, <1>r, BoundAssumption DEF Kill
<1>11. ASSUME NEW p \in Party, Connect(p) PROVE TypeOK'
  <2>1. timer' \in [Party -> BOOLEAN]
    <3>1. Plan(p, State(p), Pending(p)) \in BOOLEAN
      BY <1>b
    <3> QED
      BY <1>11, <3>1 DEF Connect, TypeOK
  <2>2. armed' \in [Party -> BOOLEAN]
    BY <1>11 DEF Connect, TypeOK, HasPending
  <2> QED
    BY <1>11, <2>1, <2>2 DEF Connect, TypeOK
<1>12. ASSUME NEW p \in Party, Watchdog(p) PROVE TypeOK'
  <2>1. disk' \in [Party -> Record]
    BY <1>0, <1>12 DEF Watchdog
  <2> QED
    BY <1>12, <2>1 DEF Watchdog, Disconnect, TypeOK
<1>13. CASE UNCHANGED vars
  BY <1>13 DEF vars, TypeOK
<1> QED
  BY <1>1, <1>2, <1>3, <1>4, <1>5, <1>6, <1>7, <1>8, <1>9, <1>10, <1>11, <1>12, <1>13
  DEF Next, Receive, Fault

-----------------------------------------------------------------------------
\* Consequences of the invariant.

\* What a seat holds is a history of moves.
LEMMA HeldType == TypeOK => \A p \in Party : Held(p) \in Seq(Move)
BY DEF TypeOK, Held

\* A seat that answered the last move of s holds all of s.
LEMMA ResponderHolds ==
  ASSUME TypeOK, SignedInv, NEW p \in Party, NEW s, <<p, s>> \in signed, Mover(s) # p
  PROVE  s \in Seq(Move) /\ Below(s, Held(p))
<1>1. s \in Seq(Move)
  BY DEF TypeOK
<1>2. SignedOK(<<p, s>>)
  BY DEF SignedInv
<1>3. Part(p, s) = Len(s)
  BY DEF Part
<1> QED
  BY <1>1, <1>2, <1>3 DEF SignedOK, Below

\* A seat that proposed the last move of s holds everything before it.
LEMMA ProposerHolds ==
  ASSUME TypeOK, SignedInv, NEW p \in Party, NEW s, <<p, s>> \in signed
  PROVE  /\ s \in Seq(Move) /\ s # <<>> /\ Len(s) \in Nat \ {0}
         /\ Mover(s) \in Party /\ Mover(s) = Turn(Len(s) - 1)
         /\ Len(s) - 1 <= Len(Held(p))
         /\ \A i \in 1 .. Len(s) - 1 : s[i] = Held(p)[i]
<1>1. s \in Seq(Move) /\ SignedOK(<<p, s>>)
  BY DEF TypeOK, SignedInv
<1>2. s # <<>> /\ Len(s) \in Nat \ {0}
  BY <1>1, EmptySeq, LenProperties DEF SignedOK
<1>3. Len(s) - 1 \in Nat
  BY <1>2
<1>4. Mover(s) \in Party
  BY <1>3, TurnSeat DEF Mover
<1>5. Part(p, s) = Len(s) - 1 \/ Part(p, s) = Len(s)
  BY DEF Part
<1>6. Len(Held(p)) \in Nat
  BY HeldType, LenProperties
<1> QED
  BY <1>1, <1>2, <1>3, <1>4, <1>5, <1>6 DEF SignedOK, Mover

\* At most one co-signed state for a nonce.
LEMMA UniqueCoSigned ==
  ASSUME TypeOK, SignedInv, NEW s, NEW t, CoSigned(s), CoSigned(t), Len(s) = Len(t)
  PROVE  s = t
<1> DEFINE r == Other(Mover(s))
<1>1. A \in Party
  BY DEF Party
<1>2. Mover(s) \in Party /\ s \in Seq(Move) /\ t \in Seq(Move)
  BY <1>1, ProposerHolds DEF CoSigned
<1>3. r \in Party /\ r # Mover(s) /\ r # Mover(t)
  BY <1>2, OtherSeat DEF Mover
<1>4. Below(s, Held(r)) /\ Below(t, Held(r))
  BY <1>3, ResponderHolds DEF CoSigned
<1> QED
  BY <1>2, <1>3, <1>4, HeldType, BelowEqual

\* A shorter co-signed state is below a longer one.
LEMMA CoSignedBelow ==
  ASSUME TypeOK, SignedInv, NEW s, NEW t, CoSigned(s), CoSigned(t), Len(s) <= Len(t)
  PROVE  Below(s, t)
<1>1. A \in Party /\ <<A, t>> \in signed /\ <<A, s>> \in signed
  BY DEF Party, CoSigned
<1>2. s \in Seq(Move) /\ t \in Seq(Move) /\ Len(s) \in Nat \ {0} /\ Len(t) \in Nat \ {0}
  BY <1>1, ProposerHolds
<1>3. CASE Len(s) = Len(t)
  BY <1>3, <1>2, UniqueCoSigned DEF Below
<1>4. CASE Len(s) # Len(t)
  <2>1. Len(s) \in 1 .. Len(t) - 1
    BY <1>2, <1>4
  <2>2. PICK y \in Seq(Move) : CoSigned(y) /\ Len(y) = Len(s) /\ Below(y, t)
    BY <1>1, <2>1 DEF SignedInv, SignedOK, Grounded
  <2> QED
    BY <2>2, UniqueCoSigned
<1> QED
  BY <1>3, <1>4

\* What was said by a signature stays true while what the seats hold only grows.
LEMMA SignedFrame ==
  ASSUME TypeOK, TypeOK', SignedInv, signed \subseteq signed',
         \A p \in Party : Below(Held(p), Held(p)')
  PROVE  \A x \in signed : SignedOK(x)'
<1> SUFFICES ASSUME NEW x \in signed PROVE SignedOK(x)'
  OBVIOUS
<1>1. x[1] \in Party /\ x[2] \in Seq(Move) /\ SignedOK(x)
  BY DEF TypeOK, SignedInv
<1>2. Held(x[1]) \in Seq(Move) /\ Held(x[1])' \in Seq(Move)
  BY <1>1, HeldType DEF TypeOK, Held
<1>3. Grounded(x[2])'
  BY <1>1 DEF SignedOK, Grounded, CoSigned
<1>4. Part(x[1], x[2]) \in Int
  BY <1>1, LenProperties DEF Part
<1>5. Below(Held(x[1]), Held(x[1])')
  BY <1>1
<1>6. /\ Part(x[1], x[2]) <= Len(Held(x[1])')
      /\ \A i \in 1 .. Part(x[1], x[2]) : x[2][i] = Held(x[1])'[i]
  BY <1>1, <1>2, <1>4, <1>5, LenProperties DEF SignedOK, Below
<1> QED
  BY <1>1, <1>3, <1>6 DEF SignedOK

\* A seat a step does not touch.
LEMMA SeatFrame ==
  ASSUME NEW q \in Party, SeatOK(q), signed \subseteq signed',
         seat'[q] = seat[q], disk'[q] = disk[q], dirty'[q] = dirty[q], live'[q] = live[q]
  PROVE  SeatOK(q)' /\ Held(q)' = Held(q)
BY DEF SeatOK, Held, CoSigned, ApplyMove, Below

\* A sequence is an initial part of itself.
LEMMA BelowItself == \A s : Len(s) \in Nat => Below(s, s)
BY DEF Below

\* A step of seat p: what remains to be shown is about p and the new signatures.
LEMMA StepOf ==
  ASSUME TypeOK, TypeOK', SignedInv, SeatInv, NEW p \in Party,
         signed \subseteq signed', \A x \in signed' : x \in signed \/ SignedOK(x)',
         \A q \in Party : q # p => /\ seat'[q] = seat[q] /\ disk'[q] = disk[q]
                                  /\ dirty'[q] = dirty[q] /\ live'[q] = live[q],
         Below(Held(p), Held(p)'), SeatOK(p)'
  PROVE  SignedInv' /\ SeatInv'
<1>1. \A q \in Party : q # p => SeatOK(q)' /\ Held(q)' = Held(q)
  BY SeatFrame DEF SeatInv
<1>2. \A q \in Party : Below(Held(q), Held(q)')
  BY <1>1, HeldType, LenProperties, BelowItself
<1>3. \A x \in signed : SignedOK(x)'
  BY <1>2, SignedFrame
<1> QED
  BY <1>1, <1>3 DEF SignedInv, SeatInv

\* A step that changes neither seats, records nor signatures.
LEMMA SameStep ==
  ASSUME TypeOK, TypeOK', SignedInv, SeatInv, UNCHANGED <<seat, disk, dirty, live, signed>>
  PROVE  SignedInv' /\ SeatInv'
<1>1. A \in Party /\ SeatOK(A)
  BY DEF Party, SeatInv
<1>2. SeatOK(A)' /\ Held(A)' = Held(A)
  BY <1>1, SeatFrame
<1>3. Below(Held(A), Held(A)')
  BY <1>1, <1>2, HeldType, LenProperties, BelowItself
<1>4. signed \subseteq signed' /\ \A x \in signed' : x \in signed \/ SignedOK(x)'
  OBVIOUS
<1>5. \A q \in Party : q # A => /\ seat'[q] = seat[q] /\ disk'[q] = disk[q]
                               /\ dirty'[q] = dirty[q] /\ live'[q] = live[q]
  OBVIOUS
<1> QED
  BY <1>1, <1>2, <1>3, <1>4, <1>5, StepOf

-----------------------------------------------------------------------------
\* The steps.

\* propose: the new signature is over the next move of a seat whose turn it is.
LEMMA ProposeStep ==
  ASSUME TypeOK, TypeOK', SignedInv, SeatInv, NEW p \in Party, NEW m \in Moves, Propose(p, m)
  PROVE  SignedInv' /\ SeatInv'
<1>0. PICK s, next : s = seat[p].state /\ next = ApplyMove(s, m, p)
  OBVIOUS
<1>1. CASE ~Plan(p, State(p), Pending(p))
  BY <1>1, SameStep DEF Propose
<1>2. CASE Plan(p, State(p), Pending(p))
  <2>1. s \in Seq(Move) /\ Len(s) \in Nat /\ Turn(Len(s)) = p
    BY <1>0, <1>2, LenProperties DEF TypeOK, Plan, State
  <2>2. [by |-> p, move |-> m] \in Move
    BY DEF Move
  <2>3. /\ next \in Seq(Move) /\ Len(next) = Len(s) + 1 /\ next # <<>>
        /\ next[Len(next)] = [by |-> p, move |-> m]
        /\ \A i \in 1 .. Len(s) : next[i] = s[i]
    BY <1>0, <2>1, <2>2, AppendProperties DEF ApplyMove
  <2>4. Mover(next) = p /\ Part(p, next) = Len(s)
    BY <2>1, <2>3 DEF Mover, Part
  <2>5. SeatOK(p) /\ Held(p) \in Seq(Move) /\ Len(Held(p)) \in Nat
    BY HeldType, LenProperties DEF SeatInv
  <2>6. Below(s, Held(p))
    <3>1. CASE s = <<>>
      BY <3>1, <2>5 DEF Below
    <3>2. CASE s # <<>>
      <4>1. CoSigned(s) /\ <<p, s>> \in signed
        BY <1>0, <2>5, <3>2 DEF SeatOK, CoSigned
      <4>2. Len(s) - 1 \in Nat
        BY <2>1, <3>2, EmptySeq
      <4>3. Turn(Len(s)) = Other(Turn(Len(s) - 1)) /\ Turn(Len(s) - 1) \in Party
        <5>1. (Len(s) - 1) + 1 = Len(s)
          BY <2>1
        <5> QED
          BY <4>2, <5>1, TurnSeat
      <4>4. Mover(s) # p
        BY <2>1, <4>3, OtherSeat DEF Mover
      <4> QED
        BY <4>1, <4>4, ResponderHolds
    <3> QED
      BY <3>1, <3>2
  <2>7. Below(Held(p), s)
    BY <1>0, <2>5 DEF SeatOK
  <2>8. Held(p) = s
    BY <2>1, <2>5, <2>6, <2>7, SeqEqual DEF Below
  <2>9. /\ seat' = [seat EXCEPT ![p].pending = m]
        /\ signed' = signed \cup {<<p, next>>}
        /\ disk' = disk /\ live' = live
        /\ \A q \in Party : q # p => dirty'[q] = dirty[q]
    BY <1>0, <1>2 DEF Propose, State, Persist, TypeOK
  <2>10. seat'[p].state = s /\ seat'[p].pending = m
    BY <1>0, <2>9 DEF TypeOK
  <2>11. Held(p)' = s
    <3>1. CASE dirty'[p]
      BY <3>1, <2>10 DEF Held
    <3>2. CASE dirty'[p] = dirty[p]
      BY <3>2, <2>8, <2>9, <2>10, <1>0 DEF Held
    <3>3. dirty' = dirty \/ dirty' = [dirty EXCEPT ![p] = s # <<>>]
      BY <1>0, <1>2 DEF Propose, Persist, State
    <3>4. dirty'[p] = dirty[p] \/ dirty'[p] \/ s = <<>>
      BY <3>3 DEF TypeOK
    <3>5. CASE s = <<>> /\ ~dirty'[p]
      <4>1. Held(p)' = s \/ Held(p)' = disk[p].state
        BY <2>9, <2>10 DEF Held
      <4>2. ~dirty[p]
        BY <1>2 DEF Propose, Ready
      <4> QED
        BY <3>5, <4>1, <4>2, <2>8, <2>9, <2>10 DEF Held
    <3> QED
      BY <3>1, <3>2, <3>4, <3>5
  <2>12. Grounded(next)'
    <3> SUFFICES ASSUME NEW k \in 1 .. Len(next) - 1
                 PROVE  \E y \in Seq(Move) : CoSigned(y)' /\ Len(y) = k /\ Below(y, next)
      BY DEF Grounded
    <3>1. s # <<>> /\ CoSigned(s) /\ <<p, s>> \in signed
      BY <1>0, <2>1, <2>3, <2>5, EmptySeq DEF SeatOK, CoSigned
    <3>2. \A y : CoSigned(y) => CoSigned(y)'
      BY <2>9 DEF CoSigned
    <3>3. Below(s, next)
      BY <2>1, <2>3 DEF Below
    <3>4. CASE k = Len(s)
      BY <3>1, <3>2, <3>3, <3>4, <2>1
    <3>5. CASE k # Len(s)
      <4>1. k \in 1 .. Len(s) - 1
        BY <3>5, <2>1, <2>3
      <4>2. PICK y \in Seq(Move) : CoSigned(y) /\ Len(y) = k /\ Below(y, s)
        BY <3>1, <4>1 DEF SignedInv, SignedOK, Grounded
      <4> QED
        BY <3>2, <3>3, <4>2, <2>1, <2>3, BelowTrans
    <3> QED
      BY <3>4, <3>5
  <2>13. SignedOK(<<p, next>>)'
    <3>1. Part(p, next) <= Len(s) /\ \A i \in 1 .. Part(p, next) : next[i] = s[i]
      BY <2>1, <2>3, <2>4
    <3>2. next[Len(next)].by = Mover(next)
      BY <2>3, <2>4
    <3> QED
      BY <2>3, <2>11, <2>12, <3>1, <3>2 DEF SignedOK
  <2>14. SeatOK(p)'
    <3>1. <<p, ApplyMove(s, m, p)>> \in signed'
      BY <1>0, <2>9
    <3>2. Below(s, s)
      BY <2>1, BelowItself
    <3> QED
      BY <1>0, <2>5, <2>9, <2>10, <2>11, <3>1, <3>2 DEF SeatOK, CoSigned, ApplyMove
  <2>15. Below(Held(p), Held(p)')
    BY <2>1, <2>8, <2>11, BelowItself
  <2>16. \A q \in Party : q # p => /\ seat'[q] = seat[q] /\ disk'[q] = disk[q]
                                  /\ dirty'[q] = dirty[q] /\ live'[q] = live[q]
    BY <2>9 DEF TypeOK
  <2>17. signed \subseteq signed' /\ \A x \in signed' : x \in signed \/ SignedOK(x)'
    BY <2>9, <2>13
  <2> QED
    BY <2>14, <2>15, <2>16, <2>17, StepOf
<1> QED
  BY <1>1, <1>2

\* Every seat has a memory, a record and the flags that go with them.
LEMMA OverParty ==
  ASSUME TypeOK
  PROVE  DOMAIN seat = Party /\ DOMAIN disk = Party /\ DOMAIN dirty = Party /\ DOMAIN live = Party
BY DEF TypeOK

\* A confirmed move, the peer's or this seat's own: the peer has signed it, and
\* so has this seat.
LEMMA ConfirmStep ==
  ASSUME TypeOK, TypeOK', SignedInv, SeatInv, NEW p \in Party, NEW next, NEW e,
         next = Append(seat[p].state, e), Confirm(p, next), <<Other(p), next>> \in signed,
         signed' = signed \cup {<<p, next>>}, UNCHANGED <<disk, live>>
  PROVE  SignedInv' /\ SeatInv'
<1>1. next \in Seq(Move) /\ Len(next) \in Nat \ {0} /\ next # <<>>
  BY OtherSeat, ProposerHolds
<1>2. SignedOK(<<Other(p), next>>)
  BY DEF SignedInv
<1>3. Grounded(next) /\ next[Len(next)].by = Mover(next)
  BY <1>2 DEF SignedOK
<1>4. seat'[p] = At(next) /\ dirty'[p]
  BY <1>1 DEF Confirm, Persist, TypeOK
<1>5. Held(p)' = next
  BY <1>4 DEF Held, At
<1>6. Held(p) \in Seq(Move) /\ seat[p].state \in Seq(Move) /\ SeatOK(p)
  BY HeldType DEF TypeOK, SeatInv
<1>7. Below(Held(p), next)
  <2>1. /\ Len(next) = Len(seat[p].state) + 1
        /\ \A i \in 1 .. Len(seat[p].state) : next[i] = seat[p].state[i]
    BY <1>6 DEF Below
  <2>2. Below(seat[p].state, next)
    BY <1>6, <2>1, LenProperties DEF Below
  <2>3. Below(Held(p), seat[p].state)
    BY <1>6 DEF SeatOK
  <2> QED
    BY <1>1, <1>6, <2>2, <2>3, BelowTrans
<1>8. SignedOK(<<p, next>>)'
  <2>1. Grounded(next)'
    BY <1>3 DEF Grounded, CoSigned
  <2>2. Part(p, next) \in Int /\ Part(p, next) <= Len(next)
    BY <1>1 DEF Part
  <2> QED
    BY <1>1, <1>3, <1>5, <2>1, <2>2 DEF SignedOK
<1>9. SeatOK(p)'
  <2>1. CoSigned(next)'
    BY OtherSeat DEF CoSigned, Party, Other
  <2>2. Below(next, next)
    BY <1>1, BelowItself
  <2>3. seat'[p].state = next /\ seat'[p].pending = NoMove
    BY <1>4 DEF At
  <2>4. disk' = disk /\ signed \subseteq signed'
    OBVIOUS
  <2>5. (disk[p].state # <<>> => CoSigned(disk[p].state))'
    BY <1>6, <2>4, ZenonT(30) DEF SeatOK, CoSigned
  <2>6. (disk[p].pending # NoMove
          => <<p, ApplyMove(disk[p].state, disk[p].pending, p)>> \in signed)'
    BY <1>6, <2>4, ZenonT(30) DEF SeatOK, ApplyMove
  <2>7. Below(Held(p), seat[p].state)'
    BY <1>5, <2>2, <2>3 DEF Below
  <2>8. (seat[p].state # <<>> => CoSigned(seat[p].state))'
    BY <2>1, <2>3 DEF CoSigned
  <2> QED
    BY <2>3, <2>5, <2>6, <2>7, <2>8 DEF SeatOK
<1>10. \A q \in Party : q # p => /\ seat'[q] = seat[q] /\ disk'[q] = disk[q]
                                /\ dirty'[q] = dirty[q] /\ live'[q] = live[q]
  BY DEF Confirm, Persist, TypeOK
<1>11. signed \subseteq signed' /\ \A x \in signed' : x \in signed \/ SignedOK(x)'
  BY <1>8
<1> QED
  BY <1>5, <1>7, <1>9, <1>10, <1>11, StepOf

\* onResync adopting the peer's checkpoint: a longer co-signed history.
LEMMA AdoptStep ==
  ASSUME TypeOK, TypeOK', SignedInv, SeatInv, NEW p \in Party, NEW c, live[p], ~dirty[p],
         CoSigned(c), Len(c) > Len(seat[p].state), seat' = [seat EXCEPT ![p] = At(c)],
         UNCHANGED <<disk, dirty, live, signed>>
  PROVE  SignedInv' /\ SeatInv'
<1>1. c \in Seq(Move) /\ Len(c) \in Nat
  BY ProposerHolds DEF CoSigned
<1>2. SeatOK(p) /\ seat[p].state \in Seq(Move) /\ disk[p].state \in Seq(Move)
  BY DEF SeatInv, TypeOK
<1>3. seat'[p] = At(c)
  BY DEF TypeOK
<1>4. Held(p)' = disk[p].state /\ Held(p) = disk[p].state
  BY DEF Held
<1>5. Below(disk[p].state, c)
  <2>1. CASE disk[p].state = <<>>
    BY <1>1, <2>1 DEF Below
  <2>2. CASE disk[p].state # <<>>
    <3>1. CoSigned(disk[p].state)
      BY <1>2, <2>2 DEF SeatOK
    <3>2. Len(disk[p].state) <= Len(c)
      BY <1>1, <1>2, <1>4, LenProperties DEF SeatOK, Below
    <3> QED
      BY <3>1, <3>2, CoSignedBelow
  <2> QED
    BY <2>1, <2>2
<1>6. SeatOK(p)'
  BY <1>2, <1>3, <1>4, <1>5 DEF SeatOK, At, CoSigned, ApplyMove
<1>7. Below(Held(p), Held(p)')
  BY <1>2, <1>4, LenProperties, BelowItself
<1>8. \A q \in Party : q # p => /\ seat'[q] = seat[q] /\ disk'[q] = disk[q]
                               /\ dirty'[q] = dirty[q] /\ live'[q] = live[q]
  BY DEF TypeOK
<1>9. signed \subseteq signed' /\ \A x \in signed' : x \in signed \/ SignedOK(x)'
  OBVIOUS
<1> QED
  BY <1>6, <1>7, <1>8, <1>9, StepOf

\* flushResumeWrites: the record becomes what the seat holds.
LEMMA FlushStep ==
  ASSUME TypeOK, TypeOK', SignedInv, SeatInv, NEW p \in Party, Flush(p)
  PROVE  SignedInv' /\ SeatInv'
<1>1. /\ seat' = seat /\ live' = live /\ signed' = signed /\ live[p] /\ dirty[p]
      /\ disk'[p] = seat[p] /\ ~dirty'[p]
  BY DEF Flush, TypeOK
<1>2. Held(p) = seat[p].state /\ Held(p)' = seat[p].state
  BY <1>1 DEF Held
<1>3. Below(seat[p].state, seat[p].state)
  BY LenProperties, BelowItself DEF TypeOK
<1>4. SeatOK(p)'
  BY <1>1, <1>2, <1>3 DEF SeatInv, SeatOK, CoSigned, ApplyMove
<1>5. \A q \in Party : q # p => /\ seat'[q] = seat[q] /\ disk'[q] = disk[q]
                               /\ dirty'[q] = dirty[q] /\ live'[q] = live[q]
  BY DEF TypeOK, Flush
<1>6. signed \subseteq signed' /\ \A x \in signed' : x \in signed \/ SignedOK(x)'
  BY <1>1
<1> QED
  BY <1>2, <1>3, <1>4, <1>5, <1>6, StepOf

\* A reload restores what the seat held, because pagehide writes it first.
LEMMA ReloadStep ==
  ASSUME TypeOK, TypeOK', SignedInv, SeatInv, NEW p \in Party, live[p],
         Restart(p, IF dirty[p] THEN seat[p] ELSE disk[p])
  PROVE  SignedInv' /\ SeatInv'
<1>0. PICK r : r = IF dirty[p] THEN seat[p] ELSE disk[p]
  OBVIOUS
<1>1. /\ r.state \in Seq(Move) /\ Held(p) = r.state
      /\ r.state # <<>> => CoSigned(r.state)
      /\ r.pending # NoMove => <<p, ApplyMove(r.state, r.pending, p)>> \in signed
  BY <1>0 DEF TypeOK, Held, SeatInv, SeatOK
<1>2. Restart(p, r)
  BY <1>0
<1>3. signed' = signed
  <2>1. \/ signed' = signed
        \/ r.pending # NoMove /\ signed' = signed \cup {<<p, ApplyMove(r.state, r.pending, p)>>}
    BY <1>2 DEF Restart
  <2> QED
    BY <1>1, <2>1
<1>4. seat'[p] = r /\ ~dirty'[p] /\ live'[p] \in BOOLEAN
  BY <1>2 DEF Restart, TypeOK
<1>5. (live'[p] /\ disk'[p] = r) \/ (~live'[p] /\ disk'[p] = NoRecord)
  <2>1. CASE r.state # <<>> /\ ~IsTerminal(r.state)
    <3>1. disk' = [disk EXCEPT ![p] = r] /\ live' = [live EXCEPT ![p] = TRUE]
      BY <1>2, <2>1, ZenonT(30) DEF Restart
    <3> QED
      BY <3>1, OverParty
  <2>2. CASE ~(r.state # <<>> /\ ~IsTerminal(r.state))
    <3>1. disk' = [disk EXCEPT ![p] = NoRecord] /\ live' = [live EXCEPT ![p] = FALSE]
      BY <1>2, <2>2, ZenonT(30) DEF Restart
    <3> QED
      BY <3>1, OverParty
  <2> QED
    BY <2>1, <2>2
<1>6. Held(p)' = r.state
  BY <1>4, <1>5 DEF Held
<1>7. Below(r.state, r.state)
  BY <1>1, LenProperties, BelowItself
<1>8. SeatOK(p)'
  <2>1. NoRecord.state = <<>> /\ NoRecord.pending = NoMove
    BY DEF NoRecord, At
  <2>2. CASE disk'[p] = r
    BY <1>1, <1>3, <1>4, <1>6, <1>7, <2>2 DEF SeatOK, CoSigned, ApplyMove
  <2>3. CASE disk'[p] = NoRecord
    BY <1>1, <1>3, <1>4, <1>6, <1>7, <2>1, <2>3 DEF SeatOK, CoSigned, ApplyMove
  <2> QED
    BY <1>5, <2>2, <2>3
<1>9. \A q \in Party : q # p => /\ seat'[q] = seat[q] /\ disk'[q] = disk[q]
                               /\ dirty'[q] = dirty[q] /\ live'[q] = live[q]
  <2>1. /\ seat' = [seat EXCEPT ![p] = r] /\ dirty' = [dirty EXCEPT ![p] = FALSE]
        /\ \E d : disk' = [disk EXCEPT ![p] = d]
        /\ \E l : live' = [live EXCEPT ![p] = l]
    BY <1>2, ZenonT(30) DEF Restart
  <2>2. \A q \in Party : q # p => seat'[q] = seat[q] /\ dirty'[q] = dirty[q]
    BY <2>1, OverParty
  <2>3. \A q \in Party : q # p => disk'[q] = disk[q] /\ live'[q] = live[q]
    BY <2>1, OverParty
  <2> QED
    BY <2>2, <2>3
<1>10. signed \subseteq signed' /\ \A x \in signed' : x \in signed \/ SignedOK(x)'
  BY <1>3
<1> QED
  BY <1>1, <1>6, <1>7, <1>8, <1>9, <1>10, StepOf

\* The watchdog forgets the record of a session it ends.
LEMMA WatchdogStep ==
  ASSUME TypeOK, TypeOK', SignedInv, SeatInv, NEW p \in Party, Watchdog(p)
  PROVE  SignedInv' /\ SeatInv'
<1>1. /\ seat' = seat /\ dirty' = dirty /\ signed' = signed /\ ~live'[p]
      /\ disk'[p] = NoRecord
  BY DEF Watchdog, TypeOK
<1>2. Held(p)' = seat[p].state
  BY <1>1 DEF Held
<1>3. Below(seat[p].state, seat[p].state) /\ Below(Held(p), seat[p].state)
  BY LenProperties, BelowItself DEF TypeOK, SeatInv, SeatOK
<1>4. SeatOK(p)'
  <2>1. NoRecord.state = <<>> /\ NoRecord.pending = NoMove
    BY DEF NoRecord, At
  <2> QED
    BY <1>1, <1>2, <1>3, <2>1 DEF SeatInv, SeatOK, CoSigned, ApplyMove
<1>5. \A q \in Party : q # p => /\ seat'[q] = seat[q] /\ disk'[q] = disk[q]
                               /\ dirty'[q] = dirty[q] /\ live'[q] = live[q]
  BY DEF TypeOK, Watchdog
<1>6. signed \subseteq signed' /\ \A x \in signed' : x \in signed \/ SignedOK(x)'
  BY <1>1
<1> QED
  BY <1>2, <1>3, <1>4, <1>5, <1>6, StepOf

-----------------------------------------------------------------------------
\* Before the first move nothing is signed and the invariant holds.
LEMMA InitIInv == Init => IInv
<1> SUFFICES ASSUME Init PROVE IInv
  OBVIOUS
<1>1. TypeOK
  BY InitTypes
<1>2. SignedInv
  BY DEF Init, SignedInv
<1>3. ASSUME NEW p \in Party PROVE SeatOK(p)
  <2>1. At(<<>>).state = <<>> /\ At(<<>>).pending = NoMove
    BY DEF At
  <2>2. seat[p] = At(<<>>) /\ disk[p] = At(<<>>)
    BY DEF Init, NoRecord
  <2>3. Held(p) = <<>>
    BY <2>1, <2>2 DEF Held
  <2>4. Below(<<>>, <<>>)
    BY DEF Below
  <2> QED
    BY <2>1, <2>2, <2>3, <2>4 DEF SeatOK
<1> QED
  BY <1>1, <1>2, <1>3 DEF IInv, SeatInv

\* Every step keeps the invariant, a step per action.
LEMMA NextIInv == IInv /\ [Next]_vars => IInv'
<1> SUFFICES ASSUME IInv, [Next]_vars PROVE IInv'
  OBVIOUS
<1>t. TypeOK /\ TypeOK'
  BY NextTypes DEF IInv
<1> SUFFICES ASSUME faults'.kill = 0 PROVE SignedInv' /\ SeatInv'
  BY <1>t DEF IInv
<1>k. ASSUME NEW f \in {"drop", "reload", "kill"}, NEW max, Count(f, max)
      PROVE  f # "kill" /\ faults.kill = 0
  BY <1>k, <1>t DEF Count, TypeOK
<1>i. ASSUME faults.kill = 0 PROVE SignedInv /\ SeatInv
  BY <1>i DEF IInv
<1>1. ASSUME NEW p \in Party, NEW m \in Moves, Propose(p, m) PROVE SignedInv' /\ SeatInv'
  <2>1. faults.kill = 0
    BY <1>1 DEF Propose
  <2> QED
    BY <1>1, <1>i, <1>t, <2>1, ProposeStep
<1>2. ASSUME NEW p \in Party, Input(p) PROVE SignedInv' /\ SeatInv'
  BY <1>2, <1>i, <1>t, SameStep DEF Input
<1>3. ASSUME NEW p \in Party, OnMove(p) PROVE SignedInv' /\ SeatInv'
  <2>1. UNCHANGED <<disk, live>> /\ faults.kill = 0
    BY <1>3 DEF OnMove
  <2>2. PICK next, e :
          /\ next = ApplyMove(State(p), Head(net[p]).move, Other(p))
          /\ e = [by |-> Other(p), move |-> Head(net[p]).move]
    OBVIOUS
  <2>3. CASE UNCHANGED <<seat, timer, settling, armed, dirty, signed>>
    BY <2>1, <2>3, <1>i, <1>t, SameStep
  <2>4. CASE /\ <<Other(p), next>> \in signed
             /\ signed' = signed \cup {<<p, next>>} /\ Confirm(p, next)
    <3>1. next = Append(seat[p].state, e)
      BY <2>2 DEF ApplyMove, State
    <3> QED
      BY <2>1, <2>4, <3>1, <1>i, <1>t, ConfirmStep
  <2> QED
    BY <1>3, <2>2, <2>3, <2>4 DEF OnMove
<1>4. ASSUME NEW p \in Party, OnAck(p) PROVE SignedInv' /\ SeatInv'
  <2>1. UNCHANGED <<disk, live, signed>> /\ faults.kill = 0
    BY <1>4 DEF OnAck
  <2>2. PICK next, e :
          /\ next = ApplyMove(State(p), Pending(p), p)
          /\ e = [by |-> p, move |-> Pending(p)]
    OBVIOUS
  <2>3. CASE UNCHANGED <<seat, timer, settling, armed, dirty>>
    BY <2>1, <2>3, <1>i, <1>t, SameStep
  <2>4. CASE HasPending(p) /\ <<Other(p), next>> \in signed /\ Confirm(p, next)
    <3>1. next = Append(seat[p].state, e)
      BY <2>2 DEF ApplyMove, State
    <3>2. <<p, next>> \in signed
      BY <2>1, <2>2, <2>4, <1>i DEF SeatInv, SeatOK, HasPending, Pending, State
    <3>3. signed' = signed \cup {<<p, next>>}
      BY <2>1, <3>2
    <3> QED
      BY <2>1, <2>4, <3>1, <3>3, <1>i, <1>t, ConfirmStep
  <2> QED
    BY <1>4, <2>2, <2>3, <2>4 DEF OnAck
<1>5. ASSUME NEW p \in Party, OnResumed(p) PROVE SignedInv' /\ SeatInv'
  BY <1>5, <1>i, <1>t, SameStep DEF OnResumed
<1>6. ASSUME NEW p \in Party, OnResync(p) PROVE SignedInv' /\ SeatInv'
  <2>1. UNCHANGED <<disk, dirty, live, signed>> /\ faults.kill = 0 /\ live[p] /\ ~dirty[p]
    BY <1>6 DEF OnResync, Delivered, Ready
  <2>2. PICK c : c = Head(net[p]).checkpoint
    OBVIOUS
  <2>3. CASE UNCHANGED seat
    BY <2>1, <2>3, <1>i, <1>t, SameStep
  <2>4. CASE CoSigned(c) /\ Len(c) > Len(seat[p].state) /\ seat' = [seat EXCEPT ![p] = At(c)]
    BY <2>1, <2>4, <1>i, <1>t, AdoptStep
  <2> QED
    BY <1>6, <2>2, <2>3, <2>4 DEF OnResync, Nonce, State
<1>7. ASSUME NEW p \in Party, Flush(p) PROVE SignedInv' /\ SeatInv'
  <2>1. faults.kill = 0
    BY <1>7 DEF Flush
  <2> QED
    BY <1>7, <1>i, <1>t, <2>1, FlushStep
<1>8. ASSUME NEW p \in Party, NEW k, DropSocket(p, k) PROVE SignedInv' /\ SeatInv'
  <2>1. faults.kill = 0 /\ UNCHANGED <<seat, disk, dirty, live, signed>>
    BY <1>8, <1>k DEF DropSocket
  <2> QED
    BY <1>i, <1>t, <2>1, SameStep
<1>9. ASSUME NEW p \in Party, NEW k, Reload(p, k) PROVE SignedInv' /\ SeatInv'
  <2>1. faults.kill = 0
    BY <1>9, <1>k DEF Reload
  <2> QED
    BY <1>9, <1>i, <1>t, <2>1, ReloadStep DEF Reload
<1>10. ASSUME NEW p \in Party, NEW k, Kill(p, k) PROVE SignedInv' /\ SeatInv'
  BY <1>10, <1>k DEF Kill
<1>11. ASSUME NEW p \in Party, Connect(p) PROVE SignedInv' /\ SeatInv'
  BY <1>11, <1>i, <1>t, SameStep DEF Connect
<1>12. ASSUME NEW p \in Party, Watchdog(p) PROVE SignedInv' /\ SeatInv'
  <2>1. faults.kill = 0
    BY <1>12 DEF Watchdog
  <2> QED
    BY <1>12, <1>i, <1>t, <2>1, WatchdogStep
<1>13. CASE UNCHANGED vars
  <2>1. faults.kill = 0 /\ UNCHANGED <<seat, disk, dirty, live, signed>>
    BY <1>13 DEF vars
  <2> QED
    BY <1>i, <1>t, <2>1, SameStep
<1> QED
  BY <1>1, <1>2, <1>3, <1>4, <1>5, <1>6, <1>7, <1>8, <1>9, <1>10, <1>11, <1>12, <1>13
  DEF Next, Receive, Fault

\* The variables of DistributedTunnel keep their types.
THEOREM DistributedTypesHold == Spec => []TypeOK
<1>1. Init => TypeOK
  BY InitTypes
<1> QED
  BY <1>1, NextTypes, PTL DEF Spec

\* At every nonce at most one state carries both signatures, so decideReconcile
\* never has to answer "settle", as long as no seat dies with a record unwritten.
THEOREM NoEquivocationHolds == Spec => []NoEquivocation
<1>1. IInv => NoEquivocation
  BY UniqueCoSigned DEF IInv, NoEquivocation
<1> QED
  BY <1>1, InitIInv, NextIInv, PTL DEF Spec

\* What is left of a confirmed state at the other seat.
LEMMA PeerHolds ==
  ASSUME TypeOK, SignedInv, SeatInv, NEW p \in Party
  PROVE  Nonce(p) \in Nat /\ Nonce(p) <= Nonce(Other(p)) + 1
<1>1. /\ State(p) \in Seq(Move) /\ State(Other(p)) \in Seq(Move)
      /\ Held(Other(p)) \in Seq(Move) /\ Other(p) \in Party
  BY OtherSeat, HeldType DEF TypeOK, State
<1>2. Nonce(p) \in Nat /\ Nonce(Other(p)) \in Nat /\ Len(Held(Other(p))) \in Nat
  BY <1>1, LenProperties DEF Nonce
<1>3. CASE State(p) = <<>>
  BY <1>2, <1>3 DEF Nonce
<1>4. CASE State(p) # <<>>
  <2>1. <<Other(p), State(p)>> \in signed
    BY <1>1, <1>4 DEF SeatInv, SeatOK, CoSigned, State
  <2>2. Len(State(p)) - 1 <= Len(Held(Other(p)))
    BY <1>1, <2>1, ProposerHolds
  <2>3. Len(Held(Other(p))) <= Nonce(Other(p))
    BY <1>1 DEF SeatInv, SeatOK, Below, Nonce, State
  <2> QED
    BY <1>2, <2>2, <2>3 DEF Nonce
<1> QED
  BY <1>2, <1>3, <1>4

\* The two seats are at most one move apart, as long as no seat dies with a
\* record unwritten.
THEOREM AtMostOneApartHolds == Spec => []AtMostOneApart
<1>1. IInv => AtMostOneApart
  BY PeerHolds DEF IInv, AtMostOneApart
<1> QED
  BY <1>1, InitIInv, NextIInv, PTL DEF Spec

\* The confirmed histories of the two seats never disagree, as long as no seat
\* dies with a record unwritten.
THEOREM AgreementHolds == Spec => [](faults.kill = 0 => Agreement)
<1>1. IInv => (faults.kill = 0 => Agreement)
  <2> SUFFICES ASSUME TypeOK, SignedInv, SeatInv PROVE Agreement
    BY DEF IInv
  <2>1. A \in Party /\ B \in Party
    BY DEF Party
  <2>2. State(A) \in Seq(Move) /\ State(B) \in Seq(Move)
    BY <2>1 DEF TypeOK, State
  <2>3. ASSUME NEW p \in Party, NEW q \in Party, Len(State(p)) <= Len(State(q)),
               State(p) \in Seq(Move), State(q) \in Seq(Move)
        PROVE  Below(State(p), State(q))
    <3>1. CASE State(p) = <<>>
      BY <2>3, <3>1 DEF Below
    <3>2. CASE State(p) # <<>>
      <4>1. State(q) # <<>>
        BY <2>3, <3>2, EmptySeq, LenProperties
      <4>2. CoSigned(State(p)) /\ CoSigned(State(q))
        BY <3>2, <4>1 DEF SeatInv, SeatOK, State
      <4> QED
        BY <2>3, <4>2, CoSignedBelow
    <3> QED
      BY <3>1, <3>2
  <2>4. Len(State(A)) <= Len(State(B)) \/ Len(State(B)) <= Len(State(A))
    BY <2>2, LenProperties
  <2> QED
    BY <2>1, <2>2, <2>3, <2>4, BelowIsPrefix DEF Agreement
<1> QED
  BY <1>1, InitIInv, NextIInv, PTL DEF Spec

-----------------------------------------------------------------------------
\* Settleability does not depend on what is lost: it is an invariant of every
\* record, in memory and on disk.

\* Both seats signed what the record r of p has as confirmed, and p what it proposes.
RecordOK(r, p) ==
  /\ r.state # <<>> => CoSigned(r.state)
  /\ r.pending # NoMove => <<p, ApplyMove(r.state, r.pending, p)>> \in signed

RecordInv == TypeOK /\ \A p \in Party : RecordOK(seat[p], p) /\ RecordOK(disk[p], p)

\* A record stays sound while signatures are only added.
LEMMA RecordFrame ==
  ASSUME NEW p, NEW r, signed \subseteq signed', RecordOK(r, p)
  PROVE  RecordOK(r, p)'
BY DEF RecordOK, CoSigned, ApplyMove

\* A seat at a co-signed state with nothing pending is sound.
LEMMA AtRecord ==
  ASSUME NEW p, NEW s, s # <<>> => CoSigned(s)'
  PROVE  RecordOK(At(s), p)'
BY DEF RecordOK, At

\* Every step takes each seat and its record from what was there or to a co-signed
\* state, a step per action.
LEMMA NextRecordInv == RecordInv /\ [Next]_vars => RecordInv'
<1> SUFFICES ASSUME RecordInv, [Next]_vars PROVE RecordInv'
  OBVIOUS
<1>t. TypeOK /\ TypeOK'
  BY NextTypes DEF RecordInv
<1>n. \A p \in Party : RecordOK(NoRecord, p)'
  BY DEF RecordOK, NoRecord, At
<1>s. ASSUME NEW p \in Party, signed \subseteq signed',
             \A q \in Party : q # p => seat'[q] = seat[q] /\ disk'[q] = disk[q],
             \/ seat'[p] = seat[p] \/ seat'[p] = disk[p] \/ RecordOK(seat[p], p)',
             \/ disk'[p] = disk[p] \/ disk'[p] = seat[p] \/ disk'[p] = NoRecord
      PROVE  RecordInv'
  <2>1. ASSUME NEW q \in Party
        PROVE  \A r : r = seat[q] \/ r = disk[q] => RecordOK(r, q)'
    BY <1>s, RecordFrame DEF RecordInv
  <2>2. ASSUME NEW q \in Party PROVE RecordOK(seat[q], q)' /\ RecordOK(disk[q], q)'
    <3>1. CASE q # p
      <4>1. PICK r, d : r = seat[q] /\ d = disk[q]
        OBVIOUS
      <4>2. RecordOK(r, q)' /\ RecordOK(d, q)' /\ seat'[q] = r /\ disk'[q] = d
        BY <1>s, <2>1, <3>1, <4>1
      <4> QED
        BY <4>2 DEF RecordOK
    <3>2. CASE q = p
      <4>1. PICK r, d : r = seat[p] /\ d = disk[p]
        OBVIOUS
      <4>2. RecordOK(r, p)' /\ RecordOK(d, p)'
        BY <2>1, <4>1
      <4>3. RecordOK(seat[p], p)'
        BY <1>s, <4>1, <4>2 DEF RecordOK
      <4>4. RecordOK(disk[p], p)'
        BY <1>s, <1>n, <4>1, <4>2 DEF RecordOK
      <4> QED
        BY <3>2, <4>3, <4>4
    <3> QED
      BY <3>1, <3>2
  <2> QED
    BY <1>t, <2>2 DEF RecordInv
<1>u. ASSUME UNCHANGED <<seat, disk, signed>> PROVE RecordInv'
  <2>1. A \in Party
    BY DEF Party
  <2> QED
    BY <1>s, <1>u, <2>1
<1>c. ASSUME NEW p \in Party, NEW next, Confirm(p, next), CoSigned(next)',
             signed \subseteq signed', disk' = disk
      PROVE  RecordInv'
  <2>1. seat'[p] = At(next) /\ \A q \in Party : q # p => seat'[q] = seat[q]
    BY <1>c, <1>t DEF Confirm, TypeOK
  <2>2. RecordOK(At(next), p)'
    BY <1>c, AtRecord
  <2>3. RecordOK(seat[p], p)'
    BY <2>1, <2>2 DEF RecordOK, At
  <2> QED
    BY <1>c, <1>s, <2>1, <2>3
<1>1. ASSUME NEW p \in Party, NEW m \in Moves, Propose(p, m) PROVE RecordInv'
  <2>1. CASE ~Plan(p, State(p), Pending(p))
    BY <1>1, <1>u, <2>1 DEF Propose
  <2>2. CASE Plan(p, State(p), Pending(p))
    <3>1. /\ seat' = [seat EXCEPT ![p].pending = m] /\ disk' = disk
          /\ signed' = signed \cup {<<p, ApplyMove(seat[p].state, m, p)>>}
      BY <1>1, <2>2 DEF Propose, State
    <3>2. seat'[p].state = seat[p].state /\ seat'[p].pending = m
      BY <1>t, <3>1 DEF TypeOK
    <3>3. RecordOK(seat[p], p)'
      <4>1. PICK s : s = seat[p].state
        OBVIOUS
      <4>2. s # <<>> => CoSigned(s)'
        BY <3>1, <4>1 DEF RecordInv, RecordOK, CoSigned
      <4>3. <<p, ApplyMove(s, m, p)>> \in signed'
        BY <3>1, <4>1
      <4>4. seat'[p].state = s /\ seat'[p].pending = m
        BY <3>2, <4>1
      <4> QED
        BY <4>2, <4>3, <4>4 DEF RecordOK, ApplyMove, CoSigned
    <3>4. \A q \in Party : q # p => seat'[q] = seat[q] /\ disk'[q] = disk[q]
      BY <1>t, <3>1 DEF TypeOK
    <3> QED
      BY <1>s, <3>1, <3>3, <3>4
  <2> QED
    BY <2>1, <2>2
<1>2. ASSUME NEW p \in Party, Input(p) PROVE RecordInv'
  BY <1>2, <1>u DEF Input
<1>3. ASSUME NEW p \in Party, OnMove(p) PROVE RecordInv'
  <2>1. disk' = disk
    BY <1>3 DEF OnMove
  <2>2. PICK next : next = ApplyMove(State(p), Head(net[p]).move, Other(p))
    OBVIOUS
  <2>3. CASE UNCHANGED <<seat, timer, settling, armed, dirty, signed>>
    BY <2>1, <2>3, <1>u
  <2>4. CASE /\ <<Other(p), next>> \in signed
             /\ signed' = signed \cup {<<p, next>>} /\ Confirm(p, next)
    <3>1. CoSigned(next)'
      BY <2>4 DEF CoSigned, Party, Other
    <3> QED
      BY <2>1, <2>4, <3>1, <1>c
  <2> QED
    BY <1>3, <2>2, <2>3, <2>4 DEF OnMove
<1>4. ASSUME NEW p \in Party, OnAck(p) PROVE RecordInv'
  <2>1. disk' = disk /\ signed' = signed
    BY <1>4 DEF OnAck
  <2>2. PICK next : next = ApplyMove(State(p), Pending(p), p)
    OBVIOUS
  <2>3. CASE UNCHANGED <<seat, timer, settling, armed, dirty>>
    BY <2>1, <2>3, <1>u
  <2>4. CASE HasPending(p) /\ <<Other(p), next>> \in signed /\ Confirm(p, next)
    <3>1. <<p, next>> \in signed
      BY <2>2, <2>4 DEF RecordInv, RecordOK, HasPending, Pending, State
    <3>2. CoSigned(next)'
      BY <2>1, <2>4, <3>1 DEF CoSigned, Party, Other
    <3> QED
      BY <2>1, <2>4, <3>2, <1>c
  <2> QED
    BY <1>4, <2>2, <2>3, <2>4 DEF OnAck
<1>5. ASSUME NEW p \in Party, OnResumed(p) PROVE RecordInv'
  BY <1>5, <1>u DEF OnResumed
<1>6. ASSUME NEW p \in Party, OnResync(p) PROVE RecordInv'
  <2>1. disk' = disk /\ signed' = signed
    BY <1>6 DEF OnResync
  <2>2. PICK c : c = Head(net[p]).checkpoint
    OBVIOUS
  <2>3. CASE UNCHANGED seat
    BY <2>1, <2>3, <1>u
  <2>4. CASE CoSigned(c) /\ seat' = [seat EXCEPT ![p] = At(c)]
    <3>1. seat'[p] = At(c) /\ \A q \in Party : q # p => seat'[q] = seat[q]
      BY <1>t, <2>4 DEF TypeOK
    <3>2. RecordOK(At(c), p)'
      BY <2>1, <2>4, AtRecord DEF CoSigned
    <3>3. RecordOK(seat[p], p)'
      BY <3>1, <3>2 DEF RecordOK, At
    <3> QED
      BY <1>s, <2>1, <3>1, <3>3
  <2> QED
    BY <1>6, <2>2, <2>3, <2>4 DEF OnResync
<1>7. ASSUME NEW p \in Party, Flush(p) PROVE RecordInv'
  BY <1>7, <1>s, <1>t DEF Flush, TypeOK
<1>8. ASSUME NEW p \in Party, NEW k, DropSocket(p, k) PROVE RecordInv'
  BY <1>8, <1>u DEF DropSocket
<1>r. ASSUME NEW p \in Party, NEW r, Restart(p, r), r = seat[p] \/ r = disk[p] PROVE RecordInv'
  <2>1. /\ signed \subseteq signed' /\ seat'[p] = r /\ (disk'[p] = r \/ disk'[p] = NoRecord)
        /\ \A q \in Party : q # p => seat'[q] = seat[q] /\ disk'[q] = disk[q]
    BY <1>r, <1>t DEF Restart, TypeOK
  <2> QED
    BY <1>r, <1>s, <2>1
<1>9. ASSUME NEW p \in Party, NEW k, Reload(p, k) PROVE RecordInv'
  BY <1>9, <1>r DEF Reload
<1>10. ASSUME NEW p \in Party, NEW k, Kill(p, k) PROVE RecordInv'
  BY <1>10, <1>r DEF Kill
<1>11. ASSUME NEW p \in Party, Connect(p) PROVE RecordInv'
  BY <1>11, <1>u DEF Connect
<1>12. ASSUME NEW p \in Party, Watchdog(p) PROVE RecordInv'
  BY <1>12, <1>s, <1>t DEF Watchdog, TypeOK
<1>13. CASE UNCHANGED vars
  BY <1>13, <1>u DEF vars
<1> QED
  BY <1>1, <1>2, <1>3, <1>4, <1>5, <1>6, <1>7, <1>8, <1>9, <1>10, <1>11, <1>12, <1>13
  DEF Next, Receive, Fault

\* Whatever is lost, both seats have signed what a seat holds as confirmed: the
\* checkpoint it would hand to the chain always settles.
THEOREM SettleableHolds == Spec => []Settleable
<1>1. Init => RecordInv
  <2> SUFFICES ASSUME Init PROVE RecordInv
    OBVIOUS
  <2>1. \A p \in Party : RecordOK(At(<<>>), p)
    BY DEF RecordOK, At
  <2> QED
    BY <2>1, InitTypes DEF RecordInv, Init, NoRecord
<1>2. RecordInv => Settleable
  BY DEF RecordInv, RecordOK, Settleable, State
<1> QED
  BY <1>1, <1>2, NextRecordInv, PTL DEF Spec
-----------------------------------------------------------------------------
(***************************************************************************)
(* Refinement: two seats that exchange MOVE and ACK frames over a network  *)
(* that loses frames, drop their sockets and reload their pages are one    *)
(* channel, as long as no process dies with a record unwritten.            *)
(*                                                                         *)
(* Beyond the invariant above the argument needs two facts about a         *)
(* signature: nobody answers a move its mover has not signed, so a         *)
(* proposal alone never completes a pair, and no signed state is longer    *)
(* than the match.                                                         *)
(***************************************************************************)
\* What is signed is within the match, and its mover has signed it.
MoverSigned == \A x \in signed : Len(x[2]) <= Length /\ <<Mover(x[2]), x[2]>> \in signed

CInv == TypeOK /\ SignedInv /\ SeatInv /\ MoverSigned /\ faults.kill = 0

\* The agreed histories are the empty one and those that carry both signatures.
LEMMA AgreedIs == \A s : s \in Agreed <=> s = <<>> \/ CoSigned(s)
<1>1. A \in Party
  BY DEF Party
<1>2. ASSUME NEW s, CoSigned(s) PROVE s \in Agreed
  <2>1. <<A, s>> \in signed /\ <<A, s>>[2] = s
    BY <1>1, <1>2 DEF CoSigned
  <2> QED
    BY <1>2, <2>1 DEF Agreed
<1>3. ASSUME NEW s, s \in Agreed PROVE s = <<>> \/ CoSigned(s)
  BY <1>3 DEF Agreed
<1> QED
  BY <1>2, <1>3 DEF Agreed

\* The same of the next state.
LEMMA AgreedIsNext == \A s : s \in Agreed' <=> s = <<>> \/ CoSigned(s)'
<1>1. (\A s : s \in Agreed <=> s = <<>> \/ CoSigned(s))'
  BY AgreedIs, PTL
<1> QED
  BY <1>1

\* The state a seat is at is agreed.
LEMMA StateAgreed == SeatInv => \A p \in Party : State(p) \in Agreed
BY AgreedIs DEF SeatInv, SeatOK, State

-----------------------------------------------------------------------------
\* The three kinds of step.

\* Seat p moves to another state, or nobody does; nothing is signed that was not.
Moved(p) == signed' = signed /\ \A q \in Party : q # p => seat'[q] = seat[q]

\* Seat p signs the move it proposes.
Proposed(p, m) ==
  /\ Plan(p, State(p), Pending(p))
  /\ signed' = signed \cup {<<p, ApplyMove(State(p), m, p)>>}
  /\ \A q \in Party : seat'[q].state = seat[q].state

\* Seat p signs the move of its peer.
Answered(p, m) ==
  LET next == ApplyMove(State(p), m, Other(p))
  IN /\ <<Other(p), next>> \in signed
     /\ signed' = signed \cup {<<p, next>>}
     /\ \A q \in Party : seat'[q].state = IF q = p THEN next ELSE seat[q].state

\* Starting again signs nothing new.
LEMMA RestartMoves ==
  ASSUME NEW p \in Party, NEW r, RecordOK(r, p), Restart(p, r), TypeOK
  PROVE  Moved(p)
<1>1. r.pending # NoMove => <<p, ApplyMove(r.state, r.pending, p)>> \in signed
  BY DEF RecordOK
<1>2. signed' = signed
  BY <1>1 DEF Restart
<1>3. seat' = [seat EXCEPT ![p] = r]
  BY DEF Restart
<1> QED
  BY <1>2, <1>3 DEF Moved, TypeOK

\* Every step is of one of the three kinds.
LEMMA StepKinds ==
  ASSUME CInv, [Next]_vars, MaxKills = 0
  PROVE  \/ \E p \in Party : Moved(p)
         \/ \E p \in Party, m \in Moves : Proposed(p, m)
         \/ \E p \in Party : \E m : Answered(p, m)
<1> DEFINE Goal == \/ \E p \in Party : Moved(p)
                   \/ \E p \in Party, m \in Moves : Proposed(p, m)
                   \/ \E p \in Party : \E m : Answered(p, m)
<1> SUFFICES Goal
  OBVIOUS
<1>t. TypeOK /\ DOMAIN seat = Party
  BY DEF CInv, TypeOK
<1>s. ASSUME UNCHANGED <<seat, signed>> PROVE Goal
  <2>1. A \in Party
    BY DEF Party
  <2> QED
    BY <1>s, <2>1 DEF Moved
<1>1. ASSUME NEW p \in Party, NEW m \in Moves, Propose(p, m) PROVE Goal
  <2>1. CASE Plan(p, State(p), Pending(p))
    <3>1. seat' = [seat EXCEPT ![p].pending = m]
      BY <1>1, <2>1 DEF Propose
    <3>2. \A q \in Party : seat'[q].state = seat[q].state
      BY <3>1, <1>t DEF TypeOK
    <3> QED
      BY <1>1, <2>1, <3>2 DEF Propose, Proposed
  <2> QED
    BY <1>1, <1>s, <2>1 DEF Propose
<1>2. ASSUME NEW p \in Party, OnMove(p) PROVE Goal
  <2>1. PICK m, next : m = Head(net[p]).move /\ next = ApplyMove(State(p), m, Other(p))
    OBVIOUS
  <2>2. CASE UNCHANGED <<seat, signed>>
    BY <2>2, <1>s
  <2>3. CASE /\ <<Other(p), next>> \in signed
             /\ signed' = signed \cup {<<p, next>>} /\ Confirm(p, next)
    <3>1. seat' = [seat EXCEPT ![p] = At(next)] /\ At(next).state = next
      BY <2>3 DEF Confirm, At
    <3>2. \A q \in Party : seat'[q].state = IF q = p THEN next ELSE seat[q].state
      BY <3>1, <1>t
    <3> QED
      BY <2>1, <2>3, <3>2 DEF Answered
  <2> QED
    BY <1>2, <2>1, <2>2, <2>3 DEF OnMove
<1>3. ASSUME NEW p \in Party, OnAck(p) PROVE Goal
  <2>1. signed' = signed
    BY <1>3 DEF OnAck
  <2>2. UNCHANGED seat \/ seat' = [seat EXCEPT ![p] = At(ApplyMove(State(p), Pending(p), p))]
    BY <1>3 DEF OnAck, Confirm
  <2>3. Moved(p)
    BY <2>1, <2>2, <1>t DEF Moved
  <2> QED
    BY <2>3
<1>4. ASSUME NEW p \in Party, OnResync(p) PROVE Goal
  <2>1. signed' = signed
    BY <1>4 DEF OnResync
  <2>2. UNCHANGED seat \/ seat' = [seat EXCEPT ![p] = At(Head(net[p]).checkpoint)]
    BY <1>4 DEF OnResync
  <2>3. Moved(p)
    BY <2>1, <2>2, <1>t DEF Moved
  <2> QED
    BY <2>3
<1>5. ASSUME NEW p \in Party, NEW k, Reload(p, k) PROVE Goal
  <2>1. RecordOK(seat[p], p) /\ RecordOK(disk[p], p)
    BY DEF CInv, SeatInv, SeatOK, RecordOK
  <2>2. PICK r : r = (IF dirty[p] THEN seat[p] ELSE disk[p])
    OBVIOUS
  <2>3. RecordOK(r, p) /\ Restart(p, r)
    BY <1>5, <2>1, <2>2 DEF Reload
  <2> QED
    BY <1>t, <2>3, RestartMoves
<1>6. ASSUME NEW p \in Party, NEW k, Kill(p, k) PROVE Goal
  BY <1>6 DEF Kill, Count, CInv
<1>7. ASSUME NEW p \in Party, \/ Input(p) \/ OnResumed(p) \/ Flush(p) \/ Connect(p) \/ Watchdog(p)
                              \/ \E k \in 0 .. Len(net[Other(p)]) : DropSocket(p, k)
      PROVE  Goal
  BY <1>7, <1>s DEF Input, OnResumed, Flush, Connect, Watchdog, DropSocket
<1>8. CASE UNCHANGED vars
  BY <1>8, <1>s DEF vars
<1> QED
  BY <1>1, <1>2, <1>3, <1>4, <1>5, <1>6, <1>7, <1>8 DEF Next, Receive, Fault

-----------------------------------------------------------------------------
\* The invariant.

\* The next state of a seat, with the move it adds.
LEMMA NextState ==
  ASSUME NEW s \in Seq(Move), NEW m \in Moves, NEW p \in Party
  PROVE  /\ Len(s) \in Nat /\ ApplyMove(s, m, p) # <<>>
         /\ Len(ApplyMove(s, m, p)) = Len(s) + 1
         /\ ApplyMove(s, m, p)[Len(s) + 1] = [by |-> p, move |-> m]
<1>m. [by |-> p, move |-> m] \in Move
  BY DEF Move
<1>1. PICK e \in Move : e = [by |-> p, move |-> m]
  BY <1>m
<1>2. ApplyMove(s, m, p) = Append(s, e)
  BY <1>1 DEF ApplyMove
<1>3. Append(s, e) \in Seq(Move) /\ Len(Append(s, e)) = Len(s) + 1
      /\ Append(s, e)[Len(s) + 1] = e
  BY <1>1, AppendProperties
<1>4. Len(s) \in Nat
  BY LenProperties
<1>5. Append(s, e) # <<>>
  BY <1>3, <1>4, EmptySeq
<1> QED
  BY <1>1, <1>2, <1>3, <1>4, <1>5

\* A proposal is within the match and signed by its mover, an answer is to a signed move.
LEMMA MoverSignedStep ==
  ASSUME CInv, [Next]_vars, MaxKills = 0
  PROVE  MoverSigned'
<1>t. TypeOK /\ MoverSigned
  BY DEF CInv
<1>1. ASSUME NEW p \in Party, Moved(p) PROVE MoverSigned'
  BY <1>1, <1>t DEF Moved, MoverSigned
<1>2. ASSUME NEW p \in Party, NEW m \in Moves, Proposed(p, m) PROVE MoverSigned'
  <2>1. PICK s, next : s = State(p) /\ next = ApplyMove(s, m, p)
    OBVIOUS
  <2>2. s \in Seq(Move) /\ Turn(Len(s)) = p /\ ~(Len(s) >= Length)
    BY <1>t, <1>2, <2>1 DEF TypeOK, State, Proposed, Plan, IsTerminal
  <2>3. Len(s) \in Nat /\ Len(next) = Len(s) + 1
    BY <2>1, <2>2, NextState
  <2>4. Len(next) <= Length /\ Mover(next) = p
    BY <2>2, <2>3, BoundAssumption DEF Mover
  <2>5. signed' = signed \cup {<<p, next>>}
    BY <1>2, <2>1 DEF Proposed
  <2> QED
    BY <1>t, <2>4, <2>5 DEF MoverSigned
<1>3. ASSUME NEW p \in Party, NEW m, Answered(p, m) PROVE MoverSigned'
  <2>1. PICK next : next = ApplyMove(State(p), m, Other(p))
    OBVIOUS
  <2>2. <<Other(p), next>> \in signed /\ signed' = signed \cup {<<p, next>>}
    BY <1>3, <2>1 DEF Answered
  <2>3. Len(next) <= Length /\ <<Mover(next), next>> \in signed
    BY <1>t, <2>2 DEF MoverSigned
  <2> QED
    BY <1>t, <2>2, <2>3 DEF MoverSigned
<1> QED
  BY <1>1, <1>2, <1>3, StepKinds

\* Without kills every step keeps the invariant.
LEMMA NextCInv ==
  ASSUME CInv, [Next]_vars, MaxKills = 0
  PROVE  CInv'
<1>1. IInv /\ TypeOK
  BY DEF CInv, IInv
<1>2. IInv' /\ TypeOK'
  BY <1>1, NextIInv, NextTypes
<1>3. faults'.kill = 0
  <2>1. ASSUME NEW p \in Party, NEW k, DropSocket(p, k) \/ Reload(p, k) \/ Kill(p, k)
        PROVE  faults'.kill = 0
    <3>1. faults \in [drop : Nat, reload : Nat, kill : Nat] /\ faults.kill = 0
      BY DEF CInv, TypeOK
    <3>2. CASE Count("drop", MaxDrops) \/ Count("reload", MaxReloads)
      BY <3>1, <3>2 DEF Count
    <3>3. ~Count("kill", MaxKills)
      BY <3>1 DEF Count
    <3> QED
      BY <2>1, <3>2, <3>3 DEF DropSocket, Reload, Kill
  <2>2. CASE UNCHANGED faults
    BY <2>2 DEF CInv
  <2> QED
    BY <2>1, <2>2 DEF Next, Propose, Input, Receive, OnMove, OnAck, OnResumed, OnResync, Flush,
                      Fault, Connect, Watchdog, vars
<1> QED
  BY <1>2, <1>3, MoverSignedStep DEF IInv, CInv

\* The invariant holds at the start.
LEMMA InitCInv == Init => CInv
BY InitIInv DEF IInv, CInv, Init, MoverSigned

-----------------------------------------------------------------------------
\* The refinement.

\* Of one length there is one co-signed state.
LEMMA SameLength ==
  TypeOK /\ SignedInv => \A s, t : CoSigned(s) /\ CoSigned(t) /\ Len(s) = Len(t) => s = t
BY UniqueCoSigned

\* The same of the next state.
LEMMA SameLengthNext ==
  CInv' => \A s, t : CoSigned(s)' /\ CoSigned(t)' /\ Len(s) = Len(t) => s = t
<1>1. (TypeOK /\ SignedInv => \A s, t : CoSigned(s) /\ CoSigned(t) /\ Len(s) = Len(t) => s = t)'
  BY SameLength, PTL
<1> QED
  BY <1>1 DEF CInv

\* A seat that moves to another state learns one that is agreed.
LEMMA MovedLearns ==
  ASSUME CInv, CInv', NEW p \in Party, Moved(p)
  PROVE  Channel!Learn(p)
<1>1. signed' = signed /\ \A q \in Party : q # p => seat'[q] = seat[q]
  BY DEF Moved
<1>2. Agreed' = Agreed
  BY <1>1 DEF Agreed, CoSigned
<1>3. PICK s : s = seat'[p].state
  OBVIOUS
<1>4. s \in Agreed
  <2>1. State(p)' \in Agreed'
    <3>1. s # <<>> => CoSigned(s)'
      BY <1>3 DEF CInv, SeatInv, SeatOK
    <3>2. s # <<>> => CoSigned(s)
      BY <1>1, <3>1 DEF CoSigned
    <3> QED
      BY <1>2, <1>3, <3>2, AgreedIs DEF State
  <2> QED
    BY <1>2, <1>3, <2>1 DEF State
<1>5. View' = [View EXCEPT ![p] = s]
  BY <1>1, <1>3 DEF View, State
<1> QED
  BY <1>2, <1>4, <1>5 DEF Channel!Learn

\* A proposal completes no pair of signatures.
LEMMA ProposedStutters ==
  ASSUME CInv, NEW p \in Party, NEW m \in Moves, Proposed(p, m)
  PROVE  UNCHANGED <<Agreed, View>>
<1>1. PICK s, next : s = State(p) /\ next = ApplyMove(s, m, p)
  OBVIOUS
<1>2. s \in Seq(Move) /\ Turn(Len(s)) = p
  BY <1>1 DEF CInv, TypeOK, State, Proposed, Plan
<1>3. Len(s) \in Nat /\ Len(next) = Len(s) + 1
  BY <1>1, <1>2, NextState
<1>4. Mover(next) = p
  BY <1>2, <1>3 DEF Mover
<1>5. Other(p) \in Party /\ Other(p) # p
  BY OtherSeat
<1>6. signed' = signed \cup {<<p, next>>}
  BY <1>1 DEF Proposed
<1>7. ASSUME <<Other(p), next>> \in signed PROVE signed' = signed
  <2>1. <<Mover(next), next>> \in signed
    BY <1>7 DEF CInv, MoverSigned
  <2> QED
    BY <1>4, <1>6, <2>1
<1>8. \A t : CoSigned(t)' <=> CoSigned(t)
  BY <1>5, <1>6, <1>7 DEF CoSigned
<1>9. Agreed' = Agreed
  <2>1. \A t : t \in Agreed' <=> t \in Agreed
    BY <1>8, AgreedIs, AgreedIsNext
  <2> QED
    BY <2>1
<1>10. View' = View
  BY DEF View, State, Proposed
<1> QED
  BY <1>9, <1>10

\* An answer completes the pair for the next move on the latest agreed state.
LEMMA AnsweredAgrees ==
  ASSUME CInv, CInv', NEW p \in Party, NEW m, Answered(p, m)
  PROVE  \/ Channel!Learn(p)
         \/ \E q \in Party, n \in Moves : q # p /\ Channel!Agree(q, p, n)
<1>1. PICK s, next : s = State(p) /\ next = ApplyMove(s, m, Other(p))
  OBVIOUS
<1>2. Other(p) \in Party /\ Other(p) # p /\ \A q \in Party : q = p \/ q = Other(p)
  BY OtherSeat DEF Party
<1>3. <<Other(p), next>> \in signed /\ signed' = signed \cup {<<p, next>>}
  BY <1>1 DEF Answered
<1>4. s \in Seq(Move) /\ next \in Seq(Move)
  BY <1>1, <1>3 DEF CInv, TypeOK, State
<1>5. /\ Len(s) \in Nat /\ next # <<>> /\ Len(next) = Len(s) + 1
      /\ next[Len(s) + 1] = [by |-> Other(p), move |-> m]
  <2>1. s \in Seq(Move) /\ ApplyMove(s, m, Other(p)) \in Seq(Move)
    BY <1>1, <1>4
  <2>2. /\ Len(s) \in Nat /\ ApplyMove(s, m, Other(p)) # <<>>
        /\ Len(ApplyMove(s, m, Other(p))) = Len(s) + 1
        /\ ApplyMove(s, m, Other(p))[Len(s) + 1] = [by |-> Other(p), move |-> m]
    BY <2>1, LenProperties, AppendProperties, EmptySeq DEF ApplyMove, Move
  <2> QED
    BY <1>1, <2>2
<1>6. CoSigned(next)' /\ \A t : CoSigned(t)' <=> CoSigned(t) \/ t = next
  BY <1>2, <1>3 DEF CoSigned
<1>7. Agreed' = Agreed \cup {next}
  <2>1. \A t : t \in Agreed' <=> t \in Agreed \/ t = next
    BY <1>6, AgreedIs, AgreedIsNext
  <2> QED
    BY <2>1
<1>8. View' = [View EXCEPT ![p] = next]
  BY <1>1 DEF View, State, Answered
<1>9. CASE CoSigned(next)
  <2>1. next \in Agreed /\ Agreed' = Agreed
    BY <1>7, <1>9, AgreedIs
  <2> QED
    BY <1>8, <2>1 DEF Channel!Learn
<1>10. CASE ~CoSigned(next)
  <2>1. s \in Agreed
    BY <1>1, StateAgreed DEF CInv
  <2>2. ASSUME NEW t \in Agreed PROVE Len(t) <= Len(s)
    <3>1. CASE t = <<>>
      BY <1>5, <3>1
    <3>2. CASE t # <<>>
      <4>1. CoSigned(t) /\ CoSigned(t)'
        BY <1>6, <3>2, AgreedIs
      <4>2. A \in Party /\ <<A, t>> \in signed
        BY <4>1 DEF CoSigned, Party
      <4>3. t \in Seq(Move) /\ Len(t) \in Nat \ {0}
        BY <4>2, ProposerHolds DEF CInv
      <4>4. SUFFICES ASSUME Len(t) >= Len(next) PROVE FALSE
        BY <1>5, <4>3, <4>4
      <4>5. CASE Len(t) = Len(next)
        <5>1. t = next
          BY <1>6, <4>1, <4>5, SameLengthNext
        <5> QED
          BY <1>10, <4>1, <5>1
      <4>6. CASE Len(t) # Len(next)
        <5>1. Len(next) \in 1 .. Len(t) - 1
          BY <1>5, <4>3, <4>4, <4>6
        <5>2. PICK y \in Seq(Move) : CoSigned(y) /\ Len(y) = Len(next)
          BY <4>2, <5>1 DEF CInv, SignedInv, SignedOK, Grounded
        <5>3. y = next
          BY <1>6, <5>2, SameLengthNext
        <5> QED
          BY <1>10, <5>2, <5>3
      <4> QED
        BY <4>5, <4>6
    <3> QED
      BY <3>1, <3>2
  <2>3. SignedOK(<<Other(p), next>>) /\ Len(next) <= Length
    BY <1>3 DEF CInv, SignedInv, MoverSigned
  <2>4. Turn(Len(s)) = Other(p) /\ Len(s) < Length
    BY <1>5, <2>3, BoundAssumption DEF SignedOK, Mover
  <2>5. m \in Moves
    <3>1. next[Len(s) + 1] \in Move
      BY <1>4, <1>5, ElementOfSeq
    <3> QED
      BY <1>5, <3>1 DEF Move
  <2>6. Channel!Agree(Other(p), p, m)
    BY <1>1, <1>7, <1>8, <2>1, <2>2, <2>4 DEF Channel!Agree, Channel!Latest, ApplyMove
  <2> QED
    BY <1>2, <2>5, <2>6
<1> QED
  BY <1>9, <1>10

\* Every step of the two seats is a step of the channel, or none.
LEMMA StepOfChannel ==
  ASSUME CInv, CInv', [Next]_vars, MaxKills = 0
  PROVE  [Channel!Next]_(Channel!vars)
<1>1. ASSUME NEW p \in Party, Moved(p) PROVE Channel!Next
  BY <1>1, MovedLearns DEF Channel!Next
<1>2. ASSUME NEW p \in Party, NEW m \in Moves, Proposed(p, m) PROVE UNCHANGED Channel!vars
  BY <1>2, ProposedStutters DEF Channel!vars
<1>3. ASSUME NEW p \in Party, NEW m, Answered(p, m) PROVE Channel!Next
  BY <1>3, AnsweredAgrees DEF Channel!Next
<1> QED
  BY <1>1, <1>2, <1>3, StepKinds

\* The seats of core/distributedTunnel.ts, with the resume layer under them, implement
\* the channel: as long as no record is lost, what both have signed is one history that
\* grows by one move of the seat to move at a time, and each seat is at a state of it.
THEOREM SeatsImplementChannel ==
  ASSUME MaxKills = 0
  PROVE  Spec => ImplementsChannel
<1>1. Init => Channel!Init
  <2> SUFFICES ASSUME Init PROVE Channel!Init
    OBVIOUS
  <2>1. Agreed = {<<>>}
    BY DEF Init, Agreed
  <2>2. View = [p \in Party |-> <<>>]
    BY DEF Init, View, State, At
  <2> QED
    BY <2>1, <2>2 DEF Channel!Init
<1>2. CInv /\ [Next]_vars => CInv'
  BY NextCInv
<1>3. CInv /\ CInv' /\ [Next]_vars => [Channel!Next]_(Channel!vars)
  BY StepOfChannel
<1> QED
  BY <1>1, <1>2, <1>3, InitCInv, PTL DEF Spec, ImplementsChannel, Channel!Spec
=============================================================================
