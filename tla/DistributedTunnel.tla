------------------------- MODULE DistributedTunnel -------------------------
(***************************************************************************)
(* The off-chain half of the channel in the browser: two seats co-sign     *)
(* numbered states over the relay (core/distributedTunnel.ts), persist a   *)
(* resume record (pvp/resume.ts), and after a dropped socket or a page     *)
(* reload reconcile what they hold (core/reconcile.ts,                     *)
(* pvp/resumeSession.ts).                                                  *)
(*                                                                         *)
(* A protocol state is the sequence of the moves that led to it, so its    *)
(* length is the nonce and equal states are equal hashes.  <<p, s>> \in    *)
(* signed says that p's signature over the update with state s exists.     *)
(* The page proposes with timestamp 0, so the state determines the signed  *)
(* bytes.  A handler that throws leaves everything as it was.              *)
(***************************************************************************)
EXTENDS Naturals, Sequences, SequencesExt

CONSTANTS
  A, B,         \* the two seats
  Moves,        \* what a seat may play
  NoMove,       \* `pending === null`
  Length,       \* the game is over after this many moves
  MaxDrops,     \* bound: sockets dropped
  MaxReloads,   \* bound: page reloads
  MaxKills      \* bound: processes killed with a record not yet written

Party == {A, B}
Other(p) == IF p = A THEN B ELSE A

ASSUME SeatAssumption == A # B /\ NoMove \notin Moves
ASSUME BoundAssumption == {Length, MaxDrops, MaxReloads, MaxKills} \subseteq Nat

VARIABLES
  seat,     \* per seat: the confirmed state and the pending move
  disk,     \* per seat: the resume record in localStorage
  dirty,    \* per seat: a record waits for the microtask that writes it
  timer,    \* per seat: a propose is scheduled
  settling, \* per seat: the cooperative close has been started
  armed,    \* per seat: the resume watchdog is running
  cold,     \* per seat: restored from disk and not yet connected
  live,     \* per seat: the session exists (not reset to the lobby)
  up,       \* per seat: its socket is open
  net,      \* per seat: the frames on their way to it, in order
  signed,   \* the signatures that exist
  faults    \* how many drops, reloads and kills have happened

vars == <<seat, disk, dirty, timer, settling, armed, cold, live, up, net, signed, faults>>

Move == [by : Party, move : Moves]
State(p) == seat[p].state
Pending(p) == seat[p].pending
Nonce(p) == Len(State(p))
HasPending(p) == Pending(p) # NoMove
\* A seat at a confirmed state.  A proposal is always for the next nonce, so every
\* advance of the confirmed state supersedes it.
At(s) == [state |-> s, pending |-> NoMove]
NoRecord == At(<<>>)

\* turn(nonce): A proposes nonce 0 -> 1, B 1 -> 2, ...
Turn(n) == IF n % 2 = 0 THEN A ELSE B
IsTerminal(s) == Len(s) >= Length

\* protocol.applyMove
ApplyMove(s, m, p) == Append(s, [by |-> p, move |-> m])

\* verifyCoSignedUpdate
CoSigned(s) == \A p \in Party : <<p, s>> \in signed

-----------------------------------------------------------------------------
\* Frames.

MoveFrame(p, s, m) == [t |-> "move", nonce |-> Len(s) + 1, move |-> m,
                       stateHash |-> ApplyMove(s, m, p)]
AckFrame(s) == [t |-> "ack", nonce |-> Len(s), sig |-> s]
\* sendResync: the nonce, the pending flag and, once something is co-signed, the
\* checkpoint with the full state.
Resync(p) == [t |-> "resync", hasPending |-> HasPending(p), checkpoint |-> State(p)]
Resumed == [t |-> "resumed"]

\* MpClient.#send drops what is sent without a socket, and the relay drops what
\* is addressed to a connection that is gone.
Send(p, frames) ==
  net' = [net EXCEPT ![Other(p)] = IF up[p] /\ up[Other(p)] THEN @ \o frames ELSE @]
\* The same, by the handler that takes the first frame of net[p].
Reply(p, frames) ==
  net' = [net EXCEPT ![p] = Tail(@),
                     ![Other(p)] = IF up[p] /\ up[Other(p)] THEN @ \o frames ELSE @]

\* resendPending: nothing when nothing is pending.
PendingFrames(p) ==
  IF HasPending(p) THEN <<MoveFrame(p, State(p), Pending(p))>> ELSE <<>>

-----------------------------------------------------------------------------
\* Variant: a seat proposes on either's turn.
PlanAnyTurn(p, s, pending) == ~IsTerminal(s) /\ pending = NoMove

\* maybePropose: (re)schedule this seat's next propose, or cancel it.
Plan(p, s, pending) ==
  /\ ~IsTerminal(s)
  /\ Turn(Len(s)) = p
  /\ pending = NoMove

\* A handler runs to its end and its microtasks before the next one starts.
Ready(p) == live[p] /\ ~dirty[p]

\* buildRecord: nothing to persist before the first co-signed update.
Persist(p, s) == dirty' = [dirty EXCEPT ![p] = s # <<>>]

Init ==
  /\ seat = [p \in Party |-> At(<<>>)]
  /\ disk = [p \in Party |-> NoRecord]
  /\ dirty = [p \in Party |-> FALSE]
  /\ timer = [p \in Party |-> Plan(p, <<>>, NoMove)]
  /\ settling = [p \in Party |-> FALSE]
  /\ armed = [p \in Party |-> FALSE]
  /\ cold = [p \in Party |-> FALSE]
  /\ live = [p \in Party |-> TRUE]
  /\ up = [p \in Party |-> TRUE]
  /\ net = [p \in Party |-> <<>>]
  /\ signed = {}
  /\ faults = [drop |-> 0, reload |-> 0, kill |-> 0]

\* The propose timer fires: the guards are checked again, then seatPending, send,
\* onProposed.  Sending on a socket that is still connecting throws, which skips
\* onProposed.
Propose(p, m) ==
  /\ Ready(p) /\ timer[p]
  /\ timer' = [timer EXCEPT ![p] = FALSE]
  /\ IF Plan(p, State(p), Pending(p))
     THEN /\ seat' = [seat EXCEPT ![p].pending = m]
          /\ signed' = signed \cup {<<p, ApplyMove(State(p), m, p)>>}
          /\ Send(p, <<MoveFrame(p, State(p), m)>>)
          /\ \/ Persist(p, State(p))
             \/ ~up[p] /\ UNCHANGED dirty
     ELSE UNCHANGED <<seat, signed, net, dirty>>
  /\ UNCHANGED <<disk, settling, armed, cold, live, up, faults>>

\* The player queues an intent, which calls maybePropose.
Input(p) ==
  /\ Ready(p) /\ ~timer[p]
  /\ Plan(p, State(p), Pending(p))
  /\ timer' = [timer EXCEPT ![p] = TRUE]
  /\ UNCHANGED <<seat, disk, dirty, settling, armed, cold, live, up, net, signed, faults>>

\* Variant: onConfirmed does not look whether the match is over.
ConfirmNoSettle(p, s) ==
  /\ seat' = [seat EXCEPT ![p] = At(s)]
  /\ timer' = [timer EXCEPT ![p] = Plan(p, s, NoMove)]
  /\ armed' = [armed EXCEPT ![p] = FALSE]
  /\ Persist(p, s)
  /\ UNCHANGED settling

\* onConfirmed: schedule the next propose, settle at the end, disarm the watchdog,
\* persist.
Confirm(p, s) ==
  /\ seat' = [seat EXCEPT ![p] = At(s)]
  /\ timer' = [timer EXCEPT ![p] = Plan(p, s, NoMove)]
  /\ settling' = [settling EXCEPT ![p] = @ \/ IsTerminal(s)]
  /\ armed' = [armed EXCEPT ![p] = FALSE]
  /\ Persist(p, s)

Delivered(p, t) == Ready(p) /\ up[p] /\ net[p] # <<>> /\ Head(net[p]).t = t

\* onMove: a replayed MOVE is answered with the ACK again if it is the current
\* one, the next MOVE is re-applied, checked, co-signed and acknowledged, and a
\* MOVE beyond that throws.
OnMove(p) ==
  /\ Delivered(p, "move")
  /\ LET f == Head(net[p])
         next == ApplyMove(State(p), f.move, Other(p))
     IN \/ /\ f.nonce <= Nonce(p)
           /\ Reply(p, IF f.nonce = Nonce(p) THEN <<AckFrame(State(p))>> ELSE <<>>)
           /\ UNCHANGED <<seat, timer, settling, armed, dirty, signed>>
        \/ /\ f.nonce = Nonce(p) + 1
           /\ f.stateHash = next /\ <<Other(p), next>> \in signed
           /\ signed' = signed \cup {<<p, next>>}
           /\ Confirm(p, next)
           /\ Reply(p, <<AckFrame(next)>>)
        \/ /\ f.nonce > Nonce(p) /\ (f.nonce # Nonce(p) + 1 \/ f.stateHash # next)
           /\ Reply(p, <<>>)
           /\ UNCHANGED <<seat, timer, settling, armed, dirty, signed>>
  /\ UNCHANGED <<disk, cold, live, up, faults>>

\* Variant: an ACK for the pending nonce confirms, whatever its signature is over.
OnAckUnverified(p) ==
  /\ Delivered(p, "ack")
  /\ IF HasPending(p) /\ Head(net[p]).nonce = Nonce(p) + 1
     THEN Confirm(p, ApplyMove(State(p), Pending(p), p))
     ELSE UNCHANGED <<seat, timer, settling, armed, dirty>>
  /\ Reply(p, <<>>)
  /\ UNCHANGED <<disk, cold, live, up, signed, faults>>

\* onAck: a stale ACK is ignored, one that does not answer the pending proposal
\* or does not verify over its bytes throws.
OnAck(p) ==
  /\ Delivered(p, "ack")
  /\ LET f == Head(net[p])
         next == ApplyMove(State(p), Pending(p), p)
         valid == /\ HasPending(p) /\ f.nonce = Nonce(p) + 1
                  /\ f.sig = next /\ <<Other(p), next>> \in signed
     IN IF f.nonce > Nonce(p) /\ valid THEN Confirm(p, next)
                                       ELSE UNCHANGED <<seat, timer, settling, armed, dirty>>
  /\ Reply(p, <<>>)
  /\ UNCHANGED <<disk, cold, live, up, signed, faults>>

\* Variant: a resumed socket sends nothing.
OnResumedSilent(p) ==
  /\ Delivered(p, "resumed")
  /\ Reply(p, <<>>)
  /\ UNCHANGED <<seat, disk, dirty, timer, settling, armed, cold, live, up, signed, faults>>

\* resumeKick, on resume.ok and on peer.resumed.
OnResumed(p) ==
  /\ Delivered(p, "resumed")
  /\ Reply(p, <<Resync(p)>> \o PendingFrames(p))
  /\ UNCHANGED <<seat, disk, dirty, timer, settling, armed, cold, live, up, signed, faults>>

\* onResync with decideReconcile.  adoptCheckpoint calls no onConfirmed: nothing is
\* persisted, scheduled, disarmed or settled.
OnResync(p) ==
  /\ Delivered(p, "resync")
  /\ LET f == Head(net[p])
         peerNonce == Len(f.checkpoint)
     IN \/ /\ peerNonce > Nonce(p) /\ CoSigned(f.checkpoint)                 \* adopt
           /\ seat' = [seat EXCEPT ![p] = At(f.checkpoint)]
           /\ Reply(p, IF f.hasPending THEN <<[t |-> "resync", hasPending |-> FALSE,
                                               checkpoint |-> f.checkpoint]>> ELSE <<>>)
        \/ /\ peerNonce = Nonce(p) /\ f.checkpoint = State(p) /\ HasPending(p)
           /\ Reply(p, PendingFrames(p))                                     \* re-propose
           /\ UNCHANGED seat
        \/ /\ \/ peerNonce < Nonce(p)                                        \* wait
              \/ peerNonce = Nonce(p) /\ f.checkpoint # State(p)             \* settle
              \/ peerNonce = Nonce(p) /\ ~HasPending(p)                      \* noop
           /\ Reply(p, <<>>)
           /\ UNCHANGED seat
  /\ UNCHANGED <<disk, dirty, timer, settling, armed, cold, live, up, signed, faults>>

\* flushResumeWrites, from the microtask.
Flush(p) ==
  /\ live[p] /\ dirty[p]
  /\ disk' = [disk EXCEPT ![p] = seat[p]]
  /\ dirty' = [dirty EXCEPT ![p] = FALSE]
  /\ UNCHANGED <<seat, timer, settling, armed, cold, live, up, net, signed, faults>>

-----------------------------------------------------------------------------
\* Faults.

\* The socket of p is gone: frames to p are lost, and so are the last of those
\* p has sent.
Disconnect(p, k) ==
  /\ up' = [up EXCEPT ![p] = FALSE]
  /\ net' = [net EXCEPT ![p] = <<>>, ![Other(p)] = SubSeq(@, 1, Len(@) - k)]

Count(f, max) == faults[f] < max /\ faults' = [faults EXCEPT ![f] = @ + 1]

DropSocket(p, k) ==
  /\ live[p] /\ up[p]
  /\ Count("drop", MaxDrops)
  /\ Disconnect(p, k)
  /\ UNCHANGED <<seat, disk, dirty, timer, settling, armed, cold, live, signed>>

\* The page starts again from a record: resumeActiveTunnels rebuilds the tunnel
\* (restoreInto: adoptCheckpoint, then seatPending, which signs again), unless
\* there is no record or the match was over.
Restart(p, record) ==
  LET restorable == record.state # <<>> /\ ~IsTerminal(record.state)
  IN /\ live' = [live EXCEPT ![p] = restorable]
     /\ cold' = [cold EXCEPT ![p] = restorable]
     /\ disk' = [disk EXCEPT ![p] = IF restorable THEN record ELSE NoRecord]
     /\ seat' = [seat EXCEPT ![p] = record]
     /\ signed' = IF restorable /\ record.pending # NoMove
                  THEN signed \cup {<<p, ApplyMove(record.state, record.pending, p)>>}
                  ELSE signed
     /\ timer' = [timer EXCEPT ![p] = FALSE]
     /\ settling' = [settling EXCEPT ![p] = FALSE]
     /\ armed' = [armed EXCEPT ![p] = FALSE]
     /\ dirty' = [dirty EXCEPT ![p] = FALSE]

\* Variant: pagehide does not flush.
ReloadUnflushed(p, k) ==
  /\ live[p]
  /\ Count("reload", MaxReloads)
  /\ Disconnect(p, k)
  /\ Restart(p, disk[p])

\* A reload: pagehide, or the microtask before it, has written the record.
Reload(p, k) ==
  /\ live[p]
  /\ Count("reload", MaxReloads)
  /\ Disconnect(p, k)
  /\ Restart(p, IF dirty[p] THEN seat[p] ELSE disk[p])

\* The process dies between a handler and the microtask that writes its record.
Kill(p, k) ==
  /\ live[p] /\ dirty[p]
  /\ Count("kill", MaxKills)
  /\ Disconnect(p, k)
  /\ Restart(p, disk[p])

\* MpClient reconnects and resumes the match: the server answers resume.ok and
\* tells the peer.  After a cold start the page then kicks a due move and arms
\* the watchdog if it waits for the peer.
Connect(p) ==
  /\ live[p] /\ ~up[p] /\ ~dirty[p]
  /\ up' = [up EXCEPT ![p] = TRUE]
  /\ net' = [net EXCEPT ![p] = <<Resumed>>,
                        ![Other(p)] = IF up[Other(p)] THEN Append(@, Resumed) ELSE @]
  /\ cold' = [cold EXCEPT ![p] = FALSE]
  /\ IF cold[p]
     THEN /\ timer' = [timer EXCEPT ![p] = Plan(p, State(p), Pending(p))]
          /\ armed' = [armed EXCEPT ![p] = HasPending(p) \/ Turn(Nonce(p)) # p]
     ELSE UNCHANGED <<timer, armed>>
  /\ UNCHANGED <<seat, disk, dirty, settling, live, signed, faults>>

\* Nothing is on its way and nobody is about to do anything: the only way eight
\* seconds can pass between two programs that answer in milliseconds.
Quiet == \A p \in Party : net[p] = <<>> /\ ~timer[p] /\ ~dirty[p] /\ (live[p] => up[p])

\* The watchdog drops the record and resets the session to the lobby.
Watchdog(p) ==
  /\ live[p] /\ armed[p] /\ Quiet
  /\ live' = [live EXCEPT ![p] = FALSE]
  /\ disk' = [disk EXCEPT ![p] = NoRecord]
  /\ armed' = [armed EXCEPT ![p] = FALSE]
  /\ Disconnect(p, 0)
  /\ UNCHANGED <<seat, dirty, timer, settling, cold, signed, faults>>

-----------------------------------------------------------------------------
Receive(p) == OnMove(p) \/ OnAck(p) \/ OnResumed(p) \/ OnResync(p)

Fault(p) == \E k \in 0 .. Len(net[Other(p)]) :
              DropSocket(p, k) \/ Reload(p, k) \/ Kill(p, k)

Next ==
  \E p \in Party :
    \/ \E m \in Moves : Propose(p, m)
    \/ Input(p)
    \/ Receive(p)
    \/ Flush(p)
    \/ Fault(p)
    \/ Connect(p)
    \/ Watchdog(p)

Spec == Init /\ [][Next]_vars

\* Both seats' event loops run, and the socket layer keeps reconnecting.
FairSpec ==
  /\ Spec
  /\ \A p \in Party :
       /\ WF_vars(\E m \in Moves : Propose(p, m))
       /\ WF_vars(Receive(p))
       /\ WF_vars(Flush(p))
       /\ WF_vars(Connect(p))

-----------------------------------------------------------------------------
\* Properties.

TypeOK ==
  /\ seat \in [Party -> [state : Seq(Move), pending : Moves \cup {NoMove}]]
  /\ disk \in [Party -> [state : Seq(Move), pending : Moves \cup {NoMove}]]
  /\ dirty \in [Party -> BOOLEAN] /\ timer \in [Party -> BOOLEAN]
  /\ armed \in [Party -> BOOLEAN] /\ cold \in [Party -> BOOLEAN]
  /\ settling \in [Party -> BOOLEAN]
  /\ live \in [Party -> BOOLEAN] /\ up \in [Party -> BOOLEAN]
  /\ signed \subseteq Party \X Seq(Move)
  /\ faults \in [drop : Nat, reload : Nat, kill : Nat]

\* In a game with turns the two seats never disagree on a confirmed move,
\* whatever is dropped, duplicated, reloaded or killed: one confirmed history is
\* a prefix of the other.
Agreement == IsPrefix(State(A), State(B)) \/ IsPrefix(State(B), State(A))

\* What a seat holds as confirmed can be settled: both seats have signed it.
Settleable == \A p \in Party : State(p) # <<>> => CoSigned(State(p))

\* decideReconcile's "settle" case (equivocation) never arises between seats that
\* follow the code: while no write is lost, at every nonce at most one state
\* carries both signatures.
NoEquivocation ==
  faults.kill = 0 =>
    \A x, y \in signed :
      CoSigned(x[2]) /\ CoSigned(y[2]) /\ Len(x[2]) = Len(y[2]) => x[2] = y[2]

\* While no write is lost the seats are at most one move apart.
AtMostOneApart ==
  faults.kill = 0 => \A p \in Party : Nonce(p) <= Nonce(Other(p)) + 1

\* The two seats together are one channel: whatever is dropped, reloaded or resent, the
\* states that carry both signatures form one history, which grows by a move of the seat
\* to move on its latest state and never forks, and a seat is always at one of them.
Agreed == {<<>>} \cup {x[2] : x \in {y \in signed : CoSigned(y[2])}}
View == [p \in Party |-> State(p)]
Channel == INSTANCE Channel WITH agreed <- Agreed, view <- View
ImplementsChannel == Channel!Spec

\* Once the faults stop, the match is played to its end, or a seat is gone.
Completes ==
  <>((\E p \in Party : ~live[p]) \/ (\A p \in Party : IsTerminal(State(p))))

\* At the end of the match somebody starts the cooperative close.
Settled ==
  (\E p \in Party : IsTerminal(State(p))) ~>
     (\E p \in Party : settling[p] \/ ~live[p])

\* Moves are interchangeable.
MoveSymmetry == Permutations(Moves)
=============================================================================
