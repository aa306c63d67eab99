----------------------------- MODULE Watchtower -----------------------------
(***************************************************************************)
(* Getting party A's money out of a tunnel without party B.  Either A       *)
(* makes the calls itself, or it leaves them to the watchtower of           *)
(* sui-tunnel-ts/src/recovery: a timer whose ticks fetch a snapshot of the  *)
(* tunnel, decide, and send one transaction.  The snapshot is old when the  *)
(* transaction runs, a slow tick overlaps the next one, a transaction may   *)
(* abort, and its answer may be lost.  B, the referee and everybody else    *)
(* do what the contract lets them do.                                       *)
(***************************************************************************)
EXTENDS Tunnel

CONSTANTS
  Ticks,        \* ticks that may be under way at once (setInterval does not await)
  Skew,         \* how far the tower's clock may be ahead of the chain's
  Referees,     \* bound: the referees that are ever assigned
  MaxLost       \* bound: transactions or answers lost on their way

ASSUME TowerAssumption == {Skew, MaxLost} \subseteq Nat

VARIABLES
  driver,    \* "party" or "tower": who looks after A's money
  watched,   \* the tower's map holds the tunnel
  tick,      \* per tick: the action it has decided on, "none" when it is done
  silent,    \* B has not been heard of for heartbeatTimeoutMs
  lost       \* transactions and answers lost so far

tower == <<driver, watched, tick, silent, lost>>
all == <<vars, tower>>

\* latestUpdate: the newest of the updates that carry both signatures.
CoSignedUpdates == {m \in Messages : m.kind = "update" /\ BothSigned(m)}
latestUpdate ==
  CHOOSE m \in CoSignedUpdates : \A n \in CoSignedUpdates : n.nonce <= m.nonce

\* TunnelLiveness.hasCounterpartySignedNewerState.
HoldsNewer == \E m \in CoSignedUpdates : m.nonce > state.nonce

\* Variant: a dispute the counterparty raised is never answered.
decideRecoveryPassive(clock) ==
  CASE tunnel.status = "DISPUTED" ->
         IF tunnel.dispute_raiser = A /\ clock >= Deadline THEN "force_close" ELSE "none"
    [] tunnel.status = "CREATED" ->
         IF tunnel.deposit[B] = 0 /\ clock >= tunnel.created_at + tunnel.timeout_ms
         THEN "withdraw_timeout" ELSE "none"
    [] tunnel.status = "ACTIVE" ->
         IF silent THEN "raise_dispute_current_state" ELSE "none"
    [] OTHER -> "none"

decideRecovery(clock) ==
  CASE tunnel.status = "DISPUTED" ->
         IF tunnel.dispute_raiser # A /\ HoldsNewer THEN "resolve_dispute"
         ELSE IF tunnel.dispute_raiser = A /\ clock >= Deadline THEN "force_close"
         ELSE "none"
    [] tunnel.status = "CREATED" ->
         IF tunnel.deposit[B] = 0 /\ clock >= tunnel.created_at + tunnel.timeout_ms
         THEN "withdraw_timeout" ELSE "none"
    [] tunnel.status = "ACTIVE" ->
         IF ~silent THEN "none"
         ELSE IF HoldsNewer THEN "raise_dispute" ELSE "raise_dispute_current_state"
    [] OTHER -> "none"

\* The transactions.  Those that carry an update look it up when they are built, and
\* building throws when there is none.
buildRaiseDisputeFromUpdate == CoSignedUpdates # {} /\ RaiseDispute(A, latestUpdate)
buildResolveDispute == CoSignedUpdates # {} /\ ResolveDispute(latestUpdate)
buildRaiseDisputeCurrentState == RaiseDisputeCurrentState(A)
buildForceClose == ForceClose(A)
buildWithdrawTimeout == WithdrawTimeout(A)

\* makeRecoveryExecutor: the transaction of each action.
executor(action) ==
  \/ action = "raise_dispute" /\ buildRaiseDisputeFromUpdate
  \/ action = "resolve_dispute" /\ buildResolveDispute
  \/ action = "raise_dispute_current_state" /\ buildRaiseDisputeCurrentState
  \/ action = "force_close" /\ buildForceClose
  \/ action = "withdraw_timeout" /\ buildWithdrawTimeout

Terminal == {"force_close", "withdraw_timeout"}

\* Variant: a committed transaction whose Move call aborted counts as done.
doneAbortToo(t, ok) == watched /\ tick[t] \notin Terminal

\* After the await: the tunnel is dropped from the map once a terminal call has succeeded.
done(t, ok) == watched /\ ~(ok /\ tick[t] \in Terminal)

-----------------------------------------------------------------------------
\* fetchLiveness and decideRecovery, on a clock that may be ahead.  Tick t overlaps the
\* ones before it.
tickDecides(t) ==
  /\ driver = "tower" /\ watched /\ tunnel.status # "NONE" /\ tick[t] = "none"
  /\ \A u \in Ticks : u < t => tick[u] # "none"
  /\ \E clock \in now .. now + Skew :
       /\ decideRecovery(clock) # "none"
       /\ tick' = [tick EXCEPT ![t] = decideRecovery(clock)]
  /\ UNCHANGED <<vars, driver, watched, silent, lost>>

\* execute: the call runs, or aborts, which throws.
tickExecutes(t) ==
  /\ tick[t] # "none"
  /\ tick' = [tick EXCEPT ![t] = "none"]
  /\ \/ executor(tick[t]) /\ watched' = done(t, TRUE)
     \/ ~ENABLED executor(tick[t]) /\ watched' = done(t, FALSE) /\ UNCHANGED vars
  /\ silent' = (silent /\ tunnel'.status = "ACTIVE")
  /\ UNCHANGED <<driver, lost>>

\* The transaction never arrives, or its answer does not come back: it throws either way.
tickLoses(t) ==
  /\ tick[t] # "none" /\ lost < MaxLost
  /\ lost' = lost + 1
  /\ tick' = [tick EXCEPT ![t] = "none"]
  /\ executor(tick[t]) \/ UNCHANGED vars
  /\ silent' = (silent /\ tunnel'.status = "ACTIVE")
  /\ UNCHANGED <<driver, watched>>

\* Nothing is heard of B for heartbeatTimeoutMs.
Heartbeat ==
  /\ driver = "tower" /\ tunnel.status = "ACTIVE" /\ ~silent
  /\ silent' = TRUE
  /\ UNCHANGED <<vars, driver, watched, tick, lost>>

\* Everybody else, and the chain.  A signature of B is a sign of life; whether B is silent
\* matters only while the tunnel is ACTIVE.  The package is upgraded only while A drives:
\* the tower knows no migrate, so an upgrade makes all its calls abort until somebody else
\* migrates the tunnel.
Others ==
  /\ Next
  /\ driver = "tower" => package' = package
  /\ tunnel'.referee \in Referees \cup {None}
  /\ silent' = /\ silent /\ tunnel'.status = "ACTIVE"
               /\ \A m \in Messages : <<B, m>> \in signed' => <<B, m>> \in signed
  /\ UNCHANGED <<driver, watched, tick, lost>>

TowerInit ==
  /\ Init
  /\ driver \in {"party", "tower"}
  /\ watched = TRUE
  /\ tick = [t \in Ticks |-> "none"]
  /\ silent = FALSE
  /\ lost = 0

TowerNext ==
  \/ Others
  \/ Heartbeat
  \/ \E t \in Ticks : tickDecides(t) \/ tickExecutes(t) \/ tickLoses(t)

Alone(call) == driver = "party" /\ call /\ Others

\* The clock runs.  Either party A stays online and makes the calls that need nobody's
\* signature, or the tower's timer keeps firing and its transactions are answered.
\* Nothing is asked of party B.
RecoverySpec ==
  /\ TowerInit /\ [][TowerNext]_all
  /\ WF_all(Tick /\ Others)
  /\ WF_all(Alone(Migrate(A)))
  /\ WF_all(Alone(WithdrawTimeout(A)))
  /\ WF_all(Alone(RaiseDisputeCurrentState(A)))
  /\ WF_all(Alone(ForceClose(A)))
  /\ WF_all(Alone(AgreeToDispute(A)))
  /\ WF_all(Heartbeat)
  /\ \A t \in Ticks : WF_all(tickDecides(t)) /\ WF_all(tickExecutes(t))

-----------------------------------------------------------------------------
\* Properties.

\* One party alone gets its money out, whatever the other one signs, submits, disputes or
\* resolves: "Without a timeout, funds can be permanently trapped if a party
\* becomes unresponsive" (build_tunnel).
UnilateralExit == (driver = "party" /\ AtStake(A)) ~> ~AtStake(A)

\* The tower cannot help: it has no answer to a dispute B raised over the newest state
\* there is, and it goes on sending a newest state that the contract refuses.
OutOfReach ==
  \/ tunnel.status = "DISPUTED" /\ tunnel.dispute_raiser = B /\ ~HoldsNewer
  \/ HoldsNewer /\ ~ /\ latestUpdate.nonce < U64Max
                     /\ Split(latestUpdate.a, latestUpdate.b, tunnel.balance)
                     /\ InWindow(latestUpdate.timestamp)

\* The tower gets A's money out, whatever B does, however old its snapshots are and
\* whichever of its transactions abort or get lost, unless it is out of its reach.
TowerRecovers == (driver = "tower" /\ AtStake(A)) ~> (~AtStake(A) \/ OutOfReach)

\* The tower stops watching only when nothing of A's is left in the tunnel, although the
\* call that ends its watch may have been decided on an old snapshot, be sent twice by
\* overlapping ticks or abort.
WatchKept == watched \/ ~AtStake(A)

\* "The on-chain timeout path guarantees the honest party can ALWAYS recover funds - but
\* only if someone drives it.  The watchtower [...] on counterparty silence, automatically
\* runs the correct recovery": the tower gets A's money out.
TowerAlwaysRecovers == (driver = "tower" /\ AtStake(A)) ~> ~AtStake(A)

-----------------------------------------------------------------------------
\* A small instance: two states the other party can resolve a dispute with, and a coin for
\* either party.
ExitMessages ==
  {[kind |-> "update", nonce |-> 1, timestamp |-> 0, a |-> 0, b |-> 2],
   [kind |-> "update", nonce |-> 2, timestamp |-> 0, a |-> 2, b |-> 0]}
OneEach == [x \in Address |-> IF x = Outside THEN 0 ELSE 1]
=============================================================================
