------------------------------- MODULE Tunnel -------------------------------
(***************************************************************************)
(* The on-chain half of a two-party state channel: the shared object       *)
(* `Tunnel<T>` of sui_tunnel/sources/tunnel.move.  Each Move call is one   *)
(* atomic action; an `assert!` is a conjunct of its guard.  `tunnel` and   *)
(* `state` are the struct and its embedded StateCommitment, `htlcs` and    *)
(* `counter` the dynamic fields keyed by payment hash and by party.        *)
(*                                                                         *)
(* A signature is a fact: <<p, m>> \in signed says that party p has signed *)
(* the message m, and signature::verify asks for exactly that.  The domain *)
(* prefix of the serialized message is the field `kind`.                   *)
(***************************************************************************)
EXTENDS Integers, FiniteSets, FiniteSetsExt

CONSTANTS
  A, B,             \* the two parties' addresses
  Outside,          \* any other address (a relayer, an HTLC receiver, a referee)
  None,             \* Option::none
  Hash,             \* payment hashes; a preimage is named by its hash
  Messages,         \* the messages the parties may sign for this tunnel
  Coins,            \* what each address owns before the tunnel exists
  Amounts,          \* coin amounts and balances a caller passes
  Timeouts, Penalties, Extensions,   \* durations and penalties a caller passes
  MaxTotalTimeout,  \* MAX_TOTAL_TIMEOUT_MS
  MaxExtension,     \* MAX_TIMEOUT_EXTENSION_MS
  U64Max,           \* std::u64::max_value!()
  MaxVersion,       \* bound: package versions published
  IdleTime          \* bound: the clock stops here unless a deadline is ahead

Party == {A, B}
Address == {A, B, Outside}
Other(p) == IF p = A THEN B ELSE A

UpdateMsg == [kind : {"update"}, nonce : Nat, timestamp : Nat, a : Nat, b : Nat]
SettlementMsg == [kind : {"settlement", "settlement_with_root"},
                  final_nonce : Nat, timestamp : Nat, a : Nat, b : Nat]
HtlcMsg == [kind : {"htlc_lock"}, hash : Hash, amount : Nat, sender : Party,
            receiver : Address, expiry_ms : Nat]
RefereeMsg == [kind : {"referee_assignment"}, referee : Address]

ASSUME AddressAssumption == A # B /\ A # Outside /\ B # Outside /\ None \notin Address
ASSUME MessageAssumption ==
  Messages \subseteq UpdateMsg \cup SettlementMsg \cup HtlcMsg \cup RefereeMsg
ASSUME CoinAssumption == Coins \in [Address -> Nat] /\ Amounts \subseteq Nat
ASSUME TimeAssumption ==
  /\ Timeouts \subseteq Nat /\ Penalties \subseteq Nat /\ Extensions \subseteq Nat
  /\ {MaxTotalTimeout, MaxExtension, MaxVersion, IdleTime} \subseteq Nat
  /\ MaxExtension <= MaxTotalTimeout
ASSUME U64Assumption == U64Max \in Nat \ {0}

VARIABLES
  tunnel,    \* the fields of Tunnel<T>, except `state`
  state,     \* tunnel.state: nonce, dispute clock and the split of the balance
  htlcs,     \* dynamic fields HTLCKey -> TunnelHTLC
  counter,   \* dynamic fields HTLCPartyCounterKey -> HTLCPartyCounter
  wallet,    \* coins outside the tunnel, per address
  signed,    \* <<party, message>>: the signatures that exist
  now,       \* the Clock
  package    \* CURRENT_VERSION of the published package

vars == <<tunnel, state, htlcs, counter, wallet, signed, now, package>>

Statuses == {"NONE", "CREATED", "ACTIVE", "DISPUTED", "CLOSED", "DESTROYED"}
NoHtlc == [amount |-> 0, sender |-> None, receiver |-> None, expiry_ms |-> 0]

Tunnels == [version : Nat, status : Statuses, balance : Nat, deposit : [Party -> Nat],
            created_at : Nat, last_activity : Nat, timeout_ms : Nat,
            penalty_amount : Nat, dispute_raiser : Party \cup {None},
            last_disputed_nonce : Nat, referee : Address \cup {None}]
StateCommitment == [nonce : Nat, timestamp : Nat, bal : [Party -> Nat]]
TunnelHTLC == [amount : Nat, sender : Party, receiver : Address, expiry_ms : Nat]

-----------------------------------------------------------------------------
\* Slips in the helpers below, each of which some property must notice.

NewerNonceUnreserved(n) == n > state.nonce
NewerNonceOrEqual(n) == n >= state.nonce /\ n < U64Max
NewerNonceUnordered(n) == n < U64Max
UndisputedStrict(n) == n > tunnel.last_disputed_nonce
SignedByA(m) == <<A, m>> \in signed
FirstStateEmpty(deposit) == state
CanExtendAnytime == tunnel.version = package /\ tunnel.status \in {"ACTIVE", "DISPUTED"}
CountedForever(p, adding, amount) ==
  [counter EXCEPT ![p] = [count |-> @.count + 1, total_locked |-> @.total_locked + amount]]
CountedOnce(p, adding, amount) ==
  [counter EXCEPT ![p] = [count |-> IF adding THEN 1 ELSE 0,
                          total_locked |-> IF adding THEN @.total_locked + amount
                                                     ELSE @.total_locked - amount]]
NothingLockedByA == counter[A].total_locked = 0

-----------------------------------------------------------------------------
\* Helpers the calls share.

\* assert_balance_split: a <= total keeps the subtraction from underflowing.
Split(a, b, total) == a <= total /\ b = total - a

\* The nonce checks of update_state, raise_dispute and resolve_dispute.
NewerNonce(n) == n > state.nonce /\ n < U64Max

\* Every mutator starts with assert!(tunnel.version == CURRENT_VERSION).
InStatus(S) == tunnel.version = package /\ tunnel.status \in S

\* The window a signed timestamp must fall in.
InWindow(ts) == tunnel.created_at <= ts /\ ts <= now

Verify(p, m) == <<p, m>> \in signed
BothSigned(m) == Verify(A, m) /\ Verify(B, m)

Live(h) == htlcs[h] # NoHtlc

Deadline == state.timestamp + tunnel.timeout_ms

\* The common tail of every call that ends the tunnel: close it and transfer
\* the two coins straight to the parties.
CloseAndPay(a, b) ==
  /\ Split(a, b, tunnel.balance)
  /\ tunnel' = [tunnel EXCEPT !.status = "CLOSED", !.last_activity = now,
                              !.balance = (@ - a) - b]
  /\ wallet' = [wallet EXCEPT ![A] = @ + a, ![B] = @ + b]
  /\ UNCHANGED <<state, htlcs, counter, signed, now, package>>

\* The dispute high-water mark: nonce n has not been disputed yet.
Undisputed(n) == n >= tunnel.last_disputed_nonce

\* Replace the state commitment; the clock of a dispute starts over.
Commit(m) == state' = [nonce |-> m.nonce, timestamp |-> now,
                       bal |-> [p \in Party |-> IF p = A THEN m.a ELSE m.b]]

-----------------------------------------------------------------------------
\* Creation and funding.

Init ==
  /\ tunnel = [version |-> 1, status |-> "NONE", balance |-> 0,
               deposit |-> [p \in Party |-> 0], created_at |-> 0,
               last_activity |-> 0, timeout_ms |-> 0, penalty_amount |-> 0,
               dispute_raiser |-> None, last_disputed_nonce |-> 0, referee |-> None]
  /\ state = [nonce |-> 0, timestamp |-> 0, bal |-> [p \in Party |-> 0]]
  /\ htlcs = [h \in Hash |-> NoHtlc]
  /\ counter = [p \in Party |-> [count |-> 0, total_locked |-> 0]]
  /\ wallet = Coins
  /\ signed = {}
  /\ now = 0
  /\ package = 1

\* What build_tunnel returns: a tunnel with no funds yet.
Fresh(timeout, penalty) ==
  [tunnel EXCEPT !.version = package, !.status = "CREATED", !.created_at = now,
                 !.last_activity = now, !.timeout_ms = timeout, !.penalty_amount = penalty]

\* create_and_share.
Create(timeout, penalty) ==
  /\ tunnel.status = "NONE"
  /\ timeout > 0 /\ timeout <= MaxTotalTimeout
  /\ tunnel' = Fresh(timeout, penalty)
  /\ state' = [state EXCEPT !.timestamp = now]
  /\ UNCHANGED <<htlcs, counter, wallet, signed, now, package>>

\* create_and_fund(_with_id): one sender opens the tunnel and pays both stakes,
\* so it is ACTIVE when it is first shared.
CreateAndFund(funder, a, b, timeout, penalty) ==
  /\ tunnel.status = "NONE"
  /\ timeout > 0 /\ timeout <= MaxTotalTimeout
  /\ a >= 1 /\ b >= 1 /\ a + b <= wallet[funder]
  /\ tunnel' = [Fresh(timeout, penalty) EXCEPT
                  !.status = "ACTIVE", !.balance = a + b,
                  !.deposit = [p \in Party |-> IF p = A THEN a ELSE b]]
  /\ state' = [state EXCEPT !.timestamp = now,
                            !.bal = [p \in Party |-> IF p = A THEN a ELSE b]]
  /\ wallet' = [wallet EXCEPT ![funder] = (@ - a) - b]
  /\ UNCHANGED <<htlcs, counter, signed, now, package>>

\* maybe_activate: both parties have deposited ...
Funded(deposit) == deposit[A] > 0 /\ deposit[B] > 0
\* ... and then the deposits become the first split.
FirstState(deposit) == [state EXCEPT !.bal = deposit]

\* deposit / deposit_party_a / deposit_party_b, with maybe_activate.
Deposit(p, amount) ==
  LET deposit == [tunnel.deposit EXCEPT ![p] = @ + amount]
  IN /\ InStatus({"CREATED"})
     /\ amount >= 1 /\ amount <= wallet[p]
     /\ tunnel' = [tunnel EXCEPT !.deposit = deposit, !.balance = @ + amount,
                                 !.last_activity = now,
                                 !.status = IF Funded(deposit) THEN "ACTIVE" ELSE @]
     /\ state' = IF Funded(deposit) THEN FirstState(deposit) ELSE state
     /\ wallet' = [wallet EXCEPT ![p] = @ - amount]
     /\ UNCHANGED <<htlcs, counter, signed, now, package>>

-----------------------------------------------------------------------------
\* State updates and cooperative close.

UpdateState(m) ==
  /\ InStatus({"ACTIVE"})
  /\ m.kind = "update"
  /\ NewerNonce(m.nonce)
  /\ Split(m.a, m.b, tunnel.balance)
  /\ InWindow(m.timestamp)
  /\ BothSigned(m)
  /\ Commit(m)
  /\ tunnel' = [tunnel EXCEPT !.last_activity = now]
  /\ UNCHANGED <<htlcs, counter, wallet, signed, now, package>>

\* close_cooperative and close_cooperative_with_root.
CloseCooperative(m) ==
  /\ InStatus({"ACTIVE", "CREATED"})
  /\ m.kind \in {"settlement", "settlement_with_root"}
  /\ m.final_nonce = state.nonce + 1
  /\ InWindow(m.timestamp)
  /\ BothSigned(m)
  /\ CloseAndPay(m.a, m.b)

-----------------------------------------------------------------------------
\* Disputes.

\* raise_dispute: the sender submits a state the other party signed.
RaiseDispute(p, m) ==
  /\ InStatus({"ACTIVE"})
  /\ m.kind = "update"
  /\ Split(m.a, m.b, tunnel.balance)
  /\ NewerNonce(m.nonce)
  /\ Undisputed(m.nonce)
  /\ InWindow(m.timestamp)
  /\ Verify(Other(p), m)
  /\ tunnel' = [tunnel EXCEPT !.status = "DISPUTED", !.dispute_raiser = p,
                              !.last_disputed_nonce = m.nonce + 1,
                              !.last_activity = now]
  /\ Commit(m)
  /\ UNCHANGED <<htlcs, counter, wallet, signed, now, package>>

\* resolve_dispute: anyone submits a newer state both parties signed.
\* last_disputed_nonce stays.
ResolveDispute(m) ==
  /\ InStatus({"DISPUTED"})
  /\ m.kind = "update"
  /\ NewerNonce(m.nonce)
  /\ Split(m.a, m.b, tunnel.balance)
  /\ InWindow(m.timestamp)
  /\ BothSigned(m)
  /\ tunnel' = [tunnel EXCEPT !.status = "ACTIVE", !.dispute_raiser = None,
                              !.last_activity = now]
  /\ Commit(m)
  /\ UNCHANGED <<htlcs, counter, wallet, signed, now, package>>

RaiseDisputeCurrentState(p) ==
  /\ InStatus({"ACTIVE"})
  /\ tunnel.timeout_ms > 0
  /\ Undisputed(state.nonce)
  /\ tunnel' = [tunnel EXCEPT !.status = "DISPUTED", !.dispute_raiser = p,
                              !.last_disputed_nonce = state.nonce + 1,
                              !.last_activity = now]
  /\ state' = [state EXCEPT !.timestamp = now]
  /\ UNCHANGED <<htlcs, counter, wallet, signed, now, package>>

\* The penalty the raiser takes from the other party, capped at its balance.
ActualPenalty(p) ==
  IF tunnel.penalty_amount <= state.bal[Other(p)] THEN tunnel.penalty_amount
                                                  ELSE state.bal[Other(p)]

\* force_close_after_timeout.
ForceClose(p) ==
  LET penalty == ActualPenalty(p)
      share(q) == IF q = p THEN state.bal[q] + penalty ELSE state.bal[q] - penalty
  IN /\ InStatus({"DISPUTED"})
     /\ tunnel.timeout_ms > 0
     /\ tunnel.dispute_raiser = p
     /\ now >= Deadline
     /\ CloseAndPay(share(A), share(B))

AgreeToDispute(p) ==
  /\ InStatus({"DISPUTED"})
  /\ tunnel.dispute_raiser = Other(p)
  /\ CloseAndPay(state.bal[A], state.bal[B])

\* resolve_dispute_external: the referee alone chooses the split.
ResolveDisputeExternal(s, a, b) ==
  /\ InStatus({"DISPUTED"})
  /\ tunnel.referee = s
  /\ CloseAndPay(a, b)

\* resolve_dispute_verified: a verifier module of the package has checked a
\* proof of the outcome; only the challenge window is checked here.
ResolveDisputeVerified(a, b) ==
  /\ InStatus({"DISPUTED"})
  /\ tunnel.timeout_ms > 0
  /\ now >= Deadline
  /\ CloseAndPay(a, b)

\* can_extend_timeout.
CanExtend == InStatus({"ACTIVE"})

ExtendTimeout(p, additional) ==
  /\ CanExtend
  /\ additional > 0 /\ additional <= MaxExtension
  /\ tunnel.timeout_ms <= MaxTotalTimeout - additional
  /\ tunnel' = [tunnel EXCEPT !.timeout_ms = @ + additional, !.last_activity = now]
  /\ UNCHANGED <<state, htlcs, counter, wallet, signed, now, package>>

-----------------------------------------------------------------------------
\* Hash time-locked payments inside the tunnel.

\* update_party_htlc_counter.
Counted(p, adding, amount) ==
  LET d == IF adding THEN 1 ELSE -1
  IN [counter EXCEPT ![p] = [count |-> @.count + d,
                             total_locked |-> @.total_locked + d * amount]]

\* The locked amount leaves the sender's share of the state.
Debited(p, amount) == [state EXCEPT !.bal[p] = @ - amount]

\* lock_htlc with lock_htlc_internal: m.sender moves part of its balance into
\* the dynamic field; the state nonce does not advance.
LockHtlc(m) ==
  /\ InStatus({"ACTIVE"})
  /\ m.kind = "htlc_lock"
  /\ m.amount > 0 /\ m.expiry_ms > now
  /\ Verify(Other(m.sender), m)
  /\ m.amount <= state.bal[m.sender]
  /\ ~Live(m.hash)
  /\ htlcs' = [htlcs EXCEPT ![m.hash] =
                 [amount |-> m.amount, sender |-> m.sender,
                  receiver |-> m.receiver, expiry_ms |-> m.expiry_ms]]
  /\ counter' = Counted(m.sender, TRUE, m.amount)
  /\ tunnel' = [tunnel EXCEPT !.balance = @ - m.amount, !.last_activity = now]
  /\ state' = Debited(m.sender, m.amount)
  /\ UNCHANGED <<wallet, signed, now, package>>

\* The common tail of claim and expire: remove the field, transfer its coin.
ReleaseHtlc(h, payee) ==
  /\ htlcs' = [htlcs EXCEPT ![h] = NoHtlc]
  /\ counter' = Counted(htlcs[h].sender, FALSE, htlcs[h].amount)
  /\ wallet' = [wallet EXCEPT ![payee] = @ + htlcs[h].amount]
  /\ tunnel' = [tunnel EXCEPT !.last_activity = now]
  /\ UNCHANGED <<state, signed, now, package>>

\* claim_htlc_in_tunnel: in every status short of DESTROYED.
ClaimHtlc(s, h, preimage) ==
  /\ InStatus(Statuses \ {"NONE", "DESTROYED"})
  /\ Live(h)
  /\ s = htlcs[h].receiver
  /\ preimage = h
  /\ now < htlcs[h].expiry_ms
  /\ ReleaseHtlc(h, s)

\* expire_htlc_in_tunnel.
ExpireHtlc(s, h) ==
  /\ InStatus(Statuses \ {"NONE", "DESTROYED"})
  /\ Live(h)
  /\ now >= htlcs[h].expiry_ms
  /\ s = htlcs[h].sender
  /\ ReleaseHtlc(h, s)

-----------------------------------------------------------------------------
\* Referee, withdrawal, destruction, migration.

\* set_referee_cosigned: only before either party has funded.
SetReferee(m) ==
  /\ InStatus({"CREATED"})
  /\ tunnel.deposit[A] = 0 /\ tunnel.deposit[B] = 0
  /\ m.kind = "referee_assignment"
  /\ BothSigned(m)
  /\ tunnel' = [tunnel EXCEPT !.referee = m.referee]
  /\ UNCHANGED <<state, htlcs, counter, wallet, signed, now, package>>

\* set_referee, for app modules of the package: either party, no signature.
SetRefereePackage(p, referee) ==
  /\ InStatus({"CREATED"})
  /\ tunnel.deposit[A] = 0 /\ tunnel.deposit[B] = 0
  /\ tunnel' = [tunnel EXCEPT !.referee = referee]
  /\ UNCHANGED <<state, htlcs, counter, wallet, signed, now, package>>

\* The common tail of the two withdrawals.
Withdraw(p) ==
  LET amount == tunnel.deposit[p]
  IN /\ amount > 0
     /\ tunnel' = [tunnel EXCEPT
                     !.deposit[p] = 0, !.balance = @ - amount, !.last_activity = now,
                     !.status = IF tunnel.balance - amount = 0 THEN "CLOSED" ELSE @]
     /\ wallet' = [wallet EXCEPT ![p] = @ + amount]
     /\ UNCHANGED <<state, htlcs, counter, signed, now, package>>

WithdrawBeforeActive(p) ==
  /\ InStatus({"CREATED"})
  /\ tunnel.deposit[Other(p)] = 0
  /\ Withdraw(p)

WithdrawTimeout(p) ==
  /\ InStatus({"CREATED"})
  /\ tunnel.timeout_ms > 0
  /\ now >= tunnel.created_at + tunnel.timeout_ms
  /\ Withdraw(p)

\* party_htlc_locked_internal is zero for both parties.
NothingLocked == counter[A].total_locked = 0 /\ counter[B].total_locked = 0

DestroyTunnel(p) ==
  /\ InStatus({"CLOSED"})
  /\ tunnel.balance = 0
  /\ NothingLocked
  /\ tunnel' = [tunnel EXCEPT !.status = "DESTROYED"]
  /\ UNCHANGED <<state, htlcs, counter, wallet, signed, now, package>>

Migrate(p) ==
  /\ tunnel.status # "NONE"
  /\ tunnel.version < package
  /\ tunnel' = [tunnel EXCEPT !.version = package]
  /\ UNCHANGED <<state, htlcs, counter, wallet, signed, now, package>>

-----------------------------------------------------------------------------
\* The environment.

\* A party signs a message, off chain.
Sign(p, m) ==
  /\ <<p, m>> \notin signed
  /\ signed' = signed \cup {<<p, m>>}
  /\ UNCHANGED <<tunnel, state, htlcs, counter, wallet, now, package>>

\* A deadline of this tunnel lies ahead.
Waiting ==
  \/ tunnel.status = "CREATED" /\ now < tunnel.created_at + tunnel.timeout_ms
  \/ tunnel.status = "DISPUTED" /\ now < Deadline
  \/ \E h \in Hash : now < htlcs[h].expiry_ms

Tick ==
  /\ now < IdleTime \/ Waiting
  /\ now' = now + 1
  /\ UNCHANGED <<tunnel, state, htlcs, counter, wallet, signed, package>>

\* The package is upgraded with a higher CURRENT_VERSION.
Upgrade ==
  /\ package < MaxVersion
  /\ package' = package + 1
  /\ UNCHANGED <<tunnel, state, htlcs, counter, wallet, signed, now>>

-----------------------------------------------------------------------------
Open == \E timeout \in Timeouts, penalty \in Penalties :
          \/ Create(timeout, penalty)
          \/ \E funder \in Address, a, b \in Amounts :
               CreateAndFund(funder, a, b, timeout, penalty)

\* Calls that carry a signed message.
Submit(m) ==
  \/ UpdateState(m)
  \/ CloseCooperative(m)
  \/ \E p \in Party : RaiseDispute(p, m)
  \/ ResolveDispute(m)
  \/ LockHtlc(m)
  \/ SetReferee(m)

\* Calls a party makes on its own.
Call(p) ==
  \/ \E amount \in Amounts : Deposit(p, amount)
  \/ RaiseDisputeCurrentState(p)
  \/ ForceClose(p)
  \/ AgreeToDispute(p)
  \/ \E additional \in Extensions : ExtendTimeout(p, additional)
  \/ WithdrawBeforeActive(p)
  \/ WithdrawTimeout(p)
  \/ \E r \in Address : SetRefereePackage(p, r)
  \/ DestroyTunnel(p)
  \/ Migrate(p)

\* Decisions that come from outside the two parties.
Decide == \E a, b \in Amounts :
            \/ \E s \in Address : ResolveDisputeExternal(s, a, b)
            \/ ResolveDisputeVerified(a, b)

Settle(h) == \E s \in Address : ExpireHtlc(s, h) \/ \E pre \in Hash : ClaimHtlc(s, h, pre)

Next ==
  \/ Open
  \/ \E m \in Messages : Submit(m)
  \/ \E p \in Party : Call(p)
  \/ Decide
  \/ \E h \in Hash : Settle(h)
  \/ \E p \in Party, m \in Messages : Sign(p, m)
  \/ Tick
  \/ Upgrade

Spec == Init /\ [][Next]_vars

-----------------------------------------------------------------------------
\* Properties.

\* The fields hold values of their types; in particular no subtraction of the
\* contract takes a balance, a deposit or a wallet below zero.  (That the HTLC
\* counters do not underflow either is part of HtlcCounters.)
TypeOK ==
  /\ tunnel \in Tunnels
  /\ state \in StateCommitment
  /\ htlcs \in [Hash -> TunnelHTLC \cup {NoHtlc}]
  /\ counter \in [Party -> [count : Int, total_locked : Int]]
  /\ wallet \in [Address -> Nat]
  /\ signed \subseteq Party \X Messages
  /\ now \in Nat
  /\ package \in Nat

\* No call creates or destroys coins: what the tunnel holds, what is locked in
\* HTLCs (by the per-party counters) and what the addresses own always adds up
\* to what the addresses owned before the tunnel was created.
Conservation ==
  tunnel.balance + counter[A].total_locked + counter[B].total_locked
    + wallet[A] + wallet[B] + wallet[Outside]
  = Coins[A] + Coins[B] + Coins[Outside]

\* The comment of lock_htlc_internal: party_a_balance + party_b_balance ==
\* tunnel.balance while the tunnel is ACTIVE or DISPUTED.  It is what keeps the
\* final assert_balance_split of force_close_after_timeout and agree_to_dispute
\* from ever aborting, so a recorded state can always be paid out; and however
\* the tunnel is closed, nothing stays behind.
BalanceSplit ==
  /\ tunnel.status \in {"ACTIVE", "DISPUTED"} =>
       state.bal[A] + state.bal[B] = tunnel.balance
  /\ tunnel.status \in {"CLOSED", "DESTROYED"} => tunnel.balance = 0

\* The dispute ratchet never locks a party out: in an ACTIVE tunnel the recorded
\* state is always one that raise_dispute_current_state accepts, and in a
\* DISPUTED one the recorded nonce is the one last disputed and the raiser, who
\* alone may force the close, is known.
DisputeRatchet ==
  /\ tunnel.status = "ACTIVE" =>
       /\ tunnel.last_disputed_nonce <= state.nonce
       /\ tunnel.dispute_raiser = None
       /\ tunnel.timeout_ms > 0
  /\ tunnel.status = "DISPUTED" =>
       /\ tunnel.last_disputed_nonce = state.nonce + 1
       /\ tunnel.dispute_raiser \in Party
       /\ tunnel.timeout_ms > 0

\* The checked nonces leave room for every `nonce + 1` the contract computes
\* (the settlement's final_nonce and the dispute high-water mark).
NonceRoom == state.nonce < U64Max /\ tunnel.last_disputed_nonce <= U64Max

\* maybe_activate leaves no half-funded middle state: while a tunnel is CREATED
\* at most one side has paid in and the balance is exactly that deposit, so a
\* withdrawal always empties the tunnel.
SingleDeposit ==
  tunnel.status = "CREATED" =>
    /\ tunnel.deposit[A] = 0 \/ tunnel.deposit[B] = 0
    /\ tunnel.balance = tunnel.deposit[A] + tunnel.deposit[B]

HtlcsOf(p) == {h \in Hash : htlcs[h].sender = p}
LockedIn(table, hs) == MapThenSumSet(LAMBDA h : table[h].amount, hs)

\* The per-party counters of update_party_htlc_counter agree with the HTLCs
\* that exist: neither subtraction underflows, and total_locked = 0 (what
\* destroy_tunnel asks for) means that none is left.
HtlcCounters ==
  \A p \in Party :
    /\ counter[p].count = Cardinality(HtlcsOf(p))
    /\ counter[p].total_locked = LockedIn(htlcs, HtlcsOf(p))

\* destroy_tunnel strands nothing: in a DESTROYED tunnel, where claims and
\* expiries abort, no HTLC is left.
NothingStranded == tunnel.status = "DESTROYED" => \A h \in Hash : ~Live(h)

\* While a dispute is open its force-close deadline does not move: neither an
\* extension nor any other call resets the clock.
DeadlineFixed ==
  [][tunnel.status = "DISPUTED" /\ tunnel'.status = "DISPUTED" => Deadline' = Deadline]_vars

\* The recorded nonce never goes back, and a tunnel that has been closed never
\* opens again.
Progress ==
  [][/\ state'.nonce >= state.nonce
     /\ tunnel.status \in {"CLOSED", "DESTROYED"} =>
          tunnel'.status \in {"CLOSED", "DESTROYED"}]_vars

\* The recorded state is one the parties stand behind: past nonce 0 it is a
\* message (less what its owner has since locked in HTLCs) that every party has
\* signed, except that the party who raised the dispute with it need not have.
StateAuthorised ==
  state.nonce > 0 =>
    \E m \in Messages :
      /\ m.kind = "update" /\ m.nonce = state.nonce
      /\ state.bal[A] <= m.a /\ state.bal[B] <= m.b
      /\ \A p \in Party : Verify(p, m) \/ p = tunnel.dispute_raiser

\* What party p has in the tunnel.
AtStake(p) ==
  \/ tunnel.status = "CREATED" /\ tunnel.deposit[p] > 0
  \/ tunnel.status \in {"ACTIVE", "DISPUTED"}

-----------------------------------------------------------------------------
\* Small instances: what the parties own and may sign.
Update(n, ts, a, b) ==
  [kind |-> "update", nonce |-> n, timestamp |-> ts, a |-> a, b |-> b]
Settlement(k, n, ts, a, b) ==
  [kind |-> k, final_nonce |-> n, timestamp |-> ts, a |-> a, b |-> b]
Htlc(h, amount, s, r, expiry) ==
  [kind |-> "htlc_lock", hash |-> h, amount |-> amount, sender |-> s,
   receiver |-> r, expiry_ms |-> expiry]

TwoEach == [x \in Address |-> IF x = Outside THEN 0 ELSE 2]
Funder == [x \in Address |-> IF x = Outside THEN 3 ELSE 0]

\* Disputes: successive states, one at the reserved nonce, one dated ahead.
DisputeMessages == {Update(1, 0, 0, 2), Update(2, 1, 2, 0), Update(3, 0, 1, 1),
                    Settlement("settlement_with_root", 2, 0, 1, 1)}
\* Payments: locks by both parties, one to a third address, a state, and the assignment
\* of a referee.
HtlcMessages == {Htlc("h1", 1, A, B, 2), Htlc("h2", 1, B, Outside, 1),
                 Htlc("h2", 1, A, Outside, 2), Update(1, 0, 1, 1),
                 [kind |-> "referee_assignment", referee |-> Outside]}
=============================================================================
