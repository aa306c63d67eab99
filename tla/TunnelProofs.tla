---------------------------- MODULE TunnelProofs ----------------------------
(***************************************************************************)
(* Theorems about Tunnel, for every set of messages, amounts, hashes and   *)
(* durations, and at the end about the watchtower that calls it.           *)
(***************************************************************************)
EXTENDS Watchtower, FiniteSetTheorems, WellFoundedInduction, TLAPS

\* Before activation there is no history: nothing recorded, nothing disputed,
\* and before creation nothing paid in.
Pristine ==
  /\ tunnel.status \in {"NONE", "CREATED"} =>
       /\ state.nonce = 0
       /\ tunnel.last_disputed_nonce = 0
       /\ tunnel.dispute_raiser = None
  /\ tunnel.status = "CREATED" => tunnel.timeout_ms > 0
  /\ tunnel.status = "NONE" =>
       tunnel.balance = 0 /\ tunnel.deposit[A] = 0 /\ tunnel.deposit[B] = 0

Safe == Pristine /\ SingleDeposit /\ BalanceSplit /\ DisputeRatchet

\* The inductive invariant.
IInv == TypeOK /\ Safe

-----------------------------------------------------------------------------
\* Types of what the messages carry.

LEMMA MessageTypes ==
  ASSUME NEW m \in Messages
  PROVE  /\ m.kind = "update" => m \in UpdateMsg
         /\ m.kind \in {"settlement", "settlement_with_root"} => m \in SettlementMsg
         /\ m.kind = "htlc_lock" => m \in HtlcMsg
         /\ m.kind = "referee_assignment" => m \in RefereeMsg
  BY MessageAssumption DEF UpdateMsg, SettlementMsg, HtlcMsg, RefereeMsg

\* Replacing the commitment by a signed update keeps its type.
LEMMA CommitType ==
  ASSUME NEW m \in UpdateMsg, now \in Nat, Commit(m)
  PROVE  state' \in StateCommitment
  BY DEF Commit, UpdateMsg, StateCommitment

-----------------------------------------------------------------------------
\* A close pays out exactly the balance and leaves none.
LEMMA CloseStep ==
  ASSUME IInv, NEW a \in Nat, NEW b \in Int, CloseAndPay(a, b)
  PROVE  IInv'
  <1>1. /\ tunnel \in Tunnels /\ state \in StateCommitment /\ wallet \in [Address -> Nat]
        /\ now \in Nat
    BY DEF IInv, TypeOK
  <1>2. b \in Nat /\ (tunnel.balance - a) - b = 0
    BY <1>1 DEF CloseAndPay, Split, Tunnels
  <1>a. tunnel' = [tunnel EXCEPT !.status = "CLOSED", !.last_activity = now, !.balance = 0]
    BY <1>1, <1>2 DEF CloseAndPay, Tunnels
  <1>3. tunnel' \in Tunnels
    BY <1>1, <1>a DEF Tunnels, Statuses
  <1>4. wallet' \in [Address -> Nat]
    BY <1>1, <1>2 DEF CloseAndPay, Address
  <1>5. TypeOK'
    BY <1>3, <1>4 DEF IInv, TypeOK, CloseAndPay
  <1>6. Safe'
    BY <1>1, <1>a, AddressAssumption DEF Safe, Party, CloseAndPay, Tunnels, Pristine, SingleDeposit, BalanceSplit,
       DisputeRatchet
  <1> QED BY <1>5, <1>6 DEF IInv

\* Recording a newer state of the right total, in an ACTIVE or DISPUTED tunnel.
LEMMA UpdateStep ==
  ASSUME IInv, NEW m \in Messages, UpdateState(m)
  PROVE  IInv'
  <1>1. /\ tunnel \in Tunnels /\ state \in StateCommitment /\ now \in Nat
        /\ m \in UpdateMsg
    BY MessageTypes DEF IInv, TypeOK, UpdateState
  <1>2. state' \in StateCommitment
    BY <1>1, CommitType DEF UpdateState
  <1>3. TypeOK'
    BY <1>1, <1>2 DEF IInv, TypeOK, UpdateState, Tunnels
  <1>4. Safe'
    BY <1>1, AddressAssumption DEF IInv, Safe, Party, UpdateState, Commit, InStatus, Tunnels, StateCommitment,
       UpdateMsg, NewerNonce, Split, Pristine, SingleDeposit, BalanceSplit, DisputeRatchet
  <1> QED BY <1>3, <1>4 DEF IInv

LEMMA RaiseStep ==
  ASSUME IInv, NEW p \in Party, NEW m \in Messages, RaiseDispute(p, m)
  PROVE  IInv'
  <1>1. /\ tunnel \in Tunnels /\ state \in StateCommitment /\ now \in Nat
        /\ m \in UpdateMsg
    BY MessageTypes DEF IInv, TypeOK, RaiseDispute
  <1>2. state' \in StateCommitment
    BY <1>1, CommitType DEF RaiseDispute
  <1>3a. m.nonce + 1 \in Nat
    BY <1>1 DEF UpdateMsg
  <1>3b. tunnel' \in Tunnels
    BY <1>1, <1>3a DEF RaiseDispute, Tunnels, Statuses
  <1>3. TypeOK'
    BY <1>1, <1>2, <1>3b DEF IInv, TypeOK, RaiseDispute
  <1>4. Safe'
    BY <1>1, AddressAssumption DEF IInv, Safe, Party, RaiseDispute, Commit, InStatus, Tunnels, StateCommitment,
       UpdateMsg, NewerNonce, Split, Pristine, SingleDeposit, BalanceSplit, DisputeRatchet
  <1> QED BY <1>3, <1>4 DEF IInv

LEMMA ResolveStep ==
  ASSUME IInv, NEW m \in Messages, ResolveDispute(m)
  PROVE  IInv'
  <1>1. /\ tunnel \in Tunnels /\ state \in StateCommitment /\ now \in Nat
        /\ m \in UpdateMsg
    BY MessageTypes DEF IInv, TypeOK, ResolveDispute
  <1>2. state' \in StateCommitment
    BY <1>1, CommitType DEF ResolveDispute
  <1>3. TypeOK'
    BY <1>1, <1>2 DEF IInv, TypeOK, ResolveDispute, Tunnels, Statuses
  <1>4. Safe'
    BY <1>1, AddressAssumption DEF IInv, Safe, Party, ResolveDispute, Commit, InStatus, Tunnels, StateCommitment,
       UpdateMsg, NewerNonce, Split, Pristine, SingleDeposit, BalanceSplit, DisputeRatchet
  <1> QED BY <1>3, <1>4 DEF IInv

LEMMA RaiseCurrentStep ==
  ASSUME IInv, NEW p \in Party, RaiseDisputeCurrentState(p)
  PROVE  IInv'
  <1>1. tunnel \in Tunnels /\ state \in StateCommitment /\ now \in Nat
    BY DEF IInv, TypeOK
  <1>2. state' \in StateCommitment
    BY <1>1 DEF RaiseDisputeCurrentState, StateCommitment
  <1>3. tunnel' \in Tunnels
    <2>1. state.nonce + 1 \in Nat
      BY <1>1 DEF StateCommitment
    <2> QED BY <1>1, <2>1 DEF RaiseDisputeCurrentState, Tunnels, Statuses
  <1>4. TypeOK'
    BY <1>2, <1>3 DEF IInv, TypeOK, RaiseDisputeCurrentState
  <1>5. Safe'
    BY <1>1, AddressAssumption DEF IInv, Safe, Party, RaiseDisputeCurrentState, InStatus,
       Tunnels, StateCommitment, Pristine, SingleDeposit, BalanceSplit, DisputeRatchet
  <1> QED BY <1>4, <1>5 DEF IInv

\* The penalty is capped, so the two shares are balances that add up.
LEMMA ForceCloseStep ==
  ASSUME IInv, NEW p \in Party, ForceClose(p)
  PROVE  IInv'
  <1> DEFINE penalty == ActualPenalty(p)
             share(q) == IF q = p THEN state.bal[q] + penalty ELSE state.bal[q] - penalty
  <1>1. tunnel \in Tunnels /\ state \in StateCommitment
    BY DEF IInv, TypeOK
  <1>2. penalty \in Nat /\ penalty <= state.bal[Other(p)]
    BY <1>1 DEF ActualPenalty, Other, Party, Tunnels, StateCommitment
  <1>3. share(A) \in Nat /\ share(B) \in Int
    BY <1>1, <1>2, AddressAssumption DEF Other, Party, StateCommitment
  <1>4. CloseAndPay(share(A), share(B))
    BY DEF ForceClose
  <1> HIDE DEF share
  <1> QED BY <1>3, <1>4, CloseStep

LEMMA CloseCooperativeStep ==
  ASSUME IInv, NEW m \in Messages, CloseCooperative(m)
  PROVE  IInv'
  <1>1. m \in SettlementMsg
    BY MessageTypes DEF CloseCooperative
  <1>2. m.a \in Nat /\ m.b \in Int
    BY <1>1 DEF SettlementMsg
  <1> QED BY <1>2, CloseStep DEF CloseCooperative

LEMMA AgreeStep ==
  ASSUME IInv, NEW p \in Party, AgreeToDispute(p)
  PROVE  IInv'
  <1>1. state.bal[A] \in Nat /\ state.bal[B] \in Int
    BY DEF IInv, TypeOK, StateCommitment, Party
  <1> QED BY <1>1, CloseStep DEF AgreeToDispute

LEMMA DecideStep ==
  ASSUME IInv, Decide
  PROVE  IInv'
  <1>1. PICK a \in Amounts, b \in Amounts : CloseAndPay(a, b)
    BY DEF Decide, ResolveDisputeExternal, ResolveDisputeVerified
  <1>2. a \in Nat /\ b \in Int
    BY CoinAssumption
  <1> QED BY <1>1, <1>2, CloseStep

LEMMA ExtendStep ==
  ASSUME IInv, NEW p \in Party, NEW d \in Extensions, ExtendTimeout(p, d)
  PROVE  IInv'
  <1>1. tunnel \in Tunnels /\ state \in StateCommitment /\ now \in Nat /\ d \in Nat
    BY TimeAssumption DEF IInv, TypeOK
  <1>2. tunnel' \in Tunnels
    <2>1. tunnel.timeout_ms + d \in Nat
      BY <1>1 DEF Tunnels
    <2> QED BY <1>1, <2>1 DEF ExtendTimeout, Tunnels
  <1>3. TypeOK'
    BY <1>2 DEF IInv, TypeOK, ExtendTimeout
  <1>4. Safe'
    BY <1>1 DEF IInv, Safe, ExtendTimeout, CanExtend, InStatus, Tunnels,
       Pristine, SingleDeposit, BalanceSplit, DisputeRatchet
  <1> QED BY <1>3, <1>4 DEF IInv

LEMMA OpenStep ==
  ASSUME IInv, Open
  PROVE  IInv'
  <1>1. /\ tunnel \in Tunnels /\ state \in StateCommitment /\ now \in Nat
        /\ wallet \in [Address -> Nat] /\ package \in Nat
    BY DEF IInv, TypeOK
  <1>2. PICK timeout \in Timeouts, penalty \in Penalties :
          \/ Create(timeout, penalty)
          \/ \E funder \in Address, a, b \in Amounts :
               CreateAndFund(funder, a, b, timeout, penalty)
    BY DEF Open
  <1>3. timeout \in Nat /\ penalty \in Nat
    BY TimeAssumption
  <1>4. Fresh(timeout, penalty) \in Tunnels
    BY <1>1, <1>3 DEF Fresh, Tunnels, Statuses
  <1>5. CASE Create(timeout, penalty)
    <2>1. TypeOK'
      BY <1>1, <1>4, <1>5 DEF IInv, TypeOK, Create, StateCommitment
    <2>2. Pristine' /\ SingleDeposit'
      BY <1>1, <1>3, <1>5 DEF IInv, Safe, Create, Fresh, Tunnels, StateCommitment,
         Pristine, SingleDeposit
    <2>3. BalanceSplit' /\ DisputeRatchet'
      BY <1>1, <1>3, <1>5 DEF Create, Fresh, Tunnels, BalanceSplit, DisputeRatchet
    <2> QED BY <2>1, <2>2, <2>3 DEF IInv, Safe
  <1>6. ASSUME NEW funder \in Address, NEW a \in Amounts, NEW b \in Amounts,
               CreateAndFund(funder, a, b, timeout, penalty)
        PROVE  IInv'
    <2>1. a \in Nat /\ b \in Nat /\ a + b \in Nat
      BY CoinAssumption
    <2> DEFINE d == [p \in Party |-> IF p = A THEN a ELSE b]
    <2>2. d \in [Party -> Nat] /\ d[A] = a /\ d[B] = b
      BY <2>1, AddressAssumption DEF Party
    <2>3. /\ tunnel' = [Fresh(timeout, penalty) EXCEPT !.status = "ACTIVE",
                          !.balance = a + b, !.deposit = d]
          /\ state' = [state EXCEPT !.timestamp = now, !.bal = d]
      BY <1>6 DEF CreateAndFund
    <2> HIDE DEF d
    <2>4. tunnel' \in Tunnels /\ state' \in StateCommitment
      BY <1>1, <1>4, <2>1, <2>2, <2>3 DEF Tunnels, StateCommitment, Statuses
    <2>5. wallet' \in [Address -> Nat]
      <3>1. (wallet[funder] - a) - b \in Nat
        BY <1>1, <1>6, <2>1 DEF CreateAndFund
      <3> QED BY <1>1, <1>6, <3>1 DEF CreateAndFund
    <2>6. TypeOK'
      BY <1>6, <2>4, <2>5 DEF IInv, TypeOK, CreateAndFund
    <2>7. Safe'
      <3>1. /\ tunnel'.status = "ACTIVE" /\ tunnel'.balance = a + b
            /\ state'.bal = d /\ state'.nonce = state.nonce
        BY <1>1, <1>4, <2>3 DEF Tunnels, StateCommitment
      <3>2. /\ tunnel'.last_disputed_nonce = tunnel.last_disputed_nonce
            /\ tunnel'.dispute_raiser = tunnel.dispute_raiser
            /\ tunnel'.timeout_ms = timeout
        BY <1>1, <2>3 DEF Fresh, Tunnels
      <3> QED BY <1>6, <2>1, <2>2, <3>1, <3>2, <1>3 DEF IInv, Safe, CreateAndFund, Pristine,
                 SingleDeposit, BalanceSplit, DisputeRatchet
    <2> QED BY <2>6, <2>7 DEF IInv
  <1> QED BY <1>2, <1>5, <1>6

LEMMA DepositStep ==
  ASSUME IInv, NEW p \in Party, NEW amount \in Amounts, Deposit(p, amount)
  PROVE  IInv'
  <1> USE AddressAssumption
  <1>1. /\ tunnel \in Tunnels /\ state \in StateCommitment /\ now \in Nat
        /\ wallet \in [Address -> Nat] /\ amount \in Nat
    BY CoinAssumption DEF IInv, TypeOK
  <1>2. tunnel' \in Tunnels
    <2>1. /\ tunnel.balance + amount \in Nat
          /\ [tunnel.deposit EXCEPT ![p] = @ + amount] \in [Party -> Nat]
      BY <1>1 DEF Tunnels
    <2> QED BY <1>1, <2>1 DEF Deposit, Tunnels, Statuses
  <1>3. state' \in StateCommitment
    BY <1>1 DEF Deposit, FirstState, Tunnels, StateCommitment
  <1>4. wallet' \in [Address -> Nat]
    <2>1. p \in Address /\ wallet[p] - amount \in Nat
      BY <1>1 DEF Deposit, Party, Address
    <2> QED BY <1>1, <2>1 DEF Deposit
  <1>5. TypeOK'
    BY <1>2, <1>3, <1>4 DEF IInv, TypeOK, Deposit
  <1>6. Safe'
    BY <1>1 DEF IInv, Safe, Deposit, InStatus, Funded, FirstState, Tunnels,
       StateCommitment, Party, Pristine, SingleDeposit, BalanceSplit, DisputeRatchet
  <1> QED BY <1>5, <1>6 DEF IInv

LEMMA WithdrawStep ==
  ASSUME IInv, NEW p \in Party, InStatus({"CREATED"}), Withdraw(p)
  PROVE  IInv'
  <1> USE AddressAssumption
  <1>1. /\ tunnel \in Tunnels /\ state \in StateCommitment /\ now \in Nat
        /\ wallet \in [Address -> Nat]
    BY DEF IInv, TypeOK
  <1>2. tunnel.deposit[p] \in Nat /\ tunnel.balance - tunnel.deposit[p] = 0
    BY <1>1 DEF IInv, Safe, SingleDeposit, InStatus, Tunnels, Party, Withdraw
  <1>3. tunnel' = [tunnel EXCEPT !.deposit[p] = 0, !.balance = 0, !.last_activity = now,
                                 !.status = "CLOSED"]
    BY <1>1, <1>2 DEF Withdraw, Tunnels
  <1>4. tunnel' \in Tunnels
    BY <1>1, <1>3 DEF Tunnels, Statuses
  <1>5. wallet' \in [Address -> Nat]
    BY <1>1, <1>2 DEF Withdraw, Party, Address
  <1>6. TypeOK'
    BY <1>4, <1>5 DEF IInv, TypeOK, Withdraw
  <1>7. Safe'
    BY <1>1, <1>3 DEF Safe, Tunnels, Pristine, SingleDeposit, BalanceSplit, DisputeRatchet
  <1> QED BY <1>6, <1>7 DEF IInv

LEMMA LockStep ==
  ASSUME IInv, NEW m \in Messages, LockHtlc(m)
  PROVE  IInv'
  <1> USE AddressAssumption
  <1>1. /\ tunnel \in Tunnels /\ state \in StateCommitment /\ now \in Nat /\ m \in HtlcMsg
        /\ htlcs \in [Hash -> TunnelHTLC \cup {NoHtlc}]
        /\ counter \in [Party -> [count : Int, total_locked : Int]]
    BY MessageTypes DEF IInv, TypeOK, LockHtlc
  <1>2. /\ m.sender \in Party /\ m.amount \in Nat /\ m.hash \in Hash
        /\ m.amount <= state.bal[m.sender]
        /\ state.bal[A] + state.bal[B] = tunnel.balance
        /\ state.bal \in [Party -> Nat]
    BY <1>1 DEF HtlcMsg, LockHtlc, InStatus, IInv, Safe, BalanceSplit, StateCommitment
  <1>3. /\ tunnel.balance - m.amount \in Nat
        /\ state.bal[m.sender] - m.amount \in Nat
    BY <1>1, <1>2 DEF Party, Tunnels
  <1>4. tunnel' \in Tunnels /\ state' \in StateCommitment
    BY <1>1, <1>2, <1>3 DEF LockHtlc, Debited, Tunnels, StateCommitment
  <1>5. htlcs' \in [Hash -> TunnelHTLC \cup {NoHtlc}]
    BY <1>1, <1>2 DEF LockHtlc, HtlcMsg, TunnelHTLC
  <1>6. counter' \in [Party -> [count : Int, total_locked : Int]]
    BY <1>1, <1>2 DEF LockHtlc, Counted
  <1>7. TypeOK'
    BY <1>4, <1>5, <1>6 DEF IInv, TypeOK, LockHtlc
  <1>8. /\ state'.bal[A] + state'.bal[B] = tunnel'.balance
        /\ tunnel'.status = tunnel.status /\ state'.nonce = state.nonce
    BY <1>1, <1>2, <1>3 DEF LockHtlc, Debited, Party, Tunnels, StateCommitment
  <1>9. Safe'
    BY <1>1, <1>8 DEF IInv, Safe, LockHtlc, InStatus, Tunnels, Pristine, SingleDeposit,
       BalanceSplit, DisputeRatchet
  <1> QED BY <1>7, <1>9 DEF IInv

LEMMA SettleStep ==
  ASSUME IInv, NEW h \in Hash, Settle(h)
  PROVE  IInv'
  <1> USE AddressAssumption
  <1>1. PICK payee \in Address : ReleaseHtlc(h, payee) /\ Live(h)
    BY DEF Settle, ClaimHtlc, ExpireHtlc
  <1>2. /\ tunnel \in Tunnels /\ state \in StateCommitment /\ now \in Nat
        /\ htlcs \in [Hash -> TunnelHTLC \cup {NoHtlc}]
        /\ counter \in [Party -> [count : Int, total_locked : Int]]
        /\ wallet \in [Address -> Nat]
    BY DEF IInv, TypeOK
  <1>3. htlcs[h] \in TunnelHTLC
    BY <1>1, <1>2 DEF Live
  <1>4. htlcs[h].sender \in Party /\ htlcs[h].amount \in Nat
    BY <1>3 DEF TunnelHTLC
  <1>5. tunnel' \in Tunnels
    BY <1>1, <1>2 DEF ReleaseHtlc, Tunnels
  <1>6. htlcs' \in [Hash -> TunnelHTLC \cup {NoHtlc}]
    BY <1>1, <1>2 DEF ReleaseHtlc
  <1>7. counter' \in [Party -> [count : Int, total_locked : Int]]
    BY <1>1, <1>2, <1>4 DEF ReleaseHtlc, Counted
  <1>8. wallet' \in [Address -> Nat]
    BY <1>1, <1>2, <1>4 DEF ReleaseHtlc
  <1>9. TypeOK'
    BY <1>1, <1>5, <1>6, <1>7, <1>8 DEF IInv, TypeOK, ReleaseHtlc
  <1>10. Safe'
    BY <1>1, <1>2 DEF IInv, Safe, ReleaseHtlc, Tunnels, Pristine, SingleDeposit,
       BalanceSplit, DisputeRatchet
  <1> QED BY <1>9, <1>10 DEF IInv

\* Calls that change one field no part of Safe reads, or only the status.
LEMMA RefereeStep ==
  ASSUME IInv, NEW r \in Address, tunnel' = [tunnel EXCEPT !.referee = r],
         UNCHANGED <<state, htlcs, counter, wallet, signed, now, package>>
  PROVE  IInv'
  <1>1. tunnel \in Tunnels
    BY DEF IInv, TypeOK
  <1>2. TypeOK'
    BY <1>1 DEF IInv, TypeOK, Tunnels
  <1>3. Safe'
    BY <1>1 DEF IInv, Safe, Tunnels, Pristine, SingleDeposit, BalanceSplit, DisputeRatchet
  <1> QED BY <1>2, <1>3 DEF IInv

LEMMA DestroyStep ==
  ASSUME IInv, NEW p \in Party, DestroyTunnel(p)
  PROVE  IInv'
  <1>1. tunnel \in Tunnels
    BY DEF IInv, TypeOK
  <1>2. TypeOK'
    BY <1>1 DEF IInv, TypeOK, Tunnels, Statuses, DestroyTunnel
  <1>3. Safe'
    BY <1>1 DEF IInv, Safe, DestroyTunnel, Tunnels, Pristine, SingleDeposit, BalanceSplit,
       DisputeRatchet
  <1> QED BY <1>2, <1>3 DEF IInv

LEMMA MigrateStep ==
  ASSUME IInv, NEW p \in Party, Migrate(p)
  PROVE  IInv'
  <1>1. tunnel \in Tunnels /\ package \in Nat
    BY DEF IInv, TypeOK
  <1>2. TypeOK'
    BY <1>1 DEF IInv, TypeOK, Tunnels, Migrate
  <1>3. Safe'
    BY <1>1 DEF IInv, Safe, Migrate, Tunnels, Pristine, SingleDeposit, BalanceSplit,
       DisputeRatchet
  <1> QED BY <1>2, <1>3 DEF IInv

LEMMA EnvironmentStep ==
  ASSUME IInv, \/ \E p \in Party, m \in Messages : Sign(p, m)
               \/ Tick \/ Upgrade \/ UNCHANGED vars
  PROVE  IInv'
  <1>1. UNCHANGED <<tunnel, state, htlcs, counter, wallet>>
    BY DEF Sign, Tick, Upgrade, vars
  <1>2. signed' \subseteq Party \X Messages
    <2>1. CASE \E p \in Party, m \in Messages : Sign(p, m)
      <3>1. PICK p \in Party, m \in Messages : Sign(p, m)
        BY <2>1
      <3>2. signed' = signed \cup {<<p, m>>}
        BY <3>1 DEF Sign
      <3> QED BY <3>2 DEF IInv, TypeOK
    <2>2. CASE signed' = signed
      BY <2>2 DEF IInv, TypeOK
    <2> QED BY <2>1, <2>2 DEF Tick, Upgrade, vars
  <1>3. now' \in Nat /\ package' \in Nat
    <2>1. /\ now' = now \/ now' = now + 1
          /\ package' = package \/ package' = package + 1
      BY DEF Sign, Tick, Upgrade, vars
    <2> QED BY <2>1 DEF IInv, TypeOK
  <1>4. TypeOK'
    BY <1>1, <1>2, <1>3 DEF IInv, TypeOK
  <1>5. Safe'
    BY <1>1 DEF IInv, Safe, Pristine, SingleDeposit, BalanceSplit, DisputeRatchet
  <1> QED BY <1>4, <1>5 DEF IInv

LEMMA InitIInv == Init => IInv
  <1> USE AddressAssumption DEF Init
  <1>1. ASSUME Init PROVE TypeOK
    BY <1>1, CoinAssumption DEF TypeOK, Tunnels, StateCommitment, Statuses
  <1>2. ASSUME Init PROVE Safe
    BY <1>2 DEF Safe, Pristine, SingleDeposit, BalanceSplit, DisputeRatchet, Party
  <1> QED BY <1>1, <1>2 DEF IInv

LEMMA NextIInv == IInv /\ [Next]_vars => IInv'
  <1> SUFFICES ASSUME IInv, [Next]_vars PROVE IInv'
    OBVIOUS
  <1>1. ASSUME NEW m \in Messages, Submit(m) PROVE IInv'
    <2>1. CASE SetReferee(m)
      BY <2>1, MessageTypes, RefereeStep DEF SetReferee, RefereeMsg
    <2> QED BY <1>1, <2>1, UpdateStep, CloseCooperativeStep, RaiseStep, ResolveStep, LockStep
               DEF Submit
  <1>2. ASSUME NEW p \in Party, Call(p) PROVE IInv'
    <2>1. CASE \E r \in Address : SetRefereePackage(p, r)
      BY <2>1, RefereeStep DEF SetRefereePackage
    <2>2. CASE WithdrawBeforeActive(p) \/ WithdrawTimeout(p)
      BY <2>2, WithdrawStep DEF WithdrawBeforeActive, WithdrawTimeout
    <2> QED BY <1>2, <2>1, <2>2, DepositStep, RaiseCurrentStep, ForceCloseStep, AgreeStep,
               ExtendStep, DestroyStep, MigrateStep DEF Call
  <1> QED BY <1>1, <1>2, OpenStep, DecideStep, SettleStep, EnvironmentStep DEF Next

\* In every reachable state the fields keep their types: no balance, deposit or
\* wallet goes below zero.
THEOREM TypesHold == Spec => []TypeOK
  BY InitIInv, NextIInv, PTL DEF Spec, IInv

\* The recorded split can always be paid out of the balance to the last coin,
\* and a closed tunnel holds nothing.
THEOREM BalanceSplitHolds == Spec => []BalanceSplit
  BY InitIInv, NextIInv, PTL DEF Spec, IInv, Safe

\* The dispute ratchet leaves every ACTIVE tunnel disputable and every DISPUTED
\* one with a raiser who can close it.
THEOREM DisputeRatchetHolds == Spec => []DisputeRatchet
  BY InitIInv, NextIInv, PTL DEF Spec, IInv, Safe

\* A CREATED tunnel holds at most one deposit, which a withdrawal returns whole.
THEOREM SingleDepositHolds == Spec => []SingleDeposit
  BY InitIInv, NextIInv, PTL DEF Spec, IInv, Safe

-----------------------------------------------------------------------------
\* What one step may do to the nonces, to the status and to the dispute clock.
StepBound ==
  /\ NonceRoom'
  /\ state'.nonce >= state.nonce
  /\ tunnel.status \in {"CLOSED", "DESTROYED"} =>
       tunnel'.status \in {"CLOSED", "DESTROYED"}
  /\ tunnel.status = "DISPUTED" /\ tunnel'.status = "DISPUTED" => Deadline' = Deadline

LEMMA NextStepBound ==
  ASSUME IInv, NonceRoom, [Next]_vars
  PROVE  StepBound
  <1>1. /\ tunnel \in Tunnels /\ state \in StateCommitment /\ now \in Nat /\ U64Max \in Nat
        /\ state.nonce \in Nat /\ tunnel.last_disputed_nonce \in Nat
    BY U64Assumption DEF IInv, TypeOK, Tunnels, StateCommitment
  <1> USE <1>1 DEF StepBound, NonceRoom, Deadline
  \* Calls that leave the nonces, the dispute and the timeout alone.
  <1>2. ASSUME state'.nonce = state.nonce, state'.timestamp = state.timestamp,
               tunnel'.last_disputed_nonce = tunnel.last_disputed_nonce,
               tunnel'.timeout_ms = tunnel.timeout_ms,
               \/ tunnel'.status = tunnel.status
               \/ tunnel'.status \in {"CLOSED", "DESTROYED"}
               \/ tunnel.status = "CREATED"
        PROVE  StepBound
    BY <1>2
  <1>3. ASSUME NEW a, NEW b, CloseAndPay(a, b) PROVE StepBound
    BY <1>2, <1>3 DEF CloseAndPay, Tunnels
  <1>4. ASSUME NEW m \in UpdateMsg, NewerNonce(m.nonce), Commit(m),
               tunnel.status \in {"ACTIVE", "DISPUTED"},
               \/ tunnel'.last_disputed_nonce = tunnel.last_disputed_nonce
               \/ tunnel'.last_disputed_nonce = m.nonce + 1,
               tunnel'.status = "DISPUTED" => tunnel.status = "ACTIVE"
        PROVE  StepBound
    BY <1>4 DEF NewerNonce, Commit, UpdateMsg
  <1>5. ASSUME Open PROVE StepBound
    <2>1. /\ tunnel.status = "NONE" /\ state'.nonce = state.nonce
          /\ tunnel'.last_disputed_nonce = tunnel.last_disputed_nonce
      <3>1. CASE \E timeout \in Timeouts, penalty \in Penalties : Create(timeout, penalty)
        BY <3>1 DEF Create, Fresh, Tunnels, StateCommitment
      <3>2. CASE \E timeout \in Timeouts, penalty \in Penalties,
                    funder \in Address, a, b \in Amounts :
                      CreateAndFund(funder, a, b, timeout, penalty)
        BY <3>2 DEF CreateAndFund, Fresh, Tunnels, StateCommitment
      <3> QED BY <1>5, <3>1, <3>2 DEF Open
    <2> QED BY <2>1
  <1>6. ASSUME NEW m \in Messages, Submit(m) PROVE StepBound
    <2>1. CASE UpdateState(m)
      BY <1>4, <2>1, MessageTypes DEF UpdateState, InStatus, Tunnels
    <2>2. CASE CloseCooperative(m)
      BY <1>3, <2>2 DEF CloseCooperative
    <2>3. CASE \E p \in Party : RaiseDispute(p, m)
      BY <1>4, <2>3, MessageTypes DEF RaiseDispute, InStatus, Tunnels
    <2>4. CASE ResolveDispute(m)
      BY <1>4, <2>4, MessageTypes DEF ResolveDispute, InStatus, Tunnels
    <2>5. CASE LockHtlc(m)
      BY <1>2, <2>5 DEF LockHtlc, Debited, Tunnels, StateCommitment
    <2>6. CASE SetReferee(m)
      BY <1>2, <2>6 DEF SetReferee, Tunnels
    <2> QED BY <1>6, <2>1, <2>2, <2>3, <2>4, <2>5, <2>6 DEF Submit
  <1>7. ASSUME NEW p \in Party, Call(p) PROVE StepBound
    <2>1. CASE \E amount \in Amounts : Deposit(p, amount)
      BY <1>2, <2>1 DEF Deposit, FirstState, InStatus, Tunnels, StateCommitment
    <2>2. CASE RaiseDisputeCurrentState(p)
      BY <2>2 DEF RaiseDisputeCurrentState, InStatus, Tunnels, StateCommitment
    <2>3. CASE ForceClose(p) \/ AgreeToDispute(p)
      BY <1>3, <2>3 DEF ForceClose, AgreeToDispute
    <2>4. CASE \E additional \in Extensions : ExtendTimeout(p, additional)
      BY <2>4 DEF ExtendTimeout, CanExtend, InStatus, Tunnels
    <2>5. CASE WithdrawBeforeActive(p) \/ WithdrawTimeout(p)
      BY <1>2, <2>5 DEF WithdrawBeforeActive, WithdrawTimeout, Withdraw, InStatus, Tunnels
    <2>6. CASE \E r \in Address : SetRefereePackage(p, r)
      BY <1>2, <2>6 DEF SetRefereePackage, Tunnels
    <2>7. CASE DestroyTunnel(p) \/ Migrate(p)
      BY <1>2, <2>7 DEF DestroyTunnel, Migrate, Tunnels
    <2> QED BY <1>7, <2>1, <2>2, <2>3, <2>4, <2>5, <2>6, <2>7 DEF Call
  <1>8. ASSUME Decide PROVE StepBound
    BY <1>3, <1>8 DEF Decide, ResolveDisputeExternal, ResolveDisputeVerified
  <1>9. ASSUME NEW h \in Hash, Settle(h) PROVE StepBound
    <2>1. \E s \in Address : ReleaseHtlc(h, s)
      BY <1>9 DEF Settle, ClaimHtlc, ExpireHtlc
    <2> QED BY <1>2, <2>1 DEF ReleaseHtlc, Tunnels
  <1>10. ASSUME UNCHANGED <<tunnel, state>> PROVE StepBound
    BY <1>2, <1>10
  <1> QED BY <1>5, <1>6, <1>7, <1>8, <1>9, <1>10 DEF Next, Sign, Tick, Upgrade, vars

\* The nonce checks of update_state, raise_dispute and resolve_dispute leave
\* room for every `nonce + 1`, whatever the messages.
THEOREM NonceRoomHolds == Spec => []NonceRoom
  <1>1. Init => NonceRoom
    BY U64Assumption DEF Init, NonceRoom
  <1>2. IInv /\ NonceRoom /\ [Next]_vars => NonceRoom'
    BY NextStepBound DEF StepBound
  <1> QED BY <1>1, <1>2, InitIInv, NextIInv, PTL DEF Spec

\* The recorded nonce never goes back and a closed tunnel stays closed.
THEOREM ProgressHolds == Spec => Progress
  <1>1. IInv /\ NonceRoom /\ [Next]_vars =>
          [/\ state'.nonce >= state.nonce
           /\ tunnel.status \in {"CLOSED", "DESTROYED"} =>
                tunnel'.status \in {"CLOSED", "DESTROYED"}]_vars
    BY NextStepBound DEF StepBound
  <1> QED BY <1>1, NonceRoomHolds, InitIInv, NextIInv, PTL DEF Spec, Progress

\* No call moves the force-close deadline of an open dispute.
THEOREM DeadlineFixedHolds == Spec => DeadlineFixed
  <1>1. IInv /\ NonceRoom /\ [Next]_vars =>
          [tunnel.status = "DISPUTED" /\ tunnel'.status = "DISPUTED" =>
             Deadline' = Deadline]_vars
    BY NextStepBound DEF StepBound
  <1> QED BY <1>1, NonceRoomHolds, InitIInv, NextIInv, PTL DEF Spec, DeadlineFixed

-----------------------------------------------------------------------------
\* Conservation, one transfer at a time.

LEMMA NextConservation ==
  ASSUME IInv, Conservation, [Next]_vars
  PROVE  Conservation'
  <1>1. /\ tunnel \in Tunnels /\ state \in StateCommitment
        /\ wallet \in [Address -> Nat] /\ tunnel.balance \in Nat
        /\ htlcs \in [Hash -> TunnelHTLC \cup {NoHtlc}]
        /\ counter \in [Party -> [count : Int, total_locked : Int]]
        /\ counter[A].total_locked \in Int /\ counter[B].total_locked \in Int
        /\ wallet[A] \in Nat /\ wallet[B] \in Nat /\ wallet[Outside] \in Nat
        /\ Coins[A] \in Nat /\ Coins[B] \in Nat /\ Coins[Outside] \in Nat
    BY CoinAssumption DEF IInv, TypeOK, Tunnels, Party, Address
  <1> USE <1>1, AddressAssumption
  \* Coins move between an address and the balance, ...
  <1>2. ASSUME NEW s \in Address, NEW x \in Int, counter' = counter,
               tunnel'.balance = tunnel.balance + x,
               wallet' = [wallet EXCEPT ![s] = @ - x]
        PROVE  Conservation'
    BY <1>2 DEF Conservation, Address
  \* ... are not touched, ...
  <1>3. ASSUME UNCHANGED <<counter, wallet>>, tunnel'.balance = tunnel.balance
        PROVE  Conservation'
    BY <1>3 DEF Conservation
  \* ... or the balance is paid out to the two parties.
  <1>4. ASSUME NEW a, NEW b, CloseAndPay(a, b), a \in Nat
        PROVE  Conservation'
    <2>1. b \in Nat /\ tunnel'.balance = 0 /\ tunnel.balance = a + b
      BY <1>4 DEF CloseAndPay, Split, Tunnels
    <2>2. /\ wallet'[A] = wallet[A] + a /\ wallet'[B] = wallet[B] + b
          /\ wallet'[Outside] = wallet[Outside] /\ counter' = counter
      BY <1>4, <2>1 DEF CloseAndPay, Address
    <2> QED BY <1>4, <2>1, <2>2 DEF Conservation
  <1>5. ASSUME Open PROVE Conservation'
    <2>1. CASE \E timeout \in Timeouts, penalty \in Penalties : Create(timeout, penalty)
      BY <1>3, <2>1 DEF Create, Fresh, Tunnels
    <2>2. CASE \E timeout \in Timeouts, penalty \in Penalties,
                  funder \in Address, a, b \in Amounts :
                    CreateAndFund(funder, a, b, timeout, penalty)
      <3>1. PICK timeout \in Timeouts, penalty \in Penalties,
                 funder \in Address, a \in Amounts, b \in Amounts :
                   CreateAndFund(funder, a, b, timeout, penalty)
        BY <2>2
      <3>2. a \in Nat /\ b \in Nat /\ a + b \in Int
        BY CoinAssumption
      <3>3. /\ tunnel'.balance = tunnel.balance + (a + b) /\ counter' = counter
            /\ wallet' = [wallet EXCEPT ![funder] = @ - (a + b)]
        <4>1. tunnel.balance = 0 /\ tunnel'.balance = a + b /\ counter' = counter
          BY <3>1 DEF CreateAndFund, Fresh, Tunnels, IInv, Safe, Pristine
        <4>2. (wallet[funder] - a) - b = wallet[funder] - (a + b)
          BY <3>2
        <4>3. wallet' = [wallet EXCEPT ![funder] = (@ - a) - b]
          BY <3>1 DEF CreateAndFund
        <4>4. wallet' = [wallet EXCEPT ![funder] = @ - (a + b)]
          BY <4>2, <4>3
        <4>5. tunnel'.balance = tunnel.balance + (a + b)
          BY <3>2, <4>1
        <4> QED BY <4>1, <4>4, <4>5
      <3> QED BY <1>2, <3>2, <3>3
    <2> QED BY <1>5, <2>1, <2>2 DEF Open
  <1>6. ASSUME NEW m \in Messages, Submit(m) PROVE Conservation'
    <2>1. CASE UpdateState(m) \/ ResolveDispute(m) \/ (\E p \in Party : RaiseDispute(p, m))
               \/ SetReferee(m)
      BY <1>3, <2>1 DEF UpdateState, ResolveDispute, RaiseDispute, SetReferee, Tunnels
    <2>2. CASE CloseCooperative(m)
      BY <1>4, <2>2, MessageTypes DEF CloseCooperative, SettlementMsg
    <2>3. CASE LockHtlc(m)
      <3>1. m.sender \in Party /\ m.amount \in Nat
        BY <2>3, MessageTypes DEF LockHtlc, HtlcMsg
      <3>2. /\ tunnel'.balance = tunnel.balance - m.amount /\ wallet' = wallet
            /\ counter'[m.sender].total_locked = counter[m.sender].total_locked + m.amount
            /\ \A p \in Party \ {m.sender} : counter'[p] = counter[p]
        BY <2>3, <3>1 DEF LockHtlc, Counted, Tunnels
      <3> QED BY <3>1, <3>2 DEF Conservation, Party
    <2> QED BY <1>6, <2>1, <2>2, <2>3 DEF Submit
  <1>7. ASSUME NEW p \in Party, Call(p) PROVE Conservation'
    <2>0. p \in Address
      BY DEF Party, Address
    <2>1. CASE \E amount \in Amounts : Deposit(p, amount)
      <3>1. PICK amount \in Amounts : Deposit(p, amount)
        BY <2>1
      <3>2. amount \in Int
        BY CoinAssumption
      <3>3. /\ tunnel'.balance = tunnel.balance + amount /\ counter' = counter
            /\ wallet' = [wallet EXCEPT ![p] = @ - amount]
        BY <3>1 DEF Deposit, Tunnels
      <3> QED BY <1>2, <2>0, <3>2, <3>3
    <2>2. CASE RaiseDisputeCurrentState(p)
               \/ (\E additional \in Extensions : ExtendTimeout(p, additional))
               \/ (\E r \in Address : SetRefereePackage(p, r))
               \/ DestroyTunnel(p) \/ Migrate(p)
      BY <1>3, <2>2 DEF RaiseDisputeCurrentState, ExtendTimeout, SetRefereePackage,
         DestroyTunnel, Migrate, Tunnels
    <2>3. CASE ForceClose(p)
      <3>1. /\ state.bal[A] \in Nat /\ state.bal[B] \in Nat /\ tunnel.penalty_amount \in Nat
        BY DEF StateCommitment, Tunnels, Party
      <3>2. /\ ActualPenalty(p) \in Nat
            /\ p = A => ActualPenalty(p) <= state.bal[B]
            /\ p = B => ActualPenalty(p) <= state.bal[A]
        BY <3>1 DEF ActualPenalty, Other, Party
      <3> QED BY <1>4, <2>3, <3>1, <3>2 DEF ForceClose, Party
    <2>4. CASE AgreeToDispute(p)
      BY <1>4, <2>4 DEF AgreeToDispute, StateCommitment, Party
    <2>5. CASE WithdrawBeforeActive(p) \/ WithdrawTimeout(p)
      <3>1. tunnel.deposit[p] \in Nat
        BY DEF Tunnels
      <3>2. /\ tunnel'.balance = tunnel.balance + (0 - tunnel.deposit[p]) /\ counter' = counter
            /\ wallet' = [wallet EXCEPT ![p] = @ - (0 - tunnel.deposit[p])]
        <4>1. tunnel'.balance = tunnel.balance - tunnel.deposit[p] /\ counter' = counter
          BY <2>5 DEF WithdrawBeforeActive, WithdrawTimeout, Withdraw, Tunnels
        <4>2. wallet[p] + tunnel.deposit[p] = wallet[p] - (0 - tunnel.deposit[p])
          BY <2>0, <3>1
        <4>3. wallet' = [wallet EXCEPT ![p] = @ + tunnel.deposit[p]]
          BY <2>5 DEF WithdrawBeforeActive, WithdrawTimeout, Withdraw
        <4>4. wallet' = [wallet EXCEPT ![p] = @ - (0 - tunnel.deposit[p])]
          BY <4>2, <4>3
        <4>5. tunnel'.balance = tunnel.balance + (0 - tunnel.deposit[p])
          BY <3>1, <4>1
        <4> QED BY <4>1, <4>4, <4>5
      <3>3. 0 - tunnel.deposit[p] \in Int
        BY <3>1
      <3> QED BY <1>2, <2>0, <3>2, <3>3
    <2> QED BY <1>7, <2>1, <2>2, <2>3, <2>4, <2>5 DEF Call
  <1>8. ASSUME Decide PROVE Conservation'
    BY <1>4, <1>8, CoinAssumption DEF Decide, ResolveDisputeExternal, ResolveDisputeVerified
  <1>9. ASSUME NEW h \in Hash, Settle(h) PROVE Conservation'
    <2>1. PICK s \in Address : ReleaseHtlc(h, s) /\ Live(h)
      BY <1>9 DEF Settle, ClaimHtlc, ExpireHtlc
    <2>2. htlcs[h].sender \in Party /\ htlcs[h].amount \in Nat
      BY <2>1 DEF Live, TunnelHTLC
    <2>3. /\ tunnel'.balance = tunnel.balance
          /\ wallet' = [wallet EXCEPT ![s] = @ + htlcs[h].amount]
          /\ counter'[htlcs[h].sender].total_locked =
               counter[htlcs[h].sender].total_locked - htlcs[h].amount
          /\ \A p \in Party \ {htlcs[h].sender} : counter'[p] = counter[p]
      BY <2>1, <2>2 DEF ReleaseHtlc, Counted, Tunnels
    <2> QED BY <2>2, <2>3 DEF Conservation, Party, Address
  <1>10. ASSUME UNCHANGED <<tunnel, counter, wallet>> PROVE Conservation'
    BY <1>3, <1>10
  <1> QED BY <1>5, <1>6, <1>7, <1>8, <1>9, <1>10 DEF Next, Sign, Tick, Upgrade, vars

\* No call of the contract creates or destroys coins.
THEOREM ConservationHolds == Spec => []Conservation
  <1>1. Init => Conservation
    BY CoinAssumption, AddressAssumption DEF Init, Conservation, Party, Address
  <1> QED BY <1>1, NextConservation, InitIInv, NextIInv, PTL DEF Spec

-----------------------------------------------------------------------------
\* Who stands behind the recorded state.

LEMMA NextAuthorised ==
  ASSUME IInv, StateAuthorised, [Next]_vars
  PROVE  StateAuthorised'
  <1>1. /\ tunnel \in Tunnels /\ state \in StateCommitment
        /\ state.bal \in [Party -> Nat] /\ state.nonce \in Nat
    BY DEF IInv, TypeOK, StateCommitment
  <1> USE <1>1, AddressAssumption
  \* The authority for a state survives when signatures are added, balances
  \* shrink and the raiser is kept, or set where there was none.
  <1>2. ASSUME state'.nonce = state.nonce, signed \subseteq signed',
               state'.bal[A] <= state.bal[A], state'.bal[B] <= state.bal[B],
               state'.bal[A] \in Nat, state'.bal[B] \in Nat,
               \/ tunnel'.dispute_raiser = tunnel.dispute_raiser
               \/ tunnel.dispute_raiser = None
        PROVE  StateAuthorised'
    <2> SUFFICES ASSUME state.nonce > 0 PROVE StateAuthorised'
      BY <1>2 DEF StateAuthorised
    <2>1. PICK m \in Messages :
            /\ m.kind = "update" /\ m.nonce = state.nonce
            /\ state.bal[A] <= m.a /\ state.bal[B] <= m.b
            /\ \A p \in Party : Verify(p, m) \/ p = tunnel.dispute_raiser
      BY DEF StateAuthorised
    <2>2. m.a \in Nat /\ m.b \in Nat /\ state.bal[A] \in Nat /\ state.bal[B] \in Nat
      BY <2>1, MessageTypes DEF UpdateMsg, Party
    <2>3. state'.bal[A] <= m.a /\ state'.bal[B] <= m.b
      BY <1>2, <2>1, <2>2
    <2>4. \A p \in Party : <<p, m>> \in signed' \/ p = tunnel'.dispute_raiser
      BY <1>2, <2>1 DEF Verify, Party, Address
    <2> QED BY <1>2, <2>1, <2>3, <2>4 DEF StateAuthorised, Verify
  \* A message that is committed brings its own signatures.
  <1>3. ASSUME NEW m \in Messages, m.kind = "update", Commit(m), UNCHANGED signed,
               \A p \in Party : Verify(p, m) \/ p = tunnel'.dispute_raiser
        PROVE  StateAuthorised'
    <2>1. m.a \in Nat /\ m.b \in Nat
      BY <1>3, MessageTypes DEF UpdateMsg
    <2>2. state'.nonce = m.nonce /\ state'.bal[A] = m.a /\ state'.bal[B] = m.b
      BY <1>3 DEF Commit, Party
    <2> QED BY <1>3, <2>1, <2>2 DEF StateAuthorised, Verify
  <1>4. ASSUME state' = state, signed \subseteq signed',
               tunnel'.dispute_raiser = tunnel.dispute_raiser
        PROVE  StateAuthorised'
    BY <1>2, <1>4 DEF Party
  <1>5. ASSUME NEW a, NEW b, CloseAndPay(a, b) PROVE StateAuthorised'
    BY <1>4, <1>5 DEF CloseAndPay, Tunnels
  <1>6. ASSUME Open \/ (\E p \in Party, amount \in Amounts : Deposit(p, amount))
        PROVE  StateAuthorised'
    <2>1. state.nonce = 0 /\ state'.nonce = state.nonce
      <3>1. CASE \E timeout \in Timeouts, penalty \in Penalties : Create(timeout, penalty)
        BY <3>1 DEF Create, StateCommitment, IInv, Safe, Pristine
      <3>2. CASE \E timeout \in Timeouts, penalty \in Penalties,
                    funder \in Address, a, b \in Amounts :
                      CreateAndFund(funder, a, b, timeout, penalty)
        BY <3>2 DEF CreateAndFund, StateCommitment, IInv, Safe, Pristine
      <3>3. CASE \E p \in Party, amount \in Amounts : Deposit(p, amount)
        BY <3>3 DEF Deposit, FirstState, InStatus, StateCommitment, IInv, Safe, Pristine
      <3> QED BY <1>6, <3>1, <3>2, <3>3 DEF Open
    <2> QED BY <2>1 DEF StateAuthorised
  <1>7. ASSUME NEW m \in Messages, Submit(m) PROVE StateAuthorised'
    <2>1. CASE UpdateState(m) \/ ResolveDispute(m)
      BY <1>3, <2>1 DEF UpdateState, ResolveDispute, BothSigned, Party
    <2>2. CASE \E p \in Party : RaiseDispute(p, m)
      <3>1. PICK p \in Party : RaiseDispute(p, m)
        BY <2>2
      <3>2. tunnel'.dispute_raiser = p
        BY <3>1 DEF RaiseDispute, Tunnels
      <3> QED BY <1>3, <3>1, <3>2 DEF RaiseDispute, Other, Party
    <2>3. CASE CloseCooperative(m)
      BY <1>5, <2>3 DEF CloseCooperative
    <2>4. CASE LockHtlc(m)
      <3>1. m.sender \in Party /\ m.amount \in Nat /\ m.amount <= state.bal[m.sender]
        BY <2>4, MessageTypes DEF LockHtlc, HtlcMsg
      <3>2. /\ state'.nonce = state.nonce
            /\ state'.bal[A] \in {state.bal[A], state.bal[A] - m.amount}
            /\ state'.bal[B] \in {state.bal[B], state.bal[B] - m.amount}
            /\ m.sender = A => state'.bal[B] = state.bal[B]
            /\ m.sender = B => state'.bal[A] = state.bal[A]
        BY <2>4, <3>1 DEF LockHtlc, Debited, StateCommitment, Party
      <3>3. /\ state'.bal[A] <= state.bal[A] /\ state'.bal[B] <= state.bal[B]
            /\ state'.bal[A] \in Nat /\ state'.bal[B] \in Nat
        BY <3>1, <3>2 DEF Party
      <3>4. tunnel'.dispute_raiser = tunnel.dispute_raiser /\ signed' = signed
        BY <2>4 DEF LockHtlc, Tunnels
      <3> QED BY <1>2, <3>2, <3>3, <3>4
    <2>5. CASE SetReferee(m)
      BY <1>4, <2>5 DEF SetReferee, Tunnels
    <2> QED BY <1>7, <2>1, <2>2, <2>3, <2>4, <2>5 DEF Submit
  <1>8. ASSUME NEW p \in Party, Call(p) PROVE StateAuthorised'
    <2>1. CASE RaiseDisputeCurrentState(p)
      <3>1. tunnel.dispute_raiser = None
        BY <2>1 DEF RaiseDisputeCurrentState, InStatus, IInv, Safe, DisputeRatchet
      <3>2. state'.nonce = state.nonce /\ state'.bal = state.bal /\ signed' = signed
        BY <2>1 DEF RaiseDisputeCurrentState, StateCommitment
      <3> QED BY <1>2, <3>1, <3>2 DEF Party
    <2>2. CASE ForceClose(p) \/ AgreeToDispute(p)
      BY <1>5, <2>2 DEF ForceClose, AgreeToDispute
    <2>3. CASE \/ \E additional \in Extensions : ExtendTimeout(p, additional)
               \/ WithdrawBeforeActive(p) \/ WithdrawTimeout(p)
               \/ \E r \in Address : SetRefereePackage(p, r)
               \/ DestroyTunnel(p) \/ Migrate(p)
      BY <1>4, <2>3 DEF ExtendTimeout, WithdrawBeforeActive, WithdrawTimeout, Withdraw,
         SetRefereePackage, DestroyTunnel, Migrate, Tunnels
    <2> QED BY <1>6, <1>8, <2>1, <2>2, <2>3 DEF Call
  <1>9. ASSUME Decide PROVE StateAuthorised'
    BY <1>5, <1>9 DEF Decide, ResolveDisputeExternal, ResolveDisputeVerified
  <1>10. ASSUME NEW h \in Hash, Settle(h) PROVE StateAuthorised'
    <2>1. \E s \in Address : ReleaseHtlc(h, s)
      BY <1>10 DEF Settle, ClaimHtlc, ExpireHtlc
    <2> QED BY <1>4, <2>1 DEF ReleaseHtlc, Tunnels
  <1>11. ASSUME \/ \E p \in Party, m \in Messages : Sign(p, m)
                \/ Tick \/ Upgrade \/ UNCHANGED vars
         PROVE  StateAuthorised'
    <2>1. UNCHANGED <<tunnel, state>> /\ signed \subseteq signed'
      BY <1>11 DEF Sign, Tick, Upgrade, vars
    <2> QED BY <1>4, <2>1
  <1> QED BY <1>6, <1>7, <1>8, <1>9, <1>10, <1>11 DEF Next

\* Past nonce 0 the recorded state is one that every party has signed, except
\* the party who raised the open dispute with it.
THEOREM StateAuthorisedHolds == Spec => []StateAuthorised
  <1>1. Init => StateAuthorised
    BY DEF Init, StateAuthorised
  <1> QED BY <1>1, NextAuthorised, InitIInv, NextIInv, PTL DEF Spec

-----------------------------------------------------------------------------
\* What is locked in a set of HTLCs, as the sum it is.

\* A non-empty collection of subsets of a finite set has a minimal one.  This is the form
\* in which the lemmas below argue by induction: over the smallest counterexample.
LEMMA MinimalSubset ==
  ASSUME NEW S, IsFiniteSet(S), NEW Q \in SUBSET (SUBSET S), Q # {}
  PROVE  \E T \in Q : \A U \in Q : U \subseteq T => U = T
  <1>1. IsWellFoundedOn(StrictSubsetOrdering(S), SUBSET S)
    BY FS_StrictSubsetOrderingWellFounded, FS_FiniteSubsetsOfFinite
  <1>2. PICK T \in Q : \A U \in Q : ~(<<U, T>> \in StrictSubsetOrdering(S))
    BY <1>1, WFMin
  <1>3. \A U \in Q : U \subseteq T /\ U # T => <<U, T>> \in StrictSubsetOrdering(S)
    BY DEF StrictSubsetOrdering
  <1>4. \A U \in Q : U \subseteq T => U = T
    BY <1>2, <1>3
  <1> QED BY <1>4

\* Induction over the naturals, for a set.
LEMMA NaturalInduction ==
  ASSUME NEW G, 0 \in G, \A n \in Nat : n \in G => n + 1 \in G
  PROVE  Nat \subseteq G
  <1> DEFINE T == Nat \ G
  <1>1. SUFFICES ASSUME T # {} PROVE FALSE
    OBVIOUS
  <1>2. PICK x \in T : \A y \in T : ~(<<y, x>> \in OpToRel(<, Nat))
    <2>1. T \subseteq Nat
      OBVIOUS
    <2> HIDE DEF T
    <2> QED BY <1>1, <2>1, WFMin, NatLessThanWellFounded
  <1>3. x \in Nat /\ x # 0 /\ x - 1 \in Nat
    OBVIOUS
  <1>4. <<x - 1, x>> \in OpToRel(<, Nat)
    BY <1>3 DEF OpToRel
  <1>5. x - 1 \notin T
    BY <1>2, <1>4
  <1> QED BY <1>3, <1>5

\* The element the folds take next, and the tables that solve the fold's recursion: the
\* total of every subset of S.
Pick(s) == CHOOSE x \in s : TRUE
Totals(g, t, S) ==
  g = [s \in SUBSET S |-> IF s = {} THEN 0 ELSE t[Pick(s)].amount + g[s \ {Pick(s)}]]

\* LockedIn is the last entry of the table that its fold chooses.
LEMMA LockedIsTotal ==
  ASSUME NEW t, NEW S
  PROVE  LockedIn(t, S) = (CHOOSE g : Totals(g, t, S))[S]
  BY Zenon DEF LockedIn, MapThenSumSet, MapThenFoldSet, Totals, Pick

\* The element a fold takes next is one of the set.
LEMMA PickIn ==
  ASSUME NEW s, s # {}
  PROVE  Pick(s) \in s
  BY DEF Pick

\* There is a table of totals for every finite set: build it up by size.
LEMMA TotalsExist ==
  ASSUME NEW t, NEW S, IsFiniteSet(S)
  PROVE  \E g : Totals(g, t, S)
  <1> DEFINE Upto(g, k) ==
               g = [s \in SUBSET S |->
                      IF s = {} \/ Cardinality(s) > k THEN 0
                      ELSE t[Pick(s)].amount + g[s \ {Pick(s)}]]
             G == {k \in Nat : \E g : Upto(g, k)}
  <1>1. \A s \in SUBSET S : s # {} =>
          /\ Cardinality(s) \in Nat /\ Cardinality(s) > 0
          /\ s \ {Pick(s)} \in SUBSET S
          /\ Cardinality(s \ {Pick(s)}) = Cardinality(s) - 1
    <2> SUFFICES ASSUME NEW s \in SUBSET S, s # {}
                 PROVE  /\ Cardinality(s) \in Nat /\ Cardinality(s) > 0
                        /\ s \ {Pick(s)} \in SUBSET S
                        /\ Cardinality(s \ {Pick(s)}) = Cardinality(s) - 1
      OBVIOUS
    <2>1. IsFiniteSet(s)
      BY FS_Subset
    <2>2. Cardinality(s) \in Nat /\ Cardinality(s) # 0
      BY <2>1, FS_CardinalityType, FS_EmptySet
    <2>3. Cardinality(s \ {Pick(s)}) = Cardinality(s) - 1
      BY <2>1, PickIn, FS_RemoveElement
    <2> QED BY <2>2, <2>3
  <1>2. 0 \in G
    <2>1. Upto([s \in SUBSET S |-> 0], 0)
      BY <1>1
    <2> QED BY <2>1
  <1>3. ASSUME NEW k \in Nat, k \in G
        PROVE  k + 1 \in G
    <2>1. PICK g : Upto(g, k)
      BY <1>3
    <2> DEFINE h == [s \in SUBSET S |->
                       IF s = {} \/ Cardinality(s) > k + 1 THEN 0
                       ELSE t[Pick(s)].amount + g[s \ {Pick(s)}]]
    <2>2. ASSUME NEW r \in SUBSET S, r = {} \/ Cardinality(r) <= k
          PROVE  h[r] = g[r]
      <3>1. g[r] = IF r = {} \/ Cardinality(r) > k THEN 0
                   ELSE t[Pick(r)].amount + g[r \ {Pick(r)}]
        BY <2>1
      <3>2. r # {} => Cardinality(r) \in Nat
        BY <1>1
      <3> QED BY <2>2, <3>1, <3>2
    <2>3. h = [s \in SUBSET S |->
                 IF s = {} \/ Cardinality(s) > k + 1 THEN 0
                 ELSE t[Pick(s)].amount + g[s \ {Pick(s)}]]
      OBVIOUS
    <2> HIDE DEF h
    <2>4. \A s \in SUBSET S : s # {} /\ ~(Cardinality(s) > k + 1) =>
            h[s \ {Pick(s)}] = g[s \ {Pick(s)}]
      <3> SUFFICES ASSUME NEW s \in SUBSET S, s # {}, ~(Cardinality(s) > k + 1)
                   PROVE  h[s \ {Pick(s)}] = g[s \ {Pick(s)}]
        OBVIOUS
      <3>1. Cardinality(s \ {Pick(s)}) <= k /\ s \ {Pick(s)} \in SUBSET S
        BY <1>1
      <3> QED BY <2>2, <3>1
    <2>5. Upto(h, k + 1)
      BY <2>3, <2>4
    <2> HIDE DEF Upto
    <2> QED BY <2>5
  <1>4. Cardinality(S) \in Nat
    BY FS_CardinalityType
  <1>5. Cardinality(S) \in G
    <2> HIDE DEF G
    <2> QED BY <1>2, <1>3, <1>4, NaturalInduction
  <1>6. PICK g : Upto(g, Cardinality(S))
    BY <1>5
  <1>7. \A s \in SUBSET S : ~(Cardinality(s) > Cardinality(S))
    <2> SUFFICES ASSUME NEW s \in SUBSET S PROVE ~(Cardinality(s) > Cardinality(S))
      OBVIOUS
    <2>1. Cardinality(s) <= Cardinality(S) /\ IsFiniteSet(s)
      BY FS_Subset
    <2> QED BY <1>4, <2>1, FS_CardinalityType
  <1>8. Totals(g, t, S)
    BY <1>6, <1>7 DEF Totals
  <1> QED BY <1>8

\* Two tables of totals agree wherever both are defined.
LEMMA TotalsUnique ==
  ASSUME NEW t, NEW S, IsFiniteSet(S), NEW R \in SUBSET S, NEW g, NEW h,
         Totals(g, t, S), Totals(h, t, R)
  PROVE  \A r \in SUBSET R : g[r] = h[r]
  <1> DEFINE Q == {r \in SUBSET R : g[r] # h[r]}
  <1>1. SUFFICES ASSUME Q # {} PROVE FALSE
    OBVIOUS
  <1>2. IsFiniteSet(R)
    BY FS_Subset
  <1>3. PICK r \in Q : \A u \in Q : u \subseteq r => u = r
    <2>1. Q \in SUBSET (SUBSET R)
      OBVIOUS
    <2> HIDE DEF Q
    <2> QED BY <1>1, <1>2, <2>1, MinimalSubset
  <1>4. /\ g[r] = IF r = {} THEN 0 ELSE t[Pick(r)].amount + g[r \ {Pick(r)}]
        /\ h[r] = IF r = {} THEN 0 ELSE t[Pick(r)].amount + h[r \ {Pick(r)}]
    BY DEF Totals
  <1>5. r # {} => Pick(r) \in r
    BY PickIn
  <1>6. r # {} => g[r \ {Pick(r)}] = h[r \ {Pick(r)}]
    BY <1>3, <1>5
  <1> QED BY <1>4, <1>6

\* So what is locked in a set is the amount of its next element and what is locked in the rest.
LEMMA LockedStep ==
  ASSUME NEW t, NEW S, IsFiniteSet(S)
  PROVE  LockedIn(t, S) = IF S = {} THEN 0
                          ELSE t[Pick(S)].amount + LockedIn(t, S \ {Pick(S)})
  <1> DEFINE g == CHOOSE f : Totals(f, t, S)
             R == S \ {Pick(S)}
             h == CHOOSE f : Totals(f, t, R)
  <1>1. IsFiniteSet(R) /\ R \in SUBSET S
    BY FS_Subset
  <1>2. Totals(g, t, S)
    BY TotalsExist
  <1>3. Totals(h, t, R)
    <2> HIDE DEF R
    <2> QED BY <1>1, TotalsExist
  <1>4. LockedIn(t, S) = g[S] /\ LockedIn(t, R) = h[R]
    BY LockedIsTotal
  <1> HIDE DEF g, h
  <1>5. g[S] = IF S = {} THEN 0 ELSE t[Pick(S)].amount + g[R]
    BY <1>2 DEF Totals
  <1>6. g[R] = h[R]
    <2> HIDE DEF R
    <2> QED BY <1>1, <1>2, <1>3, TotalsUnique
  <1> QED BY <1>4, <1>5, <1>6

\* Amounts add up to an amount.
LEMMA LockedType ==
  ASSUME NEW t, NEW S, IsFiniteSet(S), \A h \in S : t[h].amount \in Nat
  PROVE  LockedIn(t, S) \in Nat
  <1> DEFINE Q == {s \in SUBSET S : LockedIn(t, s) \notin Nat}
  <1>1. SUFFICES ASSUME Q # {} PROVE FALSE
    OBVIOUS
  <1>2. PICK s \in Q : \A u \in Q : u \subseteq s => u = s
    <2>1. Q \in SUBSET (SUBSET S)
      OBVIOUS
    <2> HIDE DEF Q
    <2> QED BY <1>1, <2>1, MinimalSubset
  <1>3. LockedIn(t, s) = IF s = {} THEN 0 ELSE t[Pick(s)].amount + LockedIn(t, s \ {Pick(s)})
    <2>1. IsFiniteSet(s)
      BY FS_Subset
    <2> QED BY <2>1, LockedStep
  <1>4. s # {} => Pick(s) \in s
    BY PickIn
  <1>5. s # {} => LockedIn(t, s \ {Pick(s)}) \in Nat
    BY <1>2, <1>4
  <1> QED BY <1>3, <1>4, <1>5

\* The order of the fold does not matter: any element may be taken out first.
LEMMA LockedRemove ==
  ASSUME NEW t, NEW S, IsFiniteSet(S), \A h \in S : t[h].amount \in Nat
  PROVE  \A x \in S : LockedIn(t, S) = t[x].amount + LockedIn(t, S \ {x})
  <1> DEFINE Good(s) == \A x \in s : LockedIn(t, s) = t[x].amount + LockedIn(t, s \ {x})
             Q == {s \in SUBSET S : ~Good(s)}
  <1>1. SUFFICES ASSUME Q # {} PROVE FALSE
    OBVIOUS
  <1>2. PICK s \in Q : \A u \in Q : u \subseteq s => u = s
    <2>1. Q \in SUBSET (SUBSET S)
      OBVIOUS
    <2> HIDE DEF Q
    <2> QED BY <1>1, <2>1, MinimalSubset
  <1>3. PICK x \in s : LockedIn(t, s) # t[x].amount + LockedIn(t, s \ {x})
    OBVIOUS
  <1>4. \A u \in SUBSET s : IsFiniteSet(u) /\ LockedIn(t, u) \in Nat
    <2> SUFFICES ASSUME NEW u \in SUBSET s PROVE IsFiniteSet(u) /\ LockedIn(t, u) \in Nat
      OBVIOUS
    <2>1. IsFiniteSet(u)
      BY FS_Subset
    <2> QED BY <2>1, LockedType
  <1> DEFINE c == Pick(s)
  <1>5. c \in s /\ LockedIn(t, s) = t[c].amount + LockedIn(t, s \ {c})
    BY <1>4, PickIn, LockedStep
  <1>6. c # x
    BY <1>3, <1>5
  <1> HIDE DEF c
  <1>7. Good(s \ {c}) /\ Good(s \ {x})
    BY <1>2, <1>5
  <1>8. LockedIn(t, s \ {c}) = t[x].amount + LockedIn(t, (s \ {c}) \ {x})
    BY <1>6, <1>7
  <1>9. LockedIn(t, s \ {x}) = t[c].amount + LockedIn(t, (s \ {x}) \ {c})
    BY <1>5, <1>6, <1>7
  <1>10. (s \ {c}) \ {x} = (s \ {x}) \ {c}
    OBVIOUS
  <1>11. /\ t[x].amount \in Nat /\ t[c].amount \in Nat
         /\ LockedIn(t, (s \ {x}) \ {c}) \in Nat
    BY <1>4, <1>5
  <1> HIDE DEF Q, Good
  <1>12. LockedIn(t, s \ {c}) = t[x].amount + LockedIn(t, (s \ {x}) \ {c})
    BY <1>8, <1>10
  <1> QED BY <1>3, <1>5, <1>9, <1>11, <1>12

\* Only the entries of the set count.
LEMMA LockedFrame ==
  ASSUME NEW t, NEW u, NEW S, IsFiniteSet(S), \A h \in S : t[h] = u[h]
  PROVE  LockedIn(t, S) = LockedIn(u, S)
  <1> DEFINE Q == {s \in SUBSET S : LockedIn(t, s) # LockedIn(u, s)}
  <1>1. SUFFICES ASSUME Q # {} PROVE FALSE
    OBVIOUS
  <1>2. PICK s \in Q : \A v \in Q : v \subseteq s => v = s
    <2>1. Q \in SUBSET (SUBSET S)
      OBVIOUS
    <2> HIDE DEF Q
    <2> QED BY <1>1, <2>1, MinimalSubset
  <1>3. /\ LockedIn(t, s) = IF s = {} THEN 0 ELSE t[Pick(s)].amount + LockedIn(t, s \ {Pick(s)})
        /\ LockedIn(u, s) = IF s = {} THEN 0 ELSE u[Pick(s)].amount + LockedIn(u, s \ {Pick(s)})
    <2>1. IsFiniteSet(s)
      BY FS_Subset
    <2> QED BY <2>1, LockedStep
  <1>4. s # {} => Pick(s) \in s
    BY PickIn
  <1>5. s # {} => LockedIn(t, s \ {Pick(s)}) = LockedIn(u, s \ {Pick(s)})
    BY <1>2, <1>4
  <1> QED BY <1>3, <1>4, <1>5

-----------------------------------------------------------------------------
\* The HTLC table and the counters.

OwnedIn(table, p) == {h \in Hash : table[h].sender = p}

\* u is the table t with the HTLC e entered under the free hash x.
Entered(t, x, e, u) ==
  /\ t \in [Hash -> TunnelHTLC \cup {NoHtlc}]
  /\ x \in Hash /\ t[x] = NoHtlc
  /\ e \in TunnelHTLC
  /\ u = [t EXCEPT ![x] = e]

\* Entering an HTLC adds it to its sender's and to nobody else's.
LEMMA EnterHtlc ==
  ASSUME NEW t, NEW x, NEW e, NEW u, Entered(t, x, e, u),
         NEW p \in Party, IsFiniteSet(OwnedIn(t, p))
  PROVE  /\ IsFiniteSet(OwnedIn(u, p))
         /\ Cardinality(OwnedIn(t, p)) \in Nat
         /\ LockedIn(t, OwnedIn(t, p)) \in Nat
         /\ Cardinality(OwnedIn(u, p)) =
              Cardinality(OwnedIn(t, p)) + (IF p = e.sender THEN 1 ELSE 0)
         /\ LockedIn(u, OwnedIn(u, p)) =
              LockedIn(t, OwnedIn(t, p)) + (IF p = e.sender THEN e.amount ELSE 0)
  <1>1. p # None /\ NoHtlc.sender = None
    BY AddressAssumption DEF Party, Address, NoHtlc
  <1>2. OwnedIn(u, p) = IF p = e.sender THEN OwnedIn(t, p) \cup {x} ELSE OwnedIn(t, p)
    BY <1>1 DEF Entered, OwnedIn, TunnelHTLC
  <1>3. x \notin OwnedIn(t, p)
    BY <1>1 DEF Entered, OwnedIn
  <1>4. \A h \in OwnedIn(t, p) : t[h] = u[h] /\ t[h].amount \in Nat
    BY <1>1, <1>3 DEF Entered, OwnedIn, TunnelHTLC
  <1>5. Cardinality(OwnedIn(t, p)) \in Nat /\ LockedIn(t, OwnedIn(t, p)) \in Nat
    BY <1>4, FS_CardinalityType, LockedType
  <1>6. LockedIn(t, OwnedIn(t, p)) = LockedIn(u, OwnedIn(t, p))
    BY <1>4, LockedFrame
  <1>7. CASE p = e.sender
    <2> DEFINE S == OwnedIn(t, p) \cup {x}
    <2>1. IsFiniteSet(S) /\ Cardinality(S) = Cardinality(OwnedIn(t, p)) + 1
      BY <1>3, FS_AddElement
    <2>2. \A h \in S : u[h].amount \in Nat
      BY <1>4 DEF Entered, TunnelHTLC
    <2>3. x \in S /\ S \ {x} = OwnedIn(t, p) /\ u[x].amount = e.amount /\ e.amount \in Nat
      BY <1>3 DEF Entered, TunnelHTLC
    <2> HIDE DEF S
    <2>4. LockedIn(u, S) = u[x].amount + LockedIn(u, S \ {x})
      BY <2>1, <2>2, <2>3, LockedRemove
    <2>5. LockedIn(u, S) = LockedIn(t, OwnedIn(t, p)) + e.amount
      BY <1>5, <1>6, <2>3, <2>4
    <2>6. OwnedIn(u, p) = S
      BY <1>2, <1>7 DEF S
    <2> QED BY <1>5, <1>7, <2>1, <2>5, <2>6
  <1>8. CASE p # e.sender
    BY <1>2, <1>5, <1>6, <1>8
  <1> QED BY <1>7, <1>8

\* An amount of zero is locked only where nothing is.
LEMMA NoneLocked ==
  ASSUME NEW t \in [Hash -> TunnelHTLC \cup {NoHtlc}], NEW p \in Party,
         IsFiniteSet(OwnedIn(t, p)), LockedIn(t, OwnedIn(t, p)) = 0,
         \A h \in Hash : t[h] # NoHtlc => t[h].amount > 0
  PROVE  OwnedIn(t, p) = {}
  <1> SUFFICES ASSUME NEW x \in OwnedIn(t, p) PROVE FALSE
    OBVIOUS
  <1>1. p # None /\ NoHtlc.sender = None
    BY AddressAssumption DEF Party, Address, NoHtlc
  <1>2. \A h \in OwnedIn(t, p) : t[h].amount \in Nat /\ t[h].amount > 0
    BY <1>1 DEF OwnedIn, TunnelHTLC
  <1>3. LockedIn(t, OwnedIn(t, p)) = t[x].amount + LockedIn(t, OwnedIn(t, p) \ {x})
    BY <1>2, LockedRemove
  <1>4. IsFiniteSet(OwnedIn(t, p) \ {x})
    BY FS_RemoveElement
  <1>5. LockedIn(t, OwnedIn(t, p) \ {x}) \in Nat
    BY <1>2, <1>4, LockedType
  <1> QED BY <1>2, <1>3, <1>5

\* The inductive invariant: the counters, finitely many HTLCs of each party, none of them
\* empty (lock_htlc asks for a positive amount), none left in a DESTROYED tunnel.
HtlcInv ==
  /\ HtlcCounters
  /\ \A p \in Party : IsFiniteSet(HtlcsOf(p))
  /\ \A h \in Hash : Live(h) => htlcs[h].amount > 0
  /\ NothingStranded

\* A lock enters one HTLC of a positive amount and counts it once.
LEMMA LockHtlcInv ==
  ASSUME IInv, HtlcInv, NEW m \in Messages, LockHtlc(m)
  PROVE  HtlcInv'
  <1> DEFINE e == [amount |-> m.amount, sender |-> m.sender,
                   receiver |-> m.receiver, expiry_ms |-> m.expiry_ms]
  <1>1. m \in HtlcMsg
    BY MessageTypes DEF LockHtlc
  <1>2. /\ htlcs \in [Hash -> TunnelHTLC \cup {NoHtlc}] /\ tunnel \in Tunnels
        /\ counter \in [Party -> [count : Int, total_locked : Int]]
        /\ m.hash \in Hash /\ htlcs[m.hash] = NoHtlc /\ m.amount > 0
        /\ m.sender \in Party /\ m.amount \in Nat
        /\ e \in TunnelHTLC /\ e.sender = m.sender /\ e.amount = m.amount
        /\ htlcs' = [htlcs EXCEPT ![m.hash] = e]
    BY <1>1 DEF LockHtlc, Live, IInv, TypeOK, HtlcMsg, TunnelHTLC
  <1> HIDE DEF e
  <1>3. \A p \in Party :
          /\ counter'[p].count = counter[p].count + (IF p = e.sender THEN 1 ELSE 0)
          /\ counter'[p].total_locked =
               counter[p].total_locked + (IF p = e.sender THEN e.amount ELSE 0)
    BY <1>2 DEF LockHtlc, Counted
  <1>4. ASSUME NEW p \in Party
        PROVE  /\ IsFiniteSet(HtlcsOf(p)')
               /\ counter'[p].count = Cardinality(HtlcsOf(p)')
               /\ counter'[p].total_locked = LockedIn(htlcs', HtlcsOf(p)')
    <2>1. HtlcsOf(p) = OwnedIn(htlcs, p) /\ HtlcsOf(p)' = OwnedIn(htlcs', p)
      BY DEF HtlcsOf, OwnedIn
    <2>2. /\ IsFiniteSet(OwnedIn(htlcs, p))
          /\ counter[p].count = Cardinality(OwnedIn(htlcs, p))
          /\ counter[p].total_locked = LockedIn(htlcs, OwnedIn(htlcs, p))
      BY <2>1 DEF HtlcInv, HtlcCounters
    <2>3. /\ IsFiniteSet(OwnedIn(htlcs', p))
          /\ Cardinality(OwnedIn(htlcs', p)) =
               Cardinality(OwnedIn(htlcs, p)) + (IF p = e.sender THEN 1 ELSE 0)
          /\ LockedIn(htlcs', OwnedIn(htlcs', p)) =
               LockedIn(htlcs, OwnedIn(htlcs, p)) + (IF p = e.sender THEN e.amount ELSE 0)
      <3>1. PICK t, u, x, d : t = htlcs /\ u = htlcs' /\ x = m.hash /\ d = e
        OBVIOUS
      <3>2. Entered(t, x, d, u) /\ IsFiniteSet(OwnedIn(t, p))
        BY <1>2, <2>2, <3>1 DEF Entered
      <3>3. /\ IsFiniteSet(OwnedIn(u, p))
            /\ Cardinality(OwnedIn(u, p)) =
                 Cardinality(OwnedIn(t, p)) + (IF p = d.sender THEN 1 ELSE 0)
            /\ LockedIn(u, OwnedIn(u, p)) =
                 LockedIn(t, OwnedIn(t, p)) + (IF p = d.sender THEN d.amount ELSE 0)
        BY <3>2, EnterHtlc
      <3> QED BY <3>1, <3>3
    <2> QED BY <1>3, <2>1, <2>2, <2>3
  <1>5. HtlcCounters'
    BY <1>4 DEF HtlcCounters
  <1>6. (\A h \in Hash : Live(h) => htlcs[h].amount > 0)'
    BY <1>2 DEF HtlcInv, Live
  <1>7. NothingStranded'
    BY <1>2 DEF LockHtlc, InStatus, NothingStranded, Tunnels
  <1> QED BY <1>4, <1>5, <1>6, <1>7 DEF HtlcInv

\* A claim or an expiry takes one live HTLC out.
LEMMA ReleaseHtlcInv ==
  ASSUME IInv, HtlcInv, NEW x \in Hash, NEW s, Live(x), ReleaseHtlc(x, s),
         tunnel.status # "DESTROYED"
  PROVE  HtlcInv'
  <1> DEFINE e == htlcs[x]
  <1>1. /\ htlcs \in [Hash -> TunnelHTLC \cup {NoHtlc}] /\ tunnel \in Tunnels
        /\ counter \in [Party -> [count : Int, total_locked : Int]]
        /\ e \in TunnelHTLC /\ e.sender \in Party /\ e.amount \in Nat
        /\ htlcs' = [htlcs EXCEPT ![x] = NoHtlc]
    BY DEF ReleaseHtlc, Live, IInv, TypeOK, TunnelHTLC
  <1>2. /\ htlcs' \in [Hash -> TunnelHTLC \cup {NoHtlc}] /\ htlcs'[x] = NoHtlc
        /\ htlcs = [htlcs' EXCEPT ![x] = e]
    BY <1>1
  <1>3. \A p \in Party :
          /\ counter'[p].count = counter[p].count - (IF p = e.sender THEN 1 ELSE 0)
          /\ counter'[p].total_locked =
               counter[p].total_locked - (IF p = e.sender THEN e.amount ELSE 0)
    BY <1>1 DEF ReleaseHtlc, Counted
  <1>a. \A p \in Party : OwnedIn(htlcs', p) \subseteq OwnedIn(htlcs, p)
    BY <1>1, AddressAssumption DEF OwnedIn, NoHtlc, Party, Address
  <1> HIDE DEF e
  <1>4. ASSUME NEW p \in Party
        PROVE  /\ IsFiniteSet(HtlcsOf(p)')
               /\ counter'[p].count = Cardinality(HtlcsOf(p)')
               /\ counter'[p].total_locked = LockedIn(htlcs', HtlcsOf(p)')
    <2>1. HtlcsOf(p) = OwnedIn(htlcs, p) /\ HtlcsOf(p)' = OwnedIn(htlcs', p)
      BY DEF HtlcsOf, OwnedIn
    <2>2. /\ IsFiniteSet(OwnedIn(htlcs, p))
          /\ counter[p].count = Cardinality(OwnedIn(htlcs, p))
          /\ counter[p].total_locked = LockedIn(htlcs, OwnedIn(htlcs, p))
      BY <2>1 DEF HtlcInv, HtlcCounters
    <2>3. IsFiniteSet(OwnedIn(htlcs', p))
      BY <1>a, <2>2, FS_Subset
    <2>4. /\ Cardinality(OwnedIn(htlcs', p)) \in Nat
          /\ LockedIn(htlcs', OwnedIn(htlcs', p)) \in Nat
          /\ Cardinality(OwnedIn(htlcs, p)) =
               Cardinality(OwnedIn(htlcs', p)) + (IF p = e.sender THEN 1 ELSE 0)
          /\ LockedIn(htlcs, OwnedIn(htlcs, p)) =
               LockedIn(htlcs', OwnedIn(htlcs', p)) + (IF p = e.sender THEN e.amount ELSE 0)
      <3>1. PICK t, u, d : u = htlcs /\ t = htlcs' /\ d = e
        OBVIOUS
      <3>2. Entered(t, x, d, u) /\ IsFiniteSet(OwnedIn(t, p))
        BY <1>1, <1>2, <2>3, <3>1 DEF Entered
      <3>3. /\ Cardinality(OwnedIn(t, p)) \in Nat
            /\ LockedIn(t, OwnedIn(t, p)) \in Nat
            /\ Cardinality(OwnedIn(u, p)) =
                 Cardinality(OwnedIn(t, p)) + (IF p = d.sender THEN 1 ELSE 0)
            /\ LockedIn(u, OwnedIn(u, p)) =
                 LockedIn(t, OwnedIn(t, p)) + (IF p = d.sender THEN d.amount ELSE 0)
        BY <3>2, EnterHtlc
      <3> QED BY <3>1, <3>3
    <2>5. counter'[p].count = Cardinality(OwnedIn(htlcs', p))
      BY <1>3, <2>2, <2>4
    <2>6. counter'[p].total_locked = LockedIn(htlcs', OwnedIn(htlcs', p))
      BY <1>1, <1>3, <2>2, <2>4
    <2> QED BY <2>1, <2>3, <2>5, <2>6
  <1>5. HtlcCounters'
    BY <1>4 DEF HtlcCounters
  <1>6. (\A h \in Hash : Live(h) => htlcs[h].amount > 0)'
    BY <1>1 DEF HtlcInv, Live
  <1>7. NothingStranded'
    BY <1>1 DEF ReleaseHtlc, NothingStranded, Tunnels
  <1> QED BY <1>4, <1>5, <1>6, <1>7 DEF HtlcInv

\* destroy_tunnel, which asks for counters at zero, finds no HTLC.
LEMMA DestroyHtlcInv ==
  ASSUME IInv, HtlcInv, NEW p \in Party, DestroyTunnel(p)
  PROVE  HtlcInv'
  <1>1. htlcs \in [Hash -> TunnelHTLC \cup {NoHtlc}]
    BY DEF IInv, TypeOK
  <1>2. \A q \in Party : HtlcsOf(q) = OwnedIn(htlcs, q)
    BY DEF HtlcsOf, OwnedIn
  <1>3. \A q \in Party : OwnedIn(htlcs, q) = {}
    BY <1>1, <1>2, NoneLocked
       DEF HtlcInv, HtlcCounters, DestroyTunnel, NothingLocked, Party, Live
  <1>4. \A h \in Hash : ~Live(h)
    BY <1>1, <1>3 DEF OwnedIn, Live, TunnelHTLC
  <1>5. htlcs' = htlcs /\ counter' = counter
    BY DEF DestroyTunnel
  <1>6. NothingStranded'
    BY <1>4, <1>5 DEF NothingStranded, Live
  <1>7. HtlcCounters' /\ (\A q \in Party : IsFiniteSet(HtlcsOf(q)'))
    BY <1>5 DEF HtlcInv, HtlcCounters, HtlcsOf
  <1> QED BY <1>5, <1>6, <1>7 DEF HtlcInv, Live

\* Everything else leaves the table and the counters alone and destroys nothing.
LEMMA KeepHtlcInv ==
  ASSUME HtlcInv, UNCHANGED <<htlcs, counter>>,
         tunnel'.status = "DESTROYED" => tunnel.status = "DESTROYED"
  PROVE  HtlcInv'
  BY DEF HtlcInv, HtlcCounters, HtlcsOf, Live, NothingStranded

\* Every step keeps the invariant.
LEMMA NextHtlcInv ==
  ASSUME IInv, HtlcInv, [Next]_vars
  PROVE  HtlcInv'
  <1>0. tunnel \in Tunnels
    BY DEF IInv, TypeOK
  <1>1. ASSUME Open PROVE HtlcInv'
    <2>1. ASSUME NEW t, NEW c, Create(t, c) PROVE HtlcInv'
      <3>1. UNCHANGED <<htlcs, counter>> /\ tunnel'.status # "DESTROYED"
        BY <1>0, <2>1 DEF Create, Fresh, Tunnels
      <3> QED BY <3>1, KeepHtlcInv
    <2>2. ASSUME NEW t, NEW c, NEW f, NEW a, NEW b, CreateAndFund(f, a, b, t, c) PROVE HtlcInv'
      <3>1. UNCHANGED <<htlcs, counter>> /\ tunnel'.status # "DESTROYED"
        <4>1. PICK g, d, n : /\ g = Fresh(t, c)
                             /\ tunnel' = [g EXCEPT !.status = "ACTIVE", !.balance = n,
                                                    !.deposit = d]
          BY <2>2, Zenon DEF CreateAndFund
        <4>2. "status" \in DOMAIN g
          BY <1>0, <4>1 DEF Fresh, Tunnels
        <4>3. tunnel'.status = "ACTIVE"
          BY <4>1, <4>2
        <4>4. UNCHANGED <<htlcs, counter>>
          BY <2>2, Zenon DEF CreateAndFund
        <4> QED BY <4>3, <4>4
      <3> QED BY <3>1, KeepHtlcInv
    <2> QED
      BY <1>1, <2>1, <2>2 DEF Open
  <1>2. ASSUME NEW m \in Messages, Submit(m) PROVE HtlcInv'
    <2>1. CASE LockHtlc(m)
      BY <2>1, LockHtlcInv
    <2>2. CASE UpdateState(m) \/ ResolveDispute(m) \/ (\E p \in Party : RaiseDispute(p, m))
               \/ SetReferee(m) \/ CloseCooperative(m)
      BY <1>0, <2>2, KeepHtlcInv DEF UpdateState, ResolveDispute, RaiseDispute, SetReferee,
         CloseCooperative, CloseAndPay, Tunnels
    <2> QED BY <1>2, <2>1, <2>2 DEF Submit
  <1>3. ASSUME NEW p \in Party, Call(p) PROVE HtlcInv'
    <2>1. CASE DestroyTunnel(p)
      BY <2>1, DestroyHtlcInv
    <2>2. CASE \E amount \in Amounts : Deposit(p, amount)
      BY <1>0, <2>2, KeepHtlcInv DEF Deposit, Tunnels
    <2>3. CASE RaiseDisputeCurrentState(p)
               \/ (\E additional \in Extensions : ExtendTimeout(p, additional))
               \/ (\E r \in Address : SetRefereePackage(p, r)) \/ Migrate(p)
      BY <1>0, <2>3, KeepHtlcInv DEF RaiseDisputeCurrentState, ExtendTimeout,
         SetRefereePackage, Migrate, Tunnels
    <2>4. CASE ForceClose(p) \/ AgreeToDispute(p)
      BY <1>0, <2>4, KeepHtlcInv DEF ForceClose, AgreeToDispute, CloseAndPay, Tunnels
    <2>5. CASE WithdrawBeforeActive(p) \/ WithdrawTimeout(p)
      BY <1>0, <2>5, KeepHtlcInv DEF WithdrawBeforeActive, WithdrawTimeout, Withdraw, Tunnels
    <2> QED BY <1>3, <2>1, <2>2, <2>3, <2>4, <2>5 DEF Call
  <1>4. ASSUME Decide PROVE HtlcInv'
    BY <1>0, <1>4, KeepHtlcInv DEF Decide, ResolveDisputeExternal, ResolveDisputeVerified,
       CloseAndPay, Tunnels
  <1>5. ASSUME NEW h \in Hash, Settle(h) PROVE HtlcInv'
    <2>1. PICK s \in Address : ReleaseHtlc(h, s) /\ Live(h) /\ tunnel.status # "DESTROYED"
      BY <1>5 DEF Settle, ClaimHtlc, ExpireHtlc, InStatus
    <2> QED BY <2>1, ReleaseHtlcInv
  <1>6. ASSUME UNCHANGED <<tunnel, htlcs, counter>> PROVE HtlcInv'
    BY <1>6, KeepHtlcInv
  <1> QED BY <1>1, <1>2, <1>3, <1>4, <1>5, <1>6 DEF Next, Sign, Tick, Upgrade, vars

\* A new tunnel has no HTLC and counters at zero.
LEMMA InitHtlcInv == Init => HtlcInv
  <1> SUFFICES ASSUME Init PROVE HtlcInv
    OBVIOUS
  <1>1. \A p \in Party : HtlcsOf(p) = {}
    BY AddressAssumption DEF Init, HtlcsOf, NoHtlc, Party, Address
  <1>2. IsFiniteSet({}) /\ Cardinality({}) = 0
    BY FS_EmptySet
  <1>3. LockedIn(htlcs, {}) = 0
    BY <1>2, LockedStep
  <1>4. HtlcCounters
    BY <1>1, <1>2, <1>3 DEF HtlcCounters, Init
  <1> QED BY <1>1, <1>2, <1>4 DEF HtlcInv, Init, Live, NothingStranded

\* The per-party HTLC counters are the number and the sum of the HTLCs that exist, for any
\* number of hashes and any amounts: update_party_htlc_counter never underflows.
THEOREM HtlcCountersHold == Spec => []HtlcCounters
  BY InitIInv, NextIInv, InitHtlcInv, NextHtlcInv, PTL DEF Spec, HtlcInv

\* destroy_tunnel strands no HTLC: counters at zero mean that none is left.
THEOREM NothingStrandedHolds == Spec => []NothingStranded
  BY InitIInv, NextIInv, InitHtlcInv, NextHtlcInv, PTL DEF Spec, HtlcInv

\* What the tunnel holds, the coins inside the live HTLCs and what the addresses own add up
\* to what the addresses owned at first.
CoinsAddUp ==
  tunnel.balance + LockedIn(htlcs, HtlcsOf(A)) + LockedIn(htlcs, HtlcsOf(B))
    + wallet[A] + wallet[B] + wallet[Outside]
  = Coins[A] + Coins[B] + Coins[Outside]

\* Conservation is about the coins themselves and not only about the counters that
\* update_party_htlc_counter keeps: the coins in the HTLC table make up the difference.
THEOREM CoinsConserved == Spec => []CoinsAddUp
  <1>1. Conservation /\ HtlcCounters => CoinsAddUp
    BY DEF Conservation, HtlcCounters, CoinsAddUp, Party
  <1> QED BY <1>1, ConservationHolds, HtlcCountersHold, PTL
-----------------------------------------------------------------------------
(***************************************************************************)
(* The watchtower: whatever the tower sends is a call the contract knows,  *)
(* so that all that is proved above holds with a tower at work, and the    *)
(* tower does not stop watching too early.                                 *)
(*                                                                         *)
(* WatchKept is not inductive: a party could pay into the tunnel after the *)
(* watch has ended.  What is inductive is that the watch ends only with a  *)
(* tunnel that is closed.  That latestUpdate names a message at all takes  *)
(* a bound on the nonces signed so far.                                    *)
(***************************************************************************)
\* The steps of RecoverySpec, without its fairness.
TowerSpec == TowerInit /\ [][TowerNext]_all

\* The nonces of the co-signed updates are bounded.
Capped == \E n \in Nat : \A m \in CoSignedUpdates : m.nonce <= n

Over == tunnel.status \in {"CLOSED", "DESTROYED"}

WatchInv == IInv /\ NonceRoom /\ Capped /\ (watched \/ Over)

\* The newest co-signed update, when there is one, is a co-signed update.
LEMMA LatestSigned ==
  ASSUME Capped, CoSignedUpdates # {}
  PROVE  latestUpdate \in CoSignedUpdates
<1>1. \A m \in CoSignedUpdates : m \in Messages /\ m.nonce \in Nat
  BY MessageTypes DEF CoSignedUpdates, UpdateMsg
<1>2. PICK n \in Nat : \A m \in CoSignedUpdates : m.nonce <= n
  BY DEF Capped
<1>3. PICK S : S = {n - m.nonce : m \in CoSignedUpdates}
  OBVIOUS
<1>4. S \subseteq Nat /\ S # {}
  <2>1. \A m \in CoSignedUpdates : n - m.nonce \in Nat
    BY <1>1, <1>2
  <2>2. S \subseteq Nat
    BY <1>3, <2>1
  <2> QED BY <1>3, <2>2
<1>5. PICK x \in S : \A y \in S : ~(<<y, x>> \in OpToRel(<, Nat))
  BY <1>4, WFMin, NatLessThanWellFounded
<1>6. \A y \in S : x <= y
  <2> SUFFICES ASSUME NEW y \in S PROVE x <= y
    OBVIOUS
  <2>1. x \in Nat /\ y \in Nat
    BY <1>4
  <2>2. ~(y < x)
    BY <1>5, <2>1 DEF OpToRel
  <2> QED BY <2>1, <2>2
<1>7. PICK m \in CoSignedUpdates : x = n - m.nonce
  BY <1>3
<1>8. \A k \in CoSignedUpdates : k.nonce <= m.nonce
  <2> SUFFICES ASSUME NEW k \in CoSignedUpdates PROVE k.nonce <= m.nonce
    OBVIOUS
  <2>1. n - k.nonce \in S
    BY <1>3
  <2>2. n - m.nonce <= n - k.nonce
    BY <1>6, <1>7, <2>1
  <2> QED BY <1>1, <2>2
<1> QED BY <1>8 DEF latestUpdate

\* Every transaction of the tower is a call of the contract.
LEMMA ExecutorCalls ==
  ASSUME Capped, NEW action, executor(action)
  PROVE  Next
<1>1. A \in Party /\ (CoSignedUpdates # {} => latestUpdate \in Messages)
  BY LatestSigned DEF Party, CoSignedUpdates
<1>2. CASE buildRaiseDisputeFromUpdate \/ buildResolveDispute
  BY <1>1, <1>2 DEF buildRaiseDisputeFromUpdate, buildResolveDispute, Next, Submit
<1>3. CASE buildRaiseDisputeCurrentState \/ buildForceClose \/ buildWithdrawTimeout
  BY <1>1, <1>3 DEF buildRaiseDisputeCurrentState, buildForceClose, buildWithdrawTimeout,
                    Next, Call
<1> QED BY <1>2, <1>3 DEF executor

\* So with a tower at work the contract still takes its own steps only.
LEMMA TowerStep ==
  ASSUME Capped, [TowerNext]_all
  PROVE  [Next]_vars
<1>1. CASE Others
  BY <1>1 DEF Others
<1>2. CASE Heartbeat \/ \E t \in Ticks : tickDecides(t)
  BY <1>2 DEF Heartbeat, tickDecides
<1>3. CASE \E t \in Ticks : tickExecutes(t) \/ tickLoses(t)
  BY <1>3, ExecutorCalls DEF tickExecutes, tickLoses
<1>4. CASE UNCHANGED all
  BY <1>4 DEF all
<1> QED BY <1>1, <1>2, <1>3, <1>4 DEF TowerNext

\* A signature more raises the bound at most to its nonce.
LEMMA CappedStep ==
  ASSUME IInv, Capped, [Next]_vars
  PROVE  Capped'
<1>1. CASE signed' = signed
  BY <1>1 DEF Capped, CoSignedUpdates, BothSigned, Verify
<1>2. ASSUME NEW p \in Party, NEW m \in Messages, Sign(p, m) PROVE Capped'
  <2>1. signed' = signed \cup {<<p, m>>}
    BY <1>2 DEF Sign
  <2>2. \A k \in CoSignedUpdates' : k \in CoSignedUpdates \/ (k = m /\ m.kind = "update")
    BY <2>1 DEF CoSignedUpdates, BothSigned, Verify
  <2>3. PICK n \in Nat : \A k \in CoSignedUpdates : k.nonce <= n
    BY DEF Capped
  <2>4. \A k \in CoSignedUpdates : k.nonce \in Nat
    BY MessageTypes DEF CoSignedUpdates, UpdateMsg
  <2>5. CASE m.kind = "update"
    <3>1. m.nonce \in Nat
      BY <2>5, MessageTypes DEF UpdateMsg
    <3>2. n + m.nonce \in Nat /\ \A k \in CoSignedUpdates' : k.nonce <= n + m.nonce
      BY <2>2, <2>3, <2>4, <3>1
    <3> QED BY <3>2 DEF Capped
  <2>6. CASE m.kind # "update"
    BY <2>2, <2>3, <2>6 DEF Capped
  <2> QED BY <2>5, <2>6
<1>3. signed' = signed \/ \E p \in Party, m \in Messages : Sign(p, m)
  BY Zenon DEF Next, vars, Open, Create, CreateAndFund, Submit, UpdateState, CloseCooperative,
     RaiseDispute, ResolveDispute, LockHtlc, SetReferee, Call, Deposit, RaiseDisputeCurrentState,
     ForceClose, AgreeToDispute, ExtendTimeout, WithdrawBeforeActive, WithdrawTimeout, Withdraw,
     SetRefereePackage, DestroyTunnel, Migrate, Decide, ResolveDisputeExternal,
     ResolveDisputeVerified, CloseAndPay, Settle, ExpireHtlc, ClaimHtlc, ReleaseHtlc, Tick, Upgrade
<1> QED BY <1>1, <1>2, <1>3

\* The two calls that end the watch close the tunnel: a force-close pays everything out, and
\* a withdrawal finds no other deposit.
LEMMA TerminalCloses ==
  ASSUME IInv, NEW action \in Terminal, executor(action)
  PROVE  Over'
<1>1. tunnel \in Tunnels
  BY DEF IInv, TypeOK
<1>2. CASE ForceClose(A)
  BY <1>1, <1>2 DEF ForceClose, CloseAndPay, Over, Tunnels
<1>3. CASE WithdrawTimeout(A)
  <2>1. /\ tunnel.status = "CREATED" /\ tunnel.deposit[A] > 0
        /\ tunnel' = [tunnel EXCEPT
                        !.deposit[A] = 0, !.balance = @ - tunnel.deposit[A],
                        !.last_activity = now,
                        !.status = IF tunnel.balance - tunnel.deposit[A] = 0
                                   THEN "CLOSED" ELSE @]
    BY <1>3 DEF WithdrawTimeout, Withdraw, InStatus
  <2>2. tunnel.deposit[A] \in Nat /\ tunnel.deposit[B] \in Nat /\ tunnel.balance \in Nat
    BY <1>1 DEF Tunnels, Party
  <2>3. tunnel.balance - tunnel.deposit[A] = 0
    BY <2>1, <2>2 DEF IInv, Safe, SingleDeposit
  <2>4. tunnel'.status = "CLOSED"
    BY <1>1, <2>1, <2>3 DEF Tunnels
  <2> QED BY <2>4 DEF Over
<1> QED BY <1>2, <1>3 DEF Terminal, executor, buildForceClose, buildWithdrawTimeout

\* WatchInv is inductive.
LEMMA NextWatchInv ==
  ASSUME WatchInv, [TowerNext]_all
  PROVE  WatchInv'
<1>1. [Next]_vars
  BY TowerStep DEF WatchInv
<1>2. IInv' /\ NonceRoom' /\ Capped' /\ (Over => Over')
  BY <1>1, NextIInv, NextStepBound, CappedStep DEF WatchInv, StepBound, Over
<1>3. watched' \/ Over'
  <2>1. CASE watched' = watched
    BY <1>2, <2>1 DEF WatchInv
  <2>2. ASSUME NEW t \in Ticks, tickExecutes(t) PROVE watched' \/ Over'
    <3>1. CASE executor(tick[t]) /\ watched' = done(t, TRUE)
      BY <1>2, <3>1, TerminalCloses DEF WatchInv, done
    <3>2. CASE watched' = done(t, FALSE)
      BY <1>2, <3>2 DEF WatchInv, done
    <3> QED BY <2>2, <3>1, <3>2 DEF tickExecutes
  <2> QED BY <2>1, <2>2 DEF TowerNext, Others, Heartbeat, tickDecides, tickLoses, all, tower
<1> QED BY <1>2, <1>3 DEF WatchInv

\* It holds before the tunnel exists.
LEMMA InitWatchInv == TowerInit => WatchInv
<1>1. Init => IInv /\ NonceRoom
  BY InitIInv, U64Assumption DEF Init, NonceRoom
<1>2. Init => CoSignedUpdates = {}
  BY DEF Init, CoSignedUpdates, BothSigned, Verify
<1>3. CoSignedUpdates = {} => Capped
  BY DEF Capped
<1> QED BY <1>1, <1>2, <1>3 DEF TowerInit, WatchInv

\* The watchtower implements the contract: its transactions, whatever snapshots they rest on,
\* whether or not they overlap, abort or get lost, are calls of Tunnel.  Every theorem of
\* TunnelProofs holds of a tunnel that a tower looks after.
THEOREM TowerImplementsTunnel == TowerSpec => Spec
<1>1. WatchInv /\ [TowerNext]_all => [Next]_vars
  BY TowerStep DEF WatchInv
<1>2. TowerInit => Init
  BY DEF TowerInit
<1> QED BY <1>1, <1>2, InitWatchInv, NextWatchInv, PTL DEF TowerSpec, Spec

\* The tower stops watching only when nothing of party A's is left in the tunnel, for any
\* number of overlapping ticks, any skew of its clock and any loss of transactions.
THEOREM WatchKeptHolds == TowerSpec => []WatchKept
<1>1. WatchInv => WatchKept
  BY DEF WatchInv, WatchKept, Over, AtStake
<1> QED BY <1>1, InitWatchInv, NextWatchInv, PTL DEF TowerSpec
=============================================================================
