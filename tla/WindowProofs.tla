---------------------------- MODULE WindowProofs ----------------------------
(***************************************************************************)
(* What two of the browser's windows guarantee for every value of the      *)
(* constants.                                                              *)
(*                                                                         *)
(* The agent allowance: the escrow is accounted for, nobody is paid more   *)
(* than was earned, what was earned stays, and a claim that rests on a     *)
(* current snapshot is accepted, for every rate, cap, expiry, number of    *)
(* allowances and of calls from elsewhere, and every lag of the Sui clock  *)
(* within the skew.  The first part is about one allowance and the calls   *)
(* on it, and rests on the vesting curve never falling; the second lifts   *)
(* it to the window.                                                       *)
(*                                                                         *)
(* The window of a match: it closes a match once, with the half that       *)
(* belongs to it, and keeps a stake within its reach.                      *)
(***************************************************************************)
EXTENDS Allowance, TLAPS

CONSTANTS Starts, Moves

PM == INSTANCE PvpMatch

\* What is asked of the constants.
Sane ==
    /\ {Agents, Scripts, Horizon, CLAIM_SKEW_MS} \subseteq Nat
    /\ SECOND \in Nat \ {0}
    /\ Rates \subseteq Nat /\ Caps \subseteq Nat

Status == {"active", "paused", "revoked"}
Allow ==
    [rate : Nat, cap : Nat, floor : Nat, anchor : Nat, auth : Nat, expiry : Nat,
     status : Status, spent : Nat, escrow : Nat, put : Nat, back : Nat]

\* The escrow is accounted for and no more was paid than is earned by t.
Sound(a, t) ==
    /\ a.put = a.escrow + a.spent + a.back
    /\ a.spent <= a.cap
    /\ a.status # "revoked" => a.spent <= computeEntitled(a, t)
    /\ a.status = "revoked" => a.escrow = 0
    /\ a.status # "revoked" => a.back = 0
    /\ a.floor <= a.cap

\* A call at t leaves a sound allowance, and takes back nothing that was earned.
Fair(a, b, t) ==
    /\ b \in Allow /\ Sound(b, t)
    /\ b.status # "revoked" => computeEntitled(a, t) <= computeEntitled(b, t)

-----------------------------------------------------------------------------
\* The vesting curve.

\* A product of naturals is a natural and grows with either factor.
LEMMA ProductGrows ==
  ASSUME NEW r \in Nat, NEW u \in Nat, NEW v \in Nat, u <= v
  PROVE  r * u \in Nat /\ r * u <= r * v
<1>1. PICK w \in Nat : v = u + w
  <2>1. v - u \in Nat /\ v = u + (v - u)
    OBVIOUS
  <2> QED BY <2>1
<1>2. r * v = r * u + r * w
  BY <1>1
<1>3. r * w \in Nat /\ r * u \in Nat
  OBVIOUS
<1> QED BY <1>2, <1>3

\* Whole seconds grow with the milliseconds.
LEMMA QuotientGrows ==
  ASSUME NEW u \in Nat, NEW v \in Nat, u <= v, NEW d \in Nat \ {0}
  PROVE  u \div d \in Nat /\ u \div d <= v \div d
OBVIOUS

\* The time that counts, and the whole seconds of it.
Deadline(a, now) == IF a.expiry = 0 THEN now ELSE Lesser(a.expiry, now)
Elapsed(a, now) ==
    IF Deadline(a, now) > a.anchor THEN (Deadline(a, now) - a.anchor) \div SECOND ELSE 0

\* rateVested of an active allowance, in those terms.
LEMMA VestedActive ==
  ASSUME NEW a, NEW now, a.status = "active"
  PROVE  rateVested(a, now) = Lesser(a.floor + a.rate * Elapsed(a, now), a.cap)
BY DEF rateVested, Elapsed, Deadline

\* The time that counts never runs backwards.
LEMMA ElapsedGrows ==
  ASSUME Sane, NEW a \in Allow, NEW t \in Int, NEW u \in Int, t <= u
  PROVE  /\ Elapsed(a, t) \in Nat /\ Elapsed(a, u) \in Nat
         /\ Elapsed(a, t) <= Elapsed(a, u)
<1>1. a.expiry \in Nat /\ a.anchor \in Nat /\ SECOND \in Nat \ {0}
  BY DEF Allow, Sane
<1>2. Deadline(a, t) \in Int /\ Deadline(a, u) \in Int /\ Deadline(a, t) <= Deadline(a, u)
  BY <1>1 DEF Deadline, Lesser
<1>3. CASE Deadline(a, t) > a.anchor
  <2>1. /\ Deadline(a, t) - a.anchor \in Nat /\ Deadline(a, u) - a.anchor \in Nat
        /\ Deadline(a, t) - a.anchor <= Deadline(a, u) - a.anchor /\ Deadline(a, u) > a.anchor
    BY <1>1, <1>2, <1>3
  <2>2. (Deadline(a, t) - a.anchor) \div SECOND <= (Deadline(a, u) - a.anchor) \div SECOND
    BY <1>1, <2>1, QuotientGrows
  <2>3. (Deadline(a, t) - a.anchor) \div SECOND \in Nat /\ (Deadline(a, u) - a.anchor) \div SECOND \in Nat
    BY <1>1, <2>1, QuotientGrows
  <2> QED BY <1>3, <2>1, <2>2, <2>3 DEF Elapsed
<1>4. CASE ~(Deadline(a, t) > a.anchor)
  <2>1. Elapsed(a, t) = 0
    BY <1>4 DEF Elapsed
  <2>2. Deadline(a, u) > a.anchor => Deadline(a, u) - a.anchor \in Nat
    BY <1>1, <1>2
  <2>3. Deadline(a, u) > a.anchor => (Deadline(a, u) - a.anchor) \div SECOND \in Nat
    BY <1>1, <2>2, QuotientGrows
  <2>4. Elapsed(a, u) \in Nat
    BY <2>3 DEF Elapsed
  <2> QED BY <2>1, <2>4
<1> QED BY <1>3, <1>4

\* What has vested is an amount within the cap, and never falls.
LEMMA VestedGrows ==
  ASSUME Sane, NEW a \in Allow, NEW t \in Int, NEW u \in Int, t <= u
  PROVE  /\ rateVested(a, t) \in Nat /\ rateVested(a, t) <= a.cap
         /\ rateVested(a, t) <= rateVested(a, u) /\ rateVested(a, u) \in Nat
<1>1. a.floor \in Nat /\ a.cap \in Nat /\ a.rate \in Nat
  BY DEF Allow
<1>2. CASE a.status = "active"
  <2>1. PICK e \in Nat, f \in Nat : e = Elapsed(a, t) /\ f = Elapsed(a, u) /\ e <= f
    BY ElapsedGrows
  <2>2. a.rate * e \in Nat /\ a.rate * f \in Nat /\ a.rate * e <= a.rate * f
    BY <1>1, <2>1, ProductGrows
  <2>3. PICK x \in Nat, y \in Nat : x = a.rate * e /\ y = a.rate * f
    BY <2>2
  <2>4. rateVested(a, t) = Lesser(a.floor + x, a.cap) /\ rateVested(a, u) = Lesser(a.floor + y, a.cap)
    BY <1>2, <2>1, <2>3, VestedActive
  <2> QED BY <1>1, <2>2, <2>3, <2>4 DEF Lesser
<1>3. CASE a.status # "active"
  BY <1>1, <1>3 DEF rateVested, Lesser
<1> QED BY <1>2, <1>3

\* The same of what the payee is entitled to.
LEMMA EntitledGrows ==
  ASSUME Sane, NEW a \in Allow, NEW t \in Int, NEW u \in Int, t <= u
  PROVE  /\ computeEntitled(a, t) \in Nat /\ computeEntitled(a, t) <= a.cap
         /\ computeEntitled(a, u) \in Nat
         /\ computeEntitled(a, t) <= computeEntitled(a, u)
<1>1. a.auth \in Nat /\ a.cap \in Nat
  BY DEF Allow
<1>2. /\ rateVested(a, t) \in Nat /\ rateVested(a, u) \in Nat
      /\ rateVested(a, t) <= rateVested(a, u)
  BY VestedGrows
<1> QED BY <1>1, <1>2 DEF computeEntitled, Lesser, Greater

\* It depends on the terms alone, not on what was paid in or out.
LEMMA SameTerms ==
  ASSUME NEW a, NEW b, NEW t, b.status = a.status, b.floor = a.floor, b.cap = a.cap,
         b.rate = a.rate, b.anchor = a.anchor, b.expiry = a.expiry, b.auth = a.auth
  PROVE  computeEntitled(b, t) = computeEntitled(a, t)
<1>1. rateVested(b, t) = rateVested(a, t)
  BY Zenon DEF rateVested
<1> QED BY <1>1, Zenon DEF computeEntitled

\* What is still to be paid is what was earned and not yet paid.
LEMMA UnspentIs ==
  ASSUME Sane, NEW a \in Allow, NEW t \in Int
  PROVE  /\ Unspent(a, t) \in Nat
         /\ Unspent(a, t) > 0 => Unspent(a, t) = computeEntitled(a, t) - a.spent
         /\ Unspent(a, t) <= a.cap
<1>1. a.spent \in Nat /\ a.cap \in Nat
  BY DEF Allow
<1>2. computeEntitled(a, t) \in Nat /\ computeEntitled(a, t) <= a.cap
  BY EntitledGrows
<1> QED BY <1>1, <1>2 DEF Unspent, Greater

-----------------------------------------------------------------------------
\* The entry functions of the contract.

\* claim pays what is earned.
LEMMA ClaimFair ==
  ASSUME Sane, NEW a \in Allow, NEW t \in Nat, Sound(a, t), NEW x \in Int, CanClaim(a, x, t)
  PROVE  Fair(a, claim(a, x), t)
<1>1. /\ a.spent \in Nat /\ a.escrow \in Nat /\ a.cap \in Nat /\ a.put \in Nat /\ a.back \in Nat
      /\ x \in Nat /\ x > 0 /\ x <= a.escrow /\ x <= Unspent(a, t) /\ a.status = "active"
  BY DEF Allow, CanClaim
<1>2. claim(a, x) \in Allow
  <2>1. a.spent + x \in Nat /\ a.escrow - x \in Nat
    BY <1>1
  <2> QED BY <2>1, Zenon DEF claim, Allow
<1>3. /\ claim(a, x).spent = a.spent + x /\ claim(a, x).escrow = a.escrow - x
      /\ claim(a, x).put = a.put /\ claim(a, x).back = a.back /\ claim(a, x).cap = a.cap
      /\ claim(a, x).status = a.status /\ claim(a, x).floor = a.floor
      /\ claim(a, x).rate = a.rate /\ claim(a, x).anchor = a.anchor
      /\ claim(a, x).expiry = a.expiry /\ claim(a, x).auth = a.auth
  BY DEF claim, Allow
<1>4. computeEntitled(claim(a, x), t) = computeEntitled(a, t)
  BY <1>3, SameTerms
<1>5. Unspent(a, t) = computeEntitled(a, t) - a.spent /\ Unspent(a, t) \in Nat
  BY <1>1, UnspentIs
<1>6. computeEntitled(a, t) \in Nat /\ computeEntitled(a, t) <= a.cap
  BY EntitledGrows
<1> QED BY <1>1, <1>2, <1>3, <1>4, <1>5, <1>6 DEF Fair, Sound

\* authorize_spend only raises what the payee may draw.
LEMMA AuthorizeFair ==
  ASSUME Sane, NEW a \in Allow, NEW t \in Nat, Sound(a, t), NEW x \in Nat, CanAuthorize(a, x)
  PROVE  Fair(a, [a EXCEPT !.auth = x], t)
<1> DEFINE b == [a EXCEPT !.auth = x]
<1>1. /\ a.spent \in Nat /\ a.cap \in Nat /\ a.auth \in Nat
      /\ x > a.auth /\ a.status = "active" /\ t \in Int /\ t <= t
  BY DEF Allow, CanAuthorize
<1>2. b \in Allow
  BY DEF Allow
<1>3. /\ b.spent = a.spent /\ b.escrow = a.escrow /\ b.put = a.put /\ b.back = a.back
      /\ b.cap = a.cap /\ b.status = a.status /\ b.auth = x
      /\ b.floor = a.floor /\ b.rate = a.rate /\ b.anchor = a.anchor /\ b.expiry = a.expiry
  BY DEF Allow
<1> HIDE DEF b
<1>4. rateVested(b, t) = rateVested(a, t)
  BY <1>3, Zenon DEF rateVested
<1>5. rateVested(a, t) \in Nat
  BY <1>1, VestedGrows
<1>6. computeEntitled(a, t) <= computeEntitled(b, t) /\ computeEntitled(a, t) \in Nat
      /\ computeEntitled(b, t) \in Nat
  BY <1>1, <1>3, <1>4, <1>5 DEF computeEntitled, Lesser, Greater
<1>7. Fair(a, b, t)
  BY <1>1, <1>2, <1>3, <1>6 DEF Fair, Sound
<1> QED BY <1>7 DEF b

\* What had vested when the curve was anchored anew is the floor of the new one.
LEMMA Anchored ==
  ASSUME Sane, NEW a \in Allow, NEW t \in Nat, NEW b \in Allow,
         b.cap = a.cap, b.auth = a.auth,
         b.floor = rateVested(a, t), b.status = "active" => b.anchor = t
  PROVE  computeEntitled(b, t) = computeEntitled(a, t)
<1>1. rateVested(a, t) \in Nat /\ rateVested(a, t) <= a.cap
  BY VestedGrows
<1>2. a.cap \in Nat /\ b.rate \in Nat /\ b.expiry \in Nat /\ b.anchor \in Nat
  BY DEF Allow
<1>3. rateVested(b, t) = rateVested(a, t)
  <2>1. CASE b.status # "active"
    BY <1>1, <1>2, <2>1 DEF rateVested, Lesser
  <2>2. CASE b.status = "active"
    <3>1. Elapsed(b, t) = 0
      BY <1>2, <2>2 DEF Elapsed, Deadline, Lesser
    <3>2. b.rate * 0 = 0
      BY <1>2
    <3>3. rateVested(b, t) = Lesser(b.floor + 0, b.cap)
      BY <2>2, <3>1, <3>2, VestedActive
    <3> QED BY <1>1, <1>2, <3>3 DEF Lesser
  <2> QED BY <2>1, <2>2
<1> QED BY <1>3, Zenon DEF computeEntitled

\* A call that moves no money and leaves the payee no worse off is fair.
LEMMA TermsFair ==
  ASSUME Sane, NEW a \in Allow, NEW t \in Nat, Sound(a, t), NEW b \in Allow,
         a.status # "revoked", b.status # "revoked",
         b.spent = a.spent, b.back = a.back, b.put - b.escrow = a.put - a.escrow,
         a.cap <= b.cap, b.floor <= b.cap, computeEntitled(a, t) <= computeEntitled(b, t)
  PROVE  Fair(a, b, t)
<1>1. /\ a.spent \in Nat /\ a.cap \in Nat /\ b.cap \in Nat /\ a.put \in Nat /\ b.put \in Nat
      /\ a.escrow \in Nat /\ b.escrow \in Nat /\ a.back \in Nat
  BY DEF Allow
<1>2. computeEntitled(a, t) \in Nat /\ computeEntitled(b, t) \in Nat
  BY EntitledGrows
<1> QED BY <1>1, <1>2 DEF Fair, Sound

\* pause keeps what has vested as the floor.
LEMMA PauseFair ==
  ASSUME Sane, NEW a \in Allow, NEW t \in Nat, Sound(a, t), a.status = "active"
  PROVE  Fair(a, pause(a, t), t)
<1>1. t \in Int /\ t <= t /\ rateVested(a, t) \in Nat
  <2>1. t \in Int /\ t <= t
    OBVIOUS
  <2> QED BY <2>1, VestedGrows
<1>2. PICK v \in Nat : v = rateVested(a, t)
  BY <1>1
<1>3. PICK b : b = [a EXCEPT !.floor = v, !.anchor = t, !.status = "paused"]
  OBVIOUS
<1>4. pause(a, t) = b
  BY <1>2, <1>3, Zenon DEF pause, reanchor
<1>5. b \in Allow
  BY <1>3, Zenon DEF Allow, Status
<1>6. /\ b.cap = a.cap /\ b.auth = a.auth /\ b.floor = v /\ b.status = "paused"
      /\ b.spent = a.spent /\ b.back = a.back /\ b.put = a.put /\ b.escrow = a.escrow
  BY <1>3 DEF Allow
<1>7. computeEntitled(b, t) = computeEntitled(a, t)
  BY <1>2, <1>5, <1>6, Anchored
<1>8. a.cap \in Nat /\ computeEntitled(a, t) \in Nat /\ v <= a.cap
  BY <1>1, <1>2, EntitledGrows, VestedGrows DEF Allow
<1> QED BY <1>4, <1>5, <1>6, <1>7, <1>8, TermsFair

\* resume starts the curve again from the floor.
LEMMA ResumeFair ==
  ASSUME Sane, NEW a \in Allow, NEW t \in Nat, Sound(a, t), a.status = "paused"
  PROVE  Fair(a, resume(a, t), t)
<1>1. PICK b : b = resume(a, t)
  OBVIOUS
<1>2. b \in Allow
  BY <1>1, Zenon DEF resume, Allow, Status
<1>3. /\ b.cap = a.cap /\ b.auth = a.auth /\ b.floor = a.floor /\ b.status = "active"
      /\ b.anchor = t
      /\ b.spent = a.spent /\ b.back = a.back /\ b.put = a.put /\ b.escrow = a.escrow
  BY <1>1 DEF resume, Allow
<1>4. rateVested(a, t) = a.floor /\ a.cap \in Nat /\ a.floor <= a.cap
  BY DEF rateVested, Lesser, Allow, Sound
<1>5. computeEntitled(b, t) = computeEntitled(a, t)
  BY <1>2, <1>3, <1>4, Anchored
<1>6. computeEntitled(a, t) \in Nat
  BY EntitledGrows
<1> QED BY <1>1, <1>2, <1>3, <1>4, <1>5, <1>6, TermsFair

\* revoke pays what is earned and returns the rest.
LEMMA RevokeFair ==
  ASSUME Sane, NEW a \in Allow, NEW t \in Nat, Sound(a, t), a.status # "revoked"
  PROVE  Fair(a, revoke(a, t), t)
<1>1. PICK x \in Nat : x = Lesser(Unspent(a, t), a.escrow)
  BY UnspentIs DEF Lesser, Allow
<1>2. PICK y \in Nat : y = a.spent + x
  BY <1>1 DEF Allow
<1>3. PICK z \in Nat : z = a.escrow - x
  BY <1>1, UnspentIs DEF Lesser, Allow
<1>4. PICK b : b = [a EXCEPT !.spent = y, !.back = z, !.escrow = 0, !.status = "revoked"]
  OBVIOUS
<1>5. revoke(a, t) = b
  BY <1>1, <1>2, <1>3, <1>4, Zenon DEF revoke
<1>6. b \in Allow
  BY <1>4, Zenon DEF Allow, Status
<1>7. /\ b.cap = a.cap /\ b.spent = y /\ b.back = z /\ b.put = a.put /\ b.escrow = 0
      /\ b.status = "revoked" /\ b.floor = a.floor
  BY <1>4 DEF Allow
<1>8. a.spent \in Nat /\ a.cap \in Nat /\ a.escrow \in Nat /\ a.put \in Nat
  BY DEF Allow
<1>9. y <= a.cap
  <2>1. Unspent(a, t) > 0 => Unspent(a, t) = computeEntitled(a, t) - a.spent
    BY UnspentIs
  <2>2. Unspent(a, t) \in Nat /\ computeEntitled(a, t) \in Nat /\ computeEntitled(a, t) <= a.cap
    BY UnspentIs, EntitledGrows
  <2> QED BY <1>1, <1>2, <1>8, <2>1, <2>2 DEF Sound, Lesser
<1> QED BY <1>2, <1>3, <1>5, <1>6, <1>7, <1>8, <1>9 DEF Fair, Sound

\* top_up only adds to the escrow.
LEMMA TopUpFair ==
  ASSUME Sane, NEW a \in Allow, NEW t \in Nat, Sound(a, t), a.status # "revoked"
  PROVE  Fair(a, [a EXCEPT !.escrow = @ + 1, !.put = @ + 1], t)
<1>1. PICK x \in Nat, y \in Nat : x = a.escrow + 1 /\ y = a.put + 1
  BY DEF Allow
<1>2. PICK b : b = [a EXCEPT !.escrow = x, !.put = y]
  OBVIOUS
<1>3. b \in Allow
  BY <1>2, Zenon DEF Allow
<1>4. /\ b.status = a.status /\ b.floor = a.floor /\ b.cap = a.cap /\ b.rate = a.rate
      /\ b.anchor = a.anchor /\ b.expiry = a.expiry /\ b.auth = a.auth
      /\ b.spent = a.spent /\ b.back = a.back /\ b.put = y /\ b.escrow = x
  BY <1>2 DEF Allow
<1>5. computeEntitled(b, t) = computeEntitled(a, t)
  BY <1>4, SameTerms
<1>6. /\ a.cap \in Nat /\ computeEntitled(a, t) \in Nat /\ a.put \in Nat /\ a.escrow \in Nat
      /\ a.floor <= a.cap
  BY EntitledGrows DEF Allow, Sound
<1>7. Fair(a, b, t)
  BY <1>1, <1>3, <1>4, <1>5, <1>6, TermsFair
<1> QED BY <1>1, <1>2, <1>7

\* set_rate keeps what has vested at the old rate.
LEMMA SetRateFair ==
  ASSUME Sane, NEW a \in Allow, NEW t \in Nat, Sound(a, t), a.status = "active", NEW r \in Nat
  PROVE  Fair(a, [reanchor(a, t) EXCEPT !.rate = r], t)
<1>1. rateVested(a, t) \in Nat
  <2>1. t \in Int /\ t <= t
    OBVIOUS
  <2> QED BY <2>1, VestedGrows
<1>2. PICK v \in Nat : v = rateVested(a, t)
  BY <1>1
<1>3. PICK b : b = [a EXCEPT !.floor = v, !.anchor = t, !.rate = r]
  OBVIOUS
<1>4. [reanchor(a, t) EXCEPT !.rate = r] = b
  BY <1>2, <1>3, Zenon DEF reanchor
<1>5. b \in Allow
  BY <1>3, Zenon DEF Allow
<1>6. /\ b.cap = a.cap /\ b.auth = a.auth /\ b.floor = v /\ b.status = a.status /\ b.anchor = t
      /\ b.spent = a.spent /\ b.back = a.back /\ b.put = a.put /\ b.escrow = a.escrow
  BY <1>3 DEF Allow
<1>7. computeEntitled(b, t) = computeEntitled(a, t)
  BY <1>2, <1>5, <1>6, Anchored
<1>8. a.cap \in Nat /\ computeEntitled(a, t) \in Nat /\ v <= a.cap
  BY <1>2, EntitledGrows, VestedGrows DEF Allow
<1> QED BY <1>4, <1>5, <1>6, <1>7, <1>8, TermsFair

\* increase_cap takes nothing away.
LEMMA IncreaseCapFair ==
  ASSUME Sane, NEW a \in Allow, NEW t \in Nat, Sound(a, t), a.status # "revoked"
  PROVE  Fair(a, [a EXCEPT !.cap = @ + 1], t)
<1>1. PICK c \in Nat : c = a.cap + 1
  BY DEF Allow
<1>2. PICK b : b = [a EXCEPT !.cap = c]
  BY Zenon
<1>3. b \in Allow
  BY <1>2 DEF Allow
<1>4. /\ b.status = a.status /\ b.floor = a.floor /\ b.cap = c /\ b.rate = a.rate
      /\ b.anchor = a.anchor /\ b.expiry = a.expiry /\ b.auth = a.auth
      /\ b.spent = a.spent /\ b.back = a.back /\ b.put = a.put /\ b.escrow = a.escrow
  BY <1>2 DEF Allow
<1>5. /\ a.cap \in Nat /\ a.put \in Nat /\ a.escrow \in Nat /\ a.floor \in Nat /\ a.rate \in Nat
      /\ a.auth \in Nat /\ a.floor <= a.cap /\ t \in Int /\ t <= t
  BY DEF Allow, Sound
<1>6. rateVested(a, t) <= rateVested(b, t)
  <2>1. CASE a.status = "active"
    <3>1. Elapsed(b, t) = Elapsed(a, t)
      BY <1>4, Zenon DEF Elapsed, Deadline
    <3>2. PICK e \in Nat : e = Elapsed(a, t)
      BY <1>5, ElapsedGrows
    <3>3. PICK x \in Nat : x = a.rate * e
      BY <1>5, <3>2, ProductGrows
    <3>4. rateVested(a, t) = Lesser(a.floor + x, a.cap) /\ rateVested(b, t) = Lesser(a.floor + x, c)
      BY <1>4, <2>1, <3>1, <3>2, <3>3, VestedActive
    <3> QED BY <1>1, <1>5, <3>4 DEF Lesser
  <2>2. CASE a.status # "active"
    BY <1>1, <1>4, <1>5, <2>2 DEF rateVested, Lesser
  <2> QED BY <2>1, <2>2
<1>7. rateVested(a, t) \in Nat /\ rateVested(b, t) \in Nat
  BY <1>3, <1>5, VestedGrows
<1>8. computeEntitled(a, t) <= computeEntitled(b, t)
  BY <1>1, <1>4, <1>5, <1>6, <1>7 DEF computeEntitled, Lesser, Greater
<1>9. Fair(a, b, t)
  BY <1>1, <1>3, <1>4, <1>5, <1>8, TermsFair
<1> QED BY <1>1, <1>2, <1>9

\* Two fair calls at one instant make a fair one; the first of them is no revocation.
LEMMA FairTwice ==
  ASSUME Sane, NEW a \in Allow, NEW b, NEW c, NEW t \in Nat, Fair(a, b, t), Fair(b, c, t),
         b.status = "active"
  PROVE  Fair(a, c, t)
<1>1. b \in Allow /\ c \in Allow /\ Sound(c, t)
  BY DEF Fair
<1>2. /\ computeEntitled(a, t) \in Nat /\ computeEntitled(b, t) \in Nat /\ computeEntitled(c, t) \in Nat
  BY <1>1, EntitledGrows
<1> QED BY <1>1, <1>2 DEF Fair

\* A new allowance is sound.
LEMMA CreatedSound ==
  ASSUME Sane, NEW rate \in Nat, NEW cap \in Nat, NEW expiry \in Nat, NEW t \in Nat
  PROVE  Created(rate, cap, expiry, t) \in Allow /\ Sound(Created(rate, cap, expiry, t), t)
<1>1. PICK a : a = Created(rate, cap, expiry, t)
  OBVIOUS
<1>2. a \in Allow
  BY <1>1 DEF Created, Allow, Status
<1>3. /\ a.cap = cap /\ a.put = cap /\ a.escrow = cap /\ a.spent = 0 /\ a.back = 0
      /\ a.status = "active" /\ a.floor = 0
  BY <1>1 DEF Created
<1>4. computeEntitled(a, t) \in Nat
  BY <1>2, EntitledGrows
<1> QED BY <1>1, <1>2, <1>3, <1>4 DEF Sound

\* A claim that would be accepted now still is later.
LEMMA ClaimStaysGood ==
  ASSUME Sane, NEW a \in Allow, NEW x \in Nat, NEW t \in Int, NEW u \in Int, t <= u,
         CanClaim(a, x, t)
  PROVE  CanClaim(a, x, u)
<1>1. a.spent \in Nat
  BY DEF Allow
<1>2. /\ computeEntitled(a, t) \in Nat /\ computeEntitled(a, u) \in Nat
      /\ computeEntitled(a, t) <= computeEntitled(a, u)
  BY EntitledGrows
<1>3. Unspent(a, t) <= Unspent(a, u) /\ Unspent(a, t) \in Nat /\ Unspent(a, u) \in Nat
  BY <1>1, <1>2 DEF Unspent, Greater
<1>4. x <= Unspent(a, u)
  BY <1>3 DEF CanClaim
<1> QED BY <1>4 DEF CanClaim

\* What the window offers to claim the contract would pay at that instant.
LEMMA AvailableIsClaimable ==
  ASSUME Sane, NEW a \in Allow, NEW t \in Int, computeAvailable(a, t) > 0
  PROVE  CanClaim(a, computeAvailable(a, t), t)
<1>1. a.spent \in Nat /\ a.escrow \in Nat /\ a.cap \in Nat
  BY DEF Allow
<1>2. a.status = "active"
  BY DEF computeAvailable
<1>3. computeAvailable(a, t) = Lesser(Unspent(a, t), a.escrow)
  BY <1>2 DEF computeAvailable
<1>4. /\ Unspent(a, t) \in Nat
      /\ Unspent(a, t) > 0 => Unspent(a, t) = computeEntitled(a, t) - a.spent
  BY UnspentIs
<1>5. computeEntitled(a, t) \in Nat /\ computeEntitled(a, t) <= a.cap
  BY EntitledGrows
<1> QED BY <1>1, <1>2, <1>3, <1>4, <1>5 DEF CanClaim, Lesser

\* It is an amount.
LEMMA AvailableIsAmount ==
  ASSUME Sane, NEW a \in Allow, NEW t \in Int
  PROVE  computeAvailable(a, t) \in Nat
BY UnspentIs DEF computeAvailable, Lesser, Allow

-----------------------------------------------------------------------------
\* The window.

Txs ==
    [op : {"none", "deploy", "pay", "pause", "resume", "stop"}, k : Nat,
     stage : {"none", "sign", "find", "read"}, amount : Nat, fresh : BOOLEAN]
Snaps == {<<>>} \cup {<<a>> : a \in Allow}
World ==
    [now : Nat, clk : Nat, made : Nat, chain : Seq(Allow), prev : Seq(Allow), calls : Nat,
     id : Nat, snap : Snaps, tx : Txs]

\* The window and its transaction name allowances that exist, and the Sui clock lags within
\* the skew.
TypeInv ==
    /\ st \in World
    /\ Len(st.chain) = st.made /\ Len(st.prev) = st.made /\ st.id <= st.made
    /\ st.clk <= st.now /\ st.now - st.clk <= CLAIM_SKEW_MS
    /\ st.tx.stage \in {"find", "read"} => st.tx.k \in 1..st.made
    /\ st.tx.stage = "sign" /\ st.tx.op # "deploy" =>
         st.tx.op # "none" /\ st.tx.k \in 1..st.made

ChainInv == \A k \in 1..st.made : Sound(st.chain[k], st.clk)

\* A claim on a current snapshot would be accepted.
FreshInv ==
    st.tx.stage = "sign" /\ st.tx.op = "pay" /\ st.tx.fresh =>
      CanClaim(st.chain[st.tx.k], st.tx.amount, st.clk)

AInv == TypeInv /\ ChainInv /\ FreshInv

\* How a step may change the allowances: not at all, by a fair call on one of them, or by
\* a sound new one.
Untouched == st'.chain = st.chain /\ st'.made = st.made /\ st.clk <= st'.clk
Called(k, b) ==
    /\ st'.chain = [st.chain EXCEPT ![k] = b] /\ st'.made = st.made /\ st'.clk = st.clk
    /\ Fair(st.chain[k], b, st.clk)
Deployed(a) ==
    /\ st'.chain = Append(st.chain, a) /\ st'.made = st.made + 1 /\ st'.clk = st.clk
    /\ a \in Allow /\ Sound(a, st.clk)

\* Soundness only improves as time passes.
LEMMA SoundLater ==
  ASSUME Sane, NEW a \in Allow, NEW t \in Nat, NEW u \in Nat, t <= u, Sound(a, t)
  PROVE  Sound(a, u) /\ computeEntitled(a, t) <= computeEntitled(a, u)
<1>1. /\ computeEntitled(a, t) \in Nat /\ computeEntitled(a, u) \in Nat
      /\ computeEntitled(a, t) <= computeEntitled(a, u)
  BY EntitledGrows
<1>2. a.spent \in Nat
  BY DEF Allow
<1> QED BY <1>1, <1>2 DEF Sound

\* Each of the three keeps every allowance sound and what was earned.
LEMMA ChainStep ==
  ASSUME Sane, TypeInv, TypeInv', ChainInv,
         \/ Untouched
         \/ \E k \in 1..st.made, b \in Allow : Called(k, b)
         \/ \E a \in Allow : Deployed(a)
  PROVE  ChainInv' /\ EarnedStays(st, st')
<1>1. /\ st.chain \in Seq(Allow) /\ Len(st.chain) = st.made /\ st.made \in Nat
      /\ st.clk \in Nat /\ st'.clk \in Nat
  BY DEF TypeInv, World
<1>2. \A k \in 1..st.made : st.chain[k] \in Allow
  BY <1>1
<1>3. CASE Untouched
  <2>1. \A k \in 1..st.made : /\ Sound(st.chain[k], st'.clk)
                              /\ computeEntitled(st.chain[k], st.clk) <= computeEntitled(st.chain[k], st'.clk)
    BY <1>1, <1>2, <1>3, SoundLater DEF Untouched, ChainInv
  <2> QED BY <1>3, <2>1 DEF Untouched, ChainInv, EarnedStays
<1>4. ASSUME NEW k \in 1..st.made, NEW b \in Allow, Called(k, b)
      PROVE  ChainInv' /\ EarnedStays(st, st')
  <2>1. \A j \in 1..st.made : st'.chain[j] = IF j = k THEN b ELSE st.chain[j]
    BY <1>1, <1>4 DEF Called
  <2>2. Sound(b, st.clk)
    BY <1>4 DEF Called, Fair
  <2>3. b.status # "revoked" => computeEntitled(st.chain[k], st.clk) <= computeEntitled(b, st.clk)
    BY <1>4 DEF Called, Fair
  <2>4. \A j \in 1..st.made : /\ Sound(st.chain[j], st.clk)
                              /\ computeEntitled(st.chain[j], st.clk) <= computeEntitled(st.chain[j], st.clk)
    BY <1>1, <1>2, SoundLater DEF ChainInv
  <2>5. ChainInv'
    <3> SUFFICES ASSUME NEW j \in 1..st'.made PROVE Sound(st'.chain[j], st'.clk)
      BY DEF ChainInv
    <3>1. j \in 1..st.made /\ st'.clk = st.clk
      BY <1>4 DEF Called
    <3> QED BY <2>1, <2>2, <2>4, <3>1
  <2>6. EarnedStays(st, st')
    <3> SUFFICES ASSUME NEW j \in 1..st.made, st'.chain[j].status # "revoked"
                 PROVE  computeEntitled(st.chain[j], st.clk) <= computeEntitled(st'.chain[j], st'.clk)
      BY DEF EarnedStays
    <3>1. st'.clk = st.clk
      BY <1>4 DEF Called
    <3> QED BY <2>1, <2>3, <2>4, <3>1
  <2> QED BY <2>5, <2>6
<1>5. ASSUME NEW a \in Allow, Deployed(a)
      PROVE  ChainInv' /\ EarnedStays(st, st')
  <2>1. \A j \in 1..st.made : st'.chain[j] = st.chain[j]
    BY <1>1, <1>5 DEF Deployed
  <2>2. st'.chain[st.made + 1] = a /\ st'.made = st.made + 1 /\ st'.clk = st.clk
    BY <1>1, <1>5 DEF Deployed
  <2>3. \A j \in 1..st.made : /\ Sound(st.chain[j], st.clk)
                              /\ computeEntitled(st.chain[j], st.clk) <= computeEntitled(st.chain[j], st.clk)
    BY <1>1, <1>2, SoundLater DEF ChainInv
  <2>4. ChainInv'
    <3> SUFFICES ASSUME NEW j \in 1..st'.made PROVE Sound(st'.chain[j], st'.clk)
      BY DEF ChainInv
    <3>1. CASE j = st.made + 1
      BY <1>5, <2>2, <3>1, Zenon DEF Deployed
    <3>2. CASE j # st.made + 1
      <4>1. j \in 1..st.made
        BY <1>1, <2>2, <3>2
      <4> QED BY <2>1, <2>2, <2>3, <4>1
    <3> QED BY <3>1, <3>2
  <2>5. EarnedStays(st, st')
    BY <2>1, <2>2, <2>3 DEF EarnedStays
  <2> QED BY <2>4, <2>5
<1> QED BY <1>3, <1>4, <1>5

-----------------------------------------------------------------------------
\* The steps.

\* What a step does to the allowances, and what it leaves to be shown.
Steps ==
    /\ TypeInv' /\ FreshInv'
    /\ \/ Untouched
       \/ \E k \in 1..st.made, b \in Allow : Called(k, b)
       \/ \E a \in Allow : Deployed(a)

\* A claim on a current snapshot survives everything but a transaction on its allowance.
LEMMA FreshKept ==
  ASSUME Sane, AInv, TypeInv', Untouched, st'.tx = st.tx
  PROVE  FreshInv'
<1> SUFFICES ASSUME st.tx.stage = "sign", st.tx.op = "pay", st.tx.fresh
             PROVE  CanClaim(st.chain[st.tx.k], st.tx.amount, st'.clk)
  BY DEF FreshInv, Untouched
<1>1. CanClaim(st.chain[st.tx.k], st.tx.amount, st.clk)
  BY DEF AInv, FreshInv
<1>2. st.tx.k \in 1..st.made /\ st.chain \in Seq(Allow) /\ Len(st.chain) = st.made
  BY DEF AInv, TypeInv, World
<1>3. st.chain[st.tx.k] \in Allow
  BY <1>2
<1>4. st.tx.amount \in Nat /\ st.clk \in Nat /\ st'.clk \in Nat
  BY DEF AInv, TypeInv, World, Txs
<1> QED BY <1>1, <1>3, <1>4, ClaimStaysGood DEF Untouched

\* The clocks.
LEMMA ClockSteps ==
  ASSUME Sane, AInv, WallClock \/ SuiClock
  PROVE  Steps
<1>1. PICK n \in Nat, c \in Nat : /\ st' = [st EXCEPT !.now = n, !.clk = c]
                                  /\ st.clk <= c /\ c <= n /\ n - c <= CLAIM_SKEW_MS
  <2>1. st.now \in Nat /\ st.clk \in Nat /\ st.clk <= st.now /\ st.now - st.clk <= CLAIM_SKEW_MS
        /\ CLAIM_SKEW_MS \in Nat /\ st \in World
    BY DEF AInv, TypeInv, World, Sane
  <2>2. CASE WallClock
    <3>1. PICK m \in Nat, d \in Nat : m = st.now + 1 /\ d = st.clk
      BY <2>1
    <3>2. st' = [st EXCEPT !.now = m, !.clk = d]
      BY <2>1, <2>2, <3>1, Zenon DEF WallClock, World
    <3>3. st.clk <= d /\ d <= m /\ m - d <= CLAIM_SKEW_MS
      BY <2>1, <2>2, <3>1 DEF WallClock
    <3> QED BY <3>2, <3>3, Zenon
  <2>3. CASE SuiClock
    <3>1. PICK m \in Nat, d \in Nat : m = st.now /\ d = st.clk + 1
      BY <2>1
    <3>2. st' = [st EXCEPT !.now = m, !.clk = d]
      BY <2>1, <2>3, <3>1, Zenon DEF SuiClock, World
    <3>3. st.clk <= d /\ d <= m /\ m - d <= CLAIM_SKEW_MS
      BY <2>1, <2>3, <3>1 DEF SuiClock
    <3> QED BY <3>2, <3>3, Zenon
  <2> QED BY <2>2, <2>3, Zenon
<1>2. st' \in World
  BY <1>1, Zenon DEF AInv, TypeInv, World
<1>3. /\ st'.now = n /\ st'.clk = c /\ st'.made = st.made /\ st'.chain = st.chain
      /\ st'.prev = st.prev /\ st'.id = st.id /\ st'.tx = st.tx
  BY <1>1 DEF AInv, TypeInv, World
<1>4. TypeInv'
  BY <1>1, <1>2, <1>3 DEF AInv, TypeInv
<1>5. Untouched
  BY <1>1, <1>3 DEF Untouched
<1> QED BY <1>3, <1>4, <1>5, FreshKept DEF Steps

\* A step that only changes what the window shows or sends.
LEMMA WindowStep ==
  ASSUME Sane, AInv, NEW i \in 0..st.made, NEW s \in Snaps, NEW x \in Txs,
         st' = [st EXCEPT !.id = i, !.snap = s, !.tx = x],
         x.stage \in {"find", "read"} => x.k \in 1..st.made,
         x.stage = "sign" /\ x.op # "deploy" => x.op # "none" /\ x.k \in 1..st.made,
         \/ x = st.tx
         \/ x.stage = "sign" /\ x.op = "pay" /\ x.fresh => CanClaim(st.chain[x.k], x.amount, st.clk)
  PROVE  Steps
<1>1. st' \in World
  <2>1. i \in Nat
    BY DEF AInv, TypeInv, World
  <2> QED BY <2>1, Zenon DEF AInv, TypeInv, World
<1>2. /\ st'.now = st.now /\ st'.clk = st.clk /\ st'.made = st.made /\ st'.chain = st.chain
      /\ st'.prev = st.prev /\ st'.id = i /\ st'.tx = x
  BY DEF AInv, TypeInv, World
<1>3. TypeInv'
  <2>1. i <= st.made
    BY DEF AInv, TypeInv, World
  <2> QED BY <1>1, <1>2, <2>1 DEF AInv, TypeInv
<1>4. Untouched
  <2>1. st.clk \in Nat
    BY DEF AInv, TypeInv, World
  <2> QED BY <1>2, <2>1 DEF Untouched
<1>5. FreshInv'
  <2>1. CASE x = st.tx
    BY <1>2, <1>3, <1>4, <2>1, FreshKept
  <2>2. CASE x.stage = "sign" /\ x.op = "pay" /\ x.fresh => CanClaim(st.chain[x.k], x.amount, st.clk)
    BY <1>2, <2>2 DEF FreshInv
  <2> QED BY <2>1, <2>2
<1> QED BY <1>3, <1>4, <1>5 DEF Steps

\* A call on allowance k: from elsewhere, or the window's own.
LEMMA CallStep ==
  ASSUME Sane, AInv, NEW k \in 1..st.made, NEW b \in Allow, Fair(st.chain[k], b, st.clk),
         \/ st' = [Put(st, k, b) EXCEPT !.calls = @ + 1]
         \/ st.tx.k = k /\ st' = [Put(st, k, b) EXCEPT !.tx.stage = "read"]
  PROVE  Steps
<1>1. /\ st \in World /\ st.chain \in Seq(Allow) /\ st.prev \in Seq(Allow)
      /\ Len(st.chain) = st.made /\ Len(st.prev) = st.made /\ st.tx \in Txs /\ st.calls \in Nat
  BY DEF AInv, TypeInv, World
<1>2. PICK c \in Seq(Allow) : c = [st.chain EXCEPT ![k] = b] /\ Len(c) = st.made
  <2>1. [st.chain EXCEPT ![k] = b] \in Seq(Allow) /\ Len([st.chain EXCEPT ![k] = b]) = st.made
    BY <1>1
  <2> QED BY <2>1, Zenon
<1>3. PICK p \in Seq(Allow) : p = [st.prev EXCEPT ![k] = st.chain[k]] /\ Len(p) = st.made
  <2>1. st.chain[k] \in Allow
    BY <1>1
  <2>2. [st.prev EXCEPT ![k] = st.chain[k]] \in Seq(Allow)
        /\ Len([st.prev EXCEPT ![k] = st.chain[k]]) = st.made
    BY <1>1, <2>1
  <2> QED BY <2>2, Zenon
<1>4. PICK f \in BOOLEAN : f = (st.tx.fresh /\ st.tx.k # k)
  BY Zenon
<1>5. PICK x \in Txs : x = [st.tx EXCEPT !.fresh = f]
  <2>1. [st.tx EXCEPT !.fresh = f] \in Txs
    BY <1>1, Zenon DEF Txs
  <2> QED BY <2>1
<1>6. Put(st, k, b) = [st EXCEPT !.chain = c, !.prev = p, !.tx = x]
  BY <1>2, <1>3, <1>4, <1>5, Zenon DEF Put
<1>7. /\ x.stage = st.tx.stage /\ x.op = st.tx.op /\ x.k = st.tx.k /\ x.amount = st.tx.amount
      /\ x.fresh = f
  BY <1>1, <1>5 DEF Txs
<1>8. CASE st' = [Put(st, k, b) EXCEPT !.calls = @ + 1]
  <2> PICK n \in Nat : n = st.calls + 1
    BY <1>1
  <2>1. st' = [st EXCEPT !.chain = c, !.prev = p, !.tx = x, !.calls = n]
    BY <1>1, <1>6, <1>8 DEF World
  <2>2. st' \in World
    BY <1>1, <2>1, Zenon DEF World
  <2>3. /\ st'.now = st.now /\ st'.clk = st.clk /\ st'.made = st.made /\ st'.chain = c
        /\ st'.prev = p /\ st'.id = st.id /\ st'.tx = x
    BY <1>1, <2>1 DEF World
  <2>4. TypeInv'
    BY <1>2, <1>3, <1>7, <2>2, <2>3 DEF AInv, TypeInv
  <2>5. Called(k, b)
    BY <1>2, <2>3 DEF Called
  <2>6. FreshInv'
    <3> SUFFICES ASSUME x.stage = "sign", x.op = "pay", f
                 PROVE  CanClaim(c[x.k], x.amount, st.clk)
      BY <1>7, <2>3 DEF FreshInv
    <3>1. st.tx.k # k /\ st.tx.fresh
      BY <1>4, Zenon
    <3>2. c[st.tx.k] = st.chain[st.tx.k]
      BY <1>1, <1>2, <1>7, <3>1 DEF AInv, TypeInv
    <3> QED BY <1>7, <3>1, <3>2 DEF AInv, FreshInv
  <2> QED BY <2>4, <2>5, <2>6 DEF Steps
<1>9. CASE st.tx.k = k /\ st' = [Put(st, k, b) EXCEPT !.tx.stage = "read"]
  <2>1. PICK y \in Txs : y = [x EXCEPT !.stage = "read"]
    <3>1. [x EXCEPT !.stage = "read"] \in Txs
      BY DEF Txs
    <3> QED BY <3>1
  <2>2. st' = [st EXCEPT !.chain = c, !.prev = p, !.tx = y]
    BY <1>1, <1>6, <1>9, <2>1, Zenon DEF World
  <2>3. y.stage = "read" /\ y.k = k
    BY <1>7, <1>9, <2>1 DEF Txs
  <2>4. st' \in World
    BY <1>1, <2>2, Zenon DEF World
  <2>5. /\ st'.now = st.now /\ st'.clk = st.clk /\ st'.made = st.made /\ st'.chain = c
        /\ st'.prev = p /\ st'.id = st.id /\ st'.tx = y
    BY <1>1, <2>2 DEF World
  <2>6. TypeInv'
    BY <1>2, <1>3, <2>3, <2>4, <2>5 DEF AInv, TypeInv
  <2>7. Called(k, b)
    BY <1>2, <2>5 DEF Called
  <2>8. FreshInv'
    BY <2>3, <2>5 DEF FreshInv
  <2> QED BY <2>6, <2>7, <2>8 DEF Steps
<1> QED BY <1>8, <1>9

\* The transaction a press builds, and the window that signs it; `fresh` is set only when
\* the snapshot is the allowance as it is.
Press(op, k, amount) == [op |-> op, k |-> k, stage |-> "sign", amount |-> amount, fresh |-> FALSE]
Signing(op, k, amount) ==
    \E x \in Txs :
      /\ st' = [st EXCEPT !.id = st.id, !.snap = st.snap, !.tx = x]
      /\ x.op = op /\ x.k = k /\ x.stage = "sign" /\ x.amount = amount
      /\ x.fresh => k # 0 /\ st.snap[1] = st.chain[k]

\* run stores what was built: field by field.
LEMMA RunIs ==
  ASSUME AInv, NEW op \in {"deploy", "pay", "pause", "resume", "stop"}, NEW k \in Nat,
         NEW amount \in Nat, st' = run(st, Press(op, k, amount))
  PROVE  Signing(op, k, amount)
<1>1. PICK f \in BOOLEAN : f = (k # 0 /\ st.snap[1] = st.chain[k])
  BY Zenon
<1>2. PICK x : x = [op |-> op, k |-> k, stage |-> "sign", amount |-> amount, fresh |-> f]
  BY Zenon
<1>3. x \in Txs
  BY <1>2 DEF Txs
<1>4. Press(op, k, amount).k = k /\ x = [Press(op, k, amount) EXCEPT !.fresh = f]
  BY <1>2 DEF Press
<1>5. st' = [st EXCEPT !.tx = x]
  BY <1>1, <1>4, Zenon DEF run, Snap
<1>6. st' = [st EXCEPT !.id = st.id, !.snap = st.snap, !.tx = x]
  BY <1>5, Zenon DEF AInv, TypeInv, World
<1> QED BY <1>1, <1>2, <1>3, <1>6, Zenon DEF Signing

\* A record of the right fields is told by them.
LEMMA SameTx ==
  ASSUME NEW x \in Txs, NEW y \in Txs, x.op = y.op, x.k = y.k, x.stage = y.stage,
         x.amount = y.amount, x.fresh = y.fresh
  PROVE  x = y
BY DEF Txs

\* What the three builders build.
LEMMA Builders ==
  ASSUME NEW op \in {"deploy", "pay", "pause", "resume", "stop"}, NEW k \in Nat, NEW amount \in Nat
  PROVE  /\ buildCreateAllowanceTx = Press("deploy", 0, 0)
         /\ buildClaimTx(k, amount) = Press("pay", k, amount)
         /\ buildClockOnlyTx(op, k) = Press(op, k, 0)
<1>1. PICK i \in Txs : i = Idle /\ i.amount = 0 /\ i.k = 0 /\ i.fresh = FALSE
  <2>1. Idle \in Txs /\ Idle.amount = 0 /\ Idle.k = 0 /\ Idle.fresh = FALSE
    BY DEF Idle, Txs
  <2> QED BY <2>1
<1> DEFINE Filled(o, j, n) == [i EXCEPT !.op = o, !.k = j, !.amount = n, !.stage = "sign"]
<1>2. ASSUME NEW o \in {"deploy", "pay", "pause", "resume", "stop"}, NEW j \in Nat, NEW n \in Nat
      PROVE  Filled(o, j, n) = Press(o, j, n)
  <2>1. PICK x : x = Filled(o, j, n)
    OBVIOUS
  <2>2. PICK y : y = Press(o, j, n)
    OBVIOUS
  <2>3. x \in Txs
    BY <2>1, Zenon DEF Txs
  <2>4. y \in Txs
    BY <2>2 DEF Press, Txs
  <2>5. x.op = o /\ x.k = j /\ x.amount = n /\ x.stage = "sign" /\ x.fresh = FALSE
    BY <1>1, <2>1 DEF Txs
  <2>6. y.op = o /\ y.k = j /\ y.amount = n /\ y.stage = "sign" /\ y.fresh = FALSE
    BY <2>2 DEF Press
  <2>7. x = y
    BY <2>3, <2>4, <2>5, <2>6, SameTx, Zenon
  <2> QED BY <2>1, <2>2, <2>7, Zenon
<1>3. buildCreateAllowanceTx = Filled("deploy", 0, 0)
  BY <1>1, Zenon DEF buildCreateAllowanceTx, Txs
<1>4. buildClaimTx(k, amount) = Filled("pay", k, amount)
  BY <1>1, Zenon DEF buildClaimTx
<1>5. buildClockOnlyTx(op, k) = Filled(op, k, 0)
  BY <1>1, Zenon DEF buildClockOnlyTx, Txs
<1> HIDE DEF Filled
<1> QED BY <1>2, <1>3, <1>4, <1>5

\* A dashboard is shown of an allowance that exists, with a snapshot.
LEMMA OnDashboard ==
  ASSUME AInv, NEW x \in {"pay", "pause", "resume", "stop", "new"}, x \in Offers(st)
  PROVE  st.id \in 1..st.made /\ st.snap # <<>> /\ x \in DashboardOffers(st)
<1>1. st.id # 0 /\ Shown(st) /\ x \in DashboardOffers(st)
  BY DEF Offers, FormOffers
<1>2. st.id \in Nat /\ st.made \in Nat /\ st.id <= st.made
  BY DEF AInv, TypeInv, World
<1> QED BY <1>1, <1>2 DEF Shown

\* The buttons: a claim is computed at a time the Sui clock has passed.
LEMMA PressSteps ==
  ASSUME Sane, AInv, onDeploy \/ onSettle \/ onPause \/ onResume \/ onRevoke \/ reset
  PROVE  Steps
<1>1. /\ st \in World /\ st.id \in 0..st.made /\ st.snap \in Snaps /\ st.tx \in Txs /\ 0 \in Nat
      /\ 0 \in 0..st.made
  BY DEF AInv, TypeInv, World
<1>2. ASSUME NEW op \in {"deploy", "pay", "pause", "resume", "stop"}, NEW k \in Nat, NEW amount \in Nat,
             st' = run(st, Press(op, k, amount)), op # "deploy" => k \in 1..st.made,
             op = "pay" /\ st.snap[1] = st.chain[k] => CanClaim(st.chain[k], amount, st.clk)
      PROVE  Steps
  <2> Signing(op, k, amount)
    BY <1>2, RunIs
  <2>1. PICK x \in Txs : /\ st' = [st EXCEPT !.id = st.id, !.snap = st.snap, !.tx = x]
                         /\ x.op = op /\ x.k = k /\ x.stage = "sign" /\ x.amount = amount
                         /\ x.fresh => k # 0 /\ st.snap[1] = st.chain[k]
    BY Zenon DEF Signing
  <2>2. x.stage \in {"find", "read"} => x.k \in 1..st.made
    BY <2>1
  <2>3. x.stage = "sign" /\ x.op # "deploy" => x.op # "none" /\ x.k \in 1..st.made
    BY <1>2, <2>1
  <2>4. x.stage = "sign" /\ x.op = "pay" /\ x.fresh => CanClaim(st.chain[x.k], x.amount, st.clk)
    BY <1>2, <2>1
  <2> QED BY <1>1, <2>1, <2>2, <2>3, <2>4, WindowStep, Zenon
<1>3. CASE onDeploy
  <2>1. st' = run(st, Press("deploy", 0, 0))
    BY <1>1, <1>3, Builders DEF onDeploy
  <2> QED BY <1>1, <1>2, <2>1
<1>4. CASE onSettle
  <2>1. st.id \in 1..st.made /\ st.snap # <<>> /\ "pay" \in DashboardOffers(st)
    BY <1>4, OnDashboard DEF onSettle
  <2>2. PICK a \in Allow : st.snap = <<a>>
    BY <1>1, <2>1 DEF Snaps
  <2>3. PICK t \in Int : t = st.now - CLAIM_SKEW_MS /\ t <= st.clk /\ st.clk \in Int
    BY DEF AInv, TypeInv, World, Sane
  <2>4. Claimable(st) = computeAvailable(a, t)
    BY <2>2, <2>3 DEF Claimable, Snap
  <2>5. PICK n \in Nat : n = computeAvailable(a, t)
    BY AvailableIsAmount
  <2>6. n > 0
    BY <2>1, <2>4, <2>5 DEF DashboardOffers
  <2>7. CanClaim(a, n, st.clk)
    BY <2>3, <2>5, <2>6, AvailableIsClaimable, ClaimStaysGood
  <2>8. st.id \in Nat /\ st.snap[1] = a
    BY <1>1, <2>2 DEF World
  <2>9. st' = run(st, Press("pay", st.id, n))
    BY <1>4, <2>4, <2>5, <2>8, Builders DEF onSettle
  <2> QED BY <1>2, <2>1, <2>7, <2>8, <2>9
<1>5. ASSUME NEW op \in {"pause", "resume", "stop"}, op \in Offers(st), st' = run(st, buildClockOnlyTx(op, st.id))
      PROVE  Steps
  <2>1. st.id \in 1..st.made /\ st.id \in Nat
    BY <1>1, <1>5, OnDashboard DEF World
  <2>2. st' = run(st, Press(op, st.id, 0))
    BY <1>5, <2>1, Builders
  <2> QED BY <1>1, <1>2, <1>5, <2>1, <2>2
<1>6. CASE reset
  <2>1. st' = [st EXCEPT !.id = 0, !.snap = <<>>, !.tx = st.tx]
    BY <1>1, <1>6, Zenon DEF reset, World
  <2>2. <<>> \in Snaps
    BY DEF Snaps
  <2> QED BY <1>1, <2>1, <2>2, WindowStep, Zenon DEF AInv, TypeInv
<1> QED BY <1>3, <1>4, <1>5, <1>6 DEF onPause, onResume, onRevoke

\* A transaction that ends, with or without an answer, leaves an idle window.
LEMMA IdleStep ==
  ASSUME Sane, AInv, NEW s \in Snaps, st' = [st EXCEPT !.snap = s, !.tx = Idle]
  PROVE  Steps
<1>1. st \in World /\ st.id \in 0..st.made
  BY DEF AInv, TypeInv, World
<1>2. Idle \in Txs /\ Idle.stage = "none"
  BY DEF Idle, Txs
<1>3. st' = [st EXCEPT !.id = st.id, !.snap = s, !.tx = Idle]
  BY <1>1, Zenon DEF World
<1> QED BY <1>1, <1>2, <1>3, WindowStep, Zenon

\* Answers and reads: what is read is the allowance, or the allowance before the last call.
LEMMA AnswerSteps ==
  ASSUME Sane, AInv,
         Rejected \/ findCreatedAllowanceId \/ NotIndexed \/ fetchAllowance \/ readFails \/ poll
  PROVE  Steps
<1>1. /\ st \in World /\ st.made \in Nat /\ st.id \in 0..st.made /\ st.snap \in Snaps /\ st.tx \in Txs
      /\ st.chain \in Seq(Allow) /\ st.prev \in Seq(Allow)
      /\ Len(st.chain) = st.made /\ Len(st.prev) = st.made
  BY DEF AInv, TypeInv, World
<1>2. \A k \in 1..st.made : Reads(k) \subseteq Allow
  BY <1>1 DEF Reads
<1>3. CASE Rejected \/ NotIndexed \/ readFails
  <2>1. st' = [st EXCEPT !.snap = st.snap, !.tx = Idle]
    BY <1>1, <1>3, Zenon DEF Rejected, NotIndexed, readFails, World
  <2> QED BY <1>1, <2>1, IdleStep, Zenon
<1>4. CASE findCreatedAllowanceId
  <2>1. st.tx.k \in 1..st.made
    BY <1>4 DEF findCreatedAllowanceId, AInv, TypeInv
  <2>2. PICK i \in 0..st.made : i = st.tx.k
    BY <1>1, <2>1
  <2>3. PICK x \in Txs : x = [st.tx EXCEPT !.stage = "read"]
    <3>1. [st.tx EXCEPT !.stage = "read"] \in Txs
      BY <1>1 DEF Txs
    <3> QED BY <3>1
  <2>4. x.stage = "read" /\ x.k = st.tx.k
    BY <1>1, <2>3 DEF Txs
  <2>5. st' = [st EXCEPT !.id = i, !.snap = st.snap, !.tx = x]
    BY <1>1, <1>4, <2>2, <2>3, Zenon DEF findCreatedAllowanceId, World
  <2> QED BY <1>1, <2>1, <2>4, <2>5, WindowStep, Zenon
<1>5. CASE fetchAllowance
  <2>1. st.tx.k \in 1..st.made
    BY <1>5, Zenon DEF fetchAllowance, AInv, TypeInv
  <2>2. PICK a \in Allow : st' = [st EXCEPT !.snap = <<a>>, !.tx = Idle]
    BY <1>2, <1>5, <2>1, Zenon DEF fetchAllowance
  <2>3. <<a>> \in Snaps
    BY DEF Snaps
  <2> QED BY <2>2, <2>3, IdleStep, Zenon
<1>6. CASE poll
  <2>1. st.id \in 1..st.made
    BY <1>1, <1>6 DEF poll
  <2>2. PICK a \in Allow : st' = [st EXCEPT !.snap = <<a>>]
    BY <1>2, <1>6, <2>1 DEF poll
  <2>3. PICK s \in Snaps : s = <<a>>
    BY Zenon DEF Snaps
  <2>4. st' = [st EXCEPT !.id = st.id, !.snap = s, !.tx = st.tx]
    BY <1>1, <2>2, <2>3, Zenon DEF World
  <2> QED BY <1>1, <2>4, WindowStep, Zenon DEF AInv, TypeInv
<1> QED BY <1>3, <1>4, <1>5, <1>6

\* A sound allowance exists for every number that was given out.
LEMMA OnChain ==
  ASSUME AInv, NEW k \in 1..st.made
  PROVE  st.chain[k] \in Allow /\ Sound(st.chain[k], st.clk) /\ st.clk \in Nat
<1>1. st.chain \in Seq(Allow) /\ Len(st.chain) = st.made /\ st.clk \in Nat
  BY DEF AInv, TypeInv, World
<1>2. Sound(st.chain[k], st.clk)
  BY DEF AInv, ChainInv
<1> QED BY <1>1, <1>2

\* Calls from elsewhere.
LEMMA ScriptSteps ==
  ASSUME Sane, AInv, NEW k \in 1..st.made,
         \/ claimScript(k) \/ authorizeSpend(k) \/ claimWithVoucher(k)
         \/ topUp(k) \/ setRate(k) \/ increaseCap(k)
         \/ pauseAllowance(k) \/ resumeAllowance(k) \/ revokeAllowance(k)
  PROVE  Steps
<1>1. PICK a \in Allow : a = st.chain[k] /\ Sound(a, st.clk) /\ st.clk \in Nat
  BY OnChain
<1>2. ASSUME NEW b, Fair(a, b, st.clk), Call(k, b)
      PROVE  Steps
  <2>1. b \in Allow
    BY <1>2 DEF Fair
  <2> QED BY <1>1, <1>2, <2>1, CallStep, Zenon DEF Call
<1>3. CASE claimScript(k)
  <2>1. PICK amount \in 1..a.cap : CanClaim(a, amount, st.clk) /\ Call(k, claim(a, amount))
    BY <1>1, <1>3 DEF claimScript
  <2>2. amount \in Int
    OBVIOUS
  <2>3. Fair(a, claim(a, amount), st.clk)
    BY <1>1, <2>1, <2>2, ClaimFair
  <2> QED BY <1>2, <2>1, <2>3
<1>4. CASE authorizeSpend(k)
  <2>1. PICK total \in 1..a.cap : CanAuthorize(a, total) /\ Call(k, [a EXCEPT !.auth = total])
    BY <1>1, <1>4 DEF authorizeSpend
  <2>2. PICK b : b = [a EXCEPT !.auth = total]
    BY Zenon
  <2>3. Fair(a, b, st.clk)
    BY <1>1, <2>1, <2>2, AuthorizeFair
  <2> QED BY <1>2, <2>1, <2>2, <2>3
<1>5. CASE claimWithVoucher(k)
  <2>1. PICK total \in 1..a.cap, amount \in 1..a.cap :
          /\ CanAuthorize(a, total)
          /\ CanClaim([a EXCEPT !.auth = total], amount, st.clk)
          /\ Call(k, claim([a EXCEPT !.auth = total], amount))
    BY <1>1, <1>5 DEF claimWithVoucher
  <2>2. PICK b : b = [a EXCEPT !.auth = total]
    BY Zenon
  <2>3. Fair(a, b, st.clk)
    BY <1>1, <2>1, <2>2, AuthorizeFair
  <2>4. CanClaim(b, amount, st.clk) /\ Call(k, claim(b, amount)) /\ amount \in Int
    BY <2>1, <2>2
  <2>5. b \in Allow /\ Sound(b, st.clk)
    BY <2>3 DEF Fair
  <2>6. PICK c : c = claim(b, amount)
    OBVIOUS
  <2>7. Fair(b, c, st.clk)
    BY <1>1, <2>4, <2>5, <2>6, ClaimFair
  <2>8. b.status = "active"
    BY <2>4 DEF CanClaim
  <2>9. Fair(a, c, st.clk)
    BY <1>1, <2>3, <2>7, <2>8, FairTwice
  <2> QED BY <1>2, <2>4, <2>6, <2>9
<1>6. CASE topUp(k)
  BY <1>1, <1>2, <1>6, TopUpFair, Zenon DEF topUp
<1>7. CASE setRate(k)
  <2>1. PICK r \in Nat : a.status = "active" /\ Call(k, [reanchor(a, st.clk) EXCEPT !.rate = r])
    BY <1>1, <1>7 DEF setRate, Sane
  <2> QED BY <1>1, <1>2, <2>1, SetRateFair
<1>8. CASE increaseCap(k)
  BY <1>1, <1>2, <1>8, IncreaseCapFair DEF increaseCap
<1>9. CASE pauseAllowance(k)
  BY <1>1, <1>2, <1>9, PauseFair DEF pauseAllowance
<1>10. CASE resumeAllowance(k)
  BY <1>1, <1>2, <1>10, ResumeFair DEF resumeAllowance
<1>11. CASE revokeAllowance(k)
  BY <1>1, <1>2, <1>11, RevokeFair DEF revokeAllowance
<1> QED BY <1>3, <1>4, <1>5, <1>6, <1>7, <1>8, <1>9, <1>10, <1>11

\* The window's own transaction reaches the chain: signExec.
LEMMA SignSteps ==
  ASSUME Sane, AInv, signExec
  PROVE  Steps
<1>1. /\ st \in World /\ st.made \in Nat /\ st.now \in Nat /\ st.clk \in Nat /\ st.snap \in Snaps
      /\ st.tx \in Txs /\ st.chain \in Seq(Allow) /\ st.prev \in Seq(Allow)
      /\ Len(st.chain) = st.made /\ Len(st.prev) = st.made /\ st.id <= st.made /\ st.id \in Nat
  BY DEF AInv, TypeInv, World
<1>2. CASE st.tx.op = "deploy"
  <2>1. PICK rate \in Rates, cap \in Caps, expiry \in {0, st.now + SECOND} :
          LET a == Created(rate, cap, expiry, st.clk)
          IN  st' = [st EXCEPT !.made = @ + 1, !.chain = Append(@, a), !.prev = Append(@, a),
                               !.tx.k = st.made + 1, !.tx.stage = "find"]
    BY <1>2, Zenon DEF signExec
  <2>2. rate \in Nat /\ cap \in Nat /\ expiry \in Nat
    BY <1>1 DEF Sane
  <2>3. PICK a \in Allow : a = Created(rate, cap, expiry, st.clk) /\ Sound(a, st.clk)
    BY <1>1, <2>2, CreatedSound
  <2>4. PICK m \in Nat : m = st.made + 1
    BY <1>1
  <2>5. PICK c \in Seq(Allow) : c = Append(st.chain, a) /\ Len(c) = m
    <3>1. Append(st.chain, a) \in Seq(Allow) /\ Len(Append(st.chain, a)) = m
      BY <1>1, <2>4
    <3> QED BY <3>1, Zenon
  <2>6. PICK p \in Seq(Allow) : p = Append(st.prev, a) /\ Len(p) = m
    <3>1. Append(st.prev, a) \in Seq(Allow) /\ Len(Append(st.prev, a)) = m
      BY <1>1, <2>4
    <3> QED BY <3>1, Zenon
  <2>7. PICK x \in Txs : x = [st.tx EXCEPT !.k = m, !.stage = "find"]
    <3>1. [st.tx EXCEPT !.k = m, !.stage = "find"] \in Txs
      BY <1>1, Zenon DEF Txs
    <3> QED BY <3>1
  <2>8. x.stage = "find" /\ x.k = m
    BY <1>1, <2>7 DEF Txs
  <2>9. st' = [st EXCEPT !.made = m, !.chain = c, !.prev = p, !.tx = x]
    BY <1>1, <2>1, <2>3, <2>4, <2>5, <2>6, <2>7, Zenon DEF World
  <2>10. st' \in World
    BY <1>1, <2>9, Zenon DEF World
  <2>11. /\ st'.now = st.now /\ st'.clk = st.clk /\ st'.made = m /\ st'.chain = c /\ st'.prev = p
         /\ st'.id = st.id /\ st'.tx = x
    BY <1>1, <2>9 DEF World
  <2>12. TypeInv'
    BY <1>1, <2>4, <2>5, <2>6, <2>8, <2>10, <2>11 DEF AInv, TypeInv
  <2>13. FreshInv'
    BY <2>8, <2>11 DEF FreshInv
  <2>14. Deployed(a)
    BY <2>3, <2>4, <2>5, <2>11 DEF Deployed
  <2> QED BY <2>12, <2>13, <2>14 DEF Steps
<1>3. CASE st.tx.op # "deploy"
  <2>1. st.tx.k \in 1..st.made /\ st.tx.op \in {"pay", "pause", "resume", "stop"} /\ st.tx.amount \in Nat
    BY <1>1, <1>3 DEF signExec, AInv, TypeInv, Txs
  <2>2. PICK k \in 1..st.made : k = st.tx.k
    BY <2>1
  <2>3. PICK a \in Allow : a = st.chain[k] /\ Sound(a, st.clk)
    BY OnChain
  <2>4. st' = IF Accepts(a, st.tx, st.clk)
              THEN [Put(st, k, After(a, st.tx, st.clk)) EXCEPT !.tx.stage = "read"]
              ELSE [st EXCEPT !.tx = Idle]
    BY <1>3, <2>2, <2>3 DEF signExec
  <2>5. CASE ~Accepts(a, st.tx, st.clk)
    <3>1. st' = [st EXCEPT !.snap = st.snap, !.tx = Idle]
      BY <1>1, <2>4, <2>5, Zenon DEF World
    <3> QED BY <1>1, <3>1, IdleStep, Zenon
  <2>6. CASE Accepts(a, st.tx, st.clk)
    <3>1. PICK b : b = After(a, st.tx, st.clk)
      OBVIOUS
    <3>2. Fair(a, b, st.clk)
      <4>1. CASE st.tx.op = "pay"
        <5>1. b = claim(a, st.tx.amount) /\ CanClaim(a, st.tx.amount, st.clk)
          BY <2>6, <3>1, <4>1 DEF After, Accepts
        <5>2. st.tx.amount \in Int
          BY <2>1
        <5> QED BY <1>1, <2>3, <5>1, <5>2, ClaimFair
      <4>2. CASE st.tx.op = "pause"
        <5>1. b = pause(a, st.clk) /\ a.status = "active"
          BY <2>6, <3>1, <4>2 DEF After, Accepts
        <5> QED BY <1>1, <2>3, <5>1, PauseFair
      <4>3. CASE st.tx.op = "resume"
        <5>1. b = resume(a, st.clk) /\ a.status = "paused"
          BY <2>6, <3>1, <4>3 DEF After, Accepts
        <5> QED BY <1>1, <2>3, <5>1, ResumeFair
      <4>4. CASE st.tx.op = "stop"
        <5>1. b = revoke(a, st.clk) /\ a.status # "revoked"
          BY <2>6, <3>1, <4>4 DEF After, Accepts
        <5> QED BY <1>1, <2>3, <5>1, RevokeFair
      <4> QED BY <2>1, <4>1, <4>2, <4>3, <4>4
    <3>3. b \in Allow
      BY <3>2 DEF Fair
    <3>4. st' = [Put(st, k, b) EXCEPT !.tx.stage = "read"]
      BY <2>4, <2>6, <3>1
    <3> QED BY <2>2, <2>3, <3>2, <3>3, <3>4, CallStep, Zenon
  <2> QED BY <2>5, <2>6
<1> QED BY <1>2, <1>3

-----------------------------------------------------------------------------
\* The results.

AllowanceSpec == Init /\ [][Next]_st

\* No allowance is made yet, and nothing is signed.
LEMMA InitAllowance ==
  ASSUME Sane, Init
  PROVE  AInv
<1>1. Idle \in Txs /\ Idle.stage = "none"
  BY DEF Idle, Txs
<1>2. st \in World
  BY <1>1 DEF Init, World, Snaps
<1>3. st.made = 0 /\ st.chain = <<>> /\ st.prev = <<>> /\ st.id = 0 /\ st.now = 1 /\ st.clk = 1 /\ st.tx = Idle
  BY DEF Init
<1>4. TypeInv
  BY <1>1, <1>2, <1>3 DEF TypeInv, Sane
<1> QED BY <1>1, <1>3, <1>4 DEF AInv, ChainInv, FreshInv

\* Every step keeps the allowances sound, and takes back nothing that was earned.
LEMMA NextAllowance ==
  ASSUME Sane, AInv, [Next]_st
  PROVE  AInv' /\ EarnedStays(st, st')
<1>1. CASE Next
  <2>1. Steps
    BY <1>1, ClockSteps, PressSteps, SignSteps, AnswerSteps, ScriptSteps DEF Next
  <2>2. ChainInv' /\ EarnedStays(st, st')
    BY <2>1, ChainStep DEF Steps, AInv
  <2> QED BY <2>1, <2>2 DEF Steps, AInv
<1>2. CASE UNCHANGED st
  <2>1. AInv'
    BY <1>2 DEF AInv, TypeInv, ChainInv, FreshInv
  <2>2. EarnedStays(st, st')
    <3>1. Untouched
      <4>1. st.clk \in Nat
        BY DEF AInv, TypeInv, World
      <4> QED BY <1>2, <4>1 DEF Untouched
    <3> QED BY <2>1, <3>1, ChainStep DEF AInv
  <2> QED BY <2>1, <2>2
<1> QED BY <1>1, <1>2

\* Escrowed holds of every allowance at any time: what was put in is in the escrow, with
\* the payee or back with the principal, and no claim, voucher, settlement on revocation
\* or change of terms pays more than was earned or than the cap.
THEOREM EscrowAccounted ==
  ASSUME Sane
  PROVE  AllowanceSpec => []Escrowed(st)
<1>1. Init => AInv
  BY InitAllowance
<1>2. AInv /\ [Next]_st => AInv'
  BY NextAllowance
<1>3. AInv => Escrowed(st)
  BY DEF AInv, ChainInv, Sound, Escrowed
<1> QED BY <1>1, <1>2, <1>3, PTL DEF AllowanceSpec

\* FreshClaimAccepted: "Pay now" computed CLAIM_SKEW_MS in the past from a snapshot that
\* is the allowance as it is gets accepted, however long it takes to sign.
THEOREM CurrentClaimsAccepted ==
  ASSUME Sane
  PROVE  AllowanceSpec => []FreshClaimAccepted(st)
<1>1. Init => AInv
  BY InitAllowance
<1>2. AInv /\ [Next]_st => AInv'
  BY NextAllowance
<1>3. AInv => FreshClaimAccepted(st)
  BY DEF AInv, FreshInv, FreshClaimAccepted, Accepts
<1> QED BY <1>1, <1>2, <1>3, PTL DEF AllowanceSpec

\* EarnedStays holds of every step: a pause, a resume, a new rate or cap, a claim or the
\* passing of time never lowers what an allowance that is not revoked has earned.
THEOREM NothingEarnedIsLost ==
  ASSUME Sane
  PROVE  AllowanceSpec => [][EarnedStays(st, st')]_st
<1>1. Init => AInv
  BY InitAllowance
<1>2. AInv /\ [Next]_st => AInv' /\ [EarnedStays(st, st')]_st
  BY NextAllowance
<1> QED BY <1>1, <1>2, PTL DEF AllowanceSpec

-----------------------------------------------------------------------------
\* The window of a match.

\* A window's session, part by part.
Stati == {"idle", "matching", "funding", "playing", "settling", "settled", "error"}
Flows == {"none", "connect", "match", "hello", "open", "join", "live", "gone"}
Fins == {"none", "half", "submit", "balance", "done", "left", "failed"}
Game == [at : {"draw", "over"}, mine : BOOLEAN, pend : BOOLEAN, n : Nat]
Extra == [timer : BOOLEAN, leaving : BOOLEAN, now : Nat]
Session ==
    [status : Stati, mp : Nat, open : SUBSET PM!Ids, tun : Nat, started : Nat,
     sock : [PM!Ids -> Nat], role : [PM!Ids -> {"A", "B"}], flow : [PM!Ids -> Flows], game : [PM!Ids -> Game],
     fin : [PM!Ids -> Fins], heard : SUBSET PM!Ids, buf : {0}, waiter : {0}, once : {FALSE},
     stopping : {FALSE}, auto : {FALSE}, pref : {FALSE}, attached : SUBSET PM!Ids,
     timers : SUBSET PM!Ids, entered : BOOLEAN, left : SUBSET PM!Ids, lost : SUBSET PM!Ids,
     rec : SUBSET PM!Ids, staked : SUBSET PM!Ids, closed : SUBSET PM!Ids, subs : [PM!Ids -> Nat],
     stops : {{}}, halves : SUBSET PM!Ids, signed : SUBSET PM!Ids, halfAt : [PM!Ids -> Nat],
     dog : Nat, stale : BOOLEAN, reloads : Nat, x : Extra]

\* The close: a half that waits was signed by the opponent, for the last co-signed state; a close
\* is submitted once at most, and uses the half up.
Tokens(s) ==
    \A k \in PM!Ids :
      /\ k \in s.halves => k \in s.signed
      /\ k \in s.signed => s.halfAt[k] = s.game[k].n
      /\ s.subs[k] = 0 \/ (s.subs[k] = 1 /\ k \in s.signed /\ k \notin s.halves)
\* The end: only a finished match is settled, it was played, and a stake in it is on its way out
\* of the tunnel or accounted for.
Finals(s) ==
    \A k \in PM!Ids :
      /\ s.fin[k] \in {"half", "submit", "balance", "done"} => PM!Over(s, k)
      /\ PM!Over(s, k) => s.flow[k] \in {"live", "gone"}
      /\ PM!Over(s, k) /\ k \in s.staked
           => s.fin[k] # "none" \/ k \in s.closed \/ k \in s.left \/ k \in s.lost
\* A match not started has no flow, no stake and no record.
Unstarted(s) == \A k \in PM!Ids : k > s.started => s.flow[k] = "none" /\ k \notin s.staked /\ k \notin s.rec
\* The match at hand is one that is being played; the player who is leaving and the watchdog are
\* those of the match at hand, unless an earlier settlement outlived its match.
AtHand(s) ==
    /\ s.x.now = s.tun /\ s.tun \in PM!Ids \cup {0}
    /\ s.status = "idle" => s.tun = 0
    /\ s.tun # 0 => s.flow[s.tun] = "live"
    /\ s.x.leaving => s.tun # 0 /\ (s.fin[s.tun] # "none" \/ s.stale)
    /\ s.dog # 0 => s.dog \in PM!Ids /\ (s.dog = s.tun \/ s.stale)
\* The inductive invariant.
MInv(s) == Tokens(s) /\ Finals(s) /\ Unstarted(s) /\ AtHand(s) /\ PM!StakeKept(s)
Good(s) == s \in Session /\ MInv(s)

\* Two sessions that differ in what the invariant does not read.
SameWork(s, t) ==
    /\ t.tun = s.tun /\ t.dog = s.dog /\ t.started = s.started /\ t.flow = s.flow
    /\ t.fin = s.fin /\ t.game = s.game /\ t.rec = s.rec /\ t.staked = s.staked
    /\ t.closed = s.closed /\ t.left = s.left /\ t.lost = s.lost /\ t.stale = s.stale
    /\ t.subs = s.subs /\ t.signed = s.signed /\ t.halves = s.halves /\ t.halfAt = s.halfAt
    /\ t.x.now = s.x.now /\ t.x.leaving = s.x.leaving

\* The parts of a session, one entry of them changed.
LEMMA Pieces ==
  ASSUME NEW s \in Session, NEW k \in PM!Ids
  PROVE  /\ \A f \in Flows : [s.flow EXCEPT ![k] = f] \in [PM!Ids -> Flows]
         /\ \A f \in Fins : [s.fin EXCEPT ![k] = f] \in [PM!Ids -> Fins]
         /\ \A g \in Game : [s.game EXCEPT ![k] = g] \in [PM!Ids -> Game]
         /\ \A r \in {"A", "B"} : [s.role EXCEPT ![k] = r] \in [PM!Ids -> {"A", "B"}]
         /\ \A j \in Nat : /\ [s.sock EXCEPT ![k] = j] \in [PM!Ids -> Nat]
                          /\ [s.x EXCEPT !.now = j] \in Extra
         /\ \A b \in BOOLEAN : /\ [s.x EXCEPT !.timer = b] \in Extra
                              /\ [s.x EXCEPT !.leaving = b] \in Extra
         /\ s.game[k] \in Game /\ k \in Nat
<1>1. \A f \in Flows : [s.flow EXCEPT ![k] = f] \in [PM!Ids -> Flows]
  BY DEF Session
<1>2. \A f \in Fins : [s.fin EXCEPT ![k] = f] \in [PM!Ids -> Fins]
  BY DEF Session
<1>3. \A g \in Game : [s.game EXCEPT ![k] = g] \in [PM!Ids -> Game]
  BY DEF Session
<1>4. \A r \in {"A", "B"} : [s.role EXCEPT ![k] = r] \in [PM!Ids -> {"A", "B"}]
  BY DEF Session
<1>5. \A j \in Nat : [s.sock EXCEPT ![k] = j] \in [PM!Ids -> Nat]
  BY DEF Session
<1>6. s.x \in Extra /\ s.game[k] \in Game
  BY DEF Session
<1>a. k \in Nat
  BY DEF PM!Ids
<1>7. \A j \in Nat : [s.x EXCEPT !.now = j] \in Extra
  BY <1>6 DEF Extra
<1>8. \A b \in BOOLEAN : [s.x EXCEPT !.timer = b] \in Extra
  BY <1>6 DEF Extra
<1>9. \A b \in BOOLEAN : [s.x EXCEPT !.leaving = b] \in Extra
  BY <1>6 DEF Extra
<1> QED
  BY <1>1, <1>2, <1>3, <1>4, <1>5, <1>6, <1>7, <1>8, <1>9, <1>a

\* The invariant reads only the session's work, and of the status whether it is idle.
LEMMA Dressed ==
  ASSUME NEW s, NEW t \in Session, Good(s), SameWork(s, t),
         t.status = s.status \/ t.status # "idle"
  PROVE  Good(t)
<1>1. Tokens(t)
  BY DEF Good, MInv, SameWork, Tokens
<1>2. Finals(t)
  BY DEF Good, MInv, SameWork, Finals, PM!Over
<1>3. Unstarted(t)
  BY DEF Good, MInv, SameWork, Unstarted
<1>4. AtHand(t)
  BY DEF Good, MInv, SameWork, AtHand
<1>5. PM!StakeKept(t)
  BY DEF Good, MInv, SameWork, PM!StakeKept
<1> QED
  BY <1>1, <1>2, <1>3, <1>4, <1>5 DEF Good, MInv

\* A new status other than idle.
LEMMA StatusSet ==
  ASSUME NEW s, Good(s), NEW v \in Stati \ {"idle"}
  PROVE  Good([s EXCEPT !.status = v])
<1>1. [s EXCEPT !.status = v] \in Session
  BY Zenon DEF Good, Session
<1>2. SameWork(s, [s EXCEPT !.status = v]) /\ [s EXCEPT !.status = v].status = v
  BY DEF Good, Session, SameWork
<1> QED
  BY <1>1, <1>2, Dressed, Zenon

\* maybePropose only sets the timer.
LEMMA MaybeGood ==
  ASSUME NEW s, Good(s)
  PROVE  Good(PM!maybePropose(s)) /\ SameWork(s, PM!maybePropose(s))
<1>s. s \in Session /\ s.x \in Extra
  BY Zenon DEF Good, Session
<1>1. PICK b \in BOOLEAN : b = (s.tun # 0 /\ PM!Owed(s, s.tun))
  BY Zenon
<1>2. [s.x EXCEPT !.timer = b] \in Extra
  BY <1>s DEF Extra
<1>3. PICK y \in Extra : y = [s.x EXCEPT !.timer = b]
  BY <1>2
<1>4. PM!maybePropose(s) = [s EXCEPT !.x = y]
  BY <1>1, <1>3, Zenon DEF PM!maybePropose
<1>5. y.now = s.x.now /\ y.leaving = s.x.leaving
  BY <1>s, <1>3 DEF Extra
<1>6. PICK t : t = [s EXCEPT !.x = y]
  BY Zenon
<1>7. t \in Session
  BY <1>s, <1>6, ZenonT(40) DEF Session
<1>8. SameWork(s, t) /\ t.status = s.status
  BY <1>s, <1>5, <1>6 DEF Session, SameWork
<1> QED
  BY <1>4, <1>6, <1>7, <1>8, Dressed, Zenon

\* Whose turn it is and what is pending may change, not the board's end nor its number.
LEMMA GameTouched ==
  ASSUME NEW s, Good(s), NEW k \in PM!Ids, NEW g \in Game,
         g.at = s.game[k].at, g.n = s.game[k].n
  PROVE  Good([s EXCEPT !.game[k] = g])
<1>s. s \in Session
  BY DEF Good
<1>1. PICK h \in [PM!Ids -> Game] : h = [s.game EXCEPT ![k] = g]
  BY <1>s, Pieces, Zenon
<1>2. PICK t : t = [s EXCEPT !.game = h]
  BY Zenon
<1>3. t \in Session
  BY <1>s, <1>2, ZenonT(40) DEF Session
<1>4. \A j \in PM!Ids : h[j].at = s.game[j].at /\ h[j].n = s.game[j].n
  BY <1>s, <1>1 DEF Session
<1>5. /\ t.tun = s.tun /\ t.dog = s.dog /\ t.started = s.started /\ t.flow = s.flow
      /\ t.fin = s.fin /\ t.game = h /\ t.rec = s.rec /\ t.staked = s.staked
      /\ t.closed = s.closed /\ t.left = s.left /\ t.lost = s.lost /\ t.stale = s.stale
      /\ t.subs = s.subs /\ t.signed = s.signed /\ t.halves = s.halves /\ t.halfAt = s.halfAt
      /\ t.x = s.x /\ t.status = s.status
  BY <1>s, <1>2 DEF Session
<1>6. Tokens(t)
  BY <1>4, <1>5 DEF Good, MInv, Tokens
<1>7. Finals(t)
  BY <1>4, <1>5 DEF Good, MInv, Finals, PM!Over
<1>8. Unstarted(t) /\ AtHand(t)
  BY <1>5 DEF Good, MInv, Unstarted, AtHand
<1>9. PM!StakeKept(t)
  BY <1>5 DEF Good, MInv, PM!StakeKept
<1>a. t = [s EXCEPT !.game[k] = g]
  BY <1>1, <1>2, Zenon
<1> QED
  BY <1>3, <1>6, <1>7, <1>8, <1>9, <1>a DEF Good, MInv

\* A record is written for a match that was started.
LEMMA RecGood ==
  ASSUME NEW s, Good(s), NEW k \in PM!Ids, ~(k > s.started)
  PROVE  Good([s EXCEPT !.rec = @ \cup {k}])
<1>s. s \in Session /\ s.rec \cup {k} \in SUBSET PM!Ids
  BY Zenon DEF Good, Session
<1>1. PICK r \in SUBSET PM!Ids : r = s.rec \cup {k}
  BY <1>s, Zenon
<1>2. PICK t : t = [s EXCEPT !.rec = r]
  BY Zenon
<1>3. t \in Session
  BY <1>s, <1>2, ZenonT(40) DEF Session
<1>5. /\ t.tun = s.tun /\ t.dog = s.dog /\ t.started = s.started /\ t.flow = s.flow
      /\ t.fin = s.fin /\ t.game = s.game /\ t.rec = s.rec \cup {k} /\ t.staked = s.staked
      /\ t.closed = s.closed /\ t.left = s.left /\ t.lost = s.lost /\ t.stale = s.stale
      /\ t.subs = s.subs /\ t.signed = s.signed /\ t.halves = s.halves /\ t.halfAt = s.halfAt
      /\ t.x = s.x /\ t.status = s.status
  BY <1>s, <1>1, <1>2 DEF Session
<1>6. Tokens(t)
  BY <1>5 DEF Good, MInv, Tokens
<1>7. Finals(t)
  BY <1>5 DEF Good, MInv, Finals, PM!Over
<1>8. Unstarted(t) /\ AtHand(t)
  BY <1>5 DEF Good, MInv, Unstarted, AtHand
<1>9. PM!StakeKept(t)
  BY <1>5 DEF Good, MInv, PM!StakeKept
<1>a. t = [s EXCEPT !.rec = @ \cup {k}]
  BY <1>1, <1>2, Zenon
<1> QED
  BY <1>3, <1>6, <1>7, <1>8, <1>9, <1>a DEF Good, MInv

\* Persist and propose write at most a record and a pending mark.
LEMMA PersistGood ==
  ASSUME NEW s, Good(s), NEW k \in PM!Ids, ~(k > s.started)
  PROVE  Good(PM!Persist(s, k))
BY RecGood DEF PM!Persist

\* A proposal marks the move pending, and its record is written.
LEMMA ProposeGood ==
  ASSUME NEW s, Good(s), NEW k \in PM!Ids, ~(k > s.started)
  PROVE  Good(PM!propose(s, k))
<1>s. s \in Session /\ s.game[k] \in Game
  BY Pieces DEF Good
<1>1. PICK g : g = [s.game[k] EXCEPT !.pend = TRUE]
  BY Zenon
<1>2. g \in Game /\ g.at = s.game[k].at /\ g.n = s.game[k].n
  BY <1>s, <1>1, Zenon DEF Game
<1>3. PICK t : t = [s EXCEPT !.game[k] = g]
  BY Zenon
<1>4. Good(t)
  BY <1>2, <1>3, GameTouched
<1>5. t.started = s.started
  BY <1>s, <1>3 DEF Session
<1>6. Good([t EXCEPT !.rec = @ \cup {k}])
  BY <1>4, <1>5, RecGood
<1>7. t = [s EXCEPT !.game[k].pend = TRUE]
  BY <1>1, <1>3, Zenon
<1> QED
  BY <1>4, <1>6, <1>7 DEF PM!propose

\* What the window does when it is left: every stake within its reach is given up.
LEMMA ResetLeft ==
  ASSUME NEW s, Good(s)
  PROVE  Good([PM!reset(s) EXCEPT !.left = @ \cup PM!Gone(s)])
<1>s. s \in Session
  BY DEF Good
<1>1. PM!reset(s) \in Session
  BY <1>s, ZenonT(40) DEF PM!reset, Session, Stati, PM!Idle, Extra
<1>2. PICK r \in Session : r = PM!reset(s)
  BY <1>1
<1>3. /\ r.tun = 0 /\ r.dog = 0 /\ r.started = s.started /\ r.flow = s.flow
      /\ r.fin = s.fin /\ r.game = s.game /\ r.rec = s.rec /\ r.staked = s.staked
      /\ r.closed = s.closed /\ r.left = s.left /\ r.lost = s.lost /\ r.stale = s.stale
      /\ r.subs = s.subs /\ r.signed = s.signed /\ r.halves = s.halves /\ r.halfAt = s.halfAt
      /\ r.x = PM!Idle
  BY <1>s, <1>2 DEF Session, PM!reset
<1>4. r.left \cup PM!Gone(s) \in SUBSET PM!Ids
  BY <1>s DEF Session, PM!Gone
<1>5. PICK l \in SUBSET PM!Ids : l = r.left \cup PM!Gone(s)
  BY <1>4, Zenon
<1>6. PICK t : t = [r EXCEPT !.left = l]
  BY Zenon
<1>7. t \in Session
  BY <1>6, ZenonT(40) DEF Session
<1>8. /\ t.tun = 0 /\ t.dog = 0 /\ t.started = s.started /\ t.flow = s.flow
      /\ t.fin = s.fin /\ t.game = s.game /\ t.rec = s.rec /\ t.staked = s.staked
      /\ t.closed = s.closed /\ t.left = s.left \cup PM!Gone(s) /\ t.lost = s.lost
      /\ t.stale = s.stale /\ t.subs = s.subs /\ t.signed = s.signed
      /\ t.halves = s.halves /\ t.halfAt = s.halfAt /\ t.x = PM!Idle
  BY <1>3, <1>5, <1>6 DEF Session
<1>9. Tokens(t)
  BY <1>8 DEF Good, MInv, Tokens
<1>a. Finals(t)
  BY <1>8 DEF Good, MInv, Finals, PM!Over
<1>b. Unstarted(t) /\ AtHand(t)
  BY <1>8 DEF Good, MInv, Unstarted, AtHand, PM!Idle
<1>c. PM!StakeKept(t)
  <2> SUFFICES ASSUME NEW k \in t.staked \ (t.closed \cup t.left \cup t.lost)
               PROVE  \/ t.tun = k \/ k \in t.rec \/ t.stale
                      \/ t.flow[k] \notin {"none", "live", "gone"} \/ t.fin[k] # "none"
    BY DEF PM!StakeKept
  <2>1. k \in s.staked \ (s.closed \cup s.left \cup s.lost) /\ k \notin PM!Gone(s)
    BY <1>8
  <2>2. s.tun # k
    BY <2>1 DEF PM!Gone
  <2> QED
    BY <1>8, <2>1, <2>2 DEF Good, MInv, PM!StakeKept
<1>d. t = [PM!reset(s) EXCEPT !.left = @ \cup PM!Gone(s)]
  BY <1>2, <1>5, <1>6, Zenon
<1> QED
  BY <1>7, <1>9, <1>a, <1>b, <1>c, <1>d DEF Good, MInv

\* A match that is played becomes the one at hand; the one before it, if any, is stale.
LEMMA ActGood ==
  ASSUME NEW s, Good(s), NEW k \in PM!Ids, s.tun # k, ~PM!Over(s, k), ~(k > s.started)
  PROVE  /\ Good(PM!activateSession(s, k))
         /\ PM!activateSession(s, k).tun = k
         /\ PM!activateSession(s, k).role = s.role
<1>s. s \in Session
  BY DEF Good
<1>1. PICK b \in BOOLEAN : b = (s.stale \/ s.tun \notin {0, k})
  BY Zenon
<1>2. PICK fl \in [PM!Ids -> Flows] : fl = [s.flow EXCEPT ![k] = "live"]
  BY <1>s, Pieces, Zenon DEF Flows
<1>3. PICK fi \in [PM!Ids -> Fins] : fi = [s.fin EXCEPT ![k] = "none"]
  BY <1>s, Pieces, Zenon DEF Fins
<1>4. PICK x \in Extra : x = [s.x EXCEPT !.now = k]
  BY <1>s, Pieces, Zenon
<1>5. k \in Nat /\ {k} \in SUBSET PM!Ids /\ k # 0
  BY DEF PM!Ids
<1>6. PICK kk \in SUBSET PM!Ids, kn \in Nat : kk = {k} /\ kn = k
  BY <1>5, Zenon
<1>7. PICK t : t = [s EXCEPT !.tun = kn, !.attached = kk, !.flow = fl, !.status = "playing",
                             !.fin = fi, !.x = x, !.stale = b]
  OBVIOUS
<1>8. t = PM!activateSession(s, k)
  BY <1>1, <1>2, <1>3, <1>4, <1>6, <1>7, Zenon DEF PM!activateSession
<1>9. t \in Session
  BY <1>s, <1>7, ZenonT(40) DEF Session, Stati
<1>a. /\ t.tun = k /\ t.dog = s.dog /\ t.started = s.started /\ t.flow = fl
      /\ t.fin = fi /\ t.game = s.game /\ t.rec = s.rec /\ t.staked = s.staked
      /\ t.closed = s.closed /\ t.left = s.left /\ t.lost = s.lost /\ t.stale = b
      /\ t.subs = s.subs /\ t.signed = s.signed /\ t.halves = s.halves /\ t.halfAt = s.halfAt
      /\ t.x = x /\ t.status = "playing" /\ t.role = s.role
  BY <1>s, <1>6, <1>7 DEF Session
<1>b. x.now = k /\ x.leaving = s.x.leaving
  BY <1>s, <1>4 DEF Session, Extra
<1>c. fl[k] = "live" /\ fi[k] = "none" /\ \A j \in PM!Ids \ {k} : fl[j] = s.flow[j] /\ fi[j] = s.fin[j]
  BY <1>s, <1>2, <1>3 DEF Session
<1>d. Tokens(t)
  BY <1>a DEF Good, MInv, Tokens
<1>e. Finals(t)
  BY <1>a, <1>c DEF Good, MInv, Finals, PM!Over
<1>f. Unstarted(t)
  BY <1>a, <1>c DEF Good, MInv, Unstarted
<1>g. AtHand(t)
  BY <1>1, <1>5, <1>a, <1>b, <1>c, Zenon DEF Good, MInv, AtHand
<1>h. PM!StakeKept(t)
  <2> SUFFICES ASSUME NEW j \in t.staked \ (t.closed \cup t.left \cup t.lost)
               PROVE  \/ t.tun = j \/ j \in t.rec \/ t.stale
                      \/ t.flow[j] \notin {"none", "live", "gone"} \/ t.fin[j] # "none"
    BY DEF PM!StakeKept
  <2>1. j \in s.staked \ (s.closed \cup s.left \cup s.lost) /\ j \in PM!Ids
    BY <1>s, <1>a DEF Session
  <2>2. \/ s.tun = j \/ j \in s.rec \/ s.stale
        \/ s.flow[j] \notin {"none", "live", "gone"} \/ s.fin[j] # "none"
    BY <2>1 DEF Good, MInv, PM!StakeKept
  <2>3. CASE s.tun = j \/ s.stale
    <3>1. s.tun = j => j # 0
      BY <2>1 DEF PM!Ids
    <3>2. b
      BY <1>1, <2>3, <3>1, Zenon
    <3> QED
      BY <1>a, <3>2
  <2> QED
    BY <1>a, <1>c, <2>1, <2>2, <2>3
<1> QED
  BY <1>8, <1>9, <1>a, <1>d, <1>e, <1>f, <1>g, <1>h DEF Good, MInv

\* The next start is fresh: nothing was staked or recorded for it.
LEMMA StartGood ==
  ASSUME NEW s, Good(s), Starts \in Nat, PM!Room(s), NEW f \in Flows \ {"live"}
  PROVE  LET t == PM!Started(s, 0, f) IN
         /\ Good(t) /\ s.started + 1 \in PM!Ids
         /\ t.started = s.started + 1 /\ t.mp = s.started + 1 /\ t.tun = s.tun
         /\ t.game = s.game /\ t.rec = s.rec /\ t.flow[s.started + 1] = f
         /\ \A j \in PM!Ids \ {s.started + 1} : t.flow[j] = s.flow[j]
<1>s. s \in Session /\ s.started \in Nat
  BY Zenon DEF Good, Session
<1>1. PICK k : k = s.started + 1
  OBVIOUS
<1>2. k \in PM!Ids /\ k \in Nat /\ k > s.started
  BY <1>s, <1>1 DEF PM!Ids, PM!Room
<1>3. PICK kn \in Nat : kn = k
  BY <1>2
<1>4. PICK so \in [PM!Ids -> Nat] : so = [s.sock EXCEPT ![k] = k]
  BY <1>s, <1>2, Pieces, Zenon
<1>5. PICK fl \in [PM!Ids -> Flows] : fl = [s.flow EXCEPT ![k] = f]
  BY <1>s, <1>2, Pieces, Zenon
<1>6. s.open \cup {k} \in SUBSET PM!Ids
  BY <1>s, <1>2 DEF Session
<1>7. PICK op \in SUBSET PM!Ids : op = s.open \cup {k}
  BY <1>6, Zenon
<1>8. PICK t : t = [s EXCEPT !.started = kn, !.sock = so, !.open = op, !.mp = kn, !.flow = fl]
  OBVIOUS
<1>9. t = PM!Started(s, 0, f)
  BY <1>1, <1>3, <1>4, <1>5, <1>7, <1>8 DEF PM!Started
<1>a. t \in Session
  BY <1>s, <1>8, ZenonT(40) DEF Session
<1>b. /\ t.tun = s.tun /\ t.dog = s.dog /\ t.started = k /\ t.flow = fl
      /\ t.fin = s.fin /\ t.game = s.game /\ t.rec = s.rec /\ t.staked = s.staked
      /\ t.closed = s.closed /\ t.left = s.left /\ t.lost = s.lost /\ t.stale = s.stale
      /\ t.subs = s.subs /\ t.signed = s.signed /\ t.halves = s.halves /\ t.halfAt = s.halfAt
      /\ t.x = s.x /\ t.status = s.status /\ t.mp = k
  BY <1>s, <1>3, <1>8 DEF Session
<1>c. fl[k] = f /\ \A j \in PM!Ids \ {k} : fl[j] = s.flow[j]
  BY <1>s, <1>2, <1>5 DEF Session
<1>d. s.flow[k] = "none" /\ k \notin s.staked /\ k \notin s.rec
  BY <1>2 DEF Good, MInv, Unstarted
<1>e. Tokens(t)
  BY <1>b DEF Good, MInv, Tokens
<1>f. Finals(t)
  BY <1>b, <1>c, <1>d DEF Good, MInv, Finals, PM!Over
<1>g. Unstarted(t)
  <2> SUFFICES ASSUME NEW j \in PM!Ids, j > t.started
               PROVE  t.flow[j] = "none" /\ j \notin t.staked /\ j \notin t.rec
    BY DEF Unstarted
  <2>1. j > s.started /\ j # k
    BY <1>s, <1>1, <1>2, <1>b DEF PM!Ids
  <2> QED
    BY <1>b, <1>c, <2>1 DEF Good, MInv, Unstarted
<1>h. AtHand(t)
  <2>1. s.tun # k
    BY <1>2, <1>d DEF Good, MInv, AtHand, PM!Ids
  <2> QED
    BY <1>b, <1>c, <2>1 DEF Good, MInv, AtHand
<1>i. PM!StakeKept(t)
  <2>1. \A j \in s.staked : j \in PM!Ids /\ j # k
    BY <1>s, <1>d DEF Session
  <2> QED
    BY <1>b, <1>c, <2>1 DEF Good, MInv, PM!StakeKept
<1> QED
  BY <1>1, <1>2, <1>9, <1>a, <1>b, <1>c, <1>e, <1>f, <1>g, <1>h, <1>i DEF Good, MInv

\* A settled match: a player who is leaving goes back to the lobby.
LEMMA ResolvedGood ==
  ASSUME NEW s, Good(s), NEW k
  PROVE  Good(PM!Resolved(s, k))
<1>1. PICK t : t = [s EXCEPT !.status = "settled"]
  BY Zenon
<1>2. Good(t)
  BY <1>1, StatusSet DEF Stati
<1>3. Good([PM!reset(t) EXCEPT !.left = @ \cup PM!Gone(t)])
  BY <1>2, ResetLeft
<1> QED
  BY <1>1, <1>2, <1>3 DEF PM!Resolved

\* Two sessions that differ in how far their settlements are and in what is given up.
Later(s, t) ==
    /\ t.tun = s.tun /\ t.dog = s.dog /\ t.started = s.started /\ t.flow = s.flow
    /\ t.game = s.game /\ t.rec = s.rec /\ t.staked = s.staked
    /\ s.closed \subseteq t.closed /\ s.left \subseteq t.left /\ s.lost \subseteq t.lost
    /\ s.stale => t.stale
    /\ t.subs = s.subs /\ t.signed = s.signed /\ t.halves = s.halves /\ t.halfAt = s.halfAt
    /\ t.x.now = s.x.now /\ (t.x.leaving => s.x.leaving \/ (s.tun # 0 /\ t.fin[s.tun] # "none"))
    /\ \A j \in PM!Ids :
         \/ t.fin[j] = s.fin[j]
         \/ /\ t.fin[j] # "none"
            /\ t.fin[j] \in {"half", "submit", "balance", "done"} => PM!Over(s, j)

\* A settlement that goes on, or is given up, keeps the invariant.
LEMMA LaterGood ==
  ASSUME NEW s, NEW t \in Session, Good(s), Later(s, t),
         t.status = s.status \/ t.status # "idle"
  PROVE  Good(t)
<1>1. Tokens(t)
  BY DEF Good, MInv, Later, Tokens
<1>2. Finals(t)
  <2> SUFFICES ASSUME NEW j \in PM!Ids
               PROVE  /\ t.fin[j] \in {"half", "submit", "balance", "done"} => PM!Over(t, j)
                      /\ PM!Over(t, j) => t.flow[j] \in {"live", "gone"}
                      /\ PM!Over(t, j) /\ j \in t.staked
                           => t.fin[j] # "none" \/ j \in t.closed \/ j \in t.left \/ j \in t.lost
    BY DEF Finals
  <2>1. PM!Over(t, j) = PM!Over(s, j)
    BY DEF Later, PM!Over
  <2> QED
    BY <2>1 DEF Good, MInv, Finals, Later
<1>3. Unstarted(t)
  BY DEF Good, MInv, Later, Unstarted
<1>4. AtHand(t)
  <2>1. s.tun # 0 => s.tun \in PM!Ids /\ (t.fin[s.tun] = s.fin[s.tun] \/ t.fin[s.tun] # "none")
    BY DEF Good, MInv, AtHand, Later
  <2> QED
    BY <2>1 DEF Good, MInv, AtHand, Later
<1>5. PM!StakeKept(t)
  <2> SUFFICES ASSUME NEW j \in t.staked \ (t.closed \cup t.left \cup t.lost)
               PROVE  \/ t.tun = j \/ j \in t.rec \/ t.stale
                      \/ t.flow[j] \notin {"none", "live", "gone"} \/ t.fin[j] # "none"
    BY DEF PM!StakeKept
  <2>1. j \in s.staked \ (s.closed \cup s.left \cup s.lost) /\ j \in PM!Ids
    BY DEF Later, Session
  <2>2. t.fin[j] = s.fin[j] \/ t.fin[j] # "none"
    BY <2>1 DEF Later
  <2> QED
    BY <2>1, <2>2 DEF Good, MInv, PM!StakeKept, Later
<1> QED
  BY <1>1, <1>2, <1>3, <1>4, <1>5 DEF Good, MInv

\* triggerSettle, at a finished board, asks the peer for its half once.
LEMMA TriggerGood ==
  ASSUME NEW s, Good(s), NEW k \in PM!Ids, PM!Over(s, k)
  PROVE  /\ Good(PM!triggerSettle(s, k, FALSE))
         /\ PM!triggerSettle(s, k, FALSE).started = s.started
<1>s. s \in Session
  BY DEF Good
<1>1. PICK fi \in [PM!Ids -> Fins] : fi = [s.fin EXCEPT ![k] = "half"]
  BY <1>s, Pieces, Zenon DEF Fins
<1>2. PICK t : t = [s EXCEPT !.fin = fi, !.status = "settling"]
  OBVIOUS
<1>3. t = [s EXCEPT !.fin[k] = "half", !.status = "settling"]
  BY <1>1, <1>2, Zenon
<1>4. t \in Session
  BY <1>s, <1>2, ZenonT(40) DEF Session, Stati
<1>5. fi[k] = "half" /\ \A j \in PM!Ids \ {k} : fi[j] = s.fin[j]
  BY <1>s, <1>1 DEF Session
<1>6. t.started = s.started /\ t.status = "settling" /\ t.fin = fi /\ t.x = s.x
  BY <1>s, <1>2 DEF Session
<1>7. Later(s, t)
  <2>1. /\ t.tun = s.tun /\ t.dog = s.dog /\ t.started = s.started /\ t.flow = s.flow
        /\ t.game = s.game /\ t.rec = s.rec /\ t.staked = s.staked
        /\ t.closed = s.closed /\ t.left = s.left /\ t.lost = s.lost /\ t.stale = s.stale
        /\ t.subs = s.subs /\ t.signed = s.signed /\ t.halves = s.halves /\ t.halfAt = s.halfAt
    BY <1>s, <1>2 DEF Session
  <2> QED
    BY <1>5, <1>6, <2>1 DEF Later
<1>8. Good(t)
  BY <1>4, <1>6, <1>7, LaterGood
<1> QED
  BY <1>3, <1>6, <1>8 DEF PM!triggerSettle

\* Leaving a match: the half is only published, and the stake is given up; or nothing is at
\* hand but what reset gives up.
LEMMA LeaveGood ==
  ASSUME Good(st), PM!leave
  PROVE  Good(st')
<1>s. st \in Session /\ st.x \in Extra
  BY Zenon DEF Good, Session
<1>1. CASE ~(st.x.now # 0 /\ st.status \in {"playing", "settling"})
  BY <1>1, ResetLeft, Zenon DEF PM!leave
<1>2. CASE st.x.now # 0 /\ st.status \in {"playing", "settling"}
  <2>1. PICK k : k = st.x.now
    OBVIOUS
  <2>2. k \in PM!Ids /\ k = st.tun /\ k # 0
    BY <1>2, <2>1 DEF Good, MInv, AtHand
  <2>3. [st.x EXCEPT !.leaving = TRUE] \in Extra
    BY <1>s, Zenon DEF Extra
  <2>4. PICK y \in Extra : y = [st.x EXCEPT !.leaving = TRUE]
    BY <2>3
  <2>5. y.now = st.x.now
    BY <1>s, <2>4 DEF Extra
  <2>6. PICK s : s = [st EXCEPT !.x = y]
    BY Zenon
  <2>7. s = [st EXCEPT !.x.leaving = TRUE] /\ st' = PM!triggerSettle(s, k, TRUE)
    BY <1>2, <2>1, <2>4, <2>6 DEF PM!leave
  <2>8. s \in Session
    BY <1>s, <2>6, ZenonT(40) DEF Session
  <2>9. /\ s.tun = st.tun /\ s.dog = st.dog /\ s.started = st.started /\ s.flow = st.flow
        /\ s.game = st.game /\ s.rec = st.rec /\ s.staked = st.staked
        /\ s.closed = st.closed /\ s.left = st.left /\ s.lost = st.lost /\ s.stale = st.stale
        /\ s.subs = st.subs /\ s.signed = st.signed /\ s.halves = st.halves
        /\ s.halfAt = st.halfAt /\ s.fin = st.fin /\ s.x = y /\ s.status = st.status
    BY <1>s, <2>6 DEF Session
  <2>a. CASE s.fin[k] # "none"
    <3>1. Later(st, s)
      BY <2>2, <2>5, <2>9, <2>a DEF Later
    <3> QED
      BY <2>7, <2>8, <2>9, <2>a, <3>1, LaterGood, Zenon DEF PM!triggerSettle
  <2>b. CASE s.fin[k] = "none"
    <3>1. PICK fi \in [PM!Ids -> Fins] : fi = [s.fin EXCEPT ![k] = "left"]
      BY <2>2, <2>8, Pieces, Zenon DEF Fins
    <3>2. s.left \cup {k} \in SUBSET PM!Ids
      BY <2>2, <2>8 DEF Session
    <3>3. PICK l \in SUBSET PM!Ids : l = s.left \cup {k}
      BY <3>2, Zenon
    <3>4. PICK t : t = [s EXCEPT !.fin = fi, !.left = l]
      OBVIOUS
    <3>5. t \in Session
      BY <2>8, <3>4, ZenonT(40) DEF Session
    <3>6. /\ t.tun = st.tun /\ t.dog = st.dog /\ t.started = st.started /\ t.flow = st.flow
          /\ t.game = st.game /\ t.rec = st.rec /\ t.staked = st.staked
          /\ t.closed = st.closed /\ t.left = l /\ t.lost = st.lost /\ t.stale = st.stale
          /\ t.subs = st.subs /\ t.signed = st.signed /\ t.halves = st.halves
          /\ t.halfAt = st.halfAt /\ t.fin = fi /\ t.x = y /\ t.status = st.status
      BY <2>8, <2>9, <3>4 DEF Session
    <3>7. fi[k] = "left" /\ \A j \in PM!Ids \ {k} : fi[j] = st.fin[j]
      BY <1>s, <2>2, <2>9, <3>1 DEF Session
    <3>8. Later(st, t)
      BY <2>2, <2>5, <2>9, <3>3, <3>6, <3>7 DEF Later
    <3>9. Good(t)
      BY <3>5, <3>6, <3>8, LaterGood
    <3>a. t = [s EXCEPT !.fin[k] = "left", !.left = @ \cup {k}]
      BY <3>1, <3>3, <3>4, Zenon
    <3>b. st' = PM!Resolved(t, k)
      BY <2>7, <2>b, <3>a DEF PM!triggerSettle
    <3> QED
      BY <3>9, <3>b, ResolvedGood
  <2> QED
    BY <2>a, <2>b
<1> QED
  BY <1>1, <1>2

\* A flow goes on to its next await.
LEMMA FlowGood ==
  ASSUME NEW s, Good(s), NEW k \in PM!Ids, s.flow[k] \in PM!Waiting, NEW f \in Flows \cap PM!Waiting
  PROVE  Good([s EXCEPT !.flow[k] = f])
<1>s. s \in Session
  BY DEF Good
<1>1. PICK fl \in [PM!Ids -> Flows] : fl = [s.flow EXCEPT ![k] = f]
  BY <1>s, Pieces, Zenon
<1>2. PICK t : t = [s EXCEPT !.flow = fl]
  BY Zenon
<1>3. t = [s EXCEPT !.flow[k] = f]
  BY <1>1, <1>2, Zenon
<1>4. t \in Session
  BY <1>s, <1>2, ZenonT(40) DEF Session
<1>5. /\ t.tun = s.tun /\ t.dog = s.dog /\ t.started = s.started /\ t.flow = fl
      /\ t.fin = s.fin /\ t.game = s.game /\ t.rec = s.rec /\ t.staked = s.staked
      /\ t.closed = s.closed /\ t.left = s.left /\ t.lost = s.lost /\ t.stale = s.stale
      /\ t.subs = s.subs /\ t.signed = s.signed /\ t.halves = s.halves /\ t.halfAt = s.halfAt
      /\ t.x = s.x /\ t.status = s.status
  BY <1>s, <1>2 DEF Session
<1>6. fl[k] = f /\ \A j \in PM!Ids \ {k} : fl[j] = s.flow[j]
  BY <1>s, <1>1 DEF Session
<1>7. f \notin {"none", "live", "gone"} /\ s.flow[k] \notin {"none", "live", "gone"}
  BY DEF PM!Waiting
<1>8. ~PM!Over(s, k) /\ s.tun # k /\ ~(k > s.started)
  BY <1>7 DEF Good, MInv, Finals, AtHand, Unstarted, PM!Ids
<1>9. Tokens(t)
  BY <1>5 DEF Good, MInv, Tokens
<1>a. Finals(t)
  BY <1>5, <1>6, <1>8 DEF Good, MInv, Finals, PM!Over
<1>b. Unstarted(t)
  BY <1>5, <1>6, <1>8 DEF Good, MInv, Unstarted
<1>c. AtHand(t)
  BY <1>5, <1>6, <1>8 DEF Good, MInv, AtHand
<1>d. PM!StakeKept(t)
  <2>1. \A j \in s.staked : j \in PM!Ids
    BY <1>s DEF Session
  <2> QED
    BY <1>5, <1>6, <1>7, <2>1 DEF Good, MInv, PM!StakeKept
<1> QED
  BY <1>3, <1>4, <1>9, <1>a, <1>b, <1>c, <1>d DEF Good, MInv

\* The awaits up to the funding of a match.
LEMMA FlowSteps ==
  ASSUME Good(st), NEW k \in PM!Ids, PM!Connected(k) \/ PM!Found(k) \/ PM!Exchanged(k)
  PROVE  Good(st')
<1>s. st \in Session
  BY DEF Good
<1>w. {"connect", "match", "hello", "open"} \subseteq Flows \cap PM!Waiting
  BY DEF Flows, PM!Waiting
<1>1. CASE PM!Connected(k)
  BY <1>1, <1>w, FlowGood DEF PM!Connected
<1>2. CASE PM!Found(k)
  <2>1. PICK r \in {"A", "B"} :
          st.flow[k] = "match"
          /\ st' = [st EXCEPT !.flow[k] = "hello", !.role[k] = r, !.heard = @ \cup {k}]
    BY <1>2 DEF PM!Found, PM!quickMatch
  <2>2. PICK s : s = [st EXCEPT !.flow[k] = "hello"]
    BY Zenon
  <2>3. Good(s)
    BY <1>w, <2>1, <2>2, FlowGood
  <2>4. s \in Session
    BY <2>3 DEF Good
  <2>5. PICK ro \in [PM!Ids -> {"A", "B"}] : ro = [s.role EXCEPT ![k] = r]
    BY <2>4, Pieces, Zenon
  <2>6. s.heard \cup {k} \in SUBSET PM!Ids
    BY <2>4 DEF Session
  <2>7. PICK h \in SUBSET PM!Ids : h = s.heard \cup {k}
    BY <2>6, Zenon
  <2>8. PICK t : t = [s EXCEPT !.role = ro, !.heard = h]
    OBVIOUS
  <2>9. t \in Session
    BY <2>4, <2>8, ZenonT(40) DEF Session
  <2>a. SameWork(s, t) /\ t.status = s.status
    BY <2>4, <2>8 DEF Session, SameWork
  <2>b. s.role = st.role /\ s.heard = st.heard
    BY <1>s, <2>2 DEF Session
  <2>c. st' = t
    BY <2>1, <2>2, <2>5, <2>7, <2>8, <2>b, Zenon
  <2> QED
    BY <2>3, <2>9, <2>a, <2>c, Dressed
<1>3. CASE PM!Exchanged(k)
  <2>1. PICK s : s = [st EXCEPT !.flow[k] = "open"] /\ st.flow[k] = "hello"
                 /\ st' = [s EXCEPT !.status = "funding"]
    BY <1>3 DEF PM!Exchanged, PM!hello
  <2>2. Good(s)
    BY <1>w, <2>1, FlowGood
  <2> QED
    BY <2>1, <2>2, StatusSet, Zenon DEF Stati
<1> QED
  BY <1>1, <1>2, <1>3

\* A flow that throws: its stake is lost to the window.
LEMMA FailedGood ==
  ASSUME Good(st), NEW k \in PM!Ids, PM!Failed(k)
  PROVE  Good(st')
<1>s. st \in Session
  BY DEF Good
<1>1. PICK fl \in [PM!Ids -> Flows] : fl = [st.flow EXCEPT ![k] = "gone"]
  BY <1>s, Pieces, Zenon DEF Flows
<1>2. st.lost \cup ({k} \cap st.staked) \in SUBSET PM!Ids
  BY <1>s DEF Session
<1>3. PICK l \in SUBSET PM!Ids : l = st.lost \cup ({k} \cap st.staked)
  BY <1>2, Zenon
<1>4. PICK t : t = [st EXCEPT !.flow = fl, !.lost = l]
  OBVIOUS
<1>5. t = PM!Threw(st, k)
  BY <1>1, <1>3, <1>4, Zenon DEF PM!Threw
<1>6. t \in Session
  BY <1>s, <1>4, ZenonT(40) DEF Session
<1>7. /\ t.tun = st.tun /\ t.dog = st.dog /\ t.started = st.started /\ t.flow = fl
      /\ t.fin = st.fin /\ t.game = st.game /\ t.rec = st.rec /\ t.staked = st.staked
      /\ t.closed = st.closed /\ t.left = st.left /\ t.lost = l /\ t.stale = st.stale
      /\ t.subs = st.subs /\ t.signed = st.signed /\ t.halves = st.halves
      /\ t.halfAt = st.halfAt /\ t.x = st.x /\ t.status = st.status
  BY <1>s, <1>4 DEF Session
<1>8. fl[k] = "gone" /\ \A j \in PM!Ids \ {k} : fl[j] = st.flow[j]
  BY <1>s, <1>1 DEF Session
<1>9. st.flow[k] \notin {"none", "live", "gone"} /\ st' = [t EXCEPT !.status = "error"]
  BY <1>5 DEF PM!Failed, PM!Waiting
<1>a. ~PM!Over(st, k) /\ st.tun # k /\ ~(k > st.started)
  BY <1>9 DEF Good, MInv, Finals, AtHand, Unstarted, PM!Ids
<1>b. Tokens(t)
  BY <1>7 DEF Good, MInv, Tokens
<1>c. Finals(t)
  BY <1>3, <1>7, <1>8, <1>a DEF Good, MInv, Finals, PM!Over
<1>d. Unstarted(t) /\ AtHand(t)
  BY <1>7, <1>8, <1>a DEF Good, MInv, Unstarted, AtHand
<1>e. PM!StakeKept(t)
  <2>1. \A j \in st.staked : j \in PM!Ids
    BY <1>s DEF Session
  <2> QED
    BY <1>3, <1>7, <1>8, <2>1 DEF Good, MInv, PM!StakeKept
<1>f. Good(t)
  BY <1>6, <1>b, <1>c, <1>d, <1>e DEF Good, MInv
<1> QED
  BY <1>9, <1>f, StatusSet DEF Stati

\* The propose timer, a new intent and the peer's ready only plan or make a proposal.
LEMMA TimerSteps ==
  ASSUME Good(st), PM!TimerFires \/ PM!setIntent \/ (\E k \in PM!Ids : PM!ready(k))
  PROVE  Good(st')
<1>s. st \in Session /\ st.x \in Extra
  BY Zenon DEF Good, Session
<1>1. CASE PM!setIntent
  BY <1>1, MaybeGood DEF PM!setIntent
<1>2. ASSUME NEW k \in PM!Ids, PM!ready(k) PROVE Good(st')
  <2>1. st.timers \ {k} \in SUBSET PM!Ids
    BY <1>s DEF Session
  <2>2. PICK w \in SUBSET PM!Ids : w = st.timers \ {k}
    BY <2>1, Zenon
  <2>3. PICK t : t = [st EXCEPT !.timers = w]
    BY Zenon
  <2>4. t \in Session /\ SameWork(st, t) /\ t.status = st.status
    BY <1>s, <2>3, ZenonT(40) DEF Session, SameWork
  <2>5. st' = PM!maybePropose(t)
    BY <1>2, <2>2, <2>3 DEF PM!ready
  <2> QED
    BY <2>4, <2>5, Dressed, MaybeGood
<1>3. CASE PM!TimerFires
  <2>1. [st.x EXCEPT !.timer = FALSE] \in Extra
    BY <1>s, Zenon DEF Extra
  <2>2. PICK y \in Extra : y = [st.x EXCEPT !.timer = FALSE]
    BY <2>1
  <2>3. y.now = st.x.now /\ y.leaving = st.x.leaving
    BY <1>s, <2>2 DEF Extra
  <2>4. PICK t : t = [st EXCEPT !.x = y]
    BY Zenon
  <2>5. t \in Session /\ SameWork(st, t) /\ t.status = st.status
    BY <1>s, <2>3, <2>4, ZenonT(40) DEF Session, SameWork
  <2>6. Good(t)
    BY <2>5, Dressed
  <2>7. st' = IF t.tun = 0 THEN t ELSE PM!propose(t, t.tun)
    BY <1>3, <2>2, <2>4 DEF PM!TimerFires
  <2>8. t.tun # 0 => t.tun \in PM!Ids /\ ~(t.tun > t.started)
    BY <2>6 DEF Good, MInv, AtHand, Unstarted
  <2> QED
    BY <2>6, <2>7, <2>8, ProposeGood
<1> QED
  BY <1>1, <1>2, <1>3

\* A seat deposits, or joins a match that was funded, and plays it.
LEMMA PlaySteps ==
  ASSUME Good(st), NEW k \in PM!Ids, PM!Funded(k) \/ PM!Joined(k)
  PROVE  Good(st')
<1>s. st \in Session /\ st.game[k] \in Game
  BY Pieces DEF Good
<1>1. st.tun # k /\ ~PM!Over(st, k) /\ ~(k > st.started) /\ st.flow[k] \in {"open", "join"}
  BY DEF PM!Funded, PM!Joined, Good, MInv, AtHand, Finals, Unstarted, PM!Ids
<1>2. CASE PM!Joined(k)
  BY <1>1, <1>2, ActGood, MaybeGood DEF PM!Joined
<1>3. CASE PM!Funded(k)
  <2>1. PICK b \in BOOLEAN : b = (st.role[k] = "A")
    BY Zenon
  <2>2. PICK g : g = [st.game[k] EXCEPT !.mine = b]
    BY Zenon
  <2>3. g \in Game /\ g.at = st.game[k].at /\ g.n = st.game[k].n
    BY <1>s, <2>2 DEF Game
  <2>4. PICK u : u = [st EXCEPT !.game[k] = g]
    BY Zenon
  <2>5. Good(u)
    BY <2>3, <2>4, GameTouched
  <2>6. u \in Session
    BY <2>5 DEF Good
  <2>7. u.staked \cup {k} \in SUBSET PM!Ids
    BY <2>6 DEF Session
  <2>8. PICK z \in SUBSET PM!Ids : z = u.staked \cup {k}
    BY <2>7, Zenon
  <2>9. PICK t : t = [u EXCEPT !.staked = z]
    BY Zenon
  <2>a. t \in Session
    BY <2>6, <2>9, ZenonT(40) DEF Session
  <2>b. /\ t.tun = u.tun /\ t.dog = u.dog /\ t.started = u.started /\ t.flow = u.flow
        /\ t.fin = u.fin /\ t.game = u.game /\ t.rec = u.rec /\ t.staked = z
        /\ t.closed = u.closed /\ t.left = u.left /\ t.lost = u.lost /\ t.stale = u.stale
        /\ t.subs = u.subs /\ t.signed = u.signed /\ t.halves = u.halves
        /\ t.halfAt = u.halfAt /\ t.x = u.x /\ t.status = u.status
    BY <2>6, <2>9 DEF Session
  <2>c. /\ u.tun = st.tun /\ u.started = st.started /\ u.flow = st.flow
        /\ u.staked = st.staked /\ u.game[k] = g
    BY <1>s, <2>4 DEF Session
  <2>d. ~PM!Over(u, k) /\ ~(k > u.started) /\ u.tun # k /\ u.flow[k] \in {"open", "join"}
    BY <1>1, <2>3, <2>c DEF PM!Over
  <2>e. Good(t)
    <3>1. Tokens(t)
      BY <2>5, <2>b DEF Good, MInv, Tokens
    <3>2. Finals(t)
      BY <2>5, <2>8, <2>b, <2>d DEF Good, MInv, Finals, PM!Over
    <3>3. Unstarted(t) /\ AtHand(t)
      BY <2>5, <2>8, <2>b, <2>d DEF Good, MInv, Unstarted, AtHand
    <3>4. PM!StakeKept(t)
      BY <2>5, <2>8, <2>b, <2>d DEF Good, MInv, PM!StakeKept
    <3> QED
      BY <2>a, <3>1, <3>2, <3>3, <3>4 DEF Good, MInv
  <2>f. t = [st EXCEPT !.staked = @ \cup {k}, !.game[k].mine = st.role[k] = "A"]
    <3>1. PICK h \in [PM!Ids -> Game] : h = [st.game EXCEPT ![k] = g]
      BY <1>s, <2>3, Pieces, Zenon
    <3>2. t = [st EXCEPT !.staked = z, !.game = h]
      BY <1>s, <2>4, <2>9, <3>1, Zenon DEF Session
    <3>3. h = [st.game EXCEPT ![k].mine = st.role[k] = "A"]
      BY <2>1, <2>2, <3>1, Zenon
    <3> QED
      BY <2>8, <2>c, <3>2, <3>3, Zenon
  <2>g. PICK a : a = PM!activateSession(t, k)
    OBVIOUS
  <2>h. Good(a)
    BY <2>b, <2>d, <2>e, <2>g, ActGood DEF PM!Over
  <2>i. st' = IF a.role[k] = "A" THEN [a EXCEPT !.timers = @ \cup {k}] ELSE PM!maybePropose(a)
    BY <1>3, <2>f, <2>g DEF PM!Funded
  <2>j. a \in Session
    BY <2>h DEF Good
  <2>k. a.timers \cup {k} \in SUBSET PM!Ids
    BY <2>j DEF Session
  <2>l. PICK w \in SUBSET PM!Ids : w = a.timers \cup {k}
    BY <2>k, Zenon
  <2>m. PICK v : v = [a EXCEPT !.timers = w]
    BY Zenon
  <2>n. v \in Session /\ SameWork(a, v) /\ v.status = a.status
    BY <2>j, <2>m, ZenonT(40) DEF Session, SameWork
  <2>o. Good(v)
    BY <2>h, <2>n, Dressed
  <2>p. v = [a EXCEPT !.timers = @ \cup {k}]
    BY <2>l, <2>m, Zenon
  <2> QED
    BY <2>h, <2>i, <2>o, <2>p, MaybeGood
<1> QED
  BY <1>2, <1>3

\* A new search, and the match an arena entry names, whose stake is already in its tunnel.
LEMMA StartSteps ==
  ASSUME Good(st), Starts \in Nat, PM!findMatch \/ PM!enterArenaMatch
  PROVE  Good(st')
<1>f. {"connect", "join"} \subseteq Flows \ {"live"}
  BY DEF Flows
<1>1. CASE PM!findMatch
  <2>1. PICK s : s = PM!Started(st, 0, "connect")
    OBVIOUS
  <2>2. Good(s)
    BY <1>f, <1>1, <2>1, StartGood DEF PM!findMatch
  <2> QED
    BY <1>1, <2>1, <2>2, StatusSet DEF PM!findMatch, Stati
<1>2. CASE PM!enterArenaMatch
  <2>1. PICK s : s = PM!Started(st, 0, "join")
    OBVIOUS
  <2>2. PICK k : k = st.started + 1
    OBVIOUS
  <2>r. PM!Room(st)
    BY <1>2 DEF PM!enterArenaMatch, PM!CanEnter
  <2>3. Good(s) /\ k \in PM!Ids /\ s.flow[k] = "join" /\ s.started = k
    BY <1>f, <2>1, <2>2, <2>r, StartGood
  <2>4. s \in Session
    BY <2>3 DEF Good
  <2>5. s.staked \cup {k} \in SUBSET PM!Ids /\ s.heard \cup {k} \in SUBSET PM!Ids
    BY <2>3, <2>4 DEF Session
  <2>6. PICK z \in SUBSET PM!Ids, h \in SUBSET PM!Ids : z = s.staked \cup {k} /\ h = s.heard \cup {k}
    BY <2>5, Zenon
  <2>7. PICK t : t = [s EXCEPT !.staked = z, !.heard = h, !.entered = TRUE]
    OBVIOUS
  <2>8. t = PM!joinMatch(st)
    BY <2>1, <2>2, <2>6, <2>7, Zenon DEF PM!joinMatch
  <2>9. t \in Session
    BY <2>4, <2>7, ZenonT(40) DEF Session
  <2>a. /\ t.tun = s.tun /\ t.dog = s.dog /\ t.started = s.started /\ t.flow = s.flow
        /\ t.fin = s.fin /\ t.game = s.game /\ t.rec = s.rec /\ t.staked = z
        /\ t.closed = s.closed /\ t.left = s.left /\ t.lost = s.lost /\ t.stale = s.stale
        /\ t.subs = s.subs /\ t.signed = s.signed /\ t.halves = s.halves
        /\ t.halfAt = s.halfAt /\ t.x = s.x /\ t.status = s.status
    BY <2>4, <2>7 DEF Session
  <2>b. ~PM!Over(s, k) /\ ~(k > s.started)
    BY <2>3 DEF Good, MInv, Finals, Unstarted, PM!Ids
  <2>c. Tokens(t)
    BY <2>3, <2>a DEF Good, MInv, Tokens
  <2>d. Finals(t)
    BY <2>3, <2>6, <2>a, <2>b DEF Good, MInv, Finals, PM!Over
  <2>e. Unstarted(t) /\ AtHand(t)
    BY <2>3, <2>6, <2>a, <2>b DEF Good, MInv, Unstarted, AtHand
  <2>f. PM!StakeKept(t)
    BY <2>3, <2>6, <2>a DEF Good, MInv, PM!StakeKept
  <2>g. Good(t)
    BY <2>9, <2>c, <2>d, <2>e, <2>f DEF Good, MInv
  <2> QED
    BY <1>2, <2>8, <2>g, StatusSet DEF PM!enterArenaMatch, Stati
<1> QED
  BY <1>1, <1>2

\* A cold load drops the records of finished matches: no stake hangs on them.
LEMMA RecDropped ==
  ASSUME NEW s, Good(s)
  PROVE  LET t == [s EXCEPT !.rec = PM!Resumable(s)] IN
         Good(t) /\ t.rec = PM!Resumable(s) /\ t.tun = s.tun /\ t.started = s.started
         /\ t.game = s.game
<1>s. s \in Session
  BY DEF Good
<1>1. PM!Resumable(s) \in SUBSET PM!Ids /\ PM!Resumable(s) \subseteq s.rec
  BY <1>s DEF Session, PM!Resumable
<1>2. PICK r \in SUBSET PM!Ids : r = PM!Resumable(s)
  BY <1>1
<1>3. PICK t : t = [s EXCEPT !.rec = r]
  BY Zenon
<1>4. t \in Session
  BY <1>s, <1>3, ZenonT(40) DEF Session
<1>5. /\ t.tun = s.tun /\ t.dog = s.dog /\ t.started = s.started /\ t.flow = s.flow
      /\ t.fin = s.fin /\ t.game = s.game /\ t.rec = r /\ t.staked = s.staked
      /\ t.closed = s.closed /\ t.left = s.left /\ t.lost = s.lost /\ t.stale = s.stale
      /\ t.subs = s.subs /\ t.signed = s.signed /\ t.halves = s.halves /\ t.halfAt = s.halfAt
      /\ t.x = s.x /\ t.status = s.status
  BY <1>s, <1>3 DEF Session
<1>6. Tokens(t)
  BY <1>5 DEF Good, MInv, Tokens
<1>7. Finals(t)
  BY <1>5 DEF Good, MInv, Finals, PM!Over
<1>8. Unstarted(t) /\ AtHand(t)
  BY <1>1, <1>2, <1>5 DEF Good, MInv, Unstarted, AtHand
<1>9. PM!StakeKept(t)
  <2> SUFFICES ASSUME NEW j \in s.staked \ (s.closed \cup s.left \cup s.lost)
               PROVE  \/ s.tun = j \/ j \in r \/ s.stale
                      \/ s.flow[j] \notin {"none", "live", "gone"} \/ s.fin[j] # "none"
    BY <1>5 DEF PM!StakeKept
  <2>1. j \in PM!Ids
    BY <1>s DEF Session
  <2>2. CASE PM!Over(s, j)
    BY <2>1, <2>2 DEF Good, MInv, Finals
  <2>3. CASE ~PM!Over(s, j)
    <3>1. j \in s.rec => j \in r
      BY <1>2, <2>3 DEF PM!Resumable
    <3> QED
      BY <3>1 DEF Good, MInv, PM!StakeKept
  <2> QED
    BY <2>2, <2>3
<1> QED
  BY <1>2, <1>3, <1>4, <1>5, <1>6, <1>7, <1>8, <1>9 DEF Good, MInv

\* The watchdog watches the match at hand.
LEMMA ArmGood ==
  ASSUME NEW s, Good(s), NEW r \in PM!Ids, s.tun = r
  PROVE  Good(PM!armResumeWatchdog(s, r))
<1>s. s \in Session /\ r \in Nat
  BY DEF Good, PM!Ids
<1>1. PICK d \in Nat : d = (IF s.game[r].pend \/ ~s.game[r].mine THEN r ELSE 0)
  BY <1>s
<1>2. PICK t : t = [s EXCEPT !.dog = d]
  BY Zenon
<1>3. t = PM!armResumeWatchdog(s, r)
  BY <1>1, <1>2, Zenon DEF PM!armResumeWatchdog
<1>4. t \in Session
  BY <1>s, <1>2, ZenonT(40) DEF Session
<1>5. /\ t.tun = s.tun /\ t.dog = d /\ t.started = s.started /\ t.flow = s.flow
      /\ t.fin = s.fin /\ t.game = s.game /\ t.rec = s.rec /\ t.staked = s.staked
      /\ t.closed = s.closed /\ t.left = s.left /\ t.lost = s.lost /\ t.stale = s.stale
      /\ t.subs = s.subs /\ t.signed = s.signed /\ t.halves = s.halves /\ t.halfAt = s.halfAt
      /\ t.x = s.x /\ t.status = s.status
  BY <1>s, <1>2 DEF Session
<1>6. Tokens(t)
  BY <1>5 DEF Good, MInv, Tokens
<1>7. Finals(t)
  BY <1>5 DEF Good, MInv, Finals, PM!Over
<1>8. Unstarted(t)
  BY <1>5 DEF Good, MInv, Unstarted
<1>9. AtHand(t)
  BY <1>1, <1>5 DEF Good, MInv, AtHand
<1>a. PM!StakeKept(t)
  BY <1>5 DEF Good, MInv, PM!StakeKept
<1> QED
  BY <1>3, <1>4, <1>6, <1>7, <1>8, <1>9, <1>a DEF Good, MInv

\* A cold load resumes one unfinished match.
LEMMA ColdLoadGood ==
  ASSUME Good(st), Starts \in Nat, PM!resume
  PROVE  Good(st')
<1>1. PICK u : u = [st EXCEPT !.rec = PM!Resumable(st)]
  BY Zenon
<1>2. Good(u) /\ u.rec = PM!Resumable(st) /\ u.tun = st.tun /\ u.started = st.started
      /\ u.game = st.game
  BY <1>1, RecDropped
<1>3. CASE PM!Resumable(st) = {}
  BY <1>1, <1>2, <1>3 DEF PM!resume
<1>4. CASE PM!Resumable(st) # {}
  <2>1. PICK s : s = PM!Started(u, 0, "gone")
    OBVIOUS
  <2>2. PICK r \in PM!Resumable(st) :
          st' = PM!armResumeWatchdog(PM!maybePropose(PM!activateSession([s EXCEPT !.sock[r] = s.mp], r)), r)
    BY <1>1, <1>4, <2>1, Zenon DEF PM!resume
  <2>3. r \in PM!Ids /\ ~PM!Over(st, r) /\ r \in u.rec
    BY <1>2 DEF PM!Resumable, Good, Session
  <2>4. PM!Room(u) /\ "gone" \in Flows \ {"live"}
    BY <1>2 DEF PM!resume, PM!Room, Flows
  <2>5. Good(s) /\ s.started = u.started + 1 /\ s.tun = u.tun /\ s.game = u.game
        /\ s.mp = u.started + 1 /\ u.started + 1 \in PM!Ids
    BY <1>2, <2>1, <2>4, StartGood
  <2>6. s \in Session /\ s.mp \in Nat /\ u.started \in Nat
    BY <1>2, <2>5, Zenon DEF Good, Session
  <2>7. PICK so \in [PM!Ids -> Nat] : so = [s.sock EXCEPT ![r] = s.mp]
    BY <2>3, <2>6, Pieces, Zenon
  <2>8. PICK t : t = [s EXCEPT !.sock = so]
    BY Zenon
  <2>9. t = [s EXCEPT !.sock[r] = s.mp]
    BY <2>7, <2>8, Zenon
  <2>a. t \in Session /\ SameWork(s, t) /\ t.status = s.status
    BY <2>6, <2>8, ZenonT(40) DEF Session, SameWork
  <2>b. Good(t)
    BY <2>5, <2>a, Dressed
  <2>c. ~(r > u.started)
    BY <1>2, <2>3 DEF Good, MInv, Unstarted
  <2>d. ~(r > t.started)
    BY <2>3, <2>5, <2>6, <2>a, <2>c DEF SameWork, PM!Ids
  <2>e. t.tun # r
    BY <1>2, <2>3, <2>5, <2>a DEF SameWork, PM!resume, Good, MInv, AtHand, PM!Ids
  <2>f. ~PM!Over(t, r)
    BY <1>2, <2>3, <2>5, <2>a DEF SameWork, PM!Over
  <2>g. Good(PM!activateSession(t, r)) /\ PM!activateSession(t, r).tun = r
    BY <2>3, <2>b, <2>d, <2>e, <2>f, ActGood
  <2>h. PICK a : a = PM!maybePropose(PM!activateSession(t, r))
    OBVIOUS
  <2>i. Good(a) /\ a.tun = r
    BY <2>g, <2>h, MaybeGood DEF SameWork
  <2> QED
    BY <2>2, <2>3, <2>9, <2>h, <2>i, ArmGood
<1> QED
  BY <1>3, <1>4

\* The reset of a window whose stake at hand is accounted for otherwise.
LEMMA ResetGood ==
  ASSUME NEW s, Good(s)
  PROVE  LET t == PM!reset(s) IN
         /\ t \in Session /\ Tokens(t) /\ Finals(t) /\ Unstarted(t) /\ AtHand(t)
         /\ t.tun = 0 /\ t.dog = 0 /\ t.started = s.started /\ t.flow = s.flow
         /\ t.fin = s.fin /\ t.game = s.game /\ t.rec = s.rec /\ t.staked = s.staked
         /\ t.closed = s.closed /\ t.left = s.left /\ t.lost = s.lost /\ t.stale = s.stale
         /\ t.subs = s.subs /\ t.signed = s.signed /\ t.halves = s.halves
         /\ t.halfAt = s.halfAt /\ t.x = PM!Idle
<1>s. s \in Session
  BY DEF Good
<1>1. PICK t : t = PM!reset(s)
  OBVIOUS
<1>2. t \in Session
  BY <1>s, <1>1, ZenonT(40) DEF PM!reset, Session, Stati, PM!Idle, Extra
<1>3. /\ t.tun = 0 /\ t.dog = 0 /\ t.started = s.started /\ t.flow = s.flow
      /\ t.fin = s.fin /\ t.game = s.game /\ t.rec = s.rec /\ t.staked = s.staked
      /\ t.closed = s.closed /\ t.left = s.left /\ t.lost = s.lost /\ t.stale = s.stale
      /\ t.subs = s.subs /\ t.signed = s.signed /\ t.halves = s.halves
      /\ t.halfAt = s.halfAt /\ t.x = PM!Idle
  BY <1>s, <1>1 DEF Session, PM!reset
<1>4. Tokens(t)
  BY <1>3 DEF Good, MInv, Tokens
<1>5. Finals(t)
  BY <1>3 DEF Good, MInv, Finals, PM!Over
<1>6. Unstarted(t) /\ AtHand(t)
  BY <1>3 DEF Good, MInv, Unstarted, AtHand, PM!Idle
<1> QED
  BY <1>1, <1>2, <1>3, <1>4, <1>5, <1>6

\* The watchdog gives up the match it watched, which is the one at hand.
LEMMA WatchdogGood ==
  ASSUME Good(st), PM!ResumeWatchdog
  PROVE  Good(st')
<1>s. st \in Session
  BY DEF Good
<1>1. PICK r : r = PM!reset(st)
  OBVIOUS
<1>2. /\ r \in Session /\ Tokens(r) /\ Finals(r) /\ Unstarted(r) /\ AtHand(r)
      /\ r.tun = 0 /\ r.flow = st.flow /\ r.fin = st.fin /\ r.rec = st.rec
      /\ r.staked = st.staked /\ r.closed = st.closed /\ r.left = st.left
      /\ r.lost = st.lost /\ r.stale = st.stale
  BY <1>1, ResetGood
<1>3. st.dog # 0 /\ (st.dog = st.tun \/ st.stale) /\ st.dog \in PM!Ids
  BY DEF PM!ResumeWatchdog, Good, MInv, AtHand
<1>4. CASE st.dog \in PM!Ids
  <2>1. r.rec \ {st.dog} \in SUBSET PM!Ids /\ r.lost \cup ({st.dog} \ st.closed) \in SUBSET PM!Ids
    BY <1>2, <1>4 DEF Session
  <2>2. PICK c \in SUBSET PM!Ids, l \in SUBSET PM!Ids :
          c = r.rec \ {st.dog} /\ l = r.lost \cup ({st.dog} \ st.closed)
    BY <2>1, Zenon
  <2>3. PICK t : t = [r EXCEPT !.rec = c, !.lost = l]
    OBVIOUS
  <2>4. st' = t
    BY <1>1, <2>2, <2>3, Zenon DEF PM!ResumeWatchdog
  <2>5. t \in Session
    BY <1>2, <2>3, ZenonT(40) DEF Session
  <2>6. /\ t.tun = r.tun /\ t.dog = r.dog /\ t.started = r.started /\ t.flow = r.flow
        /\ t.fin = r.fin /\ t.game = r.game /\ t.rec = c /\ t.staked = r.staked
        /\ t.closed = r.closed /\ t.left = r.left /\ t.lost = l /\ t.stale = r.stale
        /\ t.subs = r.subs /\ t.signed = r.signed /\ t.halves = r.halves
        /\ t.halfAt = r.halfAt /\ t.x = r.x /\ t.status = r.status
    BY <1>2, <2>3 DEF Session
  <2>7. Tokens(t)
    BY <1>2, <2>6 DEF Tokens
  <2>8. Finals(t)
    BY <1>2, <2>2, <2>6 DEF Finals, PM!Over
  <2>9. Unstarted(t) /\ AtHand(t)
    BY <1>2, <2>2, <2>6 DEF Unstarted, AtHand
  <2>a. PM!StakeKept(t)
    BY <1>2, <1>3, <2>2, <2>6 DEF Good, MInv, PM!StakeKept
  <2> QED
    BY <2>4, <2>5, <2>7, <2>8, <2>9, <2>a DEF Good, MInv
<1> QED
  BY <1>3, <1>4

\* A settlement is over: the close is in, or the peer's close is seen.
LEMMA SettledGood ==
  ASSUME Good(st), NEW k \in PM!Ids, PM!settled(k)
  PROVE  Good(st')
<1>s. st \in Session
  BY DEF Good
<1>1. PICK fi \in [PM!Ids -> Fins] : fi = [st.fin EXCEPT ![k] = "done"]
  BY <1>s, Pieces, Zenon DEF Fins
<1>2. PICK b \in BOOLEAN : b = (st.stale \/ st.tun # k)
  BY Zenon
<1>3. (IF st.fin[k] = "submit" THEN st.closed \cup {k} ELSE st.closed) \in SUBSET PM!Ids
  BY <1>s DEF Session
<1>4. PICK c \in SUBSET PM!Ids : c = IF st.fin[k] = "submit" THEN st.closed \cup {k} ELSE st.closed
  BY <1>3, Zenon
<1>5. PICK t : t = [st EXCEPT !.fin = fi, !.stale = b, !.closed = c]
  OBVIOUS
<1>6. t = [st EXCEPT !.fin[k] = "done", !.stale = @ \/ st.tun # k,
                     !.closed = IF st.fin[k] = "submit" THEN @ \cup {k} ELSE @]
  BY <1>1, <1>2, <1>4, <1>5, Zenon
<1>7. t \in Session
  BY <1>s, <1>5, ZenonT(40) DEF Session
<1>8. /\ t.tun = st.tun /\ t.dog = st.dog /\ t.started = st.started /\ t.flow = st.flow
      /\ t.game = st.game /\ t.rec = st.rec /\ t.staked = st.staked
      /\ t.closed = c /\ t.left = st.left /\ t.lost = st.lost /\ t.stale = b
      /\ t.subs = st.subs /\ t.signed = st.signed /\ t.halves = st.halves
      /\ t.halfAt = st.halfAt /\ t.fin = fi /\ t.x = st.x /\ t.status = st.status
  BY <1>s, <1>5 DEF Session
<1>9. fi[k] = "done" /\ \A j \in PM!Ids \ {k} : fi[j] = st.fin[j]
  BY <1>s, <1>1 DEF Session
<1>a. PM!Over(st, k)
  BY DEF PM!settled, Good, MInv, Finals
<1>b. st.closed \subseteq c /\ (st.stale => b)
  BY <1>2, <1>4, Zenon
<1>c. Later(st, t)
  BY <1>8, <1>9, <1>a, <1>b DEF Later
<1>d. Good(t)
  BY <1>7, <1>8, <1>c, LaterGood
<1> QED
  BY <1>6, <1>d, ResolvedGood DEF PM!settled

\* A settlement fails: a player who is leaving goes, and the stake is lost to the window.
LEMMA SettleFailsGood ==
  ASSUME Good(st), NEW k \in PM!Ids, PM!settleFails(k)
  PROVE  Good(st')
<1>s. st \in Session
  BY DEF Good
<1>1. PICK fi \in [PM!Ids -> Fins] : fi = [st.fin EXCEPT ![k] = "failed"]
  BY <1>s, Pieces, Zenon DEF Fins
<1>2. st.lost \cup {k} \in SUBSET PM!Ids
  BY <1>s DEF Session
<1>3. PICK l \in SUBSET PM!Ids : l = st.lost \cup {k}
  BY <1>2, Zenon
<1>4. PICK t : t = [st EXCEPT !.fin = fi, !.lost = l]
  OBVIOUS
<1>5. t = [st EXCEPT !.fin[k] = "failed", !.lost = @ \cup {k}]
  BY <1>1, <1>3, <1>4, Zenon
<1>6. t \in Session
  BY <1>s, <1>4, ZenonT(40) DEF Session
<1>7. /\ t.tun = st.tun /\ t.dog = st.dog /\ t.started = st.started /\ t.flow = st.flow
      /\ t.game = st.game /\ t.rec = st.rec /\ t.staked = st.staked
      /\ t.closed = st.closed /\ t.left = st.left /\ t.lost = l /\ t.stale = st.stale
      /\ t.subs = st.subs /\ t.signed = st.signed /\ t.halves = st.halves
      /\ t.halfAt = st.halfAt /\ t.fin = fi /\ t.x = st.x /\ t.status = st.status
  BY <1>s, <1>4 DEF Session
<1>8. fi[k] = "failed" /\ \A j \in PM!Ids \ {k} : fi[j] = st.fin[j]
  BY <1>s, <1>1 DEF Session
<1>9. Later(st, t)
  BY <1>3, <1>7, <1>8 DEF Later
<1>a. Good(t)
  BY <1>6, <1>7, <1>9, LaterGood
<1>b. st' = IF t.x.leaving THEN PM!reset(t) ELSE [t EXCEPT !.status = "error"]
  BY <1>5 DEF PM!settleFails
<1>c. CASE ~t.x.leaving
  BY <1>a, <1>b, <1>c, StatusSet DEF Stati
<1>d. CASE t.x.leaving
  <2>1. PICK r : r = PM!reset(t)
    OBVIOUS
  <2>2. /\ r \in Session /\ Tokens(r) /\ Finals(r) /\ Unstarted(r) /\ AtHand(r)
        /\ r.tun = 0 /\ r.flow = t.flow /\ r.fin = t.fin /\ r.rec = t.rec
        /\ r.staked = t.staked /\ r.closed = t.closed /\ r.left = t.left
        /\ r.lost = t.lost /\ r.stale = t.stale
    BY <1>a, <2>1, ResetGood
  <2>3. t.tun # 0 /\ (t.fin[t.tun] # "none" \/ t.stale)
    BY <1>a, <1>d DEF Good, MInv, AtHand
  <2>4. PM!StakeKept(r)
    BY <1>a, <2>2, <2>3 DEF Good, MInv, PM!StakeKept
  <2> QED
    BY <1>b, <1>d, <2>1, <2>2, <2>4 DEF Good, MInv
<1> QED
  BY <1>c, <1>d

\* The opponent signs its half once, of the state it has.
LEMMA BotSignsGood ==
  ASSUME Good(st), NEW k \in PM!Ids, PM!botSigns(k)
  PROVE  Good(st')
<1>s. st \in Session /\ st.game[k] \in Game
  BY Pieces DEF Good
<1>n. st.game[k].n \in Nat
  BY <1>s DEF Game
<1>1. st.signed \cup {k} \in SUBSET PM!Ids /\ st.halves \cup {k} \in SUBSET PM!Ids
      /\ [st.halfAt EXCEPT ![k] = st.game[k].n] \in [PM!Ids -> Nat]
  BY <1>s, <1>n DEF Session
<1>2. PICK g \in SUBSET PM!Ids, h \in SUBSET PM!Ids, a \in [PM!Ids -> Nat] :
        /\ g = st.signed \cup {k} /\ h = st.halves \cup {k}
        /\ a = [st.halfAt EXCEPT ![k] = st.game[k].n]
  BY <1>1, Zenon
<1>3. PICK t : t = [st EXCEPT !.signed = g, !.halves = h, !.halfAt = a]
  OBVIOUS
<1>4. st' = t /\ k \notin st.signed
  BY <1>2, <1>3, Zenon DEF PM!botSigns, PM!BotSigns, PM!CanBotSign
<1>5. t \in Session
  BY <1>s, <1>3, ZenonT(40) DEF Session
<1>6. /\ t.tun = st.tun /\ t.dog = st.dog /\ t.started = st.started /\ t.flow = st.flow
      /\ t.fin = st.fin /\ t.game = st.game /\ t.rec = st.rec /\ t.staked = st.staked
      /\ t.closed = st.closed /\ t.left = st.left /\ t.lost = st.lost /\ t.stale = st.stale
      /\ t.subs = st.subs /\ t.signed = g /\ t.halves = h
      /\ t.halfAt = a /\ t.x = st.x /\ t.status = st.status
  BY <1>s, <1>3 DEF Session
<1>7. a[k] = st.game[k].n /\ \A j \in PM!Ids \ {k} : a[j] = st.halfAt[j]
  BY <1>s, <1>2 DEF Session
<1>8. Tokens(t)
  BY <1>2, <1>4, <1>6, <1>7 DEF Good, MInv, Tokens
<1>9. Finals(t)
  BY <1>6 DEF Good, MInv, Finals, PM!Over
<1>a. Unstarted(t) /\ AtHand(t)
  BY <1>6 DEF Good, MInv, Unstarted, AtHand
<1>b. PM!StakeKept(t)
  BY <1>6 DEF Good, MInv, PM!StakeKept
<1> QED
  BY <1>4, <1>5, <1>8, <1>9, <1>a, <1>b DEF Good, MInv

\* A settlement takes the half out of the inbox; it verifies, and seat A sends the close.
LEMMA SettleGood ==
  ASSUME Good(st), NEW k \in PM!Ids, PM!settle(k)
  PROVE  Good(st')
<1>s. st \in Session
  BY DEF Good
<1>1. st.fin[k] = "half" /\ k \in st.halves /\ PM!Over(st, k)
  BY DEF PM!settle, PM!HalfHere, Good, MInv, Finals
<1>2. st.halves \ {k} \in SUBSET PM!Ids
  BY <1>s DEF Session
<1>3. PICK h \in SUBSET PM!Ids : h = st.halves \ {k}
  BY <1>2, Zenon
<1>4. PICK s : s = [st EXCEPT !.halves = h]
  BY Zenon
<1>5. s = [st EXCEPT !.halves = @ \ {k}]
  BY <1>3, <1>4, Zenon
<1>6. s \in Session /\ s.game = st.game /\ s.halfAt = st.halfAt
  BY <1>s, <1>4, ZenonT(40) DEF Session
<1>7. PM!Verifies(s, k, k)
  BY <1>1, <1>6 DEF PM!Verifies, Good, MInv, Tokens
<1>8. st' = IF s.role[k] = "A" THEN [s EXCEPT !.fin[k] = "submit", !.subs[k] = @ + 1]
            ELSE [s EXCEPT !.fin[k] = "balance"]
  BY <1>5, <1>7 DEF PM!settle
<1>9. /\ s.tun = st.tun /\ s.dog = st.dog /\ s.started = st.started /\ s.flow = st.flow
      /\ s.fin = st.fin /\ s.rec = st.rec /\ s.staked = st.staked
      /\ s.closed = st.closed /\ s.left = st.left /\ s.lost = st.lost /\ s.stale = st.stale
      /\ s.subs = st.subs /\ s.signed = st.signed /\ s.halves = h
      /\ s.x = st.x /\ s.status = st.status
  BY <1>s, <1>4 DEF Session
<1>a. st.subs[k] = 0 /\ k \in st.signed
  BY <1>1 DEF Good, MInv, Tokens
<1>b. ASSUME NEW v \in {"submit", "balance"}, NEW m \in [PM!Ids -> Nat],
             m[k] \in {0, 1}, \A j \in PM!Ids \ {k} : m[j] = st.subs[j],
             NEW fi \in [PM!Ids -> Fins], fi = [st.fin EXCEPT ![k] = v]
      PROVE  Good([s EXCEPT !.fin = fi, !.subs = m])
  <2>1. PICK t : t = [s EXCEPT !.fin = fi, !.subs = m]
    OBVIOUS
  <2>2. t \in Session
    BY <1>6, <2>1, ZenonT(40) DEF Session
  <2>3. /\ t.tun = st.tun /\ t.dog = st.dog /\ t.started = st.started /\ t.flow = st.flow
        /\ t.fin = fi /\ t.game = st.game /\ t.rec = st.rec /\ t.staked = st.staked
        /\ t.closed = st.closed /\ t.left = st.left /\ t.lost = st.lost
        /\ t.stale = st.stale /\ t.subs = m /\ t.signed = st.signed /\ t.halves = h
        /\ t.halfAt = st.halfAt /\ t.x = st.x /\ t.status = st.status
    BY <1>6, <1>9, <2>1 DEF Session
  <2>4. fi[k] = v /\ v # "none" /\ \A j \in PM!Ids \ {k} : fi[j] = st.fin[j]
    BY <1>s, <1>b DEF Session
  <2>5. Tokens(t)
    BY <1>3, <1>a, <1>b, <2>3 DEF Good, MInv, Tokens
  <2>6. Finals(t)
    BY <1>1, <2>3, <2>4 DEF Good, MInv, Finals, PM!Over
  <2>7. Unstarted(t)
    BY <2>3 DEF Good, MInv, Unstarted
  <2>8. AtHand(t)
    BY <2>3, <2>4 DEF Good, MInv, AtHand
  <2>9. PM!StakeKept(t)
    <3>1. \A j \in st.staked : j \in PM!Ids
      BY <1>s DEF Session
    <3> QED
      BY <2>3, <2>4, <3>1 DEF Good, MInv, PM!StakeKept
  <2> QED
    BY <2>1, <2>2, <2>5, <2>6, <2>7, <2>8, <2>9 DEF Good, MInv
<1>c. CASE s.role[k] = "A"
  <2>1. PICK fi \in [PM!Ids -> Fins] : fi = [st.fin EXCEPT ![k] = "submit"]
    BY <1>s, Pieces, Zenon DEF Fins
  <2>2. [s.subs EXCEPT ![k] = s.subs[k] + 1] \in [PM!Ids -> Nat]
    BY <1>6 DEF Session
  <2>3. PICK m \in [PM!Ids -> Nat] : m = [s.subs EXCEPT ![k] = s.subs[k] + 1]
    BY <2>2, Zenon
  <2>4. m[k] = 1 /\ \A j \in PM!Ids \ {k} : m[j] = st.subs[j]
    BY <1>6, <1>9, <1>a, <2>3 DEF Session
  <2>5. st' = [s EXCEPT !.fin = fi, !.subs = m]
    BY <1>8, <1>9, <1>c, <2>1, <2>3, ZenonT(40)
  <2> QED
    BY <1>b, <2>1, <2>4, <2>5, Zenon
<1>d. CASE s.role[k] # "A"
  <2>1. PICK fi \in [PM!Ids -> Fins] : fi = [st.fin EXCEPT ![k] = "balance"]
    BY <1>s, Pieces, Zenon DEF Fins
  <2>2. st.subs \in [PM!Ids -> Nat]
    BY <1>s DEF Session
  <2>3. st' = [s EXCEPT !.fin = fi, !.subs = st.subs]
    <3>1. st' = [s EXCEPT !.fin = fi]
      BY <1>8, <1>9, <1>d, <2>1, Zenon
    <3> QED
      BY <1>6, <1>9, <3>1, Zenon DEF Session
  <2> QED
    BY <1>a, <1>b, <2>1, <2>2, <2>3, Zenon
<1> QED
  BY <1>c, <1>d

\* One more co-signed update: a finished board has its settlement asked for in the same step.
LEMMA ConfirmedGood ==
  ASSUME Good(st), NEW k \in PM!Ids, PM!onConfirmed(k)
  PROVE  Good(st')
<1>s. st \in Session /\ st.game[k] \in Game
  BY Pieces DEF Good
<1>1. st.flow[k] = "live" /\ k \notin st.signed /\ ~PM!Over(st, k)
  BY DEF PM!onConfirmed, PM!CanAdvance
<1>a1. PICK u \in PM!Advanced(st, k, {"draw"}) :
         LET t == PM!maybePropose([u EXCEPT !.dog = 0])
         IN  st' = PM!Persist(IF PM!Over(t, k) THEN PM!triggerSettle(t, k, FALSE) ELSE t, k)
  BY Zenon DEF PM!onConfirmed
<1>a2. PICK m \in BOOLEAN, at \in {"draw", "over"} :
         u = [st EXCEPT !.game[k] = [at |-> at, mine |-> m, pend |-> FALSE,
                                     n |-> st.game[k].n + 1]]
  BY DEF PM!Advanced
<1>a3. PICK g : g = [at |-> at, mine |-> m, pend |-> FALSE, n |-> st.game[k].n + 1]
  BY Zenon
<1>2. /\ g = [at |-> at, mine |-> m, pend |-> FALSE, n |-> st.game[k].n + 1]
      /\ u = [st EXCEPT !.game[k] = g]
  BY <1>a2, <1>a3
<1>3. g \in Game /\ g.at = at
  <2>1. st.game[k].n + 1 \in Nat
    BY <1>s DEF Game
  <2> QED
    BY <1>2, <2>1 DEF Game
<1>4. PICK h \in [PM!Ids -> Game] : h = [st.game EXCEPT ![k] = g]
  BY <1>s, <1>3, Pieces, Zenon
<1>5. PICK s : s = [st EXCEPT !.game = h, !.dog = 0]
  OBVIOUS
<1>6. s \in Session
  BY <1>s, <1>5, ZenonT(40) DEF Session
<1>7. s = [[st EXCEPT !.game[k] = g] EXCEPT !.dog = 0]
  <2>1. [st EXCEPT !.game = h] = [st EXCEPT !.game[k] = g]
    BY <1>4, Zenon
  <2>2. s = [[st EXCEPT !.game = h] EXCEPT !.dog = 0]
    BY <1>s, <1>5 DEF Session
  <2> QED
    BY <2>1, <2>2, Zenon
<1>8. /\ s.tun = st.tun /\ s.dog = 0 /\ s.started = st.started /\ s.flow = st.flow
      /\ s.fin = st.fin /\ s.game = h /\ s.rec = st.rec /\ s.staked = st.staked
      /\ s.closed = st.closed /\ s.left = st.left /\ s.lost = st.lost /\ s.stale = st.stale
      /\ s.subs = st.subs /\ s.signed = st.signed /\ s.halves = st.halves
      /\ s.halfAt = st.halfAt /\ s.x = st.x /\ s.status = st.status
  BY <1>s, <1>5 DEF Session
<1>9. PICK t : t = PM!maybePropose(s)
  OBVIOUS
<1>a. t \in Session /\ SameWork(s, t) /\ t.status = s.status
  <2>1. PICK b \in BOOLEAN : b = (s.tun # 0 /\ PM!Owed(s, s.tun))
    BY Zenon
  <2>2. PICK y \in Extra : y = [s.x EXCEPT !.timer = b]
    BY <1>6, Pieces, Zenon
  <2>3. t = [s EXCEPT !.x = y]
    BY <1>9, <2>1, <2>2, Zenon DEF PM!maybePropose
  <2>4. y.now = s.x.now /\ y.leaving = s.x.leaving
    BY <1>6, <2>2 DEF Session, Extra
  <2> QED
    BY <1>6, <2>3, <2>4, ZenonT(40) DEF Session, SameWork
<1>b. h[k].at = at /\ \A j \in PM!Ids \ {k} : h[j] = st.game[j]
  BY <1>s, <1>3, <1>4 DEF Session
<1>c. ASSUME NEW v \in Session, NEW fi,
             /\ v.tun = t.tun /\ v.dog = 0 /\ v.started = t.started /\ v.flow = t.flow
             /\ v.fin = fi /\ v.game = h /\ v.rec = t.rec /\ v.staked = t.staked
             /\ v.closed = t.closed /\ v.left = t.left /\ v.lost = t.lost
             /\ v.stale = t.stale /\ v.subs = t.subs /\ v.signed = t.signed
             /\ v.halves = t.halves /\ v.halfAt = t.halfAt /\ v.x = t.x
             /\ v.status = t.status \/ v.status # "idle",
             \A j \in PM!Ids \ {k} : fi[j] = st.fin[j],
             \/ fi[k] = st.fin[k] /\ (PM!Over(v, k) => fi[k] # "none")
             \/ fi[k] = "half" /\ PM!Over(v, k)
      PROVE  Good(v)
  <2>1. /\ v.tun = st.tun /\ v.dog = 0 /\ v.started = st.started /\ v.flow = st.flow
        /\ v.fin = fi /\ v.game = h /\ v.rec = st.rec /\ v.staked = st.staked
        /\ v.closed = st.closed /\ v.left = st.left /\ v.lost = st.lost
        /\ v.stale = st.stale /\ v.subs = st.subs /\ v.signed = st.signed
        /\ v.halves = st.halves /\ v.halfAt = st.halfAt
        /\ v.x.now = st.x.now /\ v.x.leaving = st.x.leaving
        /\ (v.status = st.status \/ v.status # "idle")
    BY <1>8, <1>a, <1>c, ZenonT(40) DEF SameWork
  <2>2. st.fin[k] \notin {"half", "submit", "balance", "done"}
    BY <1>1, ZenonT(40) DEF Good, MInv, Finals
  <2>3. fi[k] = "none" => st.fin[k] = "none"
    BY <1>c
  <2>4. Tokens(v)
    BY <1>1, <1>b, <2>1 DEF Good, MInv, Tokens
  <2>5. Finals(v)
    <3> SUFFICES ASSUME NEW j \in PM!Ids
                 PROVE  /\ v.fin[j] \in {"half", "submit", "balance", "done"} => PM!Over(v, j)
                        /\ PM!Over(v, j) => v.flow[j] \in {"live", "gone"}
                        /\ PM!Over(v, j) /\ j \in v.staked
                             => v.fin[j] # "none" \/ j \in v.closed \/ j \in v.left \/ j \in v.lost
      BY DEF Finals
    <3>1. CASE j = k
      BY <1>1, <1>c, <2>1, <2>2, <3>1
    <3>2. CASE j # k
      <4>1. v.game[j] = st.game[j] /\ v.fin[j] = st.fin[j]
        BY <1>b, <1>c, <2>1, <3>2
      <4>2. PM!Over(v, j) <=> PM!Over(st, j)
        BY <4>1, Zenon DEF PM!Over
      <4>3. Finals(st)
        BY DEF Good, MInv
      <4> QED
        BY <2>1, <4>1, <4>2, <4>3, Zenon DEF Finals
    <3> QED
      BY <3>1, <3>2
  <2>6. Unstarted(v)
    BY <2>1 DEF Good, MInv, Unstarted
  <2>7. \A j \in PM!Ids : fi[j] = "none" => st.fin[j] = "none"
    BY <1>c, <2>3
  <2>8. AtHand(v)
    BY <2>1, <2>7 DEF Good, MInv, AtHand
  <2>9. PM!StakeKept(v)
    <3>1. \A j \in st.staked : j \in PM!Ids
      BY <1>s DEF Session
    <3> QED
      BY <2>1, <2>7, <3>1, Zenon DEF Good, MInv, PM!StakeKept
  <2> QED
    BY <2>4, <2>5, <2>6, <2>8, <2>9 DEF Good, MInv
<1>d. ~(k > st.started)
  BY <1>1 DEF Good, MInv, Unstarted
<1>e. st' = PM!Persist(IF PM!Over(t, k) THEN PM!triggerSettle(t, k, FALSE) ELSE t, k)
  BY <1>a1, <1>2, <1>7, <1>9
<1>f. CASE ~PM!Over(t, k) \/ t.fin[k] # "none"
  <2>1. st' = PM!Persist(t, k)
    BY <1>e, <1>f DEF PM!triggerSettle
  <2>2. /\ t.dog = 0 /\ t.game = h /\ t.fin = st.fin /\ t.started = st.started
    BY <1>8, <1>a DEF SameWork
  <2>3. Good(t)
    BY <1>a, <1>c, <1>f, <2>2
  <2> QED
    BY <1>d, <2>1, <2>2, <2>3, PersistGood
<1>g. CASE PM!Over(t, k) /\ t.fin[k] = "none"
  <2>1. PICK fi \in [PM!Ids -> Fins] : fi = [t.fin EXCEPT ![k] = "half"]
    BY <1>a, Pieces, Zenon DEF Fins
  <2>2. PICK v : v = [t EXCEPT !.fin = fi, !.status = "settling"]
    OBVIOUS
  <2>3. v = PM!triggerSettle(t, k, FALSE)
    BY <1>g, <2>1, <2>2, Zenon DEF PM!triggerSettle
  <2>4. v \in Session
    BY <1>a, <2>2, ZenonT(40) DEF Session, Stati
  <2>5. /\ v.tun = t.tun /\ v.dog = t.dog /\ v.started = t.started /\ v.flow = t.flow
        /\ v.fin = fi /\ v.game = t.game /\ v.rec = t.rec /\ v.staked = t.staked
        /\ v.closed = t.closed /\ v.left = t.left /\ v.lost = t.lost
        /\ v.stale = t.stale /\ v.subs = t.subs /\ v.signed = t.signed
        /\ v.halves = t.halves /\ v.halfAt = t.halfAt /\ v.x = t.x
        /\ v.status = "settling"
    BY <1>a, <2>2 DEF Session
  <2>6. t.dog = 0 /\ t.game = h /\ t.fin = st.fin /\ t.started = st.started
    BY <1>8, <1>a DEF SameWork
  <2>7. fi[k] = "half" /\ \A j \in PM!Ids \ {k} : fi[j] = st.fin[j]
    BY <1>s, <2>1, <2>6 DEF Session
  <2>8. PM!Over(v, k)
    BY <1>g, <2>5 DEF PM!Over
  <2>9. Good(v)
    BY <1>c, <2>4, <2>5, <2>6, <2>7, <2>8
  <2>a. st' = PM!Persist(v, k)
    BY <1>e, <1>g, <2>3, Zenon
  <2> QED
    BY <1>d, <2>5, <2>6, <2>9, <2>a, PersistGood
<1> QED
  BY <1>f, <1>g

\* A reload keeps what is in storage and on chain.
LEMMA ReloadGood ==
  ASSUME Good(st), PM!reload
  PROVE  Good(st')
<1>s. st \in Session
  BY DEF Good
<1>1. PICK fl : fl = [k \in PM!Ids |-> IF st.flow[k] = "none" THEN "none" ELSE "gone"]
  BY Zenon
<1>2. fl \in [PM!Ids -> Flows]
  BY <1>1 DEF Flows
<1>3. PICK fi : fi = PM!Each("none")
  OBVIOUS
<1>4. fi \in [PM!Ids -> Fins] /\ \A j \in PM!Ids : fi[j] = "none"
  BY <1>3 DEF PM!Each, Fins
<1>5. PICK l : l = st.lost \cup {k \in st.staked : k \notin st.rec \/ st.game[k].at = "over"}
  BY Zenon
<1>6. l \in SUBSET PM!Ids
  BY <1>s, <1>5 DEF Session
<1>7. PICK n \in Nat : n = st.reloads + 1
  BY <1>s DEF Session
<1>8. PICK y : y = PM!Idle
  OBVIOUS
<1>9. y \in Extra /\ y.now = 0 /\ y.leaving = FALSE
  BY <1>8 DEF PM!Idle, Extra
<1>a. PICK u : u = PM!Mounted(st)
  OBVIOUS
<1>b. u = [st EXCEPT !.status = "idle", !.mp = 0, !.open = {}, !.tun = 0, !.flow = fl,
                     !.fin = fi, !.heard = {}, !.buf = 0, !.waiter = 0, !.once = FALSE,
                     !.stopping = FALSE, !.auto = FALSE, !.pref = FALSE, !.attached = {},
                     !.timers = {}, !.entered = FALSE, !.dog = 0, !.reloads = n, !.lost = l]
  BY <1>1, <1>3, <1>5, <1>7, <1>a, Zenon DEF PM!Mounted
<1>c. u \in Session
  BY <1>s, <1>2, <1>4, <1>6, <1>b, ZenonT(40) DEF Session, Stati
<1>d. PICK t : t = [u EXCEPT !.x = y]
  BY Zenon
<1>e. st' = t
  BY <1>8, <1>a, <1>d DEF PM!reload
<1>f. t \in Session
  BY <1>9, <1>c, <1>d, ZenonT(40) DEF Session
<1>g. /\ u.tun = 0 /\ u.dog = 0 /\ u.started = st.started /\ u.flow = fl
      /\ u.fin = fi /\ u.game = st.game /\ u.rec = st.rec /\ u.staked = st.staked
      /\ u.closed = st.closed /\ u.left = st.left /\ u.lost = l /\ u.stale = st.stale
      /\ u.subs = st.subs /\ u.signed = st.signed /\ u.halves = st.halves
      /\ u.halfAt = st.halfAt
  BY <1>s, <1>b DEF Session
<1>h. /\ t.tun = 0 /\ t.dog = 0 /\ t.started = st.started /\ t.flow = fl
      /\ t.fin = fi /\ t.game = st.game /\ t.rec = st.rec /\ t.staked = st.staked
      /\ t.closed = st.closed /\ t.left = st.left /\ t.lost = l /\ t.stale = st.stale
      /\ t.subs = st.subs /\ t.signed = st.signed /\ t.halves = st.halves
      /\ t.halfAt = st.halfAt /\ t.x = y
  BY <1>c, <1>d, <1>g DEF Session
<1>i. Tokens(t)
  BY <1>h DEF Good, MInv, Tokens
<1>j. Finals(t)
  <2> SUFFICES ASSUME NEW j \in PM!Ids
               PROVE  /\ t.fin[j] \notin {"half", "submit", "balance", "done"}
                      /\ PM!Over(t, j) => t.flow[j] \in {"live", "gone"}
                      /\ PM!Over(t, j) /\ j \in t.staked => j \in t.lost
    BY DEF Finals
  <2>1. t.fin[j] = "none"
    BY <1>4, <1>h
  <2>2. PM!Over(t, j) => fl[j] = "gone"
    BY <1>1, <1>h DEF PM!Over, Good, MInv, Finals
  <2>3. PM!Over(t, j) /\ j \in t.staked => j \in l
    BY <1>5, <1>h DEF PM!Over
  <2> QED
    BY <1>h, <2>1, <2>2, <2>3
<1>k. Unstarted(t)
  BY <1>1, <1>h DEF Good, MInv, Unstarted
<1>l. AtHand(t)
  BY <1>9, <1>h DEF AtHand
<1>m. PM!StakeKept(t)
  BY <1>5, <1>h DEF PM!StakeKept
<1> QED
  BY <1>e, <1>f, <1>i, <1>j, <1>k, <1>l, <1>m DEF Good, MInv

\* A window that has just been opened.
LEMMA MatchInit ==
  ASSUME PM!Init
  PROVE  Good(st)
<1>1. /\ PM!Each(0) \in [PM!Ids -> Nat] /\ PM!Each("A") \in [PM!Ids -> {"A", "B"}]
      /\ PM!Each("none") \in [PM!Ids -> Flows] /\ PM!Each("none") \in [PM!Ids -> Fins]
      /\ \A k \in PM!Ids : PM!Each(0)[k] = 0 /\ PM!Each("none")[k] = "none" /\ PM!Each(PM!Open)[k] = PM!Open
  BY DEF PM!Each, Flows, Fins
<1>2. PM!Open \in Game /\ PM!Open.at = "draw" /\ PM!Open.n = 0
  BY DEF PM!Open, Game
<1>3. PM!Each(PM!Open) \in [PM!Ids -> Game]
  BY <1>2 DEF PM!Each
<1>4. PM!Idle \in Extra /\ PM!Idle.now = 0 /\ PM!Idle.leaving = FALSE
  BY DEF PM!Idle, Extra
<1>5. PICK z \in [PM!Ids -> Nat], r \in [PM!Ids -> {"A", "B"}], fl \in [PM!Ids -> Flows],
           fi \in [PM!Ids -> Fins], g \in [PM!Ids -> Game], y \in Extra :
        z = PM!Each(0) /\ r = PM!Each("A") /\ fl = PM!Each("none") /\ fi = PM!Each("none")
        /\ g = PM!Each(PM!Open) /\ y = PM!Idle
  BY <1>1, <1>3, <1>4
<1>6. PICK f :
        f = [status |-> "idle", mp |-> 0, open |-> {}, tun |-> 0, started |-> 0,
             sock |-> z, role |-> r, flow |-> fl, game |-> g,
             fin |-> fi, heard |-> {}, buf |-> 0, waiter |-> 0, once |-> FALSE,
             stopping |-> FALSE, auto |-> FALSE, pref |-> FALSE, attached |-> {}, timers |-> {},
             entered |-> FALSE, left |-> {}, lost |-> {}, rec |-> {}, staked |-> {}, closed |-> {},
             subs |-> z, stops |-> {}, halves |-> {}, signed |-> {}, halfAt |-> z,
             dog |-> 0, stale |-> FALSE, reloads |-> 0, x |-> <<>>]
  BY Zenon
<1>c. st = [f EXCEPT !.x = y]
  BY <1>5, <1>6, Zenon DEF PM!Init, PM!Fresh
<1>7. st \in Session
  BY <1>6, <1>c, Zenon DEF Session, Stati
<1>8. /\ st.tun = 0 /\ st.dog = 0 /\ st.started = 0 /\ st.flow = fl /\ st.fin = fi
      /\ st.game = g /\ st.rec = {} /\ st.staked = {} /\ st.subs = z /\ st.signed = {}
      /\ st.halves = {} /\ st.x = y
  BY <1>6, <1>c
<1>9. Tokens(st)
  BY <1>1, <1>5, <1>8 DEF Tokens
<1>a. Finals(st)
  BY <1>1, <1>2, <1>5, <1>8 DEF Finals, PM!Over
<1>b. Unstarted(st) /\ AtHand(st) /\ PM!StakeKept(st)
  BY <1>1, <1>4, <1>5, <1>8 DEF Unstarted, AtHand, PM!StakeKept
<1> QED
  BY <1>7, <1>9, <1>a, <1>b DEF Good, MInv

\* Every step of the window keeps the invariant.
LEMMA MatchNext ==
  ASSUME Good(st), Starts \in Nat, [PM!Next]_st
  PROVE  Good(st')
<1>1. ASSUME NEW k \in PM!Ids, PM!Env(k) PROVE Good(st')
  BY <1>1, FlowSteps, PlaySteps, TimerSteps, ConfirmedGood, SettleGood, SettledGood DEF PM!Env
<1>2. ASSUME NEW k \in PM!Ids, PM!botSigns(k) \/ PM!Failed(k) \/ PM!settleFails(k) PROVE Good(st')
  BY <1>2, BotSignsGood, FailedGood, SettleFailsGood
<1>3. CASE PM!TimerFires \/ PM!ResumeWatchdog \/ PM!setIntent
  BY <1>3, TimerSteps, WatchdogGood
<1>4. CASE PM!findMatch \/ PM!enterArenaMatch \/ PM!resume \/ PM!leave \/ PM!reload
  BY <1>4, StartSteps, ColdLoadGood, LeaveGood, ReloadGood
<1>5. CASE st' = st
  BY <1>5
<1> QED
  BY <1>1, <1>2, <1>3, <1>4, <1>5 DEF PM!Next

\* The window of a match, in every order of its steps.
MatchSpec == PM!Init /\ [][PM!Next]_st

\* However many matches the window starts and however long they are, whatever fails, reloads or
\* is left at whatever point (pvpMatchHook's findMatch, activateSession, triggerSettle, leave,
\* resume and their callbacks): a match's close is submitted at most once, its settlement is
\* handed the half that belongs to it unless an earlier one was given up, a match that is
\* settled and not over is not found by a cold load, and a stake that is paid in stays within
\* the window's reach but for the exceptions the code makes.
THEOREM MatchWindowSound ==
  ASSUME Starts \in Nat
  PROVE  MatchSpec => [](PM!CloseOnce(st) /\ PM!RightHalf(st) /\ PM!RecordTrue(st) /\ PM!StakeKept(st))
<1>1. Good(st) => PM!CloseOnce(st) /\ PM!RightHalf(st) /\ PM!RecordTrue(st) /\ PM!StakeKept(st)
  <2> SUFFICES ASSUME Good(st)
               PROVE  PM!CloseOnce(st) /\ PM!RightHalf(st) /\ PM!RecordTrue(st) /\ PM!StakeKept(st)
    OBVIOUS
  <2>1. PM!CloseOnce(st)
    BY DEF Good, MInv, Tokens, PM!CloseOnce
  <2>2. \A k \in PM!Ids : st.fin[k] \in Fins
    BY DEF Good, Session
  <2>3. PM!RightHalf(st)
    BY <2>2 DEF PM!RightHalf, Fins
  <2>4. \A k \in st.rec : k \in PM!Ids
    BY DEF Good, Session
  <2>5. PM!RecordTrue(st)
    BY <2>4 DEF Good, MInv, Finals, PM!RecordTrue
  <2> QED
    BY <2>1, <2>3, <2>5 DEF Good, MInv
<1>2. PM!Init => Good(st)
  BY MatchInit
<1>3. Good(st) /\ [PM!Next]_st => Good(st)'
  BY MatchNext
<1> QED
  BY <1>1, <1>2, <1>3, PTL DEF MatchSpec

=============================================================================
