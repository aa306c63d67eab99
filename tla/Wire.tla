-------------------------------- MODULE Wire --------------------------------
(***************************************************************************)
(* The bytes the parties sign: sui-tunnel-ts/src/core/wire.ts against the  *)
(* serializers of the Move contract, and the writer that reuses one buffer *)
(* for every update of a tunnel.  The widths are scaled down; the domains  *)
(* keep how the real ones overlap ("settlement" begins "settlement_v2").   *)
(***************************************************************************)
EXTENDS Integers, Sequences

CONSTANTS Base, U64Len, IdLen, HashLen,   \* width of a byte, and of the fields in bytes
          Domain,                         \* the prefix of each kind of message
          Ids, Hashes, Numbers            \* the values tried; some hashes have another length

VARIABLES st,    \* the message looked at, the writer's buffer, and the writes so far
          own    \* the writer's tunnel

vars == <<st, own>>

u64ToBeBytes(n) == [i \in 1..U64Len |-> (n \div Base^(U64Len - i)) % Base]

\* signature::u64_to_be_bytes shifts and masks.
u64_to_be_bytes(n) == [i \in 1..U64Len |-> (n % Base^(U64Len - i + 1)) \div Base^(U64Len - i)]

RECURSIVE Numeral(_)
Numeral(b) == IF b = <<>> THEN 0 ELSE Numeral(SubSeq(b, 1, Len(b) - 1)) * Base + b[Len(b)]
u64FromBeBytes(b, offset) == Numeral(SubSeq(b, offset + 1, offset + U64Len))

RECURSIVE concatBytes(_)
concatBytes(parts) == IF parts = <<>> THEN <<>> ELSE Head(parts) \o concatBytes(Tail(parts))

StateUpdate == [kind : {"state_update"}, id : Ids, hash : Hashes,
                nonce : Numbers, timestamp : Numbers, a : Numbers, b : Numbers]
Settlement == [kind : {"settlement"}, id : Ids, a : Numbers, b : Numbers,
               nonce : Numbers, timestamp : Numbers]
SettlementWithRoot == [kind : {"settlement_v2"}, id : Ids, a : Numbers, b : Numbers,
                       nonce : Numbers, timestamp : Numbers,
                       root : {h \in Hashes : Len(h) = HashLen}]
HtlcLock == [kind : {"htlc_lock"}, id : Ids, hash : Hashes, amount : Numbers,
             sender : Ids, receiver : Ids, expiry : Numbers]
SpendAuthorization == [kind : {"spend_authorization"}, id : Ids, total : Numbers]
RefereeAssignment == [kind : {"referee_assignment"}, id : Ids, referee : Ids]
Messages == UNION {StateUpdate, Settlement, SettlementWithRoot, HtlcLock,
                   SpendAuthorization, RefereeAssignment}

serializeStateUpdate(m) ==
    concatBytes(<<Domain["state_update"], m.id, m.hash, u64ToBeBytes(m.nonce),
                  u64ToBeBytes(m.timestamp), u64ToBeBytes(m.a), u64ToBeBytes(m.b)>>)
serializeSettlement(m) ==
    concatBytes(<<Domain["settlement"], m.id, u64ToBeBytes(m.a), u64ToBeBytes(m.b),
                  u64ToBeBytes(m.nonce), u64ToBeBytes(m.timestamp)>>)
serializeSettlementWithRoot(m) ==
    concatBytes(<<Domain["settlement_v2"], m.id, u64ToBeBytes(m.a), u64ToBeBytes(m.b),
                  u64ToBeBytes(m.nonce), u64ToBeBytes(m.timestamp), m.root>>)
serializeHtlcLock(m) ==
    concatBytes(<<Domain["htlc_lock"], m.id, m.hash, u64ToBeBytes(m.amount), m.sender,
                  m.receiver, u64ToBeBytes(m.expiry)>>)
serializeSpendAuthorization(m) ==
    concatBytes(<<Domain["spend_authorization"], m.id, u64ToBeBytes(m.total)>>)
serializeRefereeAssignment(m) == concatBytes(<<Domain["referee_assignment"], m.id, m.referee>>)

Serialize(m) ==
    CASE m.kind = "state_update" -> serializeStateUpdate(m)
      [] m.kind = "settlement" -> serializeSettlement(m)
      [] m.kind = "settlement_v2" -> serializeSettlementWithRoot(m)
      [] m.kind = "htlc_lock" -> serializeHtlcLock(m)
      [] m.kind = "spend_authorization" -> serializeSpendAuthorization(m)
      [] m.kind = "referee_assignment" -> serializeRefereeAssignment(m)

\* The Move serializers append the fields in turn.
move_serialize(m) ==
    LET u64(n) == u64_to_be_bytes(n)
        start  == Domain[m.kind] \o m.id
        split  == u64(m.a) \o u64(m.b) \o u64(m.nonce) \o u64(m.timestamp)
    IN  CASE m.kind = "state_update" ->
               start \o m.hash \o u64(m.nonce) \o u64(m.timestamp) \o u64(m.a) \o u64(m.b)
          [] m.kind = "settlement" -> start \o split
          [] m.kind = "settlement_v2" -> start \o split \o m.root
          [] m.kind = "htlc_lock" ->
               start \o m.hash \o u64(m.amount) \o m.sender \o m.receiver \o u64(m.expiry)
          [] m.kind = "spend_authorization" -> start \o u64(m.total)
          [] m.kind = "referee_assignment" -> start \o m.referee

\* The inverse for an update with the canonical hash; <<>> when it throws.
parseStateUpdate(bytes) ==
    LET d == Len(Domain["state_update"])
        o == d + IdLen + HashLen
    IN  IF Len(bytes) # o + 4 * U64Len \/ SubSeq(bytes, 1, d) # Domain["state_update"] THEN <<>>
        ELSE <<[kind |-> "state_update", id |-> SubSeq(bytes, d + 1, d + IdLen),
                hash |-> SubSeq(bytes, d + IdLen + 1, o),
                nonce |-> u64FromBeBytes(bytes, o), timestamp |-> u64FromBeBytes(bytes, o + U64Len),
                a |-> u64FromBeBytes(bytes, o + 2 * U64Len),
                b |-> u64FromBeBytes(bytes, o + 3 * U64Len)]>>

-----------------------------------------------------------------------------
\* StateUpdateWriter: the prefix is written once, the tail by every write.
Init ==
    /\ own \in Ids
    /\ \E m \in Messages :
          st = [msg |-> m, writes |-> 0,
                buf |-> concatBytes(<<Domain["state_update"], own,
                                      [i \in 1..HashLen + 4 * U64Len |-> 0]>>)]

write(m) ==
    /\ st.writes < 2 /\ Len(m.hash) = HashLen /\ m.id = own
    /\ LET prefix == Len(Domain["state_update"]) + IdLen
           tail   == concatBytes(<<m.hash, u64ToBeBytes(m.nonce), u64ToBeBytes(m.timestamp),
                                   u64ToBeBytes(m.a), u64ToBeBytes(m.b)>>)
       IN  st' = [msg |-> m, writes |-> st.writes + 1,
                  buf |-> [i \in DOMAIN st.buf |-> IF i <= prefix THEN st.buf[i] ELSE tail[i - prefix]]]
    /\ UNCHANGED own

Next == st.msg.kind = "state_update" /\ \E m \in StateUpdate : write(m)

-----------------------------------------------------------------------------
\* "byte-identical to the Move serializers": a signature made off chain is one
\* the contract checks over the same bytes, the reused buffer's included.
BytesAgree ==
    /\ Serialize(st.msg) = move_serialize(st.msg)
    /\ st.writes > 0 => st.buf = serializeStateUpdate(st.msg)

\* A signature says one thing: no two messages, of the same kind or of two
\* kinds, have the same bytes, and only an update parses, as itself.
Unambiguous ==
    st.writes = 0 =>
       /\ \A m \in Messages : m # st.msg => Serialize(m) # Serialize(st.msg)
       /\ parseStateUpdate(Serialize(st.msg)) =
             IF st.msg.kind = "state_update" /\ Len(st.msg.hash) = HashLen THEN <<st.msg>> ELSE <<>>
=============================================================================
