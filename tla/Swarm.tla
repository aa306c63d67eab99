------------------------------- MODULE Swarm -------------------------------
(***************************************************************************)
(* Self-play at scale (sui-tunnel-ts/src/sim, agents, core/tunnel.ts,      *)
(* proof/transcript.ts): a cluster splits its tunnels over worker threads, *)
(* each worker steps its tunnels round-robin with both keys in hand, and   *)
(* the cluster adds up what the workers report.  A hash is the symbolic    *)
(* term it is taken of; a signature is whether it fits its message.        *)
(***************************************************************************)
EXTENDS GameBase, Sequences, FiniteSetsExt, SequencesExt

CONSTANTS W,            \* worker threads
          tunnels,      \* tunnels of the cluster
          maxSteps,     \* cap on the cluster's updates
          batchSize,
          initial,      \* each seat's locked balance
          Kinds,        \* the protocol of every tunnel, in turn: "pay" or "api"
          MaxErrors     \* bound: steps that throw, per worker

VARIABLES st, own

Workers == 1..W

\* Split `total` into near-equal parts.
distribute(total, parts) == [i \in 1..parts |-> total \div parts + (IF i <= total % parts THEN 1 ELSE 0)]

\* Matchmaker.pair: the seats of tunnel i among n agents, numbered from 0.
pair(i, n) ==
    LET a    == i % n
        base == i + 1 + i \div n
        scan == {k \in 0..n - 1 : (base + k) % n # a}
    IN  <<a, (base + Min(scan)) % n>>

\* Simulator: the identities of tunnel i; an empty pool gives a fresh one.
pick(pool, size, i) == IF size = 0 THEN <<"ephemeral", pool, i>> ELSE <<pool, i % size>>
assign(kind, i, users, agents) ==
    CASE kind = "user-user"   -> <<pick("user", users, i), pick("user", users, i + 1)>>
      [] kind = "agent-agent" -> <<pick("agent", agents, i), pick("agent", agents, i + 1)>>
      [] kind = "self-play"   -> <<<<"self-a", i>>, <<"self-b", i>>>>
      [] OTHER                -> <<pick("user", users, i), pick("agent", agents, i)>>

-----------------------------------------------------------------------------
\* OffchainTunnel's constructor: nonce 0 is the commitment of the open.
opened(kind) == [kind |-> kind, bal |-> [A |-> initial, B |-> initial], nonce |-> 0,
                 latest |-> <<>>, log |-> <<>>]

\* The balances the automatic player of a seat may move to; empty: no move.
randomMove(t, by) ==
    IF t.kind = "api" /\ by = "B" THEN {}
    ELSE {shiftStake(t.bal, otherParty(by), n) : n \in 1..t.bal[by]}

\* OffchainTunnel.step, every signature made and checked in this process;
\* "none" signs nothing and leaves no latest update and no observer's call.
step(t, by, bal, mode) ==
    LET signed == [nonce |-> t.nonce + 1, bal |-> bal, by |-> by, sigs |-> TRUE]
    IN  IF mode = "none" THEN [t EXCEPT !.bal = bal, !.nonce = @ + 1]
        ELSE [t EXCEPT !.bal = bal, !.nonce = @ + 1, !.latest = <<signed>>,
                       !.log = Append(@, signed)]

\* OffchainTunnel.buildSettlement of a tunnel never checkpointed on chain.
buildSettlement(t) == [bal |-> t.bal, finalNonce |-> 1]

-----------------------------------------------------------------------------
\* Proof of existence.
transcriptLeaf(e) == <<"leaf", e>>

RECURSIVE Fold(_, _)
Fold(level, repeats) ==
    IF Len(level) = 1 THEN level[1]
    ELSE LET pad  == IF repeats THEN level[Len(level)] ELSE <<"zero">>
             even == IF Len(level) % 2 = 1 THEN Append(level, pad) ELSE level
         IN  Fold([i \in 1..Len(even) \div 2 |-> <<"node", even[2 * i - 1], even[2 * i]>>], repeats)

\* The Merkle root; an odd level is padded with a zero leaf.
transcriptRoot(leaves) == IF leaves = <<>> THEN <<"zero">> ELSE Fold(leaves, FALSE)

Root(log) == transcriptRoot([i \in DOMAIN log |-> transcriptLeaf(log[i])])

\* decodeSettleEntries: the stream of a transcript holds four fields an entry
\* (length, message, two signatures) and must end on a whole entry.
decodable(fields) == fields % 4 = 0

\* verifyEntries against the anchored root and the locked total.
verifyEntries(log, root, total) ==
    /\ Root(log) = root
    /\ \A i \in DOMAIN log : log[i].sigs
    /\ \A i \in 2..Len(log) : log[i].nonce > log[i - 1].nonce
    /\ \A i \in DOMAIN log : log[i].bal.A + log[i].bal.B = total

-----------------------------------------------------------------------------
\* The cluster and its workers.
Share(i) == distribute(tunnels, W)[i]
Cap(i)   == distribute(maxSteps, W)[i]

Init ==
    /\ \E mode \in {"full", "none"} :
          st = [mode |-> mode,
                tun |-> [i \in Workers |-> [k \in 1..Share(i) |-> opened(Kinds[((k - 1) % Len(Kinds)) + 1])]],
                gen |-> [i \in Workers |-> [idx |-> 0, seq |-> 0, left |-> 0, before |-> 0, updates |-> 0,
                                            errors |-> 0, stagnant |-> 0, phase |-> "top"]],
                port |-> [i \in Workers |-> <<>>],
                perShard |-> [i \in Workers |-> 0],
                exited |-> {}, seen |-> 0, out |-> "running", settled |-> <<>>]
    /\ own = 2 * initial

\* ActivityGenerator.run, the head of the loop: a cap ends it, otherwise a
\* batch begins.  The clock may end it at any time.
runHead(i) ==
    LET g     == st.gen[i]
        steps == Lesser(batchSize, Cap(i) - g.updates)
    IN  /\ g.phase = "top"
        /\ st' = [st EXCEPT !.gen[i] =
              IF g.updates >= Cap(i) THEN [@ EXCEPT !.phase = "ended"]
              ELSE [@ EXCEPT !.phase = "batch", !.left = steps, !.before = g.updates]]

timeUp(i) ==
    /\ st.gen[i].phase = "top"
    /\ st' = [st EXCEPT !.gen[i].phase = "ended"]

\* The generator's next step and, at the end of a pass, the next round.
Advance(g, n) == [g EXCEPT !.left = @ - 1, !.idx = (@ + 1) % n,
                           !.seq = IF g.idx + 1 = n THEN @ + 1 ELSE @]

\* Who is asked first: the parity of the round and of the tunnel.
Proposer(g) == IF (g.seq + g.idx) % 2 = 0 THEN "A" ELSE "B"

\* One iteration of runSteps: the other seat is asked when the chosen one has
\* no move, and a step that throws only counts an error.
runSteps(i) ==
    LET g     == st.gen[i]
        n     == Share(i)
        t     == st.tun[i][g.idx + 1]
        first == Proposer(g)
        by    == IF randomMove(t, first) # {} THEN first ELSE otherParty(first)
    IN  /\ g.phase = "batch" /\ g.left > 0 /\ n > 0
        /\ \/ /\ randomMove(t, by) = {}
              /\ st' = [st EXCEPT !.gen[i] = Advance(g, n)]
           \/ \E bal \in randomMove(t, by) :
                 st' = [st EXCEPT !.gen[i] = [Advance(g, n) EXCEPT !.updates = @ + 1],
                                  !.tun[i][g.idx + 1] = step(t, by, bal, st.mode)]
           \/ /\ randomMove(t, by) # {} /\ g.errors < MaxErrors
              /\ st' = [st EXCEPT !.gen[i] = [Advance(g, n) EXCEPT !.errors = @ + 1]]

\* The tail of run's loop: four batches in a row without an update end it.
runTail(i) ==
    LET g    == st.gen[i]
        idle == IF g.updates = g.before THEN g.stagnant + 1 ELSE 0
    IN  /\ g.phase = "batch" /\ (g.left = 0 \/ Share(i) = 0)
        /\ st' = [st EXCEPT !.gen[i] = [@ EXCEPT !.left = 0, !.stagnant = idle,
                                        !.phase = IF idle > 3 THEN "ended" ELSE "top"]]

Message(type, n) == [type |-> type, updates |-> n]

\* worker.ts: a snapshot on the timer (between batches), the last one when the
\* run is over, or the error that ended it; then the thread exits.
workerReports(i) ==
    /\ st.gen[i].phase = "top" /\ st.port[i] = <<>> /\ st.perShard[i] # st.gen[i].updates
    /\ st' = [st EXCEPT !.port[i] = Append(@, Message("progress", st.gen[i].updates))]
workerDone(i) ==
    /\ st.gen[i].phase = "ended"
    /\ st' = [st EXCEPT !.gen[i].phase = "gone",
                        !.port[i] = @ \o <<Message("done", st.gen[i].updates), Message("exit", 0)>>]
workerFails(i) ==
    /\ st.gen[i].phase = "top" /\ st.gen[i].updates = 0
    /\ st' = [st EXCEPT !.gen[i].phase = "failed",
                        !.port[i] = @ \o <<Message("error", 0), Message("exit", 0)>>]

\* runCluster's handlers of one thread: counters replace the shard's, an
\* error rejects the whole run, an exit resolves the shard.
onMessage(i) ==
    LET msg == st.port[i][1]
    IN  /\ st.out = "running" /\ st.port[i] # <<>>
        /\ st' = [st EXCEPT !.port[i] = Tail(@),
              !.perShard[i] = IF msg.type \in {"progress", "done"} THEN msg.updates ELSE @,
              !.exited = IF msg.type = "exit" THEN @ \cup {i} ELSE @,
              !.out = IF msg.type = "error" THEN "rejected" ELSE @]

Aggregate(s) == MapThenSumSet(LAMBDA i : s.perShard[i], Workers)

\* The benchmark's progress callback: what it last saw of the sum.
onProgress ==
    /\ st.out = "running" /\ st.seen # Aggregate(st)
    /\ st' = [st EXCEPT !.seen = Aggregate(st)]

\* Promise.all over the shards, then the report.
runCluster ==
    /\ st.out = "running" /\ st.exited = Workers
    /\ st' = [st EXCEPT !.out = "report"]

\* AgentSwarm.settleAll.
settleAll ==
    /\ st.out = "report" /\ st.settled = <<>>
    /\ st' = [st EXCEPT !.settled =
          <<[i \in Workers |-> [k \in 1..Share(i) |-> buildSettlement(st.tun[i][k])]]>>]

Next ==
    /\ UNCHANGED own
    /\ \/ \E i \in Workers : \/ runHead(i) \/ timeUp(i) \/ runSteps(i) \/ runTail(i)
                             \/ workerReports(i) \/ workerDone(i) \/ workerFails(i)
                             \/ onMessage(i)
       \/ onProgress
       \/ runCluster
       \/ settleAll

-----------------------------------------------------------------------------
AllTunnels == UNION {{<<i, k>> : k \in 1..Share(i)} : i \in Workers}
At(x) == st.tun[x[1]][x[2]]

\* Every tunnel keeps its total, and is settled for the balances of its
\* newest co-signed update.
Conserved ==
    \A x \in AllTunnels :
       /\ SumsTo(At(x).bal, own)
       /\ st.mode = "full" /\ At(x).nonce > 0 =>
             At(x).latest[1].bal = At(x).bal /\ At(x).latest[1].nonce = At(x).nonce
       /\ st.settled # <<>> => SumsTo(st.settled[1][x[1]][x[2]].bal, own)

\* An audit accepts the transcript of a tunnel against the root its parties
\* anchored, and no transcript with an entry cut, repeated, swapped or
\* altered; a different history never has the same root.
Altered(log) ==
    {RemoveAt(log, i) : i \in DOMAIN log}
    \cup {Append(log, log[i]) : i \in DOMAIN log}
    \cup {[log EXCEPT ![i] = log[i + 1], ![i + 1] = log[i]] : i \in 1..Len(log) - 1}
    \cup {[log EXCEPT ![i].bal = [A |-> @.B + 1, B |-> @.A - 1], ![i].sigs = FALSE] : i \in DOMAIN log}
TranscriptBinds ==
    \A x \in AllTunnels :
       LET log == At(x).log
       IN  /\ verifyEntries(log, Root(log), own)
           /\ \A other \in Altered(log) :
                 Root(other) # Root(log) /\ ~verifyEntries(other, Root(log), own)
           /\ \A fields \in 0..4 * Len(log) :
                 decodable(fields) /\ fields < 4 * Len(log) =>
                    ~verifyEntries(SubSeq(log, 1, fields \div 4), Root(log), own)

\* A report is the work that was done: when the cluster resolves, no shard has
\* failed, and what it adds up is the updates of every tunnel of every shard.
ReportIsTheWork ==
    st.out = "report" =>
       /\ \A i \in Workers : st.gen[i].phase = "gone"
       /\ Aggregate(st) = MapThenSumSet(LAMBDA x : At(x).nonce, AllTunnels)

\* "Advancing per ROUND ... makes each tunnel's proposer alternate on
\* successive visits": a seat proposes twice running only after an error, or
\* because the other had no move.
Alternates ==
    \A x \in AllTunnels :
       LET log == At(x).log
       IN  st.gen[x[1]].errors = 0 =>
              \A j \in 2..Len(log) : log[j].by = log[j - 1].by =>
                 randomMove([At(x) EXCEPT !.bal = log[j - 1].bal], otherParty(log[j].by)) = {}

\* The seats of a tunnel are two agents, and a split loses nothing.
PairedApart ==
    \A n \in 2..4 : \A i \in 0..3 * n :
       /\ pair(i, n)[1] # pair(i, n)[2]
       /\ \A kind \in {"user-user", "agent-agent", "self-play", "user-agent"} :
             assign(kind, i, n, n)[1] # assign(kind, i, n, n)[2]
       /\ FoldSeq(LAMBDA x, y : x + y, 0, distribute(i, n)) = i
Fresh == \A i \in Workers : st.gen[i].phase = "top" /\ st.gen[i].updates = 0

\* The sum the progress callback sees never falls, so no rate is negative.
ProgressOnly == st.seen <= Aggregate(st) /\ st.seen <= st'.seen

Terminal == st.out # "running"
=============================================================================
