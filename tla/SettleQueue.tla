---------------------------- MODULE SettleQueue ----------------------------
(***************************************************************************)
(* How a co-signed settlement reaches the chain (backend/tunnel-manager):  *)
(* /settle enqueues it on a Redis stream (settle_queue.rs), a pool of      *)
(* workers claims entries (settle_worker.rs) and closes many tunnels in    *)
(* one transaction, which is split when it aborts (settle_batch.rs), and   *)
(* the event indexer folds the chain's events into the registry (sui.rs).  *)
(*                                                                         *)
(* An entry's id is its place in the log.  A tunnel has two spellings: the *)
(* id in the URL is free-form, the one in the header is always full.       *)
(* Steps are what happens between two awaits.                              *)
(***************************************************************************)
EXTENDS Naturals, Sequences, SequencesExt

CONSTANTS
  Tunnels,
  Workers,
  Paths,        \* the spellings clients use: "full", "short"
  Bad,          \* tunnels whose settlement the contract refuses
  Missing,      \* tunnels that are no shared object (any more)
  BatchMax,     \* SETTLE_BATCH_MAX
  MaxDepth,     \* MAX_SETTLE_SPLIT_DEPTH
  MaxRequests,  \* bound: calls of /settle
  MaxTransient, \* bound: RPC failures classed as transient
  MaxCrashes,   \* bound: requests, workers or indexers that die, failing SETs and XACKs
  MaxElsewhere, \* bound: tunnels closed by other transactions
  MaxLost       \* bound: enqueues that fail when a worker tries again

ASSUME BoundAssumption ==
  /\ {MaxDepth, MaxRequests, MaxTransient, MaxCrashes, MaxElsewhere, MaxLost} \subseteq Nat
  /\ BatchMax \in Nat \ {0}
ASSUME TunnelAssumption ==
  Bad \subseteq Tunnels /\ Missing \subseteq Tunnels /\ Paths \subseteq {"full", "short"}

VARIABLES
  log,       \* every entry ever added to the stream
  last,      \* the group's last delivered id
  pel,       \* delivered and not acknowledged
  stream,    \* not deleted: what XLEN counts
  body,      \* entries whose body key is set
  storing,   \* entries added by a request that has not set the body yet
  worker,    \* per worker: where it is in drain_once
  chain,     \* tunnels closed on chain
  indexed,   \* per tunnel: how many of its events the indexer has applied
  registry,  \* the status the control store has of a tunnel
  dead,      \* tunnels published on settle:failed
  published, \* per tunnel: settled events pushed
  bare,      \* entries settled when there was no body to archive
  faults     \* how often what the bounds limit has happened

vars == <<log, last, pel, stream, body, storing, worker, chain, indexed,
          registry, dead, published, bare, faults>>

Entry == [tunnel : Tunnels, path : {"full", "short"}]
Ids == 1 .. Len(log)
TunnelOf(i) == log[i].tunnel

Idle == [pc |-> "idle", claim |-> <<>>, seen |-> {}, work |-> <<>>, stack |-> <<>>,
         result |-> <<>>, acks |-> {}, new |-> 0]

\* get_tunnel_status: looked up under the spelling of the URL, stored under the full id.
ShowsClosed(e) == e.path = "full" /\ registry[e.tunnel] = "closed"

Count(f, max) == faults[f] < max /\ faults' = [faults EXCEPT ![f] = @ + 1]

Init ==
  /\ log = <<>> /\ last = 0 /\ pel = {} /\ stream = {} /\ body = {} /\ storing = {}
  /\ worker = [w \in Workers |-> Idle]
  /\ chain = {}
  /\ indexed = [t \in Tunnels |-> 0]
  /\ registry = [t \in Tunnels |-> "none"]
  /\ dead = {} /\ published = [t \in Tunnels |-> 0] /\ bare = {}
  /\ faults = [request |-> 0, transient |-> 0, crash |-> 0, elsewhere |-> 0, lost |-> 0]

-----------------------------------------------------------------------------
\* The queue.

\* XADD
Add(e) == log' = Append(log, e) /\ stream' = stream \cup {Len(log) + 1}

\* ack: XACK, XDEL and DEL are three calls; `done` of them succeed.
Ack(ids, done) ==
  /\ pel' = IF done >= 1 THEN pel \ ids ELSE pel
  /\ stream' = IF done >= 2 THEN stream \ ids ELSE stream
  /\ body' = IF done >= 3 THEN body \ ids ELSE body

\* POST /settle: refused when the registry shows the tunnel closed; otherwise the
\* entry is added, and its body set by a second call.
Settle(e) ==
  /\ ~ShowsClosed(e)
  /\ Count("request", MaxRequests)
  /\ Add(e)
  /\ storing' = storing \cup {Len(log) + 1}
  /\ UNCHANGED <<last, pel, body, worker, chain, indexed, registry, dead, published, bare>>

\* The second call, and the answer 202.
Store(i) ==
  /\ i \in storing
  /\ body' = body \cup {i}
  /\ storing' = storing \ {i}
  /\ UNCHANGED <<log, last, pel, stream, worker, chain, indexed, registry, dead,
                 published, bare, faults>>

\* The second call fails or is never made: the client sees an error.
StoreFails(i) ==
  /\ i \in storing
  /\ Count("crash", MaxCrashes)
  /\ storing' = storing \ {i}
  /\ UNCHANGED <<log, last, pel, stream, body, worker, chain, indexed, registry, dead,
                 published, bare>>

-----------------------------------------------------------------------------
\* drain_once.

\* COUNT, or what there is.
ClaimSize == IF Len(log) - last < BatchMax THEN Len(log) - last ELSE BatchMax

\* XREADGROUP with ">": what nobody has been given yet, in order.
Claim(w) ==
  /\ worker[w].pc = "idle" /\ last < Len(log)
  /\ LET n == ClaimSize
     IN /\ worker' = [worker EXCEPT ![w] = [Idle EXCEPT !.pc = "check",
                                              !.claim = [k \in 1 .. n |-> last + k]]]
        /\ pel' = pel \cup (last + 1 .. last + n)
        /\ last' = last + n
  /\ UNCHANGED <<log, stream, body, storing, chain, indexed, registry, dead, published,
                 bare, faults>>

\* The next entry of the claim repeats one of the claim, or its tunnel is closed.
Skip(me) == log[Head(me.claim)] \in me.seen \/ ShowsClosed(log[Head(me.claim)])

\* One entry of the claim: acknowledged if it repeats one of the claim or the
\* registry shows its tunnel closed, else kept.  The header was parsed before it
\* was enqueued, so it parses.
Check(w) ==
  LET me == worker[w]
      i == Head(me.claim)
      work == IF Skip(me) THEN me.work ELSE Append(me.work, i)
  IN /\ me.pc = "check"
     /\ worker' = [worker EXCEPT ![w] =
          [me EXCEPT !.claim = Tail(@), !.seen = @ \cup {log[i]}, !.work = work,
                     !.pc = IF Tail(me.claim) # <<>> THEN "check"
                            ELSE IF work = <<>> THEN "idle" ELSE "resolve"]]
     /\ IF Skip(me) THEN Ack({i}, 3) ELSE UNCHANGED <<pel, stream, body>>
     /\ UNCHANGED <<log, last, storing, chain, indexed, registry, dead, published, bare,
                    faults>>

\* The same verdict for every entry of ids.
Verdict(me, ids, v) == [i \in ToSet(me.work) |-> IF i \in ToSet(ids) THEN v
                                                 ELSE IF i \in DOMAIN me.result THEN me.result[i]
                                                 ELSE "none"]

\* submit_close_batch before the first transaction: the shared objects of all the
\* tunnels, the epoch and the gas price are read; an error is everyone's.
Resolve(w) ==
  LET me == worker[w]
      all(v) == worker' = [worker EXCEPT ![w].pc = "record", ![w].result = Verdict(me, me.work, v)]
  IN /\ me.pc = "resolve"
     /\ \/ Count("transient", MaxTransient) /\ all("transient")
        \/ /\ \E k \in DOMAIN me.work : TunnelOf(me.work[k]) \in Missing
           /\ all("rejected") /\ UNCHANGED faults
        \/ /\ \A k \in DOMAIN me.work : TunnelOf(me.work[k]) \notin Missing
           /\ worker' = [worker EXCEPT ![w].pc = "split",
                           ![w].stack = <<[ids |-> me.work, depth |-> 0]>>]
           /\ UNCHANGED faults
     /\ UNCHANGED <<log, last, pel, stream, body, storing, chain, indexed, registry, dead,
                    published, bare>>

\* The contract closes each tunnel of a transaction once, or aborts all of it.
Closable(ids) ==
  /\ \A k \in DOMAIN ids : TunnelOf(ids[k]) \notin Bad \cup chain
  /\ \A k, l \in DOMAIN ids : k # l => TunnelOf(ids[k]) # TunnelOf(ids[l])

\* What split_submit does with a sub-batch that was rejected.
Halves(top) ==
  LET mid == Len(top.ids) \div 2
  IN <<[ids |-> SubSeq(top.ids, 1, mid), depth |-> top.depth + 1],
       [ids |-> SubSeq(top.ids, mid + 1, Len(top.ids)), depth |-> top.depth + 1]>>
\* Variant: gives up a level too early.
GiveUpEarly(top) == Len(top.ids) = 1 \/ top.depth + 1 >= MaxDepth
GiveUp(top) == Len(top.ids) = 1 \/ top.depth >= MaxDepth

\* One round of split_submit's loop: the sub-batch on top of the stack is dry-run
\* and executed.  A transient failure may hide that the transaction landed.
Submit(w) ==
  LET me == worker[w]
      top == Last(me.stack)
      rest == Front(me.stack)
      end(v) == worker' = [worker EXCEPT ![w].stack = rest,
                             ![w].pc = IF rest = <<>> THEN "record" ELSE "split",
                             ![w].result = Verdict(me, top.ids, v)]
      land == /\ Closable(top.ids)
              /\ chain' = chain \cup {TunnelOf(top.ids[k]) : k \in DOMAIN top.ids}
  IN /\ me.pc = "split"
     /\ \/ land /\ end("ok") /\ UNCHANGED faults
        \/ land /\ end("transient") /\ Count("transient", MaxTransient)
        \/ end("transient") /\ Count("transient", MaxTransient) /\ UNCHANGED chain
        \/ /\ ~Closable(top.ids) /\ GiveUp(top)
           /\ end("rejected") /\ UNCHANGED <<chain, faults>>
        \/ /\ ~Closable(top.ids) /\ ~GiveUp(top)
           /\ worker' = [worker EXCEPT ![w].stack = rest \o Halves(top)]
           /\ UNCHANGED <<chain, faults>>
     /\ UNCHANGED <<log, last, pel, stream, body, storing, indexed, registry, dead, published, bare>>

\* The first entry of the work is done.
Finish(me) ==
  [me EXCEPT !.work = Tail(@), !.acks = @ \cup {Head(me.work)}, !.new = 0,
             !.pc = IF Tail(me.work) = <<>> THEN "ack" ELSE "record"]

\* Variant: whatever came back that is not transient counts as closed.
RecordClosedAny(w) ==
  LET me == worker[w]
  IN /\ me.pc = "record" /\ me.result[Head(me.work)] # "transient"
     /\ registry' = [registry EXCEPT ![TunnelOf(Head(me.work))] = "closed"]
     /\ worker' = [worker EXCEPT ![w].pc = "publish"]
     /\ UNCHANGED <<log, last, pel, stream, body, storing, chain, indexed, dead, published,
                    bare, faults>>

\* The registry first, then the archive and the settled event.
RecordClosed(w) ==
  LET me == worker[w]
  IN /\ me.pc = "record" /\ me.result[Head(me.work)] = "ok"
     /\ registry' = [registry EXCEPT ![TunnelOf(Head(me.work))] = "closed"]
     /\ worker' = [worker EXCEPT ![w].pc = "publish"]
     /\ UNCHANGED <<log, last, pel, stream, body, storing, chain, indexed, dead, published,
                    bare, faults>>

\* archive_and_publish
Publish(w) ==
  LET me == worker[w]
      i == Head(me.work)
  IN /\ me.pc = "publish"
     /\ bare' = IF i \in body THEN bare ELSE bare \cup {i}
     /\ published' = [published EXCEPT ![TunnelOf(i)] = @ + 1]
     /\ worker' = [worker EXCEPT ![w] = Finish(me)]
     /\ UNCHANGED <<log, last, pel, stream, body, storing, chain, indexed, registry, dead,
                    faults>>

\* Variant: the abort of a tunnel that is already closed is taken for a success.
RecordRejectedAsDone(w) ==
  LET me == worker[w]
      t == TunnelOf(Head(me.work))
  IN /\ me.pc = "record" /\ me.result[Head(me.work)] = "rejected"
     /\ IF t \in chain
        THEN worker' = [worker EXCEPT ![w].pc = "publish"] /\ UNCHANGED dead
        ELSE worker' = [worker EXCEPT ![w] = Finish(me)] /\ dead' = dead \cup {t}
     /\ UNCHANGED <<log, last, pel, stream, body, storing, chain, indexed, registry,
                    published, bare, faults>>

\* dead_letter
RecordRejected(w) ==
  LET me == worker[w]
  IN /\ me.pc = "record" /\ me.result[Head(me.work)] = "rejected"
     /\ dead' = dead \cup {TunnelOf(Head(me.work))}
     /\ worker' = [worker EXCEPT ![w] = Finish(me)]
     /\ UNCHANGED <<log, last, pel, stream, body, storing, chain, indexed, registry,
                    published, bare, faults>>

\* Variant: left to the pending list.
RequeueNothing(w) ==
  /\ worker[w].pc = "record" /\ worker[w].result[Head(worker[w].work)] = "transient"
  /\ worker' = [worker EXCEPT ![w] = Finish(worker[w])]
  /\ UNCHANGED <<log, last, pel, stream, body, storing, chain, indexed, registry, dead,
                 published, bare, faults>>

\* Enqueued again, under the full id; an error of the enqueue is ignored.
Requeue(w) ==
  LET me == worker[w]
  IN /\ me.pc = "record" /\ me.result[Head(me.work)] = "transient"
     /\ \/ /\ Add([tunnel |-> TunnelOf(Head(me.work)), path |-> "full"])
           /\ worker' = [worker EXCEPT ![w].pc = "store", ![w].new = Len(log) + 1]
           /\ UNCHANGED faults
        \/ /\ Count("lost", MaxLost)
           /\ worker' = [worker EXCEPT ![w] = Finish(me)]
           /\ UNCHANGED <<log, stream>>
     /\ UNCHANGED <<last, pel, body, storing, chain, indexed, registry, dead, published, bare>>

\* The body of the new entry: that of the old one, or nothing if it has none.
StoreAgain(w) ==
  LET me == worker[w]
  IN /\ me.pc = "store"
     /\ body' = IF Head(me.work) \in body THEN body \cup {me.new} ELSE body
     /\ worker' = [worker EXCEPT ![w] = Finish(me)]
     /\ UNCHANGED <<log, last, pel, stream, storing, chain, indexed, registry, dead,
                    published, bare, faults>>

AckAll(w) ==
  /\ worker[w].pc = "ack"
  /\ Ack(worker[w].acks, 3)
  /\ worker' = [worker EXCEPT ![w] = Idle]
  /\ UNCHANGED <<log, last, storing, chain, indexed, registry, dead, published, bare, faults>>

\* What the worker is acknowledging.
Acking(me) == IF me.pc = "ack" THEN me.acks
              ELSE IF me.pc = "check" /\ Skip(me) THEN {Head(me.claim)} ELSE {}

\* A worker dies, or an acknowledgement fails and drain_once returns: what it had
\* claimed stays in the pending list, which nobody reads.
Abandon(w) ==
  /\ worker[w].pc # "idle"
  /\ Count("crash", MaxCrashes)
  /\ \E done \in 0 .. 2 : Ack(Acking(worker[w]), done)
  /\ worker' = [worker EXCEPT ![w] = Idle]
  /\ UNCHANGED <<log, last, storing, chain, indexed, registry, dead, published, bare>>

-----------------------------------------------------------------------------
\* The chain and its indexer.

\* Another transaction closes a tunnel.
CloseElsewhere(t) ==
  /\ t \notin chain \cup Missing
  /\ Count("elsewhere", MaxElsewhere)
  /\ chain' = chain \cup {t}
  /\ UNCHANGED <<log, last, pel, stream, body, storing, worker, indexed, registry, dead,
                 published, bare>>

\* The events of a tunnel: it was opened, it was closed.
Events(t) == IF t \in Missing THEN 0 ELSE IF t \in chain THEN 2 ELSE 1

\* Variant: only the events of an opening tunnel are known.
IndexOpenOnly(t) ==
  /\ indexed[t] < Events(t)
  /\ registry' = [registry EXCEPT ![t] = IF indexed[t] = 0 THEN "open" ELSE @]
  /\ indexed' = [indexed EXCEPT ![t] = @ + 1]
  /\ UNCHANGED <<log, last, pel, stream, body, storing, worker, chain, dead, published, bare,
                 faults>>

\* spawn_event_indexer: one event of a page.  The events of a tunnel come in
\* order; those of different tunnels do not affect each other.
Index(t) ==
  /\ indexed[t] < Events(t)
  /\ registry' = [registry EXCEPT ![t] = IF indexed[t] = 0 THEN "open" ELSE "closed"]
  /\ indexed' = [indexed EXCEPT ![t] = @ + 1]
  /\ UNCHANGED <<log, last, pel, stream, body, storing, worker, chain, dead, published, bare,
                 faults>>

\* A restarted instance reads the events from the beginning.
RestartIndexer ==
  /\ \E t \in Tunnels : indexed[t] > 0
  /\ Count("crash", MaxCrashes)
  /\ indexed' = [t \in Tunnels |-> 0]
  /\ UNCHANGED <<log, last, pel, stream, body, storing, worker, chain, registry, dead, published,
                 bare>>

-----------------------------------------------------------------------------
Work(w) ==
  \/ Claim(w) \/ Check(w) \/ Resolve(w) \/ Submit(w) \/ RecordClosed(w) \/ Publish(w)
  \/ RecordRejected(w) \/ Requeue(w) \/ StoreAgain(w) \/ AckAll(w)

Next ==
  \/ \E e \in Entry : e.path \in Paths /\ Settle(e)
  \/ \E i \in storing : Store(i) \/ StoreFails(i)
  \/ \E w \in Workers : Work(w) \/ Abandon(w)
  \/ \E t \in Tunnels : CloseElsewhere(t) \/ Index(t)
  \/ RestartIndexer

Spec == Init /\ [][Next]_vars

\* The workers loop forever, the requests run on and the indexer polls.
FairSpec ==
  /\ Spec
  /\ \A w \in Workers : WF_vars(Work(w))
  /\ WF_vars(\E i \in storing : Store(i))
  /\ WF_vars(\E t \in Tunnels : Index(t))

-----------------------------------------------------------------------------
\* Properties.

TypeOK ==
  /\ log \in Seq(Entry) /\ last \in 0 .. Len(log)
  /\ pel \subseteq Ids /\ stream \subseteq Ids /\ body \subseteq Ids /\ storing \subseteq Ids
  /\ \A w \in Workers : worker[w].pc \in {"idle", "check", "resolve", "split", "record",
                                          "publish", "store", "ack"}
  /\ chain \subseteq Tunnels /\ dead \subseteq Tunnels
  /\ indexed \in [Tunnels -> 0 .. 2]
  /\ registry \in [Tunnels -> {"none", "open", "closed"}]
  /\ published \in [Tunnels -> Nat] /\ bare \subseteq Ids
  /\ faults \in [request : Nat, transient : Nat, crash : Nat, elsewhere : Nat, lost : Nat]

\* A settlement that was accepted is not lost, whatever dies and however often the
\* node is busy: until its tunnel is closed or it is reported as failed, an entry
\* for it is in the stream or in the group's pending list.  (When a worker's enqueue
\* fails the worker acknowledges the old entry all the same.)
Accounted ==
  faults.lost = 0 =>
    \A i \in Ids : \/ TunnelOf(i) \in chain \cup dead
                   \/ \E j \in Ids : TunnelOf(j) = TunnelOf(i) /\ (j > last \/ j \in pel)

\* The registry, which turns requests and entries away, shows a tunnel closed only
\* if it is closed on chain.
RegistryTrue == \A t \in Tunnels : registry[t] = "closed" => t \in chain

\* One bad settlement does not fail its batch-mates: only a settlement the
\* contract refuses is reported as failed.
Isolated == \A t \in dead : t \in Bad \cup Missing \cup chain

\* A settled tunnel is published at most once, with two seats asking, two workers
\* claiming and lost answers.
PublishedOnce == \A t \in Tunnels : published[t] <= 1

\* Every settlement that is asked for is closed or reported as failed.
Resolved ==
  \A t \in Tunnels : (\E i \in Ids : TunnelOf(i) = t) ~> (t \in chain \cup dead)

\* The registry ends up showing what is closed, although the worker and the indexer
\* write it in no particular order.
RegistryCatchesUp == \A t \in Tunnels : (t \in chain) ~> [](registry[t] = "closed")

\* Workers are interchangeable.
WorkerSymmetry == Permutations(Workers)
=============================================================================
