---------------------------- MODULE SettleProofs ----------------------------
(***************************************************************************)
(* Proofs about SettleQueue: its types, that the registry tells the truth, *)
(* that no accepted settlement is lost unless an enqueue fails, that a     *)
(* tunnel is published at most once and that a bad settlement does not     *)
(* fail its batch-mates.                                                   *)
(*                                                                         *)
(* Accounted is not inductive: the pending entry that accounts for a       *)
(* settlement may be one that a worker is about to acknowledge.  Sound     *)
(* asks for an entry no worker has finished with, and WorkerOK says what   *)
(* a worker's claim, work and results have to do with the queue.           *)
(* PublishedOnce needs OncePerClose: no two entries in the workers' hands  *)
(* have the verdict "ok" for one tunnel.  Isolated needs Blamed: what is   *)
(* on a stack is small enough for the rounds of halving that are left.     *)
(***************************************************************************)
EXTENDS SettleQueue, SequenceTheorems, WellFoundedInduction, TLAPS

\* A worker's record has these fields.
Shape(me) ==
  me = [pc |-> me.pc, claim |-> me.claim, seen |-> me.seen, work |-> me.work,
        stack |-> me.stack, result |-> me.result, acks |-> me.acks, new |-> me.new]

\* The entries a worker holds, and those it has finished with.
Holds(me) == ToSet(me.claim) \cup ToSet(me.work) \cup me.acks
Done(me) == me.acks \cup (IF me.pc = "store" THEN {Head(me.work)} ELSE {})

\* A claim holds pending entries, each once; an entry was seen because it is kept or
\* its tunnel is closed.
Claiming(me, lg, pl, ch) ==
  /\ me.claim # <<>> /\ me.acks = {}
  /\ ToSet(me.claim) \cup ToSet(me.work) \subseteq pl
  /\ \A a, b \in DOMAIN me.claim : me.claim[a] = me.claim[b] => a = b
  /\ ToSet(me.claim) \cap ToSet(me.work) = {}
  /\ \A e \in me.seen : e.tunnel \in ch \/ \E k \in ToSet(me.work) : lg[k] = e

\* What a worker knows of its entries: "ok" is said of closed tunnels only.
Recording(me, lg, ch) ==
  /\ me.pc \in {"resolve", "split", "record", "publish", "store"} => me.work # <<>>
  /\ me.pc \in {"record", "publish", "store"} => ToSet(me.work) \subseteq DOMAIN me.result
  /\ me.pc = "publish" => me.result[Head(me.work)] = "ok"
  /\ \A i \in DOMAIN me.result : me.result[i] = "ok" => lg[i].tunnel \in ch

WorkerOK(me, lg, lst, pl, ch) ==
  /\ Shape(me)
  /\ me.pc \in {"idle", "check", "resolve", "split", "record", "publish", "store", "ack"}
  /\ me.claim \in Seq(Nat) /\ me.work \in Seq(Nat)
  /\ Holds(me) \subseteq 1 .. lst /\ DOMAIN me.result \subseteq 1 .. lst
  /\ me.pc = "check" => Claiming(me, lg, pl, ch)
  /\ Recording(me, lg, ch)

\* No entry is held by two workers.
Apart == \A v, w \in Workers : v # w => Holds(worker[v]) \cap Holds(worker[w]) = {}

\* The entry j is still to be dealt with.
Live(j) == (j > last \/ j \in pel) /\ \A w \in Workers : j \notin Done(worker[w])

\* Every settlement is closed, reported as failed or still to be dealt with.
Sound ==
  \A i \in Ids : \/ TunnelOf(i) \in chain \cup dead
                 \/ \E j \in Ids : TunnelOf(j) = TunnelOf(i) /\ Live(j)

WorkerInv ==
  /\ worker = [w \in Workers |-> worker[w]]
  /\ \A w \in Workers : WorkerOK(worker[w], log, last, pel, chain)

\* What split_submit still has to submit, and the entry a worker has just added.
Batch == [ids : Seq(Ids), depth : Nat]
Stacked ==
  \A w \in Workers :
    /\ worker[w].pc = "split" => worker[w].stack \in Seq(Batch) /\ worker[w].stack # <<>>
    /\ worker[w].pc = "store" => worker[w].new \in Ids

IInv ==
  /\ TypeOK /\ WorkerInv /\ Apart /\ Stacked /\ RegistryTrue
  /\ faults.lost = 0 => Sound

-----------------------------------------------------------------------------
\* Sequences.

\* The elements of a sequence after Tail: Head is one, the rest are the tail's.
LEMMA HeadTail ==
  ASSUME NEW S, NEW s \in Seq(S), s # <<>>
  PROVE  /\ Head(s) \in S /\ Tail(s) \in Seq(S)
         /\ Head(s) \in ToSet(s) /\ ToSet(Tail(s)) \subseteq ToSet(s)
         /\ \A x \in ToSet(s) : x = Head(s) \/ x \in ToSet(Tail(s))
<1>1. Len(s) \in Nat \ {0} /\ Head(s) = s[1] /\ DOMAIN s = 1 .. Len(s)
  BY EmptySeq, LenProperties
<1>2. /\ Tail(s) \in Seq(S) /\ Len(Tail(s)) = Len(s) - 1
      /\ \A k \in 1 .. Len(s) - 1 : Tail(s)[k] = s[k + 1]
  BY HeadTailProperties
<1>3. DOMAIN Tail(s) = 1 .. Len(s) - 1
  BY <1>2, LenProperties
<1>4. ToSet(Tail(s)) \subseteq ToSet(s)
  BY <1>1, <1>2, <1>3 DEF ToSet
<1>5. ASSUME NEW k \in DOMAIN s, k # 1 PROVE s[k] \in ToSet(Tail(s))
  <2>1. k - 1 \in 1 .. Len(s) - 1 /\ (k - 1) + 1 = k
    BY <1>1, <1>5
  <2>2. Tail(s)[k - 1] = s[k]
    BY <1>2, <2>1
  <2> QED BY <1>3, <2>1, <2>2 DEF ToSet
<1>6. s[1] \in S /\ s[1] \in ToSet(s)
  BY <1>1, ElementOfSeq DEF ToSet
<1> QED BY <1>1, <1>2, <1>4, <1>5, <1>6 DEF ToSet

\* The elements of a sequence after Append.
LEMMA AppendSet ==
  ASSUME NEW S, NEW s \in Seq(S), NEW x \in S
  PROVE  Append(s, x) \in Seq(S) /\ Append(s, x) # <<>> /\ ToSet(Append(s, x)) = ToSet(s) \cup {x}
<1> DEFINE t == Append(s, x)
<1>1. /\ t \in Seq(S) /\ t # <<>> /\ Len(t) = Len(s) + 1 /\ t[Len(s) + 1] = x
      /\ \A k \in 1 .. Len(s) : t[k] = s[k]
  BY AppendProperties
<1>2. Len(s) \in Nat /\ DOMAIN s = 1 .. Len(s) /\ DOMAIN t = 1 .. Len(s) + 1
  BY <1>1, LenProperties
<1> HIDE DEF t
<1>3. ASSUME NEW k \in DOMAIN t PROVE t[k] \in ToSet(s) \cup {x}
  BY <1>1, <1>2, <1>3 DEF ToSet
<1>4. ASSUME NEW k \in DOMAIN s PROVE s[k] \in ToSet(t)
  <2>1. k \in DOMAIN t /\ t[k] = s[k]
    BY <1>1, <1>2, <1>4
  <2> QED BY <2>1 DEF ToSet
<1>5. x \in ToSet(t)
  BY <1>1, <1>2 DEF ToSet
<1>6. ToSet(t) = ToSet(s) \cup {x}
  BY <1>3, <1>4, <1>5 DEF ToSet
<1> QED BY <1>1, <1>6 DEF t

\* The elements of the empty sequence.
LEMMA EmptySet == ToSet(<<>>) = {}
BY DEF ToSet

-----------------------------------------------------------------------------
\* One worker's step.

\* The queue and the chain only grow; what the worker holds stays pending.
Grows(lg, lg2, lst, lst2, ch, ch2) ==
  /\ lst \in Nat /\ lst2 \in Nat /\ lst <= lst2
  /\ \A i \in 1 .. lst : lg2[i] = lg[i]
  /\ ch \subseteq ch2

\* A worker that does nothing is not disturbed by the others.
LEMMA WorkerFrame ==
  ASSUME NEW me, NEW lg, NEW lg2, NEW lst, NEW lst2, NEW pl, NEW pl2, NEW ch, NEW ch2,
         WorkerOK(me, lg, lst, pl, ch), Grows(lg, lg2, lst, lst2, ch, ch2),
         \A i \in Holds(me) : i \in pl => i \in pl2
  PROVE  WorkerOK(me, lg2, lst2, pl2, ch2)
<1>1. 1 .. lst \subseteq 1 .. lst2
  BY DEF Grows
<1>2. Holds(me) \subseteq 1 .. lst2 /\ DOMAIN me.result \subseteq 1 .. lst2
  BY <1>1 DEF WorkerOK
<1>3. Recording(me, lg2, ch2)
  BY DEF WorkerOK, Recording, Grows
<1>4. ASSUME me.pc = "check" PROVE Claiming(me, lg2, pl2, ch2)
  <2>1. Claiming(me, lg, pl, ch) /\ Holds(me) \subseteq 1 .. lst
    BY <1>4 DEF WorkerOK
  <2>2. ToSet(me.claim) \cup ToSet(me.work) \subseteq pl2
    BY <2>1 DEF Claiming, Holds
  <2>3. ASSUME NEW e \in me.seen
        PROVE  e.tunnel \in ch2 \/ \E k \in ToSet(me.work) : lg2[k] = e
    BY <2>1 DEF Claiming, Holds, Grows
  <2> QED BY <2>1, <2>2, <2>3 DEF Claiming
<1> QED BY <1>2, <1>3, <1>4 DEF WorkerOK

\* When worker w becomes me and takes nothing but entries that were not delivered,
\* and the entries of the others stay pending, WorkerInv and Apart are preserved.
LEMMA OneMoves ==
  ASSUME WorkerInv, Apart, NEW w \in Workers, NEW me,
         worker' = [worker EXCEPT ![w] = me],
         WorkerOK(me, log', last', pel', chain'),
         Grows(log, log', last, last', chain, chain'),
         \A i \in Holds(me) : i \in Holds(worker[w]) \/ i > last,
         \A i \in pel : i \in Holds(worker[w]) \/ i \in pel'
  PROVE  WorkerInv' /\ Apart'
<1>1. worker'[w] = me /\ \A v \in Workers : v # w => worker'[v] = worker[v]
  BY DEF WorkerInv
<1>2. ASSUME NEW v \in Workers PROVE WorkerOK(worker'[v], log', last', pel', chain')
  <2>1. CASE v = w
    BY <1>1, <2>1
  <2>2. CASE v # w
    <3>1. WorkerOK(worker[v], log, last, pel, chain)
      BY DEF WorkerInv
    <3>2. \A i \in Holds(worker[v]) : i \in pel => i \in pel'
      BY <2>2 DEF Apart
    <3> QED BY <1>1, <2>2, <3>1, <3>2, WorkerFrame
  <2> QED BY <2>1, <2>2
<1>3. worker' = [v \in Workers |-> worker'[v]]
  BY DEF WorkerInv
<1>4. ASSUME NEW v \in Workers, v # w PROVE Holds(worker[v]) \cap Holds(me) = {}
  <2>1. Holds(worker[v]) \subseteq 1 .. last
    BY DEF WorkerInv, WorkerOK
  <2>2. Holds(worker[v]) \cap Holds(worker[w]) = {}
    BY <1>4 DEF Apart
  <2>3. last \in Nat
    BY DEF Grows
  <2> QED BY <2>1, <2>2, <2>3
<1>5. Apart'
  BY <1>1, <1>4 DEF Apart
<1> QED BY <1>2, <1>3, <1>5 DEF WorkerInv

\* When no worker moves, they are not disturbed.
LEMMA NoneMoves ==
  ASSUME WorkerInv, Apart, worker' = worker, pel' = pel,
         Grows(log, log', last, last', chain, chain')
  PROVE  WorkerInv' /\ Apart'
<1>1. ASSUME NEW v \in Workers PROVE WorkerOK(worker[v], log', last', pel', chain')
  BY WorkerFrame DEF WorkerInv
<1> QED BY <1>1 DEF WorkerInv, Apart

\* Sound is preserved when every entry that is no longer to be dealt with, and every
\* new one, is closed, reported, or has another entry in its place.
LEMMA SoundStep ==
  ASSUME Sound, Len(log) \in Nat, Len(log') \in Nat, Len(log) <= Len(log'),
         \A i \in Ids : log'[i] = log[i],
         chain \subseteq chain', dead \subseteq dead',
         \A i \in Ids : \/ Live(i) => Live(i)'
                        \/ TunnelOf(i)' \in chain' \cup dead'
                        \/ \E j \in Ids' : TunnelOf(j)' = TunnelOf(i)' /\ Live(j)',
         \A i \in Ids' : i \in Ids \/ Live(i)'
  PROVE  Sound'
<1>1. Ids \subseteq Ids' /\ \A i \in Ids : TunnelOf(i)' = TunnelOf(i)
  BY DEF Ids, TunnelOf
<1> SUFFICES ASSUME NEW i \in Ids'
             PROVE  \/ TunnelOf(i)' \in chain' \cup dead'
                    \/ \E j \in Ids' : TunnelOf(j)' = TunnelOf(i)' /\ Live(j)'
  BY DEF Sound
<1>2. CASE i \notin Ids
  BY <1>2
<1>3. CASE i \in Ids /\ TunnelOf(i) \in chain \cup dead
  BY <1>1, <1>3
<1>4. ASSUME NEW j \in Ids, i \in Ids, TunnelOf(j) = TunnelOf(i), Live(j)
      PROVE  \/ TunnelOf(i)' \in chain' \cup dead'
             \/ \E k \in Ids' : TunnelOf(k)' = TunnelOf(i)' /\ Live(k)'
  <2>1. TunnelOf(j)' = TunnelOf(i)'
    BY <1>1, <1>4
  <2>2. j \in Ids'
    BY <1>1
  <2> QED BY <1>4, <2>1, <2>2
<1> QED BY <1>2, <1>3, <1>4 DEF Sound

\* Sound is preserved by a worker when the entries it finishes with or acknowledges
\* are closed, reported, or have another entry in their place.
LEMMA SoundMoves ==
  ASSUME TypeOK, WorkerInv, Sound, NEW w \in Workers, NEW me,
         worker' = [worker EXCEPT ![w] = me], log' = log, last' = last,
         chain \subseteq chain', dead \subseteq dead',
         \A i \in Ids : i \notin Done(worker[w]) /\ (i \in Done(me) \/ i \in pel \ pel') =>
           \/ TunnelOf(i) \in chain' \cup dead'
           \/ \E j \in Ids : TunnelOf(j) = TunnelOf(i) /\ Live(j)'
  PROVE  Sound'
<1>1. worker'[w] = me /\ \A v \in Workers : v # w => worker'[v] = worker[v]
  BY DEF WorkerInv
<1>2. Len(log) \in Nat /\ Ids' = Ids /\ \A i \in Ids : TunnelOf(i)' = TunnelOf(i)
  BY LenProperties DEF TypeOK, Ids, TunnelOf
<1>3. ASSUME NEW i \in Ids, Live(i), i \notin Done(me), i \notin pel \ pel'
      PROVE  Live(i)'
  BY <1>1, <1>3 DEF Live
<1>4. ASSUME NEW i \in Ids, Live(i) PROVE i \notin Done(worker[w])
  BY <1>4 DEF Live
<1> QED BY <1>2, <1>3, <1>4, SoundStep

\* What a worker has finished with it holds, and what it holds was delivered.
LEMMA DoneHeld ==
  ASSUME TypeOK, WorkerInv, NEW w \in Workers
  PROVE  /\ Done(worker[w]) \subseteq Holds(worker[w])
         /\ Holds(worker[w]) \subseteq 1 .. last /\ Holds(worker[w]) \subseteq Ids
<1>1. WorkerOK(worker[w], log, last, pel, chain)
  BY DEF WorkerInv
<1>2. ASSUME worker[w].pc = "store" PROVE Head(worker[w].work) \in ToSet(worker[w].work)
  BY <1>1, <1>2, HeadTail DEF WorkerOK, Recording
<1>3. 1 .. last \subseteq Ids
  BY LenProperties DEF TypeOK, Ids
<1> QED BY <1>1, <1>2, <1>3 DEF Done, Holds, WorkerOK

\* The log does not change and the chain does not shrink.
LEMMA Still ==
  ASSUME TypeOK, log' = log, last' = last, chain \subseteq chain'
  PROVE  Grows(log, log', last, last', chain, chain')
BY LenProperties DEF Grows, TypeOK

-----------------------------------------------------------------------------
\* The actions.

\* Resolve gives everyone the same verdict or starts the splitting.
LEMMA ResolveStep ==
  ASSUME IInv, NEW w \in Workers, Resolve(w)
  PROVE  WorkerInv' /\ Apart' /\ (faults'.lost = 0 => Sound')
<1> DEFINE me == worker[w]
<1>1. WorkerOK(me, log, last, pel, chain) /\ me.pc = "resolve"
  BY DEF IInv, WorkerInv, Resolve
<1>2. /\ log' = log /\ last' = last /\ pel' = pel /\ chain' = chain /\ dead' = dead
      /\ faults'.lost = faults.lost
  BY DEF Resolve, Count, IInv, TypeOK
<1>3. PICK m : /\ worker' = [worker EXCEPT ![w] = m] /\ Shape(m)
               /\ m.claim = me.claim /\ m.work = me.work /\ m.acks = me.acks
               /\ \/ m.pc = "split" /\ m.result = me.result
                  \/ \E v \in {"transient", "rejected"} :
                       m.pc = "record" /\ m.result = Verdict(me, me.work, v)
  <2>1. CASE \E v \in {"transient", "rejected"} :
               worker' = [worker EXCEPT ![w].pc = "record",
                                        ![w].result = Verdict(me, me.work, v)]
    <3>1. PICK v \in {"transient", "rejected"} :
               worker' = [worker EXCEPT ![w].pc = "record",
                                        ![w].result = Verdict(me, me.work, v)]
      BY <2>1, Zenon
    <3>2. PICK m : m = [me EXCEPT !.pc = "record", !.result = Verdict(me, me.work, v)]
      OBVIOUS
    <3>3. worker' = [worker EXCEPT ![w] = m]
      BY <3>1, <3>2, Zenon DEF IInv, WorkerInv
    <3>4. /\ Shape(m) /\ m.claim = me.claim /\ m.work = me.work /\ m.acks = me.acks
          /\ m.pc = "record" /\ m.result = Verdict(me, me.work, v)
      BY <1>1, <3>2, Zenon DEF WorkerOK, Shape
    <3> QED BY <3>3, <3>4, Zenon
  <2>2. CASE worker' = [worker EXCEPT ![w].pc = "split",
                                      ![w].stack = <<[ids |-> me.work, depth |-> 0]>>]
    <3>1. PICK m : m = [me EXCEPT !.pc = "split", !.stack = <<[ids |-> me.work, depth |-> 0]>>]
      OBVIOUS
    <3>2. worker' = [worker EXCEPT ![w] = m]
      BY <2>2, <3>1, Zenon DEF IInv, WorkerInv
    <3>3. /\ Shape(m) /\ m.claim = me.claim /\ m.work = me.work /\ m.acks = me.acks
          /\ m.pc = "split" /\ m.result = me.result
      BY <1>1, <3>1, Zenon DEF WorkerOK, Shape
    <3> QED BY <3>2, <3>3, Zenon
  <2> QED BY <2>1, <2>2 DEF Resolve
<1> HIDE DEF me
<1>4. Holds(m) = Holds(me) /\ Done(m) = Done(me)
  BY <1>1, <1>3 DEF Holds, Done
<1>5. WorkerOK(m, log, last, pel, chain)
  <2>1. CASE m.pc = "split" /\ m.result = me.result
    BY <1>1, <1>3, <1>4, <2>1 DEF WorkerOK, Recording
  <2>2. CASE \E v \in {"transient", "rejected"} :
               m.pc = "record" /\ m.result = Verdict(me, me.work, v)
    <3>1. DOMAIN m.result = ToSet(me.work) /\ ToSet(me.work) \subseteq 1 .. last
      BY <1>1, <2>2 DEF Verdict, WorkerOK, Holds
    <3>2. \A i \in DOMAIN m.result : m.result[i] # "ok"
      BY <2>2 DEF Verdict
    <3> QED BY <1>1, <1>3, <1>4, <2>2, <3>1, <3>2, Zenon DEF WorkerOK, Recording
  <2> QED BY <1>3, <2>1, <2>2
<1>6. WorkerInv' /\ Apart'
  BY <1>2, <1>3, <1>4, <1>5, Still, OneMoves, Zenon DEF IInv, me
<1>7. ASSUME Sound PROVE Sound'
  BY <1>2, <1>3, <1>4, <1>7, SoundMoves, Zenon DEF IInv, me
<1> QED BY <1>2, <1>6, <1>7 DEF IInv

\* Submit says "ok" only of tunnels its transaction closed.
LEMMA SubmitStep ==
  ASSUME IInv, NEW w \in Workers, Submit(w)
  PROVE  WorkerInv' /\ Apart' /\ (faults'.lost = 0 => Sound')
<1> DEFINE me == worker[w]
           ids == Last(me.stack).ids
<1>1. WorkerOK(me, log, last, pel, chain) /\ me.pc = "split"
  BY Zenon DEF IInv, WorkerInv, Submit
<1>2. /\ log' = log /\ last' = last /\ pel' = pel /\ dead' = dead
      /\ chain \subseteq chain' /\ faults'.lost = faults.lost
  BY Zenon DEF Submit, Count, IInv, TypeOK
<1>3. PICK m : /\ worker' = [worker EXCEPT ![w] = m] /\ Shape(m)
               /\ m.claim = me.claim /\ m.work = me.work /\ m.acks = me.acks
               /\ \/ m.pc = "split" /\ m.result = me.result
                  \/ \E v \in {"ok", "transient", "rejected"} :
                       /\ m.pc \in {"record", "split"} /\ m.result = Verdict(me, ids, v)
                       /\ v = "ok" => \A k \in DOMAIN ids : TunnelOf(ids[k]) \in chain'
  <2>1. CASE \E v \in {"ok", "transient", "rejected"} :
               /\ worker' = [worker EXCEPT ![w].stack = Front(me.stack),
                              ![w].pc = IF Front(me.stack) = <<>> THEN "record" ELSE "split",
                              ![w].result = Verdict(me, ids, v)]
               /\ v = "ok" => \A k \in DOMAIN ids : TunnelOf(ids[k]) \in chain'
    <3>1. PICK v \in {"ok", "transient", "rejected"} :
               /\ worker' = [worker EXCEPT ![w].stack = Front(me.stack),
                              ![w].pc = IF Front(me.stack) = <<>> THEN "record" ELSE "split",
                              ![w].result = Verdict(me, ids, v)]
               /\ v = "ok" => \A k \in DOMAIN ids : TunnelOf(ids[k]) \in chain'
      BY <2>1, Zenon
    <3>2. PICK m : m = [me EXCEPT !.stack = Front(me.stack),
                          !.pc = IF Front(me.stack) = <<>> THEN "record" ELSE "split",
                          !.result = Verdict(me, ids, v)]
      OBVIOUS
    <3>3. worker' = [worker EXCEPT ![w] = m]
      BY <3>1, <3>2, Zenon DEF IInv, WorkerInv
    <3>4. /\ Shape(m) /\ m.claim = me.claim /\ m.work = me.work /\ m.acks = me.acks
          /\ m.pc \in {"record", "split"} /\ m.result = Verdict(me, ids, v)
      BY <1>1, <3>2, Zenon DEF WorkerOK, Shape
    <3> QED BY <3>1, <3>3, <3>4, Zenon
  <2>2. CASE worker' = [worker EXCEPT ![w].stack = Front(me.stack) \o Halves(Last(me.stack))]
    <3>1. PICK m : m = [me EXCEPT !.stack = Front(me.stack) \o Halves(Last(me.stack))]
      BY Zenon
    <3>2. worker' = [worker EXCEPT ![w] = m]
      BY <2>2, <3>1 DEF IInv, WorkerInv
    <3>3. /\ Shape(m) /\ m.claim = me.claim /\ m.work = me.work /\ m.acks = me.acks
          /\ m.pc = "split" /\ m.result = me.result
      BY <1>1, <3>1, Zenon DEF WorkerOK, Shape
    <3> QED BY <3>2, <3>3, Zenon
  <2> QED BY <2>1, <2>2, Zenon DEF Submit
<1> HIDE DEF me, ids
<1>4. Holds(m) = Holds(me) /\ Done(m) = Done(me)
  BY <1>1, <1>3 DEF Holds, Done
<1>5. WorkerOK(me, log, last, pel, chain')
  BY <1>1, <1>2, Still, WorkerFrame DEF IInv
<1>6. WorkerOK(m, log, last, pel, chain')
  <2>1. CASE m.pc = "split" /\ m.result = me.result
    BY <1>1, <1>3, <1>4, <1>5, <2>1, Zenon DEF WorkerOK, Recording
  <2>2. ASSUME NEW v \in {"ok", "transient", "rejected"},
               m.pc \in {"record", "split"}, m.result = Verdict(me, ids, v),
               v = "ok" => \A k \in DOMAIN ids : TunnelOf(ids[k]) \in chain'
        PROVE  WorkerOK(m, log, last, pel, chain')
    <3>1. DOMAIN m.result = ToSet(me.work) /\ ToSet(me.work) \subseteq 1 .. last
      BY <1>1, <2>2 DEF Verdict, WorkerOK, Holds
    <3>2. ASSUME NEW i \in DOMAIN m.result, m.result[i] = "ok" PROVE log[i].tunnel \in chain'
      <4>1. CASE i \in ToSet(ids)
        BY <2>2, <3>1, <3>2, <4>1 DEF Verdict, ToSet, TunnelOf
      <4>2. CASE i \notin ToSet(ids)
        BY <1>5, <2>2, <3>1, <3>2, <4>2 DEF Verdict, WorkerOK, Recording
      <4> QED BY <4>1, <4>2
    <3> QED BY <1>1, <1>3, <1>4, <2>2, <3>1, <3>2, Zenon DEF WorkerOK, Recording
  <2> QED BY <1>3, <2>1, <2>2
<1>7. WorkerInv' /\ Apart'
  BY <1>2, <1>3, <1>4, <1>6, Still, OneMoves, Zenon DEF IInv, me
<1>8. ASSUME Sound PROVE Sound'
  BY <1>2, <1>3, <1>4, <1>8, SoundMoves, Zenon DEF IInv, me
<1> QED BY <1>2, <1>7, <1>8 DEF IInv

\* A worker that is done with the first entry of its work.
LEMMA FinishOK ==
  ASSUME NEW me, NEW lg, NEW lst, NEW pl, NEW ch,
         WorkerOK(me, lg, lst, pl, ch), me.pc \in {"record", "publish", "store"}
  PROVE  /\ WorkerOK(Finish(me), lg, lst, pl, ch)
         /\ Holds(Finish(me)) \subseteq Holds(me)
         /\ Done(Finish(me)) = me.acks \cup {Head(me.work)}
         /\ Head(me.work) \in ToSet(me.work) /\ Head(me.work) \in Holds(me)
         /\ Head(me.work) \in DOMAIN me.result
<1>1. me.work \in Seq(Nat) /\ me.work # <<>> /\ ToSet(me.work) \subseteq DOMAIN me.result
  BY DEF WorkerOK, Recording
<1>2. PICK m : m = Finish(me)
  OBVIOUS
<1>3. /\ Shape(m) /\ m.claim = me.claim /\ m.work = Tail(me.work) /\ m.result = me.result
      /\ m.acks = me.acks \cup {Head(me.work)}
      /\ m.pc = IF Tail(me.work) = <<>> THEN "ack" ELSE "record"
  BY <1>2, Zenon DEF Finish, WorkerOK, Shape
<1>4. /\ Head(me.work) \in ToSet(me.work) /\ Tail(me.work) \in Seq(Nat)
      /\ ToSet(Tail(me.work)) \subseteq ToSet(me.work)
  BY <1>1, HeadTail
<1>5. Holds(m) \subseteq Holds(me) /\ Head(me.work) \in Holds(me)
  BY <1>3, <1>4 DEF Holds
<1>6. Done(m) = me.acks \cup {Head(me.work)}
  BY <1>3 DEF Done
<1>7. Recording(m, lg, ch)
  BY <1>1, <1>3, <1>4, Zenon DEF WorkerOK, Recording
<1>8. WorkerOK(m, lg, lst, pl, ch)
  BY <1>3, <1>4, <1>5, <1>7 DEF WorkerOK
<1> QED BY <1>1, <1>2, <1>4, <1>5, <1>6, <1>8

\* RecordClosed writes the registry of a tunnel that is closed on chain.
LEMMA RecordClosedStep ==
  ASSUME IInv, NEW w \in Workers, RecordClosed(w)
  PROVE  /\ WorkerInv' /\ Apart' /\ (faults'.lost = 0 => Sound')
         /\ TunnelOf(Head(worker[w].work)) \in chain
<1> DEFINE me == worker[w]
<1>1. /\ WorkerOK(me, log, last, pel, chain) /\ me.pc = "record"
      /\ me.result[Head(me.work)] = "ok"
  BY DEF IInv, WorkerInv, RecordClosed
<1>2. /\ log' = log /\ last' = last /\ pel' = pel /\ chain' = chain /\ dead' = dead
      /\ faults' = faults
  BY DEF RecordClosed
<1>3. PICK m : m = [me EXCEPT !.pc = "publish"]
  BY Zenon
<1>4. worker' = [worker EXCEPT ![w] = m]
  BY <1>3 DEF RecordClosed, IInv, WorkerInv
<1>5. /\ Shape(m) /\ m.claim = me.claim /\ m.work = me.work /\ m.acks = me.acks
      /\ m.pc = "publish" /\ m.result = me.result
  BY <1>1, <1>3, Zenon DEF WorkerOK, Shape
<1> HIDE DEF me
<1>6. Holds(m) = Holds(me) /\ Done(m) = Done(me)
  BY <1>1, <1>5 DEF Holds, Done
<1>7. WorkerOK(m, log, last, pel, chain)
  BY <1>1, <1>5, <1>6 DEF WorkerOK, Recording
<1>8. Head(me.work) \in DOMAIN me.result
  BY <1>1, FinishOK, Zenon
<1>9. TunnelOf(Head(me.work)) \in chain
  BY <1>1, <1>8 DEF WorkerOK, Recording, TunnelOf
<1>10. WorkerInv' /\ Apart'
  BY <1>2, <1>4, <1>6, <1>7, Still, OneMoves, Zenon DEF IInv, me
<1>11. ASSUME Sound PROVE Sound'
  BY <1>2, <1>4, <1>6, <1>11, SoundMoves, Zenon DEF IInv, me
<1> QED BY <1>2, <1>9, <1>10, <1>11 DEF IInv, me

\* A worker that finishes with an entry whose tunnel is closed or reported, or that
\* it had finished with before.
LEMMA FinishStep ==
  ASSUME IInv, NEW w \in Workers, worker[w].pc \in {"record", "publish", "store"},
         worker' = [worker EXCEPT ![w] = Finish(worker[w])],
         log' = log, last' = last, pel' = pel, chain' = chain, dead \subseteq dead',
         \/ worker[w].pc = "store"
         \/ TunnelOf(Head(worker[w].work)) \in chain' \cup dead'
         \/ faults'.lost # 0,
         faults'.lost = 0 => faults.lost = 0
  PROVE  WorkerInv' /\ Apart' /\ (faults'.lost = 0 => Sound')
<1>1. WorkerOK(worker[w], log, last, pel, chain)
  BY DEF IInv, WorkerInv
<1>2. PICK m : m = Finish(worker[w])
  OBVIOUS
<1>3. /\ WorkerOK(m, log, last, pel, chain) /\ Holds(m) \subseteq Holds(worker[w])
      /\ Done(m) = worker[w].acks \cup {Head(worker[w].work)}
  BY <1>1, <1>2, FinishOK, Zenon
<1>4. WorkerInv' /\ Apart'
  BY <1>2, <1>3, Still, OneMoves, Zenon DEF IInv
<1>5. ASSUME faults'.lost = 0 PROVE Sound'
  <2>1. Sound
    BY <1>5 DEF IInv
  <2>2. \A i \in Ids : i \notin Done(worker[w]) /\ i \in Done(m) =>
                         TunnelOf(i) \in chain' \cup dead'
    BY <1>3, <1>5 DEF Done
  <2> QED BY <1>2, <2>1, <2>2, SoundMoves, Zenon DEF IInv
<1> QED BY <1>4, <1>5

\* Publish finishes with a closed tunnel.
LEMMA PublishStep ==
  ASSUME IInv, NEW w \in Workers, Publish(w)
  PROVE  WorkerInv' /\ Apart' /\ (faults'.lost = 0 => Sound')
<1>1. WorkerOK(worker[w], log, last, pel, chain) /\ worker[w].pc = "publish"
  BY DEF IInv, WorkerInv, Publish
<1>2. Head(worker[w].work) \in DOMAIN worker[w].result
  BY <1>1, FinishOK, Zenon
<1>3. TunnelOf(Head(worker[w].work)) \in chain
  BY <1>1, <1>2 DEF WorkerOK, Recording, TunnelOf
<1> QED BY <1>1, <1>3, FinishStep, Zenon DEF Publish

\* RecordRejected finishes with a tunnel it reports.
LEMMA RecordRejectedStep ==
  ASSUME IInv, NEW w \in Workers, RecordRejected(w)
  PROVE  WorkerInv' /\ Apart' /\ (faults'.lost = 0 => Sound')
BY FinishStep, Zenon DEF RecordRejected

\* StoreAgain finishes with an entry that has another in its place.
LEMMA StoreAgainStep ==
  ASSUME IInv, NEW w \in Workers, StoreAgain(w)
  PROVE  WorkerInv' /\ Apart' /\ (faults'.lost = 0 => Sound')
BY FinishStep, Zenon DEF StoreAgain

\* An entry is added at the end of the log.
LEMMA AddStep ==
  ASSUME TypeOK, NEW e \in Entry, log' = Append(log, e)
  PROVE  /\ Len(log) \in Nat /\ Len(log') = Len(log) + 1 /\ log' \in Seq(Entry)
         /\ \A i \in Ids : log'[i] = log[i] /\ i \in Ids'
         /\ log'[Len(log) + 1] = e /\ Ids' = Ids \cup {Len(log) + 1}
         /\ last \in Nat /\ Len(log) + 1 > last
         /\ last' = last /\ chain' = chain => Grows(log, log', last, last', chain, chain')
<1>1. Len(log) \in Nat /\ last \in 0 .. Len(log) /\ log \in Seq(Entry)
  BY LenProperties DEF TypeOK
<1>2. /\ log' \in Seq(Entry) /\ Len(log') = Len(log) + 1 /\ log'[Len(log) + 1] = e
      /\ \A i \in 1 .. Len(log) : log'[i] = log[i]
  BY <1>1, AppendProperties
<1>3. Ids' = Ids \cup {Len(log) + 1}
  BY <1>1, <1>2 DEF Ids
<1> QED BY <1>1, <1>2, <1>3 DEF Ids, Grows

\* Requeue puts a new entry in the place of the old one, unless the enqueue fails.
LEMMA RequeueStep ==
  ASSUME IInv, NEW w \in Workers, Requeue(w)
  PROVE  WorkerInv' /\ Apart' /\ (faults'.lost = 0 => Sound')
<1> DEFINE me == worker[w]
<1>i. PICK i0 : i0 = Head(me.work)
  OBVIOUS
<1>n. PICK new : new = Len(log) + 1
  OBVIOUS
<1>e. PICK e : e = [tunnel |-> TunnelOf(i0), path |-> "full"]
  BY Zenon
<1>1. /\ WorkerOK(me, log, last, pel, chain) /\ me.pc = "record"
      /\ last' = last /\ pel' = pel /\ chain' = chain /\ dead' = dead
  BY DEF IInv, WorkerInv, Requeue
<1>2. CASE /\ Count("lost", MaxLost) /\ worker' = [worker EXCEPT ![w] = Finish(me)] /\ log' = log
  <2>1. faults'.lost = faults.lost + 1 /\ faults.lost \in Nat
    BY <1>2 DEF Count, IInv, TypeOK
  <2>2. faults'.lost # 0
    BY <2>1
  <2> QED BY <1>1, <1>2, <2>2, FinishStep, Zenon
<1>3. CASE /\ log' = Append(log, e) /\ faults' = faults
           /\ worker' = [worker EXCEPT ![w].pc = "store", ![w].new = new]
  <2>1. i0 \in Ids /\ i0 \in ToSet(me.work) /\ i0 \in Holds(me)
    <3>1. i0 \in ToSet(me.work) /\ i0 \in Holds(me)
      BY <1>1, <1>i, FinishOK, Zenon
    <3> QED BY <3>1, DoneHeld DEF IInv
  <2>2. e \in Entry
    <3>1. log[i0] \in Entry
      BY <2>1, ElementOfSeq DEF IInv, TypeOK, Ids
    <3> QED BY <1>e, <3>1 DEF Entry, TunnelOf
  <2>3. /\ Len(log) \in Nat /\ Len(log') = Len(log) + 1
        /\ \A i \in Ids : log'[i] = log[i] /\ i \in Ids'
        /\ log'[new] = e /\ Ids' = Ids \cup {new} /\ last \in Nat /\ new > last
        /\ Grows(log, log', last, last', chain, chain')
    BY <1>1, <1>3, <1>n, <2>2, AddStep, Zenon DEF IInv
  <2>4. PICK m : m = [me EXCEPT !.pc = "store", !.new = new]
    OBVIOUS
  <2>5. worker' = [worker EXCEPT ![w] = m]
    BY <1>3, <2>4, Zenon DEF IInv, WorkerInv
  <2>6. /\ Shape(m) /\ m.claim = me.claim /\ m.work = me.work /\ m.acks = me.acks
        /\ m.pc = "store" /\ m.result = me.result
    BY <1>1, <2>4, Zenon DEF WorkerOK, Shape
  <2> HIDE DEF me
  <2>7. Holds(m) = Holds(me) /\ Done(m) = Done(me) \cup {i0} /\ Done(m) \subseteq Holds(me)
    BY <1>1, <1>i, <2>1, <2>6 DEF Holds, Done
  <2>8. WorkerOK(m, log, last, pel, chain)
    BY <1>1, <2>6, <2>7 DEF WorkerOK, Recording
  <2>9. WorkerOK(m, log', last', pel', chain')
    BY <1>1, <2>3, <2>8, WorkerFrame, Zenon
  <2>10. WorkerInv' /\ Apart'
    BY <1>1, <2>3, <2>5, <2>7, <2>9, OneMoves, Zenon DEF IInv, me
  <2>11. worker'[w] = m /\ \A v \in Workers : v # w => worker'[v] = worker[v]
    BY <2>5 DEF IInv, WorkerInv
  <2>12. \A v \in Workers : new \notin Done(worker'[v])
    <3>1. \A v \in Workers : Done(worker[v]) \subseteq 1 .. last /\ Holds(worker[v]) \subseteq 1 .. last
      BY DoneHeld DEF IInv
    <3>2. Done(m) \subseteq 1 .. last
      BY <2>7, <3>1 DEF me
    <3>3. new \notin 1 .. last
      BY <2>3, SMTT(20)
    <3> QED BY <2>11, <3>1, <3>2, <3>3
  <2>13. Live(new)' /\ new \in Ids' /\ TunnelOf(new)' = TunnelOf(i0)
    BY <1>1, <1>e, <2>3, <2>12, SMTT(20) DEF Live, TunnelOf
  <2>14. ASSUME NEW i \in Ids, i # i0, Live(i) PROVE Live(i)'
    BY <1>1, <2>7, <2>11, <2>14, Zenon DEF Live, me
  <2>15. TunnelOf(i0)' = TunnelOf(i0)
    BY <2>1, <2>3, Zenon DEF TunnelOf
  <2>16. ASSUME Sound PROVE Sound'
    BY <1>1, <2>3, <2>13, <2>14, <2>15, <2>16, SoundStep, SMTT(20)
  <2> QED BY <1>3, <2>10, <2>16 DEF IInv
<1> QED BY <1>i, <1>n, <1>e, <1>2, <1>3 DEF Requeue, Add

\* An idle worker is a worker, with nothing in its hands.
LEMMA IdleOK ==
  ASSUME NEW lg, NEW lst, NEW pl, NEW ch
  PROVE  WorkerOK(Idle, lg, lst, pl, ch) /\ Holds(Idle) = {} /\ Done(Idle) = {}
<1>1. Holds(Idle) = {} /\ Done(Idle) = {}
  BY EmptySet DEF Idle, Holds, Done
<1>2. Shape(Idle)
  BY DEF Idle, Shape
<1>3. DOMAIN Idle.result = {}
  BY DEF Idle
<1>4. Idle.claim \in Seq(Nat) /\ Idle.work \in Seq(Nat) /\ Idle.pc = "idle"
  BY DEF Idle
<1> QED BY <1>1, <1>2, <1>3, <1>4 DEF WorkerOK, Recording

\* Claim takes entries nobody was given, and makes them pending.
LEMMA ClaimStep ==
  ASSUME IInv, NEW w \in Workers, Claim(w)
  PROVE  WorkerInv' /\ Apart' /\ (faults'.lost = 0 => Sound')
<1>1. PICK n : n = ClaimSize
  OBVIOUS
<1>2. Len(log) \in Nat /\ last \in Nat /\ last < Len(log) /\ n \in Nat /\ n >= 1 /\ last + n <= Len(log)
  BY <1>1, LenProperties, BoundAssumption DEF IInv, TypeOK, Claim, ClaimSize
<1>3. PICK c : c = [k \in 1 .. n |-> last + k]
  BY Zenon
<1>4. PICK m : m = [Idle EXCEPT !.pc = "check", !.claim = c]
  OBVIOUS
<1>5. /\ worker' = [worker EXCEPT ![w] = m] /\ pel' = pel \cup (last + 1 .. last + n)
      /\ last' = last + n /\ log' = log /\ chain' = chain /\ dead' = dead /\ faults' = faults
  BY <1>1, <1>3, <1>4 DEF Claim
<1>6. /\ Shape(m) /\ m.pc = "check" /\ m.claim = c /\ m.work = <<>> /\ m.acks = {}
      /\ m.seen = {} /\ m.result = <<>>
  BY <1>4, Zenon DEF Shape, Idle
<1>7. /\ c \in Seq(Nat) /\ c # <<>> /\ DOMAIN c = 1 .. n
      /\ \A a, b \in DOMAIN c : c[a] = c[b] => a = b
      /\ ToSet(c) \subseteq last + 1 .. last + n
  <2>1. c \in [1 .. n -> Nat] /\ DOMAIN c = 1 .. n /\ \A k \in 1 .. n : c[k] = last + k
    BY <1>2, <1>3
  <2>2. c \in Seq(Nat)
    BY <1>2, <2>1, SeqDef
  <2>3. c # <<>>
    BY <1>2, <2>1
  <2>4. \A a, b \in DOMAIN c : c[a] = c[b] => a = b
    BY <1>2, <2>1
  <2>5. ToSet(c) \subseteq last + 1 .. last + n
    BY <1>2, <2>1 DEF ToSet
  <2> QED BY <2>1, <2>2, <2>3, <2>4, <2>5
<1>8. Holds(m) = ToSet(c) /\ Done(m) = {}
  BY <1>6, EmptySet DEF Holds, Done
<1>9. WorkerOK(m, log', last', pel', chain')
  <2>1. Claiming(m, log', pel', chain')
    BY <1>5, <1>6, <1>7, EmptySet DEF Claiming
  <2>2. Holds(m) \subseteq 1 .. last'
    BY <1>2, <1>5, <1>7, <1>8
  <2>3. DOMAIN m.result = {}
    BY <1>6
  <2>4. m.work \in Seq(Nat)
    BY <1>6
  <2> QED BY <1>6, <1>7, <2>1, <2>2, <2>3, <2>4, Zenon DEF WorkerOK, Recording
<1>10. Grows(log, log', last, last', chain, chain')
  BY <1>2, <1>5 DEF Grows
<1>11. \A i \in Holds(m) : i > last
  BY <1>2, <1>7, <1>8, SMTT(20)
<1>12. WorkerInv' /\ Apart'
  BY <1>5, <1>9, <1>10, <1>11, OneMoves, Zenon DEF IInv
<1>13. ASSUME Sound PROVE Sound'
  <2>1. worker'[w] = m /\ \A v \in Workers : v # w => worker'[v] = worker[v]
    BY <1>5 DEF IInv, WorkerInv
  <2>2. ASSUME NEW i \in Ids, Live(i) PROVE Live(i)'
    <3>1. i > last' \/ i \in pel'
      BY <1>2, <1>5, <2>2 DEF Live, Ids
    <3> QED BY <1>8, <2>1, <2>2, <3>1 DEF Live
  <2> QED BY <1>2, <1>5, <1>13, <2>2, SoundStep DEF Ids
<1> QED BY <1>5, <1>12, <1>13 DEF IInv

\* When Skip acknowledges an entry, its tunnel is closed or the claim keeps another.
LEMMA Skipped ==
  ASSUME IInv, NEW w \in Workers, worker[w].pc = "check", Skip(worker[w]),
         NEW i, i = Head(worker[w].claim)
  PROVE  \/ TunnelOf(i) \in chain
         \/ \E k \in ToSet(worker[w].work) : TunnelOf(k) = TunnelOf(i)
<1> DEFINE me == worker[w]
<1>1. WorkerOK(me, log, last, pel, chain) /\ Claiming(me, log, pel, chain)
  BY DEF IInv, WorkerInv, WorkerOK
<1>2. CASE log[i] \in me.seen
  BY <1>1, <1>2 DEF Claiming, TunnelOf
<1>3. CASE ShowsClosed(log[i])
  <2>1. i \in Ids
    <3>1. i \in ToSet(me.claim)
      BY <1>1, HeadTail DEF WorkerOK, Claiming
    <3> QED BY <3>1, DoneHeld, Zenon DEF IInv, Holds
  <2>2. log[i].tunnel \in Tunnels
    <3>1. log[i] \in Entry
      BY <2>1, ElementOfSeq DEF IInv, TypeOK, Ids
    <3> QED BY <3>1 DEF Entry
  <2> QED BY <1>3, <2>2 DEF ShowsClosed, IInv, RegistryTrue, TunnelOf
<1> QED BY <1>2, <1>3 DEF Skip

\* Acknowledging, by Check or by a worker that then gives up: the entries that are
\* no longer pending have another in their place, or are finished with.
LEMMA AckSound ==
  ASSUME IInv, Sound, NEW w \in Workers, NEW m, worker' = [worker EXCEPT ![w] = m],
         log' = log, last' = last, chain' = chain, dead' = dead,
         \/ pel' = pel
         \/ pel' = pel \ Acking(worker[w]),
         Done(m) = {}
  PROVE  Sound'
<1> DEFINE me == worker[w]
<1>1. WorkerOK(me, log, last, pel, chain)
  BY DEF IInv, WorkerInv
<1>2. worker'[w] = m /\ \A v \in Workers : v # w => worker'[v] = worker[v]
  BY DEF IInv, WorkerInv
<1>3. ASSUME NEW i \in Ids, i \notin Done(me), i \in pel \ pel'
      PROVE  \/ TunnelOf(i) \in chain' \cup dead'
             \/ \E j \in Ids : TunnelOf(j) = TunnelOf(i) /\ Live(j)'
  <2>1. me.pc = "check" /\ Skip(me) /\ i = Head(me.claim) /\ pel' = pel \ {i}
    BY <1>3 DEF Acking, Done
  <2>2. Claiming(me, log, pel, chain)
    BY <1>1, <2>1, Zenon DEF WorkerOK
  <2>3. i \in ToSet(me.claim)
    BY <1>1, <2>1, <2>2, HeadTail DEF WorkerOK, Claiming
  <2>4. ASSUME NEW k \in ToSet(me.work) PROVE k \in Ids /\ Live(k)'
    <3>1. k \in Holds(me)
      BY DEF Holds
    <3>2. k \in Ids
      BY <3>1, DoneHeld DEF IInv
    <3>3. k \in pel'
      BY <2>1, <2>2, <2>3 DEF Claiming
    <3>4. ASSUME NEW v \in Workers, v # w PROVE k \notin Done(worker[v])
      BY <3>1, <3>4, DoneHeld DEF IInv, Apart
    <3> QED BY <1>2, <3>2, <3>3, <3>4, Zenon DEF Live
  <2>5. TunnelOf(i) \in chain \/ \E k \in ToSet(me.work) : TunnelOf(k) = TunnelOf(i)
    BY <2>1, Skipped
  <2> QED BY <2>4, <2>5
<1> QED BY <1>3, SoundMoves, Zenon DEF IInv

\* Check keeps an entry or acknowledges it.
LEMMA CheckStep ==
  ASSUME IInv, NEW w \in Workers, Check(w)
  PROVE  WorkerInv' /\ Apart' /\ (faults'.lost = 0 => Sound')
<1> DEFINE me == worker[w]
<1>1. /\ WorkerOK(me, log, last, pel, chain) /\ me.pc = "check"
      /\ Claiming(me, log, pel, chain)
  BY DEF IInv, WorkerInv, WorkerOK, Check
<1>i. PICK i : i = Head(me.claim)
  OBVIOUS
<1>k. PICK work : work = IF Skip(me) THEN me.work ELSE Append(me.work, i)
  BY Zenon
<1>m. PICK m : m = [me EXCEPT !.claim = Tail(@), !.seen = @ \cup {log[i]}, !.work = work,
                     !.pc = IF Tail(me.claim) # <<>> THEN "check"
                            ELSE IF work = <<>> THEN "idle" ELSE "resolve"]
  BY Zenon
<1>2. /\ worker' = [worker EXCEPT ![w] = m] /\ log' = log /\ last' = last /\ chain' = chain
      /\ dead' = dead /\ faults' = faults
      /\ pel' = IF Skip(me) THEN pel \ {i} ELSE pel
  BY <1>i, <1>k, <1>m DEF Check, Ack
<1>3. /\ Shape(m) /\ m.claim = Tail(me.claim) /\ m.seen = me.seen \cup {log[i]} /\ m.work = work
      /\ m.pc = IF Tail(me.claim) # <<>> THEN "check"
                ELSE IF work = <<>> THEN "idle" ELSE "resolve"
      /\ m.acks = {} /\ m.result = me.result
  BY <1>1, <1>m, Zenon DEF WorkerOK, Shape, Claiming
<1>p. Skip(me) <=> (log[i] \in me.seen \/ ShowsClosed(log[i]))
  BY <1>i DEF Skip
<1>t. ShowsClosed(log[i]) => log[i].tunnel \in chain
  <2>1. i \in Ids
    <3>1. i \in ToSet(me.claim)
      BY <1>1, <1>i, HeadTail, Zenon DEF WorkerOK, Claiming
    <3> QED BY <3>1, DoneHeld DEF IInv, Holds
  <2>2. log[i] \in Entry
    BY <2>1, ElementOfSeq, Zenon DEF IInv, TypeOK, Ids
  <2>3. log[i].tunnel \in Tunnels
    BY <2>2, Zenon DEF Entry
  <2> QED BY <2>3 DEF ShowsClosed, IInv, RegistryTrue
<1>h. /\ i \in Nat /\ i \in ToSet(me.claim) /\ Tail(me.claim) \in Seq(Nat)
      /\ ToSet(Tail(me.claim)) \subseteq ToSet(me.claim)
  BY <1>1, <1>i, HeadTail, Zenon DEF WorkerOK, Claiming
<1>d. /\ i \notin ToSet(Tail(me.claim))
      /\ \A a, b \in DOMAIN Tail(me.claim) : Tail(me.claim)[a] = Tail(me.claim)[b] => a = b
  <2>1. PICK c \in Seq(Nat) : c = me.claim
    BY <1>1 DEF WorkerOK
  <2>2. /\ Len(c) \in Nat \ {0} /\ DOMAIN c = 1 .. Len(c) /\ i = c[1]
        /\ \A a, b \in DOMAIN c : c[a] = c[b] => a = b
    BY <1>1, <1>i, <2>1, EmptySeq, LenProperties, SMTT(20) DEF Claiming
  <2>3. DOMAIN Tail(c) = 1 .. Len(c) - 1 /\ \A k \in 1 .. Len(c) - 1 : Tail(c)[k] = c[k + 1]
    BY <1>1, <2>1, HeadTailProperties, LenProperties DEF Claiming
  <2>4. \A k \in 1 .. Len(c) - 1 : k + 1 \in DOMAIN c /\ k + 1 # 1
    BY <2>2
  <2>5. \A k \in DOMAIN Tail(c) : Tail(c)[k] # i
    BY <2>2, <2>3, <2>4, SMTT(20)
  <2>6. \A a, b \in DOMAIN Tail(c) : Tail(c)[a] = Tail(c)[b] => a = b
    <3> TAKE a, b \in DOMAIN Tail(c)
    <3>1. Tail(c)[a] = c[a + 1] /\ Tail(c)[b] = c[b + 1] /\ a + 1 \in DOMAIN c /\ b + 1 \in DOMAIN c
      BY <2>3, <2>4
    <3>2. a \in Nat /\ b \in Nat
      BY <2>2, <2>3
    <3> QED BY <2>2, <3>1, <3>2
  <2> QED BY <2>1, <2>5, <2>6, Zenon DEF ToSet
<1>w. /\ work \in Seq(Nat)
      /\ ToSet(work) = IF Skip(me) THEN ToSet(me.work) ELSE ToSet(me.work) \cup {i}
  <2>1. me.work \in Seq(Nat)
    BY <1>1 DEF WorkerOK
  <2>2. Append(me.work, i) \in Seq(Nat) /\ ToSet(Append(me.work, i)) = ToSet(me.work) \cup {i}
    BY <1>h, <2>1, AppendSet
  <2>3. CASE Skip(me)
    BY <1>k, <2>1, <2>3
  <2>4. CASE ~Skip(me)
    BY <1>k, <2>2, <2>4
  <2> QED BY <2>3, <2>4
<1> HIDE DEF me
<1>4. Holds(m) \subseteq Holds(me) /\ Done(m) = {}
  BY <1>3, <1>h, <1>w, Zenon DEF Holds, Done
<1>5. ASSUME m.pc = "check" PROVE Claiming(m, log, pel', chain)
  <2>1. m.claim # <<>>
    BY <1>3, <1>5, Zenon
  <2>2. ToSet(m.claim) \cup ToSet(m.work) \subseteq pel'
    BY <1>1, <1>2, <1>3, <1>h, <1>d, <1>w, Zenon DEF Claiming
  <2>3. ToSet(m.claim) \cap ToSet(m.work) = {}
    BY <1>1, <1>3, <1>h, <1>d, <1>w, Zenon DEF Claiming
  <2>4. ASSUME NEW e \in m.seen
        PROVE  e.tunnel \in chain \/ \E k \in ToSet(m.work) : log[k] = e
    BY <1>1, <1>3, <1>p, <1>t, <1>w, Zenon DEF Claiming
  <2> QED BY <1>3, <1>d, <2>1, <2>2, <2>3, <2>4, Zenon DEF Claiming
<1>6. WorkerOK(m, log, last, pel', chain)
  BY <1>1, <1>3, <1>4, <1>5, <1>h, <1>w, Zenon DEF WorkerOK, Recording
<1>7. \A j \in pel : j \in Holds(me) \/ j \in pel'
  BY <1>2, <1>h DEF Holds
<1>8. WorkerInv' /\ Apart'
  BY <1>2, <1>4, <1>6, <1>7, Still, OneMoves, Zenon DEF IInv, me
<1>9. pel' = pel \/ pel' = pel \ Acking(me)
  BY <1>1, <1>2, <1>i DEF Acking
<1>10. ASSUME Sound PROVE Sound'
  BY <1>2, <1>4, <1>9, <1>10, AckSound, Zenon DEF me
<1> QED BY <1>2, <1>8, <1>10 DEF IInv

\* A worker that acknowledges, or gives up while it does, goes back to idle.
LEMMA BackToIdle ==
  ASSUME IInv, NEW w \in Workers, worker' = [worker EXCEPT ![w] = Idle],
         log' = log, last' = last, chain' = chain, dead' = dead, faults'.lost = faults.lost,
         pel' = pel \/ pel' = pel \ Acking(worker[w])
  PROVE  WorkerInv' /\ Apart' /\ (faults'.lost = 0 => Sound')
<1>1. WorkerOK(worker[w], log, last, pel, chain)
  BY DEF IInv, WorkerInv
<1>2. Acking(worker[w]) \subseteq Holds(worker[w])
  BY <1>1, HeadTail, SMTT(30) DEF Acking, Holds, WorkerOK, Claiming
<1>3. PICK m : m = Idle
  OBVIOUS
<1>4. WorkerOK(m, log', last', pel', chain') /\ Holds(m) = {} /\ Done(m) = {}
  BY <1>3, IdleOK
<1>5. WorkerInv' /\ Apart'
  BY <1>2, <1>3, <1>4, Still, OneMoves, Zenon DEF IInv
<1>6. ASSUME Sound PROVE Sound'
  BY <1>3, <1>4, <1>6, AckSound, Zenon
<1> QED BY <1>5, <1>6 DEF IInv

\* One worker's steps.
LEMMA WorkStep ==
  ASSUME IInv, NEW w \in Workers, Work(w) \/ Abandon(w)
  PROVE  WorkerInv' /\ Apart' /\ (faults'.lost = 0 => Sound')
<1>1. CASE AckAll(w)
  BY <1>1, BackToIdle, Zenon DEF AckAll, Ack, Acking
<1>2. CASE Abandon(w)
  <2>1. faults'.lost = faults.lost
    BY <1>2 DEF Abandon, Count, IInv, TypeOK
  <2>2. pel' = pel \/ pel' = pel \ Acking(worker[w])
    BY <1>2 DEF Abandon, Ack
  <2> QED BY <1>2, <2>1, <2>2, BackToIdle, Zenon DEF Abandon
<1> QED BY <1>1, <1>2, ClaimStep, CheckStep, ResolveStep, SubmitStep, RecordClosedStep,
           PublishStep, RecordRejectedStep, RequeueStep, StoreAgainStep DEF Work

\* The steps of requests, of the chain and of the indexer.
LEMMA OtherStep ==
  ASSUME IInv,
         \/ \E e \in Entry : Settle(e)
         \/ \E i \in storing : Store(i) \/ StoreFails(i)
         \/ \E t \in Tunnels : CloseElsewhere(t) \/ Index(t)
         \/ RestartIndexer
  PROVE  WorkerInv' /\ Apart' /\ (faults'.lost = 0 => Sound')
<1>1. ASSUME NEW e \in Entry, Settle(e)
      PROVE  WorkerInv' /\ Apart' /\ (faults'.lost = 0 => Sound')
  <2>1. /\ log' = Append(log, e) /\ last' = last /\ pel' = pel /\ worker' = worker
        /\ chain' = chain /\ dead' = dead /\ faults'.lost = faults.lost
    BY <1>1 DEF Settle, Add, Count, IInv, TypeOK
  <2>2. PICK new : new = Len(log) + 1
    OBVIOUS
  <2>3. /\ Len(log) \in Nat /\ Len(log') = Len(log) + 1 /\ last \in Nat /\ new > last
        /\ \A i \in Ids : log'[i] = log[i]
        /\ Ids' = Ids \cup {new} /\ Grows(log, log', last, last', chain, chain')
    BY <2>1, <2>2, AddStep, Zenon DEF IInv
  <2>4. WorkerInv' /\ Apart'
    BY <2>1, <2>3, NoneMoves DEF IInv
  <2>5. Live(new)'
    <3>1. \A v \in Workers : Done(worker[v]) \subseteq 1 .. last
      BY DoneHeld DEF IInv
    <3>2. new \notin 1 .. last
      BY <2>2, <2>3
    <3>3. \A v \in Workers : new \notin Done(worker'[v])
      BY <2>1, <3>1, <3>2
    <3> QED BY <2>1, <2>3, <3>3 DEF Live
  <2>6. \A i \in Ids : Live(i) => Live(i)'
    BY <2>1 DEF Live
  <2>7. ASSUME Sound PROVE Sound'
    <3>1. \A i \in Ids' : i \in Ids \/ Live(i)'
      BY <2>3, <2>5
    <3>2. Len(log') \in Nat /\ Len(log) <= Len(log')
      BY <2>3
    <3> QED BY <2>1, <2>3, <2>6, <2>7, <3>1, <3>2, SoundStep, Zenon
  <2> QED BY <2>1, <2>4, <2>7 DEF IInv
<1>2. ASSUME log' = log, last' = last, pel' = pel, worker' = worker, chain \subseteq chain',
             dead' = dead, faults'.lost = faults.lost
      PROVE  WorkerInv' /\ Apart' /\ (faults'.lost = 0 => Sound')
  <2>1. WorkerInv' /\ Apart'
    BY <1>2, Still, NoneMoves DEF IInv
  <2>2. ASSUME Sound PROVE Sound'
    BY <1>2, <2>2 DEF Sound, Live, Ids, TunnelOf
  <2> QED BY <1>2, <2>1, <2>2 DEF IInv
<1>3. ASSUME NEW i \in storing, Store(i) \/ StoreFails(i)
      PROVE  WorkerInv' /\ Apart' /\ (faults'.lost = 0 => Sound')
  BY <1>2, <1>3 DEF Store, StoreFails, Count, IInv, TypeOK
<1>4. ASSUME NEW t \in Tunnels, CloseElsewhere(t) \/ Index(t)
      PROVE  WorkerInv' /\ Apart' /\ (faults'.lost = 0 => Sound')
  BY <1>2, <1>4 DEF CloseElsewhere, Index, Count, IInv, TypeOK
<1>5. ASSUME RestartIndexer
      PROVE  WorkerInv' /\ Apart' /\ (faults'.lost = 0 => Sound')
  BY <1>2, <1>5 DEF RestartIndexer, Count, IInv, TypeOK
<1> QED BY <1>1, <1>3, <1>4, <1>5

-----------------------------------------------------------------------------
\* The registry and the types.

\* The registry shows a tunnel closed only if it is.
LEMMA RegistryStep ==
  ASSUME IInv, Next
  PROVE  RegistryTrue'
<1>1. chain \subseteq chain'
  BY ZenonT(60) DEF Next, Settle, Store, StoreFails, Work, Claim, Check, Resolve, Submit, RecordClosed,
         Publish, RecordRejected, Requeue, StoreAgain, AckAll, Abandon, CloseElsewhere, Index,
         RestartIndexer
<1>2. CASE registry' = registry
  BY <1>1, <1>2 DEF IInv, RegistryTrue
<1>3. ASSUME NEW w \in Workers, RecordClosed(w) PROVE RegistryTrue'
  <2>1. PICK u : u = TunnelOf(Head(worker[w].work))
    OBVIOUS
  <2>2. u \in chain
    BY <1>3, <2>1, RecordClosedStep
  <2>3. registry' = [registry EXCEPT ![u] = "closed"] /\ chain' = chain
    BY <1>3, <2>1 DEF RecordClosed
  <2> QED BY <2>2, <2>3 DEF IInv, TypeOK, RegistryTrue
<1>4. ASSUME NEW t \in Tunnels, Index(t) PROVE RegistryTrue'
  <2>1. indexed[t] # 0 => t \in chain
    BY <1>4, SMTT(20) DEF Index, Events, IInv, TypeOK
  <2> QED BY <1>4, <2>1 DEF Index, IInv, TypeOK, RegistryTrue
<1>5. registry' = registry \/ (\E w \in Workers : RecordClosed(w)) \/ (\E t \in Tunnels : Index(t))
  BY Zenon DEF Next, Settle, Store, StoreFails, Work, Claim, Check, Resolve, Submit,
         Publish, RecordRejected, Requeue, StoreAgain, AckAll, Abandon, CloseElsewhere,
         RestartIndexer
<1> QED BY <1>2, <1>3, <1>4, <1>5

\* A sequence over the set of its elements.
LEMMA SeqOver ==
  ASSUME NEW S, NEW T, NEW s \in Seq(S), ToSet(s) \subseteq T
  PROVE  s \in Seq(T)
<1>1. Len(s) \in Nat /\ DOMAIN s = 1 .. Len(s) /\ s = [k \in 1 .. Len(s) |-> s[k]]
  BY LenProperties
<1>2. \A k \in 1 .. Len(s) : s[k] \in T
  BY <1>1 DEF ToSet
<1> QED BY <1>1, <1>2, SeqDef

\* Two elements put at the end of a sequence.
LEMMA TwoMore ==
  ASSUME NEW S, NEW f \in Seq(S), NEW a \in S, NEW b \in S
  PROVE  f \o <<a, b>> \in Seq(S) /\ f \o <<a, b>> # <<>>
<1>1. PICK h : h = <<a, b>>
  BY Zenon
<1>2. h \in Seq(S) /\ Len(h) = 2
  BY <1>1
<1>3. f \o h \in Seq(S) /\ Len(f \o h) = Len(f) + Len(h)
  BY <1>2, ConcatProperties, Zenon
<1>4. Len(f) \in Nat
  BY LenProperties
<1>5. Len(f \o h) # 0
  BY <1>2, <1>3, <1>4
<1>6. f \o h # <<>>
  BY <1>3, <1>5, EmptySeq
<1> QED BY <1>1, <1>3, <1>6

\* Taking the sub-batch on top of the stack, and putting its halves there.
LEMMA StackTop ==
  ASSUME NEW stack \in Seq(Batch), stack # <<>>, Len(log) \in Nat
  PROVE  /\ Last(stack) \in Batch /\ Front(stack) \in Seq(Batch)
         /\ Front(stack) \o Halves(Last(stack)) \in Seq(Batch)
         /\ Front(stack) \o Halves(Last(stack)) # <<>>
<1>1. Len(stack) \in Nat \ {0}
  BY EmptySeq, LenProperties
<1>2. Last(stack) \in Batch
  BY <1>1, ElementOfSeq DEF Last
<1>3. Front(stack) \in Seq(Batch)
  BY <1>1, SubSeqProperties DEF Front
<1>4. PICK top \in Batch : top = Last(stack)
  BY <1>2
<1>5. top.ids \in Seq(Ids) /\ top.depth \in Nat
  BY DEF Batch
<1>6. PICK n \in Nat : n = Len(top.ids)
  BY <1>5, LenProperties
<1>7. PICK mid : mid = n \div 2
  OBVIOUS
<1>8. mid \in Nat /\ mid <= n
  BY <1>7
<1>9. PICK s1 : s1 = SubSeq(top.ids, 1, mid)
  BY Zenon
<1>10. PICK s2 : s2 = SubSeq(top.ids, mid + 1, n)
  BY Zenon
<1>11. s1 \in Seq(Ids) /\ s2 \in Seq(Ids)
  <2>1. \A i \in 1 .. n : top.ids[i] \in Ids
    BY <1>5, <1>6, ElementOfSeq
  <2>2. (\A i \in 1 .. mid : top.ids[i] \in Ids) /\ (\A i \in mid + 1 .. n : top.ids[i] \in Ids)
    BY <1>8, <2>1
  <2>3. s1 \in Seq(Ids)
    BY <1>8, <1>9, <2>2, SubSeqProperties
  <2>4. s2 \in Seq(Ids)
    BY <1>8, <1>10, <2>2, SubSeqProperties
  <2> QED BY <2>3, <2>4
<1>12. PICK d \in Nat : d = top.depth + 1
  BY <1>5
<1>13. [ids |-> s1, depth |-> d] \in Batch /\ [ids |-> s2, depth |-> d] \in Batch
  BY <1>11 DEF Batch
<1>14. Halves(top) = <<[ids |-> s1, depth |-> d], [ids |-> s2, depth |-> d]>>
  BY <1>6, <1>7, <1>9, <1>10, <1>12, Zenon DEF Halves
<1> QED BY <1>2, <1>3, <1>4, <1>13, <1>14, TwoMore, Zenon

\* The stacks and the new entries of the workers have their types.
LEMMA StackedStep ==
  ASSUME IInv, Next
  PROVE  Stacked'
<1>1. Ids \subseteq Ids' /\ Len(log) \in Nat /\ Batch \subseteq Batch'
  <2>1. Len(log) \in Nat /\ log \in Seq(Entry)
    BY LenProperties, Zenon DEF IInv, TypeOK
  <2>2. log' = log \/ \E e : log' = Append(log, e)
    BY Zenon DEF Next, Settle, Store, StoreFails, Work, Claim, Check, Resolve, Submit, RecordClosed,
           Publish, RecordRejected, Requeue, StoreAgain, AckAll, Abandon, CloseElsewhere, Index,
           RestartIndexer, Add
  <2>3. Len(log') \in Nat /\ Len(log) <= Len(log')
    BY <2>1, <2>2
  <2>4. Ids \subseteq Ids'
    BY <2>1, <2>3 DEF Ids
  <2>5. \A s \in Seq(Ids) : s \in Seq(Ids')
    BY <2>4, SeqMonotonic
  <2> QED BY <2>1, <2>4, <2>5, Zenon DEF Batch
<1>2. \A s \in Seq(Batch) : s \in Seq(Batch')
  BY <1>1, SeqMonotonic
<1>3. ASSUME NEW v \in Workers, worker'[v] = worker[v]
      PROVE  /\ worker'[v].pc = "split" => worker'[v].stack \in Seq(Batch') /\ worker'[v].stack # <<>>
             /\ worker'[v].pc = "store" => worker'[v].new \in Ids'
  BY <1>1, <1>2, <1>3 DEF IInv, Stacked
<1>4. CASE worker' = worker
  BY <1>3, <1>4 DEF Stacked
<1>5. ASSUME NEW w \in Workers, NEW m, worker' = [worker EXCEPT ![w] = m],
             m.pc = "split" => m.stack \in Seq(Batch) /\ m.stack # <<>>,
             m.pc = "store" => m.new \in Ids'
      PROVE  Stacked'
  <2>1. worker'[w] = m /\ \A v \in Workers : v # w => worker'[v] = worker[v]
    BY <1>5 DEF IInv, WorkerInv
  <2> QED BY <1>2, <1>3, <1>5, <2>1 DEF Stacked
<1>6. ASSUME NEW w \in Workers, Work(w) \/ Abandon(w) PROVE Stacked'
  <2> DEFINE me == worker[w]
  <2>1. Shape(me) /\ me.work \in Seq(Nat) /\ ToSet(me.work) \subseteq Ids
    <3>1. WorkerOK(me, log, last, pel, chain)
      BY DEF IInv, WorkerInv
    <3>2. Holds(me) \subseteq Ids
      BY DoneHeld DEF IInv
    <3> QED BY <3>1, <3>2 DEF WorkerOK, Holds
  <2>2. Idle.pc = "idle" /\ \A c : [Idle EXCEPT !.pc = "check", !.claim = c].pc = "check"
    BY DEF Idle
  <2>3. Finish(me).pc \in {"ack", "record"}
    BY <2>1, Zenon DEF Finish, Shape
  <2>4. CASE Claim(w)
    BY <1>5, <2>2, <2>4, Zenon DEF Claim
  <2>5. CASE AckAll(w) \/ Abandon(w)
    BY <1>5, <2>2, <2>5, Zenon DEF AckAll, Abandon
  <2>6. CASE Publish(w) \/ RecordRejected(w) \/ StoreAgain(w)
    BY <1>5, <2>3, <2>6 DEF Publish, RecordRejected, StoreAgain
  <2>7. CASE Check(w)
    <3>1. PICK work : work = IF Skip(me) THEN me.work ELSE Append(me.work, Head(me.claim))
      BY Zenon
    <3>2. PICK m : m = [me EXCEPT !.claim = Tail(@), !.seen = @ \cup {log[Head(me.claim)]},
                         !.work = work, !.pc = IF Tail(me.claim) # <<>> THEN "check"
                                               ELSE IF work = <<>> THEN "idle" ELSE "resolve"]
      BY Zenon
    <3>3. worker' = [worker EXCEPT ![w] = m]
      BY <2>7, <3>1, <3>2 DEF Check
    <3>4. m.pc \in {"check", "idle", "resolve"}
      BY <2>1, <3>2 DEF Shape
    <3> QED BY <1>5, <3>3, <3>4, Zenon
  <2>8. CASE RecordClosed(w)
    <3>1. PICK m : m = [me EXCEPT !.pc = "publish"]
      BY Zenon
    <3>2. worker' = [worker EXCEPT ![w] = m]
      BY <2>8, <3>1 DEF RecordClosed, IInv, WorkerInv
    <3>3. m.pc = "publish"
      BY <2>1, <3>1 DEF Shape
    <3> QED BY <1>5, <3>2, <3>3, Zenon
  <2>9. CASE Requeue(w)
    <3>1. CASE worker' = [worker EXCEPT ![w] = Finish(me)]
      BY <1>5, <2>3, <3>1, Zenon
    <3>2. CASE /\ \E e : log' = Append(log, e)
               /\ worker' = [worker EXCEPT ![w].pc = "store", ![w].new = Len(log) + 1]
      <4>1. PICK m : m = [me EXCEPT !.pc = "store", !.new = Len(log) + 1]
        OBVIOUS
      <4>2. worker' = [worker EXCEPT ![w] = m]
        BY <3>2, <4>1, Zenon DEF IInv, WorkerInv
      <4>3. m.pc = "store" /\ m.new = Len(log) + 1
        BY <2>1, <4>1 DEF Shape
      <4>4. Len(log') = Len(log) + 1
        BY <3>2 DEF IInv, TypeOK
      <4>5. m.new \in Ids'
        BY <1>1, <4>3, <4>4 DEF Ids
      <4> QED BY <1>5, <4>2, <4>3, <4>5, Zenon
    <3> QED BY <2>9, <3>1, <3>2 DEF Requeue, Add
  <2>10. CASE Resolve(w)
    <3>1. CASE \E x : worker' = [worker EXCEPT ![w].pc = "record", ![w].result = x]
      <4>1. PICK x : worker' = [worker EXCEPT ![w].pc = "record", ![w].result = x]
        BY <3>1, Zenon
      <4>2. PICK m : m = [me EXCEPT !.pc = "record", !.result = x]
        OBVIOUS
      <4>3. worker' = [worker EXCEPT ![w] = m]
        BY <4>1, <4>2, Zenon DEF IInv, WorkerInv
      <4>4. m.pc = "record"
        BY <2>1, <4>2 DEF Shape
      <4> QED BY <1>5, <4>3, <4>4, Zenon
    <3>2. CASE worker' = [worker EXCEPT ![w].pc = "split",
                                        ![w].stack = <<[ids |-> me.work, depth |-> 0]>>]
      <4>1. PICK s : s = <<[ids |-> me.work, depth |-> 0]>>
        BY Zenon
      <4>2. PICK m : m = [me EXCEPT !.pc = "split", !.stack = s]
        OBVIOUS
      <4>3. worker' = [worker EXCEPT ![w] = m]
        BY <3>2, <4>1, <4>2, Zenon DEF IInv, WorkerInv
      <4>4. m.pc = "split" /\ m.stack = s
        BY <2>1, <4>2 DEF Shape
      <4>5. me.work \in Seq(Ids)
        BY <2>1, SeqOver
      <4>6. [ids |-> me.work, depth |-> 0] \in Batch
        BY <4>5 DEF Batch
      <4>7. s \in Seq(Batch) /\ s # <<>>
        BY <4>1, <4>6
      <4> QED BY <1>5, <4>3, <4>4, <4>7, Zenon
    <3> QED BY <2>10, <3>1, <3>2, Zenon DEF Resolve
  <2>11. CASE Submit(w)
    <3>1. PICK st : st = me.stack
      OBVIOUS
    <3>2. st \in Seq(Batch) /\ st # <<>>
      BY <2>11, <3>1, Zenon DEF Submit, IInv, Stacked
    <3>3. PICK s, pc, x :
            /\ worker' = [worker EXCEPT ![w] = [me EXCEPT !.stack = s, !.pc = pc, !.result = x]]
            /\ \/ s = Front(st) /\ pc = IF Front(st) = <<>> THEN "record" ELSE "split"
               \/ s = Front(st) \o Halves(Last(st)) /\ pc = "split"
      <4>1. CASE \E x : worker' = [worker EXCEPT ![w].stack = Front(st),
                             ![w].pc = IF Front(st) = <<>> THEN "record" ELSE "split",
                             ![w].result = x]
        BY <4>1 DEF IInv, WorkerInv
      <4>2. CASE worker' = [worker EXCEPT ![w].stack = Front(st) \o Halves(Last(st))]
        <5>1. me.pc = "split"
          BY <2>11 DEF Submit
        <5>2. [me EXCEPT !.stack = Front(st) \o Halves(Last(st))]
                = [me EXCEPT !.stack = Front(st) \o Halves(Last(st)), !.pc = "split",
                             !.result = me.result]
          BY <2>1, <5>1, Zenon DEF Shape
        <5> QED BY <4>2, <5>2 DEF IInv, WorkerInv
      <4> QED BY <2>11, <3>1, <4>1, <4>2, ZenonT(60) DEF Submit
    <3>4. PICK m : m = [me EXCEPT !.stack = s, !.pc = pc, !.result = x]
      OBVIOUS
    <3>5. m.pc = pc /\ m.stack = s
      BY <2>1, <3>4 DEF Shape
    <3>6. pc \in {"record", "split"} /\ (pc = "split" => s \in Seq(Batch) /\ s # <<>>)
      BY <1>1, <3>2, <3>3, StackTop, Zenon
    <3> QED BY <1>5, <3>3, <3>4, <3>5, <3>6, Zenon
  <2> QED BY <1>6, <2>4, <2>5, <2>6, <2>7, <2>8, <2>9, <2>10, <2>11, Zenon DEF Work
<1> QED BY <1>4, <1>6 DEF Next, Settle, Store, StoreFails, CloseElsewhere, Index, RestartIndexer

\* The tunnels of entries are tunnels.
LEMMA EntryTyped ==
  ASSUME TypeOK, NEW i \in Ids
  PROVE  log[i] \in Entry /\ TunnelOf(i) \in Tunnels
<1>1. log[i] \in Entry
  BY ElementOfSeq DEF TypeOK, Ids
<1> QED BY <1>1 DEF Entry, TunnelOf

\* Every variable keeps its type.
LEMMA TypeStep ==
  ASSUME IInv, Next
  PROVE  TypeOK'
<1>0. Len(log) \in Nat /\ last \in 0 .. Len(log) /\ TypeOK
  BY LenProperties DEF IInv, TypeOK
<1>f. ASSUME NEW w \in Workers, worker[w].pc \in {"record", "publish", "store"}
      PROVE  Head(worker[w].work) \in Ids /\ TunnelOf(Head(worker[w].work)) \in Tunnels
  <2>1. WorkerOK(worker[w], log, last, pel, chain)
    BY DEF IInv, WorkerInv
  <2>2. Head(worker[w].work) \in Holds(worker[w])
    BY <1>f, <2>1, FinishOK, Zenon
  <2>3. Head(worker[w].work) \in Ids
    BY <2>2, DoneHeld DEF IInv
  <2> QED BY <1>0, <2>3, EntryTyped, Zenon
<1>1. log' = log \/ \E e \in Entry : log' = Append(log, e)
  <2>1. ASSUME NEW w \in Workers, Requeue(w)
        PROVE  log' = log \/ \E e \in Entry : log' = Append(log, e)
    <3>1. [tunnel |-> TunnelOf(Head(worker[w].work)), path |-> "full"] \in Entry
      BY <1>f, <2>1 DEF Requeue, Entry
    <3> QED BY <2>1, <3>1 DEF Requeue, Add
  <2> QED BY <2>1, Zenon DEF Next, Settle, Store, StoreFails, Work, Claim, Check, Resolve, Submit,
           RecordClosed, Publish, RecordRejected, StoreAgain, AckAll, Abandon, CloseElsewhere,
           Index, RestartIndexer, Add
<1>2. log' \in Seq(Entry) /\ Len(log') \in Nat /\ Len(log) <= Len(log')
  BY <1>0, <1>1, AddStep DEF TypeOK
<1>3. Ids \subseteq Ids'
  BY <1>0, <1>2 DEF Ids
<1>4. last' \in 0 .. Len(log')
  <2>1. ASSUME NEW w \in Workers, Claim(w) PROVE last' \in 0 .. Len(log')
    <3>1. last' = last + ClaimSize /\ log' = log
      BY <2>1 DEF Claim
    <3>2. ClaimSize \in Nat /\ last + ClaimSize <= Len(log)
      BY <1>0, BoundAssumption, SMTT(20) DEF ClaimSize
    <3> QED BY <1>0, <3>1, <3>2
  <2>2. last' = last \/ \E w \in Workers : Claim(w)
    BY Zenon DEF Next, Settle, Store, StoreFails, Work, Check, Resolve, Submit, RecordClosed,
           Publish, RecordRejected, Requeue, StoreAgain, AckAll, Abandon, CloseElsewhere, Index,
           RestartIndexer
  <2> QED BY <1>0, <1>2, <2>1, <2>2
<1>5. pel' \subseteq Ids'
  <2>1. ASSUME NEW w \in Workers, Claim(w) PROVE pel' \subseteq Ids'
    <3>1. pel' = pel \cup (last + 1 .. last + ClaimSize) /\ log' = log
      BY <2>1 DEF Claim
    <3>2. ClaimSize \in Nat /\ last + ClaimSize <= Len(log)
      BY <1>0, BoundAssumption DEF ClaimSize
    <3>3. last + 1 .. last + ClaimSize \subseteq Ids
      BY <1>0, <3>2 DEF Ids
    <3> QED BY <1>0, <1>3, <3>1, <3>3 DEF TypeOK
  <2>2. pel' \subseteq pel \/ \E w \in Workers : Claim(w)
    BY ZenonT(60) DEF Next, Settle, Store, StoreFails, Work, Check, Resolve, Submit, RecordClosed,
           Publish, RecordRejected, Requeue, StoreAgain, AckAll, Abandon, CloseElsewhere, Index,
           RestartIndexer, Ack
  <2> QED BY <1>0, <1>3, <2>1, <2>2 DEF TypeOK
<1>6. ASSUME \E e : log' = Append(log, e) PROVE Len(log) + 1 \in Ids'
  <2>1. Len(log') = Len(log) + 1
    BY <1>0, <1>6 DEF TypeOK
  <2> QED BY <1>0, <2>1 DEF Ids
<1>7. stream' \subseteq Ids' /\ storing' \subseteq Ids'
  <2>1. \/ stream' \subseteq stream
        \/ stream' = stream \cup {Len(log) + 1} /\ \E e : log' = Append(log, e)
    BY ZenonT(60) DEF Next, Settle, Store, StoreFails, Work, Claim, Check, Resolve, Submit, RecordClosed,
           Publish, RecordRejected, Requeue, StoreAgain, AckAll, Abandon, CloseElsewhere, Index,
           RestartIndexer, Ack, Add
  <2>2. \/ storing' \subseteq storing
        \/ storing' = storing \cup {Len(log) + 1} /\ \E e : log' = Append(log, e)
    BY Zenon DEF Next, Settle, Store, StoreFails, Work, Claim, Check, Resolve, Submit, RecordClosed,
           Publish, RecordRejected, Requeue, StoreAgain, AckAll, Abandon, CloseElsewhere, Index,
           RestartIndexer, Add
  <2> QED BY <1>0, <1>3, <1>6, <2>1, <2>2, Zenon DEF TypeOK
<1>8. body' \subseteq Ids' /\ bare' \subseteq Ids'
  <2>1. ASSUME NEW w \in Workers, StoreAgain(w) PROVE body' \subseteq Ids'
    BY <1>0, <1>3, <2>1 DEF StoreAgain, IInv, Stacked, TypeOK
  <2>2. ASSUME NEW w \in Workers, Publish(w) PROVE bare' \subseteq Ids'
    BY <1>0, <1>3, <1>f, <2>2 DEF Publish, TypeOK
  <2>3. \/ body' \subseteq body \/ \E i \in storing : body' = body \cup {i}
        \/ \E w \in Workers : StoreAgain(w)
    BY ZenonT(60) DEF Next, Settle, Store, StoreFails, Work, Claim, Check, Resolve, Submit, RecordClosed,
           Publish, RecordRejected, Requeue, AckAll, Abandon, CloseElsewhere, Index,
           RestartIndexer, Ack
  <2>4. bare' = bare \/ \E w \in Workers : Publish(w)
    BY Zenon DEF Next, Settle, Store, StoreFails, Work, Claim, Check, Resolve, Submit, RecordClosed,
           RecordRejected, Requeue, StoreAgain, AckAll, Abandon, CloseElsewhere, Index,
           RestartIndexer
  <2> QED BY <1>0, <1>3, <2>1, <2>2, <2>3, <2>4 DEF TypeOK
<1>9. \A w \in Workers : worker'[w].pc \in {"idle", "check", "resolve", "split", "record",
                                            "publish", "store", "ack"}
  <2>1. WorkerInv'
    BY WorkStep, OtherStep DEF Next
  <2> QED BY <2>1 DEF WorkerInv, WorkerOK
<1>10. chain' \subseteq Tunnels
  <2>1. ASSUME NEW w \in Workers, Submit(w) PROVE chain' \subseteq Tunnels
    <3>1. PICK st : st = worker[w].stack
      BY SMTT(20)
    <3>2. st \in Seq(Batch) /\ st # <<>>
      BY <2>1, <3>1, Zenon DEF Submit, IInv, Stacked
    <3>3. PICK top \in Batch : top = Last(st)
      BY <1>0, <3>2, StackTop
    <3>4. top.ids \in Seq(Ids)
      BY DEF Batch
    <3>5. \A k \in DOMAIN top.ids : top.ids[k] \in Ids
      BY <3>4, ElementOfSeq, LenProperties
    <3>6. \A k \in DOMAIN top.ids : TunnelOf(top.ids[k]) \in Tunnels
      BY <1>0, <3>5, EntryTyped, Zenon
    <3>7. chain' = chain \/ chain' = chain \cup {TunnelOf(top.ids[k]) : k \in DOMAIN top.ids}
      BY <2>1, <3>1, <3>3, Zenon DEF Submit
    <3>8. {TunnelOf(top.ids[k]) : k \in DOMAIN top.ids} \subseteq Tunnels
      BY <3>6, Zenon
    <3> QED BY <1>0, <3>7, <3>8 DEF TypeOK
  <2>2. \/ chain' = chain \/ (\E t \in Tunnels : chain' = chain \cup {t})
        \/ \E w \in Workers : Submit(w)
    BY Zenon DEF Next, Settle, Store, StoreFails, Work, Claim, Check, Resolve, RecordClosed,
           Publish, RecordRejected, Requeue, StoreAgain, AckAll, Abandon, CloseElsewhere, Index,
           RestartIndexer
  <2> QED BY <1>0, <2>1, <2>2 DEF TypeOK
<1>11. dead' \subseteq Tunnels
  <2>1. ASSUME NEW w \in Workers, RecordRejected(w) PROVE dead' \subseteq Tunnels
    BY <1>0, <1>f, <2>1, Zenon DEF RecordRejected, TypeOK
  <2>2. dead' = dead \/ \E w \in Workers : RecordRejected(w)
    BY Zenon DEF Next, Settle, Store, StoreFails, Work, Claim, Check, Resolve, Submit, RecordClosed,
           Publish, Requeue, StoreAgain, AckAll, Abandon, CloseElsewhere, Index, RestartIndexer
  <2> QED BY <1>0, <2>1, <2>2 DEF TypeOK
<1>12. indexed' \in [Tunnels -> 0 .. 2]
  <2>1. ASSUME NEW t \in Tunnels, Index(t) PROVE indexed' \in [Tunnels -> 0 .. 2]
    BY <1>0, <2>1, SMTT(20) DEF Index, Events, TypeOK
  <2>2. \/ indexed' = indexed \/ indexed' = [t \in Tunnels |-> 0]
        \/ \E t \in Tunnels : Index(t)
    BY Zenon DEF Next, Settle, Store, StoreFails, Work, Claim, Check, Resolve, Submit, RecordClosed,
           Publish, RecordRejected, Requeue, StoreAgain, AckAll, Abandon, CloseElsewhere,
           RestartIndexer
  <2> QED BY <1>0, <2>1, <2>2 DEF TypeOK
<1>13. registry' \in [Tunnels -> {"none", "open", "closed"}]
  <2>1. ASSUME NEW t \in Tunnels, Index(t)
        PROVE  registry' \in [Tunnels -> {"none", "open", "closed"}]
    BY <1>0, <2>1 DEF Index, TypeOK
  <2>2. ASSUME NEW w \in Workers, RecordClosed(w)
        PROVE  registry' \in [Tunnels -> {"none", "open", "closed"}]
    BY <1>0, <2>2, Zenon DEF RecordClosed, TypeOK
  <2>3. \/ registry' = registry \/ (\E w \in Workers : RecordClosed(w))
        \/ \E t \in Tunnels : Index(t)
    BY Zenon DEF Next, Settle, Store, StoreFails, Work, Claim, Check, Resolve, Submit,
           Publish, RecordRejected, Requeue, StoreAgain, AckAll, Abandon, CloseElsewhere,
           RestartIndexer
  <2> QED BY <1>0, <2>1, <2>2, <2>3 DEF TypeOK
<1>14. published' \in [Tunnels -> Nat]
  <2>1. ASSUME NEW w \in Workers, Publish(w) PROVE published' \in [Tunnels -> Nat]
    <3>1. PICK u \in Tunnels : u = TunnelOf(Head(worker[w].work))
      BY <1>f, <2>1 DEF Publish
    <3>2. published' = [published EXCEPT ![u] = @ + 1]
      BY <2>1, <3>1, Zenon DEF Publish
    <3> QED BY <1>0, <3>2 DEF TypeOK
  <2>2. published' = published \/ \E w \in Workers : Publish(w)
    BY Zenon DEF Next, Settle, Store, StoreFails, Work, Claim, Check, Resolve, Submit, RecordClosed,
           RecordRejected, Requeue, StoreAgain, AckAll, Abandon, CloseElsewhere, Index,
           RestartIndexer
  <2> QED BY <1>0, <2>1, <2>2 DEF TypeOK
<1>15. faults' \in [request : Nat, transient : Nat, crash : Nat, elsewhere : Nat, lost : Nat]
  <2>1. \/ faults' = faults
        \/ \E f \in {"request", "transient", "crash", "elsewhere", "lost"} :
             faults' = [faults EXCEPT ![f] = @ + 1]
    BY ZenonT(60) DEF Next, Settle, Store, StoreFails, Work, Claim, Check, Resolve, Submit, RecordClosed,
           Publish, RecordRejected, Requeue, StoreAgain, AckAll, Abandon, CloseElsewhere, Index,
           RestartIndexer, Count
  <2> QED BY <1>0, <2>1, SMTT(30) DEF TypeOK
<1> QED BY <1>2, <1>4, <1>5, <1>7, <1>8, <1>9, <1>10, <1>11, <1>12, <1>13, <1>14, <1>15, Zenon
        DEF TypeOK

-----------------------------------------------------------------------------
\* The theorems.

\* The queue starts empty.
LEMMA InitIInv ==
  ASSUME Init
  PROVE  IInv
<1>1. Ids = {} /\ Len(log) = 0
  BY DEF Init, Ids
<1>2. TypeOK
  BY <1>1 DEF Init, TypeOK, Idle
<1>3. \A w \in Workers : worker[w] = Idle
  BY DEF Init
<1>4. WorkerInv
  BY <1>3, IdleOK DEF WorkerInv, Init
<1>5. Apart
  BY <1>3, IdleOK DEF Apart
<1>6. Stacked
  BY <1>3 DEF Stacked, Idle
<1>7. RegistryTrue /\ Sound
  BY <1>1 DEF Init, RegistryTrue, Sound
<1> QED BY <1>2, <1>4, <1>5, <1>6, <1>7, Zenon DEF IInv

\* IInv is inductive.
LEMMA NextIInv ==
  ASSUME IInv, [Next]_vars
  PROVE  IInv'
<1>1. CASE Next
  <2>1. WorkerInv' /\ Apart' /\ (faults'.lost = 0 => Sound')
    BY <1>1, WorkStep, OtherStep DEF Next
  <2> QED BY <1>1, <2>1, TypeStep, StackedStep, RegistryStep, Zenon DEF IInv
<1>2. CASE UNCHANGED vars
  <2>1. TypeOK' /\ RegistryTrue' /\ Apart' /\ Stacked' /\ WorkerInv'
    BY <1>2, Zenon DEF vars, IInv, TypeOK, RegistryTrue, Apart, Stacked, WorkerInv, Ids, Batch
  <2>2. Sound => Sound'
    BY <1>2 DEF vars, Sound, Live, Ids, TunnelOf
  <2> QED BY <1>2, <2>1, <2>2, Zenon DEF IInv, vars
<1> QED BY <1>1, <1>2

\* The queue, the workers and the registry have their types in every state.
THEOREM SettleTypesHold == Spec => []TypeOK
<1>1. IInv => TypeOK
  BY DEF IInv
<1> QED BY <1>1, InitIInv, NextIInv, PTL DEF Spec

\* The registry shows a tunnel closed only if it is closed on chain, whatever the
\* workers and the indexer do and whatever fails: /settle turns nobody away wrongly.
THEOREM RegistryTrueHolds == Spec => []RegistryTrue
<1>1. IInv => RegistryTrue
  BY DEF IInv
<1> QED BY <1>1, InitIInv, NextIInv, PTL DEF Spec

\* As long as no enqueue fails when a worker tries again, every accepted settlement is
\* closed, reported, in the stream or pending: for any number of workers, of
\* requests, of crashes and of transient failures.
THEOREM AccountedHolds == Spec => []Accounted
<1>1. IInv => Accounted
  BY DEF IInv, Sound, Live, Accounted
<1> QED BY <1>1, InitIInv, NextIInv, PTL DEF Spec

-----------------------------------------------------------------------------
\* How each step moves a worker, for the two invariants below.

Distinct(s) == \A a, b \in DOMAIN s : s[a] = s[b] => a = b

\* Appending a new element to a sequence without repetitions.
LEMMA DistinctAppend ==
  ASSUME NEW S, NEW s \in Seq(S), NEW x \in S, Distinct(s), x \notin ToSet(s)
  PROVE  Distinct(Append(s, x))
<1> DEFINE t == Append(s, x)
<1>1. /\ t \in Seq(S) /\ Len(t) = Len(s) + 1 /\ t[Len(s) + 1] = x
      /\ \A k \in 1 .. Len(s) : t[k] = s[k]
  BY AppendProperties
<1>2. Len(s) \in Nat /\ DOMAIN s = 1 .. Len(s) /\ DOMAIN t = 1 .. Len(s) + 1
  BY <1>1, LenProperties
<1>3. \A k \in 1 .. Len(s) : s[k] # x
  BY <1>2 DEF ToSet
<1> HIDE DEF t
<1> SUFFICES ASSUME NEW a \in DOMAIN t, NEW b \in DOMAIN t, t[a] = t[b] PROVE a = b
  BY DEF Distinct, t
<1> QED BY <1>1, <1>2, <1>3, SMTT(20) DEF Distinct

\* Dropping the first element of a sequence without repetitions.
LEMMA DistinctTail ==
  ASSUME NEW S, NEW s \in Seq(S), s # <<>>, Distinct(s)
  PROVE  Distinct(Tail(s)) /\ Head(s) \notin ToSet(Tail(s))
<1>1. Len(s) \in Nat \ {0} /\ Head(s) = s[1] /\ DOMAIN s = 1 .. Len(s)
  BY EmptySeq, LenProperties
<1>2. /\ Tail(s) \in Seq(S) /\ Len(Tail(s)) = Len(s) - 1
      /\ \A k \in 1 .. Len(s) - 1 : Tail(s)[k] = s[k + 1]
  BY HeadTailProperties
<1>3. DOMAIN Tail(s) = 1 .. Len(s) - 1
  BY <1>2, LenProperties
<1>4. \A k \in 1 .. Len(s) - 1 : k + 1 \in DOMAIN s /\ k + 1 # 1
  BY <1>1
<1>5. \A a, b \in 1 .. Len(s) - 1 : s[a + 1] = s[b + 1] => a = b
  BY <1>1, <1>4 DEF Distinct
<1>6. Distinct(Tail(s))
  BY <1>2, <1>3, <1>5 DEF Distinct
<1>7. \A k \in 1 .. Len(s) - 1 : s[k + 1] # s[1]
  BY <1>1, <1>4 DEF Distinct
<1> QED BY <1>1, <1>2, <1>3, <1>6, <1>7, Zenon DEF ToSet

\* The log and the chain only grow.
LEMMA NextGrows ==
  ASSUME IInv, Next
  PROVE  /\ Ids \subseteq Ids' /\ \A i \in Ids : TunnelOf(i)' = TunnelOf(i)
         /\ chain \subseteq chain'
<1>1. Len(log) \in Nat /\ log \in Seq(Entry)
  BY LenProperties, Zenon DEF IInv, TypeOK
<1>2. log' = log \/ \E e : log' = Append(log, e)
  BY Zenon DEF Next, Settle, Store, StoreFails, Work, Claim, Check, Resolve, Submit, RecordClosed,
         Publish, RecordRejected, Requeue, StoreAgain, AckAll, Abandon, CloseElsewhere, Index,
         RestartIndexer, Add
<1>3. Ids \subseteq Ids' /\ \A i \in Ids : TunnelOf(i)' = TunnelOf(i)
  <2>1. CASE log' = log
    BY <2>1 DEF Ids, TunnelOf
  <2>2. CASE \E e : log' = Append(log, e)
    <3>1. PICK e : log' = Append(log, e)
      BY <2>2
    <3>2. Len(log') = Len(log) + 1 /\ \A i \in 1 .. Len(log) : log'[i] = log[i]
      BY <1>1, <3>1, SMTT(20)
    <3> QED BY <1>1, <3>2 DEF Ids, TunnelOf
  <2> QED BY <1>2, <2>1, <2>2
<1>4. chain \subseteq chain'
  BY DEF Next, Settle, Store, StoreFails, Work, Claim, Check, Resolve, Submit, RecordClosed,
         Publish, RecordRejected, Requeue, StoreAgain, AckAll, Abandon, CloseElsewhere, Index,
         RestartIndexer
<1> QED BY <1>3, <1>4

\* Claim, AckAll and Abandon: the worker has no work and no verdicts.
LEMMA ClearMove ==
  ASSUME IInv, NEW w \in Workers, Claim(w) \/ AckAll(w) \/ Abandon(w)
  PROVE  \E m : /\ worker' = [worker EXCEPT ![w] = m]
                /\ m.work = <<>> /\ m.result = <<>> /\ m.pc \in {"idle", "check"}
                /\ m.pc = "check" => Len(m.claim) \in Nat /\ Len(m.claim) <= BatchMax
                /\ published' = published /\ dead' = dead /\ chain' = chain
<1>1. CASE Claim(w)
  <2>1. PICK n : n = ClaimSize
    OBVIOUS
  <2>2. n \in Nat /\ n <= BatchMax
    BY <1>1, <2>1, LenProperties, BoundAssumption DEF IInv, TypeOK, Claim, ClaimSize
  <2>3. PICK c : c = [k \in 1 .. n |-> last + k]
    BY Zenon
  <2>4. PICK m : m = [Idle EXCEPT !.pc = "check", !.claim = c]
    OBVIOUS
  <2>5. worker' = [worker EXCEPT ![w] = m]
    BY <1>1, <2>1, <2>3, <2>4 DEF Claim
  <2>6. m.work = <<>> /\ m.result = <<>> /\ m.pc = "check" /\ m.claim = c
    BY <2>4 DEF Idle
  <2>7. Len(c) = n
    BY <2>2, <2>3
  <2> QED BY <1>1, <2>2, <2>5, <2>6, <2>7, Zenon DEF Claim
<1>2. CASE AckAll(w) \/ Abandon(w)
  <2>1. Idle.work = <<>> /\ Idle.result = <<>> /\ Idle.pc = "idle"
    BY Zenon DEF Idle
  <2> QED BY <1>2, <2>1 DEF AckAll, Abandon
<1> QED BY <1>1, <1>2

\* Check: the next entry of the claim joins the work or is dropped.
LEMMA CheckMove ==
  ASSUME IInv, NEW w \in Workers, Check(w)
  PROVE  \E m : /\ worker' = [worker EXCEPT ![w] = m]
                /\ worker[w].pc = "check" /\ m.pc \in {"idle", "check", "resolve"}
                /\ m.result = worker[w].result /\ m.claim = Tail(worker[w].claim)
                /\ m.work \in {worker[w].work, Append(worker[w].work, Head(worker[w].claim))}
                /\ m.pc # "check" => m.claim = <<>>
                /\ published' = published /\ dead' = dead /\ chain' = chain
<1> DEFINE me == worker[w]
<1>1. Shape(me)
  BY DEF IInv, WorkerInv, WorkerOK
<1>2. PICK work : work = IF Skip(me) THEN me.work ELSE Append(me.work, Head(me.claim))
  BY Zenon
<1>3. PICK m : m = [me EXCEPT !.claim = Tail(@), !.seen = @ \cup {log[Head(me.claim)]},
                     !.work = work, !.pc = IF Tail(me.claim) # <<>> THEN "check"
                                           ELSE IF work = <<>> THEN "idle" ELSE "resolve"]
  BY Zenon
<1>4. worker' = [worker EXCEPT ![w] = m]
  BY <1>2, <1>3 DEF Check
<1>5. /\ m.pc \in {"idle", "check", "resolve"} /\ m.result = me.result
      /\ m.claim = Tail(me.claim) /\ m.work = work
      /\ m.pc # "check" => m.claim = <<>>
  BY <1>1, <1>3 DEF Shape
<1> QED BY <1>2, <1>4, <1>5, Zenon DEF Check

\* Resolve: everyone's verdict, or all the work on the stack.
LEMMA ResolveMove ==
  ASSUME IInv, NEW w \in Workers, Resolve(w)
  PROVE  \E m : /\ worker' = [worker EXCEPT ![w] = m] /\ m.work = worker[w].work
                /\ worker[w].pc = "resolve"
                /\ \/ /\ m.pc = "split" /\ m.result = worker[w].result
                      /\ m.stack = <<[ids |-> worker[w].work, depth |-> 0]>>
                   \/ /\ m.pc = "record"
                      /\ \E v \in {"transient", "rejected"} :
                           /\ m.result = Verdict(worker[w], worker[w].work, v)
                           /\ v = "rejected" => Missing # {}
                /\ published' = published /\ dead' = dead /\ chain' = chain
<1> DEFINE me == worker[w]
<1>1. Shape(me)
  BY DEF IInv, WorkerInv, WorkerOK
<1>2. CASE \E v \in {"transient", "rejected"} :
             /\ worker' = [worker EXCEPT ![w].pc = "record",
                                         ![w].result = Verdict(me, me.work, v)]
             /\ v = "rejected" => Missing # {}
  <2>1. PICK v \in {"transient", "rejected"} :
             /\ worker' = [worker EXCEPT ![w].pc = "record",
                                         ![w].result = Verdict(me, me.work, v)]
             /\ v = "rejected" => Missing # {}
    BY <1>2, Zenon
  <2>2. PICK m : m = [me EXCEPT !.pc = "record", !.result = Verdict(me, me.work, v)]
    OBVIOUS
  <2>3. worker' = [worker EXCEPT ![w] = m]
    BY <2>1, <2>2, Zenon DEF IInv, WorkerInv
  <2>4. m.work = me.work /\ m.pc = "record" /\ m.result = Verdict(me, me.work, v)
    BY <1>1, <2>2 DEF Shape
  <2> QED BY <2>1, <2>3, <2>4, Zenon DEF Resolve
<1>3. CASE worker' = [worker EXCEPT ![w].pc = "split",
                                    ![w].stack = <<[ids |-> me.work, depth |-> 0]>>]
  <2>1. PICK m : m = [me EXCEPT !.pc = "split", !.stack = <<[ids |-> me.work, depth |-> 0]>>]
    OBVIOUS
  <2>2. worker' = [worker EXCEPT ![w] = m]
    BY <1>3, <2>1, Zenon DEF IInv, WorkerInv
  <2>3. /\ m.work = me.work /\ m.pc = "split" /\ m.result = me.result
        /\ m.stack = <<[ids |-> me.work, depth |-> 0]>>
    BY <1>1, <2>1 DEF Shape
  <2> QED BY <2>2, <2>3, Zenon DEF Resolve
<1> QED BY <1>2, <1>3 DEF Resolve

\* Submit: a verdict for the sub-batch on top, or its halves in its place.
LEMMA SubmitMove ==
  ASSUME IInv, NEW w \in Workers, Submit(w), NEW top, top = Last(worker[w].stack)
  PROVE  \E m : /\ worker' = [worker EXCEPT ![w] = m] /\ m.work = worker[w].work
                /\ worker[w].pc = "split" /\ m.pc \in {"split", "record"}
                /\ \/ /\ m.stack = Front(worker[w].stack)
                      /\ \E v \in {"ok", "transient", "rejected"} :
                           /\ m.result = Verdict(worker[w], top.ids, v)
                           /\ v = "ok" => /\ Closable(top.ids)
                                          /\ \A k \in DOMAIN top.ids : TunnelOf(top.ids[k]) \in chain'
                           /\ v = "rejected" => ~Closable(top.ids) /\ GiveUp(top)
                   \/ /\ m.stack = Front(worker[w].stack) \o Halves(top)
                      /\ m.result = worker[w].result /\ ~GiveUp(top)
                /\ published' = published /\ dead' = dead
<1> DEFINE me == worker[w]
           rest == Front(me.stack)
           Ended(v) == worker' = [worker EXCEPT ![w].stack = rest,
                                    ![w].pc = IF rest = <<>> THEN "record" ELSE "split",
                                    ![w].result = Verdict(me, top.ids, v)]
           Because(v) == /\ v = "ok" => /\ Closable(top.ids)
                                        /\ \A k \in DOMAIN top.ids : TunnelOf(top.ids[k]) \in chain'
                         /\ v = "rejected" => ~Closable(top.ids) /\ GiveUp(top)
<1>1. Shape(me) /\ me.pc = "split" /\ published' = published /\ dead' = dead
  BY DEF IInv, WorkerInv, WorkerOK, Submit
<1>2. ASSUME NEW v \in {"ok", "transient", "rejected"}, Ended(v)
      PROVE  \E m : /\ worker' = [worker EXCEPT ![w] = m] /\ m.work = me.work
                    /\ m.pc \in {"split", "record"} /\ m.stack = rest
                    /\ m.result = Verdict(me, top.ids, v)
  <2>1. PICK m : m = [me EXCEPT !.stack = rest,
                        !.pc = IF rest = <<>> THEN "record" ELSE "split",
                        !.result = Verdict(me, top.ids, v)]
    OBVIOUS
  <2>2. worker' = [worker EXCEPT ![w] = m]
    BY <1>2, <2>1, Zenon DEF IInv, WorkerInv
  <2>3. /\ m.work = me.work /\ m.pc \in {"split", "record"} /\ m.stack = rest
        /\ m.result = Verdict(me, top.ids, v)
    BY <1>1, <2>1 DEF Shape
  <2> QED BY <2>2, <2>3, Zenon
<1>3. CASE \E v \in {"ok", "transient", "rejected"} : Ended(v) /\ Because(v)
  <2>1. PICK v \in {"ok", "transient", "rejected"} : Ended(v) /\ Because(v)
    BY <1>3, Zenon
  <2> HIDE DEF Ended
  <2>2. PICK m : /\ worker' = [worker EXCEPT ![w] = m] /\ m.work = me.work
                 /\ m.pc \in {"split", "record"} /\ m.stack = rest
                 /\ m.result = Verdict(me, top.ids, v)
    BY <1>2, <2>1
  <2> QED BY <1>1, <2>1, <2>2, Zenon
<1>4. CASE worker' = [worker EXCEPT ![w].stack = rest \o Halves(top)] /\ ~GiveUp(top)
  <2>1. PICK m : m = [me EXCEPT !.stack = rest \o Halves(top)]
    BY Zenon
  <2>2. worker' = [worker EXCEPT ![w] = m]
    BY <1>4, <2>1 DEF IInv, WorkerInv
  <2>3. /\ m.work = me.work /\ m.pc = "split" /\ m.stack = rest \o Halves(top)
        /\ m.result = me.result
    BY <1>1, <2>1 DEF Shape
  <2> QED BY <1>1, <1>4, <2>2, <2>3, Zenon
<1> QED BY <1>3, <1>4, Zenon DEF Submit

\* The steps between two entries of the work: the worker keeps its work and its verdicts, ...
LEMMA RecordMove ==
  ASSUME IInv, NEW w \in Workers,
         RecordClosed(w) \/ (Requeue(w) /\ worker' # [worker EXCEPT ![w] = Finish(worker[w])])
  PROVE  \E m : /\ worker' = [worker EXCEPT ![w] = m]
                /\ m.work = worker[w].work /\ m.result = worker[w].result
                /\ m.pc \in {"publish", "store"}
                /\ published' = published /\ dead' = dead
<1> DEFINE me == worker[w]
<1>1. Shape(me)
  BY DEF IInv, WorkerInv, WorkerOK
<1>2. CASE RecordClosed(w)
  <2>1. PICK m : m = [me EXCEPT !.pc = "publish"]
    BY Zenon
  <2>2. worker' = [worker EXCEPT ![w] = m]
    BY <1>2, <2>1 DEF RecordClosed, IInv, WorkerInv
  <2>3. m.work = me.work /\ m.result = me.result /\ m.pc = "publish"
    BY <1>1, <2>1 DEF Shape
  <2> QED BY <1>2, <2>2, <2>3, Zenon DEF RecordClosed
<1>3. CASE Requeue(w) /\ worker' # [worker EXCEPT ![w] = Finish(me)]
  <2>1. PICK m : m = [me EXCEPT !.pc = "store", !.new = Len(log) + 1]
    OBVIOUS
  <2>2. worker' = [worker EXCEPT ![w] = m]
    BY <1>3, <2>1 DEF Requeue, IInv, WorkerInv
  <2>3. m.work = me.work /\ m.result = me.result /\ m.pc = "store"
    BY <1>1, <2>1 DEF Shape
  <2> QED BY <1>3, <2>2, <2>3, Zenon DEF Requeue
<1> QED BY <1>2, <1>3

\* ... or drops the first entry of its work.
LEMMA FinishMove ==
  ASSUME IInv, NEW w \in Workers, worker[w].pc \in {"record", "publish", "store"},
         worker' = [worker EXCEPT ![w] = Finish(worker[w])]
  PROVE  /\ worker[w].work \in Seq(Nat) /\ worker[w].work # <<>>
         /\ ToSet(worker[w].work) \subseteq DOMAIN worker[w].result
         /\ worker[w].pc = "publish" => worker[w].result[Head(worker[w].work)] = "ok"
         /\ \E m : /\ worker' = [worker EXCEPT ![w] = m]
                   /\ m.work = Tail(worker[w].work) /\ m.result = worker[w].result
                   /\ m.pc \in {"record", "ack"}
<1>1. WorkerOK(worker[w], log, last, pel, chain)
  BY DEF IInv, WorkerInv
<1>2. PICK m : m = Finish(worker[w])
  OBVIOUS
<1>3. /\ m.work = Tail(worker[w].work) /\ m.result = worker[w].result
      /\ m.pc \in {"record", "ack"}
  BY <1>1, <1>2 DEF Finish, WorkerOK, Shape
<1> QED BY <1>1, <1>2, <1>3, Zenon DEF WorkerOK, Recording

-----------------------------------------------------------------------------
\* A settled tunnel is published once.  The verdict "ok" is given for a tunnel that was not
\* closed before, by the one transaction that closes it, so at most one entry anywhere has it,
\* and only as long as nothing has been published for the tunnel.

Oks(me) == {i \in ToSet(me.work) : i \in DOMAIN me.result /\ me.result[i] = "ok"}

OncePerClose ==
  /\ \A w \in Workers : Distinct(worker[w].work)
  /\ \A w \in Workers : worker[w].pc \in {"check", "resolve"} => worker[w].result = <<>>
  /\ \A t \in Tunnels : published[t] <= 1 /\ (published[t] = 1 => t \in chain)
  /\ \A w \in Workers : \A i \in Oks(worker[w]) : published[TunnelOf(i)] = 0
  /\ \A v, w \in Workers : \A i \in Oks(worker[v]), j \in Oks(worker[w]) :
       TunnelOf(i) = TunnelOf(j) => v = w /\ i = j

\* The entries with that verdict are entries, and their tunnels are closed.
LEMMA OksClosed ==
  ASSUME IInv, NEW w \in Workers, NEW i \in Oks(worker[w])
  PROVE  i \in Ids /\ TunnelOf(i) \in Tunnels /\ TunnelOf(i) \in chain
<1>1. WorkerOK(worker[w], log, last, pel, chain)
  BY DEF IInv, WorkerInv
<1>2. i \in Ids
  BY DoneHeld DEF IInv, Oks, Holds
<1>3. TunnelOf(i) \in chain
  BY <1>1 DEF WorkerOK, Recording, Oks, TunnelOf
<1> QED BY <1>2, <1>3, EntryTyped DEF IInv

\* A step after which there are no more such entries than before, and nothing more published.
LEMMA OnceKept ==
  ASSUME IInv, OncePerClose, Next, published' = published, NEW w \in Workers, NEW m,
         worker' = [worker EXCEPT ![w] = m], Distinct(m.work),
         m.pc \in {"check", "resolve"} => m.result = <<>>, Oks(m) \subseteq Oks(worker[w])
  PROVE  OncePerClose'
<1>1. worker'[w] = m /\ \A v \in Workers : v # w => worker'[v] = worker[v]
  BY DEF IInv, WorkerInv
<1>2. \A v \in Workers : Oks(worker'[v]) \subseteq Oks(worker[v])
  BY <1>1
<1>3. \A v \in Workers : \A i \in Oks(worker'[v]) : i \in Oks(worker[v]) /\ TunnelOf(i)' = TunnelOf(i)
  BY <1>2, OksClosed, NextGrows
<1>4. (\A v \in Workers : Distinct(worker[v].work))'
  BY <1>1 DEF OncePerClose
<1>5. (\A v \in Workers : worker[v].pc \in {"check", "resolve"} => worker[v].result = <<>>)'
  BY <1>1 DEF OncePerClose
<1>6. (\A t \in Tunnels : published[t] <= 1 /\ (published[t] = 1 => t \in chain))'
  BY NextGrows DEF OncePerClose
<1>7. (\A v \in Workers : \A i \in Oks(worker[v]) : published[TunnelOf(i)] = 0)'
  BY <1>3 DEF OncePerClose
<1>8. (\A u, v \in Workers : \A i \in Oks(worker[u]), j \in Oks(worker[v]) :
         TunnelOf(i) = TunnelOf(j) => u = v /\ i = j)'
  BY <1>3 DEF OncePerClose
<1> QED BY <1>4, <1>5, <1>6, <1>7, <1>8 DEF OncePerClose

\* The entries with the verdict "ok" after a verdict for ids.
LEMMA OksVerdict ==
  ASSUME NEW me, NEW m, NEW ids, NEW v, m.work = me.work, m.result = Verdict(me, ids, v)
  PROVE  \A i \in Oks(m) : (v = "ok" /\ i \in ToSet(ids)) \/ i \in Oks(me)
<1> SUFFICES ASSUME NEW i \in Oks(m), ~(v = "ok" /\ i \in ToSet(ids)) PROVE i \in Oks(me)
  OBVIOUS
<1>1. i \in ToSet(me.work) /\ m.result[i] = "ok"
  BY DEF Oks
<1>2. m.result[i] = IF i \in ToSet(ids) THEN v
                    ELSE IF i \in DOMAIN me.result THEN me.result[i] ELSE "none"
  BY <1>1 DEF Verdict
<1> QED BY <1>1, <1>2 DEF Oks

\* A transaction that lands closes tunnels that were open, each once.
LEMMA OnceSubmit ==
  ASSUME IInv, OncePerClose, NEW w \in Workers, Submit(w), Next
  PROVE  OncePerClose'
<1>1. PICK top : top = Last(worker[w].stack)
  OBVIOUS
<1>2. PICK m : /\ worker' = [worker EXCEPT ![w] = m] /\ m.work = worker[w].work
               /\ m.pc \in {"split", "record"}
               /\ \/ \E v \in {"ok", "transient", "rejected"} :
                       /\ m.result = Verdict(worker[w], top.ids, v)
                       /\ v = "ok" => /\ Closable(top.ids)
                                      /\ \A k \in DOMAIN top.ids : TunnelOf(top.ids[k]) \in chain'
                  \/ m.result = worker[w].result
               /\ published' = published
  BY <1>1, SubmitMove
<1>3. Distinct(m.work)
  BY <1>2 DEF OncePerClose
<1>4. CASE m.result = worker[w].result
  BY <1>2, <1>3, <1>4, OnceKept, Zenon DEF Oks
<1>5. ASSUME NEW v \in {"transient", "rejected"}, m.result = Verdict(worker[w], top.ids, v)
      PROVE  OncePerClose'
  <2>1. Oks(m) \subseteq Oks(worker[w])
    BY <1>2, <1>5, OksVerdict
  <2> QED BY <1>2, <1>3, <2>1, OnceKept, Zenon
<1>6. ASSUME m.result = Verdict(worker[w], top.ids, "ok"), Closable(top.ids),
             \A k \in DOMAIN top.ids : TunnelOf(top.ids[k]) \in chain'
      PROVE  OncePerClose'
  <2>1. worker'[w] = m /\ \A v \in Workers : v # w => worker'[v] = worker[v]
    BY <1>2 DEF IInv, WorkerInv
  <2>2. ASSUME NEW i \in ToSet(top.ids)
        PROVE  /\ TunnelOf(i) \notin chain
               /\ \A j \in ToSet(top.ids) : TunnelOf(i) = TunnelOf(j) => i = j
    BY <1>6 DEF Closable, ToSet
  <2>3. ASSUME NEW v \in Workers, NEW i \in Oks(worker'[v])
        PROVE  \/ i \in Oks(worker[v])
               \/ v = w /\ i \in ToSet(top.ids)
    <3>1. CASE v = w
      BY <1>2, <1>6, <2>1, <3>1, OksVerdict, Zenon
    <3> QED BY <2>1, <3>1
  <2>4. \A v \in Workers : \A i \in Oks(worker'[v]) : i \in Ids /\ TunnelOf(i) \in Tunnels
    <3> SUFFICES ASSUME NEW v \in Workers, NEW i \in Oks(worker'[v]), i \notin Oks(worker[v])
                 PROVE  i \in Ids /\ TunnelOf(i) \in Tunnels
      BY OksClosed
    <3>1. i \in ToSet(worker[w].work)
      BY <1>2, <2>1, <2>3 DEF Oks
    <3>2. i \in Ids
      BY <3>1, DoneHeld DEF IInv, Holds
    <3> QED BY <3>2, EntryTyped DEF IInv
  <2>5. \A v \in Workers : \A i \in Oks(worker'[v]) : TunnelOf(i)' = TunnelOf(i)
    BY <2>4, NextGrows
  <2>6. \A v \in Workers : \A i \in Oks(worker'[v]) : published[TunnelOf(i)] = 0
    <3> SUFFICES ASSUME NEW v \in Workers, NEW i \in Oks(worker'[v])
                 PROVE  published[TunnelOf(i)] = 0
      OBVIOUS
    <3>1. CASE i \in Oks(worker[v])
      BY <3>1 DEF OncePerClose
    <3>2. CASE i \in ToSet(top.ids)
      <4>1. TunnelOf(i) \notin chain /\ TunnelOf(i) \in Tunnels
        BY <2>2, <2>4, <3>2
      <4>2. published[TunnelOf(i)] \in Nat
        BY <4>1 DEF IInv, TypeOK
      <4> QED BY <4>1, <4>2 DEF OncePerClose
    <3> QED BY <2>3, <3>1, <3>2
  <2>7. ASSUME NEW u \in Workers, NEW v \in Workers, NEW i \in Oks(worker'[u]),
               NEW j \in Oks(worker'[v]), TunnelOf(i) = TunnelOf(j)
        PROVE  u = v /\ i = j
    <3>1. CASE i \in Oks(worker[u]) /\ j \in Oks(worker[v])
      BY <2>7, <3>1 DEF OncePerClose
    <3>2. CASE i \notin Oks(worker[u]) /\ j \notin Oks(worker[v])
      BY <2>2, <2>3, <2>7, <3>2, Zenon
    <3>3. CASE i \in Oks(worker[u]) /\ j \notin Oks(worker[v])
      BY <2>2, <2>3, <2>7, <3>3, OksClosed, Zenon
    <3>4. CASE i \notin Oks(worker[u]) /\ j \in Oks(worker[v])
      BY <2>2, <2>3, <2>7, <3>4, OksClosed, Zenon
    <3> QED BY <3>1, <3>2, <3>3, <3>4, Zenon
  <2>8. (\A v \in Workers : Distinct(worker[v].work))'
    BY <1>3, <2>1 DEF OncePerClose
  <2>9. (\A v \in Workers : worker[v].pc \in {"check", "resolve"} => worker[v].result = <<>>)'
    BY <1>2, <2>1 DEF OncePerClose
  <2>10. (\A t \in Tunnels : published[t] <= 1 /\ (published[t] = 1 => t \in chain))'
    BY <1>2, NextGrows DEF OncePerClose
  <2>11. (\A v \in Workers : \A i \in Oks(worker[v]) : published[TunnelOf(i)] = 0)'
    BY <1>2, <2>5, <2>6
  <2>12. (\A u, v \in Workers : \A i \in Oks(worker[u]), j \in Oks(worker[v]) :
            TunnelOf(i) = TunnelOf(j) => u = v /\ i = j)'
    BY <2>5, <2>7
  <2> QED BY <2>8, <2>9, <2>10, <2>11, <2>12, Zenon DEF OncePerClose
<1> QED BY <1>2, <1>4, <1>5, <1>6, Zenon

\* Dropping the first entry of the work leaves fewer entries, none of them repeated.
LEMMA OksTail ==
  ASSUME NEW me, NEW m, me.work \in Seq(Nat), me.work # <<>>, Distinct(me.work),
         m.work = Tail(me.work), m.result = me.result
  PROVE  /\ Distinct(m.work) /\ Oks(m) \subseteq Oks(me) \ {Head(me.work)}
         /\ Head(me.work) \in ToSet(me.work)
BY HeadTail, DistinctTail DEF Oks

\* Publishing uses up the one entry that has the verdict.
LEMMA OncePublish ==
  ASSUME IInv, OncePerClose, NEW w \in Workers, Publish(w), Next
  PROVE  OncePerClose'
<1> DEFINE me == worker[w]
<1>1. me.pc = "publish" /\ worker' = [worker EXCEPT ![w] = Finish(me)]
  BY DEF Publish
<1>2. /\ me.work \in Seq(Nat) /\ me.work # <<>> /\ ToSet(me.work) \subseteq DOMAIN me.result
      /\ me.result[Head(me.work)] = "ok"
  BY <1>1, FinishMove, Zenon
<1>3. PICK m : /\ worker' = [worker EXCEPT ![w] = m]
               /\ m.work = Tail(me.work) /\ m.result = me.result /\ m.pc \in {"record", "ack"}
  BY <1>1, FinishMove, Zenon
<1>4. PICK i : i = Head(me.work)
  OBVIOUS
<1>5. /\ Distinct(m.work) /\ Oks(m) \subseteq Oks(me) \ {i} /\ i \in ToSet(me.work)
  BY <1>2, <1>3, <1>4, OksTail, Zenon DEF OncePerClose
<1>6. i \in Oks(me)
  BY <1>2, <1>4, <1>5 DEF Oks
<1>7. i \in Ids /\ TunnelOf(i) \in Tunnels /\ TunnelOf(i) \in chain /\ published[TunnelOf(i)] = 0
  BY <1>6, OksClosed DEF OncePerClose
<1>8. published' = [published EXCEPT ![TunnelOf(i)] = 1] /\ published \in [Tunnels -> Nat]
  BY <1>4, <1>7 DEF Publish, IInv, TypeOK
<1>9. worker'[w] = m /\ \A v \in Workers : v # w => worker'[v] = worker[v]
  BY <1>3 DEF IInv, WorkerInv
<1>10. \A v \in Workers : \A j \in Oks(worker'[v]) : j \in Oks(worker[v]) /\ (v = w => j # i)
  BY <1>5, <1>9
<1>11. \A v \in Workers : \A j \in Oks(worker'[v]) :
          TunnelOf(j)' = TunnelOf(j) /\ TunnelOf(j) \in Tunnels
  BY <1>10, OksClosed, NextGrows, Zenon
<1>12. \A v \in Workers : \A j \in Oks(worker'[v]) : TunnelOf(j) # TunnelOf(i)
  BY <1>6, <1>10 DEF OncePerClose
<1> HIDE DEF me
<1>13. (\A v \in Workers : Distinct(worker[v].work))'
  BY <1>5, <1>9 DEF OncePerClose
<1>14. (\A v \in Workers : worker[v].pc \in {"check", "resolve"} => worker[v].result = <<>>)'
  BY <1>3, <1>9 DEF OncePerClose
<1>15. (\A t \in Tunnels : published[t] <= 1 /\ (published[t] = 1 => t \in chain))'
  BY <1>7, <1>8, NextGrows, SMTT(20) DEF OncePerClose
<1>16. (\A v \in Workers : \A j \in Oks(worker[v]) : published[TunnelOf(j)] = 0)'
  BY <1>8, <1>10, <1>11, <1>12, SMTT(20) DEF OncePerClose
<1>17. (\A u, v \in Workers : \A j \in Oks(worker[u]), k \in Oks(worker[v]) :
          TunnelOf(j) = TunnelOf(k) => u = v /\ j = k)'
  BY <1>10, <1>11 DEF OncePerClose
<1> QED BY <1>13, <1>14, <1>15, <1>16, <1>17, Zenon DEF OncePerClose

\* The steps that resume, extend, split or finish a worker's work.
LEMMA OnceWork ==
  ASSUME IInv, OncePerClose, NEW w \in Workers, Work(w) \/ Abandon(w), Next
  PROVE  OncePerClose'
<1> DEFINE me == worker[w]
<1>1. me.work \in Seq(Nat) /\ me.claim \in Seq(Nat) /\ Distinct(me.work)
  BY DEF IInv, WorkerInv, WorkerOK, OncePerClose
<1>2. CASE Claim(w) \/ AckAll(w) \/ Abandon(w)
  <2>1. PICK m : /\ worker' = [worker EXCEPT ![w] = m]
                 /\ m.work = <<>> /\ m.result = <<>> /\ published' = published
    BY <1>2, ClearMove
  <2>2. Distinct(m.work) /\ Oks(m) = {}
    BY <2>1 DEF Distinct, Oks, ToSet
  <2> QED BY <2>1, <2>2, OnceKept, Zenon
<1>3. CASE Check(w)
  <2>1. PICK m : /\ worker' = [worker EXCEPT ![w] = m] /\ me.pc = "check"
                 /\ m.result = me.result
                 /\ m.work \in {me.work, Append(me.work, Head(me.claim))}
                 /\ published' = published
    BY <1>3, CheckMove
  <2>2. me.result = <<>>
    BY <2>1 DEF OncePerClose
  <2>3. me.claim # <<>> /\ ToSet(me.claim) \cap ToSet(me.work) = {}
    BY <2>1, Zenon DEF IInv, WorkerInv, WorkerOK, Claiming
  <2>4. Head(me.claim) \in Nat /\ Head(me.claim) \notin ToSet(me.work)
    BY <1>1, <2>3, HeadTail
  <2>5. Distinct(m.work)
    BY <1>1, <2>1, <2>4, DistinctAppend, Zenon
  <2>6. Oks(m) = {}
    BY <2>1, <2>2 DEF Oks
  <2> QED BY <2>1, <2>2, <2>5, <2>6, OnceKept, Zenon
<1>4. CASE Resolve(w)
  <2>1. PICK m : /\ worker' = [worker EXCEPT ![w] = m] /\ m.work = me.work
                 /\ \/ m.pc = "split" /\ m.result = me.result
                    \/ /\ m.pc = "record"
                       /\ \E v \in {"transient", "rejected"} :
                            m.result = Verdict(me, me.work, v)
                 /\ published' = published
    BY <1>4, ResolveMove, Zenon
  <2>2. CASE m.result = me.result /\ m.pc = "split"
    <3>1. Oks(m) = Oks(me)
      BY <2>1, <2>2 DEF Oks
    <3> QED BY <1>1, <2>1, <2>2, <3>1, OnceKept, Zenon
  <2>3. ASSUME NEW v \in {"transient", "rejected"}, m.result = Verdict(me, me.work, v),
               m.pc = "record"
        PROVE  OncePerClose'
    <3>1. Oks(m) \subseteq Oks(me)
      BY <2>1, <2>3, OksVerdict, Zenon
    <3> QED BY <1>1, <2>1, <2>3, <3>1, OnceKept, Zenon
  <2> QED BY <2>1, <2>2, <2>3
<1>5. CASE RecordClosed(w) \/ (Requeue(w) /\ worker' # [worker EXCEPT ![w] = Finish(me)])
  <2>1. PICK m : /\ worker' = [worker EXCEPT ![w] = m]
                 /\ m.work = me.work /\ m.result = me.result
                 /\ m.pc \in {"publish", "store"} /\ published' = published
    BY <1>5, RecordMove
  <2>2. Oks(m) = Oks(me)
    BY <2>1 DEF Oks
  <2> QED BY <1>1, <2>1, <2>2, OnceKept, Zenon
<1>6. CASE RecordRejected(w) \/ StoreAgain(w)
           \/ (Requeue(w) /\ worker' = [worker EXCEPT ![w] = Finish(me)])
  <2>1. /\ me.pc \in {"record", "store"} /\ worker' = [worker EXCEPT ![w] = Finish(me)]
        /\ published' = published
    BY <1>6 DEF RecordRejected, StoreAgain, Requeue
  <2>2. me.work # <<>>
    BY <2>1, FinishMove, Zenon
  <2>3. PICK m : /\ worker' = [worker EXCEPT ![w] = m]
                 /\ m.work = Tail(me.work) /\ m.result = me.result
                 /\ m.pc \in {"record", "ack"}
    BY <2>1, FinishMove, Zenon
  <2>4. Distinct(m.work) /\ Oks(m) \subseteq Oks(me)
    BY <1>1, <2>2, <2>3, OksTail, Zenon
  <2> QED BY <2>1, <2>3, <2>4, OnceKept, Zenon
<1>7. CASE Submit(w)
  BY <1>7, OnceSubmit
<1>8. CASE Publish(w)
  BY <1>8, OncePublish, Zenon
<1> QED BY <1>2, <1>3, <1>4, <1>5, <1>6, <1>7, <1>8, Zenon DEF Work

\* Nobody else publishes or touches a worker.
LEMMA OnceOther ==
  ASSUME IInv, OncePerClose, Next, worker' = worker, published' = published
  PROVE  OncePerClose'
<1>1. \A w \in Workers : \A i \in Oks(worker[w]) :
        TunnelOf(i)' = TunnelOf(i)
  BY OksClosed, NextGrows, Zenon
<1>2. (\A w \in Workers : Distinct(worker[w].work))'
  BY DEF OncePerClose
<1>3. (\A w \in Workers : worker[w].pc \in {"check", "resolve"} => worker[w].result = <<>>)'
  BY DEF OncePerClose
<1>4. (\A t \in Tunnels : published[t] <= 1 /\ (published[t] = 1 => t \in chain))'
  BY NextGrows DEF OncePerClose
<1>5. (\A w \in Workers : \A i \in Oks(worker[w]) : published[TunnelOf(i)] = 0)'
  BY <1>1 DEF OncePerClose
<1>6. (\A u, v \in Workers : \A i \in Oks(worker[u]), j \in Oks(worker[v]) :
          TunnelOf(i) = TunnelOf(j) => u = v /\ i = j)'
  BY <1>1 DEF OncePerClose
<1> QED BY <1>2, <1>3, <1>4, <1>5, <1>6, Zenon DEF OncePerClose

\* OncePerClose is inductive.
LEMMA NextOnce ==
  ASSUME IInv, OncePerClose, [Next]_vars
  PROVE  OncePerClose'
<1>1. CASE Next
  <2>1. CASE \E w \in Workers : Work(w) \/ Abandon(w)
    BY <1>1, <2>1, OnceWork
  <2>2. CASE worker' = worker /\ published' = published
    BY <1>1, <2>2, OnceOther, Zenon
  <2>3. \/ \E w \in Workers : Work(w) \/ Abandon(w)
        \/ worker' = worker /\ published' = published
    BY <1>1, Zenon DEF Next, Settle, Store, StoreFails, CloseElsewhere, Index, RestartIndexer
  <2> QED BY <2>1, <2>2, <2>3, Zenon
<1>2. CASE UNCHANGED vars
  BY <1>2 DEF vars, OncePerClose, TunnelOf
<1> QED BY <1>1, <1>2

\* Idle workers have no verdict, and nothing is published yet.
LEMMA InitOnce == Init => OncePerClose
<1> SUFFICES ASSUME Init PROVE OncePerClose
  OBVIOUS
<1>1. \A w \in Workers : worker[w] = Idle
  BY DEF Init
<1>2. Oks(Idle) = {} /\ Distinct(Idle.work) /\ Idle.pc = "idle"
  BY DEF Idle, Oks, Distinct, ToSet
<1> QED BY <1>1, <1>2 DEF Init, OncePerClose

\* A tunnel is published as settled at most once, for any number of workers, of seats that
\* ask and of batches that are claimed again after a crash or a lost answer: the chain lets
\* one transaction close a tunnel, and the worker that sent it publishes and then drops the
\* entry.
THEOREM PublishedOnceHolds == Spec => []PublishedOnce
<1>1. OncePerClose => PublishedOnce
  BY DEF OncePerClose, PublishedOnce
<1> QED BY <1>1, InitIInv, NextIInv, InitOnce, NextOnce, PTL DEF Spec

-----------------------------------------------------------------------------
\* Isolated: split_submit reaches single entries before it gives up.

\* Induction over the naturals, for a set.
LEMMA NaturalInduction ==
  ASSUME NEW G, 0 \in G, \A n \in Nat : n \in G => n + 1 \in G
  PROVE  Nat \subseteq G
<1> DEFINE T == Nat \ G
<1>1. SUFFICES ASSUME T # {} PROVE FALSE
  OBVIOUS
<1>2. PICK x \in T : \A y \in T : ~(<<y, x>> \in OpToRel(<, Nat))
  <2>1. T \subseteq Nat
    OBVIOUS
  <2> HIDE DEF T
  <2> QED BY <1>1, <2>1, WFMin, NatLessThanWellFounded, Zenon
<1>3. x \in Nat /\ x # 0 /\ x - 1 \in Nat
  OBVIOUS
<1>4. <<x - 1, x>> \in OpToRel(<, Nat)
  BY <1>3 DEF OpToRel
<1>5. x - 1 \notin T
  BY <1>2, <1>4, Zenon
<1> QED BY <1>3, <1>5

\* How large a batch k rounds of halving reduce to single entries.
Doubling[k \in Nat] == IF k = 0 THEN 1 ELSE 2 * Doubling[k - 1]

\* The first n + 1 values of such a function.
Doubles(g, n) == g = [k \in 0 .. n |-> IF k = 0 THEN 1 ELSE 2 * g[k - 1]]

\* They are naturals, and there is one way to choose them.
LEMMA DoublesUnique ==
  ASSUME NEW n \in Nat, NEW m \in Nat, NEW g, NEW h, Doubles(g, n), Doubles(h, m)
  PROVE  \A k \in Nat : k <= n /\ k <= m => g[k] = h[k] /\ g[k] \in Nat
<1> DEFINE G == {k \in Nat : k <= n /\ k <= m => g[k] = h[k] /\ g[k] \in Nat}
<1>1. 0 \in G
  BY DEF Doubles
<1>2. ASSUME NEW k \in Nat, k \in G PROVE k + 1 \in G
  <2> SUFFICES ASSUME k + 1 <= n, k + 1 <= m PROVE g[k + 1] = h[k + 1] /\ g[k + 1] \in Nat
    OBVIOUS
  <2>1. g[k] = h[k] /\ g[k] \in Nat
    BY <1>2
  <2>2. g[k + 1] = 2 * g[k] /\ h[k + 1] = 2 * h[k]
    <3>1. k + 1 \in 0 .. n /\ k + 1 \in 0 .. m /\ k + 1 # 0 /\ (k + 1) - 1 = k
      OBVIOUS
    <3> QED BY <3>1 DEF Doubles
  <2> QED BY <2>1, <2>2
<1>3. Nat \subseteq G
  <2> HIDE DEF G
  <2> QED BY <1>1, <1>2, NaturalInduction
<1> QED BY <1>3

\* There are such values up to any n.
LEMMA DoublesExist ==
  ASSUME NEW n \in Nat
  PROVE  \E g : Doubles(g, n)
<1> DEFINE G == {k \in Nat : \E g : Doubles(g, k)}
<1>1. 0 \in G
  <2>1. Doubles([k \in 0 .. 0 |-> 1], 0)
    BY DEF Doubles
  <2> QED BY <2>1
<1>2. ASSUME NEW k \in Nat, k \in G PROVE k + 1 \in G
  <2>1. PICK g : Doubles(g, k)
    BY <1>2
  <2>2. PICK h : h = [j \in 0 .. k + 1 |-> IF j = k + 1 THEN 2 * g[k] ELSE g[j]]
    BY Zenon
  <2>3. \A j \in 0 .. k + 1 : h[j] = IF j = 0 THEN 1 ELSE 2 * h[j - 1]
    <3> SUFFICES ASSUME NEW j \in 0 .. k + 1
                 PROVE  h[j] = IF j = 0 THEN 1 ELSE 2 * h[j - 1]
      OBVIOUS
    <3>1. CASE j = k + 1
      BY <2>2, <3>1
    <3>2. CASE j # k + 1
      <4>1. j \in 0 .. k /\ h[j] = g[j] /\ (j # 0 => h[j - 1] = g[j - 1])
        BY <2>2, <3>2
      <4> QED BY <2>1, <4>1 DEF Doubles
    <3> QED BY <3>1, <3>2
  <2>4. Doubles(h, k + 1)
    BY <2>2, <2>3 DEF Doubles
  <2> QED BY <2>4
<1>3. Nat \subseteq G
  <2> HIDE DEF G
  <2> QED BY <1>1, <1>2, NaturalInduction
<1> QED BY <1>3

\* So Doubling is what its definition says.
LEMMA DoublingStep ==
  /\ Doubling[0] = 1
  /\ \A k \in Nat : Doubling[k] \in Nat /\ Doubling[k + 1] = 2 * Doubling[k]
<1> DEFINE D(f) == f = [k \in Nat |-> IF k = 0 THEN 1 ELSE 2 * f[k - 1]]
           Upto(n) == CHOOSE g : Doubles(g, n)
           F == [n \in Nat |-> Upto(n)[n]]
<1>1. \A n \in Nat : Doubles(Upto(n), n)
  BY DoublesExist
<1>2. ASSUME NEW n \in Nat PROVE F[n] = IF n = 0 THEN 1 ELSE 2 * F[n - 1]
  <2> HIDE DEF Upto
  <2>1. F[n] = Upto(n)[n] /\ n \in 0 .. n
    OBVIOUS
  <2>2. Upto(n)[n] = IF n = 0 THEN 1 ELSE 2 * Upto(n)[n - 1]
    BY <1>1, <2>1 DEF Doubles
  <2>3. ASSUME n # 0 PROVE Upto(n)[n - 1] = F[n - 1]
    <3>1. n - 1 \in Nat /\ n - 1 <= n
      BY <2>3
    <3>2. Upto(n)[n - 1] = Upto(n - 1)[n - 1]
      BY <1>1, <3>1, DoublesUnique
    <3> QED BY <3>1, <3>2
  <2> QED BY <2>1, <2>2, <2>3
<1>3. D(F)
  <2> HIDE DEF Upto
  <2>1. F = [n \in Nat |-> F[n]]
    OBVIOUS
  <2> HIDE DEF F
  <2>2. [n \in Nat |-> F[n]] = [n \in Nat |-> IF n = 0 THEN 1 ELSE 2 * F[n - 1]]
    BY <1>2
  <2> QED BY <2>1, <2>2
<1>4. D(Doubling)
  <2>1. Doubling = CHOOSE f : D(f)
    BY DEF Doubling
  <2> HIDE DEF D, F
  <2> QED BY <1>3, <2>1
<1>5. Doubling[0] = 1 /\ \A k \in Nat : Doubling[k + 1] = 2 * Doubling[k]
  <2>1. \A k \in Nat : Doubling[k] = IF k = 0 THEN 1 ELSE 2 * Doubling[k - 1]
    BY <1>4
  <2>2. \A k \in Nat : k + 1 \in Nat /\ k + 1 # 0 /\ (k + 1) - 1 = k
    OBVIOUS
  <2> HIDE DEF Doubling
  <2> QED BY <2>1, <2>2
<1> DEFINE G == {k \in Nat : Doubling[k] \in Nat}
<1>6. 0 \in G /\ \A k \in Nat : k \in G => k + 1 \in G
  BY <1>5
<1>7. Nat \subseteq G
  <2> HIDE DEF G
  <2> QED BY <1>6, NaturalInduction
<1> QED BY <1>5, <1>7

\* The entries with the verdict "rejected".
Refused(me) == {i \in DOMAIN me.result : me.result[i] = "rejected"}

\* A sub-batch is small enough to be split into single entries in the rounds left.
Fits(part) == part.depth <= MaxDepth /\ Len(part.ids) <= Doubling[MaxDepth - part.depth]

Sized(me) ==
  /\ me.pc = "check" => Len(me.claim) + Len(me.work) <= BatchMax
  /\ me.pc = "resolve" => Len(me.work) <= BatchMax
  /\ me.pc = "split" => \A k \in DOMAIN me.stack : Fits(me.stack[k])

Blamed ==
  /\ \A w \in Workers : Sized(worker[w])
  /\ \A w \in Workers : \A i \in Refused(worker[w]) : TunnelOf(i) \in Bad \cup chain
  /\ dead \subseteq Bad \cup chain

\* The entries refused after a verdict for ids.
LEMMA RefusedVerdict ==
  ASSUME NEW me, NEW m, NEW ids, NEW v, m.result = Verdict(me, ids, v)
  PROVE  \A i \in Refused(m) : (v = "rejected" /\ i \in ToSet(ids)) \/ i \in Refused(me)
<1> SUFFICES ASSUME NEW i \in Refused(m), ~(v = "rejected" /\ i \in ToSet(ids))
             PROVE  i \in Refused(me)
  OBVIOUS
<1>1. i \in ToSet(me.work) /\ m.result[i] = "rejected"
  BY DEF Refused, Verdict
<1>2. m.result[i] = IF i \in ToSet(ids) THEN v
                    ELSE IF i \in DOMAIN me.result THEN me.result[i] ELSE "none"
  BY <1>1 DEF Verdict
<1> QED BY <1>1, <1>2 DEF Refused

\* A step of a worker that blames nobody else's settlement.
LEMMA BlameKept ==
  ASSUME IInv, Blamed, Next, NEW w \in Workers, NEW m, worker' = [worker EXCEPT ![w] = m],
         Sized(m),
         \A i \in Refused(m) : i \in Refused(worker[w])
                               \/ (i \in Ids /\ TunnelOf(i) \in Bad \cup chain),
         \A t \in dead' : t \in dead \/ t \in Bad \cup chain
  PROVE  Blamed'
<1>1. worker'[w] = m /\ \A v \in Workers : v # w => worker'[v] = worker[v]
  BY DEF IInv, WorkerInv
<1>2. \A v \in Workers : \A i \in Refused(worker[v]) : i \in Ids
  <2> SUFFICES ASSUME NEW v \in Workers, NEW i \in Refused(worker[v]) PROVE i \in Ids
    OBVIOUS
  <2>1. DOMAIN worker[v].result \subseteq 1 .. last
    BY DEF IInv, WorkerInv, WorkerOK
  <2>2. last \in 0 .. Len(log) /\ Len(log) \in Nat
    BY LenProperties DEF IInv, TypeOK
  <2> QED BY <2>1, <2>2 DEF Refused, Ids
<1>3. \A v \in Workers : \A i \in Refused(worker'[v]) :
        i \in Ids /\ TunnelOf(i) \in Bad \cup chain
  BY <1>1, <1>2 DEF Blamed
<1>4. (\A v \in Workers : \A i \in Refused(worker[v]) : TunnelOf(i) \in Bad \cup chain)'
  BY <1>3, NextGrows
<1>5. (\A v \in Workers : Sized(worker[v]))'
  BY <1>1 DEF Blamed
<1>6. (dead \subseteq Bad \cup chain)'
  BY NextGrows DEF Blamed
<1> QED BY <1>4, <1>5, <1>6 DEF Blamed

\* The halves of a sub-batch that may be split once more fit one level down, ...
LEMMA HalvesFit ==
  ASSUME NEW top \in Batch, Fits(top), ~GiveUp(top), MaxDepth \in Nat, Len(log) \in Nat
  PROVE  /\ Len(Halves(top)) = 2
         /\ Fits(Halves(top)[1]) /\ Fits(Halves(top)[2])
<1>1. PICK n \in Nat : n = Len(top.ids)
  BY LenProperties DEF Batch
<1>2. PICK d \in Nat : d = top.depth
  BY DEF Batch
<1>3. d < MaxDepth /\ n <= Doubling[MaxDepth - d]
  BY <1>1, <1>2 DEF Fits, GiveUp
<1>4. PICK k \in Nat : k = MaxDepth - (d + 1)
  BY <1>3
<1>5. PICK c \in Nat : c = Doubling[k] /\ Doubling[k + 1] = 2 * c
  BY DoublingStep, Zenon
<1>6. n <= 2 * c
  BY <1>3, <1>4, <1>5
<1>7. PICK mid : mid = n \div 2
  OBVIOUS
<1>8. mid \in Nat /\ mid <= n /\ mid <= c /\ n - mid <= c /\ n - mid \in Nat
  BY <1>6, <1>7
<1>9. top.ids \in Seq(Ids) /\ \A i \in 1 .. n : top.ids[i] \in Ids
  BY <1>1, ElementOfSeq DEF Batch
<1>10. Len(SubSeq(top.ids, 1, mid)) = mid
  BY <1>8, <1>9, SubSeqProperties, SMTT(20)
<1>11. Len(SubSeq(top.ids, mid + 1, n)) = n - mid
  BY <1>8, <1>9, SubSeqProperties
<1>12. Halves(top) = <<[ids |-> SubSeq(top.ids, 1, mid), depth |-> d + 1],
                       [ids |-> SubSeq(top.ids, mid + 1, n), depth |-> d + 1]>>
  BY <1>1, <1>2, <1>7 DEF Halves
<1>13. PICK s1, s2 : /\ s1 = SubSeq(top.ids, 1, mid) /\ s2 = SubSeq(top.ids, mid + 1, n)
  BY Zenon
<1>14. Len(s1) <= Doubling[MaxDepth - (d + 1)] /\ Len(s2) <= Doubling[MaxDepth - (d + 1)]
  BY <1>4, <1>5, <1>8, <1>10, <1>11, <1>13
<1>15. d + 1 <= MaxDepth
  BY <1>3
<1>16. Halves(top) = <<[ids |-> s1, depth |-> d + 1], [ids |-> s2, depth |-> d + 1]>>
  BY <1>12, <1>13
<1> HIDE DEF Doubling
<1> QED BY <1>14, <1>15, <1>16 DEF Fits

\* ... and on the stack they join parts that fit.
LEMMA StackFits ==
  ASSUME NEW stack \in Seq(Batch), stack # <<>>, \A k \in DOMAIN stack : Fits(stack[k]),
         MaxDepth \in Nat, Len(log) \in Nat
  PROVE  /\ Last(stack) \in Batch /\ Fits(Last(stack))
         /\ \A k \in DOMAIN Front(stack) : Fits(Front(stack)[k])
         /\ ~GiveUp(Last(stack)) =>
              \A k \in DOMAIN (Front(stack) \o Halves(Last(stack))) :
                Fits((Front(stack) \o Halves(Last(stack)))[k])
<1>1. PICK n \in Nat \ {0} : n = Len(stack) /\ DOMAIN stack = 1 .. n
  BY EmptySeq, LenProperties
<1>2. Last(stack) \in Batch /\ Fits(Last(stack))
  BY <1>1, ElementOfSeq DEF Last
<1>3. PICK f : f = Front(stack)
  OBVIOUS
<1>4. /\ f \in Seq(Batch) /\ Len(f) = n - 1 /\ \A k \in 1 .. n - 1 : f[k] = stack[k]
  <2>1. f = SubSeq(stack, 1, n - 1)
    BY <1>1, <1>3 DEF Front
  <2>2. \A k \in 1 .. n - 1 : stack[k] \in Batch
    BY <1>1, ElementOfSeq
  <2> QED BY <1>1, <2>1, <2>2, SubSeqProperties, SMTT(20)
<1>5. DOMAIN f = 1 .. n - 1
  BY <1>4, LenProperties
<1>6. \A k \in DOMAIN f : Fits(f[k])
  BY <1>1, <1>4, <1>5, SMTT(20)
<1>7. ASSUME ~GiveUp(Last(stack))
      PROVE  \A k \in DOMAIN (f \o Halves(Last(stack))) : Fits((f \o Halves(Last(stack)))[k])
  <2>1. PICK h : h = Halves(Last(stack))
    OBVIOUS
  <2>2. Len(h) = 2 /\ Fits(h[1]) /\ Fits(h[2])
    BY <1>2, <1>7, <2>1, HalvesFit, Zenon
  <2>3. PICK a, b : h = <<a, b>>
    BY <2>1, Zenon DEF Halves
  <2>4. DOMAIN (f \o h) = 1 .. n + 1
    BY <1>4, <2>2, <2>3
  <2>5. ASSUME NEW k \in 1 .. n + 1 PROVE Fits((f \o h)[k])
    <3>1. CASE k <= n - 1
      <4>1. (f \o h)[k] = f[k]
        BY <1>4, <2>2, <2>3, <3>1, SMTT(20)
      <4> QED BY <1>5, <1>6, <3>1, <4>1, SMTT(20)
    <3>2. CASE k = n
      <4>1. (f \o h)[k] = h[1]
        BY <1>4, <2>2, <2>3, <3>2, SMTT(20)
      <4> QED BY <2>2, <4>1
    <3>3. CASE k = n + 1
      <4>1. (f \o h)[k] = h[2]
        BY <1>4, <2>2, <2>3, <3>3, SMTT(20)
      <4> QED BY <2>2, <4>1
    <3>4. k <= n - 1 \/ k = n \/ k = n + 1
      OBVIOUS
    <3> QED BY <3>1, <3>2, <3>3, <3>4, Zenon
  <2> QED BY <2>1, <2>4, <2>5, Zenon
<1>8. \A k \in DOMAIN Front(stack) : Fits(Front(stack)[k])
  BY <1>3, <1>6
<1>9. ~GiveUp(Last(stack)) =>
        \A k \in DOMAIN (Front(stack) \o Halves(Last(stack))) :
          Fits((Front(stack) \o Halves(Last(stack)))[k])
  BY <1>3, <1>7, Zenon
<1> QED BY <1>2, <1>8, <1>9, Zenon

\* split_submit gives up on single entries only, and those the contract refuses.
LEMMA BlameSubmit ==
  ASSUME IInv, Blamed, NEW w \in Workers, Submit(w), Next
  PROVE  Blamed'
<1> DEFINE me == worker[w]
<1>1. PICK top : top = Last(me.stack)
  OBVIOUS
<1>2. PICK m : /\ worker' = [worker EXCEPT ![w] = m]
               /\ me.pc = "split" /\ m.pc \in {"split", "record"}
               /\ \/ /\ m.stack = Front(me.stack)
                     /\ \E v \in {"ok", "transient", "rejected"} :
                          /\ m.result = Verdict(me, top.ids, v)
                          /\ v = "rejected" => ~Closable(top.ids) /\ GiveUp(top)
                  \/ /\ m.stack = Front(me.stack) \o Halves(top)
                     /\ m.result = me.result /\ ~GiveUp(top)
               /\ dead' = dead
  BY <1>1, SubmitMove, SMTT(20)
<1>3. me.stack \in Seq(Batch) /\ me.stack # <<>> /\ \A k \in DOMAIN me.stack : Fits(me.stack[k])
  BY <1>2, Zenon DEF IInv, Stacked, Blamed, Sized
<1>4. MaxDepth \in Nat /\ Len(log) \in Nat
  BY BoundAssumption, LenProperties DEF IInv, TypeOK
<1>5. /\ top \in Batch /\ Fits(top)
      /\ \A k \in DOMAIN Front(me.stack) : Fits(Front(me.stack)[k])
      /\ ~GiveUp(top) => \A k \in DOMAIN (Front(me.stack) \o Halves(top)) :
                           Fits((Front(me.stack) \o Halves(top))[k])
  BY <1>1, <1>3, <1>4, StackFits, Zenon
<1>6. \A k \in DOMAIN m.stack : Fits(m.stack[k])
  BY <1>2, <1>5, Zenon
<1>7. Sized(m)
  BY <1>2, <1>6, Zenon DEF Sized
<1>8. ASSUME ~Closable(top.ids), GiveUp(top), NEW i \in ToSet(top.ids)
      PROVE  i \in Ids /\ TunnelOf(i) \in Bad \cup chain
  <2>1. PICK n \in Nat : n = Len(top.ids) /\ DOMAIN top.ids = 1 .. n /\ top.ids \in Seq(Ids)
    BY <1>5, LenProperties DEF Batch
  <2>2. n <= 1
    <3>1. CASE top.depth >= MaxDepth
      <4>1. top.depth \in Nat /\ top.depth <= MaxDepth /\ n <= Doubling[MaxDepth - top.depth]
        BY <1>5, <2>1 DEF Batch, Fits
      <4>2. MaxDepth - top.depth = 0
        BY <1>4, <3>1, <4>1, SMTT(20)
      <4> QED BY <4>1, <4>2, DoublingStep, Zenon
    <3> QED BY <1>8, <2>1, <3>1, SMTT(20) DEF GiveUp
  <2>3. PICK k \in 1 .. n : i = top.ids[k]
    BY <2>1 DEF ToSet
  <2>4. n = 1 /\ k = 1
    BY <2>2, <2>3
  <2>5. \E l \in 1 .. n : TunnelOf(top.ids[l]) \in Bad \cup chain
    BY <1>8, <2>1, <2>4, SMTT(20) DEF Closable
  <2> QED BY <2>1, <2>3, <2>4, <2>5, ElementOfSeq
<1>9. \A i \in Refused(m) : i \in Refused(me) \/ (i \in Ids /\ TunnelOf(i) \in Bad \cup chain)
  <2>1. CASE m.result = me.result
    BY <2>1, Zenon DEF Refused
  <2>2. ASSUME NEW v \in {"ok", "transient", "rejected"}, m.result = Verdict(me, top.ids, v),
               v = "rejected" => ~Closable(top.ids) /\ GiveUp(top)
        PROVE  \A i \in Refused(m) :
                 i \in Refused(me) \/ (i \in Ids /\ TunnelOf(i) \in Bad \cup chain)
    BY <1>8, <2>2, RefusedVerdict, Zenon
  <2> QED BY <1>2, <2>1, <2>2, Zenon
<1> HIDE DEF me
<1> QED BY <1>2, <1>7, <1>9, BlameKept, Zenon DEF me

\* The other steps of a worker, when every tunnel is a shared object and a batch is no
\* larger than MaxDepth rounds of halving can take apart.
LEMMA BlameWork ==
  ASSUME IInv, Blamed, OncePerClose, NEW w \in Workers, Work(w) \/ Abandon(w), Next,
         Missing = {}, BatchMax <= Doubling[MaxDepth]
  PROVE  Blamed'
<1> DEFINE me == worker[w]
<1>1. /\ me.work \in Seq(Nat) /\ me.claim \in Seq(Nat)
      /\ Len(me.work) \in Nat /\ Len(me.claim) \in Nat
      /\ BatchMax \in Nat /\ MaxDepth \in Nat /\ Sized(me)
  BY BoundAssumption, LenProperties, Zenon DEF IInv, WorkerInv, WorkerOK, Blamed
<1>2. CASE Claim(w) \/ AckAll(w) \/ Abandon(w)
  <2>1. PICK m : /\ worker' = [worker EXCEPT ![w] = m]
                 /\ m.work = <<>> /\ m.result = <<>> /\ m.pc \in {"idle", "check"}
                 /\ m.pc = "check" => Len(m.claim) \in Nat /\ Len(m.claim) <= BatchMax
                 /\ dead' = dead
    BY <1>2, ClearMove
  <2>2. Len(<<>>) = 0
    OBVIOUS
  <2>3. Sized(m)
    BY <1>1, <2>1, <2>2, SMTT(20) DEF Sized
  <2>4. Refused(m) = {}
    BY <2>1, SMTT(20) DEF Refused
  <2> QED BY <2>1, <2>3, <2>4, BlameKept, Zenon
<1>3. CASE Check(w)
  <2>1. PICK m : /\ worker' = [worker EXCEPT ![w] = m]
                 /\ me.pc = "check" /\ m.pc \in {"idle", "check", "resolve"}
                 /\ m.result = me.result /\ m.claim = Tail(me.claim)
                 /\ m.work \in {me.work, Append(me.work, Head(me.claim))}
                 /\ m.pc # "check" => m.claim = <<>>
                 /\ dead' = dead
    BY <1>3, CheckMove
  <2>2. me.claim # <<>>
    BY <2>1, Zenon DEF IInv, WorkerInv, WorkerOK, Claiming
  <2>3. Head(me.claim) \in Nat /\ Len(m.claim) = Len(me.claim) - 1 /\ Len(me.claim) >= 1
    BY <1>1, <2>1, <2>2, HeadTailProperties, EmptySeq, SMTT(20)
  <2>4. Len(m.work) \in Nat /\ Len(m.work) <= Len(me.work) + 1
    BY <1>1, <2>1, <2>3, AppendProperties, SMTT(20)
  <2>5. Len(me.claim) + Len(me.work) <= BatchMax
    BY <1>1, <2>1, Zenon DEF Sized
  <2>6. Sized(m)
    <3>1. PICK a \in Nat, b \in Nat, d \in Nat :
            a = Len(me.claim) /\ b = Len(me.work) /\ d = Len(m.work)
      BY <1>1, <2>4
    <3>2. Len(m.claim) = a - 1 /\ a >= 1
      BY <2>3, <3>1
    <3>3. d <= b + 1
      BY <2>4, <3>1
    <3>4. a + b <= BatchMax
      BY <2>5, <3>1, Zenon
    <3>5. (a - 1) + d <= BatchMax /\ d <= BatchMax
      BY <1>1, <3>2, <3>3, <3>4
    <3>6. Len(m.claim) + Len(m.work) <= BatchMax /\ Len(m.work) <= BatchMax
      BY <3>1, <3>2, <3>5, Zenon
    <3> QED BY <2>1, <3>6, Zenon DEF Sized
  <2>7. Refused(m) = Refused(me)
    BY <2>1 DEF Refused
  <2> QED BY <2>1, <2>6, <2>7, BlameKept, Zenon
<1>4. CASE Resolve(w)
  <2>1. PICK m : /\ worker' = [worker EXCEPT ![w] = m] /\ me.pc = "resolve"
                 /\ \/ /\ m.pc = "split" /\ m.result = me.result
                       /\ m.stack = <<[ids |-> me.work, depth |-> 0]>>
                    \/ /\ m.pc = "record"
                       /\ \E v \in {"transient", "rejected"} :
                            /\ m.result = Verdict(me, me.work, v)
                            /\ v = "rejected" => Missing # {}
                 /\ dead' = dead
    BY <1>4, ResolveMove, Zenon
  <2>2. CASE m.pc = "split" /\ m.result = me.result
             /\ m.stack = <<[ids |-> me.work, depth |-> 0]>>
    <3>1. Len(me.work) <= Doubling[MaxDepth]
      <4>1. Len(me.work) <= BatchMax
        BY <1>1, <2>1 DEF Sized
      <4>2. Doubling[MaxDepth] \in Nat
        BY <1>1, DoublingStep
      <4> QED BY <1>1, <4>1, <4>2
    <3>2. Fits([ids |-> me.work, depth |-> 0])
      BY <1>1, <3>1 DEF Fits
    <3>3. Sized(m)
      BY <2>2, <3>2 DEF Sized
    <3>4. Refused(m) = Refused(me)
      BY <2>2, Zenon DEF Refused
    <3> QED BY <2>1, <3>3, <3>4, BlameKept, Zenon
  <2>3. CASE m.pc = "record" /\ m.result = Verdict(me, me.work, "transient")
    <3>1. Sized(m)
      BY <2>3 DEF Sized
    <3>2. \A i \in Refused(m) : i \in Refused(me)
      BY <2>3, RefusedVerdict
    <3> QED BY <2>1, <3>1, <3>2, BlameKept, Zenon
  <2> QED BY <2>1, <2>2, <2>3
<1>5. CASE RecordClosed(w) \/ (Requeue(w) /\ worker' # [worker EXCEPT ![w] = Finish(me)])
  <2>1. PICK m : /\ worker' = [worker EXCEPT ![w] = m] /\ m.result = me.result
                 /\ m.pc \in {"publish", "store"} /\ dead' = dead
    BY <1>5, RecordMove
  <2>2. Sized(m) /\ Refused(m) = Refused(me)
    BY <2>1, Zenon DEF Sized, Refused
  <2> QED BY <2>1, <2>2, BlameKept, Zenon
<1>6. CASE Submit(w)
  BY <1>6, BlameSubmit
<1>7. CASE RecordRejected(w) \/ Publish(w) \/ StoreAgain(w)
           \/ (Requeue(w) /\ worker' = [worker EXCEPT ![w] = Finish(me)])
  <2>1. /\ me.pc \in {"record", "publish", "store"}
        /\ worker' = [worker EXCEPT ![w] = Finish(me)]
        /\ \/ dead' = dead
           \/ /\ dead' = dead \cup {TunnelOf(Head(me.work))}
              /\ me.result[Head(me.work)] = "rejected"
    BY <1>7 DEF RecordRejected, Publish, StoreAgain, Requeue
  <2>2. /\ me.work # <<>> /\ ToSet(me.work) \subseteq DOMAIN me.result
    BY <2>1, FinishMove, Zenon
  <2>3. PICK m : /\ worker' = [worker EXCEPT ![w] = m] /\ m.result = me.result
                 /\ m.pc \in {"record", "ack"}
    BY <2>1, FinishMove, Zenon
  <2>4. Sized(m) /\ Refused(m) = Refused(me)
    BY <2>3, Zenon DEF Sized, Refused
  <2>5. Head(me.work) \in ToSet(me.work)
    BY <1>1, <2>2, HeadTail
  <2>6. \A t \in dead' : t \in dead \/ t \in Bad \cup chain
    BY <2>1, <2>2, <2>5, SMTT(20) DEF Blamed, Refused
  <2> QED BY <2>3, <2>4, <2>6, BlameKept, Zenon
<1> QED BY <1>2, <1>3, <1>4, <1>5, <1>6, <1>7, Zenon DEF Work

\* Blamed is inductive under those two hypotheses.
LEMMA NextBlamed ==
  ASSUME IInv, OncePerClose, Blamed, [Next]_vars, Missing = {}, BatchMax <= Doubling[MaxDepth]
  PROVE  Blamed'
<1>1. CASE Next /\ \E w \in Workers : Work(w) \/ Abandon(w)
  BY <1>1, BlameWork
<1>2. CASE Next /\ worker' = worker /\ dead' = dead
  <2>1. CASE Workers = {}
    BY <1>2, <2>1, NextGrows, Zenon DEF Blamed
  <2>2. CASE Workers # {}
    <3>1. PICK w \in Workers : TRUE
      BY <2>2
    <3>2. worker' = [worker EXCEPT ![w] = worker[w]]
      BY <1>2 DEF IInv, WorkerInv
    <3> QED BY <1>2, <3>2, BlameKept, Zenon DEF Blamed
  <2> QED BY <2>1, <2>2
<1>3. CASE UNCHANGED vars
  BY <1>3 DEF vars, Blamed, TunnelOf
<1>4. Next => \/ \E w \in Workers : Work(w) \/ Abandon(w)
              \/ worker' = worker /\ dead' = dead
  BY DEF Next, Settle, Store, StoreFails, CloseElsewhere, Index, RestartIndexer
<1> QED BY <1>1, <1>2, <1>3, <1>4, Zenon

\* Idle workers have refused nothing.
LEMMA InitBlamed == Init => Blamed
<1> SUFFICES ASSUME Init PROVE Blamed
  OBVIOUS
<1>1. \A w \in Workers : worker[w] = Idle
  BY DEF Init
<1>2. Refused(Idle) = {} /\ Sized(Idle)
  BY DEF Idle, Refused, Sized
<1> QED BY <1>1, <1>2 DEF Init, Blamed

\* One bad settlement does not fail its batch-mates: with a batch no larger than two to the
\* MAX_SETTLE_SPLIT_DEPTH and tunnels that are all shared objects, only settlements that the
\* contract itself refuses, or whose tunnel something else closed, are reported as failed.
\* The first hypothesis relates two settings of the backend that nothing else ties together;
\* without the second one the resolve step rejects whole batches.
THEOREM IsolatedHolds ==
  ASSUME Missing = {}, BatchMax <= Doubling[MaxDepth]
  PROVE  Spec => []Isolated
<1>1. Blamed => Isolated
  BY DEF Blamed, Isolated
<1>2. IInv /\ OncePerClose /\ Blamed /\ [Next]_vars => Blamed'
  BY NextBlamed
<1> QED BY <1>1, <1>2, InitIInv, NextIInv, InitOnce, NextOnce, InitBlamed, PTL DEF Spec
=============================================================================
