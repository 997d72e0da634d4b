------------------------ MODULE FirestoreWritesProofs ------------------------
(* Proofs about FirestoreWrites for every set of users and of documents and  *)
(* for every bound.                                                          *)
EXTENDS FirestoreWrites, SequenceTheorems, WellFoundedInduction, TLAPS

-----------------------------------------------------------------------------
(* Facts about sequences, maxima and seeks                                   *)

\* A set of numbers with a bound has a largest.
LEMMA MaxProperties ==
  ASSUME NEW S \in SUBSET Nat, NEW b \in Nat, S # {}, \A x \in S : x <= b
  PROVE  Max(S) \in S /\ \A y \in S : y <= Max(S)
<1> DEFINE T == {b - x : x \in S}
<1>0. \A x \in S : x \in Nat /\ x <= b /\ b - x \in Nat
  OBVIOUS
<1>1. T \subseteq Nat /\ T # {}
  BY <1>0
<1>2. PICK t \in T : \A y \in T : ~ (<<y, t>> \in OpToRel(<, Nat))
  BY <1>1, NatLessThanWellFounded, WFMin
<1>3. PICK x \in S : t = b - x
  BY <1>2
<1>4. \A y \in S : y <= x
  <2> SUFFICES ASSUME NEW y \in S, x < y PROVE FALSE
    OBVIOUS
  <2>1. b - y \in T /\ b - y \in Nat /\ t \in Nat /\ b - y < t
    BY <1>1, <1>3
  <2> QED
    BY <1>2, <2>1 DEF OpToRel
<1> QED
  BY <1>4 DEF Max

\* The larger of two.
LEMMA MaxOfTwo ==
  ASSUME NEW m \in Nat, NEW n \in Nat
  PROVE  Max({m, n}) \in Nat /\ m <= Max({m, n}) /\ n <= Max({m, n})
<1>1. \E x \in {m, n} : \A y \in {m, n} : x >= y
  OBVIOUS
<1> QED
  BY <1>1 DEF Max

\* The smaller of two.
LEMMA MinOfTwo ==
  ASSUME NEW m \in Nat, NEW n \in Nat
  PROVE  Min({m, n}) = IF m <= n THEN m ELSE n
<1>1. \E x \in {m, n} : \A y \in {m, n} : x =< y
  OBVIOUS
<1> QED
  BY <1>1 DEF Min

-----------------------------------------------------------------------------
(* The inductive invariant                                                   *)

Batch == [id : Nat, w : Writes]
WriteTask == [kind : {"write"}, w : Writes]
UserTask == [kind : {"user"}, user : Users]
ResumeTask == [kind : {"resume"}, live : BOOLEAN, user : Users]
Task == WriteTask \cup UserTask \cup ResumeTask
Ask == [live : BOOLEAN, fresh : BOOLEAN, user : Users]
Reply == [kind : {"hello", "ok", "refused"}, w : Writes \cup {NoWrite}, version : Nat]

ClientType ==
  [user : Users, worker : Seq(Task), asks : SUBSET Ask, state : StreamStates,
   idle : BOOLEAN, handshake : BOOLEAN, name : Users, pipeline : Seq(Batch),
   sent : Seq(Writes \cup {NoWrite}), answers : Seq(Reply),
   callbacks : SUBSET [user : Users, id : Nat, w : Writes], nextId : Nat]

\* What TypeOK says, with the records of the client as wholes.
Typed ==
  /\ auth \in Users /\ signIns \in 0..MaxSignIns /\ faults \in 0..MaxFaults
  /\ writes \in Seq([user : Users, key : Keys]) /\ Len(writes) <= MaxWrites
  /\ queue \in [Users -> Seq(Batch)]
  /\ cache \in [Keys -> Nat] /\ seen \in 0..Len(commits)
  /\ commits \in Seq([w : Writes, name : Users]) /\ refused \in SUBSET Writes
  /\ settled \in [Writes -> {"none", "ok", "error"}]
  /\ told \in [Writes -> {"none", "ok", "error"}]
  /\ client \in ClientType

IsWrite(t) == t.kind = "write"
IsUser(t) == t.kind = "user"
IsLive(t) == t.kind = "resume" /\ t.live

\* User x is the one who is in effect when the worker reaches position i.
InEffect(c, i, x) ==
  /\ (\A j \in 1..Len(c.worker) : j < i => ~IsUser(c.worker[j])) => x = c.user
  /\ \A j \in 1..Len(c.worker) :
       /\ j < i /\ IsUser(c.worker[j])
       /\ \A k \in 1..Len(c.worker) : j < k /\ k < i => ~IsUser(c.worker[k])
       => x = c.worker[j].user

\* A queue of a user is in the order of its ids and of its writes.
InOrder(q) ==
  \A i, j \in 1..Len(q) : i < j => q[i].id < q[j].id /\ q[i].w < q[j].w

QueueInv(c) ==
  \A u \in Users :
    /\ InOrder(queue[u])
    /\ \A i \in 1..Len(queue[u]) :
         /\ 1 <= queue[u][i].id /\ queue[u][i].id < c.nextId
         /\ queue[u][i].w <= Len(writes)
         /\ writes[queue[u][i].w].user = u
         /\ settled[queue[u][i].w] = "none"

\* The calls that wait for the worker are later than what it has seen.
TasksInv(c) ==
  /\ 1 <= c.nextId /\ c.nextId <= Len(writes) + 1
  /\ \A w \in Writes : settled[w] # "none" => w <= Len(writes)
  /\ \A i \in 1..Len(c.worker) :
       IsWrite(c.worker[i]) =>
         /\ c.worker[i].w <= Len(writes)
         /\ c.nextId <= c.worker[i].w
         /\ \A w \in Writes : settled[w] # "none" => w < c.worker[i].w
         /\ \A u \in Users : \A j \in 1..Len(queue[u]) : queue[u][j].w < c.worker[i].w
         /\ \A j \in 1..Len(c.worker) :
              j < i /\ IsWrite(c.worker[j]) => c.worker[j].w < c.worker[i].w

\* Each call and each token that still counts is of the user in effect.
Effects(c) ==
  /\ InEffect(c, Len(c.worker) + 1, auth)
  /\ \A a \in c.asks : a.fresh => a.user = auth
  /\ \A i \in 1..Len(c.worker) :
       /\ IsWrite(c.worker[i]) => InEffect(c, i, writes[c.worker[i].w].user)
       /\ IsLive(c.worker[i]) => InEffect(c, i, c.worker[i].user)

\* An open stream bears the name of the user.
NameInv(c) == c.state = "Open" => c.name = c.user

\* There is one token that counts, at most, and only while the stream is starting.
OneToken(c) ==
  /\ \A a \in c.asks : a.live => c.state = "Starting"
  /\ \A a, b \in c.asks : a.live /\ b.live => a = b
  /\ \A i \in 1..Len(c.worker) : IsLive(c.worker[i]) =>
       /\ c.state = "Starting"
       /\ \A a \in c.asks : ~a.live
       /\ \A j \in 1..Len(c.worker) : IsLive(c.worker[j]) => i = j

\* The stream has something under way only while it is open.
Quiet(c) == c.state # "Open" => c.sent = <<>> /\ c.answers = <<>> /\ ~c.idle

\* It is opened for the sake of a write, which is still there when it is open.
Busy(c) ==
  c.state \in {"Starting", "Backoff"} \/ (c.state = "Open" /\ ~c.handshake) => c.pipeline # <<>>

\* The timer runs only if there is no write.
Idle(c) == c.idle => c.pipeline = <<>>

\* The handshake is forgotten when the stream is closed.
Greeted(c) == c.handshake => c.state = "Open"

\* Before the handshake is over, it is all that is under way.
Greeting(c) ==
  \/ c.sent = <<NoWrite>> /\ c.answers = <<>>
  \/ /\ c.sent = <<>> /\ Len(c.answers) = 1
     /\ c.answers[1].kind # "ok" /\ c.answers[1].w = NoWrite

\* After it, answers and requests are the writes of the pipeline, one by one.
Wire(c) ==
  /\ Len(c.answers) <= Len(c.pipeline)
  /\ \A i \in 1..Len(c.answers) :
       c.answers[i].kind # "hello" /\ c.answers[i].w = c.pipeline[i].w
  /\ (\A i \in 1..Len(c.answers) : c.answers[i].kind # "refused") =>
       /\ Len(c.answers) + Len(c.sent) = Len(c.pipeline)
       /\ \A i \in 1..Len(c.sent) : c.sent[i] = c.pipeline[Len(c.answers) + i].w

WireInv(c) == c.state = "Open" => IF c.handshake THEN Wire(c) ELSE Greeting(c)

\* All that concerns one connection.
Conn(c) == Quiet(c) /\ Busy(c) /\ Idle(c) /\ OneToken(c) /\ WireInv(c)

\* What an answer says of a write is so.
AnswersInv(c) ==
  \A i \in 1..Len(c.answers) :
    LET a == c.answers[i]
    IN /\ a.kind = "ok" => a.version \in 1..Len(commits) /\ commits[a.version].w = a.w
       /\ a.kind = "refused" /\ a.w # NoWrite => a.w \in refused

CommitsInv ==
  \A n \in 1..Len(commits) :
    commits[n].w <= Len(writes) /\ commits[n].name = writes[commits[n].w].user

\* A completion in memory is for a batch of a queue, see CallbacksMatch.
CallbacksIn(c) == \A cb \in c.callbacks : [id |-> cb.id, w |-> cb.w] \in ToSet(queue[cb.user])

\* All that concerns calls and batches.
Calls(c) == QueueInv(c) /\ TasksInv(c) /\ Effects(c) /\ CallbacksIn(c)

IInv ==
  /\ Typed
  /\ Calls(client)
  /\ Conn(client)
  /\ Greeted(client)
  /\ NameInv(client)
  /\ PipelineIsFront
  /\ AnswersInv(client)
  /\ CommitsInv
  /\ TruthfulAnswers
  /\ ReadYourWrites

-----------------------------------------------------------------------------
(* The pipeline is filled from the queue                                     *)

\* The ids of a queue start at 1 and it is in order.
IsQueue(q) == q \in Seq(Batch) /\ InOrder(q) /\ \A i \in 1..Len(q) : 1 <= q[i].id

Beginning(q) == SubSeq(q, 1, Min({Len(q), MaxPendingWrites}))

\* What a queue and its elements are.
LEMMA QueueFacts ==
  ASSUME NEW q, IsQueue(q)
  PROVE  /\ q \in Seq(Batch) /\ Len(q) \in Nat /\ DOMAIN q = 1..Len(q)
         /\ \A i \in 1..Len(q) : q[i] \in Batch
         /\ \A i \in 1..Len(q) : q[i].id \in Nat /\ q[i].w \in Writes /\ 1 <= q[i].id
         /\ \A i, j \in 1..Len(q) : i < j => q[i].id < q[j].id
         /\ q # <<>> => 1 <= Len(q)
<1>1. q \in Seq(Batch) /\ \A i \in 1..Len(q) : 1 <= q[i].id
  BY DEF IsQueue
<1>2. Len(q) \in Nat /\ DOMAIN q = 1..Len(q) /\ \A i \in 1..Len(q) : q[i] \in Batch
  BY <1>1, LenProperties, ElementOfSeq
<1>3. \A i \in 1..Len(q) : q[i].id \in Nat /\ q[i].w \in Writes
  BY <1>2 DEF Batch
<1>4. q # <<>> => 1 <= Len(q)
  BY <1>1, EmptySeq
<1>5. \A i, j \in 1..Len(q) : i < j => q[i].id < q[j].id
  BY DEF IsQueue, InOrder
<1> QED
  BY <1>1, <1>2, <1>3, <1>4, <1>5

\* The first elements of a sequence.
LEMMA FirstElements ==
  ASSUME NEW S, NEW q \in Seq(S), NEW n \in 0..Len(q)
  PROVE  /\ SubSeq(q, 1, n) \in Seq(S)
         /\ Len(SubSeq(q, 1, n)) = n
         /\ \A i \in 1..n : SubSeq(q, 1, n)[i] = q[i]
<1>1. \A i \in 1..n : q[i] \in S
  OBVIOUS
<1>2. n \in Int /\ (1 <= n => n - 1 + 1 = n) /\ (~(1 <= n) => n = 0)
  OBVIOUS
<1> QED
  BY <1>1, <1>2, SubSeqProperties

\* The elements after the first ones, and both together.
LEMMA MoreElements ==
  ASSUME NEW S, NEW q \in Seq(S), NEW n \in 0..Len(q), NEW m \in n..Len(q)
  PROVE  /\ SubSeq(q, n + 1, m) \in Seq(S)
         /\ Len(SubSeq(q, n + 1, m)) = m - n
         /\ \A i \in 1..(m - n) : SubSeq(q, n + 1, m)[i] = q[n + i]
         /\ SubSeq(q, 1, n) \o SubSeq(q, n + 1, m) = SubSeq(q, 1, m)
<1>0. Len(q) \in Nat /\ n \in Nat /\ m \in Nat /\ n <= m /\ m <= Len(q)
  OBVIOUS
<1>1. \A i \in (n + 1)..m : q[i] \in S
  BY <1>0
<1>2. /\ SubSeq(q, n + 1, m) \in Seq(S)
      /\ Len(SubSeq(q, n + 1, m)) = IF n + 1 <= m THEN m - (n + 1) + 1 ELSE 0
      /\ \A i \in 1..(m - (n + 1) + 1) : SubSeq(q, n + 1, m)[i] = q[(n + 1) + i - 1]
  BY <1>0, <1>1, SubSeqProperties
<1>3. SubSeq(q, 1, n) \o SubSeq(q, n + 1, m) = SubSeq(q, 1, m)
  <2>1. 1 \in 1..(Len(q) + 1) /\ n \in (1 - 1)..Len(q)
    BY <1>0
  <2> QED
    BY <2>1, ConcatAdjacentSubSeq
<1>4. (IF n + 1 <= m THEN m - (n + 1) + 1 ELSE 0) = m - n /\ m - (n + 1) + 1 = m - n
  BY <1>0
<1>5. \A i \in 1..(m - n) : SubSeq(q, n + 1, m)[i] = q[n + i]
  BY <1>0, <1>2, <1>4
<1> QED
  BY <1>2, <1>3, <1>4, <1>5

\* A seek beyond the id of a batch lands on the next one.
LEMMA SeekAfter ==
  ASSUME NEW q, IsQueue(q), NEW n \in 0..Len(q)
  PROVE  Seek(q, (IF n = 0 THEN 0 ELSE q[n].id) + 1) = n + 1
<1> DEFINE id == (IF n = 0 THEN 0 ELSE q[n].id) + 1
<1>0. /\ Len(q) \in Nat /\ n \in Nat
      /\ \A i \in 1..Len(q) : q[i].id \in Nat /\ 1 <= q[i].id
      /\ \A i, j \in 1..Len(q) : i < j => q[i].id < q[j].id
  BY QueueFacts
<1>1. \A i \in 1..n : q[i].id < id
  <2> TAKE i \in 1..n
  <2>1. i = n \/ q[i].id < q[n].id
    BY <1>0
  <2> QED
    BY <1>0, <2>1
<1>2. \A i \in 1..Len(q) : n < i => q[i].id >= id
  <2> TAKE i \in 1..Len(q)
  <2> HAVE n < i
  <2>1. n = 0 \/ q[n].id < q[i].id
    BY <1>0
  <2> QED
    BY <1>0, <2>1
<1>3. id \in Nat
  BY <1>0
<1> HIDE DEF id
<1>4. /\ n + 1 \in 1..(Len(q) + 1)
      /\ n + 1 <= Len(q) => q[n + 1].id >= id
      /\ \A j \in 1..((n + 1) - 1) : q[j].id < id
  BY <1>0, <1>1, <1>2
<1>5. ASSUME NEW i \in 1..(Len(q) + 1),
             i <= Len(q) => q[i].id >= id,
             \A j \in 1..(i - 1) : q[j].id < id
      PROVE  i = n + 1
  <2>1. CASE i <= n
    <3>1. i \in 1..n /\ i \in 1..Len(q)
      BY <1>0, <2>1
    <3>2. q[i].id < id /\ q[i].id >= id /\ q[i].id \in Nat
      BY <1>0, <1>1, <1>5, <3>1
    <3> QED
      BY <1>3, <3>2
  <2>2. CASE n + 1 < i
    <3>1. n + 1 \in 1..(i - 1) /\ n + 1 \in 1..Len(q)
      BY <1>0, <2>2
    <3>2. q[n + 1].id < id /\ q[n + 1].id >= id /\ q[n + 1].id \in Nat
      BY <1>0, <1>2, <1>5, <3>1
    <3> QED
      BY <1>3, <3>2
  <2> QED
    BY <1>0, <2>1, <2>2
<1>6. Seek(q, id) = n + 1
  BY <1>4, <1>5 DEF Seek
<1> QED
  BY <1>6 DEF id

\* A seek for the first batch of a queue finds it.
LEMMA SeekFirst ==
  ASSUME NEW q, IsQueue(q), q # <<>>
  PROVE  Seek(q, q[1].id) = 1
<1>0. Len(q) \in Nat /\ 1 <= Len(q) /\ 1 \in 1..Len(q) /\ q[1].id \in Nat
  BY QueueFacts
<1>1. ASSUME NEW i \in 1..(Len(q) + 1), \A j \in 1..(i - 1) : q[j].id < q[1].id
      PROVE  i = 1
  <2> SUFFICES ASSUME 1 < i PROVE FALSE
    OBVIOUS
  <2>1. 1 \in 1..(i - 1)
    OBVIOUS
  <2>2. q[1].id < q[1].id
    BY <1>1, <2>1
  <2> QED
    BY <1>0, <2>2
<1>2. 1 \in 1..(Len(q) + 1) /\ q[1].id >= q[1].id /\ 1..(1 - 1) = {}
  BY <1>0
<1> QED
  BY <1>1, <1>2 DEF Seek

\* The next batches are the ones that follow in the queue, as many as have room.
LEMMA NextBatches ==
  ASSUME NEW q, IsQueue(q), NEW n \in 0..Len(q), NEW room \in Nat
  PROVE  NextMutationBatches(q, IF n = 0 THEN 0 ELSE q[n].id, room)
           = SubSeq(q, n + 1, Min({Len(q), n + room}))
<1> DEFINE rest == SubSeq(q, n + 1, Len(q))
           m == Min({Len(q), n + room})
<1>0. Len(q) \in Nat /\ n \in Nat /\ n <= Len(q) /\ q \in Seq(Batch)
  BY DEF IsQueue
<1>1. m = IF Len(q) <= n + room THEN Len(q) ELSE n + room
  BY <1>0, MinOfTwo
<1>2. rest \in Seq(Batch) /\ Len(rest) = Len(q) - n
  <2>1. \A i \in (n + 1)..Len(q) : q[i] \in Batch
    BY <1>0, QueueFacts
  <2>2. rest \in Seq(Batch) /\ Len(rest) = IF n + 1 <= Len(q) THEN Len(q) - (n + 1) + 1 ELSE 0
    BY <1>0, <2>1, SubSeqProperties
  <2> QED
    BY <1>0, <2>2
<1>3. ASSUME Len(rest) <= room
      PROVE  rest = SubSeq(q, n + 1, m)
  <2>1. m = Len(q)
    <3>1. Len(q) - n <= room
      BY <1>2, <1>3
    <3> HIDE DEF rest, m
    <3>2. Len(q) <= n + room
      BY <1>0, <3>1
    <3> QED
      BY <1>1, <3>2
  <2> QED
    BY <2>1
<1>4. ASSUME ~(Len(rest) <= room)
      PROVE  SubSeq(rest, 1, room) = SubSeq(q, n + 1, m)
  <2>1. m = n + room /\ n + room < Len(q)
    BY <1>0, <1>1, <1>2, <1>4
  <2>2. CASE room = 0
    <3>1. SubSeq(rest, 1, room) = <<>>
      BY <2>2, SubSeqEmpty
    <3>2. SubSeq(q, n + 1, m) = <<>>
      BY <1>0, <2>1, <2>2, SubSeqEmpty
    <3> QED
      BY <3>1, <3>2
  <2>3. CASE room # 0
    <3>1. /\ n + 1 \in 1..Len(q) /\ Len(q) \in 1..Len(q)
          /\ 1 \in 1..(Len(q) - (n + 1) + 1) /\ room \in 1..(Len(q) - (n + 1) + 1)
      BY <1>0, <2>1, <2>3
    <3>2. SubSeq(rest, 1, room) = SubSeq(q, (n + 1) + 1 - 1, (n + 1) + room - 1)
      BY <1>0, <3>1, SubSeqOfSubSeq
    <3>3. (n + 1) + 1 - 1 = n + 1 /\ (n + 1) + room - 1 = m
      BY <1>0, <2>1
    <3> QED
      BY <3>2, <3>3
  <2> QED
    BY <2>2, <2>3
<1>5. Seek(q, (IF n = 0 THEN 0 ELSE q[n].id) + 1) = n + 1
  BY SeekAfter
<1>6. NextMutationBatches(q, IF n = 0 THEN 0 ELSE q[n].id, room)
        = IF Len(rest) <= room THEN rest ELSE SubSeq(rest, 1, room)
  BY <1>5 DEF NextMutationBatches
<1> QED
  BY <1>3, <1>4, <1>6

\* The writes of batches.
LEMMA WritesOfBatches ==
  ASSUME NEW b \in Seq(Batch)
  PROVE  /\ WritesOf(b) \in Seq(Writes)
         /\ Len(WritesOf(b)) = Len(b)
         /\ \A i \in 1..Len(b) : WritesOf(b)[i] = b[i].w
         /\ WritesOf(b) = <<>> <=> b = <<>>
<1>0. \A i \in 1..Len(b) : b[i] \in Batch
  BY ElementOfSeq
<1>1. \A i \in 1..Len(b) : b[i].w \in Writes
  BY <1>0 DEF Batch
<1>2. Len(b) \in Nat
  OBVIOUS
<1>3. WritesOf(b) \in Seq(Writes) /\ Len(WritesOf(b)) = Len(b)
  BY <1>1, <1>2 DEF WritesOf
<1>4. WritesOf(b) = <<>> <=> b = <<>>
  BY <1>2, <1>3, EmptySeq
<1> QED
  BY <1>3, <1>4 DEF WritesOf

\* What the stream and the pipeline leave alone.
SameCalls(c, d) ==
  /\ d.user = c.user /\ d.name = c.name
  /\ d.callbacks = c.callbacks /\ d.nextId = c.nextId

\* What filling the pipeline makes of a client whose pipeline is the first n of queue q.
FillOf(c, q, n, d) ==
  /\ d \in ClientType
  /\ SameCalls(c, d) /\ d.worker = c.worker
  /\ d.handshake = c.handshake /\ d.answers = c.answers
  /\ d.pipeline = Beginning(q)
  /\ n <= Len(Beginning(q))
  /\ d.sent = IF c.state = "Open" /\ c.handshake
              THEN c.sent \o WritesOf(SubSeq(q, n + 1, Len(Beginning(q)))) ELSE c.sent
  /\ d.state = IF IsStarted(c) \/ Beginning(q) = <<>> THEN c.state
               ELSE IF c.state = "Error" THEN "Backoff" ELSE "Starting"
  /\ d.asks = IF IsStarted(c) \/ Beginning(q) = <<>> \/ c.state = "Error" THEN c.asks
              ELSE c.asks \cup {[live |-> TRUE, fresh |-> TRUE, user |-> auth]}
  /\ d.idle => \/ c.idle /\ (n < Len(Beginning(q)) => ~(c.state = "Open" /\ c.handshake))
               \/ c.state = "Open" /\ Beginning(q) = <<>>

\* As much of a queue as has room.
LEMMA BeginningProperties ==
  ASSUME NEW q, IsQueue(q)
  PROVE  /\ Beginning(q) \in Seq(Batch)
         /\ Len(Beginning(q)) = IF Len(q) <= MaxPendingWrites THEN Len(q) ELSE MaxPendingWrites
         /\ \A i \in 1..Len(Beginning(q)) : Beginning(q)[i] = q[i]
         /\ Beginning(q) = <<>> <=> q = <<>>
<1>1. Len(q) \in Nat /\ MaxPendingWrites \in Nat \ {0} /\ q \in Seq(Batch)
  BY QueueFacts, BoundsAreSizes
<1>2. Min({Len(q), MaxPendingWrites}) = IF Len(q) <= MaxPendingWrites THEN Len(q) ELSE MaxPendingWrites
  BY <1>1, MinOfTwo
<1> DEFINE m == Min({Len(q), MaxPendingWrites})
<1>3. m \in 0..Len(q)
  BY <1>1, <1>2
<1> HIDE DEF m
<1>4. /\ SubSeq(q, 1, m) \in Seq(Batch) /\ Len(SubSeq(q, 1, m)) = m
      /\ \A i \in 1..m : SubSeq(q, 1, m)[i] = q[i]
  BY <1>1, <1>3, FirstElements
<1>5. Beginning(q) = SubSeq(q, 1, m)
  BY DEF Beginning, m
<1>6. m = IF Len(q) <= MaxPendingWrites THEN Len(q) ELSE MaxPendingWrites
  BY <1>2 DEF m
<1>7. Beginning(q) = <<>> <=> Len(Beginning(q)) = 0
  BY <1>4, <1>5, EmptySeq
<1>8. q = <<>> <=> Len(q) = 0
  BY <1>1, EmptySeq
<1>9. m = 0 <=> Len(q) = 0
  BY <1>1, <1>6
<1> QED
  BY <1>4, <1>5, <1>6, <1>7, <1>8, <1>9

\* Filling keeps the client in order, and leaves all but the pipeline and the connection alone.
LEMMA FillProperties ==
  ASSUME NEW c \in ClientType, NEW q, IsQueue(q), auth \in Users,
         NEW n \in 0..Len(q), n <= MaxPendingWrites, c.pipeline = SubSeq(q, 1, n)
  PROVE  FillOf(c, q, n, FillWritePipeline(c, q))
<1> DEFINE m == Len(Beginning(q))
           added == SubSeq(q, n + 1, m)
           b == [c EXCEPT !.pipeline = @ \o added]
           w == WriteMutations(b, added)
           open == c.state = "Open" /\ c.handshake
<1>0. Len(q) \in Nat /\ n \in Nat /\ MaxPendingWrites \in Nat \ {0} /\ q \in Seq(Batch)
  BY QueueFacts, BoundsAreSizes
<1>1. /\ c.pipeline \in Seq(Batch) /\ Len(c.pipeline) = n
      /\ \A i \in 1..n : c.pipeline[i] = q[i]
  BY <1>0, FirstElements
<1>2. /\ m \in n..Len(q) /\ Beginning(q) \in Seq(Batch) /\ Beginning(q) = SubSeq(q, 1, m)
      /\ m = Min({Len(q), MaxPendingWrites})
  <2>1. /\ Beginning(q) \in Seq(Batch)
        /\ m = IF Len(q) <= MaxPendingWrites THEN Len(q) ELSE MaxPendingWrites
    BY BeginningProperties
  <2>2. m \in n..Len(q)
    BY <1>0, <2>1
  <2>3. m = Min({Len(q), MaxPendingWrites})
    BY <1>0, <2>1, MinOfTwo
  <2>4. Beginning(q) = SubSeq(q, 1, m)
    BY <2>3 DEF Beginning
  <2> QED
    BY <2>1, <2>2, <2>3, <2>4
<1>3. LastBatchIdRetrieved(c) = IF n = 0 THEN 0 ELSE q[n].id
  <2>1. c.pipeline = <<>> <=> n = 0
    BY <1>1, EmptySeq
  <2>2. n # 0 => Last(c.pipeline) = q[n]
    BY <1>0, <1>1 DEF Last
  <2> QED
    BY <2>1, <2>2 DEF LastBatchIdRetrieved
<1>4. NextMutationBatches(q, LastBatchIdRetrieved(c), MaxPendingWrites - Len(c.pipeline)) = added
  <2> DEFINE room == MaxPendingWrites - Len(c.pipeline)
  <2>1. room \in Nat /\ n + room = MaxPendingWrites
    BY <1>0, <1>1
  <2> HIDE DEF m, room
  <2>2. NextMutationBatches(q, IF n = 0 THEN 0 ELSE q[n].id, room)
          = SubSeq(q, n + 1, Min({Len(q), n + room}))
    BY <2>1, NextBatches
  <2>3. NextMutationBatches(q, LastBatchIdRetrieved(c), room) = added
    BY <1>2, <1>3, <2>1, <2>2
  <2> QED
    BY <2>3 DEF room
<1>5. FillWritePipeline(c, q)
        = IF c.pipeline = <<>> /\ q = <<>> THEN MarkIdle(c) ELSE StartIfNeeded(w)
  BY <1>4 DEF FillWritePipeline
<1> HIDE DEF m
<1>6. /\ c.pipeline \o added = Beginning(q)
      /\ added \in Seq(Batch) /\ Len(added) = m - n
  <2>1. /\ SubSeq(q, 1, n) \o SubSeq(q, n + 1, m) = SubSeq(q, 1, m)
        /\ SubSeq(q, n + 1, m) \in Seq(Batch) /\ Len(SubSeq(q, n + 1, m)) = m - n
    <3>1. q \in Seq(Batch) /\ n \in 0..Len(q) /\ m \in n..Len(q)
      BY <1>0, <1>2
    <3> QED
      BY <3>1, MoreElements
  <2> QED
    BY <1>2, <2>1
<1> HIDE DEF added
<1>8. b = [c EXCEPT !.pipeline = Beginning(q)]
  BY <1>6
<1>9. /\ b \in ClientType /\ SameCalls(c, b) /\ b.worker = c.worker
      /\ b.handshake = c.handshake /\ b.answers = c.answers /\ b.pipeline = Beginning(q)
      /\ b.sent = c.sent /\ b.state = c.state /\ b.asks = c.asks /\ b.idle = c.idle
  BY <1>2, <1>8 DEF ClientType, SameCalls
<1> HIDE DEF b
<1>10. /\ w \in ClientType /\ SameCalls(c, w) /\ w.worker = c.worker
       /\ w.handshake = c.handshake /\ w.answers = c.answers /\ w.pipeline = Beginning(q)
       /\ w.sent = IF open THEN c.sent \o WritesOf(added) ELSE c.sent
       /\ w.state = c.state /\ w.asks = c.asks
       /\ w.idle = IF open /\ added # <<>> THEN FALSE ELSE c.idle
  <2>1. CASE ~open
    BY <1>9, <2>1 DEF WriteMutations, IsOpen
  <2>2. CASE open /\ added = <<>>
    <3>1. WritesOf(added) = <<>> /\ c.sent \in Seq(Writes \cup {NoWrite})
      BY <1>6, <2>2, WritesOfBatches DEF ClientType
    <3>2. w = b
      BY <1>9, <2>2, <3>1 DEF WriteMutations, Send, IsOpen
    <3> QED
      BY <1>9, <2>2, <3>1, <3>2, ConcatEmptySeq
  <2>3. CASE open /\ added # <<>>
    <3>1. WritesOf(added) # <<>> /\ WritesOf(added) \in Seq(Writes \cup {NoWrite})
      BY <1>6, <2>3, WritesOfBatches, SeqMonotonic
    <3>2. w = [b EXCEPT !.sent = @ \o WritesOf(added), !.idle = FALSE]
      BY <1>9, <2>3, <3>1 DEF WriteMutations, Send, IsOpen, Wrote
    <3>3. b.sent \o WritesOf(added) \in Seq(Writes \cup {NoWrite})
      BY <1>9, <3>1, ConcatProperties DEF ClientType
    <3> DEFINE sent == b.sent \o WritesOf(added)
    <3>4. w = [b EXCEPT !.sent = sent, !.idle = FALSE]
      BY <3>2
    <3>5. sent \in Seq(Writes \cup {NoWrite}) /\ sent = c.sent \o WritesOf(added)
      BY <1>9, <3>3
    <3> HIDE DEF sent, w
    <3>6. /\ w \in ClientType /\ w.worker = b.worker
          /\ w.handshake = b.handshake /\ w.answers = b.answers /\ w.pipeline = b.pipeline
          /\ w.sent = sent /\ w.state = b.state /\ w.asks = b.asks /\ w.idle = FALSE
      BY <1>9, <3>4, <3>5 DEF ClientType
    <3>7. SameCalls(b, w)
      BY <1>9, <3>4 DEF ClientType, SameCalls
    <3> QED
      BY <1>9, <2>3, <3>5, <3>6, <3>7 DEF SameCalls
  <2> QED
    BY <2>1, <2>2, <2>3
<1> HIDE DEF w
<1> DEFINE d == IF c.pipeline = <<>> /\ q = <<>> THEN MarkIdle(c) ELSE StartIfNeeded(w)
<1>11. (c.pipeline = <<>> /\ q = <<>>) <=> Beginning(q) = <<>>
  BY <1>0, <1>1, BeginningProperties
<1>12. added # <<>> <=> n < m
  BY <1>0, <1>2, <1>6, EmptySeq
<1>m. /\ m = Len(Beginning(q)) /\ added = SubSeq(q, n + 1, Len(Beginning(q)))
      /\ n \in Nat /\ m \in Nat /\ n <= m
  BY <1>0, <1>2 DEF m, added
<1>13. FillOf(c, q, n, d)
  <2>1. CASE Beginning(q) = <<>>
    <3>1. d = MarkIdle(c) /\ m = 0 /\ n = 0
      BY <1>0, <1>1, <1>2, <1>11, <2>1, EmptySeq DEF m
    <3>2. c.pipeline = Beginning(q)
      BY <1>11, <2>1
    <3>3. c.sent \o WritesOf(added) = c.sent
      <4>0. added = <<>>
        BY <1>12, <3>1
      <4>1. WritesOf(added) = <<>> /\ c.sent \in Seq(Writes \cup {NoWrite})
        BY <1>6, <4>0, WritesOfBatches DEF ClientType
      <4> QED
        BY <4>1, ConcatEmptySeq
    <3>4. /\ d \in ClientType /\ SameCalls(c, d) /\ d.worker = c.worker
          /\ d.handshake = c.handshake /\ d.answers = c.answers /\ d.pipeline = c.pipeline
          /\ d.sent = c.sent /\ d.state = c.state /\ d.asks = c.asks
          /\ d.idle => c.idle \/ c.state = "Open"
      <4>1. d = IF c.state = "Open" THEN [c EXCEPT !.idle = TRUE] ELSE c
        BY <3>1 DEF MarkIdle, IsOpen
      <4> HIDE DEF d
      <4>2. CASE d = c
        BY <4>2 DEF SameCalls
      <4>3. CASE c.state = "Open" /\ d = [c EXCEPT !.idle = TRUE]
        <5>1. /\ d \in ClientType /\ d.worker = c.worker
              /\ d.handshake = c.handshake /\ d.answers = c.answers /\ d.pipeline = c.pipeline
              /\ d.sent = c.sent /\ d.state = c.state /\ d.asks = c.asks
          BY <4>3 DEF ClientType
        <5>2. SameCalls(c, d)
          BY <4>3 DEF ClientType, SameCalls
        <5> QED
          BY <4>3, <5>1, <5>2
      <4> QED
        BY <4>1, <4>2, <4>3
    <3> HIDE DEF d
    <3> QED
      BY <1>m, <2>1, <3>1, <3>2, <3>3, <3>4 DEF FillOf
  <2>2. CASE Beginning(q) # <<>> /\ IsStarted(c)
    <3>1. d = w
      BY <1>10, <1>11, <2>2 DEF StartIfNeeded, ShouldStartWriteStream, IsStarted
    <3> HIDE DEF d
    <3> QED
      BY <1>m, <1>10, <1>12, <2>2, <3>1 DEF FillOf
  <2>3. CASE Beginning(q) # <<>> /\ ~IsStarted(c)
    <3>1. d = StartStream(w)
      BY <1>10, <1>11, <2>3 DEF StartIfNeeded, ShouldStartWriteStream, IsStarted
    <3>2. [live |-> TRUE, fresh |-> TRUE, user |-> auth] \in Ask
      BY DEF Ask
    <3> DEFINE asks == IF w.state = "Error" THEN w.asks
                        ELSE w.asks \cup {[live |-> TRUE, fresh |-> TRUE, user |-> auth]}
               state == IF w.state = "Error" THEN "Backoff" ELSE "Starting"
    <3>3. asks \in SUBSET Ask /\ state \in StreamStates /\ DOMAIN w = DOMAIN [w EXCEPT !.state = state]
      BY <1>10, <3>2 DEF ClientType, StreamStates
    <3>a. d = [w EXCEPT !.state = state, !.asks = asks]
      BY <1>10, <3>1 DEF StartStream, Start, ClientType
    <3> HIDE DEF asks, state
    <3>4. /\ d \in ClientType /\ SameCalls(w, d) /\ d.worker = w.worker
          /\ d.handshake = w.handshake /\ d.answers = w.answers /\ d.pipeline = w.pipeline
          /\ d.sent = w.sent /\ d.idle = w.idle
          /\ d.state = state /\ d.asks = asks
      BY <1>10, <3>3, <3>a DEF ClientType, SameCalls
    <3> HIDE DEF d
    <3> QED
      BY <1>m, <1>10, <1>12, <2>3, <3>4 DEF state, asks, FillOf, SameCalls, IsStarted
  <2> QED
    BY <2>1, <2>2, <2>3
<1> QED
  BY <1>5, <1>13

\* Filling the pipeline keeps what holds of the connection.
LEMMA FillKeeps ==
  ASSUME NEW c \in ClientType, NEW q, IsQueue(q), auth \in Users,
         NEW n \in 0..Len(q), n <= MaxPendingWrites, c.pipeline = SubSeq(q, 1, n),
         Conn(c)
  PROVE  Conn(FillWritePipeline(c, q))
<1> DEFINE d == FillWritePipeline(c, q)
           B == Beginning(q)
<1>1. FillOf(c, q, n, d)
  BY FillProperties
<1> HIDE DEF d
<1>2. /\ Len(q) \in Nat /\ n \in Nat /\ q \in Seq(Batch)
      /\ B \in Seq(Batch) /\ Len(B) \in n..Len(q) /\ Len(B) \in Nat
      /\ \A i \in 1..Len(B) : B[i] = q[i]
      /\ B = <<>> <=> Len(B) = 0
  <2>1. Len(q) \in Nat /\ q \in Seq(Batch) /\ MaxPendingWrites \in Nat
    BY QueueFacts, BoundsAreSizes
  <2>2. /\ B \in Seq(Batch) /\ \A i \in 1..Len(B) : B[i] = q[i]
        /\ Len(B) = IF Len(q) <= MaxPendingWrites THEN Len(q) ELSE MaxPendingWrites
    BY BeginningProperties
  <2>3. B = <<>> <=> Len(B) = 0
    BY <2>2, EmptySeq
  <2> QED
    BY <2>1, <2>2, <2>3
<1>3. /\ c.pipeline \in Seq(Batch) /\ Len(c.pipeline) = n
      /\ \A i \in 1..n : c.pipeline[i] = q[i]
      /\ c.pipeline = <<>> <=> n = 0
  BY <1>2, FirstElements, EmptySeq
<1>4. c.state \in StreamStates /\ c.handshake \in BOOLEAN /\ c.idle \in BOOLEAN
  BY DEF ClientType
<1> DEFINE new == [live |-> TRUE, fresh |-> TRUE, user |-> auth]
<1>5. /\ d.worker = c.worker /\ d.handshake = c.handshake /\ d.answers = c.answers
      /\ d.pipeline = B
      /\ ~(c.state = "Open" /\ c.handshake) => d.sent = c.sent
      /\ d.state = IF IsStarted(c) \/ B = <<>> THEN c.state
                   ELSE IF c.state = "Error" THEN "Backoff" ELSE "Starting"
      /\ d.asks = IF IsStarted(c) \/ B = <<>> \/ c.state = "Error" THEN c.asks
                  ELSE c.asks \cup {new}
      /\ d.idle => \/ c.idle /\ (n < Len(B) => ~(c.state = "Open" /\ c.handshake))
                   \/ c.state = "Open" /\ B = <<>>
  BY <1>1 DEF FillOf
<1>6. c.state = "Open" <=> d.state = "Open"
  BY <1>4, <1>5 DEF StreamStates, IsStarted
<1>7. Quiet(d)
  BY <1>5, <1>6 DEF Quiet, Conn
<1>8. Busy(d)
  BY <1>2, <1>3, <1>4, <1>5, <1>6 DEF Busy, Conn, IsStarted, StreamStates
<1>9. Idle(d)
  <2> SUFFICES ASSUME d.idle PROVE B = <<>>
    BY <1>5 DEF Idle
  <2>1. CASE c.state = "Open" /\ B = <<>>
    BY <2>1
  <2>2. CASE c.idle /\ (n < Len(B) => ~(c.state = "Open" /\ c.handshake))
    <3>1. c.pipeline = <<>> /\ c.state = "Open" /\ c.handshake
      BY <2>2 DEF Conn, Idle, Quiet, Busy
    <3> QED
      BY <1>2, <1>3, <2>2, <3>1
  <2> QED
    BY <1>5, <2>1, <2>2
<1>10. OneToken(d)
  <2>1. CASE d.asks = c.asks
    <3>1. d.state = "Starting" \/ c.state # "Starting"
      BY <1>5 DEF IsStarted
    <3> QED
      BY <1>5, <2>1, <3>1 DEF OneToken, Conn
  <2>2. CASE d.asks = c.asks \cup {new} /\ d.asks # c.asks
    <3>1. ~IsStarted(c) /\ d.state = "Starting"
      BY <1>5, <2>2
    <3>2. /\ \A a \in c.asks : ~a.live
          /\ \A i \in 1..Len(c.worker) : ~IsLive(c.worker[i])
      BY <3>1 DEF OneToken, Conn, IsStarted
    <3> HIDE DEF new
    <3> QED
      BY <1>5, <2>2, <3>1, <3>2 DEF OneToken
  <2> QED
    BY <1>5, <2>1, <2>2
<1>11. WireInv(d)
  <2> SUFFICES ASSUME d.state = "Open"
               PROVE  IF d.handshake THEN Wire(d) ELSE Greeting(d)
    BY DEF WireInv
  <2>1. c.state = "Open" /\ WireInv(c)
    BY <1>6 DEF Conn
  <2>2. CASE ~c.handshake
    BY <1>5, <2>1, <2>2 DEF WireInv, Greeting
  <2>3. CASE c.handshake
    <3> DEFINE added == SubSeq(q, n + 1, Len(B))
    <3>1. Wire(c) /\ d.sent = c.sent \o WritesOf(added)
      BY <1>1, <2>1, <2>3 DEF WireInv, FillOf
    <3>2. /\ added \in Seq(Batch) /\ Len(added) = Len(B) - n
          /\ \A i \in 1..(Len(B) - n) : added[i] = q[n + i]
      BY <1>2, MoreElements
    <3> HIDE DEF added
    <3>3. /\ WritesOf(added) \in Seq(Writes) /\ Len(WritesOf(added)) = Len(B) - n
          /\ \A i \in 1..(Len(B) - n) : WritesOf(added)[i] = q[n + i].w
      <4>1. /\ WritesOf(added) \in Seq(Writes) /\ Len(WritesOf(added)) = Len(added)
            /\ \A i \in 1..Len(added) : WritesOf(added)[i] = added[i].w
        BY <3>2, WritesOfBatches
      <4> QED
        BY <3>2, <4>1
    <3>4. c.sent \in Seq(Writes \cup {NoWrite}) /\ WritesOf(added) \in Seq(Writes \cup {NoWrite})
      BY <3>3, SeqMonotonic DEF ClientType
    <3>5. /\ Len(c.sent) \in Nat
          /\ Len(d.sent) = Len(c.sent) + (Len(B) - n)
          /\ \A i \in 1..(Len(c.sent) + (Len(B) - n)) :
               d.sent[i] = IF i <= Len(c.sent) THEN c.sent[i] ELSE WritesOf(added)[i - Len(c.sent)]
      <4> DEFINE more == WritesOf(added)
      <4>1. Len(c.sent) \in Nat /\ Len(more) = Len(B) - n
        BY <3>3, <3>4, LenProperties
      <4> HIDE DEF more
      <4>2. /\ Len(c.sent \o more) = Len(c.sent) + Len(more)
            /\ \A i \in 1..(Len(c.sent) + Len(more)) :
                 (c.sent \o more)[i] = IF i <= Len(c.sent) THEN c.sent[i] ELSE more[i - Len(c.sent)]
        BY <3>4, ConcatProperties DEF more
      <4> QED
        BY <3>1, <4>1, <4>2 DEF more
    <3>6. c.answers \in Seq(Reply) /\ Len(c.answers) \in Nat
      BY LenProperties DEF ClientType
    <3>7. /\ Len(c.answers) <= n
          /\ \A i \in 1..Len(c.answers) :
               c.answers[i].kind # "hello" /\ c.answers[i].w = c.pipeline[i].w
      BY <1>3, <3>1 DEF Wire
    <3>8. /\ Len(d.answers) <= Len(d.pipeline)
          /\ \A i \in 1..Len(d.answers) :
               d.answers[i].kind # "hello" /\ d.answers[i].w = d.pipeline[i].w
      <4>1. \A i \in 1..Len(c.answers) : i \in 1..n /\ i \in 1..Len(B)
        BY <1>2, <3>6, <3>7
      <4> QED
        BY <1>2, <1>3, <1>5, <3>6, <3>7, <4>1
    <3>9. ASSUME \A i \in 1..Len(d.answers) : d.answers[i].kind # "refused"
          PROVE  /\ Len(d.answers) + Len(d.sent) = Len(d.pipeline)
                 /\ \A i \in 1..Len(d.sent) : d.sent[i] = d.pipeline[Len(d.answers) + i].w
      <4>1. /\ Len(c.answers) + Len(c.sent) = n
            /\ \A i \in 1..Len(c.sent) : c.sent[i] = c.pipeline[Len(c.answers) + i].w
        BY <1>3, <1>5, <3>1, <3>9 DEF Wire
      <4> DEFINE answered == Len(c.answers)
                 asked == Len(c.sent)
                 all == Len(B)
      <4>0. /\ answered \in Nat /\ asked \in Nat /\ all \in Nat /\ n \in Nat /\ n <= all
            /\ answered + asked = n
            /\ Len(d.answers) = answered /\ Len(d.sent) = asked + (all - n) /\ Len(d.pipeline) = all
        <5>1. n \in Nat /\ Len(B) \in Nat /\ n <= Len(B)
          BY <1>2
        <5>2. Len(d.answers) = answered /\ Len(d.pipeline) = all
          BY <1>5
        <5> QED
          BY <3>5, <3>6, <4>1, <5>1, <5>2
      <4> HIDE DEF answered, asked, all
      <4>2. Len(d.answers) + Len(d.sent) = Len(d.pipeline)
        BY <4>0
      <4>3. ASSUME NEW i \in 1..Len(d.sent)
            PROVE  d.sent[i] = d.pipeline[Len(d.answers) + i].w
        <5>1. CASE i <= Len(c.sent)
          <6>1. /\ i \in 1..asked /\ answered + i \in 1..n /\ answered + i \in 1..all
                /\ i \in 1..(asked + (all - n))
            BY <4>0, <5>1 DEF asked
          <6>2. d.sent[i] = c.sent[i] /\ c.sent[i] = c.pipeline[answered + i].w
            BY <3>5, <4>1, <5>1, <6>1 DEF asked, answered, all
          <6>3. c.pipeline[answered + i] = d.pipeline[answered + i]
            BY <1>2, <1>3, <1>5, <6>1 DEF all
          <6> QED
            BY <4>0, <6>2, <6>3
        <5>2. CASE ~(i <= Len(c.sent))
          <6>1. /\ i - asked \in 1..(all - n) /\ answered + i \in 1..all
                /\ n + (i - asked) = answered + i
                /\ i \in 1..(asked + (all - n))
            <7>1. i \in 1..(asked + (all - n)) /\ ~(i <= asked) /\ i \in Nat
              BY <4>0, <5>2 DEF asked
            <7>2. i <= asked + (all - n)
              BY <4>0, <7>1
            <7> QED
              BY <4>0, <7>1, <7>2
          <6>2. d.sent[i] = q[n + (i - asked)].w
            BY <3>3, <3>5, <5>2, <6>1 DEF asked, all
          <6>3. d.pipeline[answered + i] = q[answered + i]
            BY <1>2, <1>5, <6>1 DEF all
          <6> QED
            BY <4>0, <6>1, <6>2, <6>3
        <5> QED
          BY <5>1, <5>2
      <4> QED
        BY <4>2, <4>3
    <3> QED
      BY <1>5, <2>3, <3>8, <3>9 DEF Wire
  <2> QED
    BY <1>4, <2>2, <2>3
<1> QED
  BY <1>7, <1>8, <1>9, <1>10, <1>11 DEF Conn, d

-----------------------------------------------------------------------------
(* What the steps of a connection leave alone                                *)

\* A task stays what it is, except that a token may stop to count.
Tamed(s, t) ==
  /\ t.kind = s.kind
  /\ IsWrite(s) => t.w = s.w
  /\ IsUser(s) => t.user = s.user
  /\ IsLive(t) => IsLive(s) /\ t.user = s.user

\* From c to d only the connection has changed: no call, no user, no stream opened.
Calm(c, d) ==
  /\ SameCalls(c, d)
  /\ Len(d.worker) = Len(c.worker)
  /\ \A i \in 1..Len(c.worker) : Tamed(c.worker[i], d.worker[i])
  /\ \A a \in d.asks : a.fresh => a.user = auth \/ \E b \in c.asks : b.fresh /\ b.user = a.user
  /\ d.state = "Open" => c.state = "Open"

\* Two such steps are one.
LEMMA CalmIsTransitive ==
  ASSUME NEW c, NEW d, NEW e, Calm(c, d), Calm(d, e)
  PROVE  Calm(c, e)
<1>1. SameCalls(c, e)
  BY DEF Calm, SameCalls
<1>2. Len(e.worker) = Len(c.worker)
  BY DEF Calm
<1>3. ASSUME NEW i \in 1..Len(c.worker)
      PROVE  Tamed(c.worker[i], e.worker[i])
  <2>1. Tamed(c.worker[i], d.worker[i]) /\ Tamed(d.worker[i], e.worker[i])
    BY DEF Calm
  <2> QED
    BY <2>1 DEF Tamed, IsWrite, IsUser, IsLive
<1>4. \A a \in e.asks : a.fresh => a.user = auth \/ \E b \in c.asks : b.fresh /\ b.user = a.user
  BY DEF Calm
<1> QED
  BY <1>1, <1>2, <1>3, <1>4 DEF Calm

\* A client with the same tasks and no new tokens.
LEMMA CalmIfSame ==
  ASSUME NEW c, NEW d, SameCalls(c, d), d.worker = c.worker, d.asks = c.asks,
         d.state = "Open" => c.state = "Open"
  PROVE  Calm(c, d)
BY DEF Calm, Tamed, IsWrite, IsUser, IsLive

\* The users in effect are the same after such a step.
LEMMA CalmKeepsEffects ==
  ASSUME NEW c, NEW d, Calm(c, d), Effects(c)
  PROVE  Effects(d)
<1> DEFINE n == Len(c.worker)
<1>1. /\ Len(d.worker) = n /\ d.user = c.user
      /\ \A i \in 1..n : IsUser(d.worker[i]) <=> IsUser(c.worker[i])
      /\ \A i \in 1..n : IsWrite(d.worker[i]) <=> IsWrite(c.worker[i])
      /\ \A i \in 1..n : IsUser(c.worker[i]) => d.worker[i].user = c.worker[i].user
      /\ \A i \in 1..n : IsWrite(c.worker[i]) => d.worker[i].w = c.worker[i].w
      /\ \A i \in 1..n : IsLive(d.worker[i]) => IsLive(c.worker[i]) /\ d.worker[i].user = c.worker[i].user
  BY DEF Calm, SameCalls, Tamed, IsUser, IsWrite
<1>2. \A i, x : InEffect(c, i, x) => InEffect(d, i, x)
  BY <1>1 DEF InEffect
<1>3. \A a \in d.asks : a.fresh => a.user = auth
  BY DEF Calm, Effects
<1> QED
  BY <1>1, <1>2, <1>3 DEF Effects

\* The tasks are of the same users after such a step.
LEMMA CalmKeepsTasks ==
  ASSUME NEW c, NEW d, Calm(c, d), TasksInv(c)
  PROVE  TasksInv(d)
<1> DEFINE n == Len(c.worker)
<1>1. /\ Len(d.worker) = n /\ d.nextId = c.nextId
      /\ \A i \in 1..n : IsWrite(d.worker[i]) <=> IsWrite(c.worker[i])
      /\ \A i \in 1..n : IsWrite(c.worker[i]) => d.worker[i].w = c.worker[i].w
  BY DEF Calm, SameCalls, Tamed, IsWrite
<1> QED
  BY <1>1 DEF TasksInv

\* Filling the pipeline is such a step.
LEMMA FillIsCalm ==
  ASSUME NEW c, NEW q, NEW n, NEW d, FillOf(c, q, n, d)
  PROVE  Calm(c, d)
<1>1. d.state = "Open" => c.state = "Open"
  BY DEF FillOf
<1>2. CASE d.asks = c.asks
  BY <1>1, <1>2, CalmIfSame DEF FillOf
<1>3. CASE d.asks = c.asks \cup {[live |-> TRUE, fresh |-> TRUE, user |-> auth]}
  BY <1>1, <1>3 DEF FillOf, Calm, Tamed, IsWrite, IsUser, IsLive
<1> QED
  BY <1>2, <1>3 DEF FillOf

-----------------------------------------------------------------------------
(* The methods of the stream                                                 *)

\* WriteStream::Close: a stream that is closed has nothing under way.
LEMMA CloseKeeps ==
  ASSUME NEW c \in ClientType, NEW ok \in BOOLEAN
  PROVE  LET d == Close(c, ok)
         IN /\ d \in ClientType /\ Calm(c, d) /\ Conn(d)
            /\ d.pipeline = c.pipeline /\ d.state = IF ok THEN "Initial" ELSE "Error"
<1> DEFINE d == Close(c, ok)
           asks == {[a EXCEPT !.live = FALSE] : a \in c.asks}
           tame(t) == IF t.kind = "resume" THEN [t EXCEPT !.live = FALSE] ELSE t
           worker == [i \in DOMAIN c.worker |-> tame(c.worker[i])]
           state == IF ok THEN "Initial" ELSE "Error"
<1>1. asks \in SUBSET Ask /\ \A a \in asks : ~a.live /\ \E b \in c.asks : a.fresh = b.fresh /\ a.user = b.user
  <2>1. c.asks \in SUBSET Ask
    BY DEF ClientType
  <2>2. ASSUME NEW b \in c.asks
        PROVE  LET a == [b EXCEPT !.live = FALSE]
               IN a \in Ask /\ ~a.live /\ a.fresh = b.fresh /\ a.user = b.user
    BY <2>1 DEF Ask
  <2> QED
    BY <2>2
<1>2. c.worker \in Seq(Task) /\ DOMAIN c.worker = 1..Len(c.worker) /\ Len(c.worker) \in Nat
  BY LenProperties DEF ClientType
<1>3. ASSUME NEW t \in Task
      PROVE  tame(t) \in Task /\ Tamed(t, tame(t)) /\ ~IsLive(tame(t))
  BY DEF Task, WriteTask, UserTask, ResumeTask, Tamed, IsWrite, IsUser, IsLive
<1> HIDE DEF tame
<1>4. /\ worker \in Seq(Task) /\ Len(worker) = Len(c.worker)
      /\ \A i \in 1..Len(c.worker) : Tamed(c.worker[i], worker[i]) /\ ~IsLive(worker[i])
  <2>1. \A i \in 1..Len(c.worker) : c.worker[i] \in Task
    BY <1>2, ElementOfSeq
  <2>2. worker \in [1..Len(c.worker) -> Task]
    BY <1>2, <1>3, <2>1
  <2>3. \A i \in 1..Len(c.worker) : worker[i] = tame(c.worker[i])
    BY <1>2
  <2> HIDE DEF worker
  <2> QED
    BY <1>2, <1>3, <2>1, <2>2, <2>3
<1>5. d = [c EXCEPT !.state = state, !.idle = FALSE, !.sent = <<>>, !.answers = <<>>,
                    !.asks = asks, !.worker = worker]
  BY DEF Close, Closed, ClientType, tame
<1>6. state \in StreamStates /\ state # "Open"
  BY DEF StreamStates
<1> HIDE DEF asks, worker, state, d
<1>7. <<>> \in Seq(Writes \cup {NoWrite}) /\ <<>> \in Seq(Reply) /\ Len(<<>>) = 0
  BY EmptySeq
<1>8. /\ d \in ClientType /\ SameCalls(c, d)
      /\ d.pipeline = c.pipeline /\ d.state = state /\ d.idle = FALSE
      /\ d.sent = <<>> /\ d.answers = <<>> /\ d.asks = asks /\ d.worker = worker
  BY <1>1, <1>4, <1>5, <1>6, <1>7 DEF ClientType, SameCalls
<1>9. Calm(c, d)
  BY <1>1, <1>4, <1>6, <1>8 DEF Calm
<1>10. Conn(d)
  <2>1. Quiet(d) /\ Idle(d) /\ WireInv(d)
    BY <1>6, <1>8 DEF Quiet, Idle, WireInv
  <2>2. Busy(d)
    BY <1>8 DEF Busy, state
  <2>3. OneToken(d)
    BY <1>1, <1>4, <1>8 DEF OneToken
  <2> QED
    BY <2>1, <2>2, <2>3 DEF Conn
<1> QED
  BY <1>8, <1>9, <1>10 DEF d, state

\* A client that differs in nothing but the handshake, on a stream that is not open.
LEMMA HandshakeOverKeeps ==
  ASSUME NEW c \in ClientType, c.state # "Open", Conn(c)
  PROVE  LET d == HandshakeOver(c)
         IN /\ d \in ClientType /\ Calm(c, d) /\ Conn(d) /\ Greeted(d)
            /\ d.pipeline = c.pipeline /\ d.state = c.state
<1> DEFINE d == HandshakeOver(c)
<1>1. /\ d \in ClientType /\ SameCalls(c, d) /\ d.worker = c.worker /\ d.asks = c.asks
      /\ d.state = c.state /\ d.pipeline = c.pipeline /\ d.handshake = FALSE
      /\ d.sent = c.sent /\ d.answers = c.answers /\ d.idle = c.idle
  BY DEF HandshakeOver, ClientType, SameCalls
<1> HIDE DEF d
<1>2. Calm(c, d)
  BY <1>1, CalmIfSame
<1>3. Conn(d) /\ Greeted(d)
  BY <1>1 DEF Conn, Quiet, Busy, Idle, OneToken, WireInv, Greeted
<1> QED
  BY <1>1, <1>2, <1>3 DEF d

\* WriteStream::Stop keeps the connection in order.
LEMMA StopKeeps ==
  ASSUME NEW c \in ClientType, Conn(c), Greeted(c)
  PROVE  LET d == Stop(c)
         IN /\ d \in ClientType /\ Calm(c, d) /\ Conn(d) /\ Greeted(d)
            /\ d.pipeline = c.pipeline /\ d.state \in {"Initial", "Error"}
<1>1. CASE ~IsStarted(c)
  <2>1. Stop(c) = c /\ c.state \in {"Initial", "Error"}
    BY <1>1 DEF Stop, IsStarted, ClientType, StreamStates
  <2>2. Calm(c, c)
    BY CalmIfSame DEF SameCalls
  <2> QED
    BY <2>1, <2>2
<1>2. CASE IsStarted(c)
  <2> DEFINE e == Close(c, TRUE)
  <2>1. /\ e \in ClientType /\ Calm(c, e) /\ Conn(e)
        /\ e.pipeline = c.pipeline /\ e.state = "Initial"
    BY CloseKeeps
  <2>2. Stop(c) = HandshakeOver(e)
    BY <1>2 DEF Stop
  <2> HIDE DEF e
  <2>3. LET d == HandshakeOver(e)
        IN /\ d \in ClientType /\ Calm(e, d) /\ Conn(d) /\ Greeted(d)
           /\ d.pipeline = e.pipeline /\ d.state = e.state
    BY <2>1, HandshakeOverKeeps
  <2> QED
    BY <2>1, <2>2, <2>3, CalmIsTransitive
<1> QED
  BY <1>1, <1>2

\* WriteStream::InhibitBackoff keeps the connection in order.
LEMMA InhibitBackoffKeeps ==
  ASSUME NEW c \in ClientType, Conn(c), c.state \in {"Initial", "Error", "Backoff"}
  PROVE  LET d == InhibitBackoff(c)
         IN /\ d \in ClientType /\ Calm(c, d) /\ Conn(d)
            /\ d.pipeline = c.pipeline /\ d.state = "Initial" /\ d.handshake = c.handshake
<1> DEFINE d == InhibitBackoff(c)
<1>1. /\ d \in ClientType /\ SameCalls(c, d) /\ d.worker = c.worker /\ d.asks = c.asks
      /\ d.state = "Initial" /\ d.pipeline = c.pipeline /\ d.handshake = c.handshake
      /\ d.sent = c.sent /\ d.answers = c.answers /\ d.idle = c.idle
  BY DEF InhibitBackoff, ClientType, SameCalls, StreamStates
<1> HIDE DEF d
<1>2. Calm(c, d)
  BY <1>1, CalmIfSame
<1>3. Conn(d)
  BY <1>1 DEF Conn, Quiet, Busy, Idle, OneToken, WireInv
<1> QED
  BY <1>1, <1>2, <1>3 DEF d

\* A stream that is not started starts, at once or after backoff.
LEMMA StartStreamKeeps ==
  ASSUME NEW c \in ClientType, Conn(c), auth \in Users,
         c.state \in {"Initial", "Error"}, c.pipeline # <<>>
  PROVE  LET d == StartStream(c)
         IN /\ d \in ClientType /\ Calm(c, d) /\ Conn(d)
            /\ d.pipeline = c.pipeline /\ d.state \in {"Starting", "Backoff"}
            /\ d.handshake = c.handshake
<1> DEFINE new == [live |-> TRUE, fresh |-> TRUE, user |-> auth]
           asks == IF c.state = "Error" THEN c.asks ELSE c.asks \cup {new}
           state == IF c.state = "Error" THEN "Backoff" ELSE "Starting"
           d == StartStream(c)
<1>0. new \in Ask /\ c.asks \in SUBSET Ask
  BY DEF Ask, ClientType
<1>1. asks \in SUBSET Ask /\ state \in StreamStates /\ state \in {"Starting", "Backoff"}
  BY <1>0 DEF StreamStates
<1>2. d = [c EXCEPT !.state = state, !.asks = asks]
  BY DEF StartStream, Start, ClientType
<1> HIDE DEF asks, state, d
<1>3. /\ d \in ClientType /\ SameCalls(c, d) /\ d.worker = c.worker /\ d.asks = asks
      /\ d.state = state /\ d.pipeline = c.pipeline /\ d.handshake = c.handshake
      /\ d.sent = c.sent /\ d.answers = c.answers /\ d.idle = c.idle
  BY <1>1, <1>2 DEF ClientType, SameCalls
<1>4. Calm(c, d)
  <2>1. \A a \in d.asks : a.fresh => a.user = auth \/ \E b \in c.asks : b.fresh /\ b.user = a.user
    BY <1>3 DEF asks
  <2>2. \A i \in 1..Len(c.worker) : Tamed(c.worker[i], d.worker[i])
    BY <1>3 DEF Tamed, IsWrite, IsUser, IsLive
  <2> QED
    BY <1>1, <1>3, <2>1, <2>2 DEF Calm
<1>5. OneToken(d)
  <2>1. /\ \A a \in c.asks : ~a.live
        /\ \A i \in 1..Len(c.worker) : ~IsLive(c.worker[i])
    BY DEF Conn, OneToken
  <2>2. \A a \in asks : a.live => a = new /\ state = "Starting"
    BY <2>1 DEF asks, state
  <2> HIDE DEF new
  <2> QED
    BY <1>3, <2>1, <2>2 DEF OneToken
<1>6. Quiet(d) /\ Busy(d) /\ Idle(d) /\ WireInv(d)
  BY <1>1, <1>3 DEF Conn, Quiet, Busy, Idle, WireInv
<1> QED
  BY <1>1, <1>3, <1>4, <1>5, <1>6 DEF Conn, d

\* A stream that broke starts again, if there is a write.
LEMMA OnTransientErrorKeeps ==
  ASSUME NEW c \in ClientType, auth \in Users
  PROVE  LET d == OnTransientError(c)
         IN /\ d \in ClientType /\ Calm(c, d) /\ Conn(d) /\ Greeted(d)
            /\ d.pipeline = c.pipeline /\ d.state # "Open"
<1> DEFINE e == Close(c, FALSE)
           f == StartIfNeeded(e)
<1>1. /\ e \in ClientType /\ Calm(c, e) /\ Conn(e)
      /\ e.pipeline = c.pipeline /\ e.state = "Error"
  BY CloseKeeps
<1> HIDE DEF e
<1>2. /\ f \in ClientType /\ Calm(c, f) /\ Conn(f) /\ f.pipeline = c.pipeline /\ f.state # "Open"
  <2>1. CASE e.pipeline = <<>>
    BY <1>1, <2>1 DEF StartIfNeeded, ShouldStartWriteStream
  <2>2. CASE e.pipeline # <<>>
    <3>1. f = StartStream(e)
      BY <1>1, <2>2 DEF StartIfNeeded, ShouldStartWriteStream, IsStarted
    <3>2. LET d == StartStream(e)
          IN /\ d \in ClientType /\ Calm(e, d) /\ Conn(d)
             /\ d.pipeline = e.pipeline /\ d.state \in {"Starting", "Backoff"}
      BY <1>1, <2>2, StartStreamKeeps
    <3>3. Calm(c, f)
      BY <1>1, <3>1, <3>2, CalmIsTransitive
    <3> QED
      BY <1>1, <3>1, <3>2, <3>3
  <2> QED
    BY <2>1, <2>2
<1>3. OnTransientError(c) = HandshakeOver(f)
  BY DEF OnTransientError, e
<1> HIDE DEF f
<1>4. LET d == HandshakeOver(f)
      IN /\ d \in ClientType /\ Calm(f, d) /\ Conn(d) /\ Greeted(d)
         /\ d.pipeline = f.pipeline /\ d.state = f.state
  BY <1>2, HandshakeOverKeeps
<1> QED
  BY <1>2, <1>3, <1>4, CalmIsTransitive

\* The network starts anew with the beginning of queue q.
LEMMA RestartNetworkKeeps ==
  ASSUME NEW c \in ClientType, Conn(c), Greeted(c), auth \in Users, NEW q, IsQueue(q)
  PROVE  LET d == RestartNetwork(c, q)
         IN /\ d \in ClientType /\ Calm(c, d) /\ Conn(d) /\ Greeted(d)
            /\ d.pipeline = Beginning(q) /\ d.state # "Open"
<1> DEFINE e == Stop(c)
           f == [e EXCEPT !.pipeline = <<>>]
           g == InhibitBackoff(f)
           d == FillWritePipeline(g, q)
<1>1. /\ e \in ClientType /\ Calm(c, e) /\ Conn(e) /\ Greeted(e)
      /\ e.state \in {"Initial", "Error"}
  BY StopKeeps
<1> HIDE DEF e
<1>2. /\ f \in ClientType /\ SameCalls(e, f) /\ f.worker = e.worker /\ f.asks = e.asks
      /\ f.state = e.state /\ f.pipeline = <<>> /\ f.handshake = e.handshake
      /\ f.sent = e.sent /\ f.answers = e.answers /\ f.idle = e.idle
  <2>1. <<>> \in Seq(Batch)
    BY EmptySeq
  <2> QED
    BY <1>1, <2>1 DEF ClientType, SameCalls
<1> HIDE DEF f
<1>3. Calm(e, f)
  BY <1>2, CalmIfSame
<1>4. Conn(f)
  BY <1>1, <1>2 DEF Conn, Quiet, Busy, Idle, OneToken, WireInv
<1>5. /\ g \in ClientType /\ Calm(f, g) /\ Conn(g)
      /\ g.pipeline = <<>> /\ g.state = "Initial" /\ ~g.handshake
  <2>1. ~f.handshake
    BY <1>1, <1>2 DEF Greeted, ClientType
  <2> QED
    BY <1>1, <1>2, <1>4, <2>1, InhibitBackoffKeeps
<1> HIDE DEF g
<1>6. Len(q) \in Nat /\ 0 \in 0..Len(q) /\ 0 <= MaxPendingWrites /\ g.pipeline = SubSeq(q, 1, 0)
  BY <1>5, QueueFacts, BoundsAreSizes, SubSeqEmpty
<1>7. FillOf(g, q, 0, d) /\ Conn(d)
  BY <1>5, <1>6, FillProperties, FillKeeps
<1>8. RestartNetwork(c, q) = d
  BY DEF RestartNetwork, e, f, g
<1> HIDE DEF d
<1>9. Calm(c, d)
  BY <1>1, <1>3, <1>5, <1>7, FillIsCalm, CalmIsTransitive
<1>10. d \in ClientType /\ d.pipeline = Beginning(q) /\ ~d.handshake /\ d.state # "Open"
  BY <1>5, <1>7 DEF FillOf
<1> QED
  BY <1>7, <1>8, <1>9, <1>10 DEF Greeted

\* A refused write is dropped, and the stream starts again for the rest, queue q.
LEMMA OnWriteErrorKeeps ==
  ASSUME NEW c \in ClientType, auth \in Users, NEW q, IsQueue(q),
         c.pipeline # <<>>, NEW n \in 0..Len(q), n <= MaxPendingWrites,
         Tail(c.pipeline) = SubSeq(q, 1, n)
  PROVE  LET d == OnWriteError(c, q)
         IN /\ d \in ClientType /\ Calm(c, d) /\ Conn(d) /\ Greeted(d)
            /\ d.pipeline = Beginning(q) /\ d.state # "Open"
<1> DEFINE e == Close(c, FALSE)
           f == [e EXCEPT !.pipeline = Tail(@)]
           g == InhibitBackoff(f)
           h == FillWritePipeline(g, q)
<1>1. /\ e \in ClientType /\ Calm(c, e) /\ Conn(e) /\ e.pipeline = c.pipeline
      /\ e.state = "Error"
  BY CloseKeeps
<1> HIDE DEF e
<1>2. /\ f \in ClientType /\ SameCalls(e, f) /\ f.worker = e.worker /\ f.asks = e.asks
      /\ f.state = e.state /\ f.pipeline = Tail(c.pipeline) /\ f.handshake = e.handshake
      /\ f.sent = e.sent /\ f.answers = e.answers /\ f.idle = e.idle
  <2>1. Tail(e.pipeline) \in Seq(Batch)
    BY <1>1, HeadTailProperties DEF ClientType
  <2> QED
    BY <1>1, <2>1 DEF ClientType, SameCalls
<1> HIDE DEF f
<1>3. Calm(e, f)
  BY <1>2, CalmIfSame
<1>4. Conn(f)
  BY <1>1, <1>2 DEF Conn, Quiet, Busy, Idle, OneToken, WireInv
<1>5. /\ g \in ClientType /\ Calm(f, g) /\ Conn(g)
      /\ g.pipeline = Tail(c.pipeline) /\ g.state = "Initial"
  BY <1>1, <1>2, <1>4, InhibitBackoffKeeps
<1> HIDE DEF g
<1>6. FillOf(g, q, n, h) /\ Conn(h)
  BY <1>5, FillProperties, FillKeeps
<1>7. OnWriteError(c, q) = HandshakeOver(h)
  BY DEF OnWriteError, e, f, g
<1> HIDE DEF h
<1>8. Calm(c, h)
  BY <1>1, <1>3, <1>5, <1>6, FillIsCalm, CalmIsTransitive
<1>9. h \in ClientType /\ h.pipeline = Beginning(q) /\ h.state # "Open"
  BY <1>5, <1>6 DEF FillOf
<1>10. LET d == HandshakeOver(h)
      IN /\ d \in ClientType /\ Calm(h, d) /\ Conn(d) /\ Greeted(d)
         /\ d.pipeline = h.pipeline /\ d.state = h.state
  BY <1>6, <1>9, HandshakeOverKeeps
<1> QED
  BY <1>7, <1>8, <1>9, <1>10, CalmIsTransitive

-----------------------------------------------------------------------------
(* The tasks of the worker                                                   *)

\* The calls that wait are in order after such a step.
LEMMA CalmKeepsCalls ==
  ASSUME NEW c, NEW d, Calm(c, d), Calls(c)
  PROVE  Calls(d)
<1>1. d.nextId = c.nextId /\ d.callbacks = c.callbacks
  BY DEF Calm, SameCalls
<1>2. QueueInv(d) /\ CallbacksIn(d)
  BY <1>1 DEF Calls, QueueInv, CallbacksIn
<1> QED
  BY <1>2, CalmKeepsEffects, CalmKeepsTasks DEF Calls

\* Two clients that differ in their tasks and tokens at most.
SameConn(c, d) ==
  /\ SameCalls(c, d) /\ d.state = c.state /\ d.idle = c.idle /\ d.handshake = c.handshake
  /\ d.pipeline = c.pipeline /\ d.sent = c.sent /\ d.answers = c.answers

\* What holds of a connection holds of one that differs in nothing it speaks of.
LEMMA SameConnKeeps ==
  ASSUME NEW c, NEW d, SameConn(c, d), Conn(c), OneToken(d)
  PROVE  Conn(d) /\ (Greeted(c) => Greeted(d)) /\ (NameInv(c) => NameInv(d))
<1>1. Quiet(d) /\ Busy(d) /\ Idle(d)
  BY DEF SameConn, Conn, Quiet, Busy, Idle
<1>2. WireInv(d)
  <2>1. Wire(c) => Wire(d)
    BY DEF SameConn, Wire
  <2>2. Greeting(c) => Greeting(d)
    BY DEF SameConn, Greeting
  <2> QED
    BY <2>1, <2>2 DEF SameConn, Conn, WireInv
<1>3. (Greeted(c) => Greeted(d)) /\ (NameInv(c) => NameInv(d))
  BY DEF SameConn, SameCalls, Greeted, NameInv
<1> QED
  BY <1>1, <1>2, <1>3 DEF Conn

\* A queue of tasks with one more at its end.
LEMMA EnqueueProperties ==
  ASSUME NEW c \in ClientType, NEW t \in Task
  PROVE  LET d == Enqueue(c, t)
         IN /\ d \in ClientType /\ SameConn(c, d) /\ d.asks = c.asks
            /\ Len(c.worker) \in Nat /\ Len(d.worker) = Len(c.worker) + 1
            /\ \A i \in 1..Len(c.worker) : d.worker[i] = c.worker[i]
            /\ d.worker[Len(c.worker) + 1] = t
<1> DEFINE d == Enqueue(c, t)
           worker == Append(c.worker, t)
<1>1. c.worker \in Seq(Task)
  BY DEF ClientType
<1>2. /\ worker \in Seq(Task) /\ Len(worker) = Len(c.worker) + 1 /\ Len(c.worker) \in Nat
      /\ \A i \in 1..Len(c.worker) : worker[i] = c.worker[i]
      /\ worker[Len(c.worker) + 1] = t
  BY <1>1, AppendProperties, LenProperties
<1>3. d = [c EXCEPT !.worker = worker]
  BY DEF Enqueue
<1> HIDE DEF d, worker
<1>4. d \in ClientType /\ SameConn(c, d) /\ d.asks = c.asks /\ d.worker = worker
  BY <1>2, <1>3 DEF ClientType, SameConn, SameCalls
<1> QED
  BY <1>2, <1>4 DEF d

\* A token that counts may be queued when no other does.
LEMMA EnqueueKeepsToken ==
  ASSUME NEW c \in ClientType, NEW t \in Task, OneToken(c),
         IsLive(t) => /\ c.state = "Starting"
                      /\ \A a \in c.asks : ~a.live
                      /\ \A i \in 1..Len(c.worker) : ~IsLive(c.worker[i])
  PROVE  OneToken(Enqueue(c, t))
<1> DEFINE d == Enqueue(c, t)
           n == Len(c.worker)
<1>1. /\ d.asks = c.asks /\ d.state = c.state /\ n \in Nat /\ Len(d.worker) = n + 1
      /\ \A i \in 1..n : d.worker[i] = c.worker[i]
      /\ d.worker[n + 1] = t
  BY EnqueueProperties DEF SameConn
<1> HIDE DEF d
<1>2. ASSUME NEW i \in 1..(n + 1), IsLive(d.worker[i])
      PROVE  /\ c.state = "Starting" /\ \A a \in c.asks : ~a.live
             /\ \A j \in 1..(n + 1) : IsLive(d.worker[j]) => i = j
  <2>1. CASE IsLive(t)
    BY <1>1, <1>2, <2>1
  <2>2. CASE ~IsLive(t)
    <3>1. i \in 1..n /\ IsLive(c.worker[i])
      BY <1>1, <1>2, <2>2
    <3>2. \A j \in 1..(n + 1) : IsLive(d.worker[j]) => j \in 1..n /\ IsLive(c.worker[j])
      BY <1>1, <2>2
    <3> QED
      BY <3>1, <3>2 DEF OneToken
  <2> QED
    BY <2>1, <2>2
<1> QED
  BY <1>1, <1>2 DEF OneToken, d

\* What is in effect at the positions before and after a task that is queued.
LEMMA EnqueueEffects ==
  ASSUME NEW c \in ClientType, NEW t \in Task, NEW x
  PROVE  LET d == Enqueue(c, t)
             n == Len(c.worker)
         IN /\ \A i \in 1..(n + 1) : InEffect(c, i, x) => InEffect(d, i, x)
            /\ ~IsUser(t) /\ InEffect(c, n + 1, x) => InEffect(d, n + 2, x)
            /\ IsUser(t) /\ x = t.user => InEffect(d, n + 2, x)
<1> DEFINE d == Enqueue(c, t)
           n == Len(c.worker)
<1>1. /\ d.user = c.user /\ n \in Nat /\ Len(d.worker) = n + 1
      /\ \A i \in 1..n : d.worker[i] = c.worker[i]
      /\ d.worker[n + 1] = t
  BY EnqueueProperties DEF SameConn, SameCalls
<1> HIDE DEF d, n
<1>2. ASSUME NEW i \in 1..(n + 1), InEffect(c, i, x)
      PROVE  InEffect(d, i, x)
  <2>1. \A j \in 1..n : j \in 1..(n + 1)
    BY <1>1
  <2>2. \A j \in 1..(n + 1) : j < i => j \in 1..n
    BY <1>1
  <2>3. /\ (\A j \in 1..n : j < i => ~IsUser(c.worker[j])) => x = c.user
        /\ \A j \in 1..n :
             /\ j < i /\ IsUser(c.worker[j])
             /\ \A k \in 1..n : j < k /\ k < i => ~IsUser(c.worker[k])
             => x = c.worker[j].user
    BY <1>2 DEF InEffect, n
  <2>4. (\A j \in 1..(n + 1) : j < i => ~IsUser(d.worker[j])) => x = d.user
    BY <1>1, <2>1, <2>3
  <2>5. ASSUME NEW j \in 1..(n + 1), j < i, IsUser(d.worker[j]),
               \A k \in 1..(n + 1) : j < k /\ k < i => ~IsUser(d.worker[k])
        PROVE  x = d.worker[j].user
    <3>1. j \in 1..n /\ d.worker[j] = c.worker[j]
      BY <1>1, <2>2, <2>5
    <3>2. \A k \in 1..n : j < k /\ k < i => ~IsUser(c.worker[k])
      BY <1>1, <2>1, <2>5
    <3> QED
      BY <2>3, <2>5, <3>1, <3>2
  <2> QED
    BY <1>1, <2>4, <2>5 DEF InEffect
<1>3. ASSUME ~IsUser(t), InEffect(c, n + 1, x)
      PROVE  InEffect(d, n + 2, x)
  <2>1. \A j \in 1..n : j \in 1..(n + 1) /\ j < n + 1 /\ j < n + 2
    BY <1>1
  <2>2. \A j \in 1..(n + 1) : IsUser(d.worker[j]) => j \in 1..n
    BY <1>1, <1>3
  <2>3. /\ (\A j \in 1..n : j < n + 1 => ~IsUser(c.worker[j])) => x = c.user
        /\ \A j \in 1..n :
             /\ j < n + 1 /\ IsUser(c.worker[j])
             /\ \A k \in 1..n : j < k /\ k < n + 1 => ~IsUser(c.worker[k])
             => x = c.worker[j].user
    BY <1>3 DEF InEffect, n
  <2>4. (\A j \in 1..(n + 1) : j < n + 2 => ~IsUser(d.worker[j])) => x = d.user
    BY <1>1, <2>1, <2>3
  <2>5. ASSUME NEW j \in 1..(n + 1), j < n + 2, IsUser(d.worker[j]),
               \A k \in 1..(n + 1) : j < k /\ k < n + 2 => ~IsUser(d.worker[k])
        PROVE  x = d.worker[j].user
    <3>1. j \in 1..n /\ d.worker[j] = c.worker[j] /\ j < n + 1
      BY <1>1, <2>1, <2>2, <2>5
    <3>2. \A k \in 1..n : j < k /\ k < n + 1 => ~IsUser(c.worker[k])
      BY <1>1, <2>1, <2>5
    <3> QED
      BY <2>3, <2>5, <3>1, <3>2
  <2> QED
    BY <1>1, <2>4, <2>5 DEF InEffect
<1>4. ASSUME IsUser(t), x = t.user
      PROVE  InEffect(d, n + 2, x)
  <2>1. n + 1 \in 1..(n + 1) /\ n + 1 < n + 2 /\ IsUser(d.worker[n + 1])
    BY <1>1, <1>4
  <2>2. ASSUME NEW j \in 1..(n + 1), j < n + 2, IsUser(d.worker[j]),
               \A k \in 1..(n + 1) : j < k /\ k < n + 2 => ~IsUser(d.worker[k])
        PROVE  x = d.worker[j].user
    <3>1. j = n + 1
      BY <1>1, <2>1, <2>2
    <3> QED
      BY <1>1, <1>4, <3>1
  <2> QED
    BY <1>1, <2>1, <2>2 DEF InEffect
<1> QED
  BY <1>2, <1>3, <1>4 DEF d, n

\* The tasks that are left when the first one runs.
LEMMA DequeueProperties ==
  ASSUME NEW c \in ClientType, c.worker # <<>>
  PROVE  LET d == Dequeue(c)
         IN /\ d \in ClientType /\ SameConn(c, d) /\ d.asks = c.asks
            /\ Len(c.worker) \in Nat /\ 1 <= Len(c.worker) /\ Len(d.worker) = Len(c.worker) - 1
            /\ \A i \in 1..(Len(c.worker) - 1) : d.worker[i] = c.worker[i + 1]
            /\ Head(c.worker) = c.worker[1] /\ c.worker[1] \in Task
<1> DEFINE d == Dequeue(c)
           worker == Tail(c.worker)
<1>1. c.worker \in Seq(Task)
  BY DEF ClientType
<1>2. /\ worker \in Seq(Task) /\ Len(worker) = Len(c.worker) - 1
      /\ \A i \in 1..Len(worker) : worker[i] = c.worker[i + 1]
  BY <1>1, HeadTailProperties
<1>3. Len(c.worker) \in Nat /\ 1 <= Len(c.worker)
  BY <1>1, EmptySeq
<1>4. Head(c.worker) = c.worker[1] /\ c.worker[1] \in Task
  BY <1>1, <1>3, ElementOfSeq
<1>5. d = [c EXCEPT !.worker = worker]
  BY DEF Dequeue
<1> HIDE DEF d, worker
<1>6. d \in ClientType /\ SameConn(c, d) /\ d.asks = c.asks /\ d.worker = worker
  BY <1>2, <1>5 DEF ClientType, SameConn, SameCalls
<1> QED
  BY <1>2, <1>3, <1>4, <1>6 DEF d

\* There is one token that counts, at most, after the first task ran.
LEMMA DequeueKeepsToken ==
  ASSUME NEW c \in ClientType, c.worker # <<>>, OneToken(c)
  PROVE  /\ OneToken(Dequeue(c))
         /\ IsLive(c.worker[1]) =>
              \A i \in 1..Len(Dequeue(c).worker) : ~IsLive(Dequeue(c).worker[i])
<1> DEFINE d == Dequeue(c)
           n == Len(c.worker)
<1>1. /\ d.asks = c.asks /\ d.state = c.state /\ n \in Nat /\ 1 <= n /\ Len(d.worker) = n - 1
      /\ \A i \in 1..(n - 1) : d.worker[i] = c.worker[i + 1]
  BY DequeueProperties DEF SameConn
<1> HIDE DEF d, n
<1>2. ASSUME NEW i \in 1..(n - 1), IsLive(d.worker[i])
      PROVE  /\ c.state = "Starting" /\ \A a \in c.asks : ~a.live
             /\ \A j \in 1..(n - 1) : IsLive(d.worker[j]) => i = j
             /\ ~IsLive(c.worker[1])
  <2>1. i + 1 \in 1..n /\ IsLive(c.worker[i + 1]) /\ 1 \in 1..n /\ i + 1 # 1
    BY <1>1, <1>2
  <2>2. \A j \in 1..(n - 1) : IsLive(d.worker[j]) => j + 1 \in 1..n /\ IsLive(c.worker[j + 1])
    BY <1>1
  <2>3. c.state = "Starting" /\ \A a \in c.asks : ~a.live
    BY <2>1 DEF OneToken, n
  <2>4. \A j \in 1..n : IsLive(c.worker[j]) => i + 1 = j
    BY <2>1 DEF OneToken, n
  <2>5. \A j \in 1..(n - 1) : IsLive(d.worker[j]) => i = j
    BY <2>2, <2>4
  <2> QED
    BY <2>1, <2>3, <2>4, <2>5
<1> QED
  BY <1>1, <1>2 DEF OneToken, d

\* What is in effect at the positions that are left when the first task runs.
LEMMA DequeueEffects ==
  ASSUME NEW c \in ClientType, c.worker # <<>>, NEW d,
         Len(d.worker) = Len(c.worker) - 1,
         \A i \in 1..(Len(c.worker) - 1) : d.worker[i] = c.worker[i + 1],
         d.user = IF IsUser(c.worker[1]) THEN c.worker[1].user ELSE c.user,
         NEW i \in 1..Len(c.worker), NEW x, InEffect(c, i + 1, x)
  PROVE  InEffect(d, i, x)
<1> DEFINE n == Len(c.worker)
<1>0. n \in Nat /\ 1 <= n /\ i \in 1..n
  BY DequeueProperties
<1> HIDE DEF n
<1>1. /\ (\A j \in 1..n : j < i + 1 => ~IsUser(c.worker[j])) => x = c.user
      /\ \A j \in 1..n :
           /\ j < i + 1 /\ IsUser(c.worker[j])
           /\ \A k \in 1..n : j < k /\ k < i + 1 => ~IsUser(c.worker[k])
           => x = c.worker[j].user
  BY DEF InEffect, n
<1>2. Len(d.worker) = n - 1 /\ \A j \in 1..(n - 1) : d.worker[j] = c.worker[j + 1]
  BY DEF n
<1>3. \A k \in 1..n : k # 1 => k - 1 \in 1..(n - 1) /\ (k - 1) + 1 = k
  BY <1>0
<1>4. ASSUME \A j \in 1..(n - 1) : j < i => ~IsUser(d.worker[j])
      PROVE  x = d.user
  <2>1. \A k \in 1..n : 1 < k /\ k < i + 1 => ~IsUser(c.worker[k])
    <3> TAKE k \in 1..n
    <3> HAVE 1 < k /\ k < i + 1
    <3>1. k - 1 \in 1..(n - 1) /\ k - 1 < i /\ d.worker[k - 1] = c.worker[k]
      BY <1>0, <1>2, <1>3
    <3> QED
      BY <1>4, <3>1
  <2>2. CASE IsUser(c.worker[1])
    <3>1. 1 \in 1..n /\ 1 < i + 1
      BY <1>0
    <3> QED
      BY <1>1, <2>1, <2>2, <3>1
  <2>3. CASE ~IsUser(c.worker[1])
    <3>1. \A k \in 1..n : k = 1 \/ 1 < k
      BY <1>0
    <3> QED
      BY <1>1, <2>1, <2>3, <3>1
  <2> QED
    BY <2>2, <2>3
<1>5. ASSUME NEW j \in 1..(n - 1), j < i, IsUser(d.worker[j]),
             \A k \in 1..(n - 1) : j < k /\ k < i => ~IsUser(d.worker[k])
      PROVE  x = d.worker[j].user
  <2>1. j + 1 \in 1..n /\ j + 1 < i + 1 /\ d.worker[j] = c.worker[j + 1]
    <3>1. j \in Int /\ j + 1 \in 1..n /\ j + 1 < i + 1
      BY <1>0, <1>5
    <3>2. d.worker[j] = c.worker[j + 1]
      BY <1>2
    <3> QED
      BY <3>1, <3>2
  <2>2. \A k \in 1..n : j + 1 < k /\ k < i + 1 => ~IsUser(c.worker[k])
    <3> TAKE k \in 1..n
    <3> HAVE j + 1 < k /\ k < i + 1
    <3>1. k - 1 \in 1..(n - 1) /\ k - 1 < i /\ j < k - 1 /\ d.worker[k - 1] = c.worker[k]
      BY <1>0, <1>2, <1>3
    <3> QED
      BY <1>5, <3>1
  <2> QED
    BY <1>1, <1>5, <2>1, <2>2
<1> QED
  BY <1>2, <1>4, <1>5 DEF InEffect

\* The users in effect are the same when the first task is no change of user.
LEMMA DequeueKeepsEffects ==
  ASSUME NEW c \in ClientType, c.worker # <<>>, NEW d, Effects(c), d.asks = c.asks,
         Len(d.worker) = Len(c.worker) - 1,
         \A i \in 1..(Len(c.worker) - 1) : d.worker[i] = c.worker[i + 1],
         d.user = IF IsUser(c.worker[1]) THEN c.worker[1].user ELSE c.user
  PROVE  Effects(d)
<1> DEFINE n == Len(c.worker)
<1>1. n \in Nat /\ 1 <= n
  BY DequeueProperties
<1>2. \A x : \A i \in 1..n : InEffect(c, i + 1, x) => InEffect(d, i, x)
  BY DequeueEffects
<1>3. InEffect(d, Len(d.worker) + 1, auth)
  <2>1. Len(d.worker) + 1 = n /\ n \in 1..n
    BY <1>1
  <2> QED
    BY <1>2, <2>1 DEF Effects
<1>4. ASSUME NEW i \in 1..Len(d.worker)
      PROVE  /\ IsWrite(d.worker[i]) => InEffect(d, i, writes[d.worker[i].w].user)
             /\ IsLive(d.worker[i]) => InEffect(d, i, d.worker[i].user)
  <2>1. i \in 1..n /\ i + 1 \in 1..n /\ d.worker[i] = c.worker[i + 1]
    BY <1>1
  <2> QED
    BY <1>2, <2>1 DEF Effects
<1> QED
  BY <1>3, <1>4 DEF Effects

\* The calls that are left are in order.
LEMMA DequeueKeepsTasks ==
  ASSUME NEW c \in ClientType, c.worker # <<>>, NEW d, TasksInv(c),
         d.nextId \in Nat, 1 <= d.nextId, d.nextId <= c.nextId,
         Len(d.worker) = Len(c.worker) - 1,
         \A i \in 1..(Len(c.worker) - 1) : d.worker[i] = c.worker[i + 1]
  PROVE  TasksInv(d)
<1> DEFINE n == Len(c.worker)
<1>1. n \in Nat /\ 1 <= n /\ c.nextId \in Nat
  BY DequeueProperties DEF ClientType
<1>2. \A i \in 1..(n - 1) : i + 1 \in 1..n /\ d.worker[i] = c.worker[i + 1]
  BY <1>1
<1>3. \A i \in 1..n : IsWrite(c.worker[i]) => c.worker[i].w \in Nat
  <2>1. \A i \in 1..n : c.worker[i] \in Task
    BY ElementOfSeq DEF ClientType
  <2>2. \A t \in Task : IsWrite(t) => t.w \in Writes
    BY DEF Task, WriteTask, UserTask, ResumeTask, IsWrite
  <2>3. \A w \in Writes : w \in Nat
    BY BoundsAreSizes DEF Writes
  <2> QED
    BY <2>1, <2>2, <2>3
<1>4. d.nextId <= Len(writes) + 1
  BY <1>1 DEF TasksInv
<1>5. ASSUME NEW i \in 1..(n - 1), IsWrite(d.worker[i])
      PROVE  /\ d.worker[i].w <= Len(writes)
             /\ d.nextId <= d.worker[i].w
             /\ \A w \in Writes : settled[w] # "none" => w < d.worker[i].w
             /\ \A u \in Users : \A j \in 1..Len(queue[u]) : queue[u][j].w < d.worker[i].w
             /\ \A j \in 1..(n - 1) :
                  j < i /\ IsWrite(d.worker[j]) => d.worker[j].w < d.worker[i].w
  <2>1. i + 1 \in 1..n /\ d.worker[i] = c.worker[i + 1] /\ d.worker[i].w \in Nat
    BY <1>2, <1>3, <1>5
  <2>2. /\ d.worker[i].w <= Len(writes)
        /\ c.nextId <= d.worker[i].w
        /\ \A w \in Writes : settled[w] # "none" => w < d.worker[i].w
        /\ \A u \in Users : \A j \in 1..Len(queue[u]) : queue[u][j].w < d.worker[i].w
        /\ \A j \in 1..n : j < i + 1 /\ IsWrite(c.worker[j]) => c.worker[j].w < d.worker[i].w
    BY <1>5, <2>1 DEF TasksInv
  <2>3. d.nextId <= d.worker[i].w
    BY <1>1, <2>1, <2>2
  <2>4. \A j \in 1..(n - 1) : j < i /\ IsWrite(d.worker[j]) => d.worker[j].w < d.worker[i].w
    BY <1>1, <1>2, <2>2
  <2> QED
    BY <2>2, <2>3, <2>4
<1>6. Len(d.worker) = n - 1 /\ \A w \in Writes : settled[w] # "none" => w <= Len(writes)
  BY DEF TasksInv
<1> HIDE DEF n
<1> QED
  BY <1>4, <1>5, <1>6 DEF TasksInv

-----------------------------------------------------------------------------
(* The invariant of a step                                                   *)

\* In short: the queues are in order, and the pipeline of the client begins one.
LEMMA QueuesAreQueues ==
  ASSUME queue \in [Users -> Seq(Batch)], NEW c, QueueInv(c)
  PROVE  \A u \in Users : IsQueue(queue[u])
<1> SUFFICES ASSUME NEW u \in Users PROVE IsQueue(queue[u])
  OBVIOUS
<1>1. queue[u] \in Seq(Batch)
  OBVIOUS
<1> QED
  BY <1>1 DEF QueueInv, IsQueue

\* The next id is above the ids of every queue, and not above what it was.
LEMMA NextBatchIdProperties ==
  ASSUME queue \in [Users -> Seq(Batch)], NEW c, QueueInv(c), c.nextId \in Nat, 1 <= c.nextId
  PROVE  /\ NextBatchId(queue) \in Nat
         /\ 1 <= NextBatchId(queue) /\ NextBatchId(queue) <= c.nextId
         /\ \A u \in Users : \A i \in 1..Len(queue[u]) : queue[u][i].id < NextBatchId(queue)
<1> DEFINE ids == {0} \cup UNION {{queue[u][i].id : i \in 1..Len(queue[u])} : u \in Users}
<1>1. \A u \in Users : \A i \in 1..Len(queue[u]) : queue[u][i].id \in Nat
  BY QueuesAreQueues, QueueFacts
<1>2. ids \in SUBSET Nat /\ ids # {}
  BY <1>1
<1>3. c.nextId - 1 \in Nat /\ \A x \in ids : x <= c.nextId - 1
  BY <1>1 DEF QueueInv
<1>4. \A u \in Users : \A i \in 1..Len(queue[u]) : queue[u][i].id \in ids
  OBVIOUS
<1> HIDE DEF ids
<1>5. Max(ids) \in ids /\ \A y \in ids : y <= Max(ids)
  BY <1>2, <1>3, MaxProperties
<1>6. NextBatchId(queue) = 1 + Max(ids)
  BY DEF NextBatchId, ids
<1>7. Max(ids) \in Nat /\ Max(ids) <= c.nextId - 1
  BY <1>2, <1>3, <1>5
<1>8. ASSUME NEW u \in Users, NEW i \in 1..Len(queue[u])
      PROVE  queue[u][i].id < 1 + Max(ids)
  <2>1. queue[u][i].id \in Nat /\ queue[u][i].id <= Max(ids)
    BY <1>1, <1>4, <1>5
  <2> QED
    BY <1>7, <2>1
<1> QED
  BY <1>6, <1>7, <1>8

\* With the disk, the server and the history unchanged, what they say is too.
Records == CommitsInv /\ TruthfulAnswers /\ ReadYourWrites

\* What the disk, the server and the history say stays so while they stay the same.
LEMMA SameRecords ==
  ASSUME Records, UNCHANGED <<writes, cache, commits, refused, settled, told>>
  PROVE  Records'
<1>1. CommitsInv'
  BY DEF Records, CommitsInv
<1>2. TruthfulAnswers'
  BY DEF Records, TruthfulAnswers
<1>3. ReadYourWrites'
  BY DEF Records, ReadYourWrites
<1> QED
  BY <1>1, <1>2, <1>3 DEF Records

\* What is so of a client stays so when the disk and the calls are unchanged.
LEMMA SameCallsLater ==
  ASSUME NEW d, Calls(d), client' = d, UNCHANGED <<auth, writes, queue, settled>>
  PROVE  Calls(client)'
<1>1. QueueInv(client)'
  BY DEF Calls, QueueInv, InOrder
<1>2. TasksInv(client)'
  BY DEF Calls, TasksInv
<1>3. Effects(client)'
  BY DEF Calls, Effects, InEffect
<1>4. CallbacksIn(client)'
  BY DEF Calls, CallbacksIn, ToSet
<1> QED
  BY <1>1, <1>2, <1>3, <1>4 DEF Calls

\* What holds of the client after the step holds of it as the next one finds it.
LEMMA SameConnLater ==
  ASSUME NEW d, Conn(d), Greeted(d), NameInv(d), client' = d
  PROVE  Conn(client)' /\ Greeted(client)' /\ NameInv(client)'
BY DEF Conn, Quiet, Busy, Idle, OneToken, WireInv, Wire, Greeting, Greeted, NameInv

\* A step of the client alone, to d, keeps the invariant if d is in order.
LEMMA ClientStep ==
  ASSUME IInv, NEW d \in ClientType, Calls(d), Conn(d), Greeted(d), NameInv(d), AnswersInv(d),
         d.pipeline = Beginning(queue[d.user]),
         client' = d, UNCHANGED <<app, disk, server, history>>, faults' \in 0..MaxFaults
  PROVE  IInv'
<1>1. Typed'
  BY DEF IInv, Typed, app, disk, server, history
<1>2. Calls(client)'
  BY SameCallsLater DEF app, disk, history
<1>3. Conn(client)' /\ Greeted(client)' /\ NameInv(client)'
  BY SameConnLater
<1>4. PipelineIsFront'
  BY DEF PipelineIsFront, Beginning, disk
<1>5. AnswersInv(client)'
  BY DEF AnswersInv, server
<1>6. Records'
  BY SameRecords DEF IInv, Records, app, disk, server, history
<1> QED
  BY <1>1, <1>2, <1>3, <1>4, <1>5, <1>6 DEF IInv, Records

\* In short: a step of the network that leaves the stream closed.  Client c is the one
\* that takes it, after the task it is was taken out of the queue.
LEMMA ClosedStep ==
  ASSUME IInv, NEW c \in ClientType, Calls(c), c.user = client.user,
         NEW d \in ClientType, Calm(c, d), Conn(d), Greeted(d), d.state # "Open",
         d.pipeline = client.pipeline,
         client' = d, UNCHANGED <<app, disk, server, history>>, faults' \in 0..MaxFaults
  PROVE  IInv'
<1>1. Calls(d)
  BY CalmKeepsCalls
<1>2. NameInv(d)
  BY DEF NameInv
<1>3. AnswersInv(d)
  <2>1. d.answers = <<>> /\ Len(<<>>) = 0
    BY EmptySeq DEF Conn, Quiet
  <2> QED
    BY <2>1 DEF AnswersInv
<1>4. d.pipeline = Beginning(queue[d.user])
  BY DEF IInv, PipelineIsFront, Beginning, Calm, SameCalls
<1> QED
  BY <1>1, <1>2, <1>3, <1>4, ClientStep

\* A token out of the queue of the worker leaves the calls as they are.
LEMMA TokenTaken ==
  ASSUME IInv, client.worker # <<>>, client.worker[1].kind = "resume"
  PROVE  LET d == Dequeue(client)
         IN /\ d \in ClientType /\ SameConn(client, d)
            /\ Calls(d) /\ Conn(d) /\ Greeted(d) /\ NameInv(d)
            /\ d.asks = client.asks
            /\ IsLive(client.worker[1]) =>
                 \A i \in 1..Len(d.worker) : ~IsLive(d.worker[i])
<1> DEFINE d == Dequeue(client)
<1>1. client \in ClientType /\ Calls(client) /\ Conn(client) /\ Greeted(client) /\ NameInv(client)
  BY DEF IInv, Typed
<1>2. /\ d \in ClientType /\ SameConn(client, d) /\ d.asks = client.asks
      /\ Len(d.worker) = Len(client.worker) - 1
      /\ \A i \in 1..(Len(client.worker) - 1) : d.worker[i] = client.worker[i + 1]
  BY <1>1, DequeueProperties
<1>3. /\ OneToken(d)
      /\ IsLive(client.worker[1]) => \A i \in 1..Len(d.worker) : ~IsLive(d.worker[i])
  BY <1>1, DequeueKeepsToken DEF Conn
<1> HIDE DEF d
<1>4. Conn(d) /\ Greeted(d) /\ NameInv(d)
  BY <1>1, <1>2, <1>3, SameConnKeeps
<1>5. Effects(d)
  BY <1>1, <1>2, DequeueKeepsEffects DEF Calls, IsUser, SameConn, SameCalls
<1>6. TasksInv(d)
  <2>1. d.nextId = client.nextId /\ client.nextId \in Nat /\ 1 <= client.nextId
    BY <1>1, <1>2 DEF SameConn, SameCalls, ClientType, Calls, TasksInv
  <2>2. TasksInv(client)
    BY <1>1 DEF Calls
  <2> QED
    BY <1>1, <1>2, <2>1, <2>2, DequeueKeepsTasks
<1>7. QueueInv(d) /\ CallbacksIn(d)
  BY <1>1, <1>2 DEF Calls, QueueInv, CallbacksIn, SameConn, SameCalls
<1> QED
  BY <1>2, <1>3, <1>4, <1>5, <1>6, <1>7 DEF Calls, d

\* The facts about the client that its steps need.
LEMMA ClientFacts ==
  ASSUME IInv
  PROVE  /\ client \in ClientType /\ auth \in Users /\ client.user \in Users
         /\ Calls(client) /\ Conn(client) /\ Greeted(client) /\ NameInv(client)
         /\ AnswersInv(client)
         /\ \A u \in Users : IsQueue(queue[u])
         /\ client.pipeline = Beginning(queue[client.user])
         /\ faults \in 0..MaxFaults
<1>1. client \in ClientType /\ auth \in Users /\ faults \in 0..MaxFaults /\ Typed
  BY DEF IInv, Typed
<1>2. client.user \in Users
  BY <1>1 DEF ClientType
<1>3. \A u \in Users : IsQueue(queue[u])
  BY <1>1, QueuesAreQueues DEF IInv, Calls, Typed
<1>4. client.pipeline = Beginning(queue[client.user])
  BY DEF IInv, PipelineIsFront, Beginning
<1> QED
  BY <1>1, <1>2, <1>3, <1>4 DEF IInv

-----------------------------------------------------------------------------
(* Steps of the network                                                      *)

\* A fault leaves the type of the counter.
LEMMA FaultIsCounted ==
  ASSUME IInv, Fault
  PROVE  faults' \in 0..MaxFaults
BY BoundsAreSizes DEF IInv, Typed, Fault

\* The timer closes the stream.
LEMMA IdleTimeoutStep == IInv /\ IdleTimeout => IInv'
<1> SUFFICES ASSUME IInv, IdleTimeout PROVE IInv'
  OBVIOUS
<1>1. /\ Stop(client) \in ClientType /\ Calm(client, Stop(client)) /\ Conn(Stop(client))
      /\ Greeted(Stop(client)) /\ Stop(client).pipeline = client.pipeline
      /\ Stop(client).state # "Open"
  BY ClientFacts, StopKeeps
<1> QED
  BY <1>1, ClientFacts, ClosedStep DEF IdleTimeout

\* The stream is opened again after backoff.
LEMMA RetryAfterBackoffStep == IInv /\ RetryAfterBackoff => IInv'
<1> SUFFICES ASSUME IInv, RetryAfterBackoff PROVE IInv'
  OBVIOUS
<1> DEFINE c == InhibitBackoff(client)
           d == StartStream(c)
<1>1. /\ client \in ClientType /\ Conn(client) /\ Greeted(client) /\ auth \in Users
      /\ client.state = "Backoff"
  BY ClientFacts DEF RetryAfterBackoff
<1>2. /\ c \in ClientType /\ Calm(client, c) /\ Conn(c)
      /\ c.pipeline = client.pipeline /\ c.state = "Initial" /\ c.handshake = client.handshake
  BY <1>1, InhibitBackoffKeeps
<1>3. client.pipeline # <<>> /\ ~client.handshake
  BY <1>1 DEF Conn, Busy, Greeted
<1> HIDE DEF c
<1>4. /\ d \in ClientType /\ Calm(c, d) /\ Conn(d)
      /\ d.pipeline = c.pipeline /\ d.state \in {"Starting", "Backoff"}
      /\ d.handshake = c.handshake
  BY <1>1, <1>2, <1>3, StartStreamKeeps
<1>5. client' = d
  BY DEF RetryAfterBackoff, c
<1> HIDE DEF d
<1>6. Greeted(d) /\ Calm(client, d) /\ d.state # "Open"
  BY <1>2, <1>3, <1>4, CalmIsTransitive DEF Greeted
<1> QED
  BY <1>1, <1>2, <1>4, <1>5, <1>6, ClientFacts, ClosedStep DEF RetryAfterBackoff

\* An error of the handshake forgets the token and restarts.
LEMMA HandleHandshakeErrorStep == IInv /\ HandleHandshakeError => IInv'
<1> SUFFICES ASSUME IInv, HandleHandshakeError PROVE IInv'
  OBVIOUS
<1> DEFINE d == OnTransientError(client)
<1>1. /\ d \in ClientType /\ Calm(client, d) /\ Conn(d) /\ Greeted(d)
      /\ d.pipeline = client.pipeline /\ d.state # "Open"
  BY ClientFacts, OnTransientErrorKeeps
<1> QED
  BY <1>1, ClientFacts, ClosedStep DEF HandleHandshakeError

\* The stream breaks, and with it all that was under way.
LEMMA StreamBreaksStep == IInv /\ StreamBreaks => IInv'
<1> SUFFICES ASSUME IInv, StreamBreaks PROVE IInv'
  OBVIOUS
<1> DEFINE d == OnTransientError(client)
<1>1. /\ d \in ClientType /\ Calm(client, d) /\ Conn(d) /\ Greeted(d)
      /\ d.pipeline = client.pipeline /\ d.state # "Open"
  BY ClientFacts, OnTransientErrorKeeps
<1> QED
  BY <1>1, ClientFacts, ClosedStep, FaultIsCounted DEF StreamBreaks

\* The token is not to be had, and the stream fails.
LEMMA TokenFailsStep == IInv /\ TokenFails => IInv'
<1> SUFFICES ASSUME IInv, TokenFails PROVE IInv'
  OBVIOUS
<1> DEFINE c == Dequeue(client)
           d == OnTransientError(c)
<1>1. client.worker # <<>> /\ client.worker[1].kind = "resume" /\ Head(client.worker) = client.worker[1]
  BY ClientFacts, DequeueProperties DEF TokenFails, IsTask
<1>2. /\ c \in ClientType /\ SameConn(client, c) /\ Calls(c) /\ Conn(c)
      /\ Greeted(c) /\ NameInv(c)
  BY <1>1, TokenTaken
<1>3. CASE client' = c
  <2>1. AnswersInv(c) /\ c.pipeline = Beginning(queue[c.user])
    BY <1>2, ClientFacts DEF SameConn, SameCalls, AnswersInv
  <2> QED
    BY <1>2, <1>3, <2>1, ClientStep, FaultIsCounted DEF TokenFails
<1>4. CASE client' = d
  <2> HIDE DEF c
  <2>1. /\ d \in ClientType /\ Calm(c, d) /\ Conn(d) /\ Greeted(d)
        /\ d.pipeline = c.pipeline /\ d.state # "Open"
    BY <1>2, ClientFacts, OnTransientErrorKeeps
  <2> QED
    BY <1>2, <1>4, <2>1, ClosedStep, FaultIsCounted DEF TokenFails, SameConn, SameCalls
<1> QED
  BY <1>3, <1>4 DEF TokenFails

\* The network starts anew.
LEMMA ConnectivityChangesStep == IInv /\ ConnectivityChanges => IInv'
<1> SUFFICES ASSUME IInv, ConnectivityChanges PROVE IInv'
  OBVIOUS
<1> DEFINE q == queue[client.user]
           d == RestartNetwork(client, q)
<1>1. /\ d \in ClientType /\ Calm(client, d) /\ Conn(d) /\ Greeted(d)
      /\ d.pipeline = Beginning(q) /\ d.state # "Open"
  BY ClientFacts, RestartNetworkKeeps
<1> QED
  BY <1>1, ClientFacts, ClosedStep, FaultIsCounted DEF ConnectivityChanges

-----------------------------------------------------------------------------
(* Steps of the app and of Firebase Auth                                     *)

\* A call and a batch know their write, though there are more writes by now.
LEMMA CallSetDataStep ==
  ASSUME NEW k \in Keys
  PROVE  IInv /\ CallSetData(k) => IInv'
<1> SUFFICES ASSUME IInv, CallSetData(k) PROVE IInv'
  OBVIOUS
<1> DEFINE n == Len(client.worker)
           new == [user |-> auth, key |-> k]
           w == Len(writes) + 1
           t == [kind |-> "write", w |-> w]
           d == Enqueue(client, t)
<1>0. /\ Typed /\ client \in ClientType /\ auth \in Users /\ Calls(client) /\ Conn(client)
      /\ Greeted(client) /\ NameInv(client) /\ AnswersInv(client)
  BY ClientFacts DEF IInv
<1>1. /\ writes \in Seq([user : Users, key : Keys]) /\ Len(writes) \in Nat
      /\ Len(writes) < MaxWrites /\ MaxWrites \in Nat /\ new \in [user : Users, key : Keys]
  BY <1>0, LenProperties, BoundsAreSizes DEF Typed, CallSetData
<1>2. /\ writes' \in Seq([user : Users, key : Keys]) /\ Len(writes') = w
      /\ \A i \in 1..Len(writes) : writes'[i] = writes[i]
      /\ writes'[w] = new
  <2>1. writes' = Append(writes, new)
    BY DEF CallSetData
  <2> QED
    BY <1>1, <2>1, AppendProperties
<1>3. w \in Writes /\ w \in Nat /\ w <= MaxWrites /\ t \in Task /\ ~IsLive(t) /\ ~IsUser(t) /\ IsWrite(t)
  BY <1>1 DEF Writes, Task, WriteTask, IsLive, IsUser, IsWrite
<1>4. client' = d
  BY <1>2 DEF CallSetData
<1>5. /\ d \in ClientType /\ SameConn(client, d) /\ d.asks = client.asks
      /\ n \in Nat /\ Len(d.worker) = n + 1
      /\ \A i \in 1..n : d.worker[i] = client.worker[i]
      /\ d.worker[n + 1] = t
  BY <1>0, <1>3, EnqueueProperties
<1>6. OneToken(d)
  BY <1>0, <1>3, EnqueueKeepsToken DEF Conn
<1>7. \A x : /\ \A i \in 1..(n + 1) : InEffect(client, i, x) => InEffect(d, i, x)
             /\ InEffect(client, n + 1, x) => InEffect(d, n + 2, x)
  BY <1>0, <1>3, EnqueueEffects
<1> HIDE DEF d, n, w, t, new
<1>8. Conn(client)' /\ Greeted(client)' /\ NameInv(client)'
  <2>1. Conn(d) /\ Greeted(d) /\ NameInv(d)
    BY <1>0, <1>5, <1>6, SameConnKeeps
  <2> QED
    BY <1>4, <2>1, SameConnLater
<1>9. UNCHANGED <<auth, signIns, queue, cache, seen, commits, refused, settled, told, faults>>
  BY DEF CallSetData, disk, server, history
<1>10. Typed'
  BY <1>0, <1>2, <1>3, <1>4, <1>5, <1>9 DEF Typed
<1>11. \A v \in Writes : v <= Len(writes) => writes'[v] = writes[v] /\ v <= Len(writes')
  <2>1. \A v \in Writes : v <= Len(writes) => v \in 1..Len(writes)
    BY <1>1 DEF Writes
  <2> QED
    BY <1>1, <1>2, <2>1 DEF w
<1>12. \A u \in Users : \A i \in 1..Len(queue[u]) : queue[u][i].w \in Writes
  BY ClientFacts, QueueFacts
<1>13. QueueInv(client)'
  <2>1. d.nextId = client.nextId
    BY <1>5 DEF SameConn, SameCalls
  <2>2. \A u \in Users : \A i \in 1..Len(queue[u]) :
          /\ 1 <= queue[u][i].id /\ queue[u][i].id < client.nextId
          /\ queue[u][i].w <= Len(writes)
          /\ writes[queue[u][i].w].user = u
          /\ settled[queue[u][i].w] = "none"
    BY <1>0 DEF Calls, QueueInv
  <2>3. \A u \in Users : \A i \in 1..Len(queue[u]) :
          queue[u][i].w <= Len(writes') /\ writes'[queue[u][i].w].user = u
    BY <1>11, <1>12, <2>2
  <2>4. \A u \in Users : InOrder(queue[u])'
    BY <1>0, <1>9 DEF Calls, QueueInv, InOrder
  <2> QED
    BY <1>4, <1>9, <2>1, <2>2, <2>3, <2>4 DEF QueueInv
<1>14. TasksInv(client)'
  <2>1. /\ d.nextId = client.nextId /\ client.nextId \in Nat /\ 1 <= client.nextId
        /\ client.nextId <= Len(writes) + 1
        /\ \A v \in Writes : settled[v] # "none" => v <= Len(writes)
        /\ TasksInv(client)
    BY <1>0, <1>5 DEF SameConn, SameCalls, ClientType, Calls, TasksInv
  <2>2. client.nextId <= w /\ w <= w /\ \A v \in Writes : v <= Len(writes) => v <= w /\ v < w
    BY <1>1, <2>1 DEF w, Writes
  <2>3. \A u \in Users : \A j \in 1..Len(queue[u]) : queue[u][j].w < w
    BY <1>0, <1>12, <2>2 DEF Calls, QueueInv
  <2>4. \A i \in 1..n : IsWrite(client.worker[i]) =>
          /\ client.worker[i].w \in Writes
          /\ client.worker[i].w <= Len(writes)
          /\ client.nextId <= client.worker[i].w
          /\ \A v \in Writes : settled[v] # "none" => v < client.worker[i].w
          /\ \A u \in Users : \A j \in 1..Len(queue[u]) : queue[u][j].w < client.worker[i].w
          /\ \A j \in 1..n : j < i /\ IsWrite(client.worker[j]) => client.worker[j].w < client.worker[i].w
    <3>1. \A i \in 1..n : client.worker[i] \in Task
      BY <1>0, ElementOfSeq DEF ClientType, n
    <3>2. \A i \in 1..n : IsWrite(client.worker[i]) => client.worker[i].w \in Writes
      BY <3>1 DEF Task, WriteTask, UserTask, ResumeTask, IsWrite
    <3> QED
      BY <2>1, <3>2 DEF TasksInv, n
  <2>5. ASSUME NEW i \in 1..(n + 1), IsWrite(d.worker[i])
        PROVE  /\ d.worker[i].w <= w
               /\ d.nextId <= d.worker[i].w
               /\ \A v \in Writes : settled[v] # "none" => v < d.worker[i].w
               /\ \A u \in Users : \A j \in 1..Len(queue[u]) : queue[u][j].w < d.worker[i].w
               /\ \A j \in 1..(n + 1) : j < i /\ IsWrite(d.worker[j]) => d.worker[j].w < d.worker[i].w
    <3>1. CASE i \in 1..n
      <4>1. \A j \in 1..(n + 1) : j < i => j \in 1..n
        BY <1>5, <3>1
      <4>2. d.worker[i] = client.worker[i] /\ IsWrite(client.worker[i])
        BY <1>5, <2>5, <3>1
      <4> QED
        BY <1>5, <2>1, <2>2, <2>4, <3>1, <4>1, <4>2
    <3>2. CASE i = n + 1
      <4>1. d.worker[i].w = w
        BY <1>5, <3>2 DEF t
      <4>2. \A j \in 1..(n + 1) : j < i => j \in 1..n
        BY <1>5, <3>2
      <4>3. \A j \in 1..(n + 1) : j < i /\ IsWrite(d.worker[j]) => d.worker[j].w < w
        BY <1>5, <2>2, <2>4, <4>2
      <4> QED
        BY <2>1, <2>2, <2>3, <4>1, <4>3
    <3> QED
      BY <1>5, <3>1, <3>2
  <2>6. d.nextId <= w + 1 /\ \A v \in Writes : settled[v] # "none" => v <= w
    BY <1>3, <2>1, <2>2
  <2> QED
    BY <1>2, <1>4, <1>5, <1>9, <2>1, <2>5, <2>6 DEF TasksInv
<1>15. Effects(client)'
  <2>1. /\ InEffect(client, n + 1, auth)
        /\ \A a \in client.asks : a.fresh => a.user = auth
        /\ \A i \in 1..n :
             /\ IsWrite(client.worker[i]) => InEffect(client, i, writes[client.worker[i].w].user)
             /\ IsLive(client.worker[i]) => InEffect(client, i, client.worker[i].user)
    BY <1>0 DEF Calls, Effects, n
  <2>2. \A i \in 1..n : IsWrite(client.worker[i]) =>
          client.worker[i].w \in Writes /\ client.worker[i].w <= Len(writes)
    <3>1. \A i \in 1..n : client.worker[i] \in Task
      BY <1>0, ElementOfSeq DEF ClientType, n
    <3>2. \A i \in 1..n : IsWrite(client.worker[i]) => client.worker[i].w \in Writes
      BY <3>1 DEF Task, WriteTask, UserTask, ResumeTask, IsWrite
    <3> QED
      BY <1>0, <3>2 DEF Calls, TasksInv, n
  <2>3. ASSUME NEW i \in 1..(n + 1)
        PROVE  /\ IsWrite(d.worker[i]) => InEffect(d, i, writes'[d.worker[i].w].user)
               /\ IsLive(d.worker[i]) => InEffect(d, i, d.worker[i].user)
    <3>1. CASE i \in 1..n
      <4>1. d.worker[i] = client.worker[i]
        BY <1>5, <3>1
      <4>2. IsWrite(client.worker[i]) => writes'[client.worker[i].w] = writes[client.worker[i].w]
        BY <1>11, <2>2, <3>1
      <4> QED
        BY <1>7, <2>1, <3>1, <4>1, <4>2
    <3>2. CASE i = n + 1
      <4>1. writes'[d.worker[i].w].user = auth
        BY <1>2, <1>5, <3>2 DEF t, new
      <4> QED
        BY <1>3, <1>5, <1>7, <2>1, <3>2, <4>1
    <3> QED
      BY <1>5, <3>1, <3>2
  <2>4. Len(d.worker) + 1 = n + 2 /\ InEffect(d, n + 2, auth)
    BY <1>5, <1>7, <2>1
  <2>5. \A i, x : InEffect(d, i, x) => InEffect(client, i, x)'
    BY <1>4 DEF InEffect
  <2> QED
    BY <1>4, <1>5, <1>9, <2>1, <2>3, <2>4, <2>5 DEF Effects
<1>16. CallbacksIn(client)'
  BY <1>0, <1>4, <1>5, <1>9 DEF Calls, CallbacksIn, ToSet, SameConn, SameCalls
<1>17. PipelineIsFront'
  BY <1>4, <1>5, <1>9 DEF IInv, PipelineIsFront, SameConn, SameCalls
<1>18. AnswersInv(client)'
  BY <1>0, <1>4, <1>5, <1>9 DEF AnswersInv, SameConn
<1>19. Records'
  <2>1. CommitsInv'
    <3>1. \A i \in 1..Len(commits) : commits[i].w \in Writes
      <4>1. \A i \in 1..Len(commits) : commits[i] \in [w : Writes, name : Users]
        BY <1>0, ElementOfSeq DEF Typed
      <4> QED
        BY <4>1
    <3>2. \A i \in 1..Len(commits) : commits[i].w <= Len(writes) /\ commits[i].name = writes[commits[i].w].user
      BY DEF IInv, CommitsInv
    <3>3. \A i \in 1..Len(commits) : commits[i].w <= Len(writes') /\ commits[i].name = writes'[commits[i].w].user
      BY <1>11, <3>1, <3>2
    <3> QED
      BY <1>9, <3>3 DEF CommitsInv
  <2>2. TruthfulAnswers'
    BY <1>9 DEF IInv, TruthfulAnswers
  <2>3. ReadYourWrites'
    <3>1. ASSUME NEW v \in 1..Len(writes'), settled[v] = "ok"
          PROVE  \E m \in DOMAIN commits : commits[m].w = v /\ cache[writes'[v].key] >= m
      <4>1. v \in Writes
        BY <1>1, <1>2, <3>1 DEF Writes, w
      <4>2. v <= Len(writes)
        BY <1>0, <3>1, <4>1 DEF Calls, TasksInv
      <4>3. v \in 1..Len(writes) /\ writes'[v] = writes[v]
        BY <1>11, <3>1, <4>1, <4>2
      <4> QED
        BY <3>1, <4>3 DEF IInv, ReadYourWrites
    <3> QED
      BY <1>9, <3>1 DEF ReadYourWrites
  <2> QED
    BY <2>1, <2>2, <2>3 DEF Records
<1> QED
  BY <1>8, <1>10, <1>13, <1>14, <1>15, <1>16, <1>17, <1>18, <1>19 DEF IInv, Calls, Records

\* A task that is not a call leaves the calls in their order.
LEMMA EnqueueKeepsTasks ==
  ASSUME NEW c \in ClientType, NEW t \in Task, ~IsWrite(t), TasksInv(c)
  PROVE  TasksInv(Enqueue(c, t))
<1> DEFINE d == Enqueue(c, t)
           n == Len(c.worker)
<1>1. /\ SameConn(c, d) /\ n \in Nat /\ Len(d.worker) = n + 1
      /\ \A i \in 1..n : d.worker[i] = c.worker[i]
      /\ d.worker[n + 1] = t
  BY EnqueueProperties
<1> HIDE DEF d
<1>2. \A i \in 1..(n + 1) : IsWrite(d.worker[i]) => i \in 1..n /\ d.worker[i] = c.worker[i]
  BY <1>1
<1>3. ASSUME NEW i \in 1..(n + 1), IsWrite(d.worker[i])
      PROVE  /\ d.worker[i].w <= Len(writes)
             /\ d.nextId <= d.worker[i].w
             /\ \A w \in Writes : settled[w] # "none" => w < d.worker[i].w
             /\ \A u \in Users : \A j \in 1..Len(queue[u]) : queue[u][j].w < d.worker[i].w
             /\ \A j \in 1..(n + 1) :
                  j < i /\ IsWrite(d.worker[j]) => d.worker[j].w < d.worker[i].w
  <2>1. i \in 1..n /\ d.worker[i] = c.worker[i] /\ IsWrite(c.worker[i]) /\ d.nextId = c.nextId
    BY <1>1, <1>2, <1>3 DEF SameConn, SameCalls
  <2>2. \A j \in 1..(n + 1) : j < i /\ IsWrite(d.worker[j]) => d.worker[j].w < d.worker[i].w
    BY <1>2, <2>1 DEF TasksInv
  <2> QED
    BY <2>1, <2>2 DEF TasksInv
<1>4. /\ 1 <= d.nextId /\ d.nextId <= Len(writes) + 1
      /\ \A w \in Writes : settled[w] # "none" => w <= Len(writes)
  BY <1>1 DEF TasksInv, SameConn, SameCalls
<1> HIDE DEF n
<1>5. TasksInv(d)
  BY <1>1, <1>3, <1>4 DEF TasksInv
<1> QED
  BY <1>5 DEF d

\* A token, if it counts, is of the user in effect at the end of the queue.
LEMMA EnqueueKeepsEffects ==
  ASSUME NEW c \in ClientType, NEW t \in Task, ~IsWrite(t), ~IsUser(t), Effects(c),
         IsLive(t) => t.user = auth
  PROVE  Effects(Enqueue(c, t))
<1> DEFINE d == Enqueue(c, t)
           n == Len(c.worker)
<1>1. /\ d.asks = c.asks /\ n \in Nat /\ Len(d.worker) = n + 1
      /\ \A i \in 1..n : d.worker[i] = c.worker[i]
      /\ d.worker[n + 1] = t
  BY EnqueueProperties
<1>2. \A x : /\ \A i \in 1..(n + 1) : InEffect(c, i, x) => InEffect(d, i, x)
             /\ InEffect(c, n + 1, x) => InEffect(d, n + 2, x)
  BY EnqueueEffects
<1> HIDE DEF d
<1>3. /\ InEffect(c, n + 1, auth)
      /\ \A a \in c.asks : a.fresh => a.user = auth
      /\ \A i \in 1..n :
           /\ IsWrite(c.worker[i]) => InEffect(c, i, writes[c.worker[i].w].user)
           /\ IsLive(c.worker[i]) => InEffect(c, i, c.worker[i].user)
  BY DEF Effects
<1>4. n + 1 \in 1..(n + 1) /\ Len(d.worker) + 1 = n + 2
  BY <1>1
<1>5. InEffect(d, n + 1, auth) /\ InEffect(d, Len(d.worker) + 1, auth)
  BY <1>2, <1>3, <1>4
<1>6. ASSUME NEW i \in 1..(n + 1)
      PROVE  /\ IsWrite(d.worker[i]) => InEffect(d, i, writes[d.worker[i].w].user)
             /\ IsLive(d.worker[i]) => InEffect(d, i, d.worker[i].user)
  <2>1. CASE i \in 1..n
    BY <1>1, <1>2, <1>3, <2>1
  <2>2. CASE i = n + 1
    BY <1>1, <1>5, <2>2
  <2> QED
    BY <1>1, <2>1, <2>2
<1> HIDE DEF n
<1>7. Effects(d)
  BY <1>1, <1>3, <1>5, <1>6 DEF Effects
<1> QED
  BY <1>7 DEF d

\* Two such differences are one.
LEMMA SameConnIsTransitive ==
  ASSUME NEW c, NEW d, NEW e, SameConn(c, d), SameConn(d, e)
  PROVE  SameConn(c, e)
BY DEF SameConn, SameCalls

\* A client whose tasks and tokens changed in order.
LEMMA SameConnStep ==
  ASSUME IInv, NEW d \in ClientType, SameConn(client, d), OneToken(d), TasksInv(d), Effects(d),
         client' = d, UNCHANGED <<app, disk, server, history, faults>>
  PROVE  IInv'
<1>1. /\ Calls(client) /\ Conn(client) /\ Greeted(client) /\ NameInv(client)
      /\ AnswersInv(client) /\ client.pipeline = Beginning(queue[client.user])
      /\ faults' \in 0..MaxFaults
  BY ClientFacts
<1>2. Conn(d) /\ Greeted(d) /\ NameInv(d)
  BY <1>1, SameConnKeeps
<1>3. QueueInv(d) /\ CallbacksIn(d) /\ AnswersInv(d) /\ d.pipeline = Beginning(queue[d.user])
  BY <1>1 DEF Calls, QueueInv, CallbacksIn, AnswersInv, SameConn, SameCalls
<1>4. Calls(d)
  BY <1>3 DEF Calls
<1> QED
  BY <1>1, <1>2, <1>3, <1>4, ClientStep

\* A change of user: what was asked for before is stale, and the calls after it are
\* of the new user.
LEMMA AuthStateDidChangeStep ==
  ASSUME NEW u \in Users
  PROVE  IInv /\ AuthStateDidChange(u) => IInv'
<1> SUFFICES ASSUME IInv, AuthStateDidChange(u) PROVE IInv'
  OBVIOUS
<1> DEFINE stale == {[a EXCEPT !.fresh = FALSE] : a \in client.asks}
           c == [client EXCEPT !.asks = stale]
           t == [kind |-> "user", user |-> u]
           d == Enqueue(c, t)
           n == Len(client.worker)
<1>0. /\ Typed /\ client \in ClientType /\ Calls(client) /\ Conn(client)
      /\ Greeted(client) /\ NameInv(client) /\ AnswersInv(client)
      /\ client.pipeline = Beginning(queue[client.user])
  BY ClientFacts DEF IInv
<1>1. /\ stale \in SUBSET Ask
      /\ \A a \in stale : ~a.fresh /\ (a.live => \E b \in client.asks : b.live)
      /\ \A a, b \in stale : a.live /\ b.live => a = b
  <2>1. client.asks \in SUBSET Ask
    BY <1>0 DEF ClientType
  <2>2. ASSUME NEW b \in client.asks
        PROVE  LET a == [b EXCEPT !.fresh = FALSE]
               IN a \in Ask /\ ~a.fresh /\ a.live = b.live
    BY <2>1 DEF Ask
  <2>3. \A a, b \in client.asks : a.live /\ b.live => a = b
    BY <1>0 DEF Conn, OneToken
  <2> QED
    BY <2>2, <2>3
<1>2. /\ UNCHANGED <<writes, queue, cache, seen, commits, refused, settled, told, faults>>
      /\ auth' = u /\ client' = d /\ signIns' \in 0..MaxSignIns
  <2>1. signIns \in 0..MaxSignIns /\ MaxSignIns \in Nat
    BY <1>0, BoundsAreSizes DEF Typed
  <2> QED
    BY <2>1 DEF AuthStateDidChange, disk, server, history
<1> HIDE DEF stale
<1>3. /\ c \in ClientType /\ SameConn(client, c) /\ c.worker = client.worker /\ c.asks = stale
  BY <1>0, <1>1 DEF ClientType, SameConn, SameCalls
<1>4. OneToken(c)
  BY <1>0, <1>1, <1>3 DEF Conn, OneToken, SameConn
<1>5. TasksInv(c)
  BY <1>0, <1>3 DEF Calls, TasksInv, SameConn, SameCalls
<1>6. t \in Task /\ IsUser(t) /\ ~IsWrite(t) /\ ~IsLive(t) /\ t.user = u
  BY DEF Task, UserTask, IsUser, IsWrite, IsLive
<1> HIDE DEF c, t
<1>7. /\ d \in ClientType /\ SameConn(c, d) /\ d.asks = stale
      /\ n \in Nat /\ Len(d.worker) = n + 1
      /\ \A i \in 1..n : d.worker[i] = client.worker[i]
      /\ d.worker[n + 1] = t
  BY <1>3, <1>6, EnqueueProperties
<1>8. OneToken(d) /\ TasksInv(d)
  BY <1>3, <1>4, <1>5, <1>6, EnqueueKeepsToken, EnqueueKeepsTasks
<1>9. \A x : /\ \A i \in 1..(n + 1) : InEffect(c, i, x) => InEffect(d, i, x)
             /\ x = u => InEffect(d, n + 2, x)
  BY <1>3, <1>6, EnqueueEffects
<1>10. \A i, x : InEffect(client, i, x) => InEffect(c, i, x)
  BY <1>3 DEF InEffect, SameConn, SameCalls
<1> HIDE DEF d
<1>11. SameConn(client, d)
  BY <1>3, <1>7, SameConnIsTransitive
<1>12. Effects(client)'
  <2>1. \A i \in 1..n :
          /\ IsWrite(client.worker[i]) => InEffect(client, i, writes[client.worker[i].w].user)
          /\ IsLive(client.worker[i]) => InEffect(client, i, client.worker[i].user)
    BY <1>0 DEF Calls, Effects
  <2>2. ASSUME NEW i \in 1..(n + 1)
        PROVE  /\ IsWrite(d.worker[i]) => InEffect(d, i, writes[d.worker[i].w].user)
               /\ IsLive(d.worker[i]) => InEffect(d, i, d.worker[i].user)
    <3>1. CASE i \in 1..n
      BY <1>7, <1>9, <1>10, <2>1, <3>1
    <3>2. CASE i = n + 1
      BY <1>6, <1>7, <3>2
    <3> QED
      BY <1>7, <3>1, <3>2
  <2>3. Len(d.worker) + 1 = n + 2 /\ InEffect(d, n + 2, u)
    BY <1>7, <1>9
  <2>4. \A a \in d.asks : ~a.fresh
    BY <1>1, <1>7
  <2>5. \A i, x : InEffect(d, i, x) => InEffect(client, i, x)'
    BY <1>2 DEF InEffect
  <2> QED
    BY <1>2, <1>7, <2>2, <2>3, <2>4, <2>5 DEF Effects
<1>13. Conn(d) /\ Greeted(d) /\ NameInv(d)
  BY <1>0, <1>8, <1>11, SameConnKeeps
<1>14. Conn(client)' /\ Greeted(client)' /\ NameInv(client)'
  BY <1>2, <1>13, SameConnLater
<1>15. QueueInv(client)' /\ CallbacksIn(client)' /\ AnswersInv(client)' /\ PipelineIsFront'
  <2>1. QueueInv(client)'
    BY <1>0, <1>2, <1>11 DEF Calls, QueueInv, InOrder, SameConn, SameCalls
  <2>2. CallbacksIn(client)'
    BY <1>0, <1>2, <1>11 DEF Calls, CallbacksIn, ToSet, SameConn, SameCalls
  <2>3. AnswersInv(client)'
    BY <1>0, <1>2, <1>11 DEF AnswersInv, SameConn
  <2>4. PipelineIsFront'
    BY <1>2, <1>11 DEF IInv, PipelineIsFront, SameConn, SameCalls
  <2> QED
    BY <2>1, <2>2, <2>3, <2>4
<1>16. TasksInv(client)'
  BY <1>2, <1>8 DEF TasksInv
<1>17. Typed'
  BY <1>0, <1>2, <1>7 DEF Typed
<1>18. Records'
  BY <1>2, SameRecords DEF IInv, Records
<1> QED
  BY <1>12, <1>14, <1>15, <1>16, <1>17, <1>18 DEF IInv, Calls, Records

\* A token that came is of the user who is signed in, or is asked for again.
LEMMA GetTokenStep ==
  ASSUME NEW a \in client.asks
  PROVE  IInv /\ GetToken(a) => IInv'
<1> SUFFICES ASSUME IInv, GetToken(a) PROVE IInv'
  OBVIOUS
<1> DEFINE rest == client.asks \ {a}
           c == [client EXCEPT !.asks = rest]
<1>0. /\ client \in ClientType /\ Calls(client) /\ Conn(client) /\ auth \in Users
  BY ClientFacts
<1>1. rest \in SUBSET Ask /\ a \in Ask /\ a.live \in BOOLEAN /\ a.user \in Users
  BY <1>0 DEF ClientType, Ask
<1>2. /\ c \in ClientType /\ SameConn(client, c) /\ c.worker = client.worker /\ c.asks = rest
  BY <1>0, <1>1 DEF ClientType, SameConn, SameCalls
<1>3. TasksInv(c)
  BY <1>0, <1>2 DEF Calls, TasksInv, SameConn, SameCalls
<1>4. Effects(c)
  <2>1. \A i, x : InEffect(client, i, x) => InEffect(c, i, x)
    BY <1>2 DEF InEffect, SameConn, SameCalls
  <2> QED
    BY <1>0, <1>2, <2>1 DEF Calls, Effects
<1>5. OneToken(client) /\ UNCHANGED <<app, disk, server, history, faults>>
  BY <1>0 DEF Conn, GetToken
<1>6. CASE a.fresh
  <2> DEFINE t == [kind |-> "resume", live |-> a.live, user |-> a.user]
             d == Enqueue(c, t)
  <2>1. t \in Task /\ ~IsUser(t) /\ ~IsWrite(t) /\ t.user = auth /\ (IsLive(t) => a.live)
    <3>1. a.user = auth
      BY <1>0, <1>6 DEF Calls, Effects
    <3> QED
      BY <1>1, <3>1 DEF Task, ResumeTask, IsUser, IsWrite, IsLive
  <2>2. client' = d
    BY <1>6 DEF GetToken
  <2>3. OneToken(c)
    BY <1>2, <1>5 DEF OneToken, SameConn
  <2>4. IsLive(t) => /\ c.state = "Starting"
                     /\ \A b \in c.asks : ~b.live
                     /\ \A i \in 1..Len(c.worker) : ~IsLive(c.worker[i])
    <3> SUFFICES ASSUME a.live
                 PROVE  /\ client.state = "Starting"
                        /\ \A b \in rest : ~b.live
                        /\ \A i \in 1..Len(client.worker) : ~IsLive(client.worker[i])
      BY <1>2, <2>1 DEF SameConn
    <3> QED
      BY <1>5 DEF OneToken
  <2> HIDE DEF c, t
  <2>5. d \in ClientType /\ SameConn(c, d)
    BY <1>2, <2>1, EnqueueProperties
  <2>6. OneToken(d) /\ TasksInv(d) /\ Effects(d)
    BY <1>2, <1>3, <1>4, <2>1, <2>3, <2>4, EnqueueKeepsToken, EnqueueKeepsTasks, EnqueueKeepsEffects
  <2> HIDE DEF d
  <2>7. SameConn(client, d)
    BY <1>2, <2>5, SameConnIsTransitive
  <2> QED
    BY <1>5, <2>2, <2>5, <2>6, <2>7, SameConnStep
<1>7. CASE ~a.fresh
  <2> DEFINE new == [a EXCEPT !.fresh = TRUE, !.user = auth]
             asks == rest \cup {new}
             d == [c EXCEPT !.asks = asks]
  <2>1. new \in Ask /\ new.live = a.live /\ new.user = auth
    BY <1>0, <1>1 DEF Ask
  <2>2. client' = d
    BY <1>2, <1>7 DEF GetToken
  <2> HIDE DEF c, new
  <2>3. asks \in SUBSET Ask
    BY <1>1, <2>1
  <2>4. /\ \A b \in asks : b = new \/ (b \in client.asks /\ b # a)
        /\ \A b \in client.asks : b.live => client.state = "Starting"
        /\ \A b, e \in client.asks : b.live /\ e.live => b = e
    BY <1>5 DEF OneToken
  <2>5. /\ \A b \in asks : b.live => client.state = "Starting"
        /\ \A b, e \in asks : b.live /\ e.live => b = e
        /\ (\A b \in client.asks : ~b.live) => \A b \in asks : ~b.live
    BY <2>1, <2>4
  <2>6. \A b \in asks : b.fresh => b.user = auth
    BY <1>0, <2>1, <2>4 DEF Calls, Effects
  <2> HIDE DEF asks, rest
  <2>7. /\ d \in ClientType /\ SameConn(c, d) /\ d.worker = c.worker /\ d.asks = asks
    BY <1>2, <2>3 DEF ClientType, SameConn, SameCalls
  <2> HIDE DEF d
  <2>8. SameConn(client, d)
    BY <1>2, <2>7, SameConnIsTransitive
  <2>9. OneToken(d)
    BY <1>2, <1>5, <2>5, <2>7, <2>8 DEF OneToken, SameConn
  <2>10. TasksInv(d)
    BY <1>3, <2>7 DEF TasksInv, SameConn, SameCalls
  <2>11. Effects(d)
    <3>1. \A i, x : InEffect(c, i, x) => InEffect(d, i, x)
      BY <2>7 DEF InEffect, SameConn, SameCalls
    <3> QED
      BY <1>4, <2>6, <2>7, <3>1 DEF Effects
  <2> QED
    BY <1>5, <2>2, <2>7, <2>8, <2>9, <2>10, <2>11, SameConnStep
<1> QED
  BY <1>6, <1>7

\* The client of another user: nothing but the stream knows of the last one.
LEMMA HandleCredentialChangeStep == IInv /\ HandleCredentialChange => IInv'
<1> SUFFICES ASSUME IInv, HandleCredentialChange PROVE IInv'
  OBVIOUS
<1> DEFINE u == Head(client.worker).user
           b == IF u = client.user THEN client
                ELSE [client EXCEPT !.user = u, !.nextId = NextBatchId(queue)]
           c == Dequeue(b)
           d == RestartNetwork(c, queue[u])
           n == Len(client.worker)
<1>0. /\ Typed /\ client \in ClientType /\ auth \in Users /\ Calls(client) /\ Conn(client)
      /\ Greeted(client) /\ client.nextId \in Nat /\ 1 <= client.nextId
      /\ \A v \in Users : IsQueue(queue[v])
  BY ClientFacts DEF IInv, ClientType, Calls, TasksInv
<1>1. /\ client.worker # <<>> /\ Head(client.worker) = client.worker[1]
      /\ client.worker[1] \in Task /\ client.worker[1].kind = "user"
  BY <1>0, DequeueProperties DEF HandleCredentialChange, IsTask
<1>2. u \in Users /\ IsUser(client.worker[1]) /\ client.worker[1].user = u
  BY <1>1 DEF Task, WriteTask, UserTask, ResumeTask, IsUser
<1>3. client' = d /\ UNCHANGED <<app, disk, server, history, faults>>
  BY DEF HandleCredentialChange
<1>4. /\ NextBatchId(queue) \in Nat
      /\ 1 <= NextBatchId(queue) /\ NextBatchId(queue) <= client.nextId
      /\ \A v \in Users : \A i \in 1..Len(queue[v]) : queue[v][i].id < NextBatchId(queue)
  BY <1>0, NextBatchIdProperties DEF Calls, Typed
<1> HIDE DEF u
<1>5. /\ b \in ClientType /\ b.user = u /\ b.worker = client.worker /\ b.asks = client.asks
      /\ b.nextId \in Nat /\ 1 <= b.nextId /\ b.nextId <= client.nextId
      /\ b.nextId \in {client.nextId, NextBatchId(queue)}
      /\ b.callbacks = client.callbacks /\ b.state = client.state /\ b.idle = client.idle
      /\ b.handshake = client.handshake /\ b.pipeline = client.pipeline
      /\ b.sent = client.sent /\ b.answers = client.answers /\ b.name = client.name
  <2>1. CASE u = client.user
    BY <1>0, <2>1
  <2>2. CASE u # client.user
    <3> DEFINE id == NextBatchId(queue)
    <3>1. id \in Nat /\ 1 <= id /\ id <= client.nextId
      BY <1>4
    <3> HIDE DEF id
    <3>2. b = [client EXCEPT !.user = u, !.nextId = id]
      BY <2>2 DEF id
    <3> HIDE DEF b
    <3>3. /\ b \in ClientType /\ b.user = u /\ b.worker = client.worker /\ b.asks = client.asks
          /\ b.nextId = id
          /\ b.callbacks = client.callbacks /\ b.state = client.state /\ b.idle = client.idle
          /\ b.handshake = client.handshake /\ b.pipeline = client.pipeline
          /\ b.sent = client.sent /\ b.answers = client.answers /\ b.name = client.name
      BY <1>0, <1>2, <3>1, <3>2 DEF ClientType
    <3> QED
      BY <3>1, <3>3 DEF id
  <2> QED
    BY <2>1, <2>2
<1> HIDE DEF b
<1>6. Conn(b) /\ Greeted(b)
  <2>1. Wire(client) => Wire(b)
    BY <1>5 DEF Wire
  <2>2. Greeting(client) => Greeting(b)
    BY <1>5 DEF Greeting
  <2> QED
    BY <1>0, <1>5, <2>1, <2>2 DEF Conn, Quiet, Busy, Idle, OneToken, WireInv, Greeted
<1>7. /\ c \in ClientType /\ SameConn(b, c) /\ c.asks = client.asks
      /\ n \in Nat /\ 1 <= n /\ Len(c.worker) = n - 1
      /\ \A i \in 1..(n - 1) : c.worker[i] = client.worker[i + 1]
  <2>1. b.worker # <<>>
    BY <1>1, <1>5
  <2>2. /\ c \in ClientType /\ SameConn(b, c) /\ c.asks = b.asks
        /\ Len(b.worker) \in Nat /\ 1 <= Len(b.worker) /\ Len(c.worker) = Len(b.worker) - 1
        /\ \A i \in 1..(Len(b.worker) - 1) : c.worker[i] = b.worker[i + 1]
    BY <1>5, <2>1, DequeueProperties
  <2> HIDE DEF c
  <2> QED
    BY <1>5, <2>2
<1>8. OneToken(c)
  BY <1>1, <1>5, <1>6, DequeueKeepsToken DEF Conn
<1> HIDE DEF c, n
<1>9. Conn(c) /\ Greeted(c)
  BY <1>5, <1>6, <1>7, <1>8, SameConnKeeps
<1>10. Effects(c)
  <2>1. c.user = u
    BY <1>5, <1>7 DEF SameConn, SameCalls
  <2> QED
    BY <1>0, <1>1, <1>2, <1>7, <2>1, DequeueKeepsEffects DEF n, Calls
<1>11. TasksInv(c)
  <2>1. c.nextId \in Nat /\ 1 <= c.nextId /\ c.nextId <= client.nextId
    BY <1>5, <1>7 DEF SameConn, SameCalls
  <2> QED
    BY <1>0, <1>1, <1>7, <2>1, DequeueKeepsTasks DEF n, Calls
<1>12. QueueInv(c) /\ CallbacksIn(c)
  <2>1. /\ \A v \in Users : InOrder(queue[v])
        /\ \A v \in Users : \A i \in 1..Len(queue[v]) :
             /\ 1 <= queue[v][i].id /\ queue[v][i].id < client.nextId
             /\ queue[v][i].w <= Len(writes)
             /\ writes[queue[v][i].w].user = v
             /\ settled[queue[v][i].w] = "none"
    BY <1>0 DEF Calls, QueueInv
  <2>2. c.nextId \in {client.nextId, NextBatchId(queue)} /\ c.callbacks = client.callbacks
    BY <1>5, <1>7 DEF SameConn, SameCalls
  <2>3. \A v \in Users : \A i \in 1..Len(queue[v]) : queue[v][i].id < c.nextId
    BY <1>4, <2>1, <2>2
  <2>4. CallbacksIn(c)
    BY <1>0, <2>2 DEF Calls, CallbacksIn
  <2> QED
    BY <2>1, <2>3, <2>4 DEF QueueInv
<1>13. Calls(c)
  BY <1>10, <1>11, <1>12 DEF Calls
<1>14. /\ d \in ClientType /\ Calm(c, d) /\ Conn(d) /\ Greeted(d)
       /\ d.pipeline = Beginning(queue[u]) /\ d.state # "Open"
  BY <1>0, <1>2, <1>7, <1>9, RestartNetworkKeeps
<1> HIDE DEF d
<1>15. d.user = u
  BY <1>5, <1>7, <1>14 DEF SameConn, SameCalls, Calm
<1>16. Calls(d)
  BY <1>13, <1>14, CalmKeepsCalls
<1>17. NameInv(d)
  BY <1>14 DEF NameInv
<1>18. AnswersInv(d)
  <2>1. d.answers = <<>> /\ Len(<<>>) = 0
    BY <1>14, EmptySeq DEF Conn, Quiet
  <2> QED
    BY <2>1 DEF AnswersInv
<1>19. faults' \in 0..MaxFaults
  BY <1>3, ClientFacts
<1> QED
  BY <1>3, <1>14, <1>15, <1>16, <1>17, <1>18, <1>19, ClientStep

\* The user of a token that counts is the user of the client when the stream opens.
LEMMA ResumeStartWithCredentialsStep == IInv /\ ResumeStartWithCredentials => IInv'
<1> SUFFICES ASSUME IInv, ResumeStartWithCredentials PROVE IInv'
  OBVIOUS
<1> DEFINE task == client.worker[1]
           c == Dequeue(client)
           d == [c EXCEPT !.name = task.user, !.state = "Open", !.idle = FALSE,
                          !.sent = <<NoWrite>>]
<1>0. /\ client \in ClientType /\ Calls(client) /\ Conn(client) /\ Greeted(client)
      /\ AnswersInv(client) /\ client.pipeline = Beginning(queue[client.user])
      /\ faults \in 0..MaxFaults
  BY ClientFacts
<1>1. /\ client.worker # <<>> /\ Head(client.worker) = task
      /\ task \in Task /\ task.kind = "resume" /\ Len(client.worker) \in Nat /\ 1 <= Len(client.worker)
  BY <1>0, DequeueProperties DEF ResumeStartWithCredentials, IsTask
<1>2. task.live \in BOOLEAN /\ task.user \in Users
  BY <1>1 DEF Task, WriteTask, UserTask, ResumeTask
<1>3. /\ c \in ClientType /\ SameConn(client, c) /\ Calls(c) /\ Conn(c)
      /\ Greeted(c) /\ NameInv(c) /\ c.asks = client.asks
      /\ IsLive(task) => \A i \in 1..Len(c.worker) : ~IsLive(c.worker[i])
  BY <1>1, TokenTaken
<1>4. UNCHANGED <<app, disk, server, history, faults>> /\ faults' \in 0..MaxFaults
  BY <1>0 DEF ResumeStartWithCredentials
<1>5. AnswersInv(c) /\ c.pipeline = Beginning(queue[c.user])
  BY <1>0, <1>3 DEF SameConn, SameCalls, AnswersInv
<1>6. CASE ~task.live
  <2>1. client' = c
    BY <1>1, <1>6 DEF ResumeStartWithCredentials
  <2> QED
    BY <1>3, <1>4, <1>5, <2>1, ClientStep
<1>7. CASE task.live
  <2>1. /\ client.state = "Starting" /\ client.sent = <<>> /\ client.answers = <<>>
        /\ ~client.idle /\ ~client.handshake /\ client.pipeline # <<>>
        /\ \A a \in client.asks : ~a.live
    <3>1. 1 \in 1..Len(client.worker) /\ IsLive(client.worker[1])
      BY <1>1, <1>7 DEF IsLive
    <3>2. client.state = "Starting" /\ \A a \in client.asks : ~a.live
      BY <1>0, <3>1 DEF Conn, OneToken
    <3> QED
      BY <1>0, <3>2 DEF Conn, Quiet, Busy, Greeted
  <2>2. task.user = client.user
    <3>1. InEffect(client, 1, task.user)
      BY <1>0, <1>1, <1>7 DEF Calls, Effects, IsLive
    <3>2. \A j \in 1..Len(client.worker) : ~(j < 1)
      BY <1>1
    <3> QED
      BY <3>1, <3>2 DEF InEffect
  <2>3. <<NoWrite>> \in Seq(Writes \cup {NoWrite}) /\ <<NoWrite>> # <<>>
    OBVIOUS
  <2>4. /\ c.sent = <<>> /\ c.answers = <<>> /\ ~c.handshake /\ c.pipeline # <<>> /\ ~c.idle
        /\ c.user = client.user /\ c.pipeline = client.pipeline
    BY <1>3, <2>1 DEF SameConn, SameCalls
  <2>5. client' = Send(Opened([c EXCEPT !.name = task.user]), <<NoWrite>>)
    BY <1>1, <1>7 DEF ResumeStartWithCredentials
  <2> HIDE DEF c
  <2>6. client' = d
    <3>1. <<>> \o <<NoWrite>> = <<NoWrite>>
      BY <2>3, ConcatEmptySeq
    <3> QED
      BY <1>3, <2>3, <2>4, <2>5, <3>1 DEF Send, Opened, Wrote, ClientType
  <2>7. /\ d \in ClientType /\ d.user = c.user /\ d.callbacks = c.callbacks
        /\ d.nextId = c.nextId /\ d.worker = c.worker /\ d.asks = c.asks
        /\ d.state = "Open" /\ d.name = task.user /\ d.idle = FALSE
        /\ d.handshake = c.handshake /\ d.pipeline = c.pipeline
        /\ d.sent = <<NoWrite>> /\ d.answers = c.answers
    BY <1>2, <1>3, <2>3 DEF ClientType, StreamStates
  <2> HIDE DEF d, task
  <2>8. Calls(d)
    <3>1. QueueInv(d) /\ TasksInv(d) /\ CallbacksIn(d)
      BY <1>3, <2>7 DEF Calls, QueueInv, TasksInv, CallbacksIn
    <3>2. \A i, x : InEffect(c, i, x) => InEffect(d, i, x)
      BY <2>7 DEF InEffect
    <3> QED
      BY <1>3, <2>7, <3>1, <3>2 DEF Calls, Effects
  <2>9. Quiet(d) /\ Busy(d) /\ Idle(d) /\ Greeted(d) /\ NameInv(d)
    BY <2>2, <2>4, <2>7 DEF Quiet, Busy, Idle, Greeted, NameInv
  <2>10. OneToken(d)
    <3>1. \A i \in 1..Len(c.worker) : ~IsLive(c.worker[i])
      BY <1>1, <1>3, <1>7 DEF IsLive, task
    <3> QED
      BY <1>3, <2>1, <2>7, <3>1 DEF OneToken
  <2>11. WireInv(d)
    BY <2>4, <2>7 DEF WireInv, Greeting
  <2>12. AnswersInv(d) /\ d.pipeline = Beginning(queue[d.user])
    BY <1>5, <2>7 DEF AnswersInv
  <2> QED
    BY <1>4, <2>6, <2>7, <2>8, <2>9, <2>10, <2>11, <2>12, ClientStep DEF Conn
<1> QED
  BY <1>2, <1>6, <1>7

\* A request whose turn it is, is of the write whose turn it is.
LEMMA HeadOfRequests ==
  ASSUME IInv, IsReading
  PROVE  /\ client.sent \in Seq(Writes \cup {NoWrite}) /\ client.answers \in Seq(Reply)
         /\ Len(client.answers) \in Nat
         /\ client.state = "Open" /\ client.sent # <<>>
         /\ \A i \in 1..Len(client.answers) : client.answers[i].kind # "refused"
         /\ Head(client.sent) = client.sent[1]
         /\ client.sent[1] = NoWrite =>
              ~client.handshake /\ client.sent = <<NoWrite>> /\ client.answers = <<>>
         /\ client.sent[1] # NoWrite =>
              LET i == Len(client.answers) + 1
              IN /\ client.handshake /\ Wire(client)
                 /\ i \in 1..Len(client.pipeline)
                 /\ client.sent[1] = client.pipeline[i].w
                 /\ client.sent[1] \in Writes
<1>0. /\ client \in ClientType /\ Conn(client) /\ client.pipeline \in Seq(Batch)
      /\ client.handshake \in BOOLEAN
  BY ClientFacts DEF ClientType
<1>1. /\ client.sent \in Seq(Writes \cup {NoWrite}) /\ client.answers \in Seq(Reply)
      /\ Len(client.answers) \in Nat /\ DOMAIN client.answers = 1..Len(client.answers)
  BY <1>0, LenProperties DEF ClientType
<1>2. client.sent # <<>> /\ \A i \in 1..Len(client.answers) : client.answers[i].kind # "refused"
  BY <1>1 DEF IsReading
<1>3. client.state = "Open"
  BY <1>0, <1>2 DEF Conn, Quiet
<1>4. Len(client.sent) \in Nat /\ 1 <= Len(client.sent) /\ Head(client.sent) = client.sent[1]
  BY <1>1, <1>2, EmptySeq
<1>5. CASE ~client.handshake
  <2>1. client.sent = <<NoWrite>> /\ client.answers = <<>>
    BY <1>0, <1>2, <1>3, <1>5 DEF Conn, WireInv, Greeting
  <2>2. client.sent[1] = NoWrite
    BY <2>1
  <2> QED
    BY <1>1, <1>2, <1>3, <1>4, <1>5, <2>1, <2>2
<1>6. CASE client.handshake
  <2>1. /\ Wire(client)
        /\ Len(client.answers) + Len(client.sent) = Len(client.pipeline)
        /\ \A i \in 1..Len(client.sent) :
             client.sent[i] = client.pipeline[Len(client.answers) + i].w
    BY <1>0, <1>2, <1>3, <1>6 DEF Conn, WireInv, Wire
  <2> DEFINE i == Len(client.answers) + 1
             n == Len(client.answers)
             m == Len(client.sent)
             p == Len(client.pipeline)
  <2>2. n \in Nat /\ m \in Nat /\ 1 <= m /\ n + m = p
    BY <1>1, <1>4, <2>1
  <2> HIDE DEF n, m, p
  <2>3. n + 1 \in 1..p /\ 1 \in 1..m
    BY <2>2
  <2>4. i \in 1..Len(client.pipeline) /\ client.sent[1] = client.pipeline[i].w
    BY <2>1, <2>3 DEF n, m, p
  <2>5. client.pipeline[i] \in Batch
    BY <1>0, <2>4, ElementOfSeq
  <2>6. client.sent[1] \in Writes
    BY <2>4, <2>5 DEF Batch
  <2>7. client.sent[1] # NoWrite
    BY <2>6, BoundsAreSizes DEF Writes, NoWrite
  <2> QED
    BY <1>1, <1>2, <1>3, <1>4, <1>6, <2>1, <2>4, <2>6, <2>7
<1> QED
  BY <1>0, <1>5, <1>6

\* What an answer makes of the client.
Answered(c, r) == [c EXCEPT !.sent = Tail(@), !.answers = Append(@, r)]

\* The client after the server answered its first request.
LEMMA AnsweredProperties ==
  ASSUME IInv, IsReading, NEW r \in Reply, r.w = client.sent[1],
         r.kind = "refused" \/ (r.w = NoWrite /\ r.kind = "hello") \/ (r.w # NoWrite /\ r.kind = "ok")
  PROVE  LET d == Answered(client, r)
             n == Len(client.answers)
         IN /\ d \in ClientType /\ Calls(d) /\ Conn(d) /\ Greeted(d) /\ NameInv(d)
            /\ d.pipeline = client.pipeline /\ d.user = client.user
            /\ n \in Nat /\ Len(d.answers) = n + 1
            /\ \A i \in 1..n : d.answers[i] = client.answers[i]
            /\ d.answers[n + 1] = r
<1> DEFINE c == client
           n == Len(client.answers)
           sent == Tail(client.sent)
           answers == Append(client.answers, r)
           d == Answered(client, r)
<1>0. /\ client \in ClientType /\ Calls(client) /\ Conn(client) /\ Greeted(client) /\ NameInv(client)
  BY ClientFacts
<1>1. /\ c.sent \in Seq(Writes \cup {NoWrite}) /\ c.answers \in Seq(Reply)
      /\ n \in Nat /\ c.state = "Open" /\ c.sent # <<>>
      /\ \A i \in 1..n : c.answers[i].kind # "refused"
      /\ c.sent[1] = NoWrite => ~c.handshake /\ c.sent = <<NoWrite>> /\ c.answers = <<>>
      /\ c.sent[1] # NoWrite =>
           /\ c.handshake /\ Wire(c)
           /\ n + 1 \in 1..Len(c.pipeline)
           /\ c.sent[1] = c.pipeline[n + 1].w
           /\ c.sent[1] \in Writes
  BY HeadOfRequests
<1>2. /\ sent \in Seq(Writes \cup {NoWrite})
      /\ Len(c.sent) \in Nat /\ 1 <= Len(c.sent) /\ Len(sent) = Len(c.sent) - 1
      /\ \A i \in 1..Len(sent) : sent[i] = c.sent[i + 1]
  BY <1>1, HeadTailProperties, EmptySeq
<1>3. /\ answers \in Seq(Reply) /\ Len(answers) = n + 1
      /\ \A i \in 1..n : answers[i] = c.answers[i]
      /\ answers[n + 1] = r
  BY <1>1, AppendProperties
<1>4. d = [client EXCEPT !.sent = sent, !.answers = answers]
  BY DEF Answered
<1> HIDE DEF sent, answers, d
<1>5. /\ d \in ClientType /\ SameCalls(c, d) /\ d.worker = c.worker /\ d.asks = c.asks
      /\ d.state = c.state /\ d.idle = c.idle /\ d.handshake = c.handshake
      /\ d.pipeline = c.pipeline /\ d.sent = sent /\ d.answers = answers
  BY <1>0, <1>2, <1>3, <1>4 DEF ClientType, SameCalls
<1>6. Calls(d)
  BY <1>0, <1>5, CalmIfSame, CalmKeepsCalls
<1>7. Quiet(d) /\ Busy(d) /\ Idle(d) /\ OneToken(d) /\ Greeted(d) /\ NameInv(d)
  BY <1>0, <1>1, <1>5 DEF Conn, Quiet, Busy, Idle, OneToken, Greeted, NameInv, SameCalls
<1>8. WireInv(d)
  <2>1. CASE c.sent[1] = NoWrite
    <3>1. ~c.handshake /\ Len(c.sent) = 1 /\ n = 0
      BY <1>1, <2>1, EmptySeq
    <3>2. d.sent = <<>> /\ Len(d.answers) = 1 /\ d.answers[1] = r
      BY <1>2, <1>3, <1>5, <3>1, EmptySeq
    <3> QED
      BY <1>5, <2>1, <3>1, <3>2 DEF WireInv, Greeting
  <2>2. CASE c.sent[1] # NoWrite
    <3> DEFINE m == Len(c.sent)
               p == Len(c.pipeline)
    <3>1. /\ c.handshake /\ n + m = p
          /\ \A i \in 1..n : c.answers[i].kind # "hello" /\ c.answers[i].w = c.pipeline[i].w
          /\ \A i \in 1..m : c.sent[i] = c.pipeline[n + i].w
          /\ n + 1 \in 1..p /\ c.sent[1] = c.pipeline[n + 1].w
      BY <1>1, <2>2 DEF Wire
    <3>2. n \in Nat /\ m \in Nat /\ 1 <= m /\ p \in Nat
      BY <1>1, <1>2, <3>1
    <3>3. Len(d.answers) = n + 1 /\ Len(d.sent) = m - 1 /\ Len(d.pipeline) = p
      BY <1>2, <1>3, <1>5
    <3>4. r.kind # "hello" /\ r.w = c.pipeline[n + 1].w
      BY <2>2, <3>1
    <3> HIDE DEF n, m, p
    <3>5. Len(d.answers) <= Len(d.pipeline) /\ Len(d.answers) + Len(d.sent) = Len(d.pipeline)
      BY <3>1, <3>2, <3>3
    <3>6. ASSUME NEW i \in 1..(n + 1)
          PROVE  d.answers[i].kind # "hello" /\ d.answers[i].w = d.pipeline[i].w
      <4>1. CASE i \in 1..n
        BY <1>3, <1>5, <3>1, <4>1
      <4>2. CASE i = n + 1
        BY <1>3, <1>5, <3>4, <4>2
      <4> QED
        BY <3>2, <4>1, <4>2
    <3>7. ASSUME NEW i \in 1..(m - 1)
          PROVE  d.sent[i] = d.pipeline[(n + 1) + i].w
      <4>1. i + 1 \in 1..m /\ n + (i + 1) = (n + 1) + i
        BY <3>2
      <4>2. d.sent[i] = c.sent[i + 1]
        BY <1>2, <1>5 DEF m
      <4> QED
        BY <1>5, <3>1, <4>1, <4>2
    <3> QED
      BY <1>5, <3>1, <3>3, <3>5, <3>6, <3>7 DEF WireInv, Wire
  <2> QED
    BY <2>1, <2>2
<1>9. Conn(d)
  BY <1>7, <1>8 DEF Conn
<1> QED
  BY <1>1, <1>3, <1>5, <1>6, <1>7, <1>9 DEF d, SameCalls

\* Answers before the new one say what they said.
LEMMA ServerStep ==
  ASSUME IInv, IsReading, NEW r \in Reply, r.w = client.sent[1],
         r.kind = "refused" \/ (r.w = NoWrite /\ r.kind = "hello") \/ (r.w # NoWrite /\ r.kind = "ok"),
         client' = Answered(client, r), UNCHANGED <<app, disk, history>>,
         faults' \in 0..MaxFaults, refused' \in SUBSET Writes, refused \subseteq refused',
         commits' \in Seq([w : Writes, name : Users]), Len(commits) <= Len(commits'),
         \A n \in 1..Len(commits) : commits'[n] = commits[n],
         r.kind = "ok" => r.version \in 1..Len(commits') /\ commits'[r.version].w = r.w,
         r.kind = "refused" /\ r.w # NoWrite => r.w \in refused',
         \A n \in 1..Len(commits') : n > Len(commits) =>
           /\ commits'[n].w <= Len(writes)
           /\ commits'[n].name = writes[commits'[n].w].user
  PROVE  IInv'
<1> DEFINE d == Answered(client, r)
           n == Len(client.answers)
<1>0. /\ d \in ClientType /\ Calls(d) /\ Conn(d) /\ Greeted(d) /\ NameInv(d)
      /\ d.pipeline = client.pipeline /\ d.user = client.user
      /\ n \in Nat /\ Len(d.answers) = n + 1
      /\ \A i \in 1..n : d.answers[i] = client.answers[i]
      /\ d.answers[n + 1] = r
  BY AnsweredProperties
<1>1. /\ Typed /\ AnswersInv(client) /\ client' = d
      /\ UNCHANGED <<auth, signIns, writes, queue, cache, seen, settled, told>>
  BY DEF IInv, app, disk, history
<1> HIDE DEF d, n
<1>2. /\ Len(commits) \in Nat /\ Len(commits') \in Nat
      /\ DOMAIN commits = 1..Len(commits) /\ DOMAIN commits' = 1..Len(commits')
      /\ \A i \in 1..Len(commits) : i \in 1..Len(commits')
  BY <1>1, LenProperties DEF Typed
<1>3. Typed'
  <2>1. seen' \in 0..Len(commits')
    BY <1>1, <1>2 DEF Typed
  <2> QED
    BY <1>0, <1>1, <2>1 DEF Typed
<1>4. Calls(client)'
  BY <1>0, <1>1, SameCallsLater
<1>5. Conn(client)' /\ Greeted(client)' /\ NameInv(client)'
  BY <1>0, <1>1, SameConnLater
<1>6. PipelineIsFront'
  BY <1>0, <1>1 DEF IInv, PipelineIsFront
<1>7. AnswersInv(client)'
  <2>1. ASSUME NEW i \in 1..(n + 1)
        PROVE  LET a == d.answers[i]
               IN /\ a.kind = "ok" => a.version \in 1..Len(commits') /\ commits'[a.version].w = a.w
                  /\ a.kind = "refused" /\ a.w # NoWrite => a.w \in refused'
    <3>1. CASE i \in 1..n
      <4> DEFINE a == client.answers[i]
      <4>1. d.answers[i] = a
        BY <1>0, <3>1
      <4>2. /\ a.kind = "ok" => a.version \in 1..Len(commits) /\ commits[a.version].w = a.w
            /\ a.kind = "refused" /\ a.w # NoWrite => a.w \in refused
        BY <1>1, <3>1 DEF AnswersInv, n
      <4> HIDE DEF a
      <4>3. a.kind = "ok" => a.version \in 1..Len(commits') /\ commits'[a.version].w = a.w
        BY <1>2, <4>2
      <4> QED
        BY <4>1, <4>2, <4>3
    <3>2. CASE i = n + 1
      BY <1>0, <3>2
    <3> QED
      BY <1>0, <3>1, <3>2
  <2> QED
    BY <1>0, <1>1, <2>1 DEF AnswersInv
<1>8. CommitsInv'
  BY <1>1, <1>2 DEF IInv, CommitsInv
<1>9. TruthfulAnswers'
  BY <1>1, <1>2 DEF IInv, TruthfulAnswers
<1>10. ReadYourWrites'
  BY <1>1, <1>2 DEF IInv, ReadYourWrites
<1> QED
  BY <1>3, <1>4, <1>5, <1>6, <1>7, <1>8, <1>9, <1>10 DEF IInv

\* The server accepts the handshake.
LEMMA AnswerHandshakeStep == IInv /\ AnswerHandshake => IInv'
<1> SUFFICES ASSUME IInv, AnswerHandshake PROVE IInv'
  OBVIOUS
<1> DEFINE r == [kind |-> "hello", w |-> NoWrite, version |-> 0]
<1>1. r \in Reply /\ r.w = NoWrite /\ r.kind = "hello"
  BY DEF Reply
<1>2. IsReading /\ client.sent[1] = NoWrite /\ client' = Answered(client, r)
  BY HeadOfRequests DEF AnswerHandshake, Answer, Answered
<1>3. /\ UNCHANGED <<app, disk, history, commits, refused, faults>> /\ faults' \in 0..MaxFaults
      /\ refused \in SUBSET Writes /\ commits \in Seq([w : Writes, name : Users])
      /\ Len(commits) \in Nat
  BY LenProperties DEF AnswerHandshake, server, IInv, Typed
<1> HIDE DEF r
<1>4. \A n \in 1..Len(commits') : ~(n > Len(commits))
  BY <1>3
<1>5. /\ r.w = client.sent[1] /\ refused' \in SUBSET Writes /\ refused \subseteq refused'
      /\ commits' \in Seq([w : Writes, name : Users]) /\ Len(commits) <= Len(commits')
      /\ \A n \in 1..Len(commits) : commits'[n] = commits[n]
  BY <1>1, <1>2, <1>3
<1> QED
  BY <1>1, <1>2, <1>3, <1>4, <1>5, ServerStep

\* The server refuses the handshake.
LEMMA RefuseHandshakeStep == IInv /\ RefuseHandshake => IInv'
<1> SUFFICES ASSUME IInv, RefuseHandshake PROVE IInv'
  OBVIOUS
<1> DEFINE r == [kind |-> "refused", w |-> NoWrite, version |-> 0]
<1>1. r \in Reply /\ r.w = NoWrite /\ r.kind = "refused"
  BY DEF Reply
<1>2. IsReading /\ client.sent[1] = NoWrite /\ client' = Answered(client, r)
  BY HeadOfRequests DEF RefuseHandshake, Answer, Answered
<1>3. /\ UNCHANGED <<app, disk, history, commits, refused>> /\ faults' \in 0..MaxFaults
      /\ refused \in SUBSET Writes /\ commits \in Seq([w : Writes, name : Users])
      /\ Len(commits) \in Nat
  BY LenProperties, FaultIsCounted DEF RefuseHandshake, server, IInv, Typed
<1> HIDE DEF r
<1>4. \A n \in 1..Len(commits') : ~(n > Len(commits))
  BY <1>3
<1>5. /\ r.w = client.sent[1] /\ refused' \in SUBSET Writes /\ refused \subseteq refused'
      /\ commits' \in Seq([w : Writes, name : Users]) /\ Len(commits) <= Len(commits')
      /\ \A n \in 1..Len(commits) : commits'[n] = commits[n]
  BY <1>1, <1>2, <1>3
<1> QED
  BY <1>1, <1>2, <1>3, <1>4, <1>5, ServerStep

\* The server refuses a write.
LEMMA RefuseStep == IInv /\ Refuse => IInv'
<1> SUFFICES ASSUME IInv, Refuse PROVE IInv'
  OBVIOUS
<1> DEFINE w == client.sent[1]
           r == [kind |-> "refused", w |-> w, version |-> 0]
<1>0. IsReading /\ Head(client.sent) # NoWrite
  BY DEF Refuse
<1>1. w \in Writes /\ Head(client.sent) = w
  BY <1>0, HeadOfRequests
<1>2. r \in Reply /\ r.w = w /\ r.kind = "refused"
  BY <1>1 DEF Reply
<1>3. client' = Answered(client, r) /\ refused' = refused \cup {w}
  BY <1>1 DEF Refuse, Answer, Answered
<1>4. /\ UNCHANGED <<app, disk, history, commits, faults>> /\ faults' \in 0..MaxFaults
      /\ refused \in SUBSET Writes /\ commits \in Seq([w : Writes, name : Users])
      /\ Len(commits) \in Nat
  BY LenProperties DEF Refuse, IInv, Typed
<1>5. refused' \in SUBSET Writes /\ refused \subseteq refused' /\ w \in refused'
  BY <1>1, <1>3, <1>4
<1> HIDE DEF r
<1>6. \A n \in 1..Len(commits') : ~(n > Len(commits))
  BY <1>4
<1>7. /\ r.w = client.sent[1] /\ r.w \in refused'
      /\ commits' \in Seq([w : Writes, name : Users]) /\ Len(commits) <= Len(commits')
      /\ \A n \in 1..Len(commits) : commits'[n] = commits[n]
  BY <1>2, <1>4, <1>5
<1> QED
  BY <1>0, <1>2, <1>3, <1>4, <1>5, <1>6, <1>7, ServerStep

\* The write that is applied is of the user whose name the stream bears.
LEMMA CommitStep == IInv /\ Commit => IInv'
<1> SUFFICES ASSUME IInv, Commit PROVE IInv'
  OBVIOUS
<1> DEFINE w == client.sent[1]
           i == Len(client.answers) + 1
           new == [w |-> w, name |-> client.name]
           r == [kind |-> "ok", w |-> w, version |-> Len(commits) + 1]
<1>0. IsReading /\ Head(client.sent) # NoWrite
  BY DEF Commit
<1>1. /\ w \in Writes /\ Head(client.sent) = w /\ w # NoWrite /\ client.state = "Open"
      /\ i \in 1..Len(client.pipeline) /\ w = client.pipeline[i].w
  BY <1>0, HeadOfRequests
<1>2. /\ client \in ClientType /\ client.user \in Users /\ IsQueue(queue[client.user])
      /\ client.pipeline = Beginning(queue[client.user]) /\ client.name = client.user
      /\ faults \in 0..MaxFaults /\ QueueInv(client)
  BY <1>1, ClientFacts DEF NameInv, Calls
<1>3. w <= Len(writes) /\ writes[w].user = client.name
  <2> DEFINE q == queue[client.user]
  <2>1. /\ Len(Beginning(q)) = IF Len(q) <= MaxPendingWrites THEN Len(q) ELSE MaxPendingWrites
        /\ \A j \in 1..Len(Beginning(q)) : Beginning(q)[j] = q[j]
        /\ Len(q) \in Nat /\ MaxPendingWrites \in Nat
    BY <1>2, BeginningProperties, QueueFacts, BoundsAreSizes
  <2> HIDE DEF q, i
  <2>2. i \in 1..Len(q) /\ client.pipeline[i] = q[i]
    BY <1>1, <1>2, <2>1 DEF q
  <2> QED
    BY <1>1, <1>2, <2>2 DEF QueueInv, q
<1>4. /\ commits \in Seq([w : Writes, name : Users]) /\ refused \in SUBSET Writes
      /\ Len(commits) \in Nat /\ new \in [w : Writes, name : Users]
  BY <1>1, <1>2, LenProperties DEF IInv, Typed
<1>5. /\ commits' \in Seq([w : Writes, name : Users]) /\ Len(commits') = Len(commits) + 1
      /\ \A n \in 1..Len(commits) : commits'[n] = commits[n]
      /\ commits'[Len(commits) + 1] = new
  <2>1. commits' = Append(commits, new)
    BY <1>1 DEF Commit
  <2> QED
    BY <1>4, <2>1, AppendProperties
<1>6. r \in Reply /\ r.w = w /\ r.kind = "ok" /\ r.version = Len(commits) + 1
  BY <1>1, <1>4 DEF Reply
<1>7. /\ client' = Answered(client, r)
      /\ UNCHANGED <<app, disk, history, refused, faults>> /\ faults' \in 0..MaxFaults
  BY <1>1, <1>2, <1>5 DEF Commit, Answer, Answered
<1>8. /\ Len(commits) <= Len(commits') /\ Len(commits) + 1 \in 1..Len(commits')
      /\ \A n \in 1..Len(commits') : n > Len(commits) => n = Len(commits) + 1
  BY <1>4, <1>5
<1>9. new.w = w /\ new.name = client.name /\ r.kind # "refused"
  BY <1>6
<1> HIDE DEF r, new, w, i
<1>10. \A n \in 1..Len(commits') : n > Len(commits) =>
           /\ commits'[n].w <= Len(writes)
           /\ commits'[n].name = writes[commits'[n].w].user
  BY <1>3, <1>5, <1>8, <1>9
<1>11. /\ r.version \in 1..Len(commits') /\ commits'[r.version].w = r.w
       /\ refused' \in SUBSET Writes /\ refused \subseteq refused'
  BY <1>4, <1>5, <1>6, <1>7, <1>8, <1>9
<1>12. r.w = client.sent[1] /\ r.w # NoWrite
  BY <1>1, <1>6 DEF w
<1> QED
  BY <1>0, <1>5, <1>6, <1>7, <1>8, <1>9, <1>10, <1>11, <1>12, ServerStep

\* The handshake is over: the pipeline is sent.
LEMMA HandshakeCompleteStep == IInv /\ OnWriteStreamHandshakeComplete => IInv'
<1> SUFFICES ASSUME IInv, OnWriteStreamHandshakeComplete PROVE IInv'
  OBVIOUS
<1> DEFINE c == client
           sent == WritesOf(client.pipeline)
           d == [client EXCEPT !.answers = <<>>, !.handshake = TRUE, !.sent = sent, !.idle = FALSE]
<1>0. /\ client \in ClientType /\ Calls(client) /\ Conn(client) /\ NameInv(client)
      /\ client.pipeline = Beginning(queue[client.user])
      /\ faults' \in 0..MaxFaults /\ UNCHANGED <<app, disk, server, history>>
  BY ClientFacts DEF OnWriteStreamHandshakeComplete
<1>1. /\ c.answers \in Seq(Reply) /\ c.pipeline \in Seq(Batch) /\ Len(c.answers) \in Nat
      /\ c.handshake \in BOOLEAN
  BY <1>0, LenProperties DEF ClientType
<1>2. c.answers # <<>> /\ c.answers[1].kind = "hello" /\ 1 <= Len(c.answers)
  BY <1>1, EmptySeq DEF OnWriteStreamHandshakeComplete, IsAnswer
<1>3. c.state = "Open"
  BY <1>0, <1>2 DEF Conn, Quiet
<1>4. ~c.handshake
  <2>1. 1 \in 1..Len(c.answers)
    BY <1>1, <1>2
  <2> QED
    BY <1>0, <1>2, <1>3, <2>1 DEF Conn, WireInv, Wire
<1>5. c.sent = <<>> /\ Len(c.answers) = 1
  BY <1>0, <1>2, <1>3, <1>4 DEF Conn, WireInv, Greeting
<1>6. Tail(c.answers) = <<>>
  <2>1. Tail(c.answers) \in Seq(Reply) /\ Len(Tail(c.answers)) = 0
    BY <1>1, <1>2, <1>5, HeadTailProperties
  <2> QED
    BY <2>1, EmptySeq
<1>7. c.pipeline # <<>>
  BY <1>0, <1>3, <1>4 DEF Conn, Busy
<1>8. /\ sent \in Seq(Writes) /\ sent # <<>> /\ Len(sent) = Len(c.pipeline)
      /\ \A i \in 1..Len(c.pipeline) : sent[i] = c.pipeline[i].w
  BY <1>1, <1>7, WritesOfBatches
<1>9. sent \in Seq(Writes \cup {NoWrite}) /\ <<>> \in Seq(Reply) /\ Len(<<>>) = 0
  BY <1>8, SeqMonotonic, EmptySeq
<1>10. client' = d
  <2> DEFINE b == [client EXCEPT !.answers = <<>>, !.handshake = TRUE]
  <2>1. client' = WriteMutations(b, client.pipeline)
    BY <1>6 DEF OnWriteStreamHandshakeComplete
  <2>2. b \in ClientType /\ b.state = "Open" /\ b.handshake /\ b.sent = <<>>
    BY <1>0, <1>3, <1>5, <1>9 DEF ClientType
  <2> HIDE DEF b
  <2>3. client' = Wrote([b EXCEPT !.sent = <<>> \o sent])
    BY <1>8, <2>1, <2>2 DEF WriteMutations, IsOpen, Send
  <2>4. <<>> \o sent = sent
    BY <1>9, ConcatEmptySeq
  <2>5. client' = [b EXCEPT !.sent = sent, !.idle = FALSE]
    BY <2>2, <2>3, <2>4 DEF Wrote, ClientType
  <2> QED
    BY <1>0, <2>5 DEF b, ClientType
<1> HIDE DEF sent, d
<1>11. /\ d \in ClientType /\ SameCalls(c, d) /\ d.worker = c.worker /\ d.asks = c.asks
       /\ d.state = c.state /\ d.pipeline = c.pipeline
       /\ d.handshake = TRUE /\ d.sent = sent /\ d.answers = <<>> /\ d.idle = FALSE
  BY <1>0, <1>9 DEF d, ClientType, SameCalls
<1>12. Calls(d)
  BY <1>0, <1>11, CalmIfSame, CalmKeepsCalls
<1>13. Quiet(d) /\ Busy(d) /\ Idle(d) /\ OneToken(d) /\ Greeted(d) /\ NameInv(d)
  BY <1>0, <1>3, <1>11 DEF Conn, Quiet, Busy, Idle, OneToken, Greeted, NameInv, SameCalls
<1>14. WireInv(d)
  <2> DEFINE p == Len(c.pipeline)
  <2>1. p \in Nat /\ Len(sent) = p /\ Len(d.answers) = 0 /\ Len(d.sent) = p /\ Len(d.pipeline) = p
    BY <1>1, <1>8, <1>9, <1>11, LenProperties
  <2> HIDE DEF p
  <2>2. Len(d.answers) <= Len(d.pipeline) /\ Len(d.answers) + Len(d.sent) = Len(d.pipeline)
    BY <2>1
  <2>3. \A i \in 1..p : 0 + i = i /\ d.sent[i] = d.pipeline[i].w
    BY <1>8, <1>11, <2>1 DEF p
  <2> QED
    BY <1>11, <2>1, <2>2, <2>3 DEF WireInv, Wire
<1>15. AnswersInv(d) /\ d.pipeline = Beginning(queue[d.user])
  BY <1>0, <1>9, <1>11 DEF AnswersInv, SameCalls
<1> QED
  BY <1>0, <1>10, <1>11, <1>12, <1>13, <1>14, <1>15, ClientStep DEF Conn

-----------------------------------------------------------------------------
(* Snapshots                                                                 *)

\* A snapshot never takes a document back.
LEMMA ApplyRemoteEventStep ==
  ASSUME NEW v \in seen..Len(commits), NEW K \in SUBSET Keys
  PROVE  IInv /\ ApplyRemoteEvent(v, K) => IInv'
<1> SUFFICES ASSUME IInv, ApplyRemoteEvent(v, K) PROVE IInv'
  OBVIOUS
<1> DEFINE versions(k) == {0} \cup {n \in 1..v : writes[commits[n].w].key = k}
<1>0. /\ Typed /\ UNCHANGED <<auth, signIns, writes, client, queue, commits, refused, settled, told, faults>>
      /\ seen' = v
      /\ cache' = [k \in Keys |-> IF k \in K THEN Max({cache[k], Max(versions(k))}) ELSE cache[k]]
  BY DEF IInv, ApplyRemoteEvent, app, server, history
<1>1. Len(commits) \in Nat /\ seen \in Nat /\ v \in Nat /\ v \in 0..Len(commits)
  BY <1>0, LenProperties DEF Typed
<1>2. \A k \in Keys : Max(versions(k)) \in Nat
  <2> TAKE k \in Keys
  <2>1. versions(k) \in SUBSET Nat /\ versions(k) # {} /\ \A n \in versions(k) : n <= v
    BY <1>1
  <2> HIDE DEF versions
  <2>2. Max(versions(k)) \in versions(k)
    BY <1>1, <2>1, MaxProperties
  <2> QED
    BY <2>1, <2>2
<1> HIDE DEF versions
<1>3. \A k \in Keys : cache[k] \in Nat
  BY <1>0 DEF Typed
<1>4. \A k \in Keys : /\ Max({cache[k], Max(versions(k))}) \in Nat
                      /\ cache[k] <= Max({cache[k], Max(versions(k))})
  BY <1>2, <1>3, MaxOfTwo
<1>5. cache' \in [Keys -> Nat] /\ \A k \in Keys : cache[k] <= cache'[k]
  BY <1>0, <1>3, <1>4
<1>6. Typed'
  BY <1>0, <1>1, <1>5 DEF Typed
<1>7. Calls(client)'
  BY <1>0, SameCallsLater DEF IInv
<1>8. Conn(client)' /\ Greeted(client)' /\ NameInv(client)' /\ PipelineIsFront' /\ AnswersInv(client)'
  BY <1>0, SameConnLater DEF IInv, PipelineIsFront, AnswersInv
<1>9. CommitsInv' /\ TruthfulAnswers'
  BY <1>0 DEF IInv, CommitsInv, TruthfulAnswers
<1>10. ReadYourWrites'
  <2>1. ASSUME NEW w \in 1..Len(writes), settled[w] = "ok"
        PROVE  \E n \in DOMAIN commits : commits[n].w = w /\ cache'[writes[w].key] >= n
    <3>1. PICK n \in DOMAIN commits : commits[n].w = w /\ cache[writes[w].key] >= n
      BY <2>1 DEF IInv, ReadYourWrites
    <3>2. n \in Nat
      <4>1. commits \in Seq([w : Writes, name : Users])
        BY <1>0 DEF Typed
      <4>2. DOMAIN commits = 1..Len(commits)
        BY <4>1, LenProperties
      <4> QED
        BY <1>1, <4>2
    <3>3. writes[w].key \in Keys
      <4>1. writes[w] \in [user : Users, key : Keys]
        BY <1>0, ElementOfSeq DEF Typed
      <4> QED
        BY <4>1
    <3>4. cache'[writes[w].key] >= n
      BY <1>3, <1>5, <3>1, <3>2, <3>3
    <3> QED
      BY <3>1, <3>4
  <2> QED
    BY <1>0, <2>1 DEF ReadYourWrites
<1> QED
  BY <1>6, <1>7, <1>8, <1>9, <1>10 DEF IInv

-----------------------------------------------------------------------------
(* The launch                                                                *)

\* A client that has loaded nothing yet.
Fresh(user, id) ==
  [user |-> user, worker |-> <<>>, asks |-> {}, state |-> "Initial", idle |-> FALSE,
   handshake |-> FALSE, name |-> user, pipeline |-> <<>>, sent |-> <<>>,
   answers |-> <<>>, callbacks |-> {}, nextId |-> id]

\* The client of a new process is in order.
LEMMA FreshProperties ==
  ASSUME auth \in Users, NEW id \in Nat
  PROVE  LET c == Fresh(auth, id)
         IN /\ c \in ClientType /\ Conn(c) /\ Effects(c) /\ CallbacksIn(c)
            /\ c.worker = <<>> /\ Len(c.worker) = 0 /\ c.pipeline = <<>> /\ c.user = auth
            /\ c.name = auth /\ ~c.handshake /\ c.answers = <<>> /\ c.nextId = id
            /\ c.state = "Initial"
<1> DEFINE c == Fresh(auth, id)
<1>1. /\ <<>> \in Seq(Task) /\ <<>> \in Seq(Batch) /\ <<>> \in Seq(Reply)
      /\ <<>> \in Seq(Writes \cup {NoWrite}) /\ Len(<<>>) = 0
  BY EmptySeq
<1>2. {} \in SUBSET Ask /\ {} \in SUBSET [user : Users, id : Nat, w : Writes] /\ "Initial" \in StreamStates
  BY DEF StreamStates
<1>3. c \in ClientType
  BY <1>1, <1>2 DEF Fresh, ClientType
<1>4. /\ c.worker = <<>> /\ c.asks = {} /\ c.pipeline = <<>> /\ c.user = auth
      /\ c.name = auth /\ ~c.handshake /\ ~c.idle /\ c.answers = <<>> /\ c.sent = <<>>
      /\ c.callbacks = {} /\ c.nextId = id /\ c.state = "Initial"
  BY DEF Fresh
<1> HIDE DEF c
<1>5. Conn(c)
  BY <1>1, <1>4 DEF Conn, Quiet, Busy, Idle, OneToken, WireInv
<1>6. Effects(c)
  BY <1>1, <1>4 DEF Effects, InEffect
<1>7. CallbacksIn(c)
  BY <1>4 DEF CallbacksIn
<1> QED
  BY <1>1, <1>3, <1>4, <1>5, <1>6, <1>7 DEF c

\* A client launched with the queue on disk.
LEMMA LaunchedProperties ==
  ASSUME auth \in Users, \A u \in Users : IsQueue(queue[u]), NextBatchId(queue) \in Nat,
         LET c == Fresh(auth, NextBatchId(queue)) IN QueueInv(c) /\ TasksInv(c)
  PROVE  LET d == Launched(auth)
         IN /\ d \in ClientType /\ Calls(d) /\ Conn(d) /\ Greeted(d) /\ NameInv(d) /\ AnswersInv(d)
            /\ d.pipeline = Beginning(queue[d.user])
<1> DEFINE c == Fresh(auth, NextBatchId(queue))
           q == queue[auth]
           d == FillWritePipeline(c, q)
<1>1. /\ c \in ClientType /\ Conn(c) /\ Effects(c) /\ CallbacksIn(c)
      /\ c.pipeline = <<>> /\ c.user = auth /\ c.name = auth /\ ~c.handshake /\ c.answers = <<>>
      /\ c.state = "Initial"
  BY FreshProperties
<1>2. Launched(auth) = d
  BY DEF Launched, Fresh
<1>3. QueueInv(c) /\ TasksInv(c)
  OBVIOUS
<1>4. IsQueue(q)
  OBVIOUS
<1> HIDE DEF c, q
<1>5. Len(q) \in Nat /\ 0 \in 0..Len(q) /\ 0 <= MaxPendingWrites /\ c.pipeline = SubSeq(q, 1, 0)
  BY <1>1, <1>4, QueueFacts, BoundsAreSizes, SubSeqEmpty
<1>6. FillOf(c, q, 0, d) /\ Conn(d)
  BY <1>1, <1>4, <1>5, FillProperties, FillKeeps
<1> HIDE DEF d
<1>7. Calls(d)
  <2>1. Calls(c)
    BY <1>1, <1>3 DEF Calls
  <2> QED
    BY <1>6, <2>1, FillIsCalm, CalmKeepsCalls
<1>8. /\ d \in ClientType /\ d.user = auth /\ d.name = auth /\ ~d.handshake /\ d.answers = <<>>
      /\ d.pipeline = Beginning(q)
  BY <1>1, <1>6 DEF FillOf, SameCalls
<1>9. Greeted(d) /\ NameInv(d) /\ AnswersInv(d)
  BY <1>8, EmptySeq DEF Greeted, NameInv, AnswersInv
<1> QED
  BY <1>2, <1>6, <1>7, <1>8, <1>9 DEF q

\* After a launch the ids may start anew: no queue has them, and no completion is left.
LEMMA CrashStep == IInv /\ Crash => IInv'
<1> SUFFICES ASSUME IInv, Crash PROVE IInv'
  OBVIOUS
<1> DEFINE c == Fresh(auth, NextBatchId(queue))
<1>0. /\ Typed /\ queue \in [Users -> Seq(Batch)] /\ client \in ClientType /\ auth \in Users
      /\ Calls(client) /\ client.nextId \in Nat
      /\ 1 <= client.nextId /\ client.nextId <= Len(writes) + 1 /\ Len(writes) \in Nat
      /\ \A w \in Writes : settled[w] # "none" => w <= Len(writes)
      /\ \A u \in Users : IsQueue(queue[u])
  BY ClientFacts, LenProperties DEF IInv, Typed, ClientType, Calls, TasksInv
<1>1. /\ NextBatchId(queue) \in Nat
      /\ 1 <= NextBatchId(queue) /\ NextBatchId(queue) <= client.nextId
      /\ \A u \in Users : \A i \in 1..Len(queue[u]) : queue[u][i].id < NextBatchId(queue)
  BY <1>0, NextBatchIdProperties DEF Calls
<1>2. c.nextId = NextBatchId(queue) /\ Len(c.worker) = 0
  BY <1>0, <1>1, FreshProperties
<1> HIDE DEF c
<1>3. QueueInv(c)
  BY <1>0, <1>1, <1>2 DEF Calls, QueueInv
<1>4. TasksInv(c)
  <2>1. c.nextId <= Len(writes) + 1
    BY <1>0, <1>1, <1>2
  <2> QED
    BY <1>0, <1>1, <1>2, <2>1 DEF TasksInv
<1>5. LET d == Launched(auth)
      IN /\ d \in ClientType /\ Calls(d) /\ Conn(d) /\ Greeted(d) /\ NameInv(d) /\ AnswersInv(d)
         /\ d.pipeline = Beginning(queue[d.user])
  BY <1>0, <1>1, <1>3, <1>4, LaunchedProperties DEF c
<1>6. client' = Launched(auth) /\ UNCHANGED <<app, disk, server, history>> /\ faults' \in 0..MaxFaults
  BY FaultIsCounted DEF Crash
<1> QED
  BY <1>5, <1>6, ClientStep

\* The initial states satisfy the inductive invariant.
LEMMA InitIInv == Init => IInv
<1> SUFFICES ASSUME Init PROVE IInv
  OBVIOUS
<1> DEFINE c == Fresh(auth, NextBatchId(queue))
           none == [nextId |-> 1]
<1>0. /\ auth \in Users /\ signIns = 0 /\ writes = <<>> /\ queue = [u \in Users |-> <<>>]
      /\ client = Launched(auth) /\ cache = [k \in Keys |-> 0] /\ seen = 0 /\ commits = <<>>
      /\ refused = {} /\ settled = [w \in Writes |-> "none"] /\ told = [w \in Writes |-> "none"]
      /\ faults = 0
  BY DEF Init
<1>1. /\ <<>> \in Seq(Batch) /\ <<>> \in Seq([user : Users, key : Keys])
      /\ <<>> \in Seq([w : Writes, name : Users]) /\ Len(<<>>) = 0
  BY EmptySeq
<1>2. /\ queue \in [Users -> Seq(Batch)]
      /\ \A u \in Users : Len(queue[u]) = 0
      /\ Len(writes) = 0 /\ Len(commits) = 0
  BY <1>0, <1>1
<1>3. \A x : QueueInv(x)
  BY <1>2 DEF QueueInv, InOrder
<1>4. \A u \in Users : IsQueue(queue[u])
  BY <1>2, <1>3, QueuesAreQueues
<1>5. NextBatchId(queue) \in Nat /\ 1 <= NextBatchId(queue) /\ NextBatchId(queue) <= 1
  <2>1. none.nextId = 1 /\ QueueInv(none)
    BY <1>3
  <2> HIDE DEF none
  <2> QED
    BY <1>2, <2>1, NextBatchIdProperties
<1>6. c.nextId = NextBatchId(queue) /\ Len(c.worker) = 0
  BY <1>0, <1>5, FreshProperties
<1> HIDE DEF c
<1>7. TasksInv(c)
  <2>1. c.nextId <= Len(writes) + 1 /\ \A w \in Writes : settled[w] = "none"
    BY <1>0, <1>2, <1>5, <1>6
  <2> QED
    BY <1>5, <1>6, <2>1 DEF TasksInv
<1>8. LET d == Launched(auth)
      IN /\ d \in ClientType /\ Calls(d) /\ Conn(d) /\ Greeted(d) /\ NameInv(d) /\ AnswersInv(d)
         /\ d.pipeline = Beginning(queue[d.user])
  BY <1>0, <1>3, <1>4, <1>5, <1>7, LaunchedProperties DEF c
<1>9. Typed
  BY <1>0, <1>1, <1>2, <1>8, BoundsAreSizes DEF Typed
<1>10. CommitsInv /\ TruthfulAnswers /\ ReadYourWrites
  BY <1>0, <1>2 DEF CommitsInv, TruthfulAnswers, ReadYourWrites
<1> QED
  BY <1>0, <1>8, <1>9, <1>10 DEF IInv, PipelineIsFront, Beginning

-----------------------------------------------------------------------------
(* Batches in and out of the queue                                           *)

\* The same connection, whatever the calls.
LEMMA LikeConn ==
  ASSUME NEW c, NEW d, Conn(c), OneToken(d),
         d.state = c.state, d.idle = c.idle, d.handshake = c.handshake,
         d.pipeline = c.pipeline, d.sent = c.sent, d.answers = c.answers
  PROVE  Conn(d)
<1>1. Quiet(d) /\ Busy(d) /\ Idle(d)
  BY DEF Conn, Quiet, Busy, Idle
<1>2. Wire(c) => Wire(d)
  BY DEF Wire
<1>3. Greeting(c) => Greeting(d)
  BY DEF Greeting
<1>4. WireInv(d)
  BY <1>2, <1>3 DEF Conn, WireInv
<1> QED
  BY <1>1, <1>4 DEF Conn

\* A batch put at the end of a queue.
LEMMA AppendToQueue ==
  ASSUME NEW q, IsQueue(q), NEW b \in Batch, 1 <= b.id,
         \A i \in 1..Len(q) : q[i].id < b.id /\ q[i].w < b.w
  PROVE  /\ IsQueue(Append(q, b))
         /\ Len(Append(q, b)) = Len(q) + 1
         /\ \A i \in 1..Len(q) : Append(q, b)[i] = q[i]
         /\ Append(q, b)[Len(q) + 1] = b
         /\ Len(Beginning(q)) \in 0..(Len(q) + 1) /\ Len(Beginning(q)) <= MaxPendingWrites
         /\ Beginning(q) = SubSeq(Append(q, b), 1, Len(Beginning(q)))
<1> DEFINE p == Append(q, b)
           n == Len(q)
           m == Len(Beginning(q))
<1>1. /\ q \in Seq(Batch) /\ n \in Nat /\ MaxPendingWrites \in Nat
      /\ \A i, j \in 1..n : i < j => q[i].id < q[j].id /\ q[i].w < q[j].w
      /\ \A i \in 1..n : 1 <= q[i].id
  BY QueueFacts, BoundsAreSizes DEF IsQueue, InOrder
<1>2. /\ p \in Seq(Batch) /\ Len(p) = n + 1 /\ \A i \in 1..n : p[i] = q[i]
      /\ p[n + 1] = b
  BY <1>1, AppendProperties
<1> HIDE DEF p
<1>3. \A i \in 1..(n + 1) : i \in 1..n \/ i = n + 1
  BY <1>1
<1>4. InOrder(p)
  <2>1. ASSUME NEW i \in 1..(n + 1), NEW j \in 1..(n + 1), i < j
        PROVE  p[i].id < p[j].id /\ p[i].w < p[j].w
    <3>1. i \in 1..n
      BY <1>1, <2>1
    <3>2. CASE j \in 1..n
      BY <1>1, <1>2, <2>1, <3>1, <3>2
    <3>3. CASE j = n + 1
      BY <1>2, <3>1, <3>3
    <3> QED
      BY <1>3, <3>2, <3>3
  <2> QED
    BY <1>2, <2>1 DEF InOrder
<1>5. \A i \in 1..(n + 1) : 1 <= p[i].id
  BY <1>1, <1>2, <1>3
<1>6. IsQueue(p)
  BY <1>2, <1>4, <1>5 DEF IsQueue
<1>7. /\ Beginning(q) \in Seq(Batch) /\ m = (IF n <= MaxPendingWrites THEN n ELSE MaxPendingWrites)
      /\ \A i \in 1..m : Beginning(q)[i] = q[i]
  BY BeginningProperties
<1>8. m \in 0..(n + 1) /\ m \in 0..n /\ m <= MaxPendingWrites
  BY <1>1, <1>7
<1>9. Beginning(q) = SubSeq(p, 1, m)
  <2>1. /\ SubSeq(p, 1, m) \in Seq(Batch) /\ Len(SubSeq(p, 1, m)) = m
        /\ \A i \in 1..m : SubSeq(p, 1, m)[i] = p[i]
    BY <1>2, <1>8, FirstElements
  <2>2. \A i \in 1..m : SubSeq(p, 1, m)[i] = Beginning(q)[i]
    BY <1>1, <1>2, <1>7, <1>8, <2>1
  <2> HIDE DEF m
  <2> QED
    BY <1>7, <2>1, <2>2, SeqEqual DEF m
<1> QED
  BY <1>2, <1>6, <1>8, <1>9 DEF p

\* A batch taken from the front of a queue.
LEMMA TailOfQueue ==
  ASSUME NEW q, IsQueue(q), q # <<>>
  PROVE  /\ Without(q, q[1].id) = Tail(q)
         /\ IsQueue(Tail(q))
         /\ Len(q) \in Nat /\ 1 <= Len(q) /\ Len(Tail(q)) = Len(q) - 1
         /\ \A i \in 1..(Len(q) - 1) : Tail(q)[i] = q[i + 1]
         /\ Beginning(q) # <<>> /\ Beginning(q)[1] = q[1]
         /\ Len(Beginning(q)) - 1 \in 0..(Len(q) - 1) /\ Len(Beginning(q)) - 1 <= MaxPendingWrites
         /\ Tail(Beginning(q)) = SubSeq(Tail(q), 1, Len(Beginning(q)) - 1)
<1> DEFINE t == Tail(q)
           n == Len(q)
           b == Beginning(q)
           m == Len(Beginning(q))
<1>1. /\ q \in Seq(Batch) /\ n \in Nat /\ 1 <= n /\ MaxPendingWrites \in Nat \ {0}
      /\ \A i, j \in 1..n : i < j => q[i].id < q[j].id /\ q[i].w < q[j].w
      /\ \A i \in 1..n : 1 <= q[i].id
  BY QueueFacts, BoundsAreSizes DEF IsQueue, InOrder
<1>2. /\ t \in Seq(Batch) /\ Len(t) = n - 1 /\ \A i \in 1..(n - 1) : t[i] = q[i + 1]
  BY <1>1, HeadTailProperties
<1>3. Without(q, q[1].id) = t
  <2>1. Without(q, q[1].id) = SubSeq(q, 1, 0) \o SubSeq(q, 2, n)
    BY SeekFirst DEF Without, RemoveAt
  <2>2. SubSeq(q, 1, 0) = <<>>
    BY <1>1, SubSeqEmpty
  <2>3. /\ SubSeq(q, 2, n) \in Seq(Batch) /\ Len(SubSeq(q, 2, n)) = n - 1
        /\ \A i \in 1..(n - 1) : SubSeq(q, 2, n)[i] = q[1 + i]
    <3>1. \A i \in 2..n : q[i] \in Batch
      BY <1>1
    <3> HIDE DEF n
    <3>2. /\ SubSeq(q, 2, n) \in Seq(Batch)
          /\ Len(SubSeq(q, 2, n)) = IF 2 <= n THEN n - 2 + 1 ELSE 0
          /\ \A i \in 1..(n - 2 + 1) : SubSeq(q, 2, n)[i] = q[2 + i - 1]
      BY <1>1, <3>1, SubSeqProperties
    <3>3. (IF 2 <= n THEN n - 2 + 1 ELSE 0) = n - 1 /\ n - 2 + 1 = n - 1
      BY <1>1
    <3>4. \A i \in 1..(n - 1) : 2 + i - 1 = 1 + i
      OBVIOUS
    <3> QED
      BY <3>2, <3>3, <3>4
  <2>4. SubSeq(q, 2, n) = t
    <3>1. \A i \in 1..(n - 1) : SubSeq(q, 2, n)[i] = t[i]
      BY <1>1, <1>2, <2>3
    <3> HIDE DEF t, n
    <3> QED
      BY <1>2, <2>3, <3>1, SeqEqual
  <2>5. <<>> \o t = t
    BY <1>2, ConcatEmptySeq
  <2> QED
    BY <2>1, <2>2, <2>4, <2>5
<1> HIDE DEF t
<1>4. IsQueue(t)
  <2>1. ASSUME NEW i \in 1..(n - 1), NEW j \in 1..(n - 1), i < j
        PROVE  t[i].id < t[j].id /\ t[i].w < t[j].w
    <3>1. i + 1 \in 1..n /\ j + 1 \in 1..n /\ i + 1 < j + 1
      BY <1>1, <2>1
    <3> QED
      BY <1>1, <1>2, <3>1
  <2>2. \A i \in 1..(n - 1) : 1 <= t[i].id
    <3>1. \A i \in 1..(n - 1) : i + 1 \in 1..n
      BY <1>1
    <3> QED
      BY <1>1, <1>2, <3>1
  <2> QED
    BY <1>2, <2>1, <2>2 DEF IsQueue, InOrder
<1>5. /\ b \in Seq(Batch) /\ m = (IF n <= MaxPendingWrites THEN n ELSE MaxPendingWrites)
      /\ \A i \in 1..m : b[i] = q[i]
  BY BeginningProperties
<1>6. m \in Nat /\ 1 <= m /\ m <= n /\ m - 1 \in 0..(n - 1) /\ m - 1 <= MaxPendingWrites /\ 1 \in 1..m
  BY <1>1, <1>5
<1>7. b # <<>> /\ b[1] = q[1]
  BY <1>5, <1>6, EmptySeq
<1>8. Tail(b) = SubSeq(t, 1, m - 1)
  <2>1. /\ Tail(b) \in Seq(Batch) /\ Len(Tail(b)) = m - 1
        /\ \A i \in 1..(m - 1) : Tail(b)[i] = b[i + 1]
    BY <1>5, <1>7, HeadTailProperties
  <2> HIDE DEF b, n, m
  <2>2. /\ SubSeq(t, 1, m - 1) \in Seq(Batch) /\ Len(SubSeq(t, 1, m - 1)) = m - 1
        /\ \A i \in 1..(m - 1) : SubSeq(t, 1, m - 1)[i] = t[i]
    BY <1>2, <1>6, FirstElements
  <2>3. \A i \in 1..(m - 1) : i + 1 \in 1..m /\ i \in 1..(n - 1)
    BY <1>1, <1>6
  <2>4. \A i \in 1..(m - 1) : SubSeq(t, 1, m - 1)[i] = Tail(b)[i]
    BY <1>2, <1>5, <2>1, <2>2, <2>3
  <2> QED
    BY <2>1, <2>2, <2>4, SeqEqual
<1> QED
  BY <1>1, <1>2, <1>3, <1>4, <1>6, <1>7, <1>8 DEF t, b, m, n

\* The users in effect are those of the client after the step.
LEMMA EffectsLater ==
  ASSUME NEW d, Effects(d), client' = d, UNCHANGED <<auth, writes>>
  PROVE  Effects(client)'
BY DEF Effects, InEffect

\* A call becomes the last batch of the queue of the user who made it.
LEMMA WriteLocallyStep == IInv /\ WriteLocally => IInv'
<1> SUFFICES ASSUME IInv, WriteLocally PROVE IInv'
  OBVIOUS
<1> DEFINE w == client.worker[1].w
           u == client.user
           id == client.nextId
           new == [id |-> id, w |-> w]
           cb == [user |-> u, id |-> id, w |-> w]
           b == Dequeue(client)
           c == [b EXCEPT !.nextId = @ + 1, !.callbacks = @ \cup {cb}]
           q == queue[u]
           p == Append(q, new)
           d == FillWritePipeline(c, p)
           n == Len(client.worker)
<1>0. /\ Typed /\ queue \in [Users -> Seq(Batch)] /\ client \in ClientType /\ auth \in Users /\ u \in Users
      /\ Calls(client) /\ Conn(client) /\ Greeted(client) /\ NameInv(client) /\ AnswersInv(client)
      /\ client.pipeline = Beginning(q) /\ id \in Nat /\ 1 <= id
      /\ client.callbacks \in SUBSET [user : Users, id : Nat, w : Writes]
      /\ \A x \in Users : IsQueue(queue[x])
  BY ClientFacts DEF IInv, Typed, ClientType, Calls, TasksInv
<1>1. /\ client.worker # <<>> /\ Head(client.worker) = client.worker[1]
      /\ client.worker[1] \in Task /\ client.worker[1].kind = "write"
      /\ n \in Nat /\ 1 <= n /\ 1 \in 1..n
  BY <1>0, DequeueProperties DEF WriteLocally, IsTask
<1>2. w \in Writes /\ IsWrite(client.worker[1]) /\ ~IsUser(client.worker[1])
  BY <1>1 DEF Task, WriteTask, UserTask, ResumeTask, IsWrite, IsUser
<1>3. /\ w <= Len(writes) /\ id <= w
      /\ \A x \in Writes : settled[x] # "none" => x < w
      /\ \A x \in Users : \A j \in 1..Len(queue[x]) : queue[x][j].w < w
      /\ \A i \in 1..n : 1 < i /\ IsWrite(client.worker[i]) => w < client.worker[i].w
  BY <1>0, <1>1, <1>2 DEF Calls, TasksInv
<1>4. w \in Nat /\ Len(writes) \in Nat
  BY <1>0, <1>2, BoundsAreSizes, LenProperties DEF Writes, Typed
<1>5. settled[w] = "none"
  BY <1>2, <1>3, <1>4
<1>6. writes[w].user = u
  <2>1. InEffect(client, 1, writes[w].user)
    BY <1>0, <1>1, <1>2 DEF Calls, Effects
  <2>2. \A j \in 1..Len(client.worker) : ~(j < 1)
    BY <1>1
  <2> QED
    BY <2>1, <2>2 DEF InEffect
<1>7. new \in Batch /\ new.id = id /\ new.w = w /\ cb \in [user : Users, id : Nat, w : Writes]
  BY <1>0, <1>2 DEF Batch
<1>8. \A i \in 1..Len(q) : q[i].id < id /\ q[i].w < w
  BY <1>0, <1>3 DEF Calls, QueueInv
<1>9. queue' = [queue EXCEPT ![u] = p] /\ queue'[u] = p
  BY <1>0, <1>1 DEF WriteLocally
<1>10. client' = d
  BY <1>1, <1>9 DEF WriteLocally
<1>11. /\ UNCHANGED <<auth, signIns, writes, cache, seen, commits, refused, settled, told, faults>>
  BY DEF WriteLocally, app, server, history
<1>12. IsQueue(q)
  BY <1>0
<1> HIDE DEF new, cb, q
<1>13. /\ IsQueue(p) /\ Len(p) = Len(q) + 1
       /\ \A i \in 1..Len(q) : p[i] = q[i]
       /\ p[Len(q) + 1] = new
       /\ Len(Beginning(q)) \in 0..(Len(q) + 1) /\ Len(Beginning(q)) <= MaxPendingWrites
       /\ Beginning(q) = SubSeq(p, 1, Len(Beginning(q)))
  <2>1. 1 <= new.id /\ \A i \in 1..Len(q) : q[i].id < new.id /\ q[i].w < new.w
    BY <1>0, <1>7, <1>8
  <2> QED
    BY <1>7, <1>12, <2>1, AppendToQueue
<1> HIDE DEF p
<1>14. /\ b \in ClientType /\ SameConn(client, b) /\ b.asks = client.asks
       /\ Len(b.worker) = n - 1
       /\ \A i \in 1..(n - 1) : b.worker[i] = client.worker[i + 1]
       /\ OneToken(b)
  BY <1>0, <1>1, DequeueProperties, DequeueKeepsToken DEF Conn
<1> HIDE DEF b, n
<1>15. /\ c \in ClientType /\ c.nextId = id + 1 /\ c.callbacks = client.callbacks \cup {cb}
       /\ c.user = u /\ c.name = client.name /\ c.worker = b.worker /\ c.asks = client.asks
       /\ c.state = client.state /\ c.idle = client.idle /\ c.handshake = client.handshake
       /\ c.pipeline = client.pipeline /\ c.sent = client.sent /\ c.answers = client.answers
  <2> DEFINE cbs == client.callbacks \cup {cb}
             next == id + 1
  <2>1. cbs \in SUBSET [user : Users, id : Nat, w : Writes] /\ next \in Nat
    BY <1>0, <1>7
  <2>2. c = [b EXCEPT !.nextId = next, !.callbacks = cbs]
    BY <1>14 DEF SameConn, SameCalls, ClientType
  <2> HIDE DEF cbs, next, c
  <2>3. /\ c \in ClientType /\ c.nextId = next /\ c.callbacks = cbs
        /\ c.user = b.user /\ c.name = b.name /\ c.worker = b.worker /\ c.asks = b.asks
        /\ c.state = b.state /\ c.idle = b.idle /\ c.handshake = b.handshake
        /\ c.pipeline = b.pipeline /\ c.sent = b.sent /\ c.answers = b.answers
    BY <1>14, <2>1, <2>2 DEF ClientType
  <2> QED
    BY <1>14, <2>3 DEF cbs, next, SameConn, SameCalls
<1> HIDE DEF c
<1>16. OneToken(c)
  BY <1>14, <1>15 DEF OneToken, SameConn
<1>17. Conn(c)
  BY <1>0, <1>15, <1>16, LikeConn
<1>18. Effects(c)
  <2>1. /\ client \in ClientType /\ client.worker # <<>> /\ Effects(client)
        /\ c.asks = client.asks /\ ~IsUser(client.worker[1])
        /\ c.user = client.user
    BY <1>0, <1>1, <1>2, <1>15 DEF Calls
  <2>2. /\ Len(c.worker) = Len(client.worker) - 1
        /\ \A i \in 1..(Len(client.worker) - 1) : c.worker[i] = client.worker[i + 1]
    BY <1>14, <1>15 DEF n
  <2> HIDE DEF u
  <2> QED
    BY <2>1, <2>2, DequeueKeepsEffects
<1>19. FillOf(c, p, Len(Beginning(q)), d) /\ Conn(d)
  <2> DEFINE m == Len(Beginning(q))
  <2>1. m \in 0..Len(p) /\ m <= MaxPendingWrites /\ c.pipeline = SubSeq(p, 1, m)
    BY <1>0, <1>13, <1>15
  <2> HIDE DEF m
  <2>2. FillOf(c, p, m, d) /\ Conn(d)
    BY <1>0, <1>13, <1>15, <1>17, <2>1, FillProperties, FillKeeps
  <2> QED
    BY <2>2 DEF m
<1> HIDE DEF d
<1>20. /\ Calm(c, d) /\ d \in ClientType /\ d.user = u /\ d.name = client.name /\ d.nextId = id + 1
       /\ d.callbacks = client.callbacks \cup {cb} /\ d.worker = b.worker
       /\ d.answers = client.answers /\ d.handshake = client.handshake
       /\ d.pipeline = Beginning(p) /\ (d.state = "Open" <=> client.state = "Open")
  <2>1. Calm(c, d)
    BY <1>19, FillIsCalm
  <2>2. d.state = "Open" <=> c.state = "Open"
    BY <1>19 DEF FillOf, IsStarted
  <2> QED
    BY <1>15, <1>19, <2>1, <2>2 DEF FillOf, SameCalls
<1>21. Effects(d)
  BY <1>18, <1>20, CalmKeepsEffects
<1>22. Effects(client)'
  BY <1>10, <1>11, <1>21, EffectsLater
<1>23. Conn(client)' /\ Greeted(client)' /\ NameInv(client)'
  <2>1. Greeted(d) /\ NameInv(d)
    BY <1>0, <1>20 DEF Greeted, NameInv
  <2> QED
    BY <1>10, <1>19, <2>1, SameConnLater
<1>24. PipelineIsFront'
  BY <1>9, <1>10, <1>20 DEF PipelineIsFront, Beginning
<1>25. AnswersInv(client)'
  BY <1>0, <1>10, <1>11, <1>20 DEF AnswersInv
<1>26. Typed'
  <2>1. queue' \in [Users -> Seq(Batch)]
    BY <1>0, <1>9, <1>13 DEF IsQueue
  <2> QED
    BY <1>0, <1>10, <1>11, <1>20, <2>1 DEF Typed
<1>27. Records'
  BY <1>11, SameRecords DEF IInv, Records
<1>28. \A x \in Users : x # u => queue'[x] = queue[x]
  BY <1>0, <1>9
<1>29. Len(q) \in Nat /\ \A i \in 1..(Len(q) + 1) : i \in 1..Len(q) \/ i = Len(q) + 1
  BY <1>12, QueueFacts
<1>30. QueueInv(client)'
  <2>1. ASSUME NEW x \in Users
        PROVE  /\ InOrder(queue'[x])
               /\ \A i \in 1..Len(queue'[x]) :
                    /\ 1 <= queue'[x][i].id /\ queue'[x][i].id < d.nextId
                    /\ queue'[x][i].w <= Len(writes)
                    /\ writes[queue'[x][i].w].user = x
                    /\ settled[queue'[x][i].w] = "none"
    <3>1. /\ InOrder(queue[x])
          /\ \A i \in 1..Len(queue[x]) :
               /\ 1 <= queue[x][i].id /\ queue[x][i].id < id /\ queue[x][i].id \in Nat
               /\ queue[x][i].w <= Len(writes)
               /\ writes[queue[x][i].w].user = x
               /\ settled[queue[x][i].w] = "none"
      BY <1>0, QueueFacts DEF Calls, QueueInv
    <3>2. \A i \in Nat : i < id => i < d.nextId
      BY <1>0, <1>20
    <3>3. CASE x # u
      BY <1>28, <3>1, <3>2, <3>3
    <3>4. CASE x = u
      <4>1. queue'[x] = p /\ InOrder(p)
        BY <1>9, <1>13, <3>4 DEF IsQueue
      <4>2. ASSUME NEW i \in 1..(Len(q) + 1)
            PROVE  /\ 1 <= p[i].id /\ p[i].id < d.nextId
                   /\ p[i].w <= Len(writes)
                   /\ writes[p[i].w].user = x
                   /\ settled[p[i].w] = "none"
        <5>1. CASE i \in 1..Len(q)
          BY <1>13, <3>1, <3>2, <3>4, <5>1 DEF q
        <5>2. CASE i = Len(q) + 1
          <6>1. p[i].id = id /\ p[i].w = w /\ id < d.nextId
            BY <1>0, <1>7, <1>13, <1>20, <5>2
          <6> QED
            BY <1>0, <1>3, <1>5, <1>6, <3>4, <6>1
        <5> QED
          BY <1>29, <5>1, <5>2
      <4> QED
        BY <1>13, <4>1, <4>2
    <3> QED
      BY <3>3, <3>4
  <2> HIDE DEF id, w
  <2>2. \A x \in Users : InOrder(queue[x])'
    BY <2>1 DEF InOrder
  <2> QED
    BY <1>10, <1>11, <2>1, <2>2 DEF QueueInv
<1>31. TasksInv(client)'
  <2>1. \A x \in Users : \A j \in 1..Len(queue'[x]) : queue'[x][j].w \in Nat /\ queue'[x][j].w <= w
    <3> TAKE x \in Users
    <3>1. \A j \in 1..Len(queue[x]) : queue[x][j].w \in Nat /\ queue[x][j].w <= w
      <4>1. \A j \in 1..Len(queue[x]) : queue[x][j].w \in Writes
        BY <1>0, QueueFacts
      <4>2. \A y \in Writes : y \in Nat
        BY BoundsAreSizes DEF Writes
      <4> QED
        BY <1>3, <1>4, <4>1, <4>2
    <3>2. CASE x # u
      BY <1>28, <3>1, <3>2
    <3>3. CASE x = u
      <4> TAKE j \in 1..Len(queue'[x])
      <4>1. queue'[x] = p /\ j \in 1..(Len(q) + 1)
        BY <1>9, <1>13, <3>3
      <4>2. CASE j \in 1..Len(q)
        BY <1>13, <3>1, <3>3, <4>1, <4>2 DEF q
      <4>3. CASE j = Len(q) + 1
        BY <1>4, <1>7, <1>13, <4>1, <4>3
      <4> QED
        BY <1>29, <4>1, <4>2, <4>3
    <3> QED
      BY <3>2, <3>3
  <2>2. /\ Len(d.worker) = n - 1
        /\ \A i \in 1..(n - 1) : i + 1 \in 1..n /\ d.worker[i] = client.worker[i + 1] /\ 1 < i + 1
    BY <1>1, <1>14, <1>20
  <2>3. \A i \in 1..n : IsWrite(client.worker[i]) =>
          client.worker[i].w \in Nat /\ client.worker[i].w <= Len(writes)
    <3>1. \A i \in 1..n : client.worker[i] \in Task
      BY <1>0, ElementOfSeq DEF ClientType, n
    <3>2. \A i \in 1..n : IsWrite(client.worker[i]) => client.worker[i].w \in Nat
      BY <3>1, BoundsAreSizes DEF Task, WriteTask, UserTask, ResumeTask, IsWrite, Writes
    <3> QED
      BY <1>0, <3>2 DEF Calls, TasksInv, n
  <2>4. \A i, j \in 1..n : j < i /\ IsWrite(client.worker[i]) /\ IsWrite(client.worker[j]) =>
          client.worker[j].w < client.worker[i].w
    BY <1>0 DEF Calls, TasksInv, n
  <2>5. ASSUME NEW i \in 1..(n - 1), IsWrite(d.worker[i])
        PROVE  /\ d.worker[i].w <= Len(writes)
               /\ d.nextId <= d.worker[i].w
               /\ \A x \in Writes : settled[x] # "none" => x < d.worker[i].w
               /\ \A x \in Users : \A j \in 1..Len(queue'[x]) : queue'[x][j].w < d.worker[i].w
               /\ \A j \in 1..(n - 1) : j < i /\ IsWrite(d.worker[j]) => d.worker[j].w < d.worker[i].w
    <3> DEFINE y == d.worker[i].w
    <3>1. i + 1 \in 1..n /\ d.worker[i] = client.worker[i + 1] /\ 1 < i + 1
      BY <2>2
    <3>2. y \in Nat /\ y <= Len(writes) /\ w < y
      BY <1>3, <2>3, <2>5, <3>1
    <3>3. \A j \in 1..(n - 1) : j < i /\ IsWrite(d.worker[j]) => d.worker[j].w < y
      <4> TAKE j \in 1..(n - 1)
      <4> HAVE j < i /\ IsWrite(d.worker[j])
      <4>1. j + 1 \in 1..n /\ j + 1 < i + 1 /\ d.worker[j] = client.worker[j + 1]
        BY <1>1, <2>2
      <4> QED
        BY <2>4, <2>5, <3>1, <4>1
    <3> HIDE DEF y
    <3>4. d.nextId <= y
      BY <1>0, <1>3, <1>4, <1>20, <3>2
    <3>5. \A x \in Writes : x \in Nat
      BY BoundsAreSizes DEF Writes
    <3>6. \A x \in Writes : settled[x] # "none" => x < y
      BY <1>3, <1>4, <3>2, <3>5
    <3>7. \A x \in Users : \A j \in 1..Len(queue'[x]) : queue'[x][j].w < y
      BY <1>4, <2>1, <3>2
    <3> QED
      BY <3>2, <3>3, <3>4, <3>6, <3>7 DEF y
  <2>6. /\ 1 <= d.nextId /\ d.nextId <= Len(writes) + 1
        /\ \A x \in Writes : settled[x] # "none" => x <= Len(writes)
    <3>1. 1 <= d.nextId /\ d.nextId <= Len(writes) + 1
      BY <1>0, <1>3, <1>4, <1>20
    <3> QED
      BY <1>0, <3>1 DEF Calls, TasksInv
  <2> QED
    BY <1>10, <1>11, <2>2, <2>5, <2>6 DEF TasksInv
<1>32. CallbacksIn(client)'
  <2>1. \A x \in Users : \A e \in ToSet(queue[x]) : e \in ToSet(queue'[x])
    <3> TAKE x \in Users
    <3>1. CASE x # u
      BY <1>28, <3>1
    <3>2. CASE x = u
      <4>1. queue'[x] = p /\ queue[x] = q
        BY <1>9, <3>2 DEF q
      <4>2. DOMAIN q = 1..Len(q) /\ DOMAIN p = 1..(Len(q) + 1)
        BY <1>12, <1>13, QueueFacts
      <4> QED
        BY <1>13, <1>29, <4>1, <4>2 DEF ToSet
    <3> QED
      BY <3>1, <3>2
  <2>2. \A e \in client.callbacks : e.user \in Users /\ [id |-> e.id, w |-> e.w] \in ToSet(queue[e.user])
    BY <1>0 DEF Calls, CallbacksIn
  <2>3. cb.user = u /\ [id |-> cb.id, w |-> cb.w] = new
    BY DEF cb, new
  <2>4. new \in ToSet(queue'[u])
    <3>1. DOMAIN p = 1..(Len(q) + 1) /\ Len(q) + 1 \in 1..(Len(q) + 1)
      BY <1>13, <1>29, QueueFacts
    <3> QED
      BY <1>9, <1>13, <3>1 DEF ToSet
  <2>5. \A e \in d.callbacks : [id |-> e.id, w |-> e.w] \in ToSet(queue'[e.user])
    <3> TAKE e \in d.callbacks
    <3>1. CASE e \in client.callbacks
      BY <2>1, <2>2, <3>1
    <3>2. CASE e = cb
      <4> HIDE DEF cb, new
      <4>1. [id |-> cb.id, w |-> cb.w] \in ToSet(queue'[cb.user])
        BY Zenon, <2>3, <2>4
      <4> QED
        BY Zenon, <3>2, <4>1
    <3> QED
      BY <1>20, <3>1, <3>2
  <2> QED
    BY <1>10, <2>5 DEF CallbacksIn, ToSet
<1> QED
  BY <1>22, <1>23, <1>24, <1>25, <1>26, <1>27, <1>30, <1>31, <1>32 DEF IInv, Calls, Records

\* The batch at the front of the pipeline is the one at the front of the queue.
LEMMA FrontFacts ==
  ASSUME IInv, client.pipeline # <<>>
  PROVE  LET u == client.user
             q == queue[u]
             b == Head(client.pipeline)
             n == Len(client.pipeline) - 1
         IN /\ b = q[1] /\ b = client.pipeline[1] /\ b \in Batch /\ b.w \in Writes /\ b.id \in Nat
            /\ q # <<>> /\ IsQueue(q) /\ Without(q, b.id) = Tail(q)
            /\ IsQueue(Tail(q)) /\ Tail(q) \in Seq(Batch)
            /\ Len(q) \in Nat /\ 1 <= Len(q) /\ Len(Tail(q)) = Len(q) - 1
            /\ \A i \in 1..(Len(q) - 1) : Tail(q)[i] = q[i + 1] /\ i + 1 \in 1..Len(q)
            /\ Tail(client.pipeline) = SubSeq(Tail(q), 1, n)
            /\ n \in 0..Len(Tail(q)) /\ n <= MaxPendingWrites
            /\ b.w \in 1..Len(writes) /\ writes[b.w].user = u /\ settled[b.w] = "none"
            /\ \A i \in 1..(Len(q) - 1) : Tail(q)[i].w # b.w /\ Tail(q)[i].id # b.id
            /\ \A e \in ToSet(q) : e.id = b.id => e = b
            /\ \A e \in ToSet(q) : e # b => e \in ToSet(Tail(q))
            /\ \A v \in Users : v # u => \A i \in 1..Len(queue[v]) : queue[v][i].w # b.w
<1> DEFINE u == client.user
           q == queue[u]
           b == q[1]
           n == Len(client.pipeline) - 1
<1>0. /\ u \in Users /\ IsQueue(q) /\ client.pipeline = Beginning(q) /\ QueueInv(client)
      /\ Len(writes) \in Nat /\ \A v \in Users : IsQueue(queue[v])
  BY ClientFacts, LenProperties DEF IInv, Typed, Calls
<1>1. q # <<>>
  BY <1>0, BeginningProperties
<1>2. /\ Without(q, b.id) = Tail(q)
      /\ IsQueue(Tail(q))
      /\ Len(q) \in Nat /\ 1 <= Len(q) /\ Len(Tail(q)) = Len(q) - 1
      /\ \A i \in 1..(Len(q) - 1) : Tail(q)[i] = q[i + 1]
      /\ client.pipeline[1] = b
      /\ n \in 0..(Len(q) - 1) /\ n <= MaxPendingWrites
      /\ Tail(client.pipeline) = SubSeq(Tail(q), 1, n)
  BY <1>0, <1>1, TailOfQueue
<1>3. Head(client.pipeline) = b
  <2>1. client.pipeline \in Seq(Batch)
    BY <1>0, BeginningProperties
  <2> QED
    BY <1>2, <2>1
<1>4. /\ \A i \in 1..Len(q) : q[i] \in Batch /\ q[i].w \in Writes /\ q[i].id \in Nat
      /\ DOMAIN q = 1..Len(q) /\ 1 \in 1..Len(q)
      /\ \A i \in 1..(Len(q) - 1) : i + 1 \in 1..Len(q)
  BY <1>0, <1>2, QueueFacts
<1>5. b.w <= Len(writes) /\ writes[b.w].user = u /\ settled[b.w] = "none"
  BY <1>0, <1>4 DEF QueueInv
<1>6. b.w \in 1..Len(writes)
  BY <1>0, <1>4, <1>5, BoundsAreSizes DEF Writes
<1>7. \A i \in 1..(Len(q) - 1) : Tail(q)[i].w # b.w /\ Tail(q)[i].id # b.id
  <2> TAKE i \in 1..(Len(q) - 1)
  <2> HIDE DEF q
  <2>1. i + 1 \in 1..Len(q) /\ 1 < i + 1
    BY <1>2
  <2>2. q[1].id < q[i + 1].id /\ q[1].w < q[i + 1].w
    BY <1>0, <1>4, <2>1 DEF IsQueue, InOrder
  <2>3. q[1].id \in Nat /\ q[i + 1].id \in Nat /\ q[1].w \in Nat /\ q[i + 1].w \in Nat
    <3>1. \A x \in Writes : x \in Nat
      BY BoundsAreSizes DEF Writes
    <3> QED
      BY <1>4, <2>1, <3>1
  <2> QED
    BY <1>2, <2>2, <2>3
<1>8. \A e \in ToSet(q) : e # b => e \in ToSet(Tail(q)) /\ e.id # b.id
  <2> TAKE e \in ToSet(q)
  <2> HAVE e # b
  <2>1. PICK j \in 1..Len(q) : e = q[j]
    BY <1>4 DEF ToSet
  <2>2. j # 1
    BY <2>1
  <2> HIDE DEF q, b
  <2>3. j - 1 \in 1..(Len(q) - 1) /\ (j - 1) + 1 = j
    BY <1>2, <2>2
  <2>4. Tail(q)[j - 1] = e
    BY <1>2, <2>1, <2>3
  <2>5. Tail(q) \in Seq(Batch) /\ DOMAIN Tail(q) = 1..(Len(q) - 1)
    BY <1>2, QueueFacts DEF IsQueue
  <2> QED
    BY <1>7, <2>3, <2>4, <2>5 DEF ToSet
<1>9. \A v \in Users : v # u => \A i \in 1..Len(queue[v]) : queue[v][i].w # b.w
  <2> TAKE v \in Users
  <2> HAVE v # u
  <2> TAKE i \in 1..Len(queue[v])
  <2>1. writes[queue[v][i].w].user = v
    BY <1>0 DEF QueueInv
  <2> QED
    BY <1>5, <2>1
<1>10. Tail(q) \in Seq(Batch)
  BY <1>2 DEF IsQueue
<1> QED
  BY <1>0, <1>1, <1>2, <1>3, <1>4, <1>5, <1>6, <1>7, <1>8, <1>9, <1>10

\* The completions that are left.
Others(u, id) == {cb \in client.callbacks : ~(cb.user = u /\ cb.id = id)}

\* When the front is settled the rest is in order.
LEMMA SettledCalls ==
  ASSUME IInv, client.pipeline # <<>>, NEW how \in {"ok", "error"},
         NEW d \in ClientType, TasksInv(d), Effects(d), d.nextId = client.nextId,
         d.callbacks = Others(client.user, Head(client.pipeline).id),
         client' = d, UNCHANGED <<auth, writes>>,
         settled' = [settled EXCEPT ![Head(client.pipeline).w] = how],
         queue' = [queue EXCEPT ![client.user] = Tail(@)]
  PROVE  Calls(client)'
<1> DEFINE u == client.user
           q == queue[u]
           b == Head(client.pipeline)
<1>0. /\ Typed /\ u \in Users /\ Calls(client) /\ \A v \in Users : IsQueue(queue[v])
      /\ queue \in [Users -> Seq(Batch)] /\ settled \in [Writes -> {"none", "ok", "error"}]
  BY ClientFacts DEF IInv, Typed
<1>1. /\ b = q[1] /\ b.w \in Writes /\ b.w \in 1..Len(writes)
      /\ IsQueue(q) /\ IsQueue(Tail(q)) /\ Len(q) \in Nat /\ 1 <= Len(q) /\ Len(Tail(q)) = Len(q) - 1
      /\ \A i \in 1..(Len(q) - 1) : Tail(q)[i] = q[i + 1] /\ i + 1 \in 1..Len(q)
      /\ \A i \in 1..(Len(q) - 1) : Tail(q)[i].w # b.w
      /\ \A e \in ToSet(q) : e.id # b.id => e \in ToSet(Tail(q))
      /\ \A v \in Users : v # u => \A i \in 1..Len(queue[v]) : queue[v][i].w # b.w
  BY FrontFacts
<1>2. /\ queue'[u] = Tail(q) /\ \A v \in Users : v # u => queue'[v] = queue[v]
      /\ \A w \in Writes : w # b.w => settled'[w] = settled[w]
  BY <1>0, <1>1
<1>3. \A v \in Users : \A i \in 1..Len(queue[v]) : queue[v][i].w \in Writes
  BY <1>0, QueueFacts
<1> HIDE DEF q, b
<1>4. ASSUME NEW v \in Users
      PROVE  /\ InOrder(queue'[v])
             /\ \A i \in 1..Len(queue'[v]) :
                  /\ 1 <= queue'[v][i].id /\ queue'[v][i].id < d.nextId
                  /\ queue'[v][i].w <= Len(writes)
                  /\ writes[queue'[v][i].w].user = v
                  /\ settled'[queue'[v][i].w] = "none"
  <2>1. /\ InOrder(queue[v])
        /\ \A i \in 1..Len(queue[v]) :
             /\ 1 <= queue[v][i].id /\ queue[v][i].id < d.nextId
             /\ queue[v][i].w <= Len(writes)
             /\ writes[queue[v][i].w].user = v
             /\ settled[queue[v][i].w] = "none"
    BY <1>0 DEF Calls, QueueInv
  <2>2. CASE v # u
    BY <1>1, <1>2, <1>3, <2>1, <2>2
  <2>3. CASE v = u
    <3>1. queue'[v] = Tail(q) /\ InOrder(Tail(q)) /\ queue[v] = q
      BY <1>1, <1>2, <2>3 DEF IsQueue, q
    <3>2. ASSUME NEW i \in 1..(Len(q) - 1)
          PROVE  /\ 1 <= Tail(q)[i].id /\ Tail(q)[i].id < d.nextId
                 /\ Tail(q)[i].w <= Len(writes)
                 /\ writes[Tail(q)[i].w].user = v
                 /\ settled'[Tail(q)[i].w] = "none"
      <4>1. Tail(q)[i] = q[i + 1] /\ i + 1 \in 1..Len(q) /\ Tail(q)[i].w # b.w
        BY <1>1
      <4>2. q[i + 1].w \in Writes
        BY <1>0, <1>3, <4>1 DEF q
      <4> QED
        BY <1>2, <2>1, <3>1, <4>1, <4>2
    <3> QED
      BY <1>1, <3>1, <3>2
  <2> QED
    BY <2>2, <2>3
<1>5. QueueInv(client)'
  <2>1. \A v \in Users : InOrder(queue[v])'
    BY <1>4 DEF InOrder
  <2> QED
    BY <1>4, <2>1 DEF QueueInv
<1>6. TasksInv(client)'
  <2>1. \A v \in Users : \A j \in 1..Len(queue'[v]) :
          \E i \in 1..Len(queue[v]) : queue'[v][j] = queue[v][i]
    <3> TAKE v \in Users
    <3>1. CASE v # u
      BY <1>2, <3>1
    <3>2. CASE v = u
      <4>1. queue'[v] = Tail(q) /\ queue[v] = q
        BY <1>2, <3>2 DEF q
      <4> QED
        BY <1>1, <4>1
    <3> QED
      BY <3>1, <3>2
  <2>2. \A w \in Writes : settled'[w] # "none" => settled[w] # "none" \/ w = b.w
    BY <1>2
  <2>3. b.w <= Len(writes)
    BY <1>1
  <2>4. 1 \in 1..Len(q) /\ q[1].w = b.w
    BY <1>1
  <2>5. ASSUME NEW i \in 1..Len(d.worker), IsWrite(d.worker[i])
        PROVE  /\ d.worker[i].w <= Len(writes)
               /\ d.nextId <= d.worker[i].w
               /\ \A w \in Writes : settled'[w] # "none" => w < d.worker[i].w
               /\ \A v \in Users : \A j \in 1..Len(queue'[v]) : queue'[v][j].w < d.worker[i].w
               /\ \A j \in 1..Len(d.worker) :
                    j < i /\ IsWrite(d.worker[j]) => d.worker[j].w < d.worker[i].w
    <3>1. /\ d.worker[i].w <= Len(writes)
          /\ d.nextId <= d.worker[i].w
          /\ \A w \in Writes : settled[w] # "none" => w < d.worker[i].w
          /\ \A v \in Users : \A j \in 1..Len(queue[v]) : queue[v][j].w < d.worker[i].w
          /\ \A j \in 1..Len(d.worker) :
               j < i /\ IsWrite(d.worker[j]) => d.worker[j].w < d.worker[i].w
      BY <2>5 DEF TasksInv
    <3>2. b.w < d.worker[i].w
      BY <1>0, <2>4, <3>1 DEF q
    <3>3. \A w \in Writes : settled'[w] # "none" => w < d.worker[i].w
      BY <2>2, <3>1, <3>2
    <3>4. \A v \in Users : \A j \in 1..Len(queue'[v]) : queue'[v][j].w < d.worker[i].w
      BY <2>1, <3>1
    <3> QED
      BY <3>1, <3>3, <3>4
  <2>6. /\ 1 <= d.nextId /\ d.nextId <= Len(writes) + 1
        /\ \A w \in Writes : settled'[w] # "none" => w <= Len(writes)
    BY <2>2, <2>3 DEF TasksInv
  <2> QED
    BY <2>5, <2>6 DEF TasksInv
<1>7. Effects(client)'
  BY EffectsLater
<1>8. CallbacksIn(client)'
  <2>1. \A cb \in d.callbacks : /\ [id |-> cb.id, w |-> cb.w] \in ToSet(queue[cb.user])
                                /\ ~(cb.user = u /\ cb.id = b.id)
                                /\ cb.user \in Users
    <3>1. \A cb \in client.callbacks : cb.user \in Users
      BY <1>0 DEF Typed, ClientType
    <3> QED
      BY <1>0, <3>1 DEF Calls, CallbacksIn, Others, b
  <2>2. ASSUME NEW cb \in d.callbacks
        PROVE  [id |-> cb.id, w |-> cb.w] \in ToSet(queue'[cb.user])
    <3>1. CASE cb.user # u
      BY <1>2, <2>1, <3>1
    <3>2. CASE cb.user = u
      <4> DEFINE e == [id |-> cb.id, w |-> cb.w]
      <4>1. e \in ToSet(q) /\ e.id # b.id
        BY <2>1, <3>2 DEF q
      <4> HIDE DEF e
      <4>2. e \in ToSet(Tail(q))
        BY <1>1, <4>1
      <4> QED
        BY <1>2, <3>2, <4>2 DEF e
    <3> QED
      BY <3>1, <3>2
  <2> QED
    BY <2>2 DEF CallbacksIn, ToSet
<1> QED
  BY <1>5, <1>6, <1>7, <1>8 DEF Calls

\* The completion that runs, if one does, is of the batch that is settled.
LEMMA ToldOfFront ==
  ASSUME IInv, client.pipeline # <<>>, NEW how \in {"ok", "error"},
         NotifyUser(client.user, Head(client.pipeline).id, how)
  PROVE  /\ told' \in [Writes -> {"none", "ok", "error"}]
         /\ \A w \in Writes : told'[w] # told[w] => w = Head(client.pipeline).w /\ told'[w] = how
<1> DEFINE u == client.user
           b == Head(client.pipeline)
           waiting == {cb \in client.callbacks : cb.user = u /\ cb.id = b.id}
<1>0. Calls(client) /\ told \in [Writes -> {"none", "ok", "error"}]
  BY ClientFacts DEF IInv, Typed
<1>1. \A e \in ToSet(queue[u]) : e.id = b.id => e = b
  BY FrontFacts
<1> HIDE DEF b
<1>2. \A cb \in waiting : cb.w = b.w
  <2> TAKE cb \in waiting
  <2> DEFINE e == [id |-> cb.id, w |-> cb.w]
  <2>1. e \in ToSet(queue[u]) /\ e.id = b.id /\ e.w = cb.w
    BY <1>0 DEF Calls, CallbacksIn
  <2> HIDE DEF e
  <2>2. e = b
    BY <1>1, <2>1
  <2> QED
    BY <2>1, <2>2
<1>3. told' = [w \in Writes |-> IF \E cb \in waiting : cb.w = w THEN how ELSE told[w]]
  BY DEF NotifyUser, b
<1> QED
  BY <1>0, <1>2, <1>3 DEF b

\* A step that settles the front: the rest of the invariant.
LEMMA SettleStep ==
  ASSUME IInv, client.pipeline # <<>>, NEW how \in {"ok", "error"},
         NEW d \in ClientType, TasksInv(d), Effects(d), d.nextId = client.nextId,
         d.callbacks = Others(client.user, Head(client.pipeline).id),
         Conn(d), Greeted(d), NameInv(d), AnswersInv(d), d.user = client.user,
         d.pipeline = Beginning(Tail(queue[client.user])),
         client' = d, UNCHANGED <<app, seen, server, faults>>,
         NotifyUser(client.user, Head(client.pipeline).id, how),
         settled' = [settled EXCEPT ![Head(client.pipeline).w] = how],
         queue' = [queue EXCEPT ![client.user] = Tail(@)],
         cache' \in [Keys -> Nat], \A k \in Keys : cache[k] <= cache'[k],
         how = "error" => Head(client.pipeline).w \in refused,
         how = "ok" => \E n \in 1..Len(commits) :
                         /\ commits[n].w = Head(client.pipeline).w
                         /\ cache'[writes[Head(client.pipeline).w].key] >= n
  PROVE  IInv'
<1> DEFINE u == client.user
           q == queue[u]
           b == Head(client.pipeline)
<1>0. /\ Typed /\ u \in Users /\ AnswersInv(client)
      /\ UNCHANGED <<auth, signIns, writes, seen, commits, refused, faults>>
  BY ClientFacts DEF IInv, Typed, app, server
<1>1. b.w \in Writes /\ b.w \in 1..Len(writes) /\ Tail(q) \in Seq(Batch)
  BY FrontFacts
<1>2. Calls(client)'
  BY <1>0, SettledCalls
<1>3. Conn(client)' /\ Greeted(client)' /\ NameInv(client)'
  BY SameConnLater
<1>4. /\ told' \in [Writes -> {"none", "ok", "error"}]
      /\ \A w \in Writes : told'[w] # told[w] => w = b.w /\ told'[w] = how
  BY ToldOfFront
<1>5. queue' \in [Users -> Seq(Batch)] /\ queue'[u] = Tail(q)
  BY <1>0, <1>1 DEF Typed
<1>6. Typed'
  <2>1. settled' \in [Writes -> {"none", "ok", "error"}]
    BY <1>0, <1>1 DEF Typed
  <2> QED
    BY <1>0, <1>4, <1>5, <2>1 DEF Typed
<1>7. PipelineIsFront'
  BY <1>5 DEF PipelineIsFront, Beginning
<1>8. AnswersInv(client)'
  BY <1>0 DEF AnswersInv
<1>9. CommitsInv'
  BY <1>0 DEF IInv, CommitsInv
<1>10. DOMAIN commits = 1..Len(commits) /\ \A n \in DOMAIN commits : n \in Nat
  BY <1>0, LenProperties DEF Typed
<1> HIDE DEF b
<1>11. TruthfulAnswers'
  <2>1. ASSUME NEW w \in Writes
        PROVE  /\ told'[w] = "ok" => \E n \in DOMAIN commits : commits[n].w = w
               /\ told'[w] = "error" => w \in refused
    <3>1. CASE told'[w] = told[w]
      BY <3>1 DEF IInv, TruthfulAnswers
    <3>2. CASE told'[w] # told[w]
      BY <1>4, <1>10, <3>2 DEF b
    <3> QED
      BY <3>1, <3>2
  <2> QED
    BY <1>0, <2>1 DEF TruthfulAnswers
<1>12. ReadYourWrites'
  <2>1. ASSUME NEW w \in 1..Len(writes), settled'[w] = "ok"
        PROVE  \E n \in DOMAIN commits : commits[n].w = w /\ cache'[writes[w].key] >= n
    <3>1. CASE w = b.w
      <4>1. settled \in [Writes -> {"none", "ok", "error"}] /\ settled'[b.w] = how
        BY <1>0, <1>1 DEF Typed, b
      <4> QED
        BY <1>10, <2>1, <3>1, <4>1 DEF b
    <3>2. CASE w # b.w
      <4>0. w \in Writes
        BY <1>0, BoundsAreSizes, LenProperties DEF Typed, Writes
      <4>1. settled[w] = "ok"
        BY <1>0, <1>1, <2>1, <3>2, <4>0 DEF Typed, b
      <4>2. PICK n \in DOMAIN commits : commits[n].w = w /\ cache[writes[w].key] >= n
        BY <4>1 DEF IInv, ReadYourWrites
      <4>3. writes[w].key \in Keys
        <5>1. writes[w] \in [user : Users, key : Keys]
          BY <1>0, ElementOfSeq DEF Typed
        <5> QED
          BY <5>1
      <4>4. /\ cache[writes[w].key] \in Nat /\ cache'[writes[w].key] \in Nat
            /\ cache[writes[w].key] <= cache'[writes[w].key]
        BY <1>0, <1>10, <4>3 DEF Typed
      <4>5. n \in Nat
        BY <1>10
      <4> QED
        BY <4>2, <4>4, <4>5
    <3> QED
      BY <3>1, <3>2
  <2> QED
    BY <1>0, <2>1 DEF ReadYourWrites
<1> QED
  BY <1>2, <1>3, <1>6, <1>7, <1>8, <1>9, <1>11, <1>12 DEF IInv

\* An acknowledged write is in the cache before its batch leaves the queue.
LEMMA MutationResultStep == IInv /\ OnWriteStreamMutationResult => IInv'
<1> SUFFICES ASSUME IInv, OnWriteStreamMutationResult PROVE IInv'
  OBVIOUS
<1> DEFINE u == client.user
           q == queue[u]
           b == Head(client.pipeline)
           a == client.answers[1]
           n == Len(client.pipeline) - 1
           key == writes[b.w].key
           e == [client EXCEPT !.answers = Tail(@), !.pipeline = Tail(@)]
           c == Unregister(e, u, b.id)
           d == FillWritePipeline(c, Tail(q))
<1>0. /\ Typed /\ client \in ClientType /\ u \in Users /\ auth \in Users /\ queue \in [Users -> Seq(Batch)]
      /\ Calls(client) /\ Conn(client) /\ Greeted(client) /\ NameInv(client) /\ AnswersInv(client)
      /\ client.pipeline # <<>> /\ client.answers # <<>>
      /\ Head(client.answers).kind = "ok"
      /\ UNCHANGED <<app, seen, server, faults>>
  BY ClientFacts DEF IInv, Typed, OnWriteStreamMutationResult, IsAnswer
<1>1. /\ client.answers \in Seq(Reply) /\ client.pipeline \in Seq(Batch)
      /\ client.callbacks \in SUBSET [user : Users, id : Nat, w : Writes]
      /\ client.handshake \in BOOLEAN
  BY <1>0 DEF ClientType
<1>2. /\ Len(client.answers) \in Nat /\ 1 <= Len(client.answers)
      /\ Head(client.answers) = a /\ a.kind = "ok" /\ 1 \in 1..Len(client.answers)
  BY <1>0, <1>1, EmptySeq
<1>3. client.state = "Open" /\ client.handshake /\ ~client.idle
  <2>1. client.state = "Open" /\ ~client.idle
    BY <1>0 DEF Conn, Quiet, Idle
  <2>2. client.handshake
    <3> SUFFICES ASSUME ~client.handshake PROVE FALSE
      BY <1>1
    <3>1. Greeting(client)
      BY <1>0, <2>1 DEF Conn, WireInv
    <3> QED
      BY <1>0, <1>2, <3>1 DEF Greeting
  <2> QED
    BY <1>0, <2>1, <2>2 DEF ClientType
<1>4. Wire(client)
  BY <1>0, <1>3 DEF Conn, WireInv
<1>5. /\ b = client.pipeline[1] /\ b.w \in Writes /\ Without(q, b.id) = Tail(q)
      /\ IsQueue(Tail(q)) /\ Tail(q) \in Seq(Batch)
      /\ Tail(client.pipeline) = SubSeq(Tail(q), 1, n)
      /\ n \in 0..Len(Tail(q)) /\ n <= MaxPendingWrites
      /\ b.w \in 1..Len(writes)
  BY <1>0, FrontFacts
<1>6. a.w = b.w /\ a.version \in 1..Len(commits) /\ commits[a.version].w = b.w
  BY <1>0, <1>2, <1>4, <1>5 DEF Wire, AnswersInv
<1>7. /\ queue' = [queue EXCEPT ![u] = Tail(@)] /\ queue'[u] = Tail(q)
      /\ NotifyUser(u, b.id, "ok")
      /\ settled' = [settled EXCEPT ![b.w] = "ok"]
      /\ cache' = [cache EXCEPT ![key] = Max({@, a.version})]
      /\ client' = d
  BY <1>0, <1>2, <1>5 DEF OnWriteStreamMutationResult
<1> HIDE DEF b, q, n
<1>8. /\ e \in ClientType /\ e.user = u /\ e.name = client.name /\ e.worker = client.worker
      /\ e.asks = client.asks /\ e.state = client.state /\ e.idle = client.idle
      /\ e.handshake = client.handshake /\ e.nextId = client.nextId
      /\ e.sent = client.sent /\ e.callbacks = client.callbacks
      /\ e.answers = Tail(client.answers) /\ e.pipeline = Tail(client.pipeline)
  <2>1. Tail(client.answers) \in Seq(Reply) /\ Tail(client.pipeline) \in Seq(Batch)
    BY <1>0, <1>1, HeadTailProperties
  <2> QED
    BY <1>0, <2>1 DEF ClientType
<1> HIDE DEF e
<1>9. /\ c \in ClientType /\ c.user = u /\ c.name = client.name /\ c.worker = client.worker
      /\ c.asks = client.asks /\ c.state = client.state /\ c.idle = client.idle
      /\ c.handshake = client.handshake /\ c.nextId = client.nextId
      /\ c.sent = client.sent /\ c.callbacks = Others(u, b.id)
      /\ c.answers = Tail(client.answers) /\ c.pipeline = Tail(client.pipeline)
  <2>1. Others(u, b.id) \in SUBSET [user : Users, id : Nat, w : Writes]
    BY <1>1 DEF Others
  <2>2. c = [e EXCEPT !.callbacks = Others(u, b.id)]
    BY <1>8 DEF Unregister, Others, ClientType
  <2> HIDE DEF c
  <2> QED
    BY <1>8, <2>1, <2>2 DEF ClientType
<1> HIDE DEF c
<1>10. TasksInv(c) /\ Effects(c)
  <2>1. TasksInv(c)
    BY <1>0, <1>9 DEF Calls, TasksInv
  <2>2. \A i, x : InEffect(client, i, x) => InEffect(c, i, x)
    BY <1>9 DEF InEffect
  <2> QED
    BY <1>0, <1>9, <2>1, <2>2 DEF Calls, Effects
<1>11. Conn(c)
  <2>1. Quiet(c) /\ Busy(c) /\ Idle(c) /\ OneToken(c)
    BY <1>0, <1>3, <1>9 DEF Conn, Quiet, Busy, Idle, OneToken
  <2>2. Wire(c)
    <3> DEFINE k == Len(client.answers)
               m == Len(client.sent)
               p == Len(client.pipeline)
    <3>1. /\ Len(c.answers) = k - 1 /\ \A i \in 1..(k - 1) : c.answers[i] = client.answers[i + 1]
          /\ Len(c.pipeline) = p - 1 /\ \A i \in 1..(p - 1) : c.pipeline[i] = client.pipeline[i + 1]
      BY <1>0, <1>1, <1>9, HeadTailProperties
    <3>2. k \in Nat /\ 1 <= k /\ m \in Nat /\ p \in Nat /\ k <= p
      BY <1>0, <1>1, <1>2, <1>4, LenProperties DEF Wire, ClientType
    <3>3. /\ \A i \in 1..k : client.answers[i].kind # "hello" /\ client.answers[i].w = client.pipeline[i].w
          /\ (\A i \in 1..k : client.answers[i].kind # "refused") =>
               k + m = p /\ \A i \in 1..m : client.sent[i] = client.pipeline[k + i].w
      BY <1>4 DEF Wire
    <3> HIDE DEF k, m, p, a
    <3>4. k - 1 <= p - 1 /\ \A i \in 1..(k - 1) : i + 1 \in 1..k /\ i \in 1..(p - 1)
      BY <3>2
    <3>5. \A i \in 1..(k - 1) : c.answers[i].kind # "hello" /\ c.answers[i].w = c.pipeline[i].w
      BY <3>1, <3>3, <3>4
    <3>6. ASSUME \A i \in 1..(k - 1) : c.answers[i].kind # "refused"
          PROVE  /\ (k - 1) + m = p - 1
                 /\ \A i \in 1..m : client.sent[i] = c.pipeline[(k - 1) + i].w
      <4>1. \A i \in 1..k : i = 1 \/ (i - 1 \in 1..(k - 1) /\ (i - 1) + 1 = i)
        BY <3>2
      <4>2. \A i \in 1..k : client.answers[i].kind # "refused"
        BY <1>2, <3>1, <3>6, <4>1 DEF a
      <4>3. k + m = p /\ \A i \in 1..m : client.sent[i] = client.pipeline[k + i].w
        BY <3>3, <4>2
      <4>4. \A i \in 1..m : (k - 1) + i \in 1..(p - 1) /\ ((k - 1) + i) + 1 = k + i
        BY <3>2, <4>3
      <4>5. \A i \in 1..m : c.pipeline[(k - 1) + i] = client.pipeline[k + i]
        BY <3>1, <4>4
      <4>6. (k - 1) + m = p - 1
        BY <3>2, <4>3
      <4> QED
        BY <4>3, <4>5, <4>6
    <3> QED
      BY <1>9, <3>1, <3>4, <3>5, <3>6 DEF Wire, m
  <2> QED
    BY <1>3, <1>9, <2>1, <2>2 DEF Conn, WireInv
<1>12. FillOf(c, Tail(q), n, d) /\ Conn(d)
  BY <1>0, <1>5, <1>9, <1>11, FillProperties, FillKeeps
<1> HIDE DEF d
<1>13. Calm(c, d) /\ TasksInv(d) /\ Effects(d)
  BY <1>10, <1>12, FillIsCalm, CalmKeepsTasks, CalmKeepsEffects
<1>14. /\ d \in ClientType /\ d.user = u /\ d.name = client.name /\ d.nextId = client.nextId
       /\ d.callbacks = Others(u, b.id) /\ d.answers = Tail(client.answers)
       /\ d.handshake = client.handshake /\ d.pipeline = Beginning(Tail(q))
       /\ d.state = "Open"
  <2>1. d.state = "Open"
    BY <1>3, <1>9, <1>12 DEF FillOf, IsStarted
  <2> QED
    BY <1>9, <1>12, <2>1 DEF FillOf, SameCalls
<1>15. Greeted(d) /\ NameInv(d)
  BY <1>0, <1>3, <1>14 DEF Greeted, NameInv
<1>16. AnswersInv(d)
  <2>1. /\ Len(d.answers) = Len(client.answers) - 1
        /\ \A i \in 1..Len(d.answers) : d.answers[i] = client.answers[i + 1]
    BY <1>0, <1>1, <1>14, HeadTailProperties
  <2>2. \A i \in 1..Len(d.answers) : i + 1 \in 1..Len(client.answers)
    BY <1>2, <2>1
  <2> QED
    BY <1>0, <2>1, <2>2 DEF AnswersInv
<1>17. /\ cache' \in [Keys -> Nat] /\ \A k \in Keys : cache[k] <= cache'[k]
       /\ cache'[key] >= a.version
  <2>1. key \in Keys
    <3>1. writes[b.w] \in [user : Users, key : Keys]
      BY <1>0, <1>5, ElementOfSeq DEF Typed
    <3> QED
      BY <3>1
  <2>2. a.version \in Nat /\ cache \in [Keys -> Nat]
    BY <1>0, <1>6, LenProperties DEF Typed
  <2> HIDE DEF a, key
  <2> DEFINE v == Max({cache[key], a.version})
  <2>3. v \in Nat /\ cache[key] <= v /\ a.version <= v
    BY <2>1, <2>2, MaxOfTwo
  <2>4. cache' = [cache EXCEPT ![key] = v]
    BY <1>7
  <2> HIDE DEF v
  <2> QED
    BY <2>1, <2>2, <2>3, <2>4
<1>18. \E k \in 1..Len(commits) :
         commits[k].w = Head(client.pipeline).w /\ cache'[writes[Head(client.pipeline).w].key] >= k
  BY <1>6, <1>17 DEF b
<1>19. /\ d.callbacks = Others(client.user, Head(client.pipeline).id)
       /\ d.pipeline = Beginning(Tail(queue[client.user]))
       /\ NotifyUser(client.user, Head(client.pipeline).id, "ok")
       /\ settled' = [settled EXCEPT ![Head(client.pipeline).w] = "ok"]
       /\ queue' = [queue EXCEPT ![client.user] = Tail(@)]
  BY <1>7, <1>14 DEF b, q
<1> HIDE DEF u, a
<1>20. d.user = client.user
  BY <1>14 DEF u
<1> QED
  BY <1>0, <1>7, <1>12, <1>13, <1>14, <1>15, <1>16, <1>17, <1>18, <1>19, <1>20, SettleStep

\* A refused write is the one at the front, for the stream is past the handshake.
LEMMA HandleWriteErrorStep == IInv /\ HandleWriteError => IInv'
<1> SUFFICES ASSUME IInv, HandleWriteError PROVE IInv'
  OBVIOUS
<1> DEFINE u == client.user
           q == queue[u]
           b == Head(client.pipeline)
           a == client.answers[1]
           n == Len(client.pipeline) - 1
           c == Unregister(client, u, b.id)
           d == OnWriteError(c, Tail(q))
<1>0. /\ Typed /\ client \in ClientType /\ u \in Users /\ auth \in Users /\ queue \in [Users -> Seq(Batch)]
      /\ Calls(client) /\ Conn(client) /\ AnswersInv(client)
      /\ client.pipeline # <<>> /\ client.answers # <<>> /\ client.handshake
      /\ Head(client.answers).kind = "refused"
      /\ UNCHANGED <<app, cache, seen, server, faults>>
  BY ClientFacts DEF IInv, Typed, HandleWriteError, IsAnswer
<1>1. /\ client.answers \in Seq(Reply)
      /\ client.callbacks \in SUBSET [user : Users, id : Nat, w : Writes]
  BY <1>0 DEF ClientType
<1>2. Head(client.answers) = a /\ a.kind = "refused" /\ 1 \in 1..Len(client.answers)
  BY <1>0, <1>1, EmptySeq
<1>3. Wire(client)
  BY <1>0 DEF Conn, WireInv, Quiet
<1>4. /\ b = client.pipeline[1] /\ b.w \in Writes /\ Without(q, b.id) = Tail(q)
      /\ IsQueue(Tail(q)) /\ Tail(q) \in Seq(Batch)
      /\ Tail(client.pipeline) = SubSeq(Tail(q), 1, n)
      /\ n \in 0..Len(Tail(q)) /\ n <= MaxPendingWrites
  BY <1>0, FrontFacts
<1>5. b.w \in refused
  <2>1. a.w = b.w /\ b.w # NoWrite
    BY <1>2, <1>3, <1>4, BoundsAreSizes DEF Wire, Writes, NoWrite
  <2> QED
    BY <1>0, <1>2, <2>1 DEF AnswersInv
<1>6. /\ queue' = [queue EXCEPT ![u] = Tail(@)] /\ queue'[u] = Tail(q)
      /\ NotifyUser(u, b.id, "error")
      /\ settled' = [settled EXCEPT ![b.w] = "error"]
      /\ client' = d
  BY <1>0, <1>4 DEF HandleWriteError
<1> HIDE DEF b, q, n
<1>7. /\ c \in ClientType /\ c.user = u /\ c.name = client.name /\ c.worker = client.worker
      /\ c.asks = client.asks /\ c.nextId = client.nextId
      /\ c.callbacks = Others(u, b.id) /\ c.pipeline = client.pipeline
  <2>1. Others(u, b.id) \in SUBSET [user : Users, id : Nat, w : Writes]
    BY <1>1 DEF Others
  <2>2. c = [client EXCEPT !.callbacks = Others(u, b.id)]
    BY <1>0 DEF Unregister, Others, ClientType
  <2> HIDE DEF c
  <2> QED
    BY <1>0, <2>1, <2>2 DEF ClientType
<1> HIDE DEF c
<1>8. TasksInv(c) /\ Effects(c)
  <2>1. TasksInv(c)
    BY <1>0, <1>7 DEF Calls, TasksInv
  <2>2. \A i, x : InEffect(client, i, x) => InEffect(c, i, x)
    BY <1>7 DEF InEffect
  <2> QED
    BY <1>0, <1>7, <2>1, <2>2 DEF Calls, Effects
<1>9. /\ d \in ClientType /\ Calm(c, d) /\ Conn(d) /\ Greeted(d)
      /\ d.pipeline = Beginning(Tail(q)) /\ d.state # "Open"
  BY <1>0, <1>4, <1>7, OnWriteErrorKeeps
<1> HIDE DEF d
<1>10. TasksInv(d) /\ Effects(d)
  BY <1>8, <1>9, CalmKeepsTasks, CalmKeepsEffects
<1>11. d.user = client.user /\ d.nextId = client.nextId /\ d.callbacks = Others(u, b.id)
  BY <1>7, <1>9 DEF Calm, SameCalls
<1>12. NameInv(d) /\ AnswersInv(d)
  <2>1. d.answers = <<>> /\ Len(<<>>) = 0
    BY <1>9, EmptySeq DEF Conn, Quiet
  <2> QED
    BY <1>9, <2>1 DEF NameInv, AnswersInv
<1>13. cache' \in [Keys -> Nat] /\ \A k \in Keys : cache[k] <= cache'[k]
  BY <1>0 DEF Typed
<1>14. /\ d.callbacks = Others(client.user, Head(client.pipeline).id)
       /\ d.pipeline = Beginning(Tail(queue[client.user]))
       /\ NotifyUser(client.user, Head(client.pipeline).id, "error")
       /\ settled' = [settled EXCEPT ![Head(client.pipeline).w] = "error"]
       /\ queue' = [queue EXCEPT ![client.user] = Tail(@)]
       /\ Head(client.pipeline).w \in refused
  BY <1>5, <1>6, <1>9, <1>11 DEF b, q
<1> HIDE DEF u, a
<1> QED
  BY <1>0, <1>6, <1>9, <1>10, <1>11, <1>12, <1>13, <1>14, SettleStep

-----------------------------------------------------------------------------
(* Theorems                                                                  *)

\* Every step keeps the invariant.
LEMMA NextIInv == IInv /\ [Next]_vars => IInv'
<1> SUFFICES ASSUME IInv, [Next]_vars PROVE IInv'
  OBVIOUS
<1>1. CASE UNCHANGED vars
  <2>1. Typed'
    BY <1>1 DEF IInv, Typed, vars, app, disk, server, history
  <2>2. Calls(client)'
    BY <1>1, SameCallsLater DEF IInv, vars, app, disk, history
  <2>3. Conn(client)' /\ Greeted(client)' /\ NameInv(client)'
    BY <1>1, SameConnLater DEF IInv, vars
  <2>4. PipelineIsFront' /\ AnswersInv(client)'
    BY <1>1 DEF IInv, vars, disk, server, PipelineIsFront, AnswersInv
  <2>5. Records'
    BY <1>1, SameRecords DEF IInv, Records, vars, app, disk, server, history
  <2> QED
    BY <2>1, <2>2, <2>3, <2>4, <2>5 DEF IInv, Records
<1>2. CASE \E k \in Keys : CallSetData(k)
  BY <1>2, CallSetDataStep
<1>3. CASE \E u \in Users : AuthStateDidChange(u)
  BY <1>3, AuthStateDidChangeStep
<1>4. CASE \E a \in client.asks : GetToken(a)
  BY <1>4, GetTokenStep
<1>5. CASE Worker
  BY <1>5, WriteLocallyStep, HandleCredentialChangeStep, ResumeStartWithCredentialsStep DEF Worker
<1>6. CASE Stream
  BY <1>6, RetryAfterBackoffStep, HandshakeCompleteStep, MutationResultStep,
     HandleWriteErrorStep, HandleHandshakeErrorStep DEF Stream
<1>7. CASE Server
  BY <1>7, AnswerHandshakeStep, CommitStep, RefuseStep DEF Server
<1>8. CASE IdleTimeout
  BY <1>8, IdleTimeoutStep
<1>9. CASE \E v \in seen..Len(commits), K \in SUBSET Keys : ApplyRemoteEvent(v, K)
  BY <1>9, ApplyRemoteEventStep
<1>10. CASE RefuseHandshake
  BY <1>10, RefuseHandshakeStep
<1>11. CASE StreamBreaks
  BY <1>11, StreamBreaksStep
<1>12. CASE TokenFails
  BY <1>12, TokenFailsStep
<1>13. CASE ConnectivityChanges
  BY <1>13, ConnectivityChangesStep
<1>14. CASE Crash
  BY <1>14, CrashStep
<1> QED
  BY <1>1, <1>2, <1>3, <1>4, <1>5, <1>6, <1>7, <1>8, <1>9, <1>10, <1>11, <1>12, <1>13, <1>14 DEF Next

\* The invariant holds in every state.
LEMMA Invariance == Spec => []IInv
<1>1. Init => IInv
  BY InitIInv
<1>2. IInv /\ [Next]_vars => IInv'
  BY NextIInv
<1> QED
  BY <1>1, <1>2, PTL DEF Spec

\* Every variable has its type, and the pipeline never holds more than it may.
THEOREM TypeCorrect == Spec => []TypeOK
<1>1. IInv => TypeOK
  <2> SUFFICES ASSUME IInv PROVE TypeOK
    OBVIOUS
  <2>1. Typed /\ client \in ClientType /\ client.user \in Users /\ IsQueue(queue[client.user])
        /\ client.pipeline = Beginning(queue[client.user])
    BY ClientFacts DEF IInv
  <2>2. Len(client.pipeline) <= MaxPendingWrites
    BY <2>1, BeginningProperties, QueueFacts, BoundsAreSizes
  <2>3. \A u \in Users : queue[u] \in Seq([id : Nat, w : Writes])
    BY <2>1 DEF Typed, Batch
  <2>4. /\ client.user \in Users /\ client.name \in Users /\ client.state \in StreamStates
        /\ client.idle \in BOOLEAN /\ client.handshake \in BOOLEAN
        /\ client.asks \subseteq [live : BOOLEAN, fresh : BOOLEAN, user : Users]
        /\ client.callbacks \subseteq [user : Users, id : Nat, w : Writes]
        /\ client.sent \in Seq(Writes \cup {NoWrite})
        /\ client.pipeline \in Seq([id : Nat, w : Writes])
    BY <2>1 DEF ClientType, Batch, Ask
  <2> QED
    BY <2>1, <2>2, <2>3, <2>4 DEF Typed, TypeOK
<1> QED
  BY <1>1, Invariance, PTL

\* The writes of any records of writes: of batches, of answers, of what was applied.
LEMMA WritesOfRecords ==
  ASSUME NEW S, NEW W, \A x \in S : x.w \in W, NEW b \in Seq(S)
  PROVE  /\ WritesOf(b) \in Seq(W)
         /\ Len(WritesOf(b)) = Len(b) /\ Len(b) \in Nat
         /\ \A i \in 1..Len(b) : WritesOf(b)[i] = b[i].w
         /\ WritesOf(b) = <<>> <=> b = <<>>
<1>0. \A i \in 1..Len(b) : b[i] \in S
  BY ElementOfSeq
<1>1. \A i \in 1..Len(b) : b[i].w \in W
  BY <1>0
<1>2. Len(b) \in Nat
  OBVIOUS
<1>3. WritesOf(b) \in Seq(W) /\ Len(WritesOf(b)) = Len(b)
  BY <1>1, <1>2 DEF WritesOf
<1>4. WritesOf(b) = <<>> <=> b = <<>>
  BY <1>2, <1>3, EmptySeq
<1> QED
  BY <1>2, <1>3, <1>4 DEF WritesOf

\* The writes of records with one more at the end.
LEMMA WritesOfAppend ==
  ASSUME NEW S, NEW W, \A x \in S : x.w \in W, NEW b \in Seq(S), NEW y \in S
  PROVE  WritesOf(Append(b, y)) = Append(WritesOf(b), y.w)
<1> DEFINE n == Len(b)
           p == Append(b, y)
           s == Append(WritesOf(b), y.w)
<1>1. /\ WritesOf(b) \in Seq(W) /\ Len(WritesOf(b)) = n /\ n \in Nat
      /\ \A i \in 1..n : WritesOf(b)[i] = b[i].w
  BY WritesOfRecords
<1>2. /\ p \in Seq(S) /\ Len(p) = n + 1 /\ \A i \in 1..n : p[i] = b[i]
      /\ p[n + 1] = y
  BY AppendProperties
<1>3. y.w \in W
  OBVIOUS
<1>4. /\ s \in Seq(W) /\ Len(s) = n + 1 /\ \A i \in 1..n : s[i] = WritesOf(b)[i]
      /\ s[n + 1] = y.w
  BY <1>1, <1>3, AppendProperties
<1> HIDE DEF p, s
<1>5. /\ WritesOf(p) \in Seq(W) /\ Len(WritesOf(p)) = n + 1
      /\ \A i \in 1..(n + 1) : WritesOf(p)[i] = p[i].w
  BY <1>2, WritesOfRecords
<1>6. \A i \in 1..(n + 1) : WritesOf(p)[i] = s[i]
  <2> TAKE i \in 1..(n + 1)
  <2>1. CASE i \in 1..n
    BY <1>1, <1>2, <1>4, <1>5, <2>1
  <2>2. CASE i = n + 1
    BY <1>2, <1>4, <1>5, <2>2
  <2> QED
    BY <1>1, <2>1, <2>2
<1> HIDE DEF n
<1>7. WritesOf(p) = s
  BY <1>4, <1>5, <1>6, SeqEqual
<1> QED
  BY <1>7 DEF p, s

\* The writes of records without the first.
LEMMA WritesOfTail ==
  ASSUME NEW S, NEW W, \A x \in S : x.w \in W, NEW b \in Seq(S), b # <<>>
  PROVE  /\ WritesOf(Tail(b)) = Tail(WritesOf(b))
         /\ WritesOf(b) # <<>> /\ Head(WritesOf(b)) = b[1].w
<1> DEFINE n == Len(b)
           t == Tail(b)
           s == Tail(WritesOf(b))
<1>1. /\ WritesOf(b) \in Seq(W) /\ Len(WritesOf(b)) = n /\ n \in Nat /\ 1 <= n
      /\ \A i \in 1..n : WritesOf(b)[i] = b[i].w
      /\ WritesOf(b) # <<>>
  <2>1. /\ WritesOf(b) \in Seq(W) /\ Len(WritesOf(b)) = Len(b) /\ Len(b) \in Nat
        /\ \A i \in 1..Len(b) : WritesOf(b)[i] = b[i].w
        /\ WritesOf(b) = <<>> <=> b = <<>>
    BY WritesOfRecords
  <2>2. Len(b) # 0
    BY EmptySeq
  <2> QED
    BY <2>1, <2>2
<1>2. /\ t \in Seq(S) /\ Len(t) = n - 1 /\ \A i \in 1..(n - 1) : t[i] = b[i + 1]
  <2>1. /\ Tail(b) \in Seq(S) /\ Len(Tail(b)) = Len(b) - 1
        /\ \A i \in 1..Len(Tail(b)) : Tail(b)[i] = b[i + 1]
    BY HeadTailProperties
  <2> QED
    BY <2>1
<1>3. /\ s \in Seq(W) /\ Len(s) = n - 1 /\ \A i \in 1..(n - 1) : s[i] = WritesOf(b)[i + 1]
  BY <1>1, HeadTailProperties
<1>4. Head(WritesOf(b)) = b[1].w
  <2>1. Head(WritesOf(b)) = WritesOf(b)[1]
    BY <1>1
  <2> QED
    BY <1>1, <2>1
<1> HIDE DEF t, s
<1>5. /\ WritesOf(t) \in Seq(W) /\ Len(WritesOf(t)) = n - 1
      /\ \A i \in 1..(n - 1) : WritesOf(t)[i] = t[i].w
  BY <1>2, WritesOfRecords
<1>6. \A i \in 1..(n - 1) : WritesOf(t)[i] = s[i]
  <2>1. \A i \in 1..(n - 1) : i + 1 \in 1..n
    BY <1>1
  <2> QED
    BY <1>1, <1>2, <1>3, <1>5, <2>1
<1> HIDE DEF n
<1>7. WritesOf(t) = s
  BY <1>3, <1>5, <1>6, SeqEqual
<1> QED
  BY <1>1, <1>4, <1>7 DEF t, s

\* Queue, pipeline and wire are one sequence.
THEOREM OneSequence == Spec => []WireFollowsQueue
<1>1. IInv => WireFollowsQueue
  <2> SUFFICES ASSUME IInv PROVE WireFollowsQueue
    OBVIOUS
  <2> SUFFICES ASSUME IsOpen(client), client.handshake
               PROVE  IF \E i \in DOMAIN client.answers : client.answers[i].kind = "refused"
                      THEN IsPrefix(WritesOf(client.answers), WritesOf(client.pipeline))
                      ELSE WritesOf(client.answers) \o client.sent = WritesOf(client.pipeline)
    BY DEF WireFollowsQueue, WireMatchesPipeline, IInv
  <2> DEFINE A == WritesOf(client.answers)
             P == WritesOf(client.pipeline)
             W == Writes \cup {NoWrite}
             n == Len(client.answers)
             m == Len(client.sent)
             p == Len(client.pipeline)
  <2>0. /\ client \in ClientType /\ Wire(client)
        /\ client.answers \in Seq(Reply) /\ client.pipeline \in Seq(Batch) /\ client.sent \in Seq(W)
    BY ClientFacts DEF Conn, WireInv, IsOpen, ClientType
  <2>1. /\ A \in Seq(W) /\ Len(A) = n /\ n \in Nat /\ \A i \in 1..n : A[i] = client.answers[i].w
    <3>1. \A x \in Reply : x.w \in W
      BY DEF Reply
    <3> QED
      BY <2>0, <3>1, WritesOfRecords
  <2>2. /\ P \in Seq(W) /\ Len(P) = p /\ p \in Nat /\ \A i \in 1..p : P[i] = client.pipeline[i].w
    <3>1. \A x \in Batch : x.w \in W
      BY DEF Batch
    <3> QED
      BY <2>0, <3>1, WritesOfRecords
  <2>3. m \in Nat /\ DOMAIN client.answers = 1..n
    BY <2>0, LenProperties
  <2>4. /\ n <= p
        /\ \A i \in 1..n : client.answers[i].w = client.pipeline[i].w
        /\ (\A i \in 1..n : client.answers[i].kind # "refused") =>
             n + m = p /\ \A i \in 1..m : client.sent[i] = client.pipeline[n + i].w
    BY <2>0 DEF Wire
  <2> HIDE DEF A, P, W, n, m, p
  <2>5. \A i \in 1..n : i \in 1..p /\ A[i] = P[i]
    BY <2>1, <2>2, <2>4
  <2>6. CASE \E i \in DOMAIN client.answers : client.answers[i].kind = "refused"
    <3>1. n \in 0..Len(A) /\ n \in 0..Len(P)
      BY <2>1, <2>2, <2>4
    <3>2. /\ SubSeq(A, 1, n) \in Seq(W) /\ Len(SubSeq(A, 1, n)) = n
          /\ \A i \in 1..n : SubSeq(A, 1, n)[i] = A[i]
      BY <2>1, <3>1, FirstElements
    <3>3. /\ SubSeq(P, 1, n) \in Seq(W) /\ Len(SubSeq(P, 1, n)) = n
          /\ \A i \in 1..n : SubSeq(P, 1, n)[i] = P[i]
      BY <2>2, <3>1, FirstElements
    <3>4. SubSeq(A, 1, n) = SubSeq(P, 1, n)
      BY <2>5, <3>2, <3>3, SeqEqual
    <3>5. IsPrefix(A, P)
      BY <2>1, <2>2, <2>4, <3>4 DEF IsPrefix
    <3> QED
      BY <2>6, <3>5 DEF A, P
  <2>7. CASE \A i \in DOMAIN client.answers : client.answers[i].kind # "refused"
    <3>1. n + m = p /\ \A i \in 1..m : client.sent[i] = client.pipeline[n + i].w
      BY <2>3, <2>4, <2>7
    <3>2. /\ A \o client.sent \in Seq(W) /\ Len(A \o client.sent) = n + m
          /\ \A i \in 1..(n + m) : (A \o client.sent)[i] = IF i <= n THEN A[i] ELSE client.sent[i - n]
      <4>1. Len(client.sent) = m
        BY DEF m
      <4>2. A \in Seq(W) /\ client.sent \in Seq(W)
        BY <2>0, <2>1
      <4>3. /\ A \o client.sent \in Seq(W) /\ Len(A \o client.sent) = Len(A) + Len(client.sent)
            /\ \A i \in 1..(Len(A) + Len(client.sent)) :
                 (A \o client.sent)[i] = IF i <= Len(A) THEN A[i] ELSE client.sent[i - Len(A)]
        BY <4>2, ConcatProperties
      <4>4. Len(A) = n
        BY <2>1
      <4> HIDE DEF A
      <4> QED
        BY <4>1, <4>3, <4>4
    <3>3. \A i \in 1..p : (A \o client.sent)[i] = P[i]
      <4> TAKE i \in 1..p
      <4>1. CASE i <= n
        BY <2>1, <2>5, <3>1, <3>2, <4>1
      <4>2. CASE ~(i <= n)
        <5>1. i - n \in 1..m /\ n + (i - n) = i
          BY <2>1, <2>3, <3>1, <4>2
        <5> QED
          BY <2>2, <3>1, <3>2, <4>2, <5>1
      <4> QED
        BY <4>1, <4>2
    <3>4. A \o client.sent = P
      <4> DEFINE s == A \o client.sent
      <4>1. s \in Seq(W) /\ Len(s) = p /\ \A i \in 1..p : s[i] = P[i]
        BY <3>1, <3>2, <3>3
      <4> HIDE DEF s
      <4>2. s = P
        BY <2>2, <4>1, SeqEqual
      <4> QED
        BY <4>2 DEF s
    <3> QED
      BY <2>7, <3>4 DEF A, P
  <2> QED
    BY <2>6, <2>7 DEF A, P
<1> QED
  BY <1>1, Invariance, PTL

\* Writes are queued and applied in the name of the user who made them.
THEOREM OwnName == Spec => []UnderOwnName
<1>1. IInv => UnderOwnName
  <2> SUFFICES ASSUME IInv PROVE UnderOwnName
    OBVIOUS
  <2>1. \A u \in Users : \A i \in DOMAIN queue[u] : writes[queue[u][i].w].user = u
    BY ClientFacts, QueueFacts DEF Calls, QueueInv
  <2>2. \A n \in DOMAIN commits : commits[n].name = writes[commits[n].w].user
    <3>1. DOMAIN commits = 1..Len(commits)
      BY LenProperties DEF IInv, Typed
    <3> QED
      BY <3>1 DEF IInv, CommitsInv
  <2> QED
    BY <2>1, <2>2 DEF UnderOwnName
<1> QED
  BY <1>1, Invariance, PTL

\* A completion is told what became of its write.
THEOREM RightCompletions == Spec => []CompletionsAreRight
<1>1. IInv => CompletionsAreRight
  BY DEF IInv, Calls, CallbacksIn, CallbacksMatch, CompletionsAreRight
<1> QED
  BY <1>1, Invariance, PTL

\* Who has written a document reads that or something later.
THEOREM OwnWritesAreRead == Spec => []ReadYourWrites
<1>1. IInv => ReadYourWrites
  BY DEF IInv
<1> QED
  BY <1>1, Invariance, PTL

\* No assertion of the client fails.
THEOREM NoAssertionFails == Spec => []AssertionsHold
<1>1. IInv => AssertionsHold
  <2> SUFFICES ASSUME IInv PROVE AssertionsHold
    OBVIOUS
  <2>0. /\ client \in ClientType /\ Conn(client) /\ Greeted(client)
        /\ client.answers \in Seq(Reply) /\ client.worker \in Seq(Task) /\ client.pipeline \in Seq(Batch)
    BY ClientFacts DEF ClientType
  <2>1. ASSUME client.answers # <<>>
        PROVE  /\ client.state = "Open" /\ Len(client.answers) \in Nat /\ 1 <= Len(client.answers)
               /\ 1 \in 1..Len(client.answers) /\ Head(client.answers) = client.answers[1]
    BY <2>0, <2>1, EmptySeq DEF Conn, Quiet
  <2>2. ASSUME client.answers # <<>>, Wire(client) PROVE client.pipeline # <<>>
    <3>1. 1 <= Len(client.pipeline)
      BY <2>0, <2>1, <2>2, LenProperties DEF Wire
    <3>2. Len(<<>>) = 0
      BY EmptySeq
    <3> QED
      BY <3>1, <3>2
  <2>3. IsAnswer("ok") => client.pipeline # <<>>
    <3> SUFFICES ASSUME client.answers # <<>>, Head(client.answers).kind = "ok"
                 PROVE  client.pipeline # <<>>
      BY DEF IsAnswer
    <3>1. ~Greeting(client)
      BY <2>1 DEF Greeting
    <3> QED
      BY <2>0, <2>1, <2>2, <3>1 DEF Conn, WireInv
  <2>4. IsTask("resume") /\ Head(client.worker).live => client.state = "Starting"
    <3> SUFFICES ASSUME IsTask("resume"), Head(client.worker).live
                 PROVE  client.state = "Starting"
      OBVIOUS
    <3>1. /\ client.worker # <<>> /\ Head(client.worker) = client.worker[1]
          /\ 1 \in 1..Len(client.worker)
      BY <2>0, EmptySeq DEF IsTask
    <3> QED
      BY <2>0, <3>1 DEF IsTask, Conn, OneToken, IsLive
  <2>5. client.idle => client.pipeline = <<>> /\ IsOpen(client)
    BY <2>0 DEF Conn, Idle, Quiet, IsOpen
  <2>6. IsAnswer("refused") /\ client.handshake => client.pipeline # <<>>
    BY <2>0, <2>1, <2>2 DEF IsAnswer, Conn, WireInv
  <2>7. client.answers # <<>> => IsStarted(client)
    BY <2>1 DEF IsStarted
  <2> QED
    BY <2>3, <2>4, <2>5, <2>6, <2>7 DEF AssertionsHold
<1> QED
  BY <1>1, Invariance, PTL

-----------------------------------------------------------------------------
(* The promise of DurableWrites                                              *)

\* A step that leaves queues, server and outcomes alone is none of DurableWrites.
LEMMA PromiseStutters ==
  ASSUME UNCHANGED <<queue, commits, settled>>
  PROVE  UNCHANGED Promise!vars
BY DEF Promise!vars, WritesOf

\* The initial states are those of DurableWrites.
LEMMA PromiseInit == Init => Promise!Init
<1> SUFFICES ASSUME Init PROVE Promise!Init
  OBVIOUS
<1>1. WritesOf(<<>>) = <<>>
  BY WritesOfBatches, EmptySeq
<1>2. [u \in Users |-> WritesOf(queue[u])] = [u \in Users |-> <<>>]
  BY <1>1 DEF Init
<1>3. WritesOf(commits) = <<>> /\ settled = [w \in Writes |-> "none"]
  BY <1>1 DEF Init
<1> QED
  BY <1>2, <1>3 DEF Promise!Init

\* What has been applied.
LEMMA AppliedFacts ==
  ASSUME IInv
  PROVE  /\ Len(WritesOf(commits)) = Len(commits) /\ Len(commits) \in Nat
         /\ \A n \in 1..Len(commits) : WritesOf(commits)[n] = commits[n].w
         /\ commits \in Seq([w : Writes, name : Users])
         /\ \A x \in [w : Writes, name : Users] : x.w \in Writes
<1>1. commits \in Seq([w : Writes, name : Users])
  BY DEF IInv, Typed
<1>2. \A x \in [w : Writes, name : Users] : x.w \in Writes
  OBVIOUS
<1> QED
  BY <1>1, <1>2, WritesOfRecords

\* A call that becomes a batch is accepted for the first time.
LEMMA PromiseAccepts ==
  ASSUME IInv, WriteLocally
  PROVE  \E u \in Users, w \in Writes : Promise!Accept(u, w)
<1> DEFINE w == client.worker[1].w
           u == client.user
           new == [id |-> client.nextId, w |-> w]
           waiting == [v \in Users |-> WritesOf(queue[v])]
<1>0. /\ Typed /\ client \in ClientType /\ u \in Users /\ TasksInv(client) /\ client.nextId \in Nat
      /\ \A v \in Users : IsQueue(queue[v])
      /\ queue \in [Users -> Seq(Batch)]
  BY ClientFacts DEF IInv, Typed, Calls, ClientType
<1>1. /\ client.worker # <<>> /\ Head(client.worker) = client.worker[1]
      /\ client.worker[1] \in Task /\ IsWrite(client.worker[1])
      /\ 1 \in 1..Len(client.worker)
  BY <1>0, DequeueProperties DEF WriteLocally, IsTask, IsWrite
<1>2. w \in Writes
  BY <1>1 DEF Task, WriteTask, UserTask, ResumeTask, IsWrite
<1>3. \A x \in Writes : x \in Nat
  BY BoundsAreSizes DEF Writes
<1>4. settled[w] = "none"
  BY <1>0, <1>1, <1>2, <1>3 DEF TasksInv
<1>5. \A v \in Users : \A i \in 1..Len(waiting[v]) : waiting[v][i] # w
  <2> TAKE v \in Users
  <2>1. \A i \in 1..Len(queue[v]) : queue[v][i].w < w /\ queue[v][i].w \in Writes
    BY <1>0, <1>1, QueueFacts DEF TasksInv
  <2>2. /\ Len(WritesOf(queue[v])) = Len(queue[v])
        /\ \A i \in 1..Len(queue[v]) : WritesOf(queue[v])[i] = queue[v][i].w
    BY <1>0, WritesOfBatches
  <2> QED
    BY <1>2, <1>3, <2>1, <2>2
<1>6. queue' = [queue EXCEPT ![u] = Append(@, new)] /\ UNCHANGED <<commits, settled>>
  BY <1>1 DEF WriteLocally, server, history
<1>7. [v \in Users |-> WritesOf(queue[v])]' = [waiting EXCEPT ![u] = Append(@, w)]
  <2>1. WritesOf(Append(queue[u], new)) = Append(WritesOf(queue[u]), w)
    <3>1. new \in Batch /\ new.w = w /\ queue[u] \in Seq(Batch) /\ \A x \in Batch : x.w \in Writes
      BY <1>0, <1>2 DEF Batch
    <3> HIDE DEF new, w
    <3> QED
      BY <3>1, WritesOfAppend
  <2> HIDE DEF new, w
  <2>2. \A v \in Users : WritesOf(queue'[v]) =
          IF v = u THEN Append(WritesOf(queue[u]), w) ELSE WritesOf(queue[v])
    BY <1>0, <1>6, <2>1
  <2>3. [v \in Users |-> WritesOf(queue[v])]' = [v \in Users |-> WritesOf(queue'[v])]
    BY DEF WritesOf
  <2> QED
    BY <1>0, <2>2, <2>3
<1>8. UNCHANGED WritesOf(commits) /\ UNCHANGED settled
  BY <1>6 DEF WritesOf
<1> HIDE DEF w
<1>9. Promise!Accept(u, w)
  BY <1>4, <1>5, <1>7, <1>8 DEF Promise!Accept
<1> QED
  BY <1>0, <1>2, <1>9

\* The server applies the write of the pipeline whose turn it is: those before it are
\* acknowledged.
LEMMA PromiseApplies ==
  ASSUME IInv, Commit
  PROVE  \E u \in Users : \E i \in 1..Len(WritesOf(queue[u])) : Promise!Apply(u, i)
<1> DEFINE w == client.sent[1]
           n == Len(client.answers)
           i == n + 1
           u == client.user
           q == queue[u]
           new == [w |-> w, name |-> client.name]
<1>0. IsReading /\ Head(client.sent) # NoWrite
  BY DEF Commit
<1>1. /\ w \in Writes /\ Head(client.sent) = w /\ n \in Nat /\ Wire(client)
      /\ i \in 1..Len(client.pipeline) /\ w = client.pipeline[i].w
      /\ \A j \in 1..n : client.answers[j].kind # "refused"
      /\ client.answers \in Seq(Reply)
  BY <1>0, HeadOfRequests
<1>2. /\ client \in ClientType /\ u \in Users /\ IsQueue(q) /\ q \in Seq(Batch) /\ AnswersInv(client)
      /\ client.pipeline = Beginning(q) /\ client.name \in Users
  BY ClientFacts, QueueFacts DEF ClientType
<1>3. /\ Len(client.pipeline) \in Nat /\ Len(q) \in Nat /\ Len(client.pipeline) <= Len(q)
      /\ \A j \in 1..Len(client.pipeline) : client.pipeline[j] = q[j] /\ j \in 1..Len(q)
  <2>1. /\ Len(Beginning(q)) = IF Len(q) <= MaxPendingWrites THEN Len(q) ELSE MaxPendingWrites
        /\ \A j \in 1..Len(Beginning(q)) : Beginning(q)[j] = q[j]
        /\ Len(q) \in Nat /\ MaxPendingWrites \in Nat
    BY <1>2, BeginningProperties, QueueFacts, BoundsAreSizes
  <2> QED
    BY <1>2, <2>1
<1>4. /\ Len(WritesOf(q)) = Len(q) /\ \A j \in 1..Len(q) : WritesOf(q)[j] = q[j].w
  BY <1>2, WritesOfBatches
<1>5. i \in 1..Len(WritesOf(q)) /\ WritesOf(q)[i] = w
  BY <1>1, <1>3, <1>4
<1>6. \A j \in 1..(i - 1) : \E k \in 1..Len(WritesOf(commits)) : WritesOf(commits)[k] = WritesOf(q)[j]
  <2> TAKE j \in 1..(i - 1)
  <2>1. j \in 1..n /\ j \in 1..Len(client.pipeline)
    BY <1>1
  <2>2. client.answers[j].kind = "ok" /\ client.answers[j].w = client.pipeline[j].w
    <3>1. client.answers[j] \in Reply
      BY <1>1, <2>1, ElementOfSeq
    <3>2. client.answers[j].kind \in {"hello", "ok", "refused"}
      BY <3>1 DEF Reply
    <3> QED
      BY <1>1, <2>1, <3>2 DEF Wire
  <2>3. client.answers[j].version \in 1..Len(commits)
        /\ commits[client.answers[j].version].w = client.answers[j].w
    BY <1>2, <2>1, <2>2 DEF AnswersInv
  <2>4. client.answers[j].w = WritesOf(q)[j]
    BY <1>3, <1>4, <2>1, <2>2
  <2> QED
    BY <2>3, <2>4, AppliedFacts
<1>7. UNCHANGED <<queue, settled>> /\ commits' = Append(commits, new)
  BY <1>1 DEF Commit, disk, history
<1>8. WritesOf(commits)' = Append(WritesOf(commits), w)
  <2>1. new \in [w : Writes, name : Users] /\ new.w = w
    BY <1>1, <1>2
  <2> HIDE DEF new, w
  <2>2. WritesOf(Append(commits, new)) = Append(WritesOf(commits), w)
    <3> DEFINE S == [w : Writes, name : Users]
    <3>1. commits \in Seq(S) /\ new \in S /\ \A x \in S : x.w \in Writes
      BY <2>1, AppliedFacts
    <3> HIDE DEF S
    <3>2. WritesOf(Append(commits, new)) = Append(WritesOf(commits), new.w)
      BY <3>1, WritesOfAppend
    <3> QED
      BY <2>1, <3>2
  <2>3. WritesOf(commits)' = WritesOf(commits')
    BY DEF WritesOf
  <2> QED
    BY <1>7, <2>2, <2>3
<1>9. UNCHANGED [v \in Users |-> WritesOf(queue[v])]
  BY <1>7 DEF WritesOf
<1> DEFINE waiting == [v \in Users |-> WritesOf(queue[v])]
<1>10. waiting[u] = WritesOf(q)
  BY <1>2
<1> HIDE DEF w, i
<1>11. Promise!Apply(u, i)
  BY <1>5, <1>6, <1>7, <1>8, <1>9, <1>10 DEF Promise!Apply, Promise!IsApplied
<1> QED
  BY <1>2, <1>5, <1>11

\* The front of the queue is settled, as done only after it was applied.
LEMMA PromiseSettles ==
  ASSUME IInv, client.pipeline # <<>>, NEW how \in {"ok", "error"},
         settled' = [settled EXCEPT ![Head(client.pipeline).w] = how],
         queue' = [queue EXCEPT ![client.user] = Tail(@)],
         UNCHANGED commits,
         how = "ok" => \E n \in 1..Len(commits) : commits[n].w = Head(client.pipeline).w
  PROVE  \E u \in Users : Promise!Settle(u, how)
<1> DEFINE u == client.user
           q == queue[u]
           b == Head(client.pipeline)
           waiting == [v \in Users |-> WritesOf(queue[v])]
<1>1. /\ u \in Users /\ b = q[1] /\ q # <<>> /\ q \in Seq(Batch)
      /\ queue \in [Users -> Seq(Batch)] /\ \A x \in Batch : x.w \in Writes
  BY FrontFacts, ClientFacts DEF IInv, Typed, Batch
<1>2. /\ WritesOf(Tail(q)) = Tail(WritesOf(q))
      /\ WritesOf(q) # <<>> /\ Head(WritesOf(q)) = b.w
  BY <1>1, WritesOfTail
<1>3. waiting[u] = WritesOf(q)
  BY <1>1
<1>4. [v \in Users |-> WritesOf(queue[v])]' = [waiting EXCEPT ![u] = Tail(@)]
  <2>1. \A v \in Users : WritesOf(queue'[v]) =
          IF v = u THEN Tail(WritesOf(q)) ELSE WritesOf(queue[v])
    BY <1>1, <1>2
  <2>2. [v \in Users |-> WritesOf(queue[v])]' = [v \in Users |-> WritesOf(queue'[v])]
    BY DEF WritesOf
  <2> QED
    BY <1>1, <2>1, <2>2
<1>5. how = "ok" => \E n \in 1..Len(WritesOf(commits)) : WritesOf(commits)[n] = b.w
  BY AppliedFacts
<1>6. UNCHANGED WritesOf(commits)
  BY DEF WritesOf
<1> HIDE DEF b, q
<1>7. settled' = [settled EXCEPT ![b.w] = how]
  BY DEF b
<1>8. Promise!Settle(u, how)
  BY <1>2, <1>3, <1>4, <1>5, <1>6, <1>7 DEF Promise!Settle, Promise!IsApplied
<1> QED
  BY <1>1, <1>8

\* Every step is a step of DurableWrites or leaves what it speaks of alone.
LEMMA PromiseNext == IInv /\ [Next]_vars => [Promise!Next]_Promise!vars
<1> SUFFICES ASSUME IInv, [Next]_vars PROVE Promise!Next \/ UNCHANGED Promise!vars
  OBVIOUS
<1>1. CASE UNCHANGED <<queue, commits, settled>>
  BY <1>1, PromiseStutters
<1>2. CASE WriteLocally
  BY <1>2, PromiseAccepts DEF Promise!Next
<1>3. CASE Commit
  <2>1. PICK u \in Users : \E i \in 1..Len(WritesOf(queue[u])) : Promise!Apply(u, i)
    BY <1>3, PromiseApplies
  <2>2. [v \in Users |-> WritesOf(queue[v])][u] = WritesOf(queue[u])
    OBVIOUS
  <2> QED
    BY <2>1, <2>2 DEF Promise!Next
<1>4. CASE OnWriteStreamMutationResult
  <2> DEFINE b == Head(client.pipeline)
  <2>0. /\ client.pipeline # <<>> /\ client.answers # <<>> /\ Head(client.answers).kind = "ok"
        /\ Conn(client) /\ AnswersInv(client) /\ client.answers \in Seq(Reply)
    BY <1>4, ClientFacts DEF OnWriteStreamMutationResult, IsAnswer, ClientType
  <2>1. b = client.pipeline[1] /\ Without(queue[client.user], b.id) = Tail(queue[client.user])
    BY <2>0, FrontFacts
  <2>2. /\ settled' = [settled EXCEPT ![b.w] = "ok"]
        /\ queue' = [queue EXCEPT ![client.user] = Tail(@)] /\ UNCHANGED commits
    BY <1>4, <2>1 DEF OnWriteStreamMutationResult, server
  <2>3. 1 \in 1..Len(client.answers) /\ Head(client.answers) = client.answers[1]
    BY <2>0, EmptySeq
  <2>4. Wire(client)
    <3>1. client.state = "Open"
      BY <2>0 DEF Conn, Quiet
    <3>2. ~Greeting(client)
      BY <2>0, <2>3 DEF Greeting
    <3> QED
      BY <2>0, <3>1, <3>2 DEF Conn, WireInv
  <2>5. \E n \in 1..Len(commits) : commits[n].w = b.w
    BY <2>0, <2>1, <2>3, <2>4 DEF Wire, AnswersInv
  <2>6. \E u \in Users : Promise!Settle(u, "ok")
    BY <2>0, <2>2, <2>5, PromiseSettles
  <2> QED
    BY <2>6 DEF Promise!Next
<1>5. CASE HandleWriteError
  <2> DEFINE b == Head(client.pipeline)
  <2>0. client.pipeline # <<>>
    BY <1>5 DEF HandleWriteError
  <2>1. Without(queue[client.user], b.id) = Tail(queue[client.user])
    BY <2>0, FrontFacts
  <2>2. /\ settled' = [settled EXCEPT ![b.w] = "error"]
        /\ queue' = [queue EXCEPT ![client.user] = Tail(@)] /\ UNCHANGED commits
    BY <1>5, <2>1 DEF HandleWriteError, server
  <2>3. \E u \in Users : Promise!Settle(u, "error")
    BY <2>0, <2>2, PromiseSettles
  <2> QED
    BY <2>3 DEF Promise!Next
<1>6. CASE Next /\ ~(WriteLocally \/ Commit \/ OnWriteStreamMutationResult \/ HandleWriteError)
  <2>1. UNCHANGED <<queue, commits, settled>>
    BY <1>6 DEF Next, Worker, Stream, Server, CallSetData, AuthStateDidChange, GetToken,
       HandleCredentialChange, ResumeStartWithCredentials, RetryAfterBackoff,
       OnWriteStreamHandshakeComplete, HandleHandshakeError, AnswerHandshake, Refuse,
       IdleTimeout, ApplyRemoteEvent, RefuseHandshake, StreamBreaks, TokenFails,
       ConnectivityChanges, Crash, disk, server, history
  <2> QED
    BY <1>1, <2>1
<1>7. CASE UNCHANGED vars
  BY <1>1, <1>7 DEF vars, disk, server, history
<1> QED
  BY <1>2, <1>3, <1>4, <1>5, <1>6, <1>7

\* The client and the server together keep the promise of DurableWrites.
THEOREM PromiseKept == Spec => KeepsPromise
<1>1. Init => Promise!Init
  BY PromiseInit
<1>2. IInv /\ [Next]_vars => [Promise!Next]_Promise!vars
  BY PromiseNext
<1> QED
  BY <1>1, <1>2, Invariance, PTL DEF Spec, KeepsPromise, Promise!Spec
=============================================================================
