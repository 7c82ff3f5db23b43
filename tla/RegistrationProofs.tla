------------------------- MODULE RegistrationProofs -------------------------
(***************************************************************************)
(* N2 handovers, whatever else UEs, gNBs, services and faults do: a        *)
(* HandoverCommand means that the target admitted the handover, and once   *)
(* all is at rest no target holds anything for one.                        *)
(***************************************************************************)
EXTENDS Registration, SequenceTheorems, TLAPS

----------------------------------------------------------------------------
(***************************************************************************)
(* Queues: what is in them, and that a kind of message is in them at most  *)
(* once.                                                                   *)
(***************************************************************************)
IsQueue(s) == \E M : s \in Seq(M)

Messages(s) == {s[i] : i \in 1..Len(s)}

Has(s, K) == \E m \in Messages(s) : m.type \in K

Single(s, K) ==
    \A i, j \in 1..Len(s) : s[i].type \in K /\ s[j].type \in K => i = j

(* The end of a queue, once a message was appended.                        *)
LEMMA AppendedLast ==
    ASSUME NEW s, IsQueue(s), NEW m
    PROVE  /\ IsQueue(Append(s, m)) /\ Append(s, m) # << >>
           /\ Len(s) \in Nat /\ Len(Append(s, m)) = Len(s) + 1
           /\ \A i \in 1..Len(s) : Append(s, m)[i] = s[i]
           /\ Append(s, m)[Len(s) + 1] = m
<1>1. PICK M : s \in Seq(M)
  BY DEF IsQueue
<1>2. s \in Seq(M \cup {m})
  BY <1>1, SeqMonotonic
<1>3. Append(s, m) \in Seq(M \cup {m})
  BY <1>2
<1>4. Len(s) \in Nat /\ Len(Append(s, m)) = Len(s) + 1
  BY <1>2
<1>5. \A i \in 1..Len(s) : Append(s, m)[i] = s[i]
  BY <1>2
<1>6. Append(s, m)[Len(s) + 1] = m
  BY <1>2
<1>7. Append(s, m) # << >>
  BY <1>4
<1> QED BY <1>3, <1>4, <1>5, <1>6, <1>7 DEF IsQueue

(* A message appended is in the queue, along with what was.                *)
LEMMA Appended ==
    ASSUME NEW s, IsQueue(s), NEW m
    PROVE  /\ IsQueue(Append(s, m)) /\ Append(s, m) # << >>
           /\ \A x : x \in Messages(Append(s, m)) <=> x \in Messages(s) \/ x = m
<1> DEFINE t == Append(s, m)
<1>1. /\ IsQueue(t) /\ t # << >> /\ Len(s) \in Nat /\ Len(t) = Len(s) + 1
      /\ \A i \in 1..Len(s) : t[i] = s[i]
      /\ t[Len(s) + 1] = m
  BY AppendedLast
<1> HIDE DEF t
<1>2. \A i \in 1..Len(t) : i \in 1..Len(s) \/ i = Len(s) + 1
  BY <1>1
<1>3. 1..Len(s) \subseteq 1..Len(t) /\ Len(s) + 1 \in 1..Len(t)
  BY <1>1
<1>4. ASSUME NEW x \in Messages(t) PROVE x \in Messages(s) \/ x = m
  BY <1>1, <1>2, <1>4 DEF Messages
<1>5. ASSUME NEW x \in Messages(s) PROVE x \in Messages(t)
  BY <1>1, <1>3, <1>5 DEF Messages
<1>6. m \in Messages(t)
  BY <1>1, <1>3 DEF Messages
<1> QED BY <1>1, <1>4, <1>5, <1>6 DEF t

LEMMA AppendedKind ==
    ASSUME NEW s, IsQueue(s), NEW m, NEW K
    PROVE  /\ Has(Append(s, m), K) <=> Has(s, K) \/ m.type \in K
           /\ Single(s, K) /\ m.type \notin K => Single(Append(s, m), K)
           /\ ~Has(s, K) => Single(Append(s, m), K)
<1> DEFINE t == Append(s, m)
<1>1. /\ Len(s) \in Nat /\ Len(t) = Len(s) + 1
      /\ \A i \in 1..Len(s) : t[i] = s[i]
      /\ t[Len(s) + 1] = m
  BY AppendedLast
<1>a. Has(t, K) <=> Has(s, K) \/ m.type \in K
  BY Appended DEF Has
<1> HIDE DEF t
<1>2. \A i \in 1..Len(t) : i \in 1..Len(s) \/ i = Len(s) + 1
  BY <1>1
<1>3. ASSUME Single(s, K), m.type \notin K PROVE Single(t, K)
  BY <1>1, <1>2, <1>3 DEF Single
<1>4. ASSUME ~Has(s, K) PROVE Single(t, K)
  <2>1. \A i \in 1..Len(s) : s[i].type \notin K
    BY <1>4 DEF Has, Messages
  <2> QED BY <1>1, <1>2, <2>1 DEF Single
<1> QED BY <1>a, <1>3, <1>4 DEF t

(* What is taken from the front of a queue is no longer behind it.         *)
LEMMA Taken ==
    ASSUME NEW s, IsQueue(s), s # << >>
    PROVE  /\ IsQueue(Tail(s)) /\ Head(s) \in Messages(s)
           /\ \A x : x \in Messages(s) <=> x \in Messages(Tail(s)) \/ x = Head(s)
<1>1. PICK M : s \in Seq(M)
  BY DEF IsQueue
<1>2. /\ Tail(s) \in Seq(M) /\ Len(s) \in Nat \ {0} /\ Len(Tail(s)) = Len(s) - 1
      /\ Head(s) = s[1] /\ \A i \in 1..Len(Tail(s)) : Tail(s)[i] = s[i + 1]
  BY <1>1, EmptySeq, HeadTailProperties
<1> DEFINE t == Tail(s)
<1>3. \A i \in 1..Len(s) : i = 1 \/ (i - 1 \in 1..Len(t) /\ t[i - 1] = s[i])
  BY <1>2
<1>4. \A i \in 1..Len(t) : i + 1 \in 1..Len(s) /\ t[i] = s[i + 1]
  BY <1>2
<1>5. Head(s) \in Messages(s)
  BY <1>2 DEF Messages
<1> HIDE DEF t
<1>6. ASSUME NEW x \in Messages(s) PROVE x \in Messages(t) \/ x = Head(s)
  <2>1. PICK i \in 1..Len(s) : x = s[i]
    BY DEF Messages
  <2>2. CASE i = 1
    BY <1>2, <2>1, <2>2
  <2>3. CASE i # 1
    <3>1. i - 1 \in 1..Len(t) /\ t[i - 1] = x
      BY <1>3, <2>1, <2>3
    <3> QED BY <3>1 DEF Messages
  <2> QED BY <2>2, <2>3
<1>7. ASSUME NEW x \in Messages(t) PROVE x \in Messages(s)
  BY <1>4, <1>7 DEF Messages
<1> QED BY <1>2, <1>5, <1>6, <1>7 DEF IsQueue, t

LEMMA TakenKind ==
    ASSUME NEW s, IsQueue(s), s # << >>, NEW K
    PROVE  /\ Has(s, K) <=> Has(Tail(s), K) \/ Head(s).type \in K
           /\ Single(s, K) => Single(Tail(s), K)
           /\ Single(s, K) /\ Head(s).type \in K => ~Has(Tail(s), K)
<1>1. PICK M : s \in Seq(M)
  BY DEF IsQueue
<1>2. /\ Len(s) \in Nat \ {0} /\ Len(Tail(s)) = Len(s) - 1
      /\ Head(s) = s[1] /\ \A i \in 1..Len(Tail(s)) : Tail(s)[i] = s[i + 1]
  BY <1>1, EmptySeq, HeadTailProperties
<1> DEFINE t == Tail(s)
<1>3. \A i \in 1..Len(t) : i + 1 \in 1..Len(s) /\ t[i] = s[i + 1] /\ i + 1 # 1
  BY <1>2
<1>4. Has(s, K) <=> Has(t, K) \/ Head(s).type \in K
  BY Taken DEF Has
<1>5. ASSUME Single(s, K) PROVE Single(t, K)
  <2> SUFFICES ASSUME NEW i \in 1..Len(t), NEW j \in 1..Len(t), t[i].type \in K, t[j].type \in K
               PROVE  i = j
    BY DEF Single
  <2>1. i + 1 = j + 1
    BY <1>3, <1>5 DEF Single
  <2> QED BY <2>1
<1>6. ASSUME Single(s, K), Head(s).type \in K, Has(t, K) PROVE FALSE
  <2>1. PICK i \in 1..Len(t) : t[i].type \in K
    BY <1>6 DEF Has, Messages
  <2>2. 1 \in 1..Len(s) /\ i + 1 = 1
    BY <1>2, <1>3, <1>6, <2>1 DEF Single
  <2> QED BY <1>3, <2>2
<1> QED BY <1>4, <1>5, <1>6

LEMMA EmptyQueue ==
    /\ IsQueue(<< >>) /\ \A x : x \notin Messages(<< >>)
    /\ \A K : ~Has(<< >>, K) /\ Single(<< >>, K)
<1>1. << >> \in Seq({}) /\ Len(<< >>) = 0
  BY EmptySeq
<1>2. 1..0 = {}
  OBVIOUS
<1> QED BY <1>1, <1>2 DEF IsQueue, Messages, Has, Single

(* Reports of one message, or of a cancellation and a second one.          *)
LEMMA Reported ==
    ASSUME NEW s, IsQueue(s)
    PROVE  /\ s \o << >> = s
           /\ \A m : s \o <<m>> = Append(s, m)
           /\ \A m, n : s \o (<<m>> \o <<n>>) = Append(Append(s, m), n)
<1>1. PICK M : s \in Seq(M)
  BY DEF IsQueue
<1>2. s \o << >> = s
  BY <1>1, ConcatEmptySeq
<1>3. ASSUME NEW m PROVE s \o <<m>> = Append(s, m)
  <2>1. s \in Seq(M \cup {m}) /\ m \in M \cup {m}
    BY <1>1, SeqMonotonic
  <2> QED BY <2>1, AppendIsConcat
<1>4. ASSUME NEW m, NEW n PROVE s \o (<<m>> \o <<n>>) = Append(Append(s, m), n)
  <2> DEFINE N == M \cup {m, n}
  <2>1. s \in Seq(N) /\ m \in N /\ n \in N
    BY <1>1, SeqMonotonic
  <2>2. <<m>> \in Seq(N) /\ <<n>> \in Seq(N) /\ Append(s, m) \in Seq(N)
    BY <2>1
  <2> HIDE DEF N
  <2>3. s \o (<<m>> \o <<n>>) = (s \o <<m>>) \o <<n>>
    BY <2>1, <2>2, ConcatAssociative
  <2>4. s \o <<m>> = Append(s, m)
    BY <2>1, AppendIsConcat
  <2>5. Append(s, m) \o <<n>> = Append(Append(s, m), n)
    BY <2>1, <2>2, AppendIsConcat
  <2> QED BY <2>3, <2>4, <2>5
<1> QED BY <1>2, <1>3, <1>4

LEMMA OneMessage ==
    ASSUME NEW m
    PROVE  /\ <<m>> = Append(<< >>, m)
<1>1. << >> \in Seq({m})
  BY EmptySeq
<1> QED BY <1>1
----------------------------------------------------------------------------
(***************************************************************************)
(* The messages of a handover.                                             *)
(***************************************************************************)
Required == {"HandoverRequired"}
Cancel == {"HandoverCancel"}
Asks == Required \cup Cancel

Command == {"HandoverCommand"}
Verdicts == Command \cup {"HandoverPreparationFailure"}
CancelAck == {"HandoverCancelAcknowledge"}
Hears == Verdicts \cup CancelAck

Request == {"HandoverRequest"}
Acknowledge == {"HandoverRequestAcknowledge"}
Setup == {"NGSetupRequest"}

HandoverTypes == Asks \cup Hears \cup Request \cup Replies \cup Setup

Kinds == {Required, Cancel, Asks, Command, Verdicts, CancelAck, Hears, Request, Acknowledge,
          Replies, Setup}

(* A queue that lost or gained other messages only.                        *)
Alike(s, t) ==
    /\ IsQueue(t)
    /\ \A m : m.type \in HandoverTypes => (m \in Messages(t) <=> m \in Messages(s))
    /\ \A K \in Kinds : Single(s, K) => Single(t, K)

LEMMA AlikeKinds ==
    ASSUME NEW s, NEW t, Alike(s, t), NEW K \in Kinds
    PROVE  /\ Has(t, K) <=> Has(s, K)
           /\ Single(s, K) => Single(t, K)
           /\ \A m : m.type \in K => (m \in Messages(t) <=> m \in Messages(s))
<1>1. K \subseteq HandoverTypes
  BY DEF Kinds, HandoverTypes, Asks, Hears, Verdicts, Acknowledge, Replies
<1>2. \A m : m.type \in K => (m \in Messages(t) <=> m \in Messages(s))
  BY <1>1 DEF Alike
<1>3. Has(t, K) <=> Has(s, K)
  BY <1>2 DEF Has
<1> QED BY <1>2, <1>3 DEF Alike

LEMMA KindsAre ==
    /\ Required \in Kinds /\ Cancel \in Kinds /\ Asks \in Kinds /\ Command \in Kinds
    /\ Verdicts \in Kinds /\ CancelAck \in Kinds /\ Hears \in Kinds /\ Request \in Kinds
    /\ Acknowledge \in Kinds /\ Replies \in Kinds /\ Setup \in Kinds
BY DEF Kinds

LEMMA AlikeSelf == ASSUME NEW s, IsQueue(s) PROVE Alike(s, s)
BY DEF Alike

LEMMA AlikeAppend ==
    ASSUME NEW s, IsQueue(s), NEW m, m.type \notin HandoverTypes
    PROVE  Alike(s, Append(s, m))
<1>1. \A x : x.type \in HandoverTypes => (x \in Messages(Append(s, m)) <=> x \in Messages(s))
  BY Appended
<1>2. ASSUME NEW K \in Kinds, Single(s, K) PROVE Single(Append(s, m), K)
  <2>1. K \subseteq HandoverTypes
    BY DEF Kinds, HandoverTypes, Asks, Hears, Verdicts, Acknowledge, Replies
  <2> QED BY <2>1, <1>2, AppendedKind
<1> QED BY <1>1, <1>2, Appended DEF Alike

LEMMA AlikeTail ==
    ASSUME NEW s, IsQueue(s), s # << >>, Head(s).type \notin HandoverTypes
    PROVE  Alike(s, Tail(s))
<1>1. \A x : x.type \in HandoverTypes => (x \in Messages(Tail(s)) <=> x \in Messages(s))
  BY Taken
<1> QED BY <1>1, Taken, TakenKind DEF Alike

LEMMA AlikeTransitive ==
    ASSUME NEW s, NEW t, NEW v, Alike(s, t), Alike(t, v)
    PROVE  Alike(s, v)
BY DEF Alike

----------------------------------------------------------------------------
(***************************************************************************)
(* The invariant behind HandoverBacked.  A source has one thing to say or  *)
(* to hear about its handover at a time, and where that is follows the     *)
(* stage of the handover; a target that was not disturbed is waited for by *)
(* one source at most, whose request or whose reply is in one place.       *)
(***************************************************************************)
Waits(g) == busy[g] # NotBusy

ShapeAt(g) ==
    /\ IsQueue(up[g]) /\ IsQueue(down[g])
    /\ DOMAIN busy[g] = {"target", "id", "detached"} /\ busy[g].target \in Gnb \cup {"none"}
    /\ busy[g] = NotBusy <=> busy[g].target = "none"
    /\ DOMAIN ho[g] = {"stage", "id", "target"}
    /\ ho[g].stage = "none" <=> ho[g] = NoHandover
    /\ ho[g] # NoHandover => ho[g].target \in Gnb
    /\ DOMAIN relay[g] = {"awaiting", "reply"}

ShapeInv ==
    /\ DOMAIN open = Gnb /\ DOMAIN link = Gnb /\ named \subseteq Gnb
    /\ DOMAIN relay = Gnb /\ DOMAIN busy = Gnb /\ DOMAIN up = Gnb /\ DOMAIN down = Gnb
    /\ DOMAIN ho = Gnb /\ disturbed \subseteq Gnb
    /\ \A g \in Gnb : ShapeAt(g)

UeFits(x) ==
    /\ DOMAIN x = {"st", "at", "ran", "id", "sqn", "vec", "key", "ul", "tmsi", "session", "excused",
                     "overtaken"}
    /\ x.at \in Gnb \cup {"none"}
    /\ x.st = "idle" <=> x.at = "none"
    /\ x.at # "none" => link[x.at]

UeInv == DOMAIN ue = UE /\ \A u \in UE : UeFits(ue[u])

LinkAt(g) ==
    /\ ~open[g] => ~link[g] /\ ~Waits(g)
    /\ ~link[g] => /\ ho[g] = NoHandover /\ ~Has(down[g], Hears)
                   /\ \A m \in Messages(up[g]) : m.type \in Required => m.target \in disturbed
                   /\ Waits(g) => busy[g].target \in disturbed

SourceAt(g) ==
    /\ Single(up[g], Asks) /\ Single(down[g], Hears)
    /\ Has(up[g], Required) =>
           ho[g].stage = "required" /\ ~Waits(g) /\ ~Has(down[g], Verdicts)
    /\ Waits(g) => /\ ho[g].stage = "required" /\ ~Has(down[g], Verdicts)
                   /\ busy[g].id = ho[g].id /\ busy[g].target = ho[g].target
    /\ Has(down[g], Verdicts) => ho[g].stage = "required"
    /\ Has(up[g], Cancel) => ho[g].stage = "cancelling" /\ ~Has(down[g], CancelAck)
    /\ Has(down[g], CancelAck) => ho[g].stage = "cancelling"
    /\ \A m \in Messages(up[g]) :
           m.type \in Required => m.id = ho[g].id /\ m.target = ho[g].target
    /\ \A m \in Messages(up[g]) : m.type \in Cancel => m.id = ho[g].id
    /\ \A m \in Messages(down[g]) : m.type \in Verdicts => m.id = ho[g].id

Acknowledged(h) ==
    Has(up[h], Acknowledge) \/ relay[h].reply = "HandoverRequestAcknowledge"

AwaitedBy(g, h) ==
    /\ h \in named /\ \A s \in Gnb : busy[s].target = h => s = g
    /\ relay[h].awaiting
    /\ Single(down[h], Request) /\ Single(up[h], Replies)
    /\ Has(down[h], Request) => ~Has(up[h], Replies) /\ relay[h].reply = "none"
    /\ Has(up[h], Replies) => relay[h].reply = "none"
    /\ \A m \in Messages(down[h]) : m.type \in Request => m.id = busy[g].id
    /\ Acknowledged(h) => g \in admitted

TargetAt(h) ==
    /\ link[h]
    /\ Single(up[h], Setup) /\ (h \in named => ~Has(up[h], Setup))
    /\ \A g \in Gnb : busy[g].target = h => AwaitedBy(g, h)
    /\ (\A g \in Gnb : busy[g].target # h) => ~Has(down[h], Request) /\ ~Has(up[h], Replies)

BackedAt(g) ==
    Has(down[g], Command) /\ ho[g].target \in Gnb \ disturbed => g \in admitted

HandoverInv ==
    /\ ShapeInv /\ UeInv
    /\ \A g \in Gnb : LinkAt(g)
    /\ \A g \in Gnb : link[g] => SourceAt(g)
    /\ \A h \in Gnb \ disturbed : TargetAt(h)
    /\ \A g \in Gnb : BackedAt(g)

QueuesAlike(q, r) == DOMAIN r = Gnb /\ \A g \in Gnb : Alike(q[g], r[g])

(* A step that has nothing to do with handovers.                           *)
Elsewhere ==
    /\ open' = open /\ link' = link /\ named' = named /\ relay' = relay /\ busy' = busy
    /\ ho' = ho /\ admitted' = admitted
    /\ disturbed \subseteq disturbed' /\ disturbed' \subseteq Gnb
    /\ QueuesAlike(up, up') /\ QueuesAlike(down, down')

LEMMA ElsewhereKeeps ==
    ASSUME HandoverInv, Elsewhere, UeInv'
    PROVE  HandoverInv'
<1>1. ASSUME NEW g \in Gnb, NEW K \in Kinds
      PROVE  /\ Has(up'[g], K) <=> Has(up[g], K)
             /\ Has(down'[g], K) <=> Has(down[g], K)
             /\ Single(up[g], K) => Single(up'[g], K)
             /\ Single(down[g], K) => Single(down'[g], K)
             /\ \A m \in Messages(up'[g]) : m.type \in K => m \in Messages(up[g])
             /\ \A m \in Messages(down'[g]) : m.type \in K => m \in Messages(down[g])
  BY AlikeKinds DEF Elsewhere, QueuesAlike
<1>2. \A g \in Gnb : ShapeAt(g)'
  BY DEF HandoverInv, ShapeInv, ShapeAt, Elsewhere, QueuesAlike, Alike
<1>3. ShapeInv'
  BY <1>2 DEF HandoverInv, ShapeInv, Elsewhere, QueuesAlike
<1>4. ASSUME NEW g \in Gnb PROVE LinkAt(g)'
  <2>1. LinkAt(g)
    BY DEF HandoverInv
  <2> QED BY <2>1, <1>1, KindsAre DEF LinkAt, Elsewhere, Waits
<1>5. ASSUME NEW g \in Gnb, link'[g] PROVE SourceAt(g)'
  <2>1. SourceAt(g)
    BY <1>5 DEF HandoverInv, Elsewhere
  <2>2. /\ Single(up'[g], Asks) /\ Single(down'[g], Hears)
        /\ Has(up'[g], Required) <=> Has(up[g], Required)
        /\ Has(up'[g], Cancel) <=> Has(up[g], Cancel)
        /\ Has(down'[g], Verdicts) <=> Has(down[g], Verdicts)
        /\ Has(down'[g], CancelAck) <=> Has(down[g], CancelAck)
    BY <2>1, <1>1, KindsAre DEF SourceAt
  <2>3. /\ \A m \in Messages(up'[g]) : m.type \in Required => m \in Messages(up[g])
        /\ \A m \in Messages(up'[g]) : m.type \in Cancel => m \in Messages(up[g])
        /\ \A m \in Messages(down'[g]) : m.type \in Verdicts => m \in Messages(down[g])
    BY <1>1, KindsAre
  <2>4. ho'[g] = ho[g] /\ busy'[g] = busy[g]
    BY DEF Elsewhere
  <2> QED BY <2>1, <2>2, <2>3, <2>4 DEF SourceAt, Waits
<1>6. ASSUME NEW h \in Gnb \ disturbed' PROVE TargetAt(h)'
  <2>1. TargetAt(h) /\ h \in Gnb
    BY <1>6 DEF HandoverInv, Elsewhere
  <2>2. /\ Single(up[h], Setup) => Single(up'[h], Setup)
        /\ Single(down[h], Request) => Single(down'[h], Request)
        /\ Single(up[h], Replies) => Single(up'[h], Replies)
        /\ Has(up'[h], Setup) <=> Has(up[h], Setup)
        /\ Has(down'[h], Request) <=> Has(down[h], Request)
        /\ Has(up'[h], Replies) <=> Has(up[h], Replies)
        /\ Has(up'[h], Acknowledge) <=> Has(up[h], Acknowledge)
        /\ \A m \in Messages(down'[h]) : m.type \in Request => m \in Messages(down[h])
    BY <2>1, <1>1, KindsAre
  <2>3. link' = link /\ named' = named /\ relay' = relay /\ busy' = busy /\ admitted' = admitted
    BY DEF Elsewhere
  <2> QED BY <2>1, <2>2, <2>3 DEF TargetAt, AwaitedBy, Acknowledged
<1>7. ASSUME NEW g \in Gnb PROVE BackedAt(g)'
  <2>1. BackedAt(g)
    BY DEF HandoverInv
  <2>2. Has(down'[g], Command) <=> Has(down[g], Command)
    BY <1>1, KindsAre
  <2> QED BY <2>1, <2>2 DEF BackedAt, Elsewhere
<1> QED BY <1>3, <1>4, <1>5, <1>6, <1>7 DEF HandoverInv

----------------------------------------------------------------------------
(***************************************************************************)
(* Initially, and steps that have nothing to do with handovers.            *)
(***************************************************************************)
LEMMA NothingIs ==
    /\ DOMAIN NotBusy = {"target", "id", "detached"} /\ NotBusy.target = "none"
    /\ DOMAIN NoHandover = {"stage", "id", "target"} /\ NoHandover.stage = "none"
    /\ NoHandover.target = "none"
    /\ DOMAIN NotAwaiting = {"awaiting", "reply"} /\ NotAwaiting.reply = "none"
BY DEF NotBusy, NoHandover, NotAwaiting

LEMMA HandoverInit == Init => HandoverInv
<1> SUFFICES ASSUME Init PROVE HandoverInv
  OBVIOUS
<1> USE AccessMobilityAssumption
<1>1. ShapeInv
  <2>1. ASSUME NEW g \in Gnb PROVE IsQueue(up[g]) /\ IsQueue(down[g])
    <3>1. up[g] = Append(<< >>, [type |-> "NGSetupRequest"]) /\ down[g] = << >>
      BY OneMessage DEF Init, AmfInit
    <3>2. IsQueue(Append(<< >>, [type |-> "NGSetupRequest"]))
      BY EmptyQueue, Appended
    <3> QED BY <3>1, <3>2, EmptyQueue
  <2> QED BY <2>1 DEF Init, AmfInit, ShapeInv, ShapeAt, NotBusy, NoHandover, NotAwaiting
<1>2. UeInv
  <2>1. PICK n \in {seed - 1, seed}, t \in {0, ForeignTmsi} :
           ue = [u \in UE |-> [st |-> "idle", at |-> "none", ran |-> 0, id |-> 0, sqn |-> n,
                             vec |-> 0, key |-> 0, ul |-> 0, tmsi |-> t, session |-> FALSE,
                             excused |-> FALSE, overtaken |-> FALSE]]
    BY DEF Init
  <2> QED BY <2>1 DEF UeInv, UeFits
<1>3. ASSUME NEW g \in Gnb
      PROVE  /\ down[g] = << >> /\ open[g] /\ link[g] /\ busy[g] = NotBusy
             /\ ho[g] = NoHandover /\ named = {}
             /\ \A m : m \in Messages(up[g]) <=> m = [type |-> "NGSetupRequest"]
             /\ Single(up[g], Setup) /\ Single(up[g], Asks)
  <2>1. up[g] = Append(<< >>, [type |-> "NGSetupRequest"])
    BY OneMessage DEF Init, AmfInit
  <2>2. \A K : Single(up[g], K)
    <3>1. \A K : Single(Append(<< >>, [type |-> "NGSetupRequest"]), K)
      BY AppendedKind, EmptyQueue
    <3> QED BY <2>1, <3>1
  <2>3. \A m : m \in Messages(up[g]) <=> m = [type |-> "NGSetupRequest"]
    BY <2>1, Appended, EmptyQueue
  <2> QED BY <2>2, <2>3 DEF Init, AmfInit
<1>4. ASSUME NEW g \in Gnb
      PROVE  /\ ~Has(up[g], Required) /\ ~Has(up[g], Cancel) /\ ~Has(up[g], Replies)
  <2>1. \A m \in Messages(up[g]) : m.type = "NGSetupRequest"
    <3> SUFFICES ASSUME NEW m \in Messages(up[g]) PROVE m.type = "NGSetupRequest"
      OBVIOUS
    <3>1. \A x : x \in Messages(up[g]) => x = [type |-> "NGSetupRequest"]
      BY <1>3
    <3> QED BY <3>1
  <2> QED BY <2>1 DEF Has, Required, Cancel, Replies
<1>5. ASSUME NEW g \in Gnb PROVE LinkAt(g)
  BY <1>3 DEF LinkAt
<1>6. ASSUME NEW g \in Gnb PROVE SourceAt(g)
  <2>1. /\ \A m \in Messages(up[g]) : m.type \notin Required /\ m.type \notin Cancel
        /\ \A m : m \notin Messages(down[g])
        /\ Single(down[g], Hears) /\ ~Has(down[g], Verdicts) /\ ~Has(down[g], CancelAck)
    BY <1>3, <1>4, EmptyQueue DEF Has
  <2> QED BY <1>3, <1>4, <2>1 DEF SourceAt, Waits
<1>7. ASSUME NEW h \in Gnb PROVE TargetAt(h)
  <2>1. ~Has(down[h], Request) /\ ~Has(up[h], Replies)
    BY <1>3, <1>4, EmptyQueue
  <2>2. ASSUME NEW g \in Gnb PROVE busy[g].target # h
    <3>1. busy[g] = NotBusy
      BY <1>3
    <3> QED BY <3>1, NothingIs
  <2> QED BY <1>3, <2>1, <2>2 DEF TargetAt
<1>8. ASSUME NEW g \in Gnb PROVE BackedAt(g)
  BY <1>3, EmptyQueue DEF BackedAt
<1> QED BY <1>1, <1>2, <1>5, <1>6, <1>7, <1>8 DEF HandoverInv

LEMMA UeStep ==
    ASSUME UeInv, link' = link, NEW u \in UE, NEW x, UeFits(x), ue' = [ue EXCEPT ![u] = x]
    PROVE  UeInv'
<1>1. DOMAIN ue' = UE /\ \A v \in UE : UeFits(ue'[v])
  BY DEF UeInv
<1>2. \A v \in UE : UeFits(ue'[v]) => UeFits(ue[v])'
  BY DEF UeFits
<1> QED BY <1>1, <1>2 DEF UeInv

LEMMA UeSteps ==
    ASSUME link' = link, DOMAIN ue' = UE, \A u \in UE : UeFits(ue'[u])
    PROVE  UeInv'
<1>1. \A v \in UE : UeFits(ue'[v]) => UeFits(ue[v])'
  BY DEF UeFits
<1> QED BY <1>1 DEF UeInv

(* Nothing was taken.                                                      *)
Grown(q, r) == \A g \in Gnb : \A m \in Messages(q[g]) : m \in Messages(r[g])

LEMMA QueuesSelf ==
    ASSUME HandoverInv
    PROVE  QueuesAlike(up, up) /\ QueuesAlike(down, down) /\ Grown(down, down)
BY AlikeSelf DEF Grown, HandoverInv, ShapeInv, ShapeAt, QueuesAlike

LEMMA QueuesAppend ==
    ASSUME NEW q, QueuesAlike(q, q), NEW g \in Gnb, NEW m, m.type \notin HandoverTypes
    PROVE  /\ QueuesAlike(q, [q EXCEPT ![g] = Append(@, m)])
           /\ QueuesAlike(q, [q EXCEPT ![g] = @ \o <<m>>])
           /\ QueuesAlike(q, [q EXCEPT ![g] = @ \o << >>])
<1>1. \A x \in Gnb : IsQueue(q[x]) /\ Alike(q[x], q[x])
  BY DEF QueuesAlike, Alike
<1>2. Alike(q[g], Append(q[g], m)) /\ q[g] \o <<m>> = Append(q[g], m) /\ q[g] \o << >> = q[g]
  BY <1>1, AlikeAppend, Reported
<1> QED BY <1>1, <1>2 DEF QueuesAlike

LEMMA QueuesTail ==
    ASSUME NEW q, QueuesAlike(q, q), NEW g \in Gnb, q[g] # << >>,
           Head(q[g]).type \notin HandoverTypes
    PROVE  QueuesAlike(q, [q EXCEPT ![g] = Tail(@)])
<1>1. \A x \in Gnb : IsQueue(q[x]) /\ Alike(q[x], q[x])
  BY DEF QueuesAlike, Alike
<1>2. Alike(q[g], Tail(q[g]))
  BY <1>1, AlikeTail
<1> QED BY <1>1, <1>2 DEF QueuesAlike

LEMMA SentGrows ==
    ASSUME NEW q, DOMAIN q = Gnb, \A x \in Gnb : IsQueue(q[x]), NEW g \in Gnb, NEW m
    PROVE  Grown(q, Sent(q, g, m))
<1>1. \A x \in Gnb : x # g => Sent(q, g, m)[x] = q[x]
  BY DEF Sent
<1>2. Sent(q, g, m)[g] = q[g] \/ Sent(q, g, m)[g] = Append(q[g], m)
  BY DEF Sent
<1>3. \A x \in Messages(q[g]) : x \in Messages(Append(q[g], m))
  BY Appended
<1> QED BY <1>1, <1>2, <1>3 DEF Grown

LEMMA SentElsewhere ==
    ASSUME HandoverInv, NEW g \in Gnb, NEW m, m.type \notin HandoverTypes
    PROVE  QueuesAlike(down, Sent(down, g, m)) /\ Grown(down, Sent(down, g, m))
<1>1. QueuesAlike(down, Sent(down, g, m))
  BY QueuesSelf, QueuesAppend DEF Sent
<1>2. Grown(down, Sent(down, g, m))
  BY SentGrows DEF HandoverInv, ShapeInv, ShapeAt
<1> QED BY <1>1, <1>2

LEMMA OthersAre ==
    \A t \in {"RegistrationRequest", "ServiceRequest", "RegistrationComplete",
              "PduSessionEstablishmentRequest", "PathSwitchRequest", "HandoverNotify",
              "UEContextReleaseRequest", "UEContextReleaseComplete", "AuthenticationResponse",
              "AuthenticationFailure", "SecurityModeComplete", "AuthenticationRequest",
              "SecurityModeCommand", "RegistrationAccept", "RegistrationReject",
              "ServiceAccept", "ServiceReject", "DlNasTransport", "UEContextReleaseCommand",
              "PathSwitchRequestAcknowledge", "ErrorIndication"} : t \notin HandoverTypes
BY DEF HandoverTypes, Asks, Hears, Verdicts, Required, Cancel, Command, CancelAck, Request,
       Replies, Setup

LEMMA StartRegistrationKeeps ==
    ASSUME HandoverInv, NEW u \in UE, NEW g \in Gnb, StartRegistration(u, g)
    PROVE  HandoverInv' /\ Elsewhere
<1> USE AccessMobilityAssumption
<1> DEFINE m == [type |-> "RegistrationRequest", ue |-> u, ran |-> rans + 1]
<1>1. m.type \notin HandoverTypes
  BY OthersAre
<1>2. QueuesAlike(up, up') /\ QueuesAlike(down, down')
  BY <1>1, QueuesSelf, QueuesAppend DEF StartRegistration, Report
<1>3. Elsewhere
  BY <1>2 DEF StartRegistration, coreVars, Elsewhere, HandoverInv, ShapeInv
<1>4. UeInv'
  <2> DEFINE x == [ue[u] EXCEPT !.st = "registering", !.at = g, !.ran = rans + 1, !.id = 0,
                           !.vec = 0, !.session = FALSE,
                           !.excused = (up[g] \o down[g]) \notin {<< >>, <<[type |-> "NGSetupRequest"]>>}]
  <2>1. link' = link /\ ue' = [ue EXCEPT ![u] = x] /\ link[g]
    BY DEF StartRegistration, coreVars
  <2>2. UeFits(x)
    BY <2>1 DEF HandoverInv, UeInv, UeFits
  <2> HIDE DEF x
  <2> QED BY <2>1, <2>2, UeStep DEF HandoverInv
<1> QED BY <1>3, <1>4, ElsewhereKeeps

LEMMA StartServiceKeeps ==
    ASSUME HandoverInv, NEW u \in UE, NEW g \in Gnb, StartService(u, g)
    PROVE  HandoverInv' /\ Elsewhere
<1> USE AccessMobilityAssumption
<1> DEFINE m == [type |-> "ServiceRequest", tmsi |-> ue[u].tmsi, key |-> ue[u].key,
                 count |-> ue[u].ul, ran |-> rans + 1]
<1>1. m.type \notin HandoverTypes
  BY OthersAre
<1>2. QueuesAlike(up, up') /\ QueuesAlike(down, down')
  BY <1>1, QueuesSelf, QueuesAppend DEF StartService, Report
<1>3. Elsewhere
  BY <1>2 DEF StartService, coreVars, Elsewhere, HandoverInv, ShapeInv
<1>4. UeInv'
  <2> DEFINE x == [ue[u] EXCEPT !.st = "requesting", !.at = g, !.ran = rans + 1,
                                !.id = 0, !.ul = ue[u].ul + 1, !.session = TRUE]
  <2>1. link' = link /\ link[g]
    BY DEF StartService, coreVars
  <2>3. ue' = [ue EXCEPT ![u] = x]
    BY DEF StartService
  <2>2. UeFits(x)
    BY <2>1 DEF HandoverInv, UeInv, UeFits
  <2> HIDE DEF x
  <2> QED BY <2>1, <2>2, <2>3, UeStep DEF HandoverInv
<1> QED BY <1>3, <1>4, ElsewhereKeeps

LEMMA SendSecuredKeeps ==
    ASSUME HandoverInv, NEW u \in UE, CompleteRegistration(u) \/ RequestPduSession(u)
    PROVE  HandoverInv' /\ Elsewhere
<1> USE AccessMobilityAssumption
<1>1. PICK t \in {"RegistrationComplete", "PduSessionEstablishmentRequest"} :
         Report(ue[u].at, <<[type |-> t, key |-> ue[u].key, count |-> ue[u].ul]>>)
  BY DEF CompleteRegistration, RequestPduSession, SendSecured
<1>2. ue[u].at \in Gnb
  BY DEF CompleteRegistration, RequestPduSession, HandoverInv, UeInv, UeFits
<1> DEFINE m == [type |-> t, key |-> ue[u].key, count |-> ue[u].ul]
<1>3. m.type \notin HandoverTypes
  BY OthersAre
<1>4. QueuesAlike(up, up') /\ QueuesAlike(down, down')
  BY <1>1, <1>2, <1>3, QueuesSelf, QueuesAppend
     DEF CompleteRegistration, RequestPduSession, SendSecured, Report
<1>5. Elsewhere
  BY <1>4 DEF CompleteRegistration, RequestPduSession, SendSecured, coreVars, Elsewhere,
              HandoverInv, ShapeInv
<1>6. UeInv'
  <2>1. PICK y \in {[ue[u] EXCEPT !.st = "registered"], [ue[u] EXCEPT !.session = TRUE]} :
           ue' = [ue EXCEPT ![u] = [y EXCEPT !.ul = @ + 1]]
    BY DEF CompleteRegistration, RequestPduSession, SendSecured
  <2> DEFINE x == [y EXCEPT !.ul = @ + 1]
  <2>2. UeFits(x)
    <3>1. UeFits(ue[u]) /\ ue[u].st # "idle"
      BY DEF CompleteRegistration, RequestPduSession, HandoverInv, UeInv
    <3>2. CASE y = [ue[u] EXCEPT !.st = "registered"]
      BY <1>2, <3>1, <3>2 DEF UeFits
    <3>3. CASE y = [ue[u] EXCEPT !.session = TRUE]
      BY <1>2, <3>1, <3>3 DEF UeFits
    <3> QED BY <3>2, <3>3
  <2>3. link' = link /\ ue' = [ue EXCEPT ![u] = x]
    BY <2>1 DEF CompleteRegistration, RequestPduSession, SendSecured, coreVars
  <2> HIDE DEF x
  <2> QED BY <2>2, <2>3, UeStep DEF HandoverInv
<1> QED BY <1>5, <1>6, ElsewhereKeeps

LEMMA SwitchPathKeeps ==
    ASSUME HandoverInv, NEW u \in UE, NEW h \in Gnb, SwitchPath(u, h)
    PROVE  HandoverInv' /\ Elsewhere
<1> USE AccessMobilityAssumption
<1> DEFINE m == [type |-> "PathSwitchRequest", id |-> ue[u].id, ran |-> rans + 1]
<1>1. m.type \notin HandoverTypes
  BY OthersAre
<1>2. QueuesAlike(up, up') /\ QueuesAlike(down, down')
  BY <1>1, QueuesSelf, QueuesAppend DEF SwitchPath, Report
<1>3. Elsewhere
  BY <1>2 DEF SwitchPath, coreVars, Elsewhere, HandoverInv, ShapeInv
<1>4. UeInv'
  <2> DEFINE x == [ue[u] EXCEPT !.at = h, !.ran = rans + 1]
  <2>1. link' = link /\ ue' = [ue EXCEPT ![u] = x] /\ link[h]
    BY DEF SwitchPath, coreVars, HandoverInv, UeInv, UeFits
  <2>2. UeFits(x)
    BY <2>1 DEF SwitchPath, HandoverInv, UeInv, UeFits
  <2> HIDE DEF x
  <2> QED BY <2>1, <2>2, UeStep DEF HandoverInv
<1> QED BY <1>3, <1>4, ElsewhereKeeps

LEMMA TransferKeeps ==
    ASSUME HandoverInv, NEW u \in UE, Transfer(u)
    PROVE  HandoverInv' /\ Elsewhere
<1>1. QueuesAlike(up, up') /\ QueuesAlike(down, down')
  BY QueuesSelf, SentElsewhere, OthersAre
     DEF Transfer, N1N2MessageTransfer, send_dl_nas_transport, send_downlink_nas_transport, Send
<1>2. Elsewhere
  BY <1>1 DEF Transfer, N1N2MessageTransfer, ranVars, Elsewhere, HandoverInv, ShapeInv
<1>3. UeInv'
  BY DEF Transfer, N1N2MessageTransfer, ranVars, HandoverInv, UeInv, UeFits
<1> QED BY <1>2, <1>3, ElsewhereKeeps

LEMMA HomeNetworkKeeps ==
    ASSUME HandoverInv, HomeNetwork
    PROVE  HandoverInv' /\ Elsewhere
<1>1. Elsewhere
  BY QueuesSelf DEF HomeNetwork, AusfLoses, UdmAdvances, Elsewhere, HandoverInv, ShapeInv
<1>2. UeInv'
  <2>1. link' = link /\ (ue' = ue \/ ue' = [u \in UE |-> [ue[u] EXCEPT !.excused = TRUE]])
    BY DEF HomeNetwork, AusfLoses, UdmAdvances
  <2>2. ASSUME NEW u \in UE
        PROVE  /\ UeFits([ue[u] EXCEPT !.excused = TRUE])
               /\ UeFits(ue[u])
    BY DEF HandoverInv, UeInv, UeFits
  <2> QED BY <2>1, <2>2, UeSteps DEF HandoverInv, UeInv
<1> QED BY <1>1, <1>2, ElsewhereKeeps

LEMMA IdleFits == ASSUME NEW x, UeFits(x) PROVE UeFits(Idle(x))
BY DEF UeFits, Idle

LEMMA ReactionFits ==
    ASSUME NEW x, UeFits(x), x.at \in Gnb, NEW m, NEW r, r = Reaction(x, m)
    PROVE  /\ UeFits(r[1])
           /\ r[2] = << >> \/ \E n : n.type \notin HandoverTypes /\ r[2] = <<n>>
<1> USE AccessMobilityAssumption
<1>1. x.st # "idle"
  BY DEF UeFits
<1> DEFINE Good(p) == /\ UeFits(p[1])
                      /\ p[2] = << >> \/ \E n : n.type \notin HandoverTypes /\ p[2] = <<n>>
<1>2. Good(Authenticate(x, m))
  <2>1. CASE vectors[m.key].sqn > x.sqn
    <3> DEFINE y == [x EXCEPT !.sqn = vectors[m.key].sqn, !.vec = m.key]
               n == [type |-> "AuthenticationResponse", res |-> m.key]
    <3>1. Authenticate(x, m) = <<y, <<n>>>>
      BY <2>1 DEF Authenticate
    <3>2. UeFits(y) /\ n.type \notin HandoverTypes
      BY <1>1, OthersAre DEF UeFits
    <3> HIDE DEF y, n
    <3> QED BY <3>1, <3>2
  <2>2. CASE ~(vectors[m.key].sqn > x.sqn)
    <3> DEFINE n == [type |-> "AuthenticationFailure", auts |-> [rand |-> m.key, sqn |-> x.sqn]]
    <3>1. Authenticate(x, m) = <<x, <<n>>>>
      BY <2>2 DEF Authenticate
    <3>2. n.type \notin HandoverTypes
      BY OthersAre
    <3> HIDE DEF n
    <3> QED BY <3>1, <3>2
  <2> QED BY <2>1, <2>2
<1>3. \A y, t : UeFits(y) /\ t \notin HandoverTypes => Good(<<y, <<Uplink(t)>>>>)
  <2> SUFFICES ASSUME NEW y, NEW t, UeFits(y), t \notin HandoverTypes
               PROVE  Good(<<y, <<Uplink(t)>>>>)
    OBVIOUS
  <2>1. Uplink(t).type = t
    BY DEF Uplink
  <2> QED BY <2>1
<1>4. \A y : UeFits(y) => Good(<<y, << >>>>)
  OBVIOUS
<1>5. /\ UeFits([x EXCEPT !.st = "accepted", !.tmsi = m.tmsi])
      /\ UeFits([x EXCEPT !.st = "registered"]) /\ UeFits(Idle(x))
      /\ UeFits(Idle([x EXCEPT !.tmsi = 0]))
      /\ UeFits([x EXCEPT !.key = m.key, !.ul = 1, !.tmsi = 0])
  BY <1>1 DEF UeFits, Idle
<1>6. Good(<<[x EXCEPT !.key = m.key, !.ul = 1, !.tmsi = 0],
             <<[type |-> "SecurityModeComplete", key |-> m.key, count |-> 0]>>>>)
  <2> DEFINE n == [type |-> "SecurityModeComplete", key |-> m.key, count |-> 0]
  <2>1. n.type \notin HandoverTypes
    BY OthersAre
  <2> HIDE DEF n
  <2>2. Good(<<[x EXCEPT !.key = m.key, !.ul = 1, !.tmsi = 0], <<n>>>>)
    BY <1>5, <2>1
  <2> QED BY <2>2 DEF n
<1>7. "UEContextReleaseRequest" \notin HandoverTypes
  BY OthersAre
<1> HIDE DEF Good
<1>8. Good(r)
  <2>1. \/ r = Authenticate(x, m)
        \/ r = <<[x EXCEPT !.key = m.key, !.ul = 1, !.tmsi = 0],
                 <<[type |-> "SecurityModeComplete", key |-> m.key, count |-> 0]>>>>
        \/ r = <<[x EXCEPT !.st = "accepted", !.tmsi = m.tmsi], << >>>>
        \/ r = <<[x EXCEPT !.st = "registered"], << >>>>
        \/ r = <<Idle(x), <<Uplink("UEContextReleaseRequest")>>>>
        \/ r = <<Idle([x EXCEPT !.tmsi = 0]), <<Uplink("UEContextReleaseRequest")>>>>
        \/ r = <<x, << >>>>
    BY Zenon DEF Reaction
  <2> QED BY <2>1, <1>2, <1>3, <1>4, <1>5, <1>6, <1>7
<1> QED BY <1>8 DEF Good

LEMMA DeliverElsewhere ==
    ASSUME HandoverInv, NEW g \in Gnb, Deliver(g), Head(down[g]).type \notin HandoverTypes,
           ho' = ho, admitted' = admitted, QueuesAlike(up, up'), UeInv'
    PROVE  HandoverInv' /\ Elsewhere
<1>1. QueuesAlike(down, down')
  BY QueuesSelf, QueuesTail DEF Deliver
<1>2. Elsewhere
  BY <1>1 DEF Deliver, coreVars, Elsewhere, HandoverInv, ShapeInv
<1> QED BY <1>2, ElsewhereKeeps

LEMMA ReportElsewhere ==
    ASSUME HandoverInv, NEW g \in Gnb, NEW ms, Report(g, ms),
           ms = << >> \/ \E n : n.type \notin HandoverTypes /\ ms = <<n>>
    PROVE  QueuesAlike(up, up')
<1>1. CASE ms = << >>
  <2>1. \A x \in Gnb : IsQueue(up[x]) /\ up'[x] = up[x] /\ DOMAIN up' = Gnb
    BY <1>1, Reported DEF Report, HandoverInv, ShapeInv, ShapeAt
  <2> QED BY <2>1, QueuesSelf DEF QueuesAlike, HandoverInv, ShapeInv, Report
<1>2. ASSUME NEW n, n.type \notin HandoverTypes, ms = <<n>> PROVE QueuesAlike(up, up')
  BY <1>2, QueuesSelf, QueuesAppend DEF Report
<1> QED BY <1>1, <1>2

LEMMA ReceiveNasKeeps ==
    ASSUME HandoverInv, NEW g \in Gnb, Deliver(g), ReceiveNas(g, Head(down[g]))
    PROVE  HandoverInv' /\ Elsewhere
<1> USE AccessMobilityAssumption
<1> DEFINE m == Head(down[g])
           us == {u \in UE : ue[u].at = g /\ ue[u].ran = m.ran}
<1>1. m.type \notin HandoverTypes
  BY OthersAre DEF ReceiveNas, NasTypes
<1>2. link' = link
  BY DEF Deliver, coreVars
<1>3. QueuesAlike(up, up') /\ UeInv'
  <2>1. CASE us = {}
    <3>1. UeInv'
      BY <1>2, <2>1, UeSteps DEF ReceiveNas, HandoverInv, UeInv
    <3>2. QueuesAlike(up, up')
      <4>1. Uplink("UEContextReleaseRequest").type \notin HandoverTypes
        BY OthersAre DEF Uplink
      <4> QED BY <2>1, <4>1, QueuesSelf, ReportElsewhere DEF ReceiveNas
    <3> QED BY <3>1, <3>2
  <2>2. ASSUME us # {} PROVE QueuesAlike(up, up') /\ UeInv'
    <3>1. PICK u \in us : LET r == Reaction([ue[u] EXCEPT !.id = m.id], m) IN
                            /\ ue' = [ue EXCEPT ![u] = r[1]]
                            /\ Report(g, r[2])
      BY <2>2 DEF ReceiveNas
    <3> DEFINE x == [ue[u] EXCEPT !.id = m.id]
               r == Reaction(x, m)
    <3>2. UeFits(x) /\ x.at \in Gnb
      BY DEF HandoverInv, UeInv, UeFits
    <3>3. ue' = [ue EXCEPT ![u] = r[1]] /\ Report(g, r[2])
      BY <3>1
    <3> HIDE DEF x
    <3>4. /\ UeFits(r[1])
          /\ r[2] = << >> \/ \E n : n.type \notin HandoverTypes /\ r[2] = <<n>>
      BY <3>2, ReactionFits
    <3> HIDE DEF r
    <3> QED BY <1>2, <3>3, <3>4, UeStep, ReportElsewhere DEF HandoverInv
  <2> QED BY <2>1, <2>2
<1>4. ho' = ho /\ admitted' = admitted
  BY DEF ReceiveNas
<1> QED BY <1>1, <1>3, <1>4, DeliverElsewhere

LEMMA ReceiveReleaseCommandKeeps ==
    ASSUME HandoverInv, NEW g \in Gnb, Deliver(g), ReceiveReleaseCommand(g, Head(down[g]))
    PROVE  HandoverInv' /\ Elsewhere
<1> USE AccessMobilityAssumption
<1>1. Head(down[g]).type \notin HandoverTypes
  BY OthersAre DEF ReceiveReleaseCommand
<1>2. link' = link /\ ho' = ho /\ admitted' = admitted
  BY DEF Deliver, coreVars, ReceiveReleaseCommand
<1>3. UeInv'
  <2>1. DOMAIN ue' = UE /\ \A u \in UE : ue'[u] = ue[u] \/ ue'[u] = Idle(ue[u])
    BY DEF ReceiveReleaseCommand
  <2> QED BY <1>2, <2>1, IdleFits, UeSteps DEF HandoverInv, UeInv
<1>4. QueuesAlike(up, up')
  <2>1. Uplink("UEContextReleaseComplete").type \notin HandoverTypes
    BY OthersAre DEF Uplink
  <2> QED BY <2>1, QueuesSelf, ReportElsewhere DEF ReceiveReleaseCommand
<1> QED BY <1>1, <1>2, <1>3, <1>4, DeliverElsewhere

LEMMA ReceivePathSwitchKeeps ==
    ASSUME HandoverInv, NEW g \in Gnb, Deliver(g), ReceivePathSwitch(g, Head(down[g]))
    PROVE  HandoverInv' /\ Elsewhere
<1> USE AccessMobilityAssumption
<1>1. Head(down[g]).type \notin HandoverTypes
  BY OthersAre DEF ReceivePathSwitch
<1>2. link' = link /\ ho' = ho /\ admitted' = admitted /\ up' = up
  BY DEF Deliver, coreVars, ReceivePathSwitch
<1>3. UeInv'
  <2>1. DOMAIN ue' = UE /\ \A u \in UE : ue'[u] = ue[u] \/ ue'[u] = Idle(ue[u])
    BY DEF ReceivePathSwitch
  <2> QED BY <1>2, <2>1, IdleFits, UeSteps DEF HandoverInv, UeInv
<1> QED BY <1>1, <1>2, <1>3, QueuesSelf, DeliverElsewhere

(* What the handlers of other messages send has nothing to do with         *)
(* handovers.                                                              *)
LEMMA DownlinkElsewhere ==
    ASSUME HandoverInv, NEW g \in Gnb, NEW t, t \notin HandoverTypes, NEW i, NEW ran, NEW key,
           NEW count, send_downlink_nas_transport(g, t, i, ran, key, count)
    PROVE  QueuesAlike(down, down') /\ Grown(down, down')
BY SentElsewhere DEF send_downlink_nas_transport, Send

LEMMA RegistrationElsewhere ==
    ASSUME HandoverInv, NEW g \in Gnb, NEW a, NEW resync, NEW answer,
           initiate_5g_aka_authentication(g, a, resync, answer)
    PROVE  QueuesAlike(down, down') /\ Grown(down, down')
BY QueuesSelf, DownlinkElsewhere, OthersAre DEF initiate_5g_aka_authentication

LEMMA UplinkNasElsewhere ==
    ASSUME HandoverInv, NEW g \in Gnb, NEW m, NEW answer, uplink_nas_by_phase(g, m, answer)
    PROVE  QueuesAlike(down, down') /\ Grown(down, down')
<1>1. CASE handle_uplink_nas_transport(g, m, answer)
  <2>1. CASE handle_authentication_failure(g, m, answer)
    BY <2>1, QueuesSelf, RegistrationElsewhere DEF handle_authentication_failure
  <2>2. CASE handle_authentication_response(g, m, answer)
    BY <2>2, QueuesSelf, DownlinkElsewhere, OthersAre DEF handle_authentication_response
  <2> QED BY <1>1, <2>1, <2>2 DEF handle_uplink_nas_transport
<1>2. CASE handle_uplink_nas_transport_smc_complete(g, m, answer)
  BY <1>2, DownlinkElsewhere, SentElsewhere, OthersAre
     DEF handle_uplink_nas_transport_smc_complete, Send
<1>3. CASE handle_uplink_nas_transport_registration_complete(g, m, answer)
  BY <1>3, QueuesSelf DEF handle_uplink_nas_transport_registration_complete
<1>4. CASE handle_uplink_nas_transport_pdu_session_establishment(g, m, answer)
  BY <1>4, QueuesSelf, DownlinkElsewhere, OthersAre
     DEF handle_uplink_nas_transport_pdu_session_establishment, send_dl_nas_transport
<1>5. CASE UNCHANGED down
  BY <1>5, QueuesSelf
<1> QED BY <1>1, <1>2, <1>3, <1>4, <1>5 DEF uplink_nas_by_phase

OtherHandler(g, m, answer) ==
    \/ handle_handover_notify(g, m, answer)
    \/ handle_initial_ue_message(g, m, answer)
    \/ handle_service_request(g, m, answer)
    \/ uplink_nas_by_phase(g, m, answer)
    \/ handle_ue_context_release_request(g, m, answer)
    \/ handle_ue_context_release_complete(g, m, answer)
    \/ handle_path_switch_request(g, m, answer)

LEMMA OtherHandlerElsewhere ==
    ASSUME HandoverInv, NEW g \in Gnb, NEW m, NEW answer, OtherHandler(g, m, answer)
    PROVE  QueuesAlike(down, down') /\ Grown(down, down') /\ m.type \notin HandoverTypes
<1> USE QueuesSelf
<1>1. CASE handle_handover_notify(g, m, answer)
  <2>1. ReleaseCommand(m.id).type = "UEContextReleaseCommand"
    BY DEF ReleaseCommand
  <2> QED BY <1>1, <2>1, SentElsewhere, OthersAre DEF handle_handover_notify, Send
<1>2. CASE handle_initial_ue_message(g, m, answer)
  BY <1>2, RegistrationElsewhere, OthersAre DEF handle_initial_ue_message
<1>3. CASE handle_service_request(g, m, answer)
  BY <1>3, DownlinkElsewhere, OthersAre DEF handle_service_request
<1>4. CASE uplink_nas_by_phase(g, m, answer)
  BY <1>4, UplinkNasElsewhere, OthersAre DEF uplink_nas_by_phase, UplinkNas
<1>5. CASE handle_ue_context_release_request(g, m, answer)
  <2>1. ReleaseCommand(auth[g].id).type = "UEContextReleaseCommand"
    BY DEF ReleaseCommand
  <2> QED BY <1>5, <2>1, SentElsewhere, OthersAre DEF handle_ue_context_release_request, Send
<1>6. CASE handle_ue_context_release_complete(g, m, answer)
  BY <1>6, OthersAre DEF handle_ue_context_release_complete
<1>7. CASE handle_path_switch_request(g, m, answer)
  BY <1>7, SentElsewhere, OthersAre DEF handle_path_switch_request, Send
<1> QED BY <1>1, <1>2, <1>3, <1>4, <1>5, <1>6, <1>7 DEF OtherHandler

(* What every message handled leaves alone.                                *)
LEMMA SharedDisturbed ==
    ASSUME NEW g \in Gnb, HandleMessage(g), NEW h \in Gnb, NEW a \in Gnb, NEW b \in Gnb, a # b,
           busy'[a].target = h, busy'[b].target = h
    PROVE  h \in disturbed'
<1>1. disturbed' = disturbed \cup
          {x \in Gnb : \/ \E u \in UE : ue_contexts[u].target = x /\ ue_contexts'[u].target # x
                      \/ \E s, t \in Gnb : s # t /\ busy'[s].target = x /\ busy'[t].target = x}
  BY DEF HandleMessage
<1> QED BY <1>1

LEMMA HandleMessageFacts ==
    ASSUME HandoverInv, NEW g \in Gnb, HandleMessage(g)
    PROVE  /\ open[g] /\ ~Waits(g) /\ up[g] # << >> /\ up' = [up EXCEPT ![g] = Tail(@)]
           /\ open' = open /\ link' = link /\ ho' = ho /\ admitted' = admitted
           /\ prepared' = prepared
           /\ disturbed \subseteq disturbed' /\ disturbed' \subseteq Gnb
           /\ UeInv'
<1>1. /\ open[g] /\ ~Waits(g) /\ up[g] # << >> /\ up' = [up EXCEPT ![g] = Tail(@)]
      /\ open' = open /\ link' = link
  BY DEF HandleMessage, handle_association, Waits
<1>2. ho' = ho /\ admitted' = admitted /\ prepared' = prepared
  BY DEF HandleMessage
<1>3. disturbed \subseteq disturbed' /\ disturbed' \subseteq Gnb
  BY DEF HandleMessage, HandoverInv, ShapeInv
<1>4. UeInv'
  <2>1. PICK answer \in Answers :
           ue' = [u \in UE |->
                     [ue[u] EXCEPT !.excused = @ \/ Excuses(u, g, Head(up[g]), answer),
                                   !.overtaken = \/ @ /\ entries'[u] = entries[u]
                                                 \/ Overtakes(u, g, Head(up[g]), answer)]]
    BY DEF HandleMessage
  <2>2. ASSUME NEW u \in UE, NEW e, NEW o
        PROVE  UeFits([ue[u] EXCEPT !.excused = e, !.overtaken = o])
    BY DEF HandoverInv, UeInv, UeFits
  <2>3. DOMAIN ue' = UE /\ \A u \in UE : UeFits(ue'[u])
    BY <2>1, <2>2
  <2> QED BY <1>1, <2>3, UeSteps
<1> QED BY <1>1, <1>2, <1>3, <1>4

LEMMA HandleOtherKeeps ==
    ASSUME HandoverInv, NEW g \in Gnb, HandleMessage(g), NEW answer,
           OtherHandler(g, Head(up[g]), answer), UNCHANGED <<named, relay, busy>>
    PROVE  HandoverInv' /\ Elsewhere /\ Grown(down, down')
<1>1. QueuesAlike(down, down') /\ Grown(down, down') /\ Head(up[g]).type \notin HandoverTypes
  BY OtherHandlerElsewhere
<1>2. QueuesAlike(up, up')
  BY <1>1, HandleMessageFacts, QueuesSelf, QueuesTail
<1>3. Elsewhere
  BY <1>1, <1>2, HandleMessageFacts DEF Elsewhere
<1> QED BY <1>1, <1>3, HandleMessageFacts, ElsewhereKeeps

----------------------------------------------------------------------------
(***************************************************************************)
(* Steps of handovers.  Most of them concern one source or one target; the *)
(* others keep their part of the invariant because what it reads is the    *)
(* same.                                                                   *)
(***************************************************************************)
KindsSame(s, t, Ks) ==
    \A K \in Ks : /\ Has(t, K) <=> Has(s, K)
                  /\ Single(s, K) => Single(t, K)
                  /\ \A m : m.type \in K => (m \in Messages(t) <=> m \in Messages(s))

AskKinds == {Required, Cancel, Asks}
HearKinds == {Command, Verdicts, CancelAck, Hears}
ReplyKinds == {Setup, Replies, Acknowledge}
RequestKinds == {Request}

Outside(t, Ks) == \A K \in Ks : t \notin K

LEMMA SameSelf == \A s, Ks : KindsSame(s, s, Ks)
BY DEF KindsSame

LEMMA SameAppend ==
    ASSUME NEW s, IsQueue(s), NEW m, NEW Ks, Outside(m.type, Ks)
    PROVE  KindsSame(s, Append(s, m), Ks)
<1> SUFFICES ASSUME NEW K \in Ks
             PROVE  /\ Has(Append(s, m), K) <=> Has(s, K)
                    /\ Single(s, K) => Single(Append(s, m), K)
                    /\ \A x : x.type \in K => (x \in Messages(Append(s, m)) <=> x \in Messages(s))
  BY DEF KindsSame
<1>1. m.type \notin K
  BY DEF Outside
<1> QED BY <1>1, Appended, AppendedKind

LEMMA SameTail ==
    ASSUME NEW s, IsQueue(s), s # << >>, NEW Ks, Outside(Head(s).type, Ks)
    PROVE  KindsSame(s, Tail(s), Ks)
<1> SUFFICES ASSUME NEW K \in Ks
             PROVE  /\ Has(Tail(s), K) <=> Has(s, K)
                    /\ Single(s, K) => Single(Tail(s), K)
                    /\ \A x : x.type \in K => (x \in Messages(Tail(s)) <=> x \in Messages(s))
  BY DEF KindsSame
<1>1. Head(s).type \notin K
  BY DEF Outside
<1> QED BY <1>1, Taken, TakenKind

LEMMA SameTransitive ==
    ASSUME NEW s, NEW t, NEW v, NEW Ks, KindsSame(s, t, Ks), KindsSame(t, v, Ks)
    PROVE  KindsSame(s, v, Ks)
BY DEF KindsSame

(* Which kinds a message is not of.                                        *)
LEMMA OutsideKinds ==
    /\ \A t \in Hears \cup Request \cup Replies \cup Setup \cup {"UEContextReleaseCommand",
                "UEContextReleaseRequest", "HandoverNotify"} : Outside(t, AskKinds)
    /\ \A t \in Asks \cup Request \cup Replies \cup Setup \cup {"UEContextReleaseCommand"} :
           Outside(t, HearKinds)
    /\ \A t \in Asks \cup Hears \cup Request \cup {"UEContextReleaseRequest", "HandoverNotify"} :
           Outside(t, ReplyKinds)
    /\ \A t \in Asks \cup Hears \cup Replies \cup Setup \cup {"UEContextReleaseCommand"} :
           Outside(t, RequestKinds)
BY DEF Outside, AskKinds, HearKinds, ReplyKinds, RequestKinds, Asks, Hears, Verdicts, Required,
       Cancel, Command, CancelAck, Request, Acknowledge, Replies, Setup

LEMMA HasParts ==
    \A s : /\ Has(s, Asks) <=> Has(s, Required) \/ Has(s, Cancel)
           /\ Has(s, Hears) <=> Has(s, Verdicts) \/ Has(s, CancelAck)
           /\ Has(s, Command) => Has(s, Verdicts)
           /\ Has(s, Acknowledge) => Has(s, Replies)
BY DEF Has, Asks, Hears, Verdicts, Acknowledge, Replies

SourceSame(g) ==
    /\ ho'[g] = ho[g] /\ (busy'[g] = NotBusy <=> busy[g] = NotBusy)
    /\ busy'[g].target = busy[g].target /\ busy'[g].id = busy[g].id
    /\ KindsSame(up[g], up'[g], AskKinds) /\ KindsSame(down[g], down'[g], HearKinds)

TargetSame(h) ==
    /\ link'[h] = link[h] /\ (h \in named' <=> h \in named) /\ relay'[h] = relay[h]
    /\ \A s \in Gnb : /\ busy'[s].target = h <=> busy[s].target = h
                      /\ busy[s].target = h => /\ busy'[s].id = busy[s].id
                                               /\ s \in admitted => s \in admitted'
    /\ KindsSame(up[h], up'[h], ReplyKinds) /\ KindsSame(down[h], down'[h], RequestKinds)

LEMMA SourceKeeps ==
    ASSUME NEW g, SourceAt(g), SourceSame(g)
    PROVE  SourceAt(g)'
<1>1. /\ Single(up'[g], Asks) /\ Single(down'[g], Hears)
      /\ Has(up'[g], Required) <=> Has(up[g], Required)
      /\ Has(up'[g], Cancel) <=> Has(up[g], Cancel)
      /\ Has(down'[g], Verdicts) <=> Has(down[g], Verdicts)
      /\ Has(down'[g], CancelAck) <=> Has(down[g], CancelAck)
      /\ \A m \in Messages(up'[g]) : m.type \in Required => m \in Messages(up[g])
      /\ \A m \in Messages(up'[g]) : m.type \in Cancel => m \in Messages(up[g])
      /\ \A m \in Messages(down'[g]) : m.type \in Verdicts => m \in Messages(down[g])
  BY DEF SourceAt, SourceSame, KindsSame, AskKinds, HearKinds
<1>2. /\ ho'[g] = ho[g] /\ (busy'[g] = NotBusy <=> busy[g] = NotBusy)
      /\ busy'[g].target = busy[g].target /\ busy'[g].id = busy[g].id
  BY DEF SourceSame
<1> QED BY <1>1, <1>2 DEF SourceAt, Waits

LEMMA LinkKeeps ==
    ASSUME NEW g, LinkAt(g), SourceSame(g), open'[g] = open[g], link'[g] = link[g],
           disturbed \subseteq disturbed'
    PROVE  LinkAt(g)'
<1>1. /\ Has(down'[g], Hears) <=> Has(down[g], Hears)
      /\ \A m \in Messages(up'[g]) : m.type \in Required => m \in Messages(up[g])
  BY DEF SourceSame, KindsSame, AskKinds, HearKinds
<1>2. /\ ho'[g] = ho[g] /\ (busy'[g] = NotBusy <=> busy[g] = NotBusy)
      /\ busy'[g].target = busy[g].target
  BY DEF SourceSame
<1> QED BY <1>1, <1>2 DEF LinkAt, Waits

LEMMA BackedKeeps ==
    ASSUME NEW g, BackedAt(g), SourceSame(g), g \in admitted => g \in admitted',
           disturbed \subseteq disturbed'
    PROVE  BackedAt(g)'
<1>1. Has(down'[g], Command) <=> Has(down[g], Command)
  BY DEF SourceSame, KindsSame, HearKinds
<1> QED BY <1>1 DEF BackedAt, SourceSame

LEMMA TargetKeeps ==
    ASSUME NEW h, TargetAt(h), TargetSame(h)
    PROVE  TargetAt(h)'
<1>1. /\ Single(up[h], Setup) => Single(up'[h], Setup)
      /\ Single(up[h], Replies) => Single(up'[h], Replies)
      /\ Single(down[h], Request) => Single(down'[h], Request)
      /\ Has(up'[h], Setup) <=> Has(up[h], Setup)
      /\ Has(up'[h], Replies) <=> Has(up[h], Replies)
      /\ Has(up'[h], Acknowledge) <=> Has(up[h], Acknowledge)
      /\ Has(down'[h], Request) <=> Has(down[h], Request)
      /\ \A m \in Messages(down'[h]) : m.type \in Request => m \in Messages(down[h])
  BY DEF TargetSame, KindsSame, ReplyKinds, RequestKinds
<1>2. ASSUME NEW g \in Gnb, busy'[g].target = h PROVE AwaitedBy(g, h)'
  <2>1. busy[g].target = h /\ AwaitedBy(g, h)
    BY <1>2 DEF TargetSame, TargetAt
  <2>2. /\ h \in named' /\ relay'[h] = relay[h] /\ busy'[g].id = busy[g].id
        /\ g \in admitted => g \in admitted'
        /\ \A s \in Gnb : busy'[s].target = h => s = g
    BY <2>1 DEF TargetSame, AwaitedBy
  <2>3. Acknowledged(h)' => Acknowledged(h)
    BY <1>1, <2>2 DEF Acknowledged
  <2> QED BY <1>1, <2>1, <2>2, <2>3 DEF AwaitedBy
<1> QED BY <1>1, <1>2 DEF TargetAt, TargetSame

LEMMA RequireHandoverKeeps ==
    ASSUME HandoverInv, NEW u \in UE, NEW t \in Gnb, RequireHandover(u, t)
    PROVE  HandoverInv'
<1> USE AccessMobilityAssumption
<1> DEFINE m == [type |-> "HandoverRequired", id |-> ue[u].id, target |-> t]
<1>1. PICK g \in Gnb : g = ue[u].at /\ link[g] /\ ho[g] = NoHandover
  BY DEF RequireHandover, HandoverInv, UeInv, UeFits
<1>2. /\ open' = open /\ link' = link /\ named' = named /\ relay' = relay /\ busy' = busy
      /\ disturbed' = disturbed /\ down' = down /\ ue' = ue
  BY DEF RequireHandover, coreVars
<1>3. /\ up' = [up EXCEPT ![g] = @ \o <<m>>]
      /\ ho' = [ho EXCEPT ![g] = [stage |-> "required", id |-> ue[u].id, target |-> t]]
      /\ admitted' = admitted \ {g}
  BY <1>1 DEF RequireHandover, Report
<1>4. /\ ~Has(up[g], Required) /\ ~Has(up[g], Cancel) /\ ~Has(up[g], Asks) /\ ~Waits(g)
      /\ ~Has(down[g], Verdicts) /\ ~Has(down[g], CancelAck) /\ ~Has(down[g], Command)
      /\ Single(down[g], Hears) /\ IsQueue(up[g])
  BY <1>1, NothingIs, HasParts DEF HandoverInv, SourceAt, ShapeInv, ShapeAt
<1>5. up'[g] = Append(up[g], m) /\ \A x \in Gnb : x # g => up'[x] = up[x] /\ ho'[x] = ho[x]
  BY <1>1, <1>3, <1>4, Reported DEF HandoverInv, ShapeInv
<1>6. m.type \in Required /\ m.type \in Asks /\ m.type \notin Cancel
  BY DEF Required, Asks, Cancel
<1>7. m.id = ue[u].id /\ m.target = t
  OBVIOUS
<1> HIDE DEF m
<1>8. /\ IsQueue(up'[g]) /\ Single(up'[g], Asks) /\ ~Has(up'[g], Cancel)
      /\ \A x \in Messages(up'[g]) : x.type \in Asks => x = m
  BY <1>4, <1>5, <1>6, Appended, AppendedKind DEF Has
<1>9. /\ ho'[g].stage = "required" /\ ho'[g].id = m.id /\ ho'[g].target = m.target
      /\ DOMAIN ho'[g] = {"stage", "id", "target"}
  BY <1>1, <1>3, <1>7 DEF HandoverInv, ShapeInv
<1>10. ShapeInv'
  <2>1. ASSUME NEW x \in Gnb PROVE ShapeAt(x)'
    <3>1. ShapeAt(x)
      BY DEF HandoverInv, ShapeInv
    <3>2. CASE x = g
      BY <1>2, <1>7, <1>8, <1>9, <3>1, <3>2, NothingIs DEF ShapeAt
    <3>3. CASE x # g
      BY <1>2, <1>5, <3>1, <3>3 DEF ShapeAt
    <3> QED BY <3>2, <3>3
  <2> QED BY <1>2, <1>3, <2>1 DEF HandoverInv, ShapeInv
<1>11. UeInv'
  BY <1>2, UeSteps DEF HandoverInv, UeInv
<1>12. \A x \in Gnb : x # g => SourceSame(x)
  BY <1>2, <1>5, SameSelf DEF SourceSame
<1>13. SourceAt(g)'
  <2>1. \A x \in Messages(up'[g]) : x.type \in Required => x.id = ho'[g].id /\ x.target = ho'[g].target
    BY <1>6, <1>8, <1>9 DEF Asks
  <2>2. /\ \A x \in Messages(up'[g]) : x.type \notin Cancel
        /\ \A x \in Messages(down'[g]) : x.type \notin Verdicts
    BY <1>2, <1>4, <1>8 DEF Has
  <2>3. /\ ~Has(down'[g], Verdicts) /\ ~Has(down'[g], CancelAck) /\ Single(down'[g], Hears)
        /\ busy'[g] = NotBusy
    BY <1>2, <1>4 DEF Waits
  <2> QED BY <1>8, <1>9, <2>1, <2>2, <2>3 DEF SourceAt, Waits
<1>14. \A x \in Gnb : LinkAt(x)'
  BY <1>1, <1>2, <1>12, LinkKeeps DEF HandoverInv, LinkAt
<1>15. ASSUME NEW x \in Gnb, link'[x] PROVE SourceAt(x)'
  BY <1>2, <1>12, <1>13, <1>15, SourceKeeps DEF HandoverInv
<1>16. \A x \in Gnb : BackedAt(x)'
  <2>1. BackedAt(g)'
    <3>1. ~Has(down'[g], Command)
      BY <1>2, <1>4
    <3> QED BY <3>1 DEF BackedAt
  <2>2. ASSUME NEW x \in Gnb, x # g PROVE BackedAt(x)'
    <3>1. BackedAt(x) /\ SourceSame(x) /\ disturbed \subseteq disturbed'
          /\ (x \in admitted => x \in admitted')
      BY <1>2, <1>3, <1>12, <2>2 DEF HandoverInv
    <3> QED BY <3>1, BackedKeeps
  <2> QED BY <2>1, <2>2
<1>17. ASSUME NEW x \in Gnb \ disturbed' PROVE TargetAt(x)'
  <2>1. KindsSame(up[x], up'[x], ReplyKinds)
    BY <1>4, <1>5, <1>6, SameSelf, SameAppend, OutsideKinds
  <2>2. busy[g].target \notin Gnb
    BY <1>1, <1>4 DEF HandoverInv, ShapeInv, ShapeAt, Waits
  <2>3. TargetSame(x)
    BY <1>2, <1>3, <2>1, <2>2, SameSelf DEF TargetSame
  <2> QED BY <1>2, <2>3, TargetKeeps DEF HandoverInv
<1> QED BY <1>10, <1>11, <1>14, <1>15, <1>16, <1>17 DEF HandoverInv

(* The source gives up a handover it was told to execute.                  *)
GivesUp(g, m) ==
    /\ m.type = "HandoverCancel" /\ m.id = ho[g].id
    /\ ho[g].stage = "commanded" /\ ho' = [ho EXCEPT ![g].stage = "cancelling"]
    /\ open' = open /\ link' = link /\ named' = named /\ relay' = relay /\ busy' = busy
    /\ disturbed' = disturbed /\ admitted' = admitted /\ down' = down
    /\ DOMAIN up' = Gnb /\ \A x \in Gnb : x # g => up'[x] = up[x]
    /\ Alike(Append(up[g], m), up'[g])

LEMMA AlikeSame ==
    ASSUME NEW s, NEW t, Alike(s, t), NEW Ks, Ks \subseteq Kinds
    PROVE  KindsSame(s, t, Ks)
BY AlikeKinds DEF KindsSame

LEMMA KindSets ==
    AskKinds \subseteq Kinds /\ HearKinds \subseteq Kinds /\ ReplyKinds \subseteq Kinds
    /\ RequestKinds \subseteq Kinds
BY DEF AskKinds, HearKinds, ReplyKinds, RequestKinds, Kinds

LEMMA GivesUpKeeps ==
    ASSUME HandoverInv, NEW g \in Gnb, NEW m, GivesUp(g, m), UeInv'
    PROVE  HandoverInv'
<1> USE AccessMobilityAssumption
<1>1. /\ open' = open /\ link' = link /\ named' = named /\ relay' = relay /\ busy' = busy
      /\ disturbed' = disturbed /\ down' = down /\ admitted' = admitted
  BY DEF GivesUp
<1>2. link[g] /\ ho[g].stage = "commanded"
  BY NothingIs DEF GivesUp, HandoverInv, LinkAt
<1>3. /\ ~Has(up[g], Required) /\ ~Has(up[g], Cancel) /\ ~Has(up[g], Asks) /\ ~Waits(g)
      /\ ~Has(down[g], Verdicts) /\ ~Has(down[g], CancelAck) /\ ~Has(down[g], Command)
      /\ Single(down[g], Hears) /\ IsQueue(up[g])
  BY <1>2, HasParts DEF HandoverInv, SourceAt, ShapeInv, ShapeAt
<1>4. m.type \in Cancel /\ m.type \in Asks /\ m.type \notin Required /\ m.id = ho[g].id
  BY DEF GivesUp, Required, Asks, Cancel
<1>5. /\ IsQueue(up'[g]) /\ Single(up'[g], Asks) /\ ~Has(up'[g], Required)
      /\ \A x \in Messages(up'[g]) : x.type \in Asks => x = m
  <2> DEFINE s == Append(up[g], m)
  <2>1. /\ IsQueue(s) /\ Single(s, Asks) /\ ~Has(s, Required)
        /\ \A x \in Messages(s) : x.type \in Asks => x = m
    BY <1>3, <1>4, Appended, AppendedKind DEF Has
  <2>2. Alike(s, up'[g])
    BY DEF GivesUp
  <2> HIDE DEF s
  <2> QED BY <2>1, <2>2, AlikeKinds, KindsAre DEF Alike
<1>6. /\ ho'[g].stage = "cancelling" /\ ho'[g].id = ho[g].id /\ ho'[g].target = ho[g].target
      /\ DOMAIN ho'[g] = {"stage", "id", "target"} /\ DOMAIN ho' = Gnb
      /\ \A x \in Gnb : x # g => ho'[x] = ho[x]
  BY DEF GivesUp, HandoverInv, ShapeInv, ShapeAt
<1>7. DOMAIN up' = Gnb /\ \A x \in Gnb : x # g => up'[x] = up[x]
  BY DEF GivesUp
<1>8. ShapeInv'
  <2>1. ASSUME NEW x \in Gnb PROVE ShapeAt(x)'
    <3>1. ShapeAt(x)
      BY DEF HandoverInv, ShapeInv
    <3>2. CASE x = g
      BY <1>1, <1>2, <1>5, <1>6, <3>1, <3>2, NothingIs DEF ShapeAt
    <3>3. CASE x # g
      BY <1>1, <1>6, <1>7, <3>1, <3>3 DEF ShapeAt
    <3> QED BY <3>2, <3>3
  <2> QED BY <1>1, <1>6, <1>7, <2>1 DEF HandoverInv, ShapeInv
<1>9. \A x \in Gnb : x # g => SourceSame(x)
  BY <1>1, <1>6, <1>7, SameSelf DEF SourceSame
<1>10. SourceAt(g)'
  <2>1. /\ \A x \in Messages(up'[g]) : x.type \notin Required
        /\ \A x \in Messages(up'[g]) : x.type \in Cancel => x.id = ho'[g].id
        /\ \A x \in Messages(down'[g]) : x.type \notin Verdicts
    BY <1>1, <1>3, <1>4, <1>5, <1>6 DEF Has, Asks
  <2>2. /\ ~Has(down'[g], Verdicts) /\ ~Has(down'[g], CancelAck) /\ Single(down'[g], Hears)
        /\ busy'[g] = NotBusy
    BY <1>1, <1>3 DEF Waits
  <2> QED BY <1>5, <1>6, <2>1, <2>2 DEF SourceAt, Waits
<1>11. \A x \in Gnb : LinkAt(x)'
  BY <1>1, <1>2, <1>9, LinkKeeps DEF HandoverInv, LinkAt
<1>12. ASSUME NEW x \in Gnb, link'[x] PROVE SourceAt(x)'
  BY <1>1, <1>9, <1>10, <1>12, SourceKeeps DEF HandoverInv
<1>13. ASSUME NEW x \in Gnb PROVE BackedAt(x)'
  <2>1. ~Has(down'[g], Command)
    BY <1>1, <1>3
  <2> QED BY <1>1, <1>9, <2>1, BackedKeeps DEF HandoverInv, BackedAt
<1>14. ASSUME NEW x \in Gnb \ disturbed' PROVE TargetAt(x)'
  <2>1. KindsSame(up[x], up'[x], ReplyKinds)
    <3>1. KindsSame(up[g], Append(up[g], m), ReplyKinds)
      BY <1>3, <1>4, SameAppend, OutsideKinds
    <3>2. KindsSame(Append(up[g], m), up'[g], ReplyKinds)
      BY AlikeSame, KindSets DEF GivesUp
    <3> QED BY <1>7, <3>1, <3>2, SameSelf, SameTransitive
  <2>2. TargetSame(x)
    BY <1>1, <2>1, SameSelf DEF TargetSame
  <2> QED BY <1>1, <2>2, TargetKeeps DEF HandoverInv
<1> QED BY <1>8, <1>11, <1>12, <1>13, <1>14 DEF HandoverInv

LEMMA CancelHandoverKeeps ==
    ASSUME HandoverInv, NEW g \in Gnb, CancelHandover(g)
    PROVE  HandoverInv' /\ \E m : GivesUp(g, m)
<1> DEFINE m == [type |-> "HandoverCancel", id |-> ho[g].id]
<1>1. m.type = "HandoverCancel" /\ m.id = ho[g].id
  OBVIOUS
<1>2. up' = [up EXCEPT ![g] = @ \o <<m>>] /\ IsQueue(up[g])
  BY DEF CancelHandover, Report, HandoverInv, ShapeInv, ShapeAt
<1> HIDE DEF m
<1>3. DOMAIN up' = Gnb /\ up'[g] = Append(up[g], m) /\ \A x \in Gnb : x # g => up'[x] = up[x]
  BY <1>2, Reported DEF HandoverInv, ShapeInv
<1>4. Alike(Append(up[g], m), up'[g])
  BY <1>2, <1>3, Appended, AlikeSelf
<1>5. GivesUp(g, m)
  BY <1>1, <1>3, <1>4 DEF GivesUp, CancelHandover, coreVars
<1>6. UeInv'
  BY UeSteps DEF CancelHandover, coreVars, HandoverInv, UeInv
<1> QED BY <1>5, <1>6, GivesUpKeeps

LEMMA LoseRadioKeeps ==
    ASSUME HandoverInv, NEW u \in UE, LoseRadio(u)
    PROVE  HandoverInv' /\ (Elsewhere \/ \E g \in Gnb : \E m : GivesUp(g, m))
<1> USE AccessMobilityAssumption
<1>1. PICK g \in Gnb : g = ue[u].at
  BY DEF LoseRadio, HandoverInv, UeInv, UeFits
<1>2. IsQueue(up[g]) /\ DOMAIN up = Gnb
  BY DEF HandoverInv, ShapeInv, ShapeAt
<1>3. UeInv'
  <2>1. link' = link /\ ue' = [ue EXCEPT ![u] = Idle(@)]
    BY DEF LoseRadio, coreVars
  <2>2. UeFits(Idle(ue[u]))
    BY IdleFits DEF HandoverInv, UeInv
  <2> QED BY <2>1, <2>2, UeStep DEF HandoverInv
<1> DEFINE m == [type |-> "HandoverCancel", id |-> ue[u].id]
           n == [type |-> "UEContextReleaseRequest"]
<1>4. n.type \notin HandoverTypes
  BY OthersAre
<1>5. CASE ho[g].stage = "commanded" /\ ho[g].id = ue[u].id
  <2>1. m.type = "HandoverCancel" /\ m.id = ho[g].id
    BY <1>5
  <2>2. /\ ho' = [ho EXCEPT ![g].stage = "cancelling"]
        /\ up' = [up EXCEPT ![g] = @ \o (<<m>> \o (IF ue[u].id = 0 THEN << >> ELSE <<n>>))]
    BY <1>1, <1>5 DEF LoseRadio, Report
  <2>3. <<m>> \o << >> = <<m>>
    OBVIOUS
  <2> HIDE DEF m, n
  <2>4. up'[g] = Append(up[g], m) \/ up'[g] = Append(Append(up[g], m), n)
    BY <1>2, <2>2, <2>3, Reported
  <2>5. Alike(Append(up[g], m), up'[g])
    <3> DEFINE s == Append(up[g], m)
    <3>1. IsQueue(s)
      BY <1>2, Appended
    <3> HIDE DEF s
    <3>2. Alike(s, s) /\ Alike(s, Append(s, n))
      BY <1>4, <3>1, AlikeSelf, AlikeAppend
    <3> QED BY <2>4, <3>2 DEF s
  <2>6. DOMAIN up' = Gnb /\ \A x \in Gnb : x # g => up'[x] = up[x]
    BY <1>2, <2>2
  <2>7. GivesUp(g, m)
    BY <1>5, <2>1, <2>2, <2>5, <2>6 DEF GivesUp, LoseRadio, coreVars
  <2> QED BY <1>3, <2>7, GivesUpKeeps
<1>6. CASE ~(ho[g].stage = "commanded" /\ ho[g].id = ue[u].id)
  <2>1. ho' = ho /\ up' = [up EXCEPT ![g] = @ \o (<< >> \o (IF ue[u].id = 0 THEN << >> ELSE <<n>>))]
    BY <1>1, <1>6 DEF LoseRadio, Report
  <2>2. << >> \o <<n>> = <<n>> /\ << >> \o << >> = << >>
    OBVIOUS
  <2> HIDE DEF n
  <2>3. up' = [up EXCEPT ![g] = @ \o <<n>>] \/ up' = [up EXCEPT ![g] = @ \o << >>]
    BY <2>1, <2>2
  <2>4. QueuesAlike(up, up')
    <3>1. QueuesAlike(up, up)
      BY QueuesSelf
    <3>2. /\ QueuesAlike(up, [up EXCEPT ![g] = @ \o <<n>>])
          /\ QueuesAlike(up, [up EXCEPT ![g] = @ \o << >>])
      BY <1>4, <3>1, QueuesAppend
    <3> QED BY <2>3, <3>2
  <2>5. Elsewhere
    BY <2>1, <2>4, QueuesSelf DEF LoseRadio, coreVars, Elsewhere, HandoverInv, ShapeInv
  <2> QED BY <1>3, <2>5, ElsewhereKeeps
<1> QED BY <1>5, <1>6

LEMMA ExecuteHandoverKeeps ==
    ASSUME HandoverInv, NEW u \in UE, ExecuteHandover(u)
    PROVE  HandoverInv'
<1> USE AccessMobilityAssumption
<1>1. PICK g \in Gnb : g = ue[u].at /\ ho[g].stage = "commanded" /\ link[g]
  BY DEF ExecuteHandover, HandoverInv, UeInv, UeFits
<1>2. PICK h \in Gnb : h = ho[g].target /\ link[h]
  BY <1>1, NothingIs DEF ExecuteHandover, HandoverInv, ShapeInv, ShapeAt
<1>3. /\ open' = open /\ link' = link /\ named' = named /\ relay' = relay /\ busy' = busy
      /\ disturbed' = disturbed /\ down' = down /\ admitted' = admitted
      /\ ho' = [ho EXCEPT ![g] = NoHandover]
  BY <1>1 DEF ExecuteHandover, coreVars
<1>4. UeInv'
  <2> DEFINE x == [ue[u] EXCEPT !.at = h, !.ran = rans + 1]
  <2>1. ue' = [ue EXCEPT ![u] = x]
    BY <1>1, <1>2 DEF ExecuteHandover
  <2>2. UeFits(x)
    BY <1>1, <1>2 DEF HandoverInv, UeInv, UeFits
  <2> HIDE DEF x
  <2> QED BY <1>3, <2>1, <2>2, UeStep DEF HandoverInv
<1> DEFINE m == [type |-> "HandoverNotify", id |-> ue[u].id, ran |-> rans + 1]
<1>5. m.type = "HandoverNotify" /\ m.type \notin HandoverTypes
  BY OthersAre
<1>6. up' = [up EXCEPT ![h] = @ \o <<m>>]
  BY <1>1, <1>2 DEF ExecuteHandover, Report
<1> HIDE DEF m
<1>7. QueuesAlike(up, up')
  BY <1>5, <1>6, QueuesSelf, QueuesAppend
<1>8. ASSUME NEW x \in Gnb
      PROVE  /\ KindsSame(up[x], up'[x], AskKinds) /\ KindsSame(up[x], up'[x], ReplyKinds)
             /\ IsQueue(up'[x])
  BY <1>7, AlikeSame, KindSets DEF QueuesAlike, Alike
<1>9. /\ ~Has(up[g], Required) /\ ~Has(up[g], Cancel) /\ ~Waits(g)
      /\ ~Has(down[g], Verdicts) /\ ~Has(down[g], CancelAck) /\ ~Has(down[g], Command)
      /\ Single(down[g], Hears) /\ Single(up[g], Asks)
  BY <1>1, HasParts DEF HandoverInv, SourceAt
<1>10. ho'[g] = NoHandover /\ DOMAIN ho' = Gnb /\ \A x \in Gnb : x # g => ho'[x] = ho[x]
  BY <1>3 DEF HandoverInv, ShapeInv
<1>11. ShapeInv'
  <2>1. ASSUME NEW x \in Gnb PROVE ShapeAt(x)'
    <3>1. ShapeAt(x)
      BY DEF HandoverInv, ShapeInv
    <3> QED BY <1>3, <1>8, <1>10, <3>1, NothingIs DEF ShapeAt
  <2> QED BY <1>3, <1>7, <1>10, <2>1 DEF HandoverInv, ShapeInv, QueuesAlike
<1>12. \A x \in Gnb : x # g => SourceSame(x)
  BY <1>3, <1>8, <1>10, SameSelf DEF SourceSame
<1>13. SourceAt(g)'
  <2>1. ~Has(up'[g], Required) /\ ~Has(up'[g], Cancel) /\ Single(up'[g], Asks)
    BY <1>8, <1>9 DEF KindsSame, AskKinds
  <2>2. /\ \A x \in Messages(up'[g]) : x.type \notin Required /\ x.type \notin Cancel
        /\ \A x \in Messages(down'[g]) : x.type \notin Verdicts
    BY <1>3, <1>9, <2>1 DEF Has
  <2>3. /\ ~Has(down'[g], Verdicts) /\ ~Has(down'[g], CancelAck) /\ Single(down'[g], Hears)
        /\ busy'[g] = NotBusy
    BY <1>3, <1>9 DEF Waits
  <2> QED BY <2>1, <2>2, <2>3 DEF SourceAt, Waits
<1>14. \A x \in Gnb : LinkAt(x)'
  BY <1>1, <1>3, <1>12, LinkKeeps DEF HandoverInv, LinkAt
<1>15. ASSUME NEW x \in Gnb, link'[x] PROVE SourceAt(x)'
  BY <1>3, <1>12, <1>13, <1>15, SourceKeeps DEF HandoverInv
<1>16. ASSUME NEW x \in Gnb PROVE BackedAt(x)'
  <2>1. ~Has(down'[g], Command)
    BY <1>3, <1>9
  <2> QED BY <1>3, <1>12, <2>1, BackedKeeps DEF HandoverInv, BackedAt
<1>17. ASSUME NEW x \in Gnb \ disturbed' PROVE TargetAt(x)'
  <2>1. TargetSame(x)
    BY <1>3, <1>8, SameSelf DEF TargetSame
  <2> QED BY <1>3, <2>1, TargetKeeps DEF HandoverInv
<1> QED BY <1>4, <1>11, <1>14, <1>15, <1>16, <1>17 DEF HandoverInv

(* What every delivery leaves alone.                                       *)
LEMMA DeliverFacts ==
    ASSUME HandoverInv, NEW g \in Gnb, Deliver(g)
    PROVE  /\ link[g] /\ down[g] # << >> /\ IsQueue(down[g]) /\ IsQueue(up[g])
           /\ open' = open /\ link' = link /\ named' = named /\ relay' = relay /\ busy' = busy
           /\ disturbed' = disturbed
           /\ DOMAIN down' = Gnb /\ down'[g] = Tail(down[g]) /\ IsQueue(down'[g])
           /\ \A x \in Gnb : x # g => down'[x] = down[x]
<1>1. /\ link[g] /\ down[g] # << >> /\ IsQueue(down[g]) /\ IsQueue(up[g])
      /\ open' = open /\ link' = link /\ named' = named /\ relay' = relay /\ busy' = busy
      /\ disturbed' = disturbed
  BY DEF Deliver, coreVars, HandoverInv, ShapeInv, ShapeAt
<1>2. /\ DOMAIN down' = Gnb /\ down'[g] = Tail(down[g])
      /\ \A x \in Gnb : x # g => down'[x] = down[x]
  BY DEF Deliver, HandoverInv, ShapeInv
<1> QED BY <1>1, <1>2, Taken

LEMMA ReceiveHandoverRequestKeeps ==
    ASSUME HandoverInv, NEW g \in Gnb, Deliver(g), ReceiveHandoverRequest(g, Head(down[g]))
    PROVE  HandoverInv'
<1> USE AccessMobilityAssumption
<1> DEFINE m == Head(down[g])
<1>1. PICK n : /\ up' = [up EXCEPT ![g] = @ \o <<n>>]
               /\ \/ /\ n.type = "HandoverRequestAcknowledge"
                     /\ admitted' = admitted \cup {s \in Gnb : ho[s].target = g /\ ho[s].id = m.id}
                  \/ n.type = "HandoverFailure" /\ admitted' = admitted
  <2>1. /\ Uplink("HandoverRequestAcknowledge").type = "HandoverRequestAcknowledge"
        /\ Uplink("HandoverFailure").type = "HandoverFailure"
    BY DEF Uplink
  <2> QED BY <2>1 DEF ReceiveHandoverRequest, Report
<1>2. /\ open' = open /\ link' = link /\ named' = named /\ relay' = relay /\ busy' = busy
      /\ disturbed' = disturbed
  BY DeliverFacts
<1>3. ho' = ho /\ ue' = ue /\ admitted \subseteq admitted'
  BY <1>1 DEF ReceiveHandoverRequest
<1>4. m.type \in Request /\ m \in Messages(down[g])
  BY DeliverFacts, Taken DEF ReceiveHandoverRequest, Request
<1>5. /\ DOMAIN up' = Gnb /\ up'[g] = Append(up[g], n) /\ IsQueue(up'[g])
      /\ \A x \in Gnb : x # g => up'[x] = up[x]
  <2>1. IsQueue(up[g]) /\ DOMAIN up = Gnb
    BY DEF HandoverInv, ShapeInv, ShapeAt
  <2>2. up' = [up EXCEPT ![g] = @ \o <<n>>]
    BY <1>1
  <2>3. up[g] \o <<n>> = Append(up[g], n) /\ IsQueue(Append(up[g], n))
    BY <2>1, Reported, Appended
  <2> QED BY <2>1, <2>2, <2>3
<1>6. n.type \in Replies /\ n.type \notin Setup
  BY <1>1 DEF Replies, Setup
<1>7. ShapeInv'
  <2>1. ASSUME NEW x \in Gnb PROVE ShapeAt(x)'
    <3>1. ShapeAt(x) /\ IsQueue(up'[x]) /\ IsQueue(down'[x])
      BY <1>5, DeliverFacts DEF HandoverInv, ShapeInv, ShapeAt
    <3> QED BY <1>2, <1>3, <3>1 DEF ShapeAt
  <2> QED BY <1>2, <1>3, <1>5, <2>1, DeliverFacts DEF HandoverInv, ShapeInv
<1>8. UeInv'
  BY <1>2, <1>3, UeSteps DEF HandoverInv, UeInv
<1>9. ASSUME NEW x \in Gnb PROVE SourceSame(x)
  <2>1. KindsSame(up[x], up'[x], AskKinds)
    <3>1. Outside(n.type, AskKinds)
      BY <1>6, OutsideKinds
    <3>2. KindsSame(up[g], up'[g], AskKinds)
      BY <1>5, <3>1, DeliverFacts, SameAppend
    <3> QED BY <1>5, <3>2, SameSelf
  <2>2. KindsSame(down[x], down'[x], HearKinds)
    <3>1. Outside(m.type, HearKinds)
      BY <1>4, OutsideKinds
    <3>2. KindsSame(down[g], down'[g], HearKinds)
      BY <3>1, DeliverFacts, SameTail
    <3> QED BY <3>2, DeliverFacts, SameSelf
  <2> QED BY <1>2, <1>3, <2>1, <2>2 DEF SourceSame
<1>10. ASSUME NEW x \in Gnb \ disturbed' PROVE TargetAt(x)'
  <2>1. TargetAt(x)
    BY <1>2 DEF HandoverInv
  <2>2. CASE x # g
    <3>1. TargetSame(x)
      BY <1>2, <1>3, <1>5, <2>2, DeliverFacts, SameSelf DEF TargetSame
    <3> QED BY <2>1, <3>1, TargetKeeps
  <2>3. CASE x = g
    <3>1. Has(down[g], Request)
      BY <1>4 DEF Has
    <3>2. PICK s \in Gnb : busy[s].target = g
      BY <2>1, <2>3, <3>1 DEF TargetAt
    <3>3. AwaitedBy(s, g)
      BY <2>1, <2>3, <3>2 DEF TargetAt
    <3>4. /\ ~Has(down'[g], Request) /\ ~Has(up[g], Replies) /\ relay[g].reply = "none"
          /\ Single(down'[g], Request) /\ Single(up'[g], Replies)
      BY <1>4, <1>5, <3>1, <3>3, DeliverFacts, TakenKind, AppendedKind DEF AwaitedBy
    <3>5. /\ Single(up'[g], Setup) /\ (g \in named => ~Has(up'[g], Setup))
      BY <1>5, <1>6, <2>1, <2>3, DeliverFacts, AppendedKind DEF TargetAt
    <3>6. s \in admitted \/ (ho[s].target = g /\ ho[s].id = m.id)
      <4>1. Waits(s)
        BY <3>2, NothingIs DEF Waits
      <4>2. link[s]
        BY <1>2, <2>3, <3>2, <4>1 DEF HandoverInv, LinkAt
      <4>3. busy[s].id = ho[s].id /\ busy[s].target = ho[s].target
        BY <4>1, <4>2 DEF HandoverInv, SourceAt
      <4> QED BY <1>4, <3>2, <3>3, <4>3 DEF AwaitedBy
    <3>7. Acknowledged(g)' => s \in admitted'
      <4>1. ASSUME Acknowledged(g)' PROVE n.type = "HandoverRequestAcknowledge"
        <5>1. Has(up'[g], Acknowledge)
          BY <1>2, <3>4, <4>1 DEF Acknowledged
        <5>2. n.type \in Acknowledge
          BY <1>5, <3>4, <5>1, DeliverFacts, AppendedKind, HasParts
        <5> QED BY <5>2 DEF Acknowledge
      <4> QED BY <1>1, <1>3, <3>6, <4>1
    <3>8. \A y \in Messages(down'[g]) : y.type \notin Request
      BY <3>4 DEF Has
    <3>9. AwaitedBy(s, g)'
      BY <1>2, <3>3, <3>4, <3>7, <3>8 DEF AwaitedBy
    <3>10. \A y \in Gnb : busy[y].target = g => y = s
      BY <3>2, <3>3 DEF AwaitedBy
    <3>11. TargetAt(g)'
      BY <1>2, <3>2, <3>5, <3>9, <3>10, DeliverFacts DEF TargetAt
    <3> QED BY <2>3, <3>11
  <2> QED BY <2>2, <2>3
<1>11. ASSUME NEW x \in Gnb PROVE LinkAt(x)' /\ BackedAt(x)' /\ (link'[x] => SourceAt(x)')
  BY <1>2, <1>3, <1>9, LinkKeeps, BackedKeeps, SourceKeeps DEF HandoverInv
<1> QED BY <1>7, <1>8, <1>10, <1>11 DEF HandoverInv

(* A source that no longer has the UE answers a command with a             *)
(* cancellation; what it sends after an outcome is this or nothing.        *)
Answered(g, m, n) ==
    /\ n.type = "HandoverCancel" /\ n.id = m.id /\ m.type = "HandoverCommand"
    /\ up' = [up EXCEPT ![g] = @ \o <<n>>]

UpAfter(g, m) ==
    /\ DOMAIN up' = Gnb /\ IsQueue(up'[g]) /\ \A x \in Gnb : x # g => up'[x] = up[x]
    /\ KindsSame(up[g], up'[g], ReplyKinds)
    /\ Single(up'[g], Asks) /\ ~Has(up'[g], Required)
    /\ \A x \in Messages(up'[g]) : x.type \in Cancel => m.type = "HandoverCommand" /\ x.id = m.id
    /\ Has(up'[g], Cancel) => up' # up

LEMMA ReceiveHandoverOutcomeKeeps ==
    ASSUME HandoverInv, NEW g \in Gnb, Deliver(g), ReceiveHandoverOutcome(g, Head(down[g]))
    PROVE  HandoverInv'
<1> USE AccessMobilityAssumption
<1> DEFINE m == Head(down[g])
<1>1. /\ open' = open /\ link' = link /\ named' = named /\ relay' = relay /\ busy' = busy
      /\ disturbed' = disturbed /\ ue' = ue /\ admitted' = admitted /\ link[g]
  BY DeliverFacts DEF ReceiveHandoverOutcome
<1>2. m \in Messages(down[g]) /\ m.type \in Hears /\ SourceAt(g)
  BY <1>1, DeliverFacts, Taken
     DEF ReceiveHandoverOutcome, Hears, Verdicts, Command, CancelAck, HandoverInv
<1>3. /\ ~Has(down'[g], Hears) /\ ~Has(down'[g], Verdicts) /\ ~Has(down'[g], CancelAck)
      /\ ~Has(down'[g], Command) /\ Single(down'[g], Hears)
  BY <1>2, DeliverFacts, TakenKind, HasParts DEF SourceAt
<1>4. /\ m.type = "HandoverCommand" => m.type \in Verdicts
      /\ m.type \in Verdicts \/ m.type \in CancelAck
  BY <1>2 DEF Hears, Verdicts, Command
<1>5. ~Has(up[g], Required) /\ ~Has(up[g], Cancel) /\ ~Has(up[g], Asks) /\ ~Waits(g)
  <2>1. CASE m.type \in Verdicts
    <3>1. Has(down[g], Verdicts)
      BY <1>2, <2>1 DEF Has
    <3> QED BY <1>2, <3>1, HasParts DEF SourceAt
  <2>2. CASE m.type \in CancelAck
    <3>1. Has(down[g], CancelAck)
      BY <1>2, <2>2 DEF Has
    <3> QED BY <1>2, <3>1, HasParts DEF SourceAt
  <2> QED BY <1>4, <2>1, <2>2
<1>6. /\ DOMAIN ho' = Gnb /\ \A x \in Gnb : x # g => ho'[x] = ho[x]
      /\ \/ ho'[g] = NoHandover
         \/ m.type = "HandoverCommand" /\ ho'[g] = [ho[g] EXCEPT !.stage = "commanded"]
         \/ m.type = "HandoverCommand" /\ ho'[g] = [ho[g] EXCEPT !.stage = "cancelling"]
      /\ up' # up => ho'[g] = [ho[g] EXCEPT !.stage = "cancelling"]
  BY DEF ReceiveHandoverOutcome, HandoverInv, ShapeInv
<1>7. up' = up \/ \E n : Answered(g, m, n)
  <2> DEFINE n == [type |-> "HandoverCancel", id |-> m.id]
             here == \E u \in UE : ue[u].at = g /\ ue[u].id = m.id
  <2>1. n.type = "HandoverCancel" /\ n.id = m.id
    OBVIOUS
  <2>2. IF m.type = "HandoverCommand" /\ ~here THEN Report(g, <<n>>) ELSE UNCHANGED up
    BY DEF ReceiveHandoverOutcome
  <2> HIDE DEF n, m, here
  <2>3. CASE m.type = "HandoverCommand" /\ ~here
    BY <2>1, <2>2, <2>3 DEF Answered, Report
  <2>4. CASE ~(m.type = "HandoverCommand" /\ ~here)
    BY <2>2, <2>4
  <2> QED BY <2>3, <2>4
<1> HIDE DEF m
<1>8. DOMAIN up = Gnb /\ IsQueue(up[g]) /\ Single(up[g], Asks)
  BY <1>2 DEF HandoverInv, ShapeInv, ShapeAt, SourceAt
<1>9. UpAfter(g, m)
  <2>1. CASE up' = up
    <3>2. \A x \in Messages(up'[g]) : x.type \notin Cancel
      BY <1>5, <2>1 DEF Has
    <3> QED BY <1>5, <1>8, <2>1, <3>2, SameSelf DEF UpAfter
  <2>2. ASSUME NEW n, Answered(g, m, n) PROVE UpAfter(g, m)
    <3>1. n.type \in Cancel /\ n.type \in Asks /\ n.type \notin Required
      BY <2>2 DEF Answered, Cancel, Asks, Required
    <3>2. up'[g] = Append(up[g], n) /\ DOMAIN up' = Gnb /\ \A x \in Gnb : x # g => up'[x] = up[x]
      BY <1>8, <2>2, Reported DEF Answered
    <3>3. KindsSame(up[g], up'[g], ReplyKinds)
      BY <1>8, <3>1, <3>2, SameAppend, OutsideKinds
    <3>4. /\ IsQueue(up'[g]) /\ Single(up'[g], Asks) /\ ~Has(up'[g], Required)
          /\ n \in Messages(up'[g]) /\ Has(up'[g], Cancel)
      BY <1>5, <1>8, <3>1, <3>2, Appended, AppendedKind
    <3>5. \A x \in Messages(up'[g]) : x.type \in Cancel => x = n
      BY <1>5, <1>8, <3>2, Appended DEF Has
    <3>6. up' # up
      BY <1>5, <3>4
    <3> QED BY <2>2, <3>2, <3>3, <3>4, <3>5, <3>6 DEF UpAfter, Answered
  <2> QED BY <1>7, <2>1, <2>2
<1>10. /\ ho[g].target \in Gnb \cup {"none"} /\ DOMAIN ho[g] = {"stage", "id", "target"}
       /\ m.type = "HandoverCommand" => ho[g].stage = "required" /\ m.id = ho[g].id
  <2>1. m.type = "HandoverCommand" => Has(down[g], Verdicts)
    BY <1>2, <1>4 DEF Has
  <2> QED BY <1>2, <1>4, <2>1, NothingIs DEF SourceAt, HandoverInv, ShapeInv, ShapeAt
<1>11. /\ DOMAIN ho'[g] = {"stage", "id", "target"}
       /\ ho'[g].stage = "none" <=> ho'[g] = NoHandover
       /\ ho'[g] # NoHandover => ho'[g].target \in Gnb
       /\ ho'[g] # NoHandover => ho'[g].id = ho[g].id /\ m.type = "HandoverCommand"
       /\ up' # up => ho'[g].stage = "cancelling"
  <2>1. m.type = "HandoverCommand" => ho[g].target \in Gnb
    BY <1>10, NothingIs DEF HandoverInv, ShapeInv, ShapeAt
  <2>2. /\ DOMAIN [ho[g] EXCEPT !.stage = "commanded"] = {"stage", "id", "target"}
        /\ [ho[g] EXCEPT !.stage = "commanded"].stage = "commanded"
        /\ [ho[g] EXCEPT !.stage = "commanded"].id = ho[g].id
        /\ [ho[g] EXCEPT !.stage = "commanded"].target = ho[g].target
    BY <1>10
  <2>3. /\ DOMAIN [ho[g] EXCEPT !.stage = "cancelling"] = {"stage", "id", "target"}
        /\ [ho[g] EXCEPT !.stage = "cancelling"].stage = "cancelling"
        /\ [ho[g] EXCEPT !.stage = "cancelling"].id = ho[g].id
        /\ [ho[g] EXCEPT !.stage = "cancelling"].target = ho[g].target
    BY <1>10
  <2> QED BY <1>6, <2>1, <2>2, <2>3, NothingIs
<1>12. ShapeInv'
  <2>1. ASSUME NEW x \in Gnb PROVE ShapeAt(x)'
    <3>1. ShapeAt(x) /\ IsQueue(down'[x])
      BY DeliverFacts DEF HandoverInv, ShapeInv, ShapeAt
    <3>2. CASE x = g
      BY <1>1, <1>9, <1>11, <3>1, <3>2 DEF ShapeAt, UpAfter
    <3>3. CASE x # g
      BY <1>1, <1>6, <1>9, <3>1, <3>3 DEF ShapeAt, UpAfter
    <3> QED BY <3>2, <3>3
  <2> QED BY <1>1, <1>6, <1>9, <2>1, DeliverFacts DEF HandoverInv, ShapeInv, UpAfter
<1>13. UeInv'
  BY <1>1, UeSteps DEF HandoverInv, UeInv
<1>14. \A x \in Gnb : x # g => SourceSame(x)
  BY <1>1, <1>6, <1>9, DeliverFacts, SameSelf DEF SourceSame, UpAfter
<1>15. SourceAt(g)'
  <2>1. /\ \A x \in Messages(up'[g]) : x.type \notin Required
        /\ \A x \in Messages(up'[g]) : x.type \in Cancel => x.id = ho'[g].id
        /\ Has(up'[g], Cancel) => ho'[g].stage = "cancelling"
        /\ \A x \in Messages(down'[g]) : x.type \notin Verdicts
    <3>1. Has(up'[g], Cancel) => ho'[g].stage = "cancelling" /\ ho'[g].id = ho[g].id
      BY <1>9, <1>11, NothingIs DEF UpAfter
    <3> QED BY <1>3, <1>9, <1>10, <3>1 DEF Has, UpAfter
  <2>2. busy'[g] = NotBusy
    BY <1>1, <1>5 DEF Waits
  <2> QED BY <1>3, <1>9, <2>1, <2>2 DEF SourceAt, Waits, UpAfter
<1>16. \A x \in Gnb : LinkAt(x)'
  BY <1>1, <1>14, LinkKeeps DEF HandoverInv, LinkAt
<1>17. ASSUME NEW x \in Gnb, link'[x] PROVE SourceAt(x)'
  BY <1>1, <1>14, <1>15, <1>17, SourceKeeps DEF HandoverInv
<1>18. ASSUME NEW x \in Gnb PROVE BackedAt(x)'
  BY <1>1, <1>3, <1>14, BackedKeeps DEF HandoverInv, BackedAt
<1>19. ASSUME NEW x \in Gnb \ disturbed' PROVE TargetAt(x)'
  <2>1. KindsSame(up[x], up'[x], ReplyKinds)
    BY <1>9, SameSelf DEF UpAfter
  <2>2. KindsSame(down[x], down'[x], RequestKinds)
    <3>1. Outside(m.type, RequestKinds)
      BY <1>2, OutsideKinds
    <3>2. KindsSame(down[g], down'[g], RequestKinds)
      BY <3>1, DeliverFacts, SameTail DEF m
    <3> QED BY <3>2, DeliverFacts, SameSelf
  <2>3. TargetSame(x)
    BY <1>1, <2>1, <2>2 DEF TargetSame
  <2> QED BY <1>1, <2>3, TargetKeeps DEF HandoverInv
<1> QED BY <1>12, <1>13, <1>16, <1>17, <1>18, <1>19 DEF HandoverInv

----------------------------------------------------------------------------
(***************************************************************************)
(* Faults, and associations that end or begin.                             *)
(***************************************************************************)
LEMMA UeLinks ==
    ASSUME UeInv, DOMAIN ue' = UE,
           \A u \in UE : /\ ue'[u] = ue[u] \/ ue'[u] = Idle(ue[u])
                         /\ ue'[u].at # "none" /\ link[ue'[u].at] => link'[ue'[u].at]
    PROVE  UeInv'
<1>1. ASSUME NEW u \in UE PROVE UeFits(ue[u])'
  <2>1. UeFits(ue[u]) /\ UeFits(Idle(ue[u]))
    BY IdleFits DEF UeInv
  <2> QED BY <2>1 DEF UeFits
<1> QED BY <1>1 DEF UeInv

LEMMA LoseAssociationKeeps ==
    ASSUME HandoverInv, NEW g \in Gnb, LoseAssociation(g)
    PROVE  HandoverInv'
<1> USE AccessMobilityAssumption
<1>1. /\ open' = open /\ named' = named /\ relay' = relay /\ busy' = busy /\ up' = up
      /\ admitted' = admitted /\ disturbed' = disturbed \cup {g} \cup ({ho[g].target} \cap Gnb)
      /\ disturbed \subseteq disturbed'
      /\ link[g] /\ DOMAIN link' = Gnb /\ DOMAIN down' = Gnb /\ DOMAIN ho' = Gnb
      /\ ~link'[g] /\ down'[g] = << >> /\ ho'[g] = NoHandover
  BY DEF LoseAssociation, HandoverInv, ShapeInv
<1>2. \A x \in Gnb : x # g => link'[x] = link[x] /\ down'[x] = down[x] /\ ho'[x] = ho[x]
  BY DEF LoseAssociation, HandoverInv, ShapeInv
<1>3. ShapeInv'
  <2>1. ASSUME NEW x \in Gnb PROVE ShapeAt(x)'
    <3>1. ShapeAt(x)
      BY DEF HandoverInv, ShapeInv
    <3>2. CASE x = g
      BY <1>1, <3>1, <3>2, NothingIs, EmptyQueue DEF ShapeAt
    <3>3. CASE x # g
      BY <1>1, <1>2, <3>1, <3>3 DEF ShapeAt
    <3> QED BY <3>2, <3>3
  <2> QED BY <1>1, <2>1 DEF HandoverInv, ShapeInv
<1>4. UeInv'
  <2>1. \A u \in UE : UeFits(ue[u]) /\ Idle(ue[u]).at = "none"
    BY DEF HandoverInv, UeInv, UeFits, Idle
  <2>2. DOMAIN ue' = UE
    BY DEF LoseAssociation
  <2>3. ASSUME NEW u \in UE
        PROVE  /\ ue'[u] = ue[u] \/ ue'[u] = Idle(ue[u])
               /\ ue'[u].at # "none" /\ link[ue'[u].at] => link'[ue'[u].at]
    <3>1. ue'[u] = IF ue[u].at = g THEN Idle(ue[u]) ELSE ue[u]
      BY DEF LoseAssociation
    <3>2. ue'[u].at # "none" => ue'[u].at \in Gnb /\ ue'[u].at # g
      BY <2>1, <3>1 DEF UeFits
    <3> QED BY <1>2, <3>1, <3>2
  <2> QED BY <2>2, <2>3, UeLinks DEF HandoverInv
<1>5. \A x \in Gnb : x # g => SourceSame(x)
  BY <1>1, <1>2, SameSelf DEF SourceSame
<1>6. LinkAt(g)'
  <2>1. SourceAt(g) /\ LinkAt(g) /\ ShapeAt(g)
    BY <1>1 DEF HandoverInv, ShapeInv
  <2>2. ho[g].stage = "required" => ho[g].target \in disturbed'
    BY <1>1, <2>1, NothingIs DEF ShapeAt
  <2>3. \A m \in Messages(up'[g]) : m.type \in Required => m.target \in disturbed'
    BY <1>1, <2>1, <2>2 DEF SourceAt, Has
  <2>4. busy'[g] # NotBusy => busy'[g].target \in disturbed'
    BY <1>1, <2>1, <2>2 DEF SourceAt, Waits
  <2>5. ~Has(down'[g], Hears) /\ open'[g]
    BY <1>1, <2>1, EmptyQueue DEF LinkAt
  <2> QED BY <1>1, <2>3, <2>4, <2>5 DEF LinkAt, Waits
<1>7. \A x \in Gnb : LinkAt(x)'
  BY <1>1, <1>2, <1>5, <1>6, LinkKeeps DEF HandoverInv
<1>8. ASSUME NEW x \in Gnb, link'[x] PROVE SourceAt(x)'
  BY <1>1, <1>2, <1>5, <1>8, SourceKeeps DEF HandoverInv
<1>9. ASSUME NEW x \in Gnb PROVE BackedAt(x)'
  <2>1. ~Has(down'[g], Command)
    BY <1>1, EmptyQueue
  <2> QED BY <1>1, <1>5, <2>1, BackedKeeps DEF HandoverInv, BackedAt
<1>10. ASSUME NEW x \in Gnb \ disturbed' PROVE TargetAt(x)'
  <2>1. TargetSame(x) /\ TargetAt(x)
    BY <1>1, <1>2, SameSelf DEF TargetSame, HandoverInv
  <2> QED BY <2>1, TargetKeeps
<1> QED BY <1>3, <1>4, <1>7, <1>8, <1>9, <1>10 DEF HandoverInv

LEMMA AcceptKeeps ==
    ASSUME HandoverInv, NEW g \in Gnb, Accept(g)
    PROVE  HandoverInv'
<1> USE AccessMobilityAssumption
<1> DEFINE m == [type |-> "NGSetupRequest"]
<1>1. /\ named' = named /\ relay' = relay /\ busy' = busy /\ down' = down /\ ho' = ho
      /\ admitted' = admitted /\ disturbed' = disturbed /\ ue' = ue
  BY DEF Accept, accept, ranVars
<1>2. /\ ~open[g] /\ DOMAIN open' = Gnb /\ DOMAIN link' = Gnb /\ DOMAIN up' = Gnb
      /\ open'[g] /\ link'[g] /\ up'[g] = Append(<< >>, m)
  BY OneMessage DEF Accept, accept, HandoverInv, ShapeInv
<1>3. \A x \in Gnb : x # g => open'[x] = open[x] /\ link'[x] = link[x] /\ up'[x] = up[x]
  BY DEF Accept, accept, HandoverInv, ShapeInv
<1>4. ~link[g] /\ ~Waits(g) /\ ho[g] = NoHandover /\ ~Has(down[g], Hears) /\ g \in disturbed
  BY <1>2 DEF HandoverInv, LinkAt, TargetAt
<1>5. m.type = "NGSetupRequest"
  OBVIOUS
<1> HIDE DEF m
<1>6. IsQueue(up'[g]) /\ Single(up'[g], Asks) /\ ~Has(up'[g], Asks)
  <2>1. m.type \notin Asks
    BY <1>5 DEF Asks, Required, Cancel
  <2>2. IsQueue(<< >>) /\ ~Has(<< >>, Asks)
    BY EmptyQueue
  <2>3. /\ IsQueue(Append(<< >>, m)) /\ ~Has(Append(<< >>, m), Asks)
        /\ Single(Append(<< >>, m), Asks)
    BY <2>1, <2>2, Appended, AppendedKind
  <2> QED BY <1>2, <2>3
<1>7. ShapeInv'
  <2>1. ASSUME NEW x \in Gnb PROVE ShapeAt(x)'
    BY <1>1, <1>3, <1>6 DEF HandoverInv, ShapeInv, ShapeAt
  <2> QED BY <1>1, <1>2, <2>1 DEF HandoverInv, ShapeInv
<1>8. UeInv'
  <2>1. \A u \in UE : UeFits(ue[u])
    BY DEF HandoverInv, UeInv
  <2>2. ASSUME NEW u \in UE
        PROVE ue'[u].at # "none" /\ link[ue'[u].at] => link'[ue'[u].at]
    BY <1>1, <1>2, <1>3, <2>1 DEF UeFits
  <2> QED BY <1>1, <2>2, UeLinks DEF HandoverInv, UeInv
<1>9. \A x \in Gnb : x # g => SourceSame(x)
  BY <1>1, <1>3, SameSelf DEF SourceSame
<1>10. SourceAt(g)'
  <2>1. ~Has(up'[g], Required) /\ ~Has(up'[g], Cancel)
    BY <1>6, HasParts
  <2>2. /\ \A x \in Messages(up'[g]) : x.type \notin Required /\ x.type \notin Cancel
        /\ \A x \in Messages(down'[g]) : x.type \notin Verdicts
        /\ ~Has(down'[g], Verdicts) /\ ~Has(down'[g], CancelAck)
    BY <1>1, <1>4, <2>1, HasParts DEF Has
  <2>3. Single(down'[g], Hears)
    BY <1>1, <1>4 DEF Single, Has, Messages
  <2> QED BY <1>1, <1>4, <1>6, <2>1, <2>2, <2>3 DEF SourceAt, Waits
<1>11. \A x \in Gnb : LinkAt(x)'
  <2>1. LinkAt(g)'
    BY <1>2 DEF LinkAt
  <2> QED BY <1>1, <1>3, <1>9, <2>1, LinkKeeps DEF HandoverInv
<1>12. ASSUME NEW x \in Gnb, link'[x] PROVE SourceAt(x)'
  BY <1>3, <1>9, <1>10, <1>12, SourceKeeps DEF HandoverInv
<1>13. ASSUME NEW x \in Gnb PROVE BackedAt(x)'
  <2>1. ~Has(down'[g], Command)
    BY <1>1, <1>4, HasParts
  <2> QED BY <1>1, <1>9, <2>1, BackedKeeps DEF HandoverInv, BackedAt
<1>14. ASSUME NEW x \in Gnb \ disturbed' PROVE TargetAt(x)'
  <2>1. TargetSame(x) /\ TargetAt(x)
    BY <1>1, <1>3, <1>4, SameSelf DEF TargetSame, HandoverInv
  <2> QED BY <2>1, TargetKeeps
<1> QED BY <1>7, <1>8, <1>11, <1>12, <1>13, <1>14 DEF HandoverInv

LEMMA CloseAssociationKeeps ==
    ASSUME HandoverInv, NEW g \in Gnb, CloseAssociation(g)
    PROVE  HandoverInv'
<1>1. /\ link' = link /\ relay' = relay /\ busy' = busy /\ up' = up /\ down' = down /\ ho' = ho
      /\ admitted' = admitted /\ disturbed' = disturbed /\ ue' = ue /\ named' = named \ {g}
      /\ ~link[g] /\ ~Waits(g) /\ DOMAIN open' = Gnb
      /\ \A x \in Gnb : x # g => open'[x] = open[x]
  BY DEF CloseAssociation, association_closed, ranVars, HandoverInv, ShapeInv, Waits
<1>2. ShapeInv'
  <2>1. ASSUME NEW x \in Gnb PROVE ShapeAt(x)'
    BY <1>1 DEF HandoverInv, ShapeInv, ShapeAt
  <2> QED BY <1>1, <2>1 DEF HandoverInv, ShapeInv
<1>3. UeInv'
  BY <1>1, UeSteps DEF HandoverInv, UeInv
<1>4. \A x \in Gnb : SourceSame(x)
  BY <1>1, SameSelf DEF SourceSame
<1>5. ASSUME NEW x \in Gnb PROVE LinkAt(x)'
  <2>1. CASE x = g
    <3>1. LinkAt(g)
      BY DEF HandoverInv
    <3> QED BY <1>1, <2>1, <3>1 DEF LinkAt, Waits
  <2>2. CASE x # g
    BY <1>1, <1>4, <2>2, LinkKeeps DEF HandoverInv
  <2> QED BY <2>1, <2>2
<1>6. ASSUME NEW x \in Gnb, link'[x] PROVE SourceAt(x)'
  BY <1>1, <1>4, <1>6, SourceKeeps DEF HandoverInv
<1>7. ASSUME NEW x \in Gnb PROVE BackedAt(x)'
  BY <1>1, <1>4, BackedKeeps DEF HandoverInv
<1>8. ASSUME NEW x \in Gnb \ disturbed' PROVE TargetAt(x)'
  <2>1. TargetAt(x) /\ x # g
    BY <1>1 DEF HandoverInv, TargetAt
  <2>2. TargetSame(x)
    BY <1>1, <2>1, SameSelf DEF TargetSame
  <2> QED BY <2>1, <2>2, TargetKeeps
<1> QED BY <1>2, <1>3, <1>5, <1>6, <1>7, <1>8 DEF HandoverInv

LEMMA RestartKeeps == ASSUME HandoverInv, Restart PROVE HandoverInv'
<1> USE AccessMobilityAssumption
<1>1. /\ named' = {} /\ disturbed' = Gnb
      /\ DOMAIN open' = Gnb /\ DOMAIN link' = Gnb /\ DOMAIN relay' = Gnb /\ DOMAIN busy' = Gnb
      /\ DOMAIN up' = Gnb /\ DOMAIN down' = Gnb /\ DOMAIN ho' = Gnb /\ DOMAIN ue' = UE
      /\ \A x \in Gnb : /\ ~link'[x] /\ relay'[x] = NotAwaiting /\ busy'[x] = NotBusy
                        /\ up'[x] = << >> /\ down'[x] = << >> /\ ho'[x] = NoHandover
      /\ \A u \in UE : ue'[u] = Idle(ue[u])
  BY DEF Restart, RestartAmf
<1>2. ShapeInv'
  <2>1. ASSUME NEW x \in Gnb PROVE ShapeAt(x)'
    BY <1>1, NothingIs, EmptyQueue DEF ShapeAt
  <2> QED BY <1>1, <2>1 DEF ShapeInv
<1>3. UeInv'
  <2>1. \A u \in UE : Idle(ue[u]).at = "none"
    BY DEF HandoverInv, UeInv, UeFits, Idle
  <2> QED BY <1>1, <2>1, UeLinks DEF HandoverInv
<1>4. ASSUME NEW x \in Gnb PROVE LinkAt(x)' /\ BackedAt(x)'
  <2>1. \A m \in Messages(up'[x]) : m.type \notin Required
    BY <1>1, EmptyQueue
  <2> QED BY <1>1, <2>1, EmptyQueue DEF LinkAt, BackedAt, Waits
<1> QED BY <1>1, <1>2, <1>3, <1>4 DEF HandoverInv

----------------------------------------------------------------------------
(***************************************************************************)
(* The source's thread: a wait that ends, and the messages of a handover   *)
(* that associations carry to the AMF.                                     *)
(***************************************************************************)
(* The wait of g ends and n is what the source is sent.                    *)
WaitEnds(g, n) ==
    /\ Waits(g) /\ n.type \in Verdicts /\ n.id = busy[g].id
    /\ open' = open /\ link' = link /\ named' = named /\ up' = up /\ ho' = ho
    /\ admitted' = admitted /\ ue' = ue
    /\ busy' = [busy EXCEPT ![g] = NotBusy] /\ down' = Sent(down, g, n)
    /\ DOMAIN relay' = Gnb /\ \A x \in Gnb : DOMAIN relay'[x] = {"awaiting", "reply"}
    /\ \A x \in Gnb : x # busy[g].target => relay'[x] = relay[x]
    /\ disturbed \subseteq disturbed' /\ disturbed' \subseteq Gnb
    /\ \/ busy[g].target \in disturbed'
       \/ /\ relay[busy[g].target].reply # "none"
          /\ relay[busy[g].target].reply = "HandoverRequestAcknowledge" => n.type \in Command
    /\ n.type \in Command => relay[busy[g].target].reply = "HandoverRequestAcknowledge"

LEMMA SentIs ==
    ASSUME HandoverInv, NEW g \in Gnb, NEW n
    PROVE  /\ DOMAIN Sent(down, g, n) = Gnb
           /\ \A x \in Gnb : x # g => Sent(down, g, n)[x] = down[x]
           /\ link[g] => Sent(down, g, n)[g] = Append(down[g], n)
           /\ ~link[g] => Sent(down, g, n)[g] = down[g]
           /\ IsQueue(Sent(down, g, n)[g]) /\ IsQueue(Append(down[g], n))
<1>1. IsQueue(down[g]) /\ DOMAIN down = Gnb
  BY DEF HandoverInv, ShapeInv, ShapeAt
<1>2. IsQueue(Append(down[g], n))
  BY <1>1, Appended
<1> QED BY <1>1, <1>2 DEF Sent

LEMMA WaitEndsKeeps ==
    ASSUME HandoverInv, NEW g \in Gnb, NEW n, WaitEnds(g, n)
    PROVE  HandoverInv'
<1> USE AccessMobilityAssumption
<1>1. /\ open' = open /\ link' = link /\ named' = named /\ up' = up /\ ho' = ho
      /\ admitted' = admitted /\ ue' = ue /\ disturbed \subseteq disturbed'
  BY DEF WaitEnds
<1>2. PICK t \in Gnb : t = busy[g].target
  BY DEF WaitEnds, Waits, HandoverInv, ShapeInv, ShapeAt
<1>3. /\ DOMAIN busy' = Gnb /\ busy'[g] = NotBusy
      /\ \A x \in Gnb : x # g => busy'[x] = busy[x]
      /\ DOMAIN relay' = Gnb /\ \A x \in Gnb : DOMAIN relay'[x] = {"awaiting", "reply"}
      /\ \A x \in Gnb : x # t => relay'[x] = relay[x]
  BY <1>2 DEF WaitEnds, HandoverInv, ShapeInv
<1>4. /\ DOMAIN down' = Gnb /\ IsQueue(down'[g])
      /\ \A x \in Gnb : x # g => down'[x] = down[x]
      /\ link[g] => down'[g] = Append(down[g], n)
      /\ ~link[g] => down'[g] = down[g]
  BY SentIs DEF WaitEnds
<1>5. n.type \in Verdicts /\ n.type \in Hears
  BY DEF WaitEnds, Hears
<1>6. IsQueue(up[g]) /\ IsQueue(down[g])
  BY DEF HandoverInv, ShapeInv, ShapeAt
<1>7. ShapeInv'
  <2>1. ASSUME NEW x \in Gnb PROVE ShapeAt(x)'
    <3>1. ShapeAt(x) /\ IsQueue(down'[x])
      BY <1>4 DEF HandoverInv, ShapeInv, ShapeAt
    <3> QED BY <1>1, <1>3, <3>1, NothingIs DEF ShapeAt
  <2> QED BY <1>1, <1>3, <1>4, <2>1 DEF HandoverInv, ShapeInv, WaitEnds
<1>8. UeInv'
  BY <1>1, UeSteps DEF HandoverInv, UeInv
<1>9. \A x \in Gnb : x # g => SourceSame(x)
  BY <1>1, <1>3, <1>4, SameSelf DEF SourceSame
<1>10. ASSUME link[g]
       PROVE  /\ SourceAt(g)' /\ ho[g].target = t
              /\ Has(down'[g], Command) => n.type \in Command
  <2>1. /\ SourceAt(g) /\ ho[g].stage = "required" /\ ~Has(down[g], Verdicts)
        /\ ~Has(up[g], Cancel) /\ ~Has(up[g], Required) /\ Single(up[g], Asks)
        /\ ~Has(down[g], Hears) /\ ~Has(down[g], Command) /\ ~Has(down[g], CancelAck)
        /\ n.id = ho[g].id /\ ho[g].target = t
    BY <1>2, <1>10, HasParts DEF HandoverInv, SourceAt, WaitEnds
  <2>2. n.type \notin CancelAck
    BY <1>5 DEF Verdicts, Command, CancelAck
  <2>3. /\ Single(down'[g], Hears) /\ ~Has(down'[g], CancelAck)
        /\ Has(down'[g], Command) => n.type \in Command
    <3> DEFINE s == Append(down[g], n)
    <3>1. /\ Single(s, Hears)
          /\ Has(s, CancelAck) <=> Has(down[g], CancelAck) \/ n.type \in CancelAck
          /\ Has(s, Command) <=> Has(down[g], Command) \/ n.type \in Command
      BY <1>6, <2>1, AppendedKind
    <3>2. down'[g] = s
      BY <1>4, <1>10
    <3> HIDE DEF s
    <3> QED BY <2>1, <2>2, <3>1, <3>2
  <2>4. \A m \in Messages(down'[g]) : m.type \in Verdicts => m.id = ho[g].id
    BY <1>4, <1>6, <1>10, <2>1, Appended DEF Has
  <2>5. \A m \in Messages(up'[g]) : m.type \notin Required /\ m.type \notin Cancel
    BY <1>1, <2>1 DEF Has
  <2> QED BY <1>1, <1>3, <2>1, <2>3, <2>4, <2>5 DEF SourceAt, Waits
<1>11. ASSUME NEW x \in Gnb PROVE LinkAt(x)'
  <2>1. CASE x = g
    <3>1. LinkAt(g)
      BY DEF HandoverInv
    <3> QED BY <1>1, <1>3, <1>4, <2>1, <3>1 DEF LinkAt, Waits
  <2>2. CASE x # g
    BY <1>1, <1>9, <2>2, LinkKeeps DEF HandoverInv
  <2> QED BY <2>1, <2>2
<1>12. ASSUME NEW x \in Gnb, link'[x] PROVE SourceAt(x)'
  BY <1>1, <1>9, <1>10, <1>12, SourceKeeps DEF HandoverInv
<1>13. ASSUME NEW x \in Gnb PROVE BackedAt(x)'
  <2>1. CASE x # g
    BY <1>1, <1>9, <2>1, BackedKeeps DEF HandoverInv
  <2>2. CASE ~link[g]
    <3>1. ~Has(down'[g], Command)
      BY <1>4, <2>2, HasParts DEF HandoverInv, LinkAt
    <3> QED BY <2>1, <3>1 DEF BackedAt
  <2>3. CASE link[g]
    <3> SUFFICES ASSUME Has(down'[g], Command), ho'[g].target \in Gnb \ disturbed'
                 PROVE  g \in admitted'
      BY <2>1 DEF BackedAt
    <3>1. n.type \in Command /\ t \notin disturbed' /\ t \notin disturbed
      BY <1>1, <1>10, <2>3
    <3>2. AwaitedBy(g, t) /\ Acknowledged(t)
      BY <1>2, <3>1 DEF HandoverInv, TargetAt, WaitEnds, Acknowledged
    <3> QED BY <1>1, <3>2 DEF AwaitedBy
  <2> QED BY <2>1, <2>2, <2>3
<1>14. ASSUME NEW x \in Gnb \ disturbed' PROVE TargetAt(x)'
  <2>1. TargetAt(x) /\ KindsSame(down[x], down'[x], RequestKinds)
    <3>1. KindsSame(down[g], Append(down[g], n), RequestKinds)
      BY <1>5, <1>6, SameAppend, OutsideKinds
    <3> QED BY <1>1, <1>4, <3>1, SameSelf DEF HandoverInv
  <2>2. CASE x # t
    <3>1. ASSUME NEW s \in Gnb
          PROVE  /\ busy'[s].target = x <=> busy[s].target = x
                 /\ busy[s].target = x => busy'[s].id = busy[s].id
      BY <1>2, <1>3, <2>2, NothingIs
    <3>2. TargetSame(x)
      BY <1>1, <1>3, <2>1, <2>2, <3>1, SameSelf DEF TargetSame
    <3> QED BY <2>1, <3>2, TargetKeeps
  <2>3. CASE x = t
    <3>1. AwaitedBy(g, t) /\ relay[t].reply # "none"
      BY <1>2, <2>1, <2>3 DEF TargetAt, WaitEnds
    <3>2. ~Has(down[t], Request) /\ ~Has(up[t], Replies)
      BY <3>1 DEF AwaitedBy
    <3>3. ~Has(down'[t], Request) /\ ~Has(up'[t], Replies)
      BY <1>1, <2>1, <2>3, <3>2 DEF KindsSame, RequestKinds
    <3>4. \A s \in Gnb : busy'[s].target # t
      BY <1>3, <3>1, NothingIs DEF AwaitedBy
    <3> QED BY <1>1, <2>1, <2>3, <3>3, <3>4 DEF TargetAt
  <2> QED BY <2>2, <2>3
<1> QED BY <1>7, <1>8, <1>11, <1>12, <1>13, <1>14 DEF HandoverInv

LEMMA RelayKeeps ==
    ASSUME HandoverInv, NEW g \in Gnb, Relay(g)
    PROVE  HandoverInv' /\ \E n : WaitEnds(g, n)
<1> USE AccessMobilityAssumption
<1>1. PICK t \in Gnb : t = busy[g].target
  BY DEF Relay, await_reply, HandoverInv, ShapeInv, ShapeAt
<1>2. PICK n : /\ down' = Sent(down, g, n) /\ n.id = busy[g].id /\ n.type \in Verdicts
               /\ n.type \in Command <=> relay[t].reply = "HandoverRequestAcknowledge"
  <2> DEFINE c == [type |-> "HandoverCommand", id |-> busy[g].id]
             f == PreparationFailure(busy[g].id)
  <2>1. /\ c.id = busy[g].id /\ c.type \in Verdicts /\ c.type \in Command
        /\ f.id = busy[g].id /\ f.type \in Verdicts /\ f.type \notin Command
    BY DEF PreparationFailure, Verdicts, Command
  <2>2. \/ down' = Sent(down, g, c) /\ relay[t].reply = "HandoverRequestAcknowledge"
        \/ down' = Sent(down, g, f) /\ relay[t].reply # "HandoverRequestAcknowledge"
    BY <1>1 DEF Relay, await_reply, Send, relays_command, SlotOf
  <2> HIDE DEF c, f
  <2> QED BY <2>1, <2>2
<1>3. /\ relay[t].reply # "none" /\ relay' = [relay EXCEPT ![t] = [awaiting |-> FALSE, reply |-> "moved"]]
  BY <1>1 DEF Relay, await_reply, SlotOf
<1>4. /\ DOMAIN relay' = Gnb /\ \A x \in Gnb : DOMAIN relay'[x] = {"awaiting", "reply"}
      /\ \A x \in Gnb : x # t => relay'[x] = relay[x]
  BY <1>3 DEF HandoverInv, ShapeInv, ShapeAt
<1>5. WaitEnds(g, n)
  BY <1>1, <1>2, <1>3, <1>4 DEF WaitEnds, Waits, Relay, await_reply, ranVars, HandoverInv, ShapeInv
<1> QED BY <1>5, WaitEndsKeeps

LEMMA TimeOutKeeps ==
    ASSUME HandoverInv, NEW g \in Gnb, TimeOut(g)
    PROVE  HandoverInv' /\ \E n : WaitEnds(g, n)
<1> USE AccessMobilityAssumption
<1>1. PICK t \in Gnb : t = busy[g].target
  BY DEF TimeOut, await_timeout, HandoverInv, ShapeInv, ShapeAt
<1> DEFINE n == PreparationFailure(busy[g].id)
<1>2. n.id = busy[g].id /\ n.type \in Verdicts /\ n.type \notin Command
  BY DEF PreparationFailure, Verdicts, Command
<1>3. down' = Sent(down, g, n)
  BY DEF TimeOut, await_timeout, Send
<1> HIDE DEF n
<1>4. relay' = relay \/ relay' = [relay EXCEPT ![t].awaiting = FALSE]
  BY <1>1 DEF TimeOut, await_timeout
<1>5. /\ DOMAIN relay' = Gnb /\ \A x \in Gnb : DOMAIN relay'[x] = {"awaiting", "reply"}
      /\ \A x \in Gnb : x # t => relay'[x] = relay[x]
  BY <1>4 DEF HandoverInv, ShapeInv, ShapeAt
<1>6. WaitEnds(g, n)
  BY <1>1, <1>2, <1>3, <1>5
     DEF WaitEnds, Waits, TimeOut, await_timeout, ranVars, HandoverInv, ShapeInv
<1> QED BY <1>6, WaitEndsKeeps

(* A message handled is gone from its queue; what the others carry stays.  *)
LEMMA MessageTaken ==
    ASSUME HandoverInv, NEW g \in Gnb, HandleMessage(g)
    PROVE  /\ DOMAIN up' = Gnb /\ up'[g] = Tail(up[g])
           /\ IsQueue(up[g]) /\ IsQueue(up'[g]) /\ IsQueue(down[g])
           /\ \A x \in Gnb : x # g => up'[x] = up[x]
           /\ Head(up[g]) \in Messages(up[g])
           /\ \A x \in Messages(up'[g]) : x \in Messages(up[g])
           /\ \A Ks : Outside(Head(up[g]).type, Ks) => \A x \in Gnb : KindsSame(up[x], up'[x], Ks)
<1>1. up[g] # << >> /\ up' = [up EXCEPT ![g] = Tail(@)]
  BY HandleMessageFacts
<1>2. IsQueue(up[g]) /\ IsQueue(down[g]) /\ DOMAIN up = Gnb
  BY DEF HandoverInv, ShapeInv, ShapeAt
<1>3. DOMAIN up' = Gnb /\ up'[g] = Tail(up[g]) /\ \A x \in Gnb : x # g => up'[x] = up[x]
  BY <1>1, <1>2
<1>4. ASSUME NEW Ks, Outside(Head(up[g]).type, Ks)
      PROVE  \A x \in Gnb : KindsSame(up[x], up'[x], Ks)
  <2>1. KindsSame(up[g], up'[g], Ks)
    BY <1>1, <1>2, <1>3, <1>4, SameTail
  <2> QED BY <1>3, <2>1, SameSelf
<1>5. /\ IsQueue(Tail(up[g])) /\ Head(up[g]) \in Messages(up[g])
      /\ \A x : x \in Messages(Tail(up[g])) => x \in Messages(up[g])
  BY <1>1, <1>2, Taken
<1> QED BY <1>2, <1>3, <1>4, <1>5

(* Steps after which every source finds what it found before.              *)
LEMMA SourcesKeep ==
    ASSUME HandoverInv, open' = open, link' = link, admitted' = admitted,
           disturbed \subseteq disturbed', \A x \in Gnb : SourceSame(x)
    PROVE  /\ \A x \in Gnb : LinkAt(x)' /\ BackedAt(x)'
           /\ \A x \in Gnb : link'[x] => SourceAt(x)'
<1>1. ASSUME NEW x \in Gnb PROVE LinkAt(x)' /\ BackedAt(x)'
  BY LinkKeeps, BackedKeeps DEF HandoverInv
<1>2. ASSUME NEW x \in Gnb, link'[x] PROVE SourceAt(x)'
  BY <1>2, SourceKeeps DEF HandoverInv
<1> QED BY <1>1, <1>2

LEMMA SetupKeeps ==
    ASSUME HandoverInv, NEW g \in Gnb, HandleMessage(g), NEW answer,
           handle_ng_setup_request(g, Head(up[g]), answer)
    PROVE  HandoverInv'
<1> USE AccessMobilityAssumption
<1> DEFINE m == Head(up[g])
<1>1. /\ named' = named \cup {g} /\ relay' = [relay EXCEPT ![g] = NotAwaiting]
      /\ busy' = [s \in Gnb |-> IF busy[s].target = g
                                THEN [busy[s] EXCEPT !.detached = TRUE] ELSE busy[s]]
      /\ down' = down /\ m.type \in Setup
  BY DEF handle_ng_setup_request, Setup
<1>2. /\ open' = open /\ link' = link /\ ho' = ho /\ admitted' = admitted
      /\ disturbed \subseteq disturbed' /\ disturbed' \subseteq Gnb /\ UeInv'
  BY HandleMessageFacts
<1>3. /\ DOMAIN relay' = Gnb /\ relay'[g] = NotAwaiting
      /\ \A x \in Gnb : x # g => relay'[x] = relay[x]
  BY <1>1 DEF HandoverInv, ShapeInv
<1>4. ASSUME NEW s \in Gnb
      PROVE  /\ DOMAIN busy'[s] = {"target", "id", "detached"}
             /\ busy'[s].target = busy[s].target /\ busy'[s].id = busy[s].id
             /\ busy'[s] = NotBusy <=> busy'[s].target = "none"
             /\ busy'[s] = NotBusy <=> busy[s] = NotBusy
             /\ busy'[s].target \in Gnb \cup {"none"}
  <2>1. ShapeAt(s)
    BY DEF HandoverInv, ShapeInv
  <2>2. CASE busy[s].target = g
    <3>1. busy'[s] = [busy[s] EXCEPT !.detached = TRUE]
      BY <1>1, <2>2
    <3>2. /\ DOMAIN busy'[s] = {"target", "id", "detached"}
          /\ busy'[s].target = busy[s].target /\ busy'[s].id = busy[s].id
      BY <2>1, <3>1 DEF ShapeAt
    <3>3. busy'[s].target # "none" /\ busy'[s] # NotBusy /\ busy[s] # NotBusy
      BY <2>2, <3>2, NothingIs
    <3> QED BY <2>1, <2>2, <3>2, <3>3 DEF ShapeAt
  <2>3. CASE busy[s].target # g
    <3>1. busy'[s] = busy[s]
      BY <1>1, <2>3
    <3> QED BY <2>1, <3>1 DEF ShapeAt
  <2> QED BY <2>2, <2>3
<1>5. ShapeInv'
  <2>1. ASSUME NEW x \in Gnb PROVE ShapeAt(x)'
    <3>1. ShapeAt(x) /\ IsQueue(up'[x])
      BY MessageTaken DEF HandoverInv, ShapeInv, ShapeAt
    <3>2. DOMAIN relay'[x] = {"awaiting", "reply"}
      BY <1>3, <3>1, NothingIs DEF ShapeAt
    <3> QED BY <1>1, <1>2, <1>4, <3>1, <3>2 DEF ShapeAt
  <2>2. DOMAIN busy' = Gnb
    BY <1>1
  <2> QED BY <1>1, <1>2, <1>3, <2>1, <2>2, MessageTaken DEF HandoverInv, ShapeInv
<1>6. ASSUME NEW x \in Gnb PROVE SourceSame(x)
  <2>1. KindsSame(up[x], up'[x], AskKinds)
    BY <1>1, OutsideKinds, MessageTaken
  <2> QED BY <1>1, <1>2, <1>4, <2>1, SameSelf DEF SourceSame
<1>7. ASSUME NEW x \in Gnb \ disturbed' PROVE TargetAt(x)'
  <2>1. TargetAt(x)
    BY <1>2 DEF HandoverInv
  <2>2. CASE x # g
    <3>1. TargetSame(x)
      BY <1>1, <1>2, <1>3, <1>4, <2>2, MessageTaken, SameSelf DEF TargetSame
    <3> QED BY <2>1, <3>1, TargetKeeps
  <2>3. CASE x = g
    <3>1. Has(up[g], Setup)
      BY <1>1, MessageTaken DEF Has
    <3>2. g \notin named
      BY <2>1, <2>3, <3>1 DEF TargetAt
    <3>3. \A s \in Gnb : busy[s].target # g
      BY <2>1, <2>3, <3>2 DEF TargetAt, AwaitedBy
    <3>4. /\ ~Has(down[g], Request) /\ ~Has(up[g], Replies)
          /\ Single(up[g], Setup) /\ link[g]
      BY <2>1, <2>3, <3>3 DEF TargetAt
    <3>5. ~Has(up'[g], Setup) /\ Single(up'[g], Setup) /\ ~Has(up'[g], Replies)
      BY <1>1, <3>4, TakenKind, MessageTaken, HandleMessageFacts
    <3>6. \A s \in Gnb : busy'[s].target # g
      BY <1>4, <3>3
    <3> QED BY <1>1, <1>2, <2>3, <3>4, <3>5, <3>6 DEF TargetAt
  <2> QED BY <2>2, <2>3
<1> QED BY <1>2, <1>5, <1>6, <1>7, SourcesKeep DEF HandoverInv

LEMMA ReplyKeeps ==
    ASSUME HandoverInv, NEW g \in Gnb, HandleMessage(g), NEW answer,
           deliver_reply_if_pending(g, Head(up[g]), answer), UNCHANGED <<named, busy>>
    PROVE  HandoverInv'
<1> USE AccessMobilityAssumption
<1> DEFINE m == Head(up[g])
<1>1. /\ named' = named /\ busy' = busy /\ down' = down /\ m.type \in Replies
      /\ relay' = IF g \in named /\ relay[g].awaiting
                  THEN [relay EXCEPT ![g].reply = m.type] ELSE relay
  BY DEF deliver_reply_if_pending
<1>2. /\ open' = open /\ link' = link /\ ho' = ho /\ admitted' = admitted
      /\ disturbed \subseteq disturbed' /\ disturbed' \subseteq Gnb /\ UeInv'
  BY HandleMessageFacts
<1>3. /\ DOMAIN relay' = Gnb /\ \A x \in Gnb : x # g => relay'[x] = relay[x]
      /\ DOMAIN relay'[g] = {"awaiting", "reply"}
  BY <1>1 DEF HandoverInv, ShapeInv, ShapeAt
<1>4. ShapeInv'
  <2>1. ASSUME NEW x \in Gnb PROVE ShapeAt(x)'
    <3>1. ShapeAt(x) /\ IsQueue(up'[x])
      BY MessageTaken DEF HandoverInv, ShapeInv, ShapeAt
    <3> QED BY <1>1, <1>2, <1>3, <3>1 DEF ShapeAt
  <2> QED BY <1>1, <1>2, <1>3, <2>1, MessageTaken DEF HandoverInv, ShapeInv
<1>5. ASSUME NEW x \in Gnb PROVE SourceSame(x)
  <2>1. KindsSame(up[x], up'[x], AskKinds)
    BY <1>1, OutsideKinds, MessageTaken
  <2> QED BY <1>1, <1>2, <2>1, SameSelf DEF SourceSame
<1>6. ASSUME NEW x \in Gnb \ disturbed' PROVE TargetAt(x)'
  <2>1. TargetAt(x)
    BY <1>2 DEF HandoverInv
  <2>2. CASE x # g
    <3>1. TargetSame(x)
      BY <1>1, <1>2, <1>3, <2>2, MessageTaken, SameSelf DEF TargetSame
    <3> QED BY <2>1, <3>1, TargetKeeps
  <2>3. CASE x = g
    <3>1. Has(up[g], Replies) /\ (m.type = "HandoverRequestAcknowledge" => Has(up[g], Acknowledge))
      BY <1>1, MessageTaken DEF Has, Acknowledge
    <3>2. PICK s \in Gnb : busy[s].target = g
      BY <2>1, <2>3, <3>1 DEF TargetAt
    <3>3. AwaitedBy(s, g)
      BY <2>1, <2>3, <3>2 DEF TargetAt
    <3>4. /\ ~Has(down'[g], Request) /\ Single(down'[g], Request)
          /\ g \in named' /\ relay[g].awaiting
          /\ (Has(up[g], Acknowledge) => s \in admitted')
      BY <1>1, <1>2, <3>1, <3>3 DEF AwaitedBy, Acknowledged
    <3>5. ~Has(up'[g], Replies) /\ Single(up'[g], Replies) /\ ~Has(up'[g], Acknowledge)
      BY <1>1, <3>3, TakenKind, MessageTaken, HandleMessageFacts, HasParts DEF AwaitedBy
    <3>6. relay'[g].awaiting /\ relay'[g].reply = m.type
      BY <1>1, <3>3, <3>4 DEF AwaitedBy, HandoverInv, ShapeInv, ShapeAt
    <3>7. Acknowledged(g)' => s \in admitted'
      BY <3>1, <3>4, <3>5, <3>6 DEF Acknowledged
    <3>8. \A y \in Messages(down'[g]) : y.type \notin Request
      BY <3>4 DEF Has
    <3>9. AwaitedBy(s, g)'
      BY <1>1, <3>3, <3>4, <3>5, <3>6, <3>7, <3>8 DEF AwaitedBy
    <3>10. /\ Single(up'[g], Setup) /\ (g \in named' => ~Has(up'[g], Setup))
      BY <1>1, <2>1, <2>3, TakenKind, MessageTaken, HandleMessageFacts DEF TargetAt
    <3>11. \A y \in Gnb : busy'[y].target = g => y = s
      BY <1>1, <3>3 DEF AwaitedBy
    <3>12. TargetAt(g)'
      BY <1>1, <1>2, <2>1, <2>3, <3>2, <3>9, <3>10, <3>11 DEF TargetAt
    <3> QED BY <2>3, <3>12
  <2> QED BY <2>2, <2>3
<1> QED BY <1>2, <1>4, <1>5, <1>6, SourcesKeep DEF HandoverInv

(* What a source has asked for when the AMF reads it.                      *)
LEMMA AskedIs ==
    ASSUME HandoverInv, NEW g \in Gnb, HandleMessage(g), Head(up[g]).type \in Asks
    PROVE  /\ link[g] =>
                  /\ SourceAt(g) /\ Single(down[g], Hears) /\ ~Has(down[g], Hears)
                  /\ ~Has(down[g], Verdicts) /\ ~Has(down[g], Command) /\ ~Has(down[g], CancelAck)
                  /\ ~Has(up'[g], Asks) /\ ~Has(up'[g], Required) /\ ~Has(up'[g], Cancel)
                  /\ Single(up'[g], Asks) /\ Head(up[g]).id = ho[g].id
                  /\ Head(up[g]).type \in Cancel => ho[g].stage = "cancelling"
           /\ Head(up[g]).type \in Required =>
                  /\ Head(up[g]).target \in Gnb
                  /\ link[g] => ho[g].stage = "required" /\ Head(up[g]).target = ho[g].target
                  /\ ~link[g] => Head(up[g]).target \in disturbed
<1> DEFINE m == Head(up[g])
<1>1. m \in Messages(up[g]) /\ IsQueue(up[g]) /\ up[g] # << >> /\ up'[g] = Tail(up[g])
  BY MessageTaken, HandleMessageFacts
<1>2. m.type \in Asks /\ (m.type \in Required \/ m.type \in Cancel)
  BY DEF Asks
<1> HIDE DEF m
<1>3. /\ Has(up[g], Asks) /\ (m.type \in Required => Has(up[g], Required))
      /\ (m.type \in Cancel => Has(up[g], Cancel))
  BY <1>1, <1>2 DEF Has
<1>4. ASSUME link[g]
      PROVE  /\ SourceAt(g) /\ Single(down[g], Hears) /\ ~Has(down[g], Hears)
             /\ ~Has(down[g], Verdicts) /\ ~Has(down[g], Command) /\ ~Has(down[g], CancelAck)
             /\ ~Has(up'[g], Asks) /\ ~Has(up'[g], Required) /\ ~Has(up'[g], Cancel)
             /\ Single(up'[g], Asks) /\ m.id = ho[g].id
             /\ m.type \in Cancel => ho[g].stage = "cancelling"
             /\ m.type \in Required => ho[g].stage = "required" /\ m.target = ho[g].target
  <2>1. SourceAt(g)
    BY <1>4 DEF HandoverInv
  <2>2. ~Has(down[g], Verdicts) /\ ~Has(down[g], CancelAck)
    BY <1>2, <1>3, <2>1 DEF SourceAt
  <2>3. ~Has(down[g], Hears) /\ ~Has(down[g], Command) /\ Single(down[g], Hears)
    BY <2>1, <2>2, HasParts DEF SourceAt
  <2>4. ~Has(up'[g], Asks) /\ Single(up'[g], Asks)
    BY <1>1, <1>2, <2>1, TakenKind DEF SourceAt, m
  <2>5. /\ m.id = ho[g].id /\ (m.type \in Cancel => ho[g].stage = "cancelling")
        /\ (m.type \in Required => ho[g].stage = "required" /\ m.target = ho[g].target)
    BY <1>1, <1>2, <1>3, <2>1 DEF SourceAt
  <2> QED BY <2>1, <2>2, <2>3, <2>4, <2>5, HasParts
<1>5. ~link[g] /\ m.type \in Required => m.target \in disturbed
  BY <1>1 DEF HandoverInv, LinkAt
<1>6. m.type \in Required => m.target \in Gnb
  BY <1>4, <1>5, NothingIs DEF HandoverInv, ShapeInv, ShapeAt
<1> QED BY <1>4, <1>5, <1>6 DEF m

LEMMA RefusalKeeps ==
    ASSUME HandoverInv, NEW g \in Gnb, HandleMessage(g), Head(up[g]).type \in Required,
           named' = named, relay' = relay, busy' = busy,
           Send(g, PreparationFailure(Head(up[g]).id))
    PROVE  HandoverInv'
<1> USE AccessMobilityAssumption
<1> DEFINE m == Head(up[g])
           n == PreparationFailure(m.id)
<1>1. m.type \in Required /\ m.type \in Asks
  BY DEF Asks
<1>2. n.id = m.id /\ n.type \in Verdicts /\ n.type \in Hears /\ n.type \notin Command
      /\ n.type \notin CancelAck
  BY DEF PreparationFailure, Verdicts, Command, Hears, CancelAck
<1>3. down' = Sent(down, g, n)
  BY DEF Send
<1> HIDE DEF n
<1>4. /\ open' = open /\ link' = link /\ ho' = ho /\ admitted' = admitted
      /\ disturbed \subseteq disturbed' /\ disturbed' \subseteq Gnb /\ UeInv' /\ ~Waits(g)
  BY HandleMessageFacts
<1>5. /\ DOMAIN down' = Gnb /\ IsQueue(down'[g])
      /\ \A x \in Gnb : x # g => down'[x] = down[x]
      /\ link[g] => down'[g] = Append(down[g], n)
      /\ ~link[g] => down'[g] = down[g]
  BY <1>3, SentIs
<1>6. ShapeInv'
  <2>1. ASSUME NEW x \in Gnb PROVE ShapeAt(x)'
    <3>1. ShapeAt(x) /\ IsQueue(up'[x]) /\ IsQueue(down'[x])
      BY <1>5, MessageTaken DEF HandoverInv, ShapeInv, ShapeAt
    <3> QED BY <1>4, <3>1 DEF ShapeAt
  <2> QED BY <1>4, <1>5, <2>1, MessageTaken DEF HandoverInv, ShapeInv
<1>7. \A x \in Gnb : x # g => SourceSame(x)
  BY <1>4, <1>5, MessageTaken, SameSelf DEF SourceSame
<1>8. ASSUME link[g] PROVE SourceAt(g)' /\ ~Has(down'[g], Command)
  <2>1. /\ SourceAt(g) /\ Single(down[g], Hears) /\ ~Has(down[g], Hears)
        /\ ~Has(down[g], Verdicts) /\ ~Has(down[g], Command) /\ ~Has(down[g], CancelAck)
        /\ ~Has(up'[g], Asks) /\ ~Has(up'[g], Required) /\ ~Has(up'[g], Cancel)
        /\ Single(up'[g], Asks) /\ m.id = ho[g].id /\ ho[g].stage = "required"
    BY <1>1, <1>8, AskedIs
  <2>2. IsQueue(down[g]) /\ down'[g] = Append(down[g], n)
    BY <1>5, <1>8, MessageTaken
  <2>3. Single(down'[g], Hears)
    BY <2>1, <2>2, AppendedKind
  <2>4. ~Has(down'[g], Command) /\ ~Has(down'[g], CancelAck)
    BY <1>2, <2>1, <2>2, AppendedKind
  <2>5. \A x \in Messages(down'[g]) : x.type \in Verdicts => x.id = ho[g].id
    BY <1>2, <2>1, <2>2, Appended DEF Has
  <2>6. \A x \in Messages(up'[g]) : x.type \notin Required /\ x.type \notin Cancel
    BY <2>1 DEF Has
  <2> QED BY <1>4, <2>1, <2>3, <2>4, <2>5, <2>6 DEF SourceAt, Waits
<1>9. ASSUME NEW x \in Gnb PROVE LinkAt(x)'
  <2>1. CASE x = g
    <3>1. LinkAt(g) /\ \A y \in Messages(up'[g]) : y \in Messages(up[g])
      BY MessageTaken DEF HandoverInv
    <3> QED BY <1>4, <1>5, <2>1, <3>1 DEF LinkAt, Waits
  <2>2. CASE x # g
    BY <1>4, <1>7, <2>2, LinkKeeps DEF HandoverInv
  <2> QED BY <2>1, <2>2
<1>10. ASSUME NEW x \in Gnb, link'[x] PROVE SourceAt(x)'
  BY <1>4, <1>7, <1>8, <1>10, SourceKeeps DEF HandoverInv
<1>11. ASSUME NEW x \in Gnb PROVE BackedAt(x)'
  <2>1. ~Has(down'[g], Command)
    BY <1>5, <1>8, HasParts DEF HandoverInv, LinkAt
  <2> QED BY <1>4, <1>7, <2>1, BackedKeeps DEF HandoverInv, BackedAt
<1>12. ASSUME NEW x \in Gnb \ disturbed' PROVE TargetAt(x)'
  <2>1. KindsSame(up[x], up'[x], ReplyKinds)
    BY <1>1, OutsideKinds, MessageTaken
  <2>2. KindsSame(down[x], down'[x], RequestKinds)
    <3>1. KindsSame(down[g], Append(down[g], n), RequestKinds)
      BY <1>2, MessageTaken, SameAppend, OutsideKinds
    <3> QED BY <1>5, <3>1, SameSelf
  <2>3. TargetSame(x) /\ TargetAt(x)
    BY <1>4, <2>1, <2>2 DEF TargetSame, HandoverInv
  <2> QED BY <2>3, TargetKeeps
<1> QED BY <1>4, <1>6, <1>9, <1>10, <1>11, <1>12 DEF HandoverInv

LEMMA RequestKeeps ==
    ASSUME HandoverInv, NEW g \in Gnb, HandleMessage(g), Head(up[g]).type \in Required,
           NEW t \in Gnb, t = Head(up[g]).target, t \in named, named' = named,
           relay' = [relay EXCEPT ![t] = [awaiting |-> TRUE, reply |-> "none"]],
           Send(t, [type |-> "HandoverRequest", id |-> Head(up[g]).id]),
           busy' = [busy EXCEPT ![g] = [target |-> t, id |-> Head(up[g]).id, detached |-> FALSE]]
    PROVE  HandoverInv'
<1> USE AccessMobilityAssumption
<1> DEFINE m == Head(up[g])
           n == [type |-> "HandoverRequest", id |-> m.id]
<1>1. m.type \in Required /\ m.type \in Asks /\ m.target = t
  BY DEF Asks
<1>2. n.id = m.id /\ n.type \in Request
  BY DEF Request
<1>3. down' = Sent(down, t, n)
  BY DEF Send
<1> HIDE DEF n
<1>4. /\ open' = open /\ link' = link /\ ho' = ho /\ admitted' = admitted
      /\ disturbed \subseteq disturbed' /\ disturbed' \subseteq Gnb /\ UeInv' /\ ~Waits(g)
  BY HandleMessageFacts
<1>5. /\ DOMAIN down' = Gnb /\ IsQueue(down'[t]) /\ IsQueue(down[t])
      /\ \A x \in Gnb : x # t => down'[x] = down[x]
      /\ link[t] => down'[t] = Append(down[t], n)
      /\ ~link[t] => down'[t] = down[t]
  BY <1>3, SentIs DEF HandoverInv, ShapeInv, ShapeAt
<1>6. /\ DOMAIN relay' = Gnb /\ \A x \in Gnb : x # t => relay'[x] = relay[x]
      /\ relay'[t].awaiting /\ relay'[t].reply = "none"
      /\ DOMAIN relay'[t] = {"awaiting", "reply"}
  BY DEF HandoverInv, ShapeInv
<1>7. /\ DOMAIN busy' = Gnb /\ \A x \in Gnb : x # g => busy'[x] = busy[x]
      /\ busy'[g].target = t /\ busy'[g].id = m.id
      /\ DOMAIN busy'[g] = {"target", "id", "detached"}
  BY DEF HandoverInv, ShapeInv
<1>8. busy'[g] # NotBusy /\ busy[g].target \notin Gnb /\ busy[g] = NotBusy
  BY <1>4, <1>7, NothingIs DEF Waits
<1>9. ShapeInv'
  <2>1. ASSUME NEW x \in Gnb PROVE ShapeAt(x)'
    <3>1. ShapeAt(x) /\ IsQueue(up'[x]) /\ IsQueue(down'[x])
      BY <1>5, MessageTaken DEF HandoverInv, ShapeInv, ShapeAt
    <3>2. DOMAIN relay'[x] = {"awaiting", "reply"}
      BY <1>6, <3>1 DEF ShapeAt
    <3>3. /\ DOMAIN busy'[x] = {"target", "id", "detached"} /\ busy'[x].target \in Gnb \cup {"none"}
          /\ busy'[x] = NotBusy <=> busy'[x].target = "none"
      BY <1>7, <1>8, <3>1 DEF ShapeAt
    <3> QED BY <1>4, <3>1, <3>2, <3>3 DEF ShapeAt
  <2> QED BY <1>4, <1>5, <1>6, <1>7, <2>1, MessageTaken DEF HandoverInv, ShapeInv
<1>10. ASSUME NEW x \in Gnb PROVE KindsSame(down[x], down'[x], HearKinds)
  <2>1. KindsSame(down[t], Append(down[t], n), HearKinds)
    BY <1>2, <1>5, SameAppend, OutsideKinds
  <2> QED BY <1>5, <2>1, SameSelf
<1>11. \A x \in Gnb : x # g => SourceSame(x)
  BY <1>4, <1>7, <1>10, MessageTaken, SameSelf DEF SourceSame
<1>12. /\ Has(down'[g], Hears) <=> Has(down[g], Hears)
       /\ Has(down'[g], Verdicts) <=> Has(down[g], Verdicts)
       /\ Has(down'[g], CancelAck) <=> Has(down[g], CancelAck)
       /\ Has(down'[g], Command) <=> Has(down[g], Command)
       /\ Single(down[g], Hears) => Single(down'[g], Hears)
  BY <1>10 DEF KindsSame, HearKinds
<1>13. ASSUME link[g] PROVE SourceAt(g)' /\ ~Has(down'[g], Command)
  <2>1. /\ Single(down[g], Hears) /\ ~Has(down[g], Hears)
        /\ ~Has(down[g], Verdicts) /\ ~Has(down[g], Command) /\ ~Has(down[g], CancelAck)
        /\ ~Has(up'[g], Asks) /\ ~Has(up'[g], Required) /\ ~Has(up'[g], Cancel)
        /\ Single(up'[g], Asks) /\ m.id = ho[g].id /\ ho[g].stage = "required"
        /\ t = ho[g].target
    BY <1>1, <1>13, AskedIs
  <2>2. /\ \A x \in Messages(up'[g]) : x.type \notin Required /\ x.type \notin Cancel
        /\ \A x \in Messages(down'[g]) : x.type \notin Verdicts
    BY <1>12, <2>1 DEF Has
  <2> QED BY <1>4, <1>7, <1>12, <2>1, <2>2 DEF SourceAt, Waits
<1>14. ASSUME NEW x \in Gnb PROVE LinkAt(x)'
  <2>1. CASE x = g
    <3>1. LinkAt(g) /\ open[g] /\ \A y \in Messages(up'[g]) : y \in Messages(up[g])
      BY MessageTaken, HandleMessageFacts DEF HandoverInv
    <3>2. ~link[g] => t \in disturbed'
      BY <1>1, <1>4, AskedIs
    <3> QED BY <1>4, <1>7, <1>12, <2>1, <3>1, <3>2 DEF LinkAt, Waits
  <2>2. CASE x # g
    BY <1>4, <1>11, <2>2, LinkKeeps DEF HandoverInv
  <2> QED BY <2>1, <2>2
<1>15. ASSUME NEW x \in Gnb, link'[x] PROVE SourceAt(x)'
  BY <1>4, <1>11, <1>13, <1>15, SourceKeeps DEF HandoverInv
<1>16. ASSUME NEW x \in Gnb PROVE BackedAt(x)'
  <2>1. ~Has(down'[g], Command)
    BY <1>12, <1>13, HasParts DEF HandoverInv, LinkAt
  <2> QED BY <1>4, <1>11, <2>1, BackedKeeps DEF HandoverInv, BackedAt
<1>17. ASSUME NEW x \in Gnb \ disturbed' PROVE TargetAt(x)'
  <2>1. KindsSame(up[x], up'[x], ReplyKinds) /\ TargetAt(x)
    BY <1>1, <1>4, OutsideKinds, MessageTaken DEF HandoverInv
  <2>2. CASE x # t
    <3>1. ASSUME NEW s \in Gnb
          PROVE  /\ busy'[s].target = x <=> busy[s].target = x
                 /\ busy[s].target = x => busy'[s].id = busy[s].id
      BY <1>7, <1>8, <2>2
    <3>2. TargetSame(x)
      BY <1>4, <1>5, <1>6, <2>1, <2>2, <3>1, SameSelf DEF TargetSame
    <3> QED BY <2>1, <3>2, TargetKeeps
  <2>3. CASE x = t
    <3>1. \A s \in Gnb : busy'[s].target = t => s = g
      <4> SUFFICES ASSUME NEW s \in Gnb, busy'[s].target = t, s # g PROVE FALSE
        OBVIOUS
      <4>1. busy'[g].target = t
        BY <1>7
      <4> QED BY <2>3, <4>1, SharedDisturbed
    <3>2. \A s \in Gnb : busy[s].target # t
      BY <1>7, <1>8, <3>1
    <3>3. ~Has(down[t], Request) /\ ~Has(up[t], Replies) /\ link[t]
      BY <2>1, <2>3, <3>2 DEF TargetAt
    <3>4. ~Has(up'[t], Replies) /\ ~Has(up'[t], Acknowledge)
      BY <2>1, <2>3, <3>3, HasParts DEF KindsSame, ReplyKinds
    <3>5. /\ Single(up'[t], Setup) /\ (t \in named' => ~Has(up'[t], Setup))
      BY <2>1, <2>3 DEF KindsSame, ReplyKinds, TargetAt
    <3>6. Single(down'[t], Request)
      <4>1. Single(Append(down[t], n), Request)
        BY <1>5, <3>3, AppendedKind
      <4> QED BY <1>5, <3>3, <4>1
    <3>7. \A y \in Messages(down'[t]) : y.type \in Request => y.id = m.id
      BY <1>2, <1>5, <3>3, Appended DEF Has
    <3>8. Single(up'[t], Replies)
      BY <3>4 DEF Single, Has, Messages
    <3>9. AwaitedBy(g, t)'
      BY <1>6, <1>7, <3>1, <3>4, <3>6, <3>7, <3>8 DEF AwaitedBy, Acknowledged
    <3> QED BY <1>4, <1>7, <2>3, <3>1, <3>3, <3>5, <3>9 DEF TargetAt
  <2> QED BY <2>2, <2>3
<1> QED BY <1>4, <1>9, <1>14, <1>15, <1>16, <1>17 DEF HandoverInv

LEMMA HandoverRequiredKeeps ==
    ASSUME HandoverInv, NEW g \in Gnb, HandleMessage(g), NEW answer,
           handle_handover_required(g, Head(up[g]), answer), UNCHANGED named
    PROVE  HandoverInv'
<1> DEFINE m == Head(up[g])
<1>1. m.type \in Required /\ m.type \in Asks
  BY DEF handle_handover_required, Required, Asks
<1>2. m.target \in Gnb /\ named' = named
  BY <1>1, AskedIs
<1>3. \/ relay' = relay /\ busy' = busy /\ Send(g, PreparationFailure(m.id))
      \/ /\ m.target \in named
         /\ relay' = [relay EXCEPT ![m.target] = [awaiting |-> TRUE, reply |-> "none"]]
         /\ Send(m.target, [type |-> "HandoverRequest", id |-> m.id])
         /\ busy' = [busy EXCEPT ![g] = [target |-> m.target, id |-> m.id, detached |-> FALSE]]
  BY DEF handle_handover_required
<1> QED BY <1>1, <1>2, <1>3, RefusalKeeps, RequestKeeps

LEMMA HandoverCancelKeeps ==
    ASSUME HandoverInv, NEW g \in Gnb, HandleMessage(g), NEW answer,
           handle_handover_cancel(g, Head(up[g]), answer), UNCHANGED <<named, relay, busy>>
    PROVE  HandoverInv'
<1> USE AccessMobilityAssumption
<1> DEFINE m == Head(up[g])
           n == CancelAcknowledge(m.id)
           c == ReleaseCommand(m.id)
<1>1. m.type \in Cancel /\ m.type \in Asks /\ named' = named /\ relay' = relay /\ busy' = busy
  BY DEF handle_handover_cancel, Cancel, Asks
<1>2. /\ n.id = m.id /\ n.type \in CancelAck /\ n.type \in Hears /\ n.type \notin Verdicts
      /\ n.type \notin Command /\ c.type = "UEContextReleaseCommand"
  BY DEF CancelAcknowledge, ReleaseCommand, Verdicts, Command, Hears, CancelAck
<1>3. \/ down' = Sent(down, g, n)
      \/ \E t \in Gnb : down' = Sent(Sent(down, t, c), g, n)
  BY DEF handle_handover_cancel, HandoverInv, ShapeInv
<1> HIDE DEF n, c
<1>4. /\ open' = open /\ link' = link /\ ho' = ho /\ admitted' = admitted
      /\ disturbed \subseteq disturbed' /\ disturbed' \subseteq Gnb /\ UeInv' /\ ~Waits(g)
  BY HandleMessageFacts
<1> DEFINE Middle(d) == /\ DOMAIN d = Gnb
                        /\ \A x \in Gnb : /\ IsQueue(d[x]) /\ KindsSame(down[x], d[x], HearKinds)
                                          /\ KindsSame(down[x], d[x], RequestKinds)
<1>5. PICK d : Middle(d) /\ down' = Sent(d, g, n)
  <2>1. Middle(down)
    BY SameSelf DEF HandoverInv, ShapeInv, ShapeAt
  <2>2. ASSUME NEW t \in Gnb PROVE Middle(Sent(down, t, c))
    <3>1. IsQueue(down[t])
      BY DEF HandoverInv, ShapeInv, ShapeAt
    <3>2. /\ KindsSame(down[t], Append(down[t], c), HearKinds)
          /\ KindsSame(down[t], Append(down[t], c), RequestKinds)
      BY <1>2, <3>1, SameAppend, OutsideKinds
    <3> DEFINE d == Sent(down, t, c)
    <3>3. /\ DOMAIN d = Gnb /\ \A x \in Gnb : x # t => d[x] = down[x]
          /\ d[t] = Append(down[t], c) \/ d[t] = down[t]
          /\ \A x \in Gnb : IsQueue(d[x])
      BY SentIs DEF HandoverInv, ShapeInv, ShapeAt
    <3> HIDE DEF d
    <3>4. Middle(d)
      BY <3>2, <3>3, SameSelf
    <3> QED BY <3>4 DEF d
  <2> QED BY <1>3, <2>1, <2>2
<1>6. /\ DOMAIN d = Gnb
      /\ \A x \in Gnb : /\ IsQueue(d[x]) /\ KindsSame(down[x], d[x], HearKinds)
                        /\ KindsSame(down[x], d[x], RequestKinds)
  BY <1>5
<1> HIDE DEF Middle
<1>7. /\ DOMAIN down' = Gnb
      /\ \A x \in Gnb : x # g => down'[x] = d[x]
      /\ link[g] => down'[g] = Append(d[g], n)
      /\ ~link[g] => down'[g] = d[g]
  BY <1>5, <1>6 DEF Sent
<1>8. \A x \in Gnb : IsQueue(down'[x])
  <2>1. IsQueue(Append(d[g], n))
    BY <1>6, Appended
  <2> QED BY <1>6, <1>7, <2>1
<1>9. ShapeInv'
  <2>1. ASSUME NEW x \in Gnb PROVE ShapeAt(x)'
    <3>1. ShapeAt(x) /\ IsQueue(up'[x]) /\ IsQueue(down'[x])
      BY <1>8, MessageTaken DEF HandoverInv, ShapeInv, ShapeAt
    <3> QED BY <1>1, <1>4, <3>1 DEF ShapeAt
  <2> QED BY <1>1, <1>4, <1>7, <2>1, MessageTaken DEF HandoverInv, ShapeInv
<1>10. \A x \in Gnb : x # g => SourceSame(x)
  BY <1>1, <1>4, <1>6, <1>7, MessageTaken, SameSelf DEF SourceSame
<1>11. /\ Has(d[g], Hears) <=> Has(down[g], Hears)
       /\ Has(d[g], Verdicts) <=> Has(down[g], Verdicts)
       /\ Has(d[g], CancelAck) <=> Has(down[g], CancelAck)
       /\ Has(d[g], Command) <=> Has(down[g], Command)
  BY <1>6 DEF KindsSame, HearKinds
<1>12. ASSUME link[g] PROVE SourceAt(g)' /\ ~Has(down'[g], Command)
  <2>1. /\ ~Has(down[g], Hears) /\ ~Has(down[g], Verdicts) /\ ~Has(down[g], Command)
        /\ ~Has(up'[g], Asks) /\ ~Has(up'[g], Required) /\ ~Has(up'[g], Cancel)
        /\ Single(up'[g], Asks) /\ ho[g].stage = "cancelling"
    BY <1>1, <1>12, AskedIs
  <2>2. IsQueue(d[g]) /\ down'[g] = Append(d[g], n)
    BY <1>6, <1>7, <1>12
  <2>3. Single(down'[g], Hears)
    BY <1>11, <2>1, <2>2, AppendedKind
  <2>4. ~Has(down'[g], Command) /\ ~Has(down'[g], Verdicts)
    BY <1>2, <1>11, <2>1, <2>2, AppendedKind
  <2>5. /\ \A x \in Messages(up'[g]) : x.type \notin Required /\ x.type \notin Cancel
        /\ \A x \in Messages(down'[g]) : x.type \notin Verdicts
    BY <2>1, <2>4 DEF Has
  <2> QED BY <1>1, <1>4, <2>1, <2>3, <2>4, <2>5 DEF SourceAt, Waits
<1>13. ASSUME NEW x \in Gnb PROVE LinkAt(x)'
  <2>1. CASE x = g
    <3>1. LinkAt(g) /\ \A y \in Messages(up'[g]) : y \in Messages(up[g])
      BY MessageTaken DEF HandoverInv
    <3> QED BY <1>1, <1>4, <1>7, <1>11, <2>1, <3>1 DEF LinkAt, Waits
  <2>2. CASE x # g
    BY <1>4, <1>10, <2>2, LinkKeeps DEF HandoverInv
  <2> QED BY <2>1, <2>2
<1>14. ASSUME NEW x \in Gnb, link'[x] PROVE SourceAt(x)'
  BY <1>4, <1>10, <1>12, <1>14, SourceKeeps DEF HandoverInv
<1>15. ASSUME NEW x \in Gnb PROVE BackedAt(x)'
  <2>1. ~Has(down'[g], Command)
    BY <1>7, <1>11, <1>12, HasParts DEF HandoverInv, LinkAt
  <2> QED BY <1>4, <1>10, <2>1, BackedKeeps DEF HandoverInv, BackedAt
<1>16. ASSUME NEW x \in Gnb \ disturbed' PROVE TargetAt(x)'
  <2>1. KindsSame(up[x], up'[x], ReplyKinds)
    BY <1>1, OutsideKinds, MessageTaken
  <2>2. KindsSame(down[x], down'[x], RequestKinds)
    <3>1. KindsSame(d[g], Append(d[g], n), RequestKinds)
      BY <1>2, <1>6, SameAppend, OutsideKinds
    <3>2. KindsSame(down[g], d[g], RequestKinds) /\ KindsSame(down[g], Append(d[g], n), RequestKinds)
      BY <1>6, <3>1, SameTransitive
    <3> QED BY <1>6, <1>7, <3>2
  <2>3. TargetSame(x) /\ TargetAt(x)
    BY <1>1, <1>4, <2>1, <2>2 DEF TargetSame, HandoverInv
  <2> QED BY <2>3, TargetKeeps
<1> QED BY <1>4, <1>9, <1>13, <1>14, <1>15, <1>16 DEF HandoverInv

LEMMA HandleMessageKeeps ==
    ASSUME HandoverInv, NEW g \in Gnb, HandleMessage(g)
    PROVE  HandoverInv'
<1> DEFINE m == Head(up[g])
<1>1. PICK answer \in Answers : handle_association(g, answer)
  BY DEF HandleMessage
<1>2. \/ handle_ng_setup_request(g, m, answer)
      \/ deliver_reply_if_pending(g, m, answer) /\ UNCHANGED <<named, busy>>
      \/ handle_handover_required(g, m, answer) /\ UNCHANGED named
      \/ handle_handover_cancel(g, m, answer) /\ UNCHANGED <<named, relay, busy>>
      \/ OtherHandler(g, m, answer) /\ UNCHANGED <<named, relay, busy>>
  BY <1>1 DEF handle_association, OtherHandler
<1> QED BY <1>2, SetupKeeps, ReplyKeeps, HandoverRequiredKeeps, HandoverCancelKeeps,
           HandleOtherKeeps

LEMMA DeliverKeeps ==
    ASSUME HandoverInv, NEW g \in Gnb, Deliver(g)
    PROVE  HandoverInv'
<1> DEFINE m == Head(down[g])
<1>1. \/ ReceiveNas(g, m) \/ ReceiveReleaseCommand(g, m) \/ ReceivePathSwitch(g, m)
      \/ ReceiveHandoverRequest(g, m) \/ ReceiveHandoverOutcome(g, m)
  BY DEF Deliver
<1> QED BY <1>1, ReceiveNasKeeps, ReceiveReleaseCommandKeeps, ReceivePathSwitchKeeps,
           ReceiveHandoverRequestKeeps, ReceiveHandoverOutcomeKeeps

----------------------------------------------------------------------------
LEMMA HandoverStep == HandoverInv /\ [Next]_vars => HandoverInv'
<1> SUFFICES ASSUME HandoverInv, [Next]_vars PROVE HandoverInv'
  OBVIOUS
<1>1. ASSUME NEW g \in Gnb, HandleMessage(g) PROVE HandoverInv'
  BY <1>1, HandleMessageKeeps
<1>2. ASSUME NEW g \in Gnb, CloseAssociation(g) PROVE HandoverInv'
  BY <1>2, CloseAssociationKeeps
<1>3. ASSUME NEW g \in Gnb, Accept(g) PROVE HandoverInv'
  BY <1>3, AcceptKeeps
<1>4. ASSUME NEW g \in Gnb, Relay(g) PROVE HandoverInv'
  BY <1>4, RelayKeeps
<1>5. ASSUME NEW g \in Gnb, TimeOut(g) PROVE HandoverInv'
  BY <1>5, TimeOutKeeps
<1>6. ASSUME NEW g \in Gnb, Deliver(g) PROVE HandoverInv'
  BY <1>6, DeliverKeeps
<1>7. ASSUME NEW g \in Gnb, CancelHandover(g) PROVE HandoverInv'
  BY <1>7, CancelHandoverKeeps
<1>8. ASSUME NEW g \in Gnb, LoseAssociation(g) PROVE HandoverInv'
  BY <1>8, LoseAssociationKeeps
<1>9. ASSUME NEW u \in UE, CompleteRegistration(u) \/ RequestPduSession(u) PROVE HandoverInv'
  BY <1>9, SendSecuredKeeps
<1>10. ASSUME NEW u \in UE, LoseRadio(u) PROVE HandoverInv'
  BY <1>10, LoseRadioKeeps
<1>11. ASSUME NEW u \in UE, ExecuteHandover(u) PROVE HandoverInv'
  BY <1>11, ExecuteHandoverKeeps
<1>12. ASSUME NEW u \in UE, Transfer(u) PROVE HandoverInv'
  BY <1>12, TransferKeeps
<1>13. ASSUME NEW u \in UE, NEW g \in Gnb, StartRegistration(u, g) PROVE HandoverInv'
  BY <1>13, StartRegistrationKeeps
<1>14. ASSUME NEW u \in UE, NEW g \in Gnb, StartService(u, g) PROVE HandoverInv'
  BY <1>14, StartServiceKeeps
<1>15. ASSUME NEW u \in UE, NEW g \in Gnb, SwitchPath(u, g) PROVE HandoverInv'
  BY <1>15, SwitchPathKeeps
<1>16. ASSUME NEW u \in UE, NEW g \in Gnb, RequireHandover(u, g) PROVE HandoverInv'
  BY <1>16, RequireHandoverKeeps
<1>17. CASE HomeNetwork
  BY <1>17, HomeNetworkKeeps
<1>18. CASE Restart
  BY <1>18, RestartKeeps
<1>19. CASE UNCHANGED vars
  <2>1. Elsewhere
    BY <1>19, QueuesSelf DEF vars, amfVars, ranVars, Elsewhere, HandoverInv, ShapeInv
  <2>2. UeInv'
    BY <1>19, UeSteps DEF vars, amfVars, ranVars, HandoverInv, UeInv
  <2> QED BY <2>1, <2>2, ElsewhereKeeps
<1> QED BY <1>1, <1>2, <1>3, <1>4, <1>5, <1>6, <1>7, <1>8, <1>9, <1>10, <1>11, <1>12, <1>13,
           <1>14, <1>15, <1>16, <1>17, <1>18, <1>19 DEF Next

(* HandoverBacked for any number of UEs, gNBs and events: a command on its *)
(* way to the source was admitted by its target, whatever handlers of      *)
(* other associations, time-outs, lost associations and restarts come in   *)
(* between.  A target two sources required at once, or one that was        *)
(* disturbed, is exempt, as the property says.                             *)
THEOREM CommandsAreBacked == Spec => []HandoverBacked
<1>1. HandoverInv => HandoverBacked
  <2> SUFFICES ASSUME HandoverInv, NEW g \in Gnb,
                      NEW i \in 1..Len(down[g]), down[g][i].type = "HandoverCommand",
                      ho[g].target \in Gnb \ disturbed
               PROVE  g \in admitted
    BY DEF HandoverBacked
  <2>1. Has(down[g], Command)
    BY DEF Has, Messages, Command
  <2> QED BY <2>1 DEF HandoverInv, BackedAt
<1> QED BY <1>1, HandoverInit, HandoverStep, PTL DEF Spec

----------------------------------------------------------------------------
(***************************************************************************)
(* The invariant behind ReservationReturned.  What a target holds for a    *)
(* handover is on its way out, or the handover goes on (KeptAt); while it  *)
(* goes on the AMF finds its target: the source's id leads to a UE context *)
(* that names it (PathAt).  That this stays so rests on what the stores    *)
(* hold (StoresInv): an id is given out once and put into the index when   *)
(* its registration is accepted, and no later registration uses it.        *)
(***************************************************************************)
Leads(id, h) ==
    /\ id \in 1..MaxIds /\ index[id] # 0
    /\ ue_contexts[security[index[id]].ue].target = h

(* The AMF may still have to tell the target of g.                         *)
UnderWay(g) ==
    Waits(g) \/ Has(down[g], Command) \/ ho[g].stage = "commanded" \/ Has(up[g], Cancel)

PathAt(g) ==
    link[g] /\ ho[g].target \in Gnb \ disturbed /\ UnderWay(g)
    => ho[g].target \in named /\ Leads(ho[g].id, ho[g].target)

(* What the target admitted has not been given back.                       *)
Holds(g) ==
    \/ Waits(g) /\ Acknowledged(ho[g].target)
    \/ Has(down[g], Command) \/ ho[g].stage = "commanded" \/ Has(up[g], Cancel)

HeldBy(g, h, id) == ho[g].id = id /\ ho[g].target = h /\ Holds(g)

KeptAt(h) ==
    \A id \in prepared[h] : \/ ReleaseCommand(id) \in Messages(down[h])
                            \/ \E g \in Gnb : HeldBy(g, h, id)

Early == {"AwaitingAuthenticationResponse", "AwaitingSecurityModeComplete"}

(* Whose registration gets past authentication is known.                   *)
AuthFits(a) ==
    /\ DOMAIN a = {"supi", "confirmation", "id", "ran", "key", "rand", "sqn_resync_attempted",
                   "phase"}
    /\ \/ a.supi \in UE
       \/ a.phase = "AwaitingAuthenticationResponse" /\ a.confirmation = 0 /\ a.rand = 0

SecurityFits(s) ==
    /\ IsQueue(s)
    /\ \A i \in 1..Len(s) : DOMAIN s[i] = {"ue", "key", "ul", "dl"} /\ s[i].ue \in UE

Wellborn(s) == \A m \in Messages(s) : m.type = "RegistrationRequest" => m.ue \in UE

TypesInv ==
    /\ DOMAIN auth = Gnb /\ DOMAIN prepared = Gnb /\ DOMAIN ue_contexts = UE
    /\ DOMAIN index = 1..MaxIds /\ next_id \in Nat \ {0}
    /\ \A g \in Gnb : AuthFits(auth[g]) /\ Wellborn(up[g])
    /\ \A u \in UE : DOMAIN ue_contexts[u] = {"exists", "session", "target"}
    /\ SecurityFits(security)
    /\ \A i \in 1..MaxIds : index[i] \in 0..Len(security)

IdsInv ==
    /\ \A g \in Gnb : auth[g].id \in 0..next_id - 1
    /\ \A g, s \in Gnb : auth[g].id = auth[s].id /\ auth[g].id # 0 => s = g

(* Up to a restart of the AMF, after which ids are given out again.        *)
IndexInv ==
    disturbed # Gnb =>
        \A i \in 1..MaxIds : index[i] # 0 =>
            i < next_id /\ \A g \in Gnb : auth[g].id = i => auth[g].phase \notin Early

StoresInv == TypesInv /\ IdsInv /\ IndexInv

ReturnInv ==
    /\ \A g \in Gnb : PathAt(g)
    /\ \A h \in Gnb \ disturbed : KeptAt(h)

----------------------------------------------------------------------------
(***************************************************************************)
(* What the stores hold.                                                   *)
(***************************************************************************)
LEMMA WellbornQueues ==
    ASSUME NEW s, IsQueue(s), Wellborn(s)
    PROVE  /\ \A m : (m.type = "RegistrationRequest" => m.ue \in UE) => Wellborn(Append(s, m))
           /\ s # << >> => Wellborn(Tail(s))
<1>1. ASSUME NEW m, m.type = "RegistrationRequest" => m.ue \in UE PROVE Wellborn(Append(s, m))
  BY <1>1, Appended DEF Wellborn
<1>2. ASSUME s # << >> PROVE Wellborn(Tail(s))
  BY <1>2, Taken DEF Wellborn
<1> QED BY <1>1, <1>2

LEMMA WellbornEmpty ==
    /\ Wellborn(<< >>)
    /\ \A m : m.type = "NGSetupRequest" => Wellborn(Append(<< >>, m))
<1>1. Wellborn(<< >>) /\ IsQueue(<< >>)
  BY EmptyQueue DEF Wellborn
<1> QED BY <1>1, WellbornQueues

(* A report that is not a registration request by a stranger.              *)
LEMMA WellbornReport ==
    ASSUME HandoverInv, TypesInv, NEW g \in Gnb, NEW ms, Report(g, ms),
           \/ ms = << >>
           \/ \E m : ms = <<m>> /\ (m.type = "RegistrationRequest" => m.ue \in UE)
           \/ \E m, n : /\ ms = <<m>> \o <<n>>
                        /\ m.type # "RegistrationRequest" /\ n.type # "RegistrationRequest"
    PROVE  \A x \in Gnb : Wellborn(up'[x])
<1>1. IsQueue(up[g]) /\ DOMAIN up = Gnb /\ Wellborn(up[g])
  BY DEF HandoverInv, ShapeInv, ShapeAt, TypesInv
<1>2. up'[g] = up[g] \o ms /\ \A x \in Gnb : x # g => up'[x] = up[x]
  BY <1>1 DEF Report
<1>3. Wellborn(up[g] \o ms)
  <2>1. CASE ms = << >>
    BY <1>1, <2>1, Reported
  <2>2. ASSUME NEW m, ms = <<m>>, m.type = "RegistrationRequest" => m.ue \in UE
        PROVE  Wellborn(up[g] \o ms)
    <3>1. up[g] \o <<m>> = Append(up[g], m)
      BY <1>1, Reported
    <3>2. Wellborn(Append(up[g], m))
      BY <1>1, <2>2, WellbornQueues
    <3> QED BY <2>2, <3>1, <3>2
  <2>3. ASSUME NEW m, NEW n, ms = <<m>> \o <<n>>, m.type # "RegistrationRequest",
               n.type # "RegistrationRequest"
        PROVE  Wellborn(up[g] \o ms)
    <3>1. up[g] \o (<<m>> \o <<n>>) = Append(Append(up[g], m), n)
      BY <1>1, Reported
    <3>2. Wellborn(Append(up[g], m)) /\ IsQueue(Append(up[g], m))
      BY <1>1, <2>3, WellbornQueues, Appended
    <3> QED BY <2>3, <3>1, <3>2, WellbornQueues
  <2> QED BY <2>1, <2>2, <2>3
<1> QED BY <1>2, <1>3 DEF TypesInv

LEMMA ReactionAnswers ==
    ASSUME NEW x, NEW m, NEW r, r = Reaction(x, m)
    PROVE  r[2] = << >> \/ \E n : n.type # "RegistrationRequest" /\ r[2] = <<n>>
<1> DEFINE Good(p) == p[2] = << >> \/ \E n : n.type # "RegistrationRequest" /\ p[2] = <<n>>
<1>1. ASSUME NEW y, NEW n, n.type # "RegistrationRequest" PROVE Good(<<y, <<n>>>>)
  BY <1>1
<1>2. \A y : Good(<<y, << >>>>)
  OBVIOUS
<1>3. /\ \A res : [type |-> "AuthenticationResponse", res |-> res].type # "RegistrationRequest"
      /\ \A auts : [type |-> "AuthenticationFailure", auts |-> auts].type # "RegistrationRequest"
      /\ \A k, c : [type |-> "SecurityModeComplete", key |-> k, count |-> c].type # "RegistrationRequest"
      /\ Uplink("UEContextReleaseRequest").type # "RegistrationRequest"
  BY DEF Uplink
<1> HIDE DEF Good
<1>4. \/ r = <<[x EXCEPT !.sqn = vectors[m.key].sqn, !.vec = m.key],
               <<[type |-> "AuthenticationResponse", res |-> m.key]>>>>
      \/ r = <<x, <<[type |-> "AuthenticationFailure",
                     auts |-> [rand |-> m.key, sqn |-> x.sqn]]>>>>
      \/ r = <<[x EXCEPT !.key = m.key, !.ul = 1, !.tmsi = 0],
               <<[type |-> "SecurityModeComplete", key |-> m.key, count |-> 0]>>>>
      \/ r = <<[x EXCEPT !.st = "accepted", !.tmsi = m.tmsi], << >>>>
      \/ r = <<[x EXCEPT !.st = "registered"], << >>>>
      \/ r = <<Idle(x), <<Uplink("UEContextReleaseRequest")>>>>
      \/ r = <<Idle([x EXCEPT !.tmsi = 0]), <<Uplink("UEContextReleaseRequest")>>>>
      \/ r = <<x, << >>>>
  BY Zenon DEF Reaction, Authenticate
<1>5. Good(r)
  BY <1>1, <1>2, <1>3, <1>4
<1> QED BY <1>5 DEF Good

(* Nothing but requests of subscribers' UEs begins a registration.         *)
LEMMA WellbornStep ==
    ASSUME HandoverInv, TypesInv, [Next]_vars
    PROVE  \A x \in Gnb : Wellborn(up'[x])
<1> USE AccessMobilityAssumption
<1>0. ASSUME up' = up PROVE \A x \in Gnb : Wellborn(up'[x])
  BY <1>0 DEF TypesInv
<1>1. ASSUME NEW g \in Gnb, HandleMessage(g) PROVE \A x \in Gnb : Wellborn(up'[x])
  <2>1. /\ up[g] # << >> /\ up'[g] = Tail(up[g]) /\ IsQueue(up[g]) /\ Wellborn(up[g])
        /\ \A x \in Gnb : x # g => up'[x] = up[x]
    BY <1>1, HandleMessageFacts, MessageTaken DEF TypesInv
  <2>2. Wellborn(up'[g])
    BY <2>1, WellbornQueues
  <2> QED BY <2>1, <2>2 DEF TypesInv
<1>2. ASSUME NEW g \in Gnb, CloseAssociation(g) \/ Relay(g) \/ TimeOut(g) \/ LoseAssociation(g)
      PROVE  up' = up
  BY <1>2 DEF CloseAssociation, association_closed, Relay, await_reply, TimeOut, await_timeout,
              LoseAssociation
<1>3. ASSUME NEW g \in Gnb, Accept(g) PROVE \A x \in Gnb : Wellborn(up'[x])
  <2> DEFINE m == [type |-> "NGSetupRequest"]
  <2>1. up'[g] = Append(<< >>, m) /\ \A x \in Gnb : x # g => up'[x] = up[x]
    BY <1>3, OneMessage DEF Accept, accept, HandoverInv, ShapeInv
  <2>2. m.type = "NGSetupRequest"
    OBVIOUS
  <2> HIDE DEF m
  <2> QED BY <2>1, <2>2, WellbornEmpty DEF TypesInv
<1>4. ASSUME NEW g \in Gnb, Deliver(g) PROVE \A x \in Gnb : Wellborn(up'[x])
  <2> DEFINE m == Head(down[g])
  <2>1. \A t : Uplink(t).type = t
    BY DEF Uplink
  <2>2. ASSUME NEW t, t # "RegistrationRequest", Report(g, <<Uplink(t)>>)
        PROVE  \A x \in Gnb : Wellborn(up'[x])
    BY <2>1, <2>2, WellbornReport
  <2>3. CASE ReceiveNas(g, m)
    <3>1. \/ up' = up \/ Report(g, <<Uplink("UEContextReleaseRequest")>>)
          \/ \E u \in UE : Report(g, Reaction([ue[u] EXCEPT !.id = m.id], m)[2])
      BY <2>3 DEF ReceiveNas
    <3>2. ASSUME NEW u \in UE, Report(g, Reaction([ue[u] EXCEPT !.id = m.id], m)[2])
          PROVE  \A x \in Gnb : Wellborn(up'[x])
      <4> DEFINE r == Reaction([ue[u] EXCEPT !.id = m.id], m)
      <4>1. r[2] = << >> \/ \E n : n.type # "RegistrationRequest" /\ r[2] = <<n>>
        BY ReactionAnswers
      <4>2. Report(g, r[2])
        BY <3>2
      <4> HIDE DEF r
      <4> QED BY <4>1, <4>2, WellbornReport
    <3> QED BY <1>0, <2>2, <3>1, <3>2
  <2>4. CASE ReceiveReleaseCommand(g, m)
    BY <1>0, <2>2, <2>4 DEF ReceiveReleaseCommand
  <2>5. CASE ReceivePathSwitch(g, m)
    BY <1>0, <2>5 DEF ReceivePathSwitch
  <2>6. CASE ReceiveHandoverRequest(g, m)
    BY <2>2, <2>6 DEF ReceiveHandoverRequest
  <2>7. CASE ReceiveHandoverOutcome(g, m)
    <3> DEFINE n == [type |-> "HandoverCancel", id |-> m.id]
    <3>1. n.type # "RegistrationRequest"
      OBVIOUS
    <3>2. up' = up \/ Report(g, <<n>>)
      BY <2>7 DEF ReceiveHandoverOutcome
    <3> HIDE DEF n
    <3> QED BY <1>0, <3>1, <3>2, WellbornReport
  <2> QED BY <1>4, <2>3, <2>4, <2>5, <2>6, <2>7 DEF Deliver
<1>5. ASSUME NEW g \in Gnb, CancelHandover(g) PROVE \A x \in Gnb : Wellborn(up'[x])
  <2> DEFINE n == [type |-> "HandoverCancel", id |-> ho[g].id]
  <2>1. n.type # "RegistrationRequest" /\ Report(g, <<n>>)
    BY <1>5 DEF CancelHandover
  <2> HIDE DEF n
  <2> QED BY <2>1, WellbornReport
<1>6. ASSUME NEW u \in UE, CompleteRegistration(u) \/ RequestPduSession(u)
      PROVE  \A x \in Gnb : Wellborn(up'[x])
  <2>1. PICK t \in {"RegistrationComplete", "PduSessionEstablishmentRequest"} :
           Report(ue[u].at, <<[type |-> t, key |-> ue[u].key, count |-> ue[u].ul]>>)
    BY <1>6 DEF CompleteRegistration, RequestPduSession, SendSecured
  <2> DEFINE n == [type |-> t, key |-> ue[u].key, count |-> ue[u].ul]
  <2>2. n.type # "RegistrationRequest" /\ Report(ue[u].at, <<n>>)
    BY <2>1
  <2> HIDE DEF n
  <2>3. ue[u].at \in Gnb
    BY <1>6 DEF CompleteRegistration, RequestPduSession, HandoverInv, UeInv, UeFits
  <2> QED BY <2>2, <2>3, WellbornReport
<1>7. ASSUME NEW u \in UE, LoseRadio(u) PROVE \A x \in Gnb : Wellborn(up'[x])
  <2> DEFINE m == [type |-> "HandoverCancel", id |-> ue[u].id]
             n == [type |-> "UEContextReleaseRequest"]
  <2>1. PICK g \in Gnb : g = ue[u].at
    BY <1>7 DEF LoseRadio, HandoverInv, UeInv, UeFits
  <2>2. \/ Report(g, << >> \o << >>) \/ Report(g, << >> \o <<n>>)
        \/ Report(g, <<m>> \o << >>) \/ Report(g, <<m>> \o <<n>>)
    BY <1>7, <2>1 DEF LoseRadio
  <2>3. /\ << >> \o << >> = << >> /\ << >> \o <<n>> = <<n>> /\ <<m>> \o << >> = <<m>>
    OBVIOUS
  <2>4. m.type # "RegistrationRequest" /\ n.type # "RegistrationRequest"
    OBVIOUS
  <2> HIDE DEF m, n
  <2>5. \/ Report(g, << >>) \/ Report(g, <<n>>) \/ Report(g, <<m>>) \/ Report(g, <<m>> \o <<n>>)
    BY <2>2, <2>3
  <2> QED BY <2>4, <2>5, WellbornReport
<1>8. ASSUME NEW u \in UE, ExecuteHandover(u) PROVE \A x \in Gnb : Wellborn(up'[x])
  <2> DEFINE n == [type |-> "HandoverNotify", id |-> ue[u].id, ran |-> rans + 1]
  <2>1. PICK g \in Gnb : g = ue[u].at /\ ho[g].stage = "commanded"
    BY <1>8 DEF ExecuteHandover, HandoverInv, UeInv, UeFits
  <2>2. ho[g].target \in Gnb
    BY <2>1, NothingIs DEF HandoverInv, ShapeInv, ShapeAt
  <2>3. n.type # "RegistrationRequest" /\ Report(ho[g].target, <<n>>)
    BY <1>8, <2>1 DEF ExecuteHandover
  <2> HIDE DEF n
  <2> QED BY <2>2, <2>3, WellbornReport
<1>9. ASSUME NEW u \in UE, NEW g \in Gnb, StartRegistration(u, g)
      PROVE  \A x \in Gnb : Wellborn(up'[x])
  <2> DEFINE n == [type |-> "RegistrationRequest", ue |-> u, ran |-> rans + 1]
  <2>1. n.ue \in UE /\ Report(g, <<n>>)
    BY <1>9 DEF StartRegistration
  <2> HIDE DEF n
  <2> QED BY <2>1, WellbornReport
<1>10. ASSUME NEW u \in UE, NEW g \in Gnb, StartService(u, g)
       PROVE  \A x \in Gnb : Wellborn(up'[x])
  <2> DEFINE n == [type |-> "ServiceRequest", tmsi |-> ue[u].tmsi, key |-> ue[u].key,
                    count |-> ue[u].ul, ran |-> rans + 1]
  <2>1. n.type # "RegistrationRequest" /\ Report(g, <<n>>)
    BY <1>10 DEF StartService
  <2> HIDE DEF n
  <2> QED BY <2>1, WellbornReport
<1>11. ASSUME NEW u \in UE, NEW g \in Gnb, SwitchPath(u, g)
       PROVE  \A x \in Gnb : Wellborn(up'[x])
  <2> DEFINE n == [type |-> "PathSwitchRequest", id |-> ue[u].id, ran |-> rans + 1]
  <2>1. n.type # "RegistrationRequest" /\ Report(g, <<n>>)
    BY <1>11 DEF SwitchPath
  <2> HIDE DEF n
  <2> QED BY <2>1, WellbornReport
<1>12. ASSUME NEW u \in UE, NEW g \in Gnb, RequireHandover(u, g)
       PROVE  \A x \in Gnb : Wellborn(up'[x])
  <2> DEFINE n == [type |-> "HandoverRequired", id |-> ue[u].id, target |-> g]
  <2>1. n.type # "RegistrationRequest" /\ Report(ue[u].at, <<n>>)
    BY <1>12 DEF RequireHandover
  <2>2. ue[u].at \in Gnb
    BY <1>12 DEF RequireHandover, HandoverInv, UeInv, UeFits
  <2> HIDE DEF n
  <2> QED BY <2>1, <2>2, WellbornReport
<1>13. ASSUME NEW u \in UE, Transfer(u) PROVE up' = up
  BY <1>13 DEF Transfer, N1N2MessageTransfer
<1>14. CASE HomeNetwork
  BY <1>0, <1>14 DEF HomeNetwork
<1>15. CASE Restart
  BY <1>15, WellbornEmpty DEF Restart, RestartAmf
<1>16. CASE UNCHANGED vars
  BY <1>0, <1>16 DEF vars, amfVars
<1> QED BY <1>0, <1>1, <1>2, <1>3, <1>4, <1>5, <1>6, <1>7, <1>8, <1>9, <1>10, <1>11, <1>12, <1>13,
           <1>14, <1>15, <1>16 DEF Next

(* Security contexts are added, or their COUNTs move on.                   *)
SecuritySame(s, t) ==
    SecurityFits(t) /\ Len(t) = Len(s) /\ \A i \in 1..Len(s) : t[i].ue = s[i].ue

LEMMA SecurityUpdated ==
    ASSUME NEW s, SecurityFits(s), NEW i \in 1..Len(s), NEW r,
           DOMAIN r = {"ue", "key", "ul", "dl"}, r.ue = s[i].ue
    PROVE  SecuritySame(s, [s EXCEPT ![i] = r])
<1> DEFINE t == [s EXCEPT ![i] = r]
<1>1. PICK M : s \in Seq(M)
  BY DEF SecurityFits, IsQueue
<1>2. s \in Seq(M \cup {r}) /\ r \in M \cup {r}
  BY <1>1, SeqMonotonic
<1>3. t \in Seq(M \cup {r}) /\ Len(t) = Len(s) /\ \A j \in 1..Len(s) : t[j] = IF j = i THEN r ELSE s[j]
  BY <1>2
<1> HIDE DEF t
<1>4. SecuritySame(s, t)
  BY <1>3 DEF SecuritySame, SecurityFits, IsQueue
<1> QED BY <1>4 DEF t

LEMMA SecurityCounts ==
    ASSUME NEW s, SecurityFits(s), NEW i \in 1..Len(s)
    PROVE  /\ SecuritySame(s, [s EXCEPT ![i].ul = @ + 1])
           /\ SecuritySame(s, [s EXCEPT ![i].ul = @ + 1, ![i].dl = @ + 1])
<1> DEFINE t == [s EXCEPT ![i].ul = @ + 1]
           v == [t EXCEPT ![i].dl = @ + 1]
<1>1. SecuritySame(s, t)
  <2> DEFINE r == [s[i] EXCEPT !.ul = @ + 1]
  <2>1. t = [s EXCEPT ![i] = r] /\ DOMAIN r = {"ue", "key", "ul", "dl"} /\ r.ue = s[i].ue
    BY DEF SecurityFits
  <2> HIDE DEF r, t
  <2> QED BY <2>1, SecurityUpdated
<1>2. i \in 1..Len(t) /\ SecurityFits(t)
  BY <1>1 DEF SecuritySame
<1>3. SecuritySame(t, v)
  <2> HIDE DEF t
  <2> DEFINE r == [t[i] EXCEPT !.dl = @ + 1]
  <2>1. v = [t EXCEPT ![i] = r] /\ DOMAIN r = {"ue", "key", "ul", "dl"} /\ r.ue = t[i].ue
    BY <1>2 DEF SecurityFits
  <2> HIDE DEF r, v
  <2> QED BY <1>2, <2>1, SecurityUpdated
<1>4. v = [s EXCEPT ![i].ul = @ + 1, ![i].dl = @ + 1]
  OBVIOUS
<1> HIDE DEF t, v
<1>5. SecuritySame(s, v)
  BY <1>1, <1>3 DEF SecuritySame
<1> QED BY <1>1, <1>4, <1>5 DEF t

(* What a handler may do to the UeAuthState and to the stores: keep the id *)
(* or forget it, take a new one, or put a context for it into the index.   *)
AuthMoves(g) ==
    /\ DOMAIN auth' = Gnb /\ \A x \in Gnb : x # g => auth'[x] = auth[x]
    /\ AuthFits(auth'[g])

KeepsId(g) ==
    /\ next_id' = next_id /\ index' = index /\ SecuritySame(security, security')
    /\ \/ auth'[g].id = 0
       \/ /\ auth'[g].id = auth[g].id
          /\ auth'[g].phase \in Early => auth[g].phase \in Early

TakesId(g) ==
    /\ next_id' = next_id + 1 /\ index' = index /\ SecuritySame(security, security')
    /\ auth'[g] = auth[g] \/ auth'[g].id = next_id

AcceptsId(g) ==
    /\ next_id' = next_id
    /\ index' = [index EXCEPT ![auth[g].id] = Len(security) + 1]
    /\ \E c : /\ security' = Append(security, c)
              /\ DOMAIN c = {"ue", "key", "ul", "dl"} /\ c.ue \in UE
    /\ auth[g].phase \in Early /\ auth'[g].id = auth[g].id /\ auth'[g].phase \notin Early

StoreMoves(g) == AuthMoves(g) /\ (KeepsId(g) \/ TakesId(g) \/ AcceptsId(g))

(* A context that the index led to stays where it was.                     *)
IndexStays ==
    disturbed' # Gnb =>
        \A i \in 1..MaxIds : index[i] # 0 =>
            index'[i] = index[i] /\ security'[index[i]].ue = security[index[i]].ue

ContextsFit(c) == DOMAIN c = UE /\ \A u \in UE : DOMAIN c[u] = {"exists", "session", "target"}

LEMMA StoresKept ==
    ASSUME StoresInv, NEW g \in Gnb, StoreMoves(g),
           disturbed \subseteq disturbed', disturbed' \subseteq Gnb, ContextsFit(ue_contexts'),
           DOMAIN prepared' = Gnb, \A x \in Gnb : Wellborn(up'[x])
    PROVE  StoresInv' /\ IndexStays
<1> USE AccessMobilityAssumption
<1>1. /\ DOMAIN auth' = Gnb /\ \A x \in Gnb : x # g => auth'[x] = auth[x]
      /\ AuthFits(auth'[g])
  BY DEF StoreMoves, AuthMoves
<1>2. /\ next_id \in Nat \ {0} /\ DOMAIN index = 1..MaxIds /\ SecurityFits(security)
      /\ \A i \in 1..MaxIds : index[i] \in 0..Len(security)
      /\ \A x \in Gnb : AuthFits(auth[x]) /\ auth[x].id \in 0..next_id - 1
      /\ \A x, y \in Gnb : auth[x].id = auth[y].id /\ auth[x].id # 0 => y = x
  BY DEF StoresInv, TypesInv, IdsInv
<1>3. disturbed' # Gnb =>
        \A i \in 1..MaxIds : index[i] # 0 =>
            i < next_id /\ \A x \in Gnb : auth[x].id = i => auth[x].phase \notin Early
  BY DEF StoresInv, IndexInv
<1>4. Len(security) \in Nat
  BY <1>2 DEF SecurityFits, IsQueue
<1>5. /\ SecurityFits(security') /\ next_id' \in Nat \ {0} /\ DOMAIN index' = 1..MaxIds
      /\ \A i \in 1..MaxIds : index'[i] \in 0..Len(security')
      /\ IndexStays
  <2>1. CASE KeepsId(g) \/ TakesId(g)
    <3>1. index' = index /\ SecuritySame(security, security')
      BY <2>1 DEF KeepsId, TakesId
    <3>2. next_id' \in Nat \ {0}
      BY <1>2, <2>1 DEF KeepsId, TakesId
    <3>3. \A i \in 1..MaxIds : index[i] # 0 => index[i] \in 1..Len(security)
      BY <1>2, <1>4
    <3> QED BY <1>2, <3>1, <3>2, <3>3 DEF SecuritySame, IndexStays
  <2>2. CASE AcceptsId(g)
    <3>1. PICK c : /\ security' = Append(security, c)
                   /\ DOMAIN c = {"ue", "key", "ul", "dl"} /\ c.ue \in UE
      BY <2>2 DEF AcceptsId
    <3>2. /\ IsQueue(security') /\ Len(security') = Len(security) + 1
          /\ \A i \in 1..Len(security) : security'[i] = security[i]
          /\ security'[Len(security) + 1] = c
      <4>1. IsQueue(security)
        BY <1>2 DEF SecurityFits
      <4> QED BY <3>1, <4>1, AppendedLast
    <3>3. SecurityFits(security')
      <4>1. \A i \in 1..Len(security') : i \in 1..Len(security) \/ i = Len(security) + 1
        BY <1>4, <3>2
      <4> QED BY <1>2, <3>1, <3>2, <4>1 DEF SecurityFits
    <3>4. /\ DOMAIN index' = 1..MaxIds
          /\ \A i \in 1..MaxIds : index'[i] = index[i] \/ index'[i] = Len(security) + 1
          /\ \A i \in 1..MaxIds : i # auth[g].id => index'[i] = index[i]
      BY <1>2, <2>2 DEF AcceptsId
    <3>5. \A i \in 1..MaxIds : index'[i] \in 0..Len(security')
      BY <1>2, <1>4, <3>2, <3>4
    <3>6. IndexStays
      <4> SUFFICES ASSUME disturbed' # Gnb, NEW i \in 1..MaxIds, index[i] # 0
                   PROVE  index'[i] = index[i] /\ security'[index[i]].ue = security[index[i]].ue
        BY DEF IndexStays
      <4>1. i # auth[g].id
        BY <1>3, <2>2 DEF AcceptsId
      <4>2. index[i] \in 1..Len(security)
        BY <1>2, <1>4
      <4> QED BY <3>2, <3>4, <4>1, <4>2
    <3>7. next_id' \in Nat \ {0}
      BY <1>2, <2>2 DEF AcceptsId
    <3> QED BY <3>3, <3>4, <3>5, <3>6, <3>7
  <2> QED BY <2>1, <2>2 DEF StoreMoves
<1>6. TypesInv'
  BY <1>1, <1>2, <1>5 DEF StoresInv, TypesInv, ContextsFit
<1>7. /\ auth'[g].id = 0 \/ auth'[g].id = auth[g].id \/ auth'[g].id = next_id
      /\ next_id' = next_id \/ next_id' = next_id + 1
      /\ auth'[g].id = next_id /\ auth[g].id # next_id => next_id' = next_id + 1
  BY <1>2 DEF StoreMoves, KeepsId, TakesId, AcceptsId
<1>8. IdsInv'
  <2>1. \A x \in Gnb : auth'[x].id \in 0..next_id' - 1
    BY <1>1, <1>2, <1>7
  <2>2. ASSUME NEW x \in Gnb, NEW y \in Gnb, auth'[x].id = auth'[y].id, auth'[x].id # 0
        PROVE  y = x
    BY <1>1, <1>2, <1>7, <2>2
  <2> QED BY <2>1, <2>2 DEF IdsInv
<1>9. IndexInv'
  <2> SUFFICES ASSUME disturbed' # Gnb, NEW i \in 1..MaxIds, index'[i] # 0
               PROVE  i < next_id' /\ \A x \in Gnb : auth'[x].id = i => auth'[x].phase \notin Early
    BY DEF IndexInv
  <2>1. CASE KeepsId(g)
    <3>1. i < next_id /\ \A x \in Gnb : auth[x].id = i => auth[x].phase \notin Early
      BY <1>3, <2>1 DEF KeepsId
    <3> QED BY <1>1, <2>1, <3>1 DEF KeepsId
  <2>2. CASE TakesId(g)
    <3>1. i < next_id /\ \A x \in Gnb : auth[x].id = i => auth[x].phase \notin Early
      BY <1>3, <2>2 DEF TakesId
    <3>2. i # next_id /\ i < next_id'
      BY <1>2, <2>2, <3>1 DEF TakesId
    <3> QED BY <1>1, <2>2, <3>1, <3>2 DEF TakesId
  <2>3. CASE AcceptsId(g)
    <3>1. CASE i = auth[g].id
      <4>1. \A x \in Gnb : auth[x].id = i => x = g
        BY <1>2, <3>1
      <4>2. i < next_id
        BY <1>2, <3>1
      <4> QED BY <1>1, <2>3, <3>1, <4>1, <4>2 DEF AcceptsId
    <3>2. CASE i # auth[g].id
      <4>1. index[i] # 0
        BY <1>2, <2>3, <3>2 DEF AcceptsId
      <4> QED BY <1>1, <1>3, <2>3, <3>2, <4>1 DEF AcceptsId
    <3> QED BY <3>1, <3>2
  <2> QED BY <2>1, <2>2, <2>3 DEF StoreMoves
<1> QED BY <1>5, <1>6, <1>8, <1>9 DEF StoresInv

(* What the handlers of messages do to the stores.                         *)
StoresMove(g) == StoreMoves(g) /\ ContextsFit(ue_contexts')

LEMMA StoresAre ==
    ASSUME StoresInv
    PROVE  /\ DOMAIN auth = Gnb /\ \A g \in Gnb : AuthFits(auth[g])
           /\ SecuritySame(security, security) /\ ContextsFit(ue_contexts)
BY DEF StoresInv, TypesInv, SecuritySame, ContextsFit

(* The UeAuthState of g becomes a; no id is given out.                     *)
LEMMA AuthBecomes ==
    ASSUME StoresInv, NEW g \in Gnb, NEW a, AuthFits(a), auth' = [auth EXCEPT ![g] = a],
           next_id' = next_id, index' = index, SecuritySame(security, security'),
           \/ a.id = 0
           \/ a.id = auth[g].id /\ (a.phase \in Early => auth[g].phase \in Early)
    PROVE  StoreMoves(g)
<1>1. DOMAIN auth' = Gnb /\ auth'[g] = a /\ \A x \in Gnb : x # g => auth'[x] = auth[x]
  BY StoresAre
<1> QED BY <1>1 DEF StoreMoves, AuthMoves, KeepsId

LEMMA AuthStays ==
    ASSUME StoresInv, NEW g \in Gnb, UNCHANGED <<auth, next_id, security, index>>
    PROVE  StoreMoves(g)
BY StoresAre DEF StoreMoves, AuthMoves, KeepsId

LEMMA ContextsUpdated ==
    ASSUME NEW c, ContextsFit(c), NEW u
    PROVE  /\ \A t : ContextsFit([c EXCEPT ![u].target = t])
           /\ \A x, y : ContextsFit([c EXCEPT ![u].exists = x, ![u].session = y])
           /\ \A x : ContextsFit([c EXCEPT ![u] = [NoUeContext EXCEPT !.exists = x]])
<1>1. DOMAIN c = UE /\ \A v \in UE : DOMAIN c[v] = {"exists", "session", "target"}
  BY DEF ContextsFit
<1>2. ASSUME NEW t PROVE ContextsFit([c EXCEPT ![u].target = t])
  BY <1>1 DEF ContextsFit
<1>3. ASSUME NEW x, NEW y PROVE ContextsFit([c EXCEPT ![u].exists = x, ![u].session = y])
  BY <1>1 DEF ContextsFit
<1>4. ASSUME NEW x PROVE ContextsFit([c EXCEPT ![u] = [NoUeContext EXCEPT !.exists = x]])
  BY <1>1 DEF ContextsFit, NoUeContext
<1> QED BY <1>2, <1>3, <1>4

LEMMA AuthUpdated ==
    ASSUME NEW a, AuthFits(a), a.supi \in UE
    PROVE  /\ AuthFits([a EXCEPT !.sqn_resync_attempted = TRUE])
           /\ \A c, r : AuthFits([a EXCEPT !.confirmation = c, !.rand = r])
           /\ \A k, p : AuthFits([a EXCEPT !.key = k, !.phase = p])
           /\ \A p : AuthFits([a EXCEPT !.phase = p])
<1>1. DOMAIN a = {"supi", "confirmation", "id", "ran", "key", "rand", "sqn_resync_attempted",
                  "phase"}
  BY DEF AuthFits
<1> QED BY <1>1 DEF AuthFits

LEMMA RegistrationStores ==
    ASSUME NEW g \in Gnb, DOMAIN auth = Gnb, NEW a, AuthFits(a), a.supi \in UE,
           NEW resync, NEW answer, initiate_5g_aka_authentication(g, a, resync, answer)
    PROVE  \E b : /\ auth' = [auth EXCEPT ![g] = b] /\ AuthFits(b)
                  /\ b.id = a.id /\ b.phase = a.phase
<1>1. PICK b : /\ auth' = [auth EXCEPT ![g] = b]
               /\ b = a \/ \E c, r : b = [a EXCEPT !.confirmation = c, !.rand = r]
  BY DEF initiate_5g_aka_authentication
<1>2. CASE b = a
  BY <1>1, <1>2
<1>3. CASE b # a
  <2>1. PICK c, r : b = [a EXCEPT !.confirmation = c, !.rand = r]
    BY <1>1, <1>3
  <2>2. b.id = a.id /\ b.phase = a.phase
    BY <2>1 DEF AuthFits
  <2>3. AuthFits(b)
    BY <2>1, AuthUpdated
  <2> QED BY <1>1, <2>2, <2>3
<1> QED BY <1>2, <1>3

LEMMA AuthenticationStores ==
    ASSUME StoresInv, NEW g \in Gnb, NEW m, NEW answer, Expected(g, m),
           handle_uplink_nas_transport(g, m, answer)
    PROVE  StoresMove(g)
<1> DEFINE a == auth[g]
<1>1. AuthFits(a) /\ DOMAIN auth = Gnb /\ SecuritySame(security, security) /\ ContextsFit(ue_contexts)
  BY StoresAre
<1>2. a.phase = "AwaitingAuthenticationResponse"
  BY DEF Expected, handle_uplink_nas_transport
<1>3. a.phase \in Early /\ "AwaitingSecurityModeComplete" \in Early
  BY <1>2 DEF Early
<1>4. CASE handle_authentication_failure(g, m, answer)
  <2>1. UNCHANGED <<next_id, security, index, ue_contexts>>
    BY <1>4 DEF handle_authentication_failure
  <2>2. CASE UNCHANGED auth
    BY <1>1, <2>1, <2>2, AuthStays DEF StoresMove
  <2>3. CASE ~UNCHANGED auth
    <3> DEFINE b == [a EXCEPT !.sqn_resync_attempted = TRUE]
    <3>1. /\ a.rand # 0
          /\ initiate_5g_aka_authentication(g, b, [rand |-> auth[g].rand, auts |-> m.auts], answer)
      BY <1>4, <2>3 DEF handle_authentication_failure
    <3>2. a.supi \in UE
      BY <1>1, <3>1 DEF AuthFits
    <3>3. AuthFits(b) /\ b.supi \in UE /\ b.id = a.id /\ b.phase = a.phase
      BY <1>1, <3>2, AuthUpdated DEF AuthFits
    <3> HIDE DEF b
    <3>4. PICK c : auth' = [auth EXCEPT ![g] = c] /\ AuthFits(c) /\ c.id = a.id /\ c.phase = a.phase
      BY <1>1, <3>1, <3>3, RegistrationStores
    <3> QED BY <1>1, <1>3, <2>1, <3>4, AuthBecomes DEF StoresMove
  <2> QED BY <2>2, <2>3
<1>5. CASE handle_authentication_response(g, m, answer)
  <2>1. UNCHANGED <<next_id, security, index, ue_contexts>>
    BY <1>5 DEF handle_authentication_response
  <2>2. CASE UNCHANGED auth
    BY <1>1, <2>1, <2>2, AuthStays DEF StoresMove
  <2>3. CASE ~UNCHANGED auth
    <3>1. PICK k : /\ a.confirmation # 0
                   /\ auth' = [auth EXCEPT ![g].key = k, ![g].phase = "AwaitingSecurityModeComplete"]
      BY <1>5, <2>3 DEF handle_authentication_response
    <3>2. a.supi \in UE
      BY <1>1, <3>1 DEF AuthFits
    <3> DEFINE b == [a EXCEPT !.key = k, !.phase = "AwaitingSecurityModeComplete"]
    <3>3. AuthFits(b) /\ b.id = a.id
      BY <1>1, <3>2, AuthUpdated DEF AuthFits
    <3>4. auth' = [auth EXCEPT ![g] = b]
      BY <1>1, <3>1
    <3> HIDE DEF b
    <3> QED BY <1>1, <1>3, <2>1, <3>3, <3>4, AuthBecomes DEF StoresMove
  <2> QED BY <2>2, <2>3
<1> QED BY <1>4, <1>5 DEF handle_uplink_nas_transport

LEMMA SecurityModeStores ==
    ASSUME StoresInv, NEW g \in Gnb, NEW m, NEW answer, Expected(g, m),
           handle_uplink_nas_transport_smc_complete(g, m, answer)
    PROVE  StoresMove(g)
<1> DEFINE a == auth[g]
<1>1. AuthFits(a) /\ DOMAIN auth = Gnb /\ ContextsFit(ue_contexts) /\ ContextsFit(ue_contexts')
  BY StoresAre DEF handle_uplink_nas_transport_smc_complete
<1>2. a.phase = "AwaitingSecurityModeComplete"
  BY DEF Expected, handle_uplink_nas_transport_smc_complete
<1>3. a.phase \in Early /\ "AwaitingRegistrationComplete" \notin Early /\ a.supi \in UE
  BY <1>1, <1>2 DEF Early, AuthFits
<1>4. CASE answer = "refused"
  BY <1>1, <1>4, AuthStays DEF StoresMove, handle_uplink_nas_transport_smc_complete
<1>5. CASE answer # "refused"
  <2> DEFINE b == [a EXCEPT !.phase = "AwaitingRegistrationComplete"]
             c == [ue |-> a.supi, key |-> a.key, ul |-> 1, dl |-> 2]
  <2>1. AuthFits(b) /\ b.id = a.id /\ b.phase = "AwaitingRegistrationComplete"
    BY <1>1, <1>3, AuthUpdated DEF AuthFits
  <2>2. /\ auth' = [auth EXCEPT ![g] = b] /\ next_id' = next_id
        /\ security' = Append(security, c)
        /\ index' = [index EXCEPT ![auth[g].id] = Len(security) + 1]
    BY <1>1, <1>5 DEF handle_uplink_nas_transport_smc_complete
  <2>3. DOMAIN c = {"ue", "key", "ul", "dl"} /\ c.ue \in UE
    BY <1>3
  <2> HIDE DEF b, c
  <2>4. auth'[g] = b /\ DOMAIN auth' = Gnb /\ \A x \in Gnb : x # g => auth'[x] = auth[x]
    BY <1>1, <2>2
  <2>5. AcceptsId(g)
    BY <1>3, <2>1, <2>2, <2>3, <2>4 DEF AcceptsId
  <2> QED BY <1>1, <2>1, <2>4, <2>5 DEF StoresMove, StoreMoves, AuthMoves
<1> QED BY <1>4, <1>5

LEMMA UplinkNasStores ==
    ASSUME StoresInv, NEW g \in Gnb, NEW m, NEW answer, uplink_nas_by_phase(g, m, answer)
    PROVE  StoresMove(g)
<1> DEFINE a == auth[g]
<1>1. AuthFits(a) /\ DOMAIN auth = Gnb /\ SecuritySame(security, security) /\ ContextsFit(ue_contexts)
  BY StoresAre
<1>2. CASE UNCHANGED <<auth, next_id, security, index, ue_contexts>>
  BY <1>1, <1>2, AuthStays DEF StoresMove
<1>3. CASE Expected(g, m) /\ handle_uplink_nas_transport_registration_complete(g, m, answer)
  <2>1. a.supi \in UE
    BY <1>1, <1>3 DEF AuthFits, Expected, handle_uplink_nas_transport_registration_complete
  <2> DEFINE b == [a EXCEPT !.phase = "AwaitingPduSessionEstablishmentRequest"]
  <2>2. AuthFits(b) /\ b.id = a.id /\ b.phase \notin Early
    BY <1>1, <2>1, AuthUpdated DEF AuthFits, Early
  <2>3. auth' = [auth EXCEPT ![g] = b] /\ UNCHANGED <<next_id, security, index>>
    BY <1>1, <1>3 DEF handle_uplink_nas_transport_registration_complete
  <2>4. ContextsFit(ue_contexts')
    BY <1>1, <1>3, ContextsUpdated DEF handle_uplink_nas_transport_registration_complete
  <2> HIDE DEF b
  <2> QED BY <1>1, <2>2, <2>3, <2>4, AuthBecomes DEF StoresMove
<1>4. CASE Expected(g, m) /\ handle_uplink_nas_transport_pdu_session_establishment(g, m, answer)
  <2>1. a.supi \in UE
    BY <1>1, <1>4 DEF AuthFits, Expected, handle_uplink_nas_transport_pdu_session_establishment
  <2> DEFINE b == [a EXCEPT !.phase = "Done"]
  <2>2. AuthFits(b) /\ b.id = a.id /\ b.phase \notin Early
    BY <1>1, <2>1, AuthUpdated DEF AuthFits, Early
  <2>3. auth' = [auth EXCEPT ![g] = b] /\ UNCHANGED <<next_id, security, index>>
    BY <1>1, <1>4 DEF handle_uplink_nas_transport_pdu_session_establishment
  <2>4. ContextsFit(ue_contexts')
    BY <1>1, <1>4, ContextsUpdated DEF handle_uplink_nas_transport_pdu_session_establishment
  <2> HIDE DEF b
  <2> QED BY <1>1, <2>2, <2>3, <2>4, AuthBecomes DEF StoresMove
<1> QED BY <1>2, <1>3, <1>4, AuthenticationStores, SecurityModeStores DEF uplink_nas_by_phase

LEMMA HandlerStores ==
    ASSUME HandoverInv, StoresInv, NEW g \in Gnb, HandleMessage(g)
    PROVE  StoresMove(g)
<1> DEFINE m == Head(up[g])
           a == auth[g]
<1>1. AuthFits(a) /\ DOMAIN auth = Gnb /\ SecuritySame(security, security) /\ ContextsFit(ue_contexts)
  BY StoresAre
<1>2. PICK answer \in Answers : handle_association(g, answer)
  BY DEF HandleMessage
<1>3. CASE /\ UNCHANGED <<auth, next_id, security, index>>
           /\ ue_contexts' = ue_contexts \/ \E u, t : ue_contexts' = [ue_contexts EXCEPT ![u].target = t]
  BY <1>1, <1>3, AuthStays, ContextsUpdated DEF StoresMove
<1>4. CASE handle_ue_context_release_complete(g, m, answer)
  <2>1. AuthFits(UeAuthState) /\ UeAuthState.id = 0
    BY DEF AuthFits, UeAuthState
  <2> QED BY <1>1, <1>4, <2>1, AuthBecomes DEF StoresMove, handle_ue_context_release_complete
<1>5. CASE handle_initial_ue_message(g, m, answer)
  <2>1. m \in Messages(up[g]) /\ Wellborn(up[g]) /\ m.type = "RegistrationRequest"
    BY <1>5, MessageTaken DEF StoresInv, TypesInv, handle_initial_ue_message
  <2>2. m.ue \in UE
    BY <2>1 DEF Wellborn
  <2> DEFINE b == [a EXCEPT !.supi = m.ue, !.id = next_id, !.ran = m.ran]
  <2>3. AuthFits(b) /\ b.supi \in UE /\ b.id = next_id
    BY <1>1, <2>2 DEF AuthFits
  <2>4. /\ next_id' = next_id + 1 /\ initiate_5g_aka_authentication(g, b, NoResync, answer)
        /\ UNCHANGED <<security, index, ue_contexts>>
    BY <1>5 DEF handle_initial_ue_message
  <2> HIDE DEF b
  <2>5. PICK c : auth' = [auth EXCEPT ![g] = c] /\ AuthFits(c) /\ c.id = next_id
    BY <1>1, <2>3, <2>4, RegistrationStores
  <2>6. DOMAIN auth' = Gnb /\ auth'[g] = c /\ \A x \in Gnb : x # g => auth'[x] = auth[x]
    BY <1>1, <2>5
  <2> QED BY <1>1, <2>4, <2>5, <2>6 DEF StoresMove, StoreMoves, AuthMoves, TakesId
<1>6. CASE handle_service_request(g, m, answer)
  <2>1. /\ next_id' = next_id + 1 /\ UNCHANGED <<index, ue_contexts>>
    BY <1>6 DEF handle_service_request
  <2>2. /\ DOMAIN auth' = Gnb /\ \A x \in Gnb : x # g => auth'[x] = auth[x]
        /\ AuthFits(auth'[g]) /\ (auth'[g] = auth[g] \/ auth'[g].id = next_id)
        /\ SecuritySame(security, security')
    <3>1. CASE m.tmsi \notin 1..Len(security)
      BY <1>1, <1>6, <3>1 DEF handle_service_request
    <3>2. CASE m.tmsi \in 1..Len(security)
      <4>1. SecurityFits(security) /\ security[m.tmsi].ue \in UE
        BY <1>1, <3>2 DEF SecuritySame, SecurityFits
      <4>2. /\ SecuritySame(security, [security EXCEPT ![m.tmsi].ul = @ + 1])
            /\ SecuritySame(security, [security EXCEPT ![m.tmsi].ul = @ + 1, ![m.tmsi].dl = @ + 1])
        BY <3>2, <4>1, SecurityCounts
      <4> DEFINE c == security[m.tmsi]
                 b == [a EXCEPT !.id = next_id, !.ran = m.ran, !.supi = c.ue, !.key = c.key,
                                !.phase = "Done"]
      <4>3. CASE m.key = c.key /\ m.count = c.ul
        <5>1. /\ auth' = [auth EXCEPT ![g].id = next_id, ![g].ran = m.ran, ![g].supi = c.ue,
                                      ![g].key = c.key, ![g].phase = "Done"]
              /\ security' = [security EXCEPT ![m.tmsi].ul = @ + 1, ![m.tmsi].dl = @ + 1]
          BY <1>6, <3>2, <4>3 DEF handle_service_request
        <5>2. auth' = [auth EXCEPT ![g] = b]
          BY <1>1, <5>1
        <5>3. AuthFits(b) /\ b.id = next_id
          BY <1>1, <4>1 DEF AuthFits
        <5> HIDE DEF b
        <5> QED BY <1>1, <4>2, <5>1, <5>2, <5>3
      <4>4. CASE ~(m.key = c.key /\ m.count = c.ul)
        <5>1. /\ auth' = auth
              /\ security' = [security EXCEPT ![m.tmsi].ul = @ + 1]
          BY <1>6, <3>2, <4>4 DEF handle_service_request
        <5> QED BY <1>1, <4>2, <5>1
      <4> QED BY <4>3, <4>4
    <3> QED BY <3>1, <3>2
  <2> QED BY <1>1, <2>1, <2>2 DEF StoresMove, StoreMoves, AuthMoves, TakesId
<1>7. CASE uplink_nas_by_phase(g, m, answer)
  BY <1>7, UplinkNasStores
<1>8. CASE handle_handover_required(g, m, answer)
  <2>1. /\ UNCHANGED <<auth, next_id, security, index>>
        /\ \/ ue_contexts' = ue_contexts
           \/ ue_contexts' = [ue_contexts EXCEPT ![security[cold_lookup(m.id)].ue].target = m.target]
    BY <1>8 DEF handle_handover_required
  <2> QED BY <1>3, <2>1
<1>9. CASE \/ handle_ng_setup_request(g, m, answer)
           \/ deliver_reply_if_pending(g, m, answer)
           \/ handle_handover_cancel(g, m, answer)
           \/ handle_handover_notify(g, m, answer)
           \/ handle_ue_context_release_request(g, m, answer)
           \/ handle_path_switch_request(g, m, answer)
  <2>1. UNCHANGED <<auth, next_id, security, index, ue_contexts>>
    BY <1>9 DEF handle_ng_setup_request, deliver_reply_if_pending, handle_handover_cancel,
                handle_handover_notify, handle_ue_context_release_request,
                handle_path_switch_request
  <2> QED BY <1>3, <2>1
<1> QED BY <1>2, <1>4, <1>5, <1>6, <1>7, <1>8, <1>9 DEF handle_association

(* What the other steps leave of them.                                     *)
StoresRest == UNCHANGED <<auth, next_id, security, index, ue_contexts, named>>

LEMMA OtherSteps ==
    ASSUME HandoverInv, TypesInv, [Next]_vars
    PROVE  /\ DOMAIN prepared' = Gnb
           /\ \/ \E g \in Gnb : HandleMessage(g)
              \/ \E g \in Gnb : CloseAssociation(g)
              \/ Restart
              \/ StoresRest
<1> USE DEF StoresRest
<1>0. DOMAIN prepared = Gnb
  BY DEF TypesInv
<1>1. ASSUME NEW g \in Gnb, HandleMessage(g) \/ CloseAssociation(g) PROVE prepared' = prepared
  BY <1>1 DEF HandleMessage, CloseAssociation, ranVars
<1>2. ASSUME NEW g \in Gnb, Accept(g) PROVE prepared' = prepared /\ StoresRest
  BY <1>2 DEF Accept, accept, ranVars
<1>3. ASSUME NEW g \in Gnb, Relay(g) PROVE prepared' = prepared /\ StoresRest
  BY <1>3 DEF Relay, await_reply, ranVars
<1>4. ASSUME NEW g \in Gnb, TimeOut(g) PROVE prepared' = prepared /\ StoresRest
  BY <1>4 DEF TimeOut, await_timeout, ranVars
<1>5. ASSUME NEW g \in Gnb, Deliver(g) PROVE DOMAIN prepared' = Gnb /\ StoresRest
  <2>1. StoresRest
    BY <1>5 DEF Deliver, coreVars
  <2>2. DOMAIN prepared' = Gnb
    BY <1>0, <1>5 DEF Deliver, ReceiveNas, ReceiveReleaseCommand, ReceivePathSwitch,
                      ReceiveHandoverRequest, ReceiveHandoverOutcome
  <2> QED BY <2>1, <2>2
<1>6. ASSUME NEW g \in Gnb, CancelHandover(g) PROVE prepared' = prepared /\ StoresRest
  BY <1>6 DEF CancelHandover, coreVars
<1>7. ASSUME NEW g \in Gnb, LoseAssociation(g) PROVE DOMAIN prepared' = Gnb /\ StoresRest
  BY <1>0, <1>7 DEF LoseAssociation
<1>8. ASSUME NEW u \in UE, CompleteRegistration(u) \/ RequestPduSession(u)
      PROVE  prepared' = prepared /\ StoresRest
  BY <1>8 DEF CompleteRegistration, RequestPduSession, SendSecured, coreVars
<1>9. ASSUME NEW u \in UE, LoseRadio(u) PROVE prepared' = prepared /\ StoresRest
  BY <1>9 DEF LoseRadio, coreVars
<1>10. ASSUME NEW u \in UE, ExecuteHandover(u) PROVE DOMAIN prepared' = Gnb /\ StoresRest
  BY <1>0, <1>10 DEF ExecuteHandover, coreVars
<1>11. ASSUME NEW u \in UE, Transfer(u) PROVE prepared' = prepared /\ StoresRest
  BY <1>11 DEF Transfer, N1N2MessageTransfer, ranVars
<1>12. ASSUME NEW u \in UE, NEW g \in Gnb, StartRegistration(u, g)
       PROVE  prepared' = prepared /\ StoresRest
  BY <1>12 DEF StartRegistration, coreVars
<1>13. ASSUME NEW u \in UE, NEW g \in Gnb, StartService(u, g)
       PROVE  prepared' = prepared /\ StoresRest
  BY <1>13 DEF StartService, coreVars
<1>14. ASSUME NEW u \in UE, NEW g \in Gnb, SwitchPath(u, g)
       PROVE  prepared' = prepared /\ StoresRest
  BY <1>14 DEF SwitchPath, coreVars
<1>15. ASSUME NEW u \in UE, NEW g \in Gnb, RequireHandover(u, g)
       PROVE  prepared' = prepared /\ StoresRest
  BY <1>15 DEF RequireHandover, coreVars
<1>16. CASE HomeNetwork
  BY <1>0, <1>16 DEF HomeNetwork
<1>17. CASE Restart
  BY <1>17 DEF Restart
<1>18. CASE UNCHANGED vars
  BY <1>0, <1>18 DEF vars, amfVars, ranVars
<1> QED BY <1>0, <1>1, <1>2, <1>3, <1>4, <1>5, <1>6, <1>7, <1>8, <1>9, <1>10, <1>11, <1>12, <1>13,
           <1>14, <1>15, <1>16, <1>17, <1>18 DEF Next

LEMMA DisturbedGrows ==
    ASSUME HandoverInv, [Next]_vars
    PROVE  disturbed \subseteq disturbed' /\ disturbed' \subseteq Gnb
<1>1. disturbed' \subseteq Gnb
  BY HandoverStep DEF HandoverInv, ShapeInv
<1>2. disturbed \subseteq disturbed'
  <2>1. disturbed \subseteq Gnb
    BY DEF HandoverInv, ShapeInv
  <2>2. CASE Restart
    BY <2>1, <2>2 DEF Restart
  <2>3. CASE ~Restart
    <3>1. [Next]_vars => disturbed \subseteq disturbed'
      BY <2>3 DEF Next, HandleMessage, CloseAssociation, Accept, Relay, TimeOut, Deliver,
             CancelHandover, LoseAssociation, CompleteRegistration, RequestPduSession, SendSecured,
             LoseRadio, ExecuteHandover, Transfer, StartRegistration, StartService, SwitchPath,
             RequireHandover, HomeNetwork, vars
    <3> QED BY <3>1
  <2> QED BY <2>2, <2>3
<1> QED BY <1>1, <1>2

LEMMA StoresInit == Init => StoresInv
<1> SUFFICES ASSUME Init PROVE StoresInv
  OBVIOUS
<1> USE AccessMobilityAssumption
<1>1. /\ auth = [g \in Gnb |-> UeAuthState] /\ next_id = 1 /\ security = << >>
      /\ index = [i \in 1..MaxIds |-> 0] /\ ue_contexts = [u \in UE |-> NoUeContext]
      /\ prepared = [g \in Gnb |-> {}]
  BY DEF Init, AmfInit
<1>2. AuthFits(UeAuthState) /\ UeAuthState.id = 0
  BY DEF AuthFits, UeAuthState
<1>3. ASSUME NEW g \in Gnb PROVE Wellborn(up[g])
  <2> DEFINE m == [type |-> "NGSetupRequest"]
  <2>1. up[g] = Append(<< >>, m)
    BY OneMessage DEF Init, AmfInit
  <2>2. m.type = "NGSetupRequest"
    OBVIOUS
  <2> HIDE DEF m
  <2> QED BY <2>1, <2>2, WellbornEmpty
<1>4. SecurityFits(security) /\ Len(security) = 0
  <2>1. IsQueue(<< >>) /\ Len(<< >>) = 0
    BY EmptyQueue, EmptySeq
  <2> QED BY <1>1, <2>1 DEF SecurityFits
<1>5. TypesInv
  BY <1>1, <1>2, <1>3, <1>4 DEF TypesInv, NoUeContext
<1>6. IdsInv /\ IndexInv
  BY <1>1, <1>2 DEF IdsInv, IndexInv
<1> QED BY <1>5, <1>6 DEF StoresInv

LEMMA StoresStep ==
    ASSUME HandoverInv, StoresInv, [Next]_vars
    PROVE  StoresInv' /\ IndexStays
<1> USE AccessMobilityAssumption
<1>1. /\ disturbed \subseteq disturbed' /\ disturbed' \subseteq Gnb
      /\ DOMAIN prepared' = Gnb /\ \A x \in Gnb : Wellborn(up'[x])
  BY DisturbedGrows, OtherSteps, WellbornStep DEF StoresInv
<1>2. ASSUME NEW g \in Gnb, HandleMessage(g) PROVE StoresInv' /\ IndexStays
  BY <1>1, <1>2, HandlerStores, StoresKept DEF StoresMove
<1>3. ASSUME NEW g \in Gnb, CloseAssociation(g) PROVE StoresInv' /\ IndexStays
  <2>1. AuthFits(UeAuthState) /\ UeAuthState.id = 0
    BY DEF AuthFits, UeAuthState
  <2>2. /\ auth' = [auth EXCEPT ![g] = UeAuthState]
        /\ next_id' = next_id /\ index' = index /\ security' = security
        /\ ue_contexts' = ue_contexts
    BY <1>3 DEF CloseAssociation, association_closed
  <2>3. StoreMoves(g) /\ ContextsFit(ue_contexts')
    BY <2>1, <2>2, StoresAre, AuthBecomes
  <2> QED BY <1>1, <2>3, StoresKept
<1>4. CASE StoresRest
  <2>1. TypesInv'
    BY <1>1, <1>4 DEF StoresInv, TypesInv, StoresRest
  <2>2. IdsInv' /\ IndexInv' /\ IndexStays
    BY <1>1, <1>4 DEF StoresInv, IdsInv, IndexInv, IndexStays, StoresRest, HandoverInv, ShapeInv
  <2> QED BY <2>1, <2>2 DEF StoresInv
<1>5. CASE Restart
  <2>1. /\ auth' = [g \in Gnb |-> UeAuthState] /\ next_id' = 1 /\ security' = security
        /\ index' = index /\ ue_contexts' = [u \in UE |-> NoUeContext]
        /\ disturbed' = Gnb
    BY <1>5 DEF Restart, RestartAmf
  <2>2. AuthFits(UeAuthState) /\ UeAuthState.id = 0
    BY DEF AuthFits, UeAuthState
  <2>3. TypesInv'
    BY <1>1, <2>1, <2>2 DEF StoresInv, TypesInv, NoUeContext
  <2>4. IdsInv' /\ IndexInv' /\ IndexStays
    BY <2>1, <2>2 DEF IdsInv, IndexInv, IndexStays
  <2> QED BY <2>3, <2>4 DEF StoresInv
<1> QED BY <1>2, <1>3, <1>4, <1>5, OtherSteps DEF StoresInv

(* A target that is not disturbed stays named, and the way to it stays.    *)
LEMMA TargetsStand ==
    ASSUME HandoverInv, StoresInv, [Next]_vars, NEW h \in Gnb \ disturbed'
    PROVE  /\ h \in named => h \in named'
           /\ \A id : Leads(id, h) => Leads(id, h)'
<1> USE AccessMobilityAssumption
<1>1. IndexStays /\ h \notin disturbed /\ TargetAt(h) /\ disturbed' # Gnb /\ StoresInv'
  BY StoresStep, DisturbedGrows DEF HandoverInv
<1>2. ~Restart
  BY DEF Restart
<1>3. h \in named => h \in named'
  <2>1. ASSUME NEW g \in Gnb, HandleMessage(g) PROVE named \subseteq named'
    BY <2>1 DEF HandleMessage, handle_association, handle_ng_setup_request
  <2>2. ASSUME NEW g \in Gnb, CloseAssociation(g) PROVE h \in named => h \in named'
    BY <1>1, <2>2 DEF CloseAssociation, association_closed, TargetAt
  <2> QED BY <1>2, <2>1, <2>2, OtherSteps DEF StoresInv, StoresRest
<1>4. ASSUME NEW u \in UE, ue_contexts[u].target = h PROVE ue_contexts'[u].target = h
  <2>1. ASSUME NEW g \in Gnb, HandleMessage(g) PROVE ue_contexts'[u].target = h
    BY <1>4, <2>1 DEF HandleMessage
  <2>2. CASE ue_contexts' = ue_contexts
    BY <1>4, <2>2
  <2> QED BY <1>2, <2>1, <2>2, OtherSteps
          DEF StoresInv, StoresRest, CloseAssociation, association_closed
<1>5. ASSUME NEW id, Leads(id, h) PROVE Leads(id, h)'
  <2>1. id \in 1..MaxIds /\ index[id] # 0 /\ index[id] \in 1..Len(security)
    BY <1>5 DEF Leads, StoresInv, TypesInv, SecurityFits, IsQueue
  <2>2. index'[id] = index[id] /\ security'[index[id]].ue = security[index[id]].ue
    BY <1>1, <2>1 DEF IndexStays
  <2>3. security[index[id]].ue \in UE
    BY <2>1 DEF StoresInv, TypesInv, SecurityFits
  <2> QED BY <1>4, <1>5, <2>1, <2>2, <2>3 DEF Leads
<1> QED BY <1>3, <1>5

(***************************************************************************)
(* What a step may do to handovers so that ReturnInv stays: the sources it *)
(* leaves under way were before, and what a target still holds was there   *)
(* already, held by the same sources, or is held now.                      *)
(***************************************************************************)
Goes(g) ==
    (link'[g] /\ ho'[g].target \in Gnb \ disturbed' /\ UnderWay(g)')
    => link[g] /\ UnderWay(g) /\ ho'[g].id = ho[g].id /\ ho'[g].target = ho[g].target

Told(h, id) == ReleaseCommand(id) \in Messages(down[h])

Remains(h) ==
    \A id \in prepared'[h] :
        \/ /\ id \in prepared[h] /\ (Told(h, id) => Told(h, id)')
           /\ \A g \in Gnb : HeldBy(g, h, id) => HeldBy(g, h, id)' \/ Told(h, id)'
        \/ \E g \in Gnb : HeldBy(g, h, id)'

Onward ==
    /\ \A g \in Gnb : Goes(g) \/ PathAt(g)'
    /\ \A h \in Gnb \ disturbed' : Remains(h)

LEMMA OnwardKeeps ==
    ASSUME HandoverInv, StoresInv, ReturnInv, [Next]_vars, Onward
    PROVE  ReturnInv'
<1>1. disturbed \subseteq disturbed'
  BY DisturbedGrows
<1>2. ASSUME NEW g \in Gnb, Goes(g) PROVE PathAt(g)'
  <2> SUFFICES ASSUME link'[g], ho'[g].target \in Gnb \ disturbed', UnderWay(g)'
               PROVE  ho'[g].target \in named' /\ Leads(ho[g].id, ho[g].target)'
    BY DEF PathAt
  <2>1. PICK h \in Gnb \ disturbed' : h = ho[g].target
    BY <1>2 DEF Goes
  <2>a. PICK i : i = ho[g].id
    OBVIOUS
  <2>2. link[g] /\ UnderWay(g) /\ ho'[g].id = i /\ ho'[g].target = h
    BY <1>2, <2>1, <2>a DEF Goes
  <2>3. h \in named /\ Leads(i, h)
    BY <1>1, <2>1, <2>a, <2>2 DEF ReturnInv, PathAt
  <2>4. h \in named' /\ Leads(i, h)'
    BY <2>3, TargetsStand
  <2> QED BY <2>2, <2>4 DEF Leads
<1>3. ASSUME NEW h \in Gnb \ disturbed' PROVE KeptAt(h)'
  <2>1. KeptAt(h) /\ Remains(h)
    BY <1>1, <1>3 DEF ReturnInv, Onward
  <2> SUFFICES ASSUME NEW id \in prepared'[h]
               PROVE  Told(h, id)' \/ \E g \in Gnb : HeldBy(g, h, id)'
    BY DEF KeptAt, Told
  <2> QED BY <2>1 DEF KeptAt, Remains, Told
<1> QED BY <1>2, <1>3 DEF ReturnInv, Onward

(* Most steps leave every handover where it is.                            *)
SameHandover(g) ==
    /\ link'[g] = link[g] /\ ho'[g] = ho[g] /\ (busy'[g] = NotBusy <=> busy[g] = NotBusy)
    /\ Has(down'[g], Command) <=> Has(down[g], Command)
    /\ Has(up'[g], Cancel) <=> Has(up[g], Cancel)

LEMMA SameGoes == ASSUME NEW g, SameHandover(g) PROVE Goes(g)
BY DEF SameHandover, Goes, UnderWay, Waits

LEMMA SameHeld ==
    ASSUME NEW g, SameHandover(g), NEW h, NEW id, HeldBy(g, h, id),
           Waits(g) /\ Acknowledged(h) => Acknowledged(h)'
    PROVE  HeldBy(g, h, id)'
<1>1. ho[g].target = h /\ ho'[g].target = h /\ ho'[g].id = id /\ ho'[g].stage = ho[g].stage
  BY DEF SameHandover, HeldBy
<1>2. Waits(g)' <=> Waits(g)
  BY DEF SameHandover, Waits
<1>3. Holds(g)'
  BY <1>1, <1>2 DEF Holds, HeldBy, SameHandover
<1> QED BY <1>1, <1>3 DEF HeldBy

(* Nothing that a target was told, or has to be told, is lost.             *)
Lets(h) ==
    \A id \in prepared'[h] : id \in prepared[h] /\ (Told(h, id) => Told(h, id)')

LEMMA SameOnward ==
    ASSUME \A g \in Gnb : SameHandover(g), \A h \in Gnb \ disturbed' : Lets(h),
           \A g \in Gnb : \A h \in Gnb \ disturbed' : \A id :
               HeldBy(g, h, id) /\ Waits(g) /\ Acknowledged(h) => Acknowledged(h)'
    PROVE  Onward
<1>1. \A g \in Gnb : Goes(g)
  BY SameGoes
<1>2. ASSUME NEW h \in Gnb \ disturbed', NEW id \in prepared'[h]
      PROVE  /\ id \in prepared[h] /\ (Told(h, id) => Told(h, id)')
             /\ \A g \in Gnb : HeldBy(g, h, id) => HeldBy(g, h, id)' \/ Told(h, id)'
  <2>1. id \in prepared[h] /\ (Told(h, id) => Told(h, id)')
    BY <1>2 DEF Lets
  <2>2. ASSUME NEW g \in Gnb, HeldBy(g, h, id) PROVE HeldBy(g, h, id)'
    <3>1. Waits(g) /\ Acknowledged(h) => Acknowledged(h)'
      BY <2>2
    <3> QED BY <2>2, <3>1, SameHeld
  <2> QED BY <2>1, <2>2
<1> QED BY <1>1, <1>2 DEF Onward, Remains

LEMMA ElsewhereOnward ==
    ASSUME Elsewhere, \A h \in Gnb : Lets(h)
    PROVE  Onward
<1>1. ASSUME NEW g \in Gnb, NEW K \in Kinds
      PROVE  /\ Has(up'[g], K) <=> Has(up[g], K)
             /\ Has(down'[g], K) <=> Has(down[g], K)
  BY AlikeKinds DEF Elsewhere, QueuesAlike
<1>2. \A g \in Gnb : SameHandover(g)
  BY <1>1, KindsAre DEF SameHandover, Elsewhere
<1>3. \A h \in Gnb : Acknowledged(h) => Acknowledged(h)'
  BY <1>1, KindsAre DEF Acknowledged, Elsewhere
<1> QED BY <1>2, <1>3, SameOnward

LEMMA LetsGrown ==
    ASSUME Grown(down, down'), prepared' = prepared
    PROVE  \A h \in Gnb : Lets(h)
BY DEF Lets, Told, Grown

(* The source of what is held.                                             *)
LEMMA HolderIs ==
    ASSUME HandoverInv, NEW g \in Gnb, NEW h \in Gnb, NEW id, HeldBy(g, h, id)
    PROVE  /\ link[g] /\ SourceAt(g) /\ ho[g].target = h /\ ho[g].id = id
           /\ Waits(g) => busy[g].target = h /\ busy[g].id = id
           /\ Waits(g) /\ h \notin disturbed => AwaitedBy(g, h)
<1> USE AccessMobilityAssumption
<1>1. ho[g].target = h /\ ho[g].id = id /\ ho[g] # NoHandover
  BY NothingIs DEF HeldBy
<1>2. link[g] /\ SourceAt(g)
  BY <1>1 DEF HandoverInv, LinkAt
<1>3. Waits(g) => busy[g].target = h /\ busy[g].id = id
  BY <1>1, <1>2 DEF SourceAt
<1>4. ASSUME Waits(g), h \notin disturbed PROVE AwaitedBy(g, h)
  BY <1>3, <1>4 DEF HandoverInv, TargetAt
<1> QED BY <1>1, <1>2, <1>3, <1>4

LEMMA QuietOnward ==
    ASSUME HandoverInv, TypesInv, [Next]_vars,
           \/ \E u \in UE, g \in Gnb : StartRegistration(u, g) \/ StartService(u, g) \/ SwitchPath(u, g)
           \/ \E u \in UE : CompleteRegistration(u) \/ RequestPduSession(u) \/ Transfer(u)
           \/ HomeNetwork \/ UNCHANGED vars
    PROVE  Onward
<1>0. Grown(down, down)
  BY QueuesSelf
<1>1. ASSUME NEW u \in UE, NEW g \in Gnb,
             StartRegistration(u, g) \/ StartService(u, g) \/ SwitchPath(u, g)
      PROVE  Onward
  <2>1. Elsewhere
    BY <1>1, StartRegistrationKeeps, StartServiceKeeps, SwitchPathKeeps
  <2>2. down' = down /\ prepared' = prepared
    BY <1>1 DEF StartRegistration, StartService, SwitchPath
  <2> QED BY <1>0, <2>1, <2>2, LetsGrown, ElsewhereOnward
<1>2. ASSUME NEW u \in UE, CompleteRegistration(u) \/ RequestPduSession(u) PROVE Onward
  <2>1. Elsewhere
    BY <1>2, SendSecuredKeeps
  <2>2. down' = down /\ prepared' = prepared
    BY <1>2 DEF CompleteRegistration, RequestPduSession, SendSecured
  <2> QED BY <1>0, <2>1, <2>2, LetsGrown, ElsewhereOnward
<1>3. ASSUME NEW u \in UE, Transfer(u) PROVE Onward
  <2>1. Elsewhere
    BY <1>3, TransferKeeps
  <2>2. Grown(down, down') /\ prepared' = prepared
    BY <1>0, <1>3, DownlinkElsewhere, OthersAre
       DEF Transfer, N1N2MessageTransfer, send_dl_nas_transport, ranVars
  <2> QED BY <2>1, <2>2, LetsGrown, ElsewhereOnward
<1>4. CASE HomeNetwork
  <2>1. Elsewhere
    BY <1>4, HomeNetworkKeeps
  <2>2. down' = down /\ prepared' = prepared
    BY <1>4 DEF HomeNetwork
  <2> QED BY <1>0, <2>1, <2>2, LetsGrown, ElsewhereOnward
<1>5. CASE UNCHANGED vars
  <2>1. /\ link' = link /\ ho' = ho /\ busy' = busy /\ down' = down /\ up' = up /\ relay' = relay
        /\ prepared' = prepared
    BY <1>5 DEF vars, amfVars, ranVars
  <2>2. \A g \in Gnb : SameHandover(g) /\ Lets(g) /\ (Acknowledged(g) => Acknowledged(g)')
    BY <2>1 DEF SameHandover, Lets, Told, Acknowledged
  <2> QED BY <2>2, SameOnward
<1> QED BY <1>1, <1>2, <1>3, <1>4, <1>5

LEMMA CloseAssociationOnward ==
    ASSUME NEW x \in Gnb, CloseAssociation(x)
    PROVE  Onward
<1>1. /\ link' = link /\ ho' = ho /\ busy' = busy /\ down' = down /\ up' = up /\ relay' = relay
      /\ prepared' = prepared
  BY DEF CloseAssociation, association_closed, ranVars
<1>2. \A g \in Gnb : SameHandover(g) /\ Lets(g) /\ (Acknowledged(g) => Acknowledged(g)')
  BY <1>1 DEF SameHandover, Lets, Told, Acknowledged
<1> QED BY <1>2, SameOnward

(* A target whose association is new had lost it.                          *)
LEMMA AcceptOnward ==
    ASSUME HandoverInv, NEW x \in Gnb, Accept(x)
    PROVE  Onward
<1> USE AccessMobilityAssumption
<1>1. /\ ho' = ho /\ busy' = busy /\ down' = down /\ relay' = relay
      /\ prepared' = prepared /\ disturbed' = disturbed
      /\ \A g \in Gnb : g # x => link'[g] = link[g] /\ up'[g] = up[g]
      /\ ~open[x]
  BY DEF Accept, accept, ranVars, HandoverInv, ShapeInv
<1>2. x \in disturbed /\ ho[x] = NoHandover
  BY <1>1 DEF HandoverInv, LinkAt, TargetAt
<1>3. \A g \in Gnb : g # x => SameHandover(g)
  BY <1>1 DEF SameHandover
<1>4. Goes(x)
  BY <1>1, <1>2, NothingIs DEF Goes
<1>5. ASSUME NEW h \in Gnb \ disturbed', NEW id \in prepared'[h]
      PROVE  /\ id \in prepared[h] /\ (Told(h, id) => Told(h, id)')
             /\ \A g \in Gnb : HeldBy(g, h, id) => HeldBy(g, h, id)' \/ Told(h, id)'
  <2>1. h # x /\ (Acknowledged(h) => Acknowledged(h)')
    BY <1>1, <1>2, <1>5 DEF Acknowledged
  <2>2. ASSUME NEW g \in Gnb, HeldBy(g, h, id) PROVE HeldBy(g, h, id)'
    <3>1. g # x
      BY <1>2, <2>2, NothingIs DEF HeldBy
    <3> QED BY <1>3, <2>1, <2>2, <3>1, SameHeld
  <2> QED BY <1>1, <1>5, <2>2 DEF Told
<1> QED BY <1>3, <1>4, <1>5, SameGoes DEF Onward, Remains

LEMMA LoseAssociationOnward ==
    ASSUME HandoverInv, TypesInv, NEW x \in Gnb, LoseAssociation(x)
    PROVE  Onward
<1> USE AccessMobilityAssumption
<1>1. /\ busy' = busy /\ relay' = relay /\ up' = up
      /\ ~link'[x] /\ x \in disturbed' /\ (ho[x].target \in Gnb => ho[x].target \in disturbed')
      /\ \A g \in Gnb : g # x => /\ link'[g] = link[g] /\ down'[g] = down[g]
                                 /\ ho'[g] = ho[g] /\ prepared'[g] = prepared[g]
  BY DEF LoseAssociation, HandoverInv, ShapeInv, TypesInv
<1>2. \A g \in Gnb : g # x => SameHandover(g)
  BY <1>1 DEF SameHandover
<1>3. Goes(x)
  BY <1>1 DEF Goes
<1>4. ASSUME NEW h \in Gnb \ disturbed', NEW id \in prepared'[h]
      PROVE  /\ id \in prepared[h] /\ (Told(h, id) => Told(h, id)')
             /\ \A g \in Gnb : HeldBy(g, h, id) => HeldBy(g, h, id)' \/ Told(h, id)'
  <2>1. h # x /\ (Acknowledged(h) => Acknowledged(h)')
    BY <1>1, <1>4 DEF Acknowledged
  <2>2. ASSUME NEW g \in Gnb, HeldBy(g, h, id) PROVE HeldBy(g, h, id)'
    <3>1. g # x
      BY <1>1, <2>2 DEF HeldBy
    <3> QED BY <1>2, <2>1, <2>2, <3>1, SameHeld
  <2> QED BY <1>1, <1>4, <2>1, <2>2 DEF Told
<1> QED BY <1>2, <1>3, <1>4, SameGoes DEF Onward, Remains

(* A source that requires a handover waits for nothing yet.                *)
LEMMA RequireHandoverOnward ==
    ASSUME HandoverInv, NEW u \in UE, NEW t \in Gnb, RequireHandover(u, t)
    PROVE  Onward
<1> USE AccessMobilityAssumption
<1> DEFINE m == [type |-> "HandoverRequired", id |-> ue[u].id, target |-> t]
<1>1. PICK x \in Gnb : x = ue[u].at /\ link[x] /\ ho[x] = NoHandover
  BY DEF RequireHandover, HandoverInv, UeInv, UeFits
<1>2. /\ link' = link /\ relay' = relay /\ busy' = busy
      /\ disturbed' = disturbed /\ down' = down /\ prepared' = prepared
  BY DEF RequireHandover, coreVars
<1>3. /\ up' = [up EXCEPT ![x] = @ \o <<m>>]
      /\ ho' = [ho EXCEPT ![x] = [stage |-> "required", id |-> ue[u].id, target |-> t]]
  BY <1>1 DEF RequireHandover, Report
<1>4. ~Has(up[x], Cancel) /\ ~Waits(x) /\ ~Has(down[x], Command) /\ IsQueue(up[x])
  BY <1>1, NothingIs, HasParts DEF HandoverInv, SourceAt, ShapeInv, ShapeAt
<1>5. m.type \notin Cancel /\ m.type \notin Acknowledge
  BY DEF Cancel, Acknowledge
<1> HIDE DEF m
<1>6. /\ up'[x] = Append(up[x], m) /\ ho'[x].stage = "required"
      /\ \A g \in Gnb : g # x => up'[g] = up[g] /\ ho'[g] = ho[g]
  BY <1>1, <1>3, <1>4, Reported DEF HandoverInv, ShapeInv
<1>7. ~Has(up'[x], Cancel) /\ (Has(up[x], Acknowledge) => Has(up'[x], Acknowledge))
  BY <1>4, <1>5, <1>6, AppendedKind
<1>8. \A g \in Gnb : g # x => SameHandover(g)
  BY <1>2, <1>6 DEF SameHandover
<1>9. Goes(x)
  BY <1>2, <1>4, <1>6, <1>7 DEF Goes, UnderWay, Waits
<1>10. ASSUME NEW h \in Gnb \ disturbed', NEW id \in prepared'[h]
       PROVE  /\ id \in prepared[h] /\ (Told(h, id) => Told(h, id)')
              /\ \A g \in Gnb : HeldBy(g, h, id) => HeldBy(g, h, id)' \/ Told(h, id)'
  <2>1. Acknowledged(h) => Acknowledged(h)'
    BY <1>2, <1>6, <1>7 DEF Acknowledged
  <2>2. ASSUME NEW g \in Gnb, HeldBy(g, h, id) PROVE HeldBy(g, h, id)'
    <3>1. g # x
      BY <1>1, <2>2, NothingIs DEF HeldBy
    <3> QED BY <1>8, <2>1, <2>2, <3>1, SameHeld
  <2> QED BY <1>2, <1>10, <2>2 DEF Told
<1> QED BY <1>8, <1>9, <1>10, SameGoes DEF Onward, Remains

(* A source that gives up still has to be heard by the AMF.                *)
LEMMA GivesUpOnward ==
    ASSUME HandoverInv, NEW x \in Gnb, NEW m, GivesUp(x, m), prepared' = prepared
    PROVE  Onward
<1> USE AccessMobilityAssumption
<1>1. /\ link' = link /\ relay' = relay /\ busy' = busy /\ disturbed' = disturbed /\ down' = down
      /\ ho[x].stage = "commanded" /\ ho' = [ho EXCEPT ![x].stage = "cancelling"]
      /\ m.type \in Cancel /\ m.type \notin Acknowledge
      /\ \A g \in Gnb : g # x => up'[g] = up[g]
      /\ Alike(Append(up[x], m), up'[x])
  BY DEF GivesUp, Cancel, Acknowledge
<1>2. IsQueue(up[x]) /\ DOMAIN ho = Gnb /\ DOMAIN ho[x] = {"stage", "id", "target"}
  BY DEF HandoverInv, ShapeInv, ShapeAt
<1>3. Has(up'[x], Cancel) /\ (Has(up[x], Acknowledge) => Has(up'[x], Acknowledge))
  <2>1. /\ Has(up'[x], Cancel) <=> Has(Append(up[x], m), Cancel)
        /\ Has(up'[x], Acknowledge) <=> Has(Append(up[x], m), Acknowledge)
    BY <1>1, AlikeKinds, KindsAre
  <2>2. /\ Has(Append(up[x], m), Cancel)
        /\ Has(up[x], Acknowledge) => Has(Append(up[x], m), Acknowledge)
    BY <1>1, <1>2, AppendedKind
  <2> QED BY <2>1, <2>2
<1>4. /\ ho'[x].id = ho[x].id /\ ho'[x].target = ho[x].target
      /\ \A g \in Gnb : g # x => ho'[g] = ho[g]
  BY <1>1, <1>2
<1>5. \A g \in Gnb : g # x => SameHandover(g)
  BY <1>1, <1>4 DEF SameHandover
<1>6. Goes(x)
  BY <1>1, <1>4 DEF Goes, UnderWay
<1>7. ASSUME NEW h \in Gnb \ disturbed', NEW id \in prepared'[h]
      PROVE  /\ id \in prepared[h] /\ (Told(h, id) => Told(h, id)')
             /\ \A g \in Gnb : HeldBy(g, h, id) => HeldBy(g, h, id)' \/ Told(h, id)'
  <2>1. Acknowledged(h) => Acknowledged(h)'
    BY <1>1, <1>3 DEF Acknowledged
  <2>2. ASSUME NEW g \in Gnb, HeldBy(g, h, id) PROVE HeldBy(g, h, id)'
    <3>1. CASE g = x
      BY <1>3, <1>4, <2>2, <3>1 DEF HeldBy, Holds
    <3>2. CASE g # x
      BY <1>5, <2>1, <2>2, <3>2, SameHeld
    <3> QED BY <3>1, <3>2
  <2> QED BY <1>1, <1>7, <2>2 DEF Told
<1> QED BY <1>5, <1>6, <1>7, SameGoes DEF Onward, Remains

(* What was held is taken over.                                            *)
LEMMA ExecuteHandoverOnward ==
    ASSUME HandoverInv, TypesInv, NEW u \in UE, ExecuteHandover(u)
    PROVE  Onward
<1> USE AccessMobilityAssumption
<1> DEFINE m == [type |-> "HandoverNotify", id |-> ue[u].id, ran |-> rans + 1]
<1>1. PICK x \in Gnb : x = ue[u].at /\ ho[x].stage = "commanded" /\ ho[x].id = ue[u].id
  BY DEF ExecuteHandover, HandoverInv, UeInv, UeFits
<1>2. PICK t \in Gnb : t = ho[x].target
  BY <1>1, NothingIs DEF HandoverInv, ShapeInv, ShapeAt
<1>3. /\ link' = link /\ relay' = relay /\ busy' = busy /\ disturbed' = disturbed /\ down' = down
      /\ ho' = [ho EXCEPT ![x] = NoHandover] /\ up' = [up EXCEPT ![t] = @ \o <<m>>]
      /\ prepared' = [prepared EXCEPT ![t] = @ \ {ue[u].id}]
  BY <1>1, <1>2 DEF ExecuteHandover, coreVars, Report
<1>4. m.type \notin Cancel /\ m.type \notin Acknowledge
  BY DEF Cancel, Acknowledge
<1> HIDE DEF m
<1>5. IsQueue(up[t]) /\ DOMAIN up = Gnb /\ DOMAIN ho = Gnb /\ DOMAIN prepared = Gnb
  BY DEF HandoverInv, ShapeInv, ShapeAt, TypesInv
<1>6. ASSUME NEW g \in Gnb
      PROVE  /\ Has(up'[g], Cancel) <=> Has(up[g], Cancel)
             /\ Has(up'[g], Acknowledge) <=> Has(up[g], Acknowledge)
  <2>1. up'[t] = Append(up[t], m) /\ (g # t => up'[g] = up[g])
    BY <1>3, <1>5, Reported
  <2>2. /\ Has(Append(up[t], m), Cancel) <=> Has(up[t], Cancel)
        /\ Has(Append(up[t], m), Acknowledge) <=> Has(up[t], Acknowledge)
    BY <1>4, <1>5, AppendedKind
  <2> QED BY <2>1, <2>2
<1>7. ho'[x] = NoHandover /\ \A g \in Gnb : g # x => ho'[g] = ho[g]
  BY <1>3, <1>5
<1>8. \A g \in Gnb : g # x => SameHandover(g)
  BY <1>3, <1>6, <1>7 DEF SameHandover
<1>9. Goes(x)
  BY <1>7, NothingIs DEF Goes
<1>10. ASSUME NEW h \in Gnb \ disturbed', NEW id \in prepared'[h]
       PROVE  /\ id \in prepared[h] /\ (Told(h, id) => Told(h, id)')
              /\ \A g \in Gnb : HeldBy(g, h, id) => HeldBy(g, h, id)' \/ Told(h, id)'
  <2>1. (Acknowledged(h) => Acknowledged(h)') /\ (Told(h, id) => Told(h, id)')
    BY <1>3, <1>6 DEF Acknowledged, Told
  <2>2. id \in prepared[h] /\ ~(h = t /\ id = ho[x].id)
    BY <1>1, <1>3, <1>5, <1>10
  <2>3. ASSUME NEW g \in Gnb, HeldBy(g, h, id) PROVE HeldBy(g, h, id)'
    <3>1. g # x
      BY <1>2, <2>2, <2>3 DEF HeldBy
    <3> QED BY <1>8, <2>1, <2>3, <3>1, SameHeld
  <2> QED BY <2>1, <2>2, <2>3
<1> QED BY <1>8, <1>9, <1>10, SameGoes DEF Onward, Remains

(* What is delivered leaves the queue; a target that is told gives back.   *)
LEMMA DeliverLets ==
    ASSUME HandoverInv, NEW g \in Gnb, Deliver(g),
           \A h \in Gnb : prepared'[h] \subseteq prepared[h],
           Head(down[g]).type = "UEContextReleaseCommand" => Head(down[g]).id \notin prepared'[g]
    PROVE  \A h \in Gnb : Lets(h)
<1> SUFFICES ASSUME NEW h \in Gnb, NEW id \in prepared'[h], Told(h, id)
             PROVE  Told(h, id)'
  BY DEF Lets
<1> DEFINE c == ReleaseCommand(id)
<1>1. c.type = "UEContextReleaseCommand" /\ c.id = id
  BY DEF ReleaseCommand
<1>2. c \in Messages(down[h])
  BY DEF Told
<1> HIDE DEF c
<1>3. c \in Messages(down'[h])
  <2>1. CASE h = g
    <3>1. c # Head(down[g])
      BY <1>1, <2>1
    <3> QED BY <1>2, <2>1, <3>1, DeliverFacts, Taken
  <2>2. CASE h # g
    BY <1>2, <2>2, DeliverFacts
  <2> QED BY <2>1, <2>2
<1> QED BY <1>3 DEF Told, c

LEMMA DeliverOtherOnward ==
    ASSUME HandoverInv, TypesInv, NEW g \in Gnb, Deliver(g),
           \/ ReceiveNas(g, Head(down[g])) \/ ReceiveReleaseCommand(g, Head(down[g]))
           \/ ReceivePathSwitch(g, Head(down[g]))
    PROVE  Onward
<1> DEFINE m == Head(down[g])
<1>1. Elsewhere
  BY ReceiveNasKeeps, ReceiveReleaseCommandKeeps, ReceivePathSwitchKeeps
<1>2. CASE ReceiveNas(g, m) \/ ReceivePathSwitch(g, m)
  <2>1. prepared' = prepared /\ m.type # "UEContextReleaseCommand"
    BY <1>2 DEF ReceiveNas, ReceivePathSwitch, NasTypes
  <2> QED BY <1>1, <2>1, DeliverLets, ElsewhereOnward
<1>3. CASE ReceiveReleaseCommand(g, m)
  <2>1. \A h \in Gnb : prepared'[h] \subseteq prepared[h] /\ (h = g => m.id \notin prepared'[h])
    BY <1>3 DEF ReceiveReleaseCommand, TypesInv
  <2> QED BY <1>1, <2>1, DeliverLets, ElsewhereOnward
<1> QED BY <1>2, <1>3

(* What a target admits is held by the source that waits for it.           *)
LEMMA HandoverRequestOnward ==
    ASSUME HandoverInv, TypesInv, NEW x \in Gnb, Deliver(x),
           ReceiveHandoverRequest(x, Head(down[x]))
    PROVE  Onward
<1> USE AccessMobilityAssumption
<1> DEFINE m == Head(down[x])
<1>1. PICK n : /\ up' = [up EXCEPT ![x] = @ \o <<n>>]
               /\ \/ /\ n.type = "HandoverRequestAcknowledge"
                     /\ prepared' = [prepared EXCEPT ![x] = @ \cup {m.id}]
                  \/ n.type = "HandoverFailure" /\ prepared' = prepared
  <2>1. /\ Uplink("HandoverRequestAcknowledge").type = "HandoverRequestAcknowledge"
        /\ Uplink("HandoverFailure").type = "HandoverFailure"
    BY DEF Uplink
  <2> QED BY <2>1 DEF ReceiveHandoverRequest, Report
<1>2. /\ link' = link /\ relay' = relay /\ busy' = busy /\ disturbed' = disturbed /\ ho' = ho
      /\ IsQueue(up[x]) /\ IsQueue(down[x]) /\ down[x] # << >>
      /\ \A g \in Gnb : g # x => down'[g] = down[g]
  BY DeliverFacts DEF ReceiveHandoverRequest
<1>3. m.type \in Request /\ m \in Messages(down[x]) /\ m.type \notin Command
      /\ m.type # "UEContextReleaseCommand" /\ down'[x] = Tail(down[x])
  BY DeliverFacts, Taken DEF ReceiveHandoverRequest, Request, Command
<1>4. n.type \notin Cancel
  BY <1>1 DEF Cancel
<1>5. up'[x] = Append(up[x], n) /\ \A g \in Gnb : g # x => up'[g] = up[g]
  BY <1>1, <1>2, Reported DEF HandoverInv, ShapeInv
<1>6. /\ Has(up'[x], Cancel) <=> Has(up[x], Cancel)
      /\ Has(up[x], Acknowledge) => Has(up'[x], Acknowledge)
      /\ n.type \in Acknowledge => Has(up'[x], Acknowledge)
      /\ Has(down'[x], Command) <=> Has(down[x], Command)
  <2>1. /\ Has(Append(up[x], n), Cancel) <=> Has(up[x], Cancel) \/ n.type \in Cancel
        /\ Has(Append(up[x], n), Acknowledge) <=> Has(up[x], Acknowledge) \/ n.type \in Acknowledge
        /\ Has(down[x], Command) <=> Has(Tail(down[x]), Command) \/ m.type \in Command
    BY <1>2, AppendedKind, TakenKind
  <2> QED BY <1>3, <1>4, <1>5, <2>1
<1>7. \A g \in Gnb : SameHandover(g)
  BY <1>2, <1>5, <1>6 DEF SameHandover
<1>8. \A h \in Gnb : Acknowledged(h) => Acknowledged(h)'
  BY <1>2, <1>5, <1>6 DEF Acknowledged
<1>9. ASSUME NEW h \in Gnb, NEW id, Told(h, id) PROVE Told(h, id)'
  <2>1. ReleaseCommand(id) # m
    BY <1>3 DEF ReleaseCommand
  <2>2. CASE h = x
    <3>1. ReleaseCommand(id) \in Messages(Tail(down[x]))
      BY <1>2, <1>9, <2>1, <2>2, Taken DEF Told
    <3> QED BY <1>3, <2>2, <3>1 DEF Told
  <2>3. CASE h # x
    BY <1>2, <1>9, <2>3 DEF Told
  <2> QED BY <2>2, <2>3
<1>10. ASSUME NEW h \in Gnb \ disturbed', NEW id \in prepared'[h], id \notin prepared[h]
       PROVE  \E g \in Gnb : HeldBy(g, h, id)'
  <2>1. h = x /\ id = m.id /\ n.type = "HandoverRequestAcknowledge"
    BY <1>1, <1>10 DEF TypesInv
  <2>2. TargetAt(x) /\ Has(down[x], Request)
    BY <1>2, <1>3, <2>1 DEF HandoverInv, Has
  <2>3. PICK s \in Gnb : busy[s].target = x
    BY <2>2 DEF TargetAt
  <2>4. AwaitedBy(s, x) /\ m.id = busy[s].id
    BY <1>3, <2>2, <2>3 DEF TargetAt, AwaitedBy
  <2>5. Waits(s)
    BY <2>3, NothingIs DEF Waits
  <2>6. link[s]
    BY <1>2, <2>1, <2>3, <2>5 DEF HandoverInv, LinkAt
  <2>7. busy[s].id = ho[s].id /\ busy[s].target = ho[s].target
    BY <2>5, <2>6 DEF HandoverInv, SourceAt
  <2>8. Acknowledged(x)'
    BY <1>6, <2>1 DEF Acknowledged, Acknowledge
  <2>9. Waits(s)' /\ ho'[s].target = x /\ ho'[s].id = id
    BY <1>2, <2>1, <2>3, <2>4, <2>5, <2>7 DEF Waits
  <2>10. Holds(s)'
    BY <2>8, <2>9 DEF Holds
  <2> QED BY <2>1, <2>9, <2>10 DEF HeldBy
<1>11. ASSUME NEW h \in Gnb \ disturbed', NEW id, NEW g \in Gnb, HeldBy(g, h, id)
       PROVE  HeldBy(g, h, id)'
  BY <1>7, <1>8, <1>11, SameHeld
<1> QED BY <1>7, <1>9, <1>10, <1>11, SameGoes DEF Onward, Remains

(* A command leaves the source with something to say or to do; with the    *)
(* other outcomes it holds nothing any more.                               *)
LEMMA HandoverOutcomeOnward ==
    ASSUME HandoverInv, TypesInv, NEW x \in Gnb, Deliver(x),
           ReceiveHandoverOutcome(x, Head(down[x]))
    PROVE  Onward
<1> USE AccessMobilityAssumption
<1> DEFINE m == Head(down[x])
           n == [type |-> "HandoverCancel", id |-> m.id]
           here == \E u \in UE : ue[u].at = x /\ ue[u].id = m.id
<1>1. /\ link' = link /\ relay' = relay /\ busy' = busy /\ disturbed' = disturbed
      /\ prepared' = prepared /\ link[x]
      /\ IsQueue(up[x]) /\ IsQueue(down[x]) /\ down[x] # << >> /\ down'[x] = Tail(down[x])
      /\ \A g \in Gnb : g # x => down'[g] = down[g]
  BY DeliverFacts DEF ReceiveHandoverOutcome
<1>2. m \in Messages(down[x]) /\ m.type \in Hears /\ SourceAt(x)
      /\ m.type # "UEContextReleaseCommand"
  BY <1>1, Taken
     DEF ReceiveHandoverOutcome, Hears, Verdicts, Command, CancelAck, HandoverInv
<1>3. /\ DOMAIN ho = Gnb /\ DOMAIN ho[x] = {"stage", "id", "target"} /\ DOMAIN up = Gnb
  BY DEF HandoverInv, ShapeInv, ShapeAt
<1>4. /\ \A g \in Gnb : g # x => ho'[g] = ho[g]
      /\ m.type # "HandoverCommand" => ho'[x] = NoHandover
      /\ m.type = "HandoverCommand" =>
             ho'[x] = [ho[x] EXCEPT !.stage = IF here THEN "commanded" ELSE "cancelling"]
      /\ up' = up \/ (up' = [up EXCEPT ![x] = @ \o <<n>>])
      /\ m.type = "HandoverCommand" /\ ~here => up' = [up EXCEPT ![x] = @ \o <<n>>]
  BY <1>3 DEF ReceiveHandoverOutcome, Report
<1>5. n.type \in Cancel /\ n.type \notin Acknowledge
  BY DEF Cancel, Acknowledge
<1> HIDE DEF n, m, here
<1>6. /\ \A g \in Gnb : g # x => up'[g] = up[g]
      /\ up'[x] = up[x] \/ up'[x] = Append(up[x], n)
      /\ m.type = "HandoverCommand" /\ ~here => up'[x] = Append(up[x], n)
  BY <1>1, <1>3, <1>4, Reported
<1>7. /\ Has(Append(up[x], n), Cancel)
      /\ Has(Append(up[x], n), Acknowledge) <=> Has(up[x], Acknowledge)
  <2>1. /\ Has(Append(up[x], n), Cancel) <=> Has(up[x], Cancel) \/ n.type \in Cancel
        /\ Has(Append(up[x], n), Acknowledge) <=> Has(up[x], Acknowledge) \/ n.type \in Acknowledge
    BY <1>1, AppendedKind
  <2> QED BY <1>5, <2>1
<1>8. \A g \in Gnb : g # x => SameHandover(g)
  BY <1>1, <1>4, <1>6 DEF SameHandover
<1>9. \A h \in Gnb : Acknowledged(h) => Acknowledged(h)'
  BY <1>1, <1>6, <1>7 DEF Acknowledged
<1>10. ASSUME NEW h \in Gnb, NEW id, Told(h, id) PROVE Told(h, id)'
  <2>1. ReleaseCommand(id) # m
    BY <1>2 DEF ReleaseCommand
  <2>2. CASE h = x
    <3>1. ReleaseCommand(id) \in Messages(Tail(down[x]))
      BY <1>1, <1>10, <2>1, <2>2, Taken DEF Told, m
    <3> QED BY <1>1, <2>2, <3>1 DEF Told
  <2>3. CASE h # x
    BY <1>1, <1>10, <2>3 DEF Told
  <2> QED BY <2>2, <2>3
<1>11. CASE m.type = "HandoverCommand"
  <2>1. Has(down[x], Command)
    BY <1>2, <1>11 DEF Has, Command
  <2>2. /\ ho'[x].id = ho[x].id /\ ho'[x].target = ho[x].target
        /\ ho'[x].stage = "commanded" \/ Has(up'[x], Cancel)
    <3>1. CASE here
      BY <1>3, <1>4, <1>11, <3>1
    <3>2. CASE ~here
      BY <1>3, <1>4, <1>6, <1>7, <1>11, <3>2
    <3> QED BY <3>1, <3>2
  <2>3. Goes(x)
    BY <1>1, <2>1, <2>2 DEF Goes, UnderWay
  <2>4. ASSUME NEW h \in Gnb, NEW id, HeldBy(x, h, id) PROVE HeldBy(x, h, id)'
    BY <2>2, <2>4 DEF HeldBy, Holds
  <2>5. ASSUME NEW h \in Gnb \ disturbed', NEW id, NEW g \in Gnb, HeldBy(g, h, id)
        PROVE  HeldBy(g, h, id)'
    <3>1. CASE g # x
      BY <1>8, <1>9, <2>5, <3>1, SameHeld
    <3> QED BY <2>4, <2>5, <3>1
  <2> QED BY <1>1, <1>8, <1>10, <2>3, <2>5, SameGoes DEF Onward, Remains
<1>12. CASE m.type # "HandoverCommand"
  <2>1. Goes(x)
    BY <1>4, <1>12, NothingIs DEF Goes
  <2>2. Has(down[x], Hears) /\ ~Has(Tail(down[x]), Hears) /\ m.type \notin Command
    <3>1. Single(down[x], Hears)
      BY <1>2 DEF SourceAt
    <3>2. ~Has(Tail(down[x]), Hears)
      BY <1>1, <1>2, <3>1, TakenKind DEF m
    <3> QED BY <1>2, <1>12, <3>2 DEF Has, Command
  <2>3. ~Has(down[x], Command)
    <3>1. ~Has(Tail(down[x]), Command)
      BY <2>2, HasParts
    <3> QED BY <1>1, <2>2, <3>1, TakenKind DEF m
  <2>4. ~Waits(x) /\ ~Has(up[x], Cancel) /\ ho[x].stage # "commanded"
    <3>1. CASE Has(down[x], Verdicts)
      BY <1>2, <3>1 DEF SourceAt
    <3>2. CASE Has(down[x], CancelAck)
      BY <1>2, <3>2 DEF SourceAt
    <3> QED BY <2>2, <3>1, <3>2, HasParts
  <2>5. ~Holds(x)
    BY <2>3, <2>4 DEF Holds
  <2>6. ASSUME NEW h \in Gnb \ disturbed', NEW id, NEW g \in Gnb, HeldBy(g, h, id)
        PROVE  HeldBy(g, h, id)'
    <3>1. g # x
      BY <2>5, <2>6 DEF HeldBy
    <3> QED BY <1>8, <1>9, <2>6, <3>1, SameHeld
  <2> QED BY <1>1, <1>8, <1>10, <2>1, <2>6, SameGoes DEF Onward, Remains
<1> QED BY <1>11, <1>12

(* A wait that ends with the acknowledgement becomes a command; one that   *)
(* ends otherwise disturbs the target or finds that it refused.            *)
LEMMA WaitEndsOnward ==
    ASSUME HandoverInv, NEW x \in Gnb, NEW n, WaitEnds(x, n), prepared' = prepared
    PROVE  Onward
<1> USE AccessMobilityAssumption
<1>1. /\ link' = link /\ up' = up /\ ho' = ho /\ disturbed \subseteq disturbed' /\ Waits(x)
      /\ down' = Sent(down, x, n) /\ n.type \in Verdicts
  BY DEF WaitEnds
<1>2. PICK t \in Gnb : t = busy[x].target
  BY DEF WaitEnds, Waits, HandoverInv, ShapeInv, ShapeAt
<1>3. /\ busy'[x] = NotBusy /\ \A g \in Gnb : g # x => busy'[g] = busy[g]
      /\ \A g \in Gnb : g # t => relay'[g] = relay[g]
      /\ t \in disturbed' \/ (relay[t].reply # "none" /\
               (relay[t].reply = "HandoverRequestAcknowledge" => n.type \in Command))
  BY <1>2 DEF WaitEnds, HandoverInv, ShapeInv
<1>4. Grown(down, down')
  BY <1>1, SentGrows DEF HandoverInv, ShapeInv, ShapeAt
<1>5. /\ \A g \in Gnb : g # x => down'[g] = down[g]
      /\ link[x] => down'[x] = Append(down[x], n)
  BY <1>1, SentIs
<1>6. \A g \in Gnb : g # x => SameHandover(g)
  BY <1>1, <1>3, <1>5 DEF SameHandover
<1>7. Goes(x)
  BY <1>1 DEF Goes, UnderWay
<1>8. ASSUME NEW h \in Gnb \ disturbed', NEW id, NEW g \in Gnb, HeldBy(g, h, id)
      PROVE  HeldBy(g, h, id)'
  <2>1. /\ link[g] /\ ho[g].target = h /\ ho[g].id = id
        /\ Waits(g) => busy[g].target = h /\ AwaitedBy(g, h)
    BY <1>1, <1>8, HolderIs
  <2>2. CASE g # x
    <3>1. Waits(g) => h # t
      <4>1. Waits(g) /\ h = t => x = g
        BY <1>2, <2>1 DEF AwaitedBy
      <4> QED BY <2>2, <4>1
    <3>2. Waits(g) /\ Acknowledged(h) => Acknowledged(h)'
      BY <1>1, <1>3, <3>1 DEF Acknowledged
    <3> QED BY <1>6, <1>8, <2>2, <3>2, SameHeld
  <2>3. CASE g = x
    <3>1. h = t /\ AwaitedBy(x, t)
      BY <1>1, <1>2, <2>1, <2>3
    <3>2. ~Has(up[t], Acknowledge)
      BY <1>3, <1>8, <3>1, HasParts DEF AwaitedBy
    <3>3. Waits(x) /\ Acknowledged(h) => Has(down'[x], Command)
      <4>1. Acknowledged(h) => n.type \in Command
        BY <1>3, <1>8, <3>1, <3>2 DEF Acknowledged
      <4>2. IsQueue(down[x]) /\ down'[x] = Append(down[x], n)
        BY <1>5, <2>1, <2>3 DEF HandoverInv, ShapeInv, ShapeAt
      <4>3. n.type \in Command => Has(Append(down[x], n), Command)
        BY <4>2, AppendedKind
      <4> QED BY <4>1, <4>2, <4>3
    <3>4. Has(down[x], Command) => Has(down'[x], Command)
      BY <1>4 DEF Grown, Has
    <3>5. Holds(x)'
      BY <1>1, <1>8, <2>1, <2>3, <3>3, <3>4 DEF HeldBy, Holds
    <3> QED BY <1>1, <2>1, <2>3, <3>5 DEF HeldBy
  <2> QED BY <2>2, <2>3
<1>9. \A h \in Gnb : Lets(h)
  BY <1>4, LetsGrown
<1> QED BY <1>6, <1>7, <1>8, <1>9, SameGoes DEF Onward, Remains, Lets

(* What a message handled takes from the queues.                           *)
LEMMA HandledIs ==
    ASSUME HandoverInv, NEW x \in Gnb, HandleMessage(x)
    PROVE  /\ link' = link /\ ho' = ho /\ prepared' = prepared /\ disturbed \subseteq disturbed'
           /\ \A g \in Gnb : /\ Head(up[x]).type \notin Cancel =>
                                    (Has(up'[g], Cancel) <=> Has(up[g], Cancel))
                             /\ Head(up[x]).type \notin Acknowledge =>
                                    (Has(up'[g], Acknowledge) <=> Has(up[g], Acknowledge))
                             /\ g # x => up'[g] = up[g]
<1>1. ASSUME NEW K, Head(up[x]).type \notin K
      PROVE  \A g \in Gnb : Has(up'[g], K) <=> Has(up[g], K)
  <2>1. Outside(Head(up[x]).type, {K})
    BY <1>1 DEF Outside
  <2> QED BY <2>1, MessageTaken DEF KindsSame
<1> QED BY <1>1, HandleMessageFacts, MessageTaken

(* A target that sets up anew was not named: nobody waits for it.          *)
LEMMA SetupOnward ==
    ASSUME HandoverInv, NEW x \in Gnb, HandleMessage(x), NEW answer,
           handle_ng_setup_request(x, Head(up[x]), answer)
    PROVE  Onward
<1> DEFINE m == Head(up[x])
<1>1. /\ link' = link /\ ho' = ho /\ prepared' = prepared /\ disturbed \subseteq disturbed'
      /\ down' = down
  BY HandledIs DEF handle_ng_setup_request
<1>2. /\ m \in Messages(up[x]) /\ m.type \in Setup
      /\ m.type \notin Cancel /\ m.type \notin Acknowledge
  BY MessageTaken DEF handle_ng_setup_request, Cancel, Acknowledge, Setup
<1>3. /\ \A g \in Gnb : g # x => relay'[g] = relay[g]
      /\ \A g \in Gnb : busy'[g] = NotBusy <=> busy[g] = NotBusy
  <2>1. ASSUME NEW g \in Gnb PROVE busy'[g] = NotBusy <=> busy[g] = NotBusy
    <3>1. /\ DOMAIN busy[g] = {"target", "id", "detached"} /\ busy[g] = NotBusy <=> busy[g].target = "none"
      BY DEF HandoverInv, ShapeInv, ShapeAt
    <3>2. \/ busy'[g] = busy[g]
          \/ busy[g].target = x /\ busy'[g] = [busy[g] EXCEPT !.detached = TRUE]
      BY DEF handle_ng_setup_request
    <3>3. [busy[g] EXCEPT !.detached = TRUE].target = busy[g].target
      BY <3>1
    <3> QED BY <3>1, <3>2, <3>3, NothingIs, AccessMobilityAssumption
  <2> QED BY <2>1 DEF handle_ng_setup_request, HandoverInv, ShapeInv
<1>4. \A g \in Gnb : SameHandover(g)
  BY <1>1, <1>2, <1>3, HandledIs DEF SameHandover
<1>5. ASSUME NEW g \in Gnb, NEW h \in Gnb \ disturbed', NEW id,
             HeldBy(g, h, id), Waits(g), Acknowledged(h)
      PROVE  Acknowledged(h)'
  <2>1. h \in named /\ TargetAt(h)
    BY <1>1, <1>5, HolderIs DEF AwaitedBy, HandoverInv
  <2>2. h # x
    BY <1>2, <2>1 DEF TargetAt, Has
  <2> QED BY <1>2, <1>3, <1>5, <2>2, HandledIs DEF Acknowledged
<1>6. \A h \in Gnb : Lets(h)
  BY <1>1 DEF Lets, Told
<1> QED BY <1>4, <1>5, <1>6, SameOnward

(* An acknowledgement is read into the slot the source looks into.         *)
LEMMA ReplyOnward ==
    ASSUME HandoverInv, NEW x \in Gnb, HandleMessage(x), NEW answer,
           deliver_reply_if_pending(x, Head(up[x]), answer), UNCHANGED busy
    PROVE  Onward
<1> DEFINE m == Head(up[x])
<1>1. /\ link' = link /\ ho' = ho /\ prepared' = prepared /\ disturbed \subseteq disturbed'
      /\ down' = down /\ busy' = busy
  BY HandledIs DEF deliver_reply_if_pending
<1>2. m \in Messages(up[x]) /\ m.type \in Replies /\ m.type \notin Cancel
  BY MessageTaken DEF deliver_reply_if_pending, Replies, Cancel
<1>3. relay' = IF x \in named /\ relay[x].awaiting THEN [relay EXCEPT ![x].reply = m.type] ELSE relay
  BY DEF deliver_reply_if_pending
<1>4. DOMAIN relay = Gnb /\ DOMAIN relay[x] = {"awaiting", "reply"}
  BY DEF HandoverInv, ShapeInv, ShapeAt
<1> HIDE DEF m
<1>5. \A g \in Gnb : SameHandover(g)
  BY <1>1, <1>2, HandledIs DEF SameHandover, m
<1>6. ASSUME NEW g \in Gnb, NEW h \in Gnb \ disturbed', NEW id,
             HeldBy(g, h, id), Waits(g), Acknowledged(h)
      PROVE  Acknowledged(h)'
  <2>1. AwaitedBy(g, h)
    BY <1>1, <1>6, HolderIs
  <2>2. CASE h # x
    BY <1>3, <1>4, <1>6, <2>2, HandledIs DEF Acknowledged
  <2>3. CASE h = x
    <3>1. Has(up[x], Replies) /\ relay[x].reply = "none"
      BY <1>2, <2>1, <2>3 DEF AwaitedBy, Has
    <3>2. Has(up[x], Acknowledge)
      BY <1>6, <2>3, <3>1 DEF Acknowledged
    <3>3. IsQueue(up[x]) /\ up[x] # << >> /\ Single(up[x], Replies)
      BY <2>1, <2>3, MessageTaken, HandleMessageFacts DEF AwaitedBy
    <3>4. ~Has(Tail(up[x]), Acknowledge)
      BY <1>2, <3>3, TakenKind, HasParts DEF m
    <3>5. m.type \in Acknowledge
      BY <3>2, <3>3, <3>4, TakenKind DEF m
    <3>6. relay'[x].reply = "HandoverRequestAcknowledge"
      BY <1>3, <1>4, <2>1, <2>3, <3>5 DEF AwaitedBy, Acknowledge
    <3> QED BY <2>3, <3>6 DEF Acknowledged
  <2> QED BY <2>2, <2>3
<1>7. \A h \in Gnb : Lets(h)
  BY <1>1 DEF Lets, Told
<1> QED BY <1>5, <1>6, <1>7, SameOnward

(* A message that is not of kind K, sent to someone.                       *)
LEMMA SentKind ==
    ASSUME NEW q, DOMAIN q = Gnb, \A x \in Gnb : IsQueue(q[x]), NEW t \in Gnb, NEW n,
           NEW K, n.type \notin K
    PROVE  /\ DOMAIN Sent(q, t, n) = Gnb /\ \A x \in Gnb : IsQueue(Sent(q, t, n)[x])
           /\ \A x \in Gnb : Has(Sent(q, t, n)[x], K) <=> Has(q[x], K)
<1>1. /\ DOMAIN Sent(q, t, n) = Gnb
      /\ \A x \in Gnb : x # t => Sent(q, t, n)[x] = q[x]
      /\ Sent(q, t, n)[t] = Append(q[t], n) \/ Sent(q, t, n)[t] = q[t]
  BY DEF Sent
<1>2. IsQueue(Append(q[t], n)) /\ (Has(Append(q[t], n), K) <=> Has(q[t], K))
  BY Appended, AppendedKind
<1>3. ASSUME NEW x \in Gnb
      PROVE  IsQueue(Sent(q, t, n)[x]) /\ (Has(Sent(q, t, n)[x], K) <=> Has(q[x], K))
  BY <1>1, <1>2
<1> QED BY <1>1, <1>3

LEMMA RefusalOnward ==
    ASSUME HandoverInv, NEW x \in Gnb, HandleMessage(x), Head(up[x]).type \in Required,
           relay' = relay, busy' = busy, Send(x, PreparationFailure(Head(up[x]).id))
    PROVE  Onward
<1> DEFINE m == Head(up[x])
           n == PreparationFailure(m.id)
<1>1. /\ link' = link /\ ho' = ho /\ prepared' = prepared /\ disturbed \subseteq disturbed'
      /\ down' = Sent(down, x, n) /\ IsQueue(down[x])
  BY HandledIs, MessageTaken DEF Send
<1>2. m.type \notin Cancel /\ m.type \notin Acknowledge /\ n.type \notin Command
  BY DEF PreparationFailure, Command, Required, Cancel, Acknowledge
<1> HIDE DEF n
<1>3. \A g \in Gnb : Has(down'[g], Command) <=> Has(down[g], Command)
  BY <1>1, <1>2, SentKind DEF HandoverInv, ShapeInv, ShapeAt
<1>4. \A g \in Gnb : SameHandover(g)
  BY <1>1, <1>2, <1>3, HandledIs DEF SameHandover
<1>5. \A h \in Gnb : Acknowledged(h) => Acknowledged(h)'
  BY <1>2, HandledIs DEF Acknowledged
<1>6. \A h \in Gnb : Lets(h)
  <2>1. Grown(down, down')
    BY <1>1, SentGrows DEF HandoverInv, ShapeInv, ShapeAt
  <2> QED BY <1>1, <2>1, LetsGrown
<1> QED BY <1>4, <1>5, <1>6, SameOnward

(* The target is recorded before it is asked: the AMF finds it.            *)
LEMMA RequestOnward ==
    ASSUME HandoverInv, StoresInv, NEW x \in Gnb, HandleMessage(x), Head(up[x]).type \in Required,
           NEW t \in Gnb, t = Head(up[x]).target, t \in named, named' = named,
           relay' = [relay EXCEPT ![t] = [awaiting |-> TRUE, reply |-> "none"]],
           Send(t, [type |-> "HandoverRequest", id |-> Head(up[x]).id]),
           busy' = [busy EXCEPT ![x] = [target |-> t, id |-> Head(up[x]).id, detached |-> FALSE]],
           cold_lookup(Head(up[x]).id) # 0, UNCHANGED <<security, index>>,
           ue_contexts' = [ue_contexts EXCEPT
                              ![security[cold_lookup(Head(up[x]).id)].ue].target = t]
    PROVE  Onward
<1> USE AccessMobilityAssumption
<1> DEFINE m == Head(up[x])
           n == [type |-> "HandoverRequest", id |-> m.id]
<1>1. /\ link' = link /\ ho' = ho /\ prepared' = prepared /\ disturbed \subseteq disturbed'
      /\ down' = Sent(down, t, n) /\ IsQueue(down[t])
  BY HandledIs DEF Send, HandoverInv, ShapeInv, ShapeAt
<1>2. m.type \notin Cancel /\ m.type \notin Acknowledge /\ n.type \notin Command
      /\ m.type \in Asks
  BY DEF Command, Required, Cancel, Acknowledge, Asks
<1> HIDE DEF n
<1>3. /\ busy'[x].target = t /\ \A g \in Gnb : g # x => busy'[g] = busy[g]
      /\ \A g \in Gnb : g # t => relay'[g] = relay[g]
  BY DEF HandoverInv, ShapeInv
<1>4. \A g \in Gnb : Has(down'[g], Command) <=> Has(down[g], Command)
  BY <1>1, <1>2, SentKind DEF HandoverInv, ShapeInv, ShapeAt
<1>5. \A g \in Gnb : g # x => SameHandover(g)
  BY <1>1, <1>2, <1>3, <1>4, HandledIs DEF SameHandover
<1>6. link[x] => /\ m.id = ho[x].id /\ ho[x].target = t /\ ho[x].stage = "required"
                 /\ ~Has(down[x], Command) /\ ~Has(up[x], Cancel) /\ ~Waits(x)
  <2>1. link[x] => /\ SourceAt(x) /\ ~Has(down[x], Command)
                   /\ m.id = ho[x].id /\ ho[x].target = t /\ ho[x].stage = "required"
    BY <1>2, AskedIs
  <2>2. ~Waits(x)
    BY HandleMessageFacts
  <2>3. link[x] => ~Has(up[x], Cancel)
    BY <2>1 DEF SourceAt
  <2> QED BY <2>1, <2>2, <2>3
<1>7. PathAt(x)'
  <2>1. PICK i : i = m.id
    OBVIOUS
  <2>2. link[x] => ho'[x].id = i /\ ho'[x].target = t
    BY <1>1, <1>6, <2>1
  <2>3. i \in 1..MaxIds /\ index[i] # 0 /\ cold_lookup(m.id) = index[i]
    BY <2>1 DEF cold_lookup
  <2>4. index[i] \in 1..Len(security)
    <3>1. index[i] \in 0..Len(security) /\ IsQueue(security)
      BY <2>3 DEF StoresInv, TypesInv, SecurityFits
    <3>2. Len(security) \in Nat
      BY <3>1 DEF IsQueue
    <3> QED BY <2>3, <3>1, <3>2
  <2>5. security[index[i]].ue \in UE
    BY <2>4 DEF StoresInv, TypesInv, SecurityFits
  <2>6. ue_contexts'[security[index[i]].ue].target = t
    BY <2>3, <2>5 DEF StoresInv, TypesInv
  <2>7. Leads(i, t)'
    BY <2>3, <2>6 DEF Leads
  <2> QED BY <1>1, <2>2, <2>7 DEF PathAt
<1>8. ASSUME NEW h \in Gnb \ disturbed', NEW id, NEW g \in Gnb, HeldBy(g, h, id)
      PROVE  HeldBy(g, h, id)'
  <2>1. link[g] /\ (Waits(g) => busy[g].target = h)
    BY <1>8, HolderIs
  <2>2. g # x
    BY <1>6, <1>8, <2>1 DEF HeldBy, Holds
  <2>3. Waits(g) => h # t
    <3>1. busy'[x].target = t /\ (Waits(g) /\ h = t => busy'[g].target = t)
      BY <1>3, <2>1, <2>2
    <3> QED BY <2>2, <3>1, SharedDisturbed
  <2>4. Waits(g) /\ Acknowledged(h) => Acknowledged(h)'
    BY <1>2, <1>3, <2>3, HandledIs DEF Acknowledged
  <2> QED BY <1>5, <1>8, <2>2, <2>4, SameHeld
<1>9. \A h \in Gnb : Lets(h)
  <2>1. Grown(down, down')
    BY <1>1, SentGrows DEF HandoverInv, ShapeInv, ShapeAt
  <2> QED BY <1>1, <2>1, LetsGrown
<1> QED BY <1>5, <1>7, <1>8, <1>9, SameGoes DEF Onward, Remains, Lets

(* The way from the id leads the AMF to the target, which it tells.        *)
LEMMA CancelOnward ==
    ASSUME HandoverInv, StoresInv, ReturnInv, NEW x \in Gnb, HandleMessage(x), NEW answer,
           handle_handover_cancel(x, Head(up[x]), answer), UNCHANGED <<named, relay, busy>>
    PROVE  Onward
<1> USE AccessMobilityAssumption
<1> DEFINE m == Head(up[x])
           n == CancelAcknowledge(m.id)
           c == ReleaseCommand(m.id)
<1>1. /\ link' = link /\ ho' = ho /\ prepared' = prepared /\ disturbed \subseteq disturbed'
      /\ busy' = busy /\ relay' = relay
  BY HandledIs
<1>2. /\ m.type \in Cancel /\ m.type \in Asks /\ m.type \notin Acknowledge
      /\ n.type \notin Command /\ c.type \notin Command
  BY DEF handle_handover_cancel, Cancel, Asks, Acknowledge, CancelAcknowledge, ReleaseCommand,
         Command
<1>3. DOMAIN down = Gnb /\ (\A g \in Gnb : IsQueue(down[g])) /\ named \subseteq Gnb
  BY DEF HandoverInv, ShapeInv, ShapeAt
<1> DEFINE Middle(d) == /\ DOMAIN d = Gnb /\ Grown(down, d)
                        /\ \A g \in Gnb : IsQueue(d[g]) /\ (Has(d[g], Command) <=> Has(down[g], Command))
                        /\ \A h \in named : Leads(m.id, h) => d = Sent(down, h, c)
<1>4. PICK d : Middle(d) /\ down' = Sent(d, x, n)
  <2> DEFINE tmsi == cold_lookup(m.id)
             target == IF tmsi = 0 THEN "none" ELSE ue_contexts[security[tmsi].ue].target
             d == IF target \in named THEN Sent(down, target, c) ELSE down
  <2>1. down' = Sent(d, x, n)
    BY DEF handle_handover_cancel
  <2>2. ASSUME NEW h \in named, Leads(m.id, h) PROVE target = h
    BY <2>2 DEF Leads, cold_lookup
  <2> HIDE DEF target, tmsi, c, n, m
  <2>3. CASE target \in named
    <3>1. d = Sent(down, target, c) /\ target \in Gnb
      BY <1>3, <2>3
    <3>2. /\ DOMAIN d = Gnb /\ Grown(down, d)
          /\ \A g \in Gnb : IsQueue(d[g]) /\ (Has(d[g], Command) <=> Has(down[g], Command))
      BY <1>2, <1>3, <3>1, SentKind, SentGrows
    <3> QED BY <2>1, <2>2, <3>1, <3>2
  <2>4. CASE target \notin named
    <3>1. d = down
      BY <2>4
    <3>2. Grown(down, down)
      BY QueuesSelf
    <3> QED BY <1>3, <2>1, <2>2, <2>4, <3>1, <3>2
  <2> QED BY <2>3, <2>4
<1>5. /\ DOMAIN d = Gnb /\ Grown(down, d)
      /\ \A g \in Gnb : IsQueue(d[g]) /\ (Has(d[g], Command) <=> Has(down[g], Command))
      /\ \A h \in named : Leads(m.id, h) => d = Sent(down, h, c)
  BY <1>4
<1> HIDE DEF Middle, n
<1>6. /\ \A g \in Gnb : Has(down'[g], Command) <=> Has(down[g], Command)
      /\ Grown(d, down') /\ Grown(down, down')
  <2>1. \A g \in Gnb : Has(down'[g], Command) <=> Has(d[g], Command)
    BY <1>2, <1>4, <1>5, SentKind
  <2>2. Grown(d, down')
    BY <1>4, <1>5, SentGrows
  <2> QED BY <1>5, <2>1, <2>2 DEF Grown
<1>7. \A g \in Gnb : g # x => SameHandover(g)
  BY <1>1, <1>6, HandledIs DEF SameHandover
<1>8. Goes(x)
  <2>1. Has(up[x], Cancel)
    BY <1>2, MessageTaken DEF Has
  <2> QED BY <1>1, <2>1 DEF Goes, UnderWay
<1>9. ASSUME NEW h \in Gnb \ disturbed', NEW id, HeldBy(x, h, id) PROVE Told(h, id)'
  <2>1. link[x] /\ ho[x].target = h /\ ho[x].id = id /\ h \notin disturbed
    BY <1>1, <1>9, HolderIs
  <2>2. m.id = id
    BY <1>2, <2>1, AskedIs
  <2>3. UnderWay(x)
    BY <1>2, MessageTaken DEF UnderWay, Has
  <2>4. h \in named /\ Leads(id, h)
    BY <2>1, <2>3 DEF ReturnInv, PathAt
  <2>5. d = Sent(down, h, c) /\ c = ReleaseCommand(id)
    BY <1>5, <2>2, <2>4
  <2>6. link[h]
    BY <2>1 DEF HandoverInv, TargetAt
  <2>7. d[h] = Append(down[h], c)
    BY <2>5, <2>6, SentIs
  <2>8. c \in Messages(d[h])
    BY <1>3, <2>7, Appended
  <2> QED BY <1>6, <2>5, <2>8 DEF Told, Grown
<1>10. \A h \in Gnb : Acknowledged(h) => Acknowledged(h)'
  BY <1>1, <1>2, HandledIs DEF Acknowledged
<1>11. ASSUME NEW h \in Gnb \ disturbed', NEW id \in prepared'[h]
       PROVE  /\ id \in prepared[h] /\ (Told(h, id) => Told(h, id)')
              /\ \A g \in Gnb : HeldBy(g, h, id) => HeldBy(g, h, id)' \/ Told(h, id)'
  <2>1. \A g \in Gnb : g # x /\ HeldBy(g, h, id) => HeldBy(g, h, id)'
    BY <1>7, <1>10, SameHeld
  <2>2. Lets(h)
    BY <1>1, <1>6, LetsGrown
  <2> QED BY <1>9, <2>1, <2>2 DEF Lets
<1> QED BY <1>7, <1>8, <1>11, SameGoes DEF Onward, Remains

LEMMA HandoverRequiredOnward ==
    ASSUME HandoverInv, StoresInv, NEW x \in Gnb, HandleMessage(x), NEW answer,
           handle_handover_required(x, Head(up[x]), answer), named' = named
    PROVE  Onward
<1> DEFINE m == Head(up[x])
<1>1. m.type \in Required /\ m.type \in Asks
  BY DEF handle_handover_required, Required, Asks
<1>2. m.target \in Gnb
  BY <1>1, AskedIs
<1>3. CASE UNCHANGED <<relay, busy>> /\ Send(x, PreparationFailure(m.id))
  BY <1>1, <1>3, RefusalOnward
<1>4. CASE /\ m.target \in named /\ cold_lookup(m.id) # 0 /\ UNCHANGED <<security, index>>
           /\ ue_contexts' = [ue_contexts EXCEPT
                                 ![security[cold_lookup(m.id)].ue].target = m.target]
           /\ relay' = [relay EXCEPT ![m.target] = [awaiting |-> TRUE, reply |-> "none"]]
           /\ Send(m.target, [type |-> "HandoverRequest", id |-> m.id])
           /\ busy' = [busy EXCEPT ![x] = [target |-> m.target, id |-> m.id, detached |-> FALSE]]
  BY <1>1, <1>2, <1>4, RequestOnward
<1> QED BY <1>3, <1>4 DEF handle_handover_required

LEMMA HandleMessageOnward ==
    ASSUME HandoverInv, StoresInv, ReturnInv, NEW x \in Gnb, HandleMessage(x)
    PROVE  Onward
<1> DEFINE m == Head(up[x])
<1>1. PICK answer \in Answers : handle_association(x, answer)
  BY DEF HandleMessage
<1>2. \/ handle_ng_setup_request(x, m, answer)
      \/ deliver_reply_if_pending(x, m, answer) /\ UNCHANGED <<named, busy>>
      \/ handle_handover_required(x, m, answer) /\ UNCHANGED named
      \/ handle_handover_cancel(x, m, answer) /\ UNCHANGED <<named, relay, busy>>
      \/ OtherHandler(x, m, answer) /\ UNCHANGED <<named, relay, busy>>
  BY <1>1 DEF handle_association, OtherHandler
<1>3. ASSUME OtherHandler(x, m, answer), UNCHANGED <<named, relay, busy>> PROVE Onward
  <2>1. Elsewhere /\ Grown(down, down') /\ prepared' = prepared
    BY <1>3, HandleOtherKeeps, HandleMessageFacts
  <2> QED BY <2>1, LetsGrown, ElsewhereOnward
<1> QED BY <1>2, <1>3, SetupOnward, ReplyOnward, HandoverRequiredOnward, CancelOnward

LEMMA DeliverOnward ==
    ASSUME HandoverInv, StoresInv, NEW x \in Gnb, Deliver(x)
    PROVE  Onward
<1>1. \/ ReceiveNas(x, Head(down[x])) \/ ReceiveReleaseCommand(x, Head(down[x]))
      \/ ReceivePathSwitch(x, Head(down[x])) \/ ReceiveHandoverRequest(x, Head(down[x]))
      \/ ReceiveHandoverOutcome(x, Head(down[x]))
  BY DEF Deliver
<1> QED BY <1>1, DeliverOtherOnward, HandoverRequestOnward, HandoverOutcomeOnward DEF StoresInv

----------------------------------------------------------------------------
LEMMA ReturnInit == Init => ReturnInv
<1> SUFFICES ASSUME Init PROVE ReturnInv
  OBVIOUS
<1> USE AccessMobilityAssumption
<1>1. \A g \in Gnb : ho[g] = NoHandover /\ prepared[g] = {}
  BY DEF Init
<1>2. \A g \in Gnb : ho[g].target \notin Gnb
  BY <1>1 DEF NoHandover
<1> QED BY <1>1, <1>2 DEF ReturnInv, PathAt, KeptAt

LEMMA ReturnStep ==
    ASSUME HandoverInv, StoresInv, ReturnInv, [Next]_vars
    PROVE  ReturnInv'
<1>1. ASSUME NEW g \in Gnb, HandleMessage(g) PROVE Onward
  BY <1>1, HandleMessageOnward
<1>2. ASSUME NEW g \in Gnb, CloseAssociation(g) PROVE Onward
  BY <1>2, CloseAssociationOnward
<1>3. ASSUME NEW g \in Gnb, Accept(g) PROVE Onward
  BY <1>3, AcceptOnward
<1>4. ASSUME NEW g \in Gnb, Relay(g) \/ TimeOut(g) PROVE Onward
  <2>1. (\E n : WaitEnds(g, n)) /\ prepared' = prepared
    BY <1>4, RelayKeeps, TimeOutKeeps DEF Relay, TimeOut, ranVars
  <2> QED BY <2>1, WaitEndsOnward
<1>5. ASSUME NEW g \in Gnb, Deliver(g) PROVE Onward
  BY <1>5, DeliverOnward
<1>6. ASSUME NEW g \in Gnb, CancelHandover(g) PROVE Onward
  <2>1. (\E m : GivesUp(g, m)) /\ prepared' = prepared
    BY <1>6, CancelHandoverKeeps DEF CancelHandover
  <2> QED BY <2>1, GivesUpOnward
<1>7. ASSUME NEW g \in Gnb, LoseAssociation(g) PROVE Onward
  BY <1>7, LoseAssociationOnward DEF StoresInv
<1>8. ASSUME NEW u \in UE, LoseRadio(u) PROVE Onward
  <2>1. down' = down /\ prepared' = prepared
    BY <1>8 DEF LoseRadio
  <2>2. Grown(down, down)
    BY QueuesSelf
  <2>3. CASE Elsewhere
    BY <2>1, <2>2, <2>3, LetsGrown, ElsewhereOnward
  <2>4. ASSUME NEW g \in Gnb, \E m : GivesUp(g, m) PROVE Onward
    BY <2>1, <2>4, GivesUpOnward
  <2> QED BY <1>8, <2>3, <2>4, LoseRadioKeeps
<1>9. ASSUME NEW u \in UE, ExecuteHandover(u) PROVE Onward
  BY <1>9, ExecuteHandoverOnward DEF StoresInv
<1>10. ASSUME NEW u \in UE, NEW g \in Gnb, RequireHandover(u, g) PROVE Onward
  BY <1>10, RequireHandoverOnward
<1>11. ASSUME \/ \E u \in UE, g \in Gnb : \/ StartRegistration(u, g) \/ StartService(u, g)
                                         \/ SwitchPath(u, g)
              \/ \E u \in UE : CompleteRegistration(u) \/ RequestPduSession(u) \/ Transfer(u)
              \/ HomeNetwork \/ UNCHANGED vars
       PROVE  Onward
  BY <1>11, QuietOnward DEF StoresInv
<1>12. CASE Restart
  <2>1. /\ \A g \in Gnb : ho'[g] = NoHandover
        /\ disturbed' = Gnb
    BY <1>12 DEF Restart
  <2> QED BY <2>1 DEF ReturnInv, PathAt
<1>13. Onward \/ Restart
  BY <1>1, <1>2, <1>3, <1>4, <1>5, <1>6, <1>7, <1>8, <1>9, <1>10, <1>11 DEF Next
<1> QED BY <1>12, <1>13, OnwardKeeps

(* ReservationReturned for any number of UEs, gNBs and events: once        *)
(* nothing is under way any more, a target holds nothing of a handover     *)
(* that was refused, cancelled or completed, although the AMF keeps no     *)
(* record of the handover itself: it finds the target of a HandoverCancel  *)
(* through the index of ids and the UE context (handle_handover_cancel),   *)
(* which other registrations, handovers and releases rewrite in between.   *)
THEOREM ReservationsReturn == Spec => []ReservationReturned
<1> DEFINE IInv == HandoverInv /\ StoresInv /\ ReturnInv
<1>1. Init => IInv
  BY HandoverInit, StoresInit, ReturnInit
<1>2. IInv /\ [Next]_vars => IInv'
  BY HandoverStep, StoresStep, ReturnStep
<1>3. IInv => ReservationReturned
  <2> USE AccessMobilityAssumption
  <2> SUFFICES ASSUME IInv, Quiet, \A g \in Gnb : ho[g] = NoHandover,
                      NEW h \in Gnb \ disturbed
               PROVE  prepared[h] = {}
    BY DEF ReservationReturned
  <2>1. KeptAt(h)
    BY DEF ReturnInv
  <2>2. ASSUME NEW id, Told(h, id) PROVE FALSE
    BY <2>2, EmptyQueue DEF Told, Quiet
  <2>3. ASSUME NEW g \in Gnb, NEW id, HeldBy(g, h, id) PROVE FALSE
    BY <2>3 DEF HeldBy, NoHandover
  <2> QED BY <2>1, <2>2, <2>3 DEF KeptAt, Told
<1> QED BY <1>1, <1>2, <1>3, PTL DEF Spec

=============================================================================
