-------------------------- MODULE InputBrokerProofs --------------------------
(***************************************************************************)
(* Proofs about InputBroker for any terminals, calls, workers and channel  *)
(* size: type correctness, then one inductive invariant from which the     *)
(* safety properties follow.                                               *)
(***************************************************************************)
EXTENDS InputBroker, TLAPS

(* The table and the workers agree: a worker that is not gone serves one   *)
(* terminal, and is that terminal's worker.                                *)
TableInv ==
    /\ \A s \in Sessions : worker[s] # None => serves[worker[s]] = s /\ wpc[worker[s]] # "gone"
    /\ \A w \in Workers : wpc[w] # "gone" => serves[w] # None /\ worker[serves[w]] = w

(* A blocked caller holds the mutex, and so its worker stays.              *)
LockInv == \A r \in Requests : pc[r] = "blocked" => lock = r /\ worker[SessionOf[r]] # None

(* What a worker holds where it is.                                        *)
ListsInv == \A w \in Workers :
    /\ wpc[w] = "gone" => incoming[w] = <<>>
    /\ wpc[w] \in {"gone", "idle", "retire"} => interrupts[w] = <<>> /\ normal[w] = <<>>
    /\ wpc[w] \in {"collect", "execute"} => interrupts[w] # <<>> \/ normal[w] # <<>>
    /\ current[w] # None <=> wpc[w] = "run"

Waiting(w) == ToSet(incoming[w]) \cup ToSet(interrupts[w]) \cup ToSet(normal[w])

(* Every list holds accepted requests of the worker's own terminal that    *)
(* nobody has begun, each in the list of its priority.                     *)
ContentsInv == \A w \in Workers :
    /\ \A r \in Waiting(w) : r \in ToSet(arrivals) \ begun /\ SessionOf[r] = serves[w]
    /\ ToSet(interrupts[w]) \subseteq Urgent
    /\ ToSet(normal[w]) \cap Urgent = {}
    /\ current[w] # None => /\ current[w] \in begun /\ SessionOf[current[w]] = serves[w]
                            /\ answer[current[w]] = None

NoRepeats(order) == \A i, j \in DOMAIN order : order[i] = order[j] => i = j

(* A request is accepted once, and until it is answered a worker has it.   *)
AcceptedInv ==
    /\ \A r \in Requests : r \in ToSet(arrivals) => pc[r] \in {"wait", "ok", "failed"}
    /\ \A r \in Requests : pc[r] = "wait" => r \in ToSet(arrivals)
    /\ \A r \in Requests : pc[r] = "ok" => answer[r] = "ok"
    /\ \A r \in Requests : answer[r] # None => r \in begun
    /\ NoRepeats(arrivals)
    /\ begun \subseteq ToSet(arrivals)
    /\ \A r \in ToSet(arrivals) \ begun :
          worker[SessionOf[r]] # None /\ r \in Waiting(worker[SessionOf[r]])
    /\ \A r \in begun : answer[r] # None \/ \E w \in Workers : current[w] = r

(* Lists are in the order of arrival, and what a worker collected arrived  *)
(* before what is still in its channel.                                    *)
Before(order, q, r) == \E i, j \in DOMAIN order : i < j /\ order[i] = q /\ order[j] = r
Sorted(order, list) == \A i, j \in DOMAIN list : i < j => Before(order, list[i], list[j])
OrderInv == \A w \in Workers :
    /\ \A list \in {incoming[w], interrupts[w], normal[w]} : Sorted(arrivals, list)
    /\ \A q \in ToSet(interrupts[w]) \cup ToSet(normal[w]), r \in ToSet(incoming[w]) :
          Before(arrivals, q, r)
BegunInOrder == \A q, r \in Requests :
    /\ Before(arrivals, q, r) /\ r \in begun
    /\ SessionOf[q] = SessionOf[r] /\ (q \in Urgent <=> r \in Urgent)
    => q \in begun

(* An interrupt that was overtaken once is collected before its worker     *)
(* chooses again.                                                          *)
OvertakenInv == \A i \in Urgent :
    /\ overtaken[i] \in {0, 1}
    /\ overtaken[i] = 1 => i \in ToSet(arrivals)
    /\ \A w \in Workers : wpc[w] = "execute" /\ SessionOf[i] = serves[w] /\ overtaken[i] = 1 =>
          i \in begun \cup ToSet(interrupts[w])

(* A follow-up passes the gate only once the first prompt is in or the     *)
(* startup is given up.                                                    *)
FollowsPrompt(s) == gate[s] = "closed" \/ FirstPromptIn(s)
GateInv ==
    /\ \A s \in Sessions : gate[s] \in {"none", "ready"} => FirstPromptIn(s)
    /\ \A r \in Requests \ (Openers \cup Urgent) :
          pc[r] \in {"enqueue", "blocked", "wait"} \/ r \in ToSet(arrivals) =>
              FollowsPrompt(SessionOf[r])

IInv == /\ TypeOK /\ TableInv /\ LockInv /\ ListsInv /\ ContentsInv /\ AcceptedInv
        /\ OrderInv /\ BegunInOrder /\ OvertakenInv /\ GateInv
-----------------------------------------------------------------------------
(* Elements of the sequences the broker builds and takes apart.            *)

LEMMA AppendElements ==
    ASSUME NEW S, NEW s \in Seq(S), NEW e \in S
    PROVE  ToSet(Append(s, e)) = ToSet(s) \cup {e}
<1>1. /\ Len(s) \in Nat /\ DOMAIN s = 1 .. Len(s) /\ DOMAIN Append(s, e) = 1 .. Len(s) + 1
      /\ \A i \in 1 .. Len(s) : Append(s, e)[i] = s[i]
      /\ Append(s, e)[Len(s) + 1] = e
  OBVIOUS
<1>2. ASSUME NEW x \in ToSet(Append(s, e)) PROVE x \in ToSet(s) \cup {e}
  <2>1. PICK i \in 1 .. Len(s) + 1 : x = Append(s, e)[i]
    BY <1>1 DEF ToSet
  <2>2. i = Len(s) + 1 \/ i \in DOMAIN s
    BY <1>1
  <2>3. QED
    BY <1>1, <2>1, <2>2 DEF ToSet
<1>3. ASSUME NEW x \in ToSet(s) PROVE x \in ToSet(Append(s, e))
  <2>1. PICK i \in 1 .. Len(s) : x = s[i]
    BY <1>1 DEF ToSet
  <2>2. i \in DOMAIN Append(s, e) /\ x = Append(s, e)[i]
    BY <1>1, <2>1
  <2>3. QED
    BY <2>2 DEF ToSet
<1>4. e \in ToSet(Append(s, e))
  <2>1. Len(s) + 1 \in DOMAIN Append(s, e)
    BY <1>1
  <2>2. QED
    BY <1>1, <2>1 DEF ToSet
<1>5. QED
  BY <1>2, <1>3, <1>4

LEMMA TailElements ==
    ASSUME NEW S, NEW s \in Seq(S), s # <<>>
    PROVE  /\ Head(s) \in S /\ Tail(s) \in Seq(S)
           /\ ToSet(s) = {Head(s)} \cup ToSet(Tail(s))
<1>1. /\ Head(s) \in S /\ Tail(s) \in Seq(S) /\ Len(s) \in Nat /\ Len(s) > 0
      /\ Len(Tail(s)) = Len(s) - 1 /\ Head(s) = s[1]
      /\ \A i \in 1 .. Len(s) - 1 : Tail(s)[i] = s[i + 1]
      /\ DOMAIN s = 1 .. Len(s) /\ DOMAIN Tail(s) = 1 .. Len(s) - 1
  OBVIOUS
<1>2. ASSUME NEW x \in ToSet(s) PROVE x \in {Head(s)} \cup ToSet(Tail(s))
  <2>1. PICK i \in 1 .. Len(s) : x = s[i]
    BY <1>1 DEF ToSet
  <2>2. CASE i = 1
    BY <1>1, <2>1, <2>2
  <2>3. CASE i # 1
    <3>1. i - 1 \in 1 .. Len(s) - 1 /\ Tail(s)[i - 1] = x
      BY <1>1, <2>1, <2>3
    <3>2. QED
      BY <1>1, <3>1 DEF ToSet
  <2>4. QED
    BY <2>2, <2>3
<1>3. ASSUME NEW x \in {Head(s)} \cup ToSet(Tail(s)) PROVE x \in ToSet(s)
  <2>1. CASE x = Head(s)
    <3>1. 1 \in DOMAIN s /\ x = s[1]
      BY <1>1, <2>1
    <3>2. QED
      BY <3>1 DEF ToSet
  <2>2. CASE x \in ToSet(Tail(s))
    <3>1. PICK i \in 1 .. Len(s) - 1 : x = Tail(s)[i]
      BY <1>1, <2>2 DEF ToSet
    <3>2. i + 1 \in DOMAIN s /\ x = s[i + 1]
      BY <1>1, <3>1
    <3>3. QED
      BY <3>2 DEF ToSet
  <2>3. QED
    BY <1>3, <2>1, <2>2
<1>4. QED
  BY <1>1, <1>2, <1>3

LEMMA NoElements == ToSet(<<>>) = {}
  BY DEF ToSet

LEMMA SomeElement ==
    ASSUME NEW S, NEW s \in Seq(S), ToSet(s) = {}
    PROVE  s = <<>>
<1>1. ASSUME s # <<>> PROVE FALSE
  <2>1. ToSet(s) = {Head(s)} \cup ToSet(Tail(s))
    BY <1>1, TailElements
  <2>2. QED
    BY <2>1
<1>2. QED
  BY <1>1

LEMMA ElementsType ==
    ASSUME NEW S, NEW s \in Seq(S)
    PROVE  ToSet(s) \subseteq S
  BY DEF ToSet

(* Who arrived before stays so when another request is accepted.           *)
LEMMA BeforeGrows ==
    ASSUME NEW S, NEW order \in Seq(S), NEW r \in S
    PROVE  /\ \A p, q : Before(order, p, q) => Before(Append(order, r), p, q)
           /\ \A q \in ToSet(order) : Before(Append(order, r), q, r)
           /\ \A list : Sorted(order, list) => Sorted(Append(order, r), list)
<1> DEFINE more == Append(order, r)
<1>1. /\ DOMAIN order = 1 .. Len(order) /\ DOMAIN more = 1 .. Len(order) + 1
      /\ Len(order) \in Nat /\ more[Len(order) + 1] = r
      /\ \A i \in 1 .. Len(order) : more[i] = order[i]
  OBVIOUS
<1> HIDE DEF more
<1>2. ASSUME NEW p, NEW q, Before(order, p, q) PROVE Before(more, p, q)
  <2>1. PICK i, j \in 1 .. Len(order) : i < j /\ order[i] = p /\ order[j] = q
    BY <1>1, <1>2 DEF Before
  <2>2. i \in DOMAIN more /\ j \in DOMAIN more /\ more[i] = p /\ more[j] = q
    BY <1>1, <2>1
  <2>3. QED
    BY <2>1, <2>2 DEF Before
<1>3. ASSUME NEW q \in ToSet(order) PROVE Before(more, q, r)
  <2>1. PICK i \in 1 .. Len(order) : order[i] = q
    BY <1>1, <1>3 DEF ToSet
  <2>2. /\ i \in DOMAIN more /\ Len(order) + 1 \in DOMAIN more /\ i < Len(order) + 1
        /\ more[i] = q
    BY <1>1, <2>1
  <2>3. QED
    BY <1>1, <2>2 DEF Before
<1>4. QED
  BY <1>2, <1>3 DEF Sorted, more

(* A list stays sorted when its head leaves or a later arrival joins.      *)
LEMMA SortedTail ==
    ASSUME NEW S, NEW order, NEW s \in Seq(S), s # <<>>, Sorted(order, s)
    PROVE  /\ Sorted(order, Tail(s))
           /\ \A r \in ToSet(Tail(s)) : Before(order, Head(s), r)
<1>1. /\ Len(s) \in Nat /\ Len(s) > 0 /\ Head(s) = s[1]
      /\ \A i \in 1 .. Len(s) - 1 : Tail(s)[i] = s[i + 1]
      /\ DOMAIN s = 1 .. Len(s) /\ DOMAIN Tail(s) = 1 .. Len(s) - 1
  OBVIOUS
<1>2. ASSUME NEW i \in DOMAIN Tail(s), NEW j \in DOMAIN Tail(s), i < j
      PROVE  Before(order, Tail(s)[i], Tail(s)[j])
  <2>1. i + 1 \in DOMAIN s /\ j + 1 \in DOMAIN s /\ i + 1 < j + 1
    BY <1>1, <1>2
  <2>2. Before(order, s[i + 1], s[j + 1])
    BY <2>1 DEF Sorted
  <2>3. QED
    BY <1>1, <2>2
<1>3. ASSUME NEW r \in ToSet(Tail(s)) PROVE Before(order, Head(s), r)
  <2>1. PICK i \in DOMAIN Tail(s) : r = Tail(s)[i]
    BY DEF ToSet
  <2>2. 1 \in DOMAIN s /\ i + 1 \in DOMAIN s /\ 1 < i + 1 /\ r = s[i + 1]
    BY <1>1, <2>1
  <2>3. Before(order, s[1], s[i + 1])
    BY <2>2 DEF Sorted
  <2>4. QED
    BY <1>1, <2>2, <2>3
<1>4. QED
  BY <1>2, <1>3 DEF Sorted

LEMMA SortedAppend ==
    ASSUME NEW S, NEW order, NEW s \in Seq(S), NEW r \in S, Sorted(order, s),
           \A q \in ToSet(s) : Before(order, q, r)
    PROVE  Sorted(order, Append(s, r))
<1>1. /\ Len(s) \in Nat /\ DOMAIN s = 1 .. Len(s) /\ DOMAIN Append(s, r) = 1 .. Len(s) + 1
      /\ \A i \in 1 .. Len(s) : Append(s, r)[i] = s[i]
      /\ Append(s, r)[Len(s) + 1] = r
  OBVIOUS
<1>2. ASSUME NEW i \in DOMAIN Append(s, r), NEW j \in DOMAIN Append(s, r), i < j
      PROVE  Before(order, Append(s, r)[i], Append(s, r)[j])
  <2>1. i \in DOMAIN s /\ Append(s, r)[i] = s[i]
    BY <1>1, <1>2
  <2>2. CASE j = Len(s) + 1
    <3>1. s[i] \in ToSet(s)
      BY <2>1 DEF ToSet
    <3>2. QED
      BY <1>1, <2>1, <2>2, <3>1
  <2>3. CASE j # Len(s) + 1
    <3>1. j \in DOMAIN s /\ Append(s, r)[j] = s[j]
      BY <1>1, <2>3
    <3>2. QED
      BY <1>2, <2>1, <3>1 DEF Sorted
  <2>4. QED
    BY <2>2, <2>3
<1>3. QED
  BY <1>2 DEF Sorted

(* Arrivals are a linear order.                                            *)
LEMMA BeforeIsStrict ==
    ASSUME NEW order, NoRepeats(order), DOMAIN order \subseteq Nat,
           NEW q, NEW r, Before(order, q, r)
    PROVE  q # r /\ ~Before(order, r, q) /\ q \in ToSet(order) /\ r \in ToSet(order)
<1>1. PICK i, j \in DOMAIN order : i < j /\ order[i] = q /\ order[j] = r
  BY DEF Before
<1>2. q # r
  BY <1>1 DEF NoRepeats
<1>3. ASSUME Before(order, r, q) PROVE FALSE
  <2>1. PICK k, l \in DOMAIN order : k < l /\ order[k] = r /\ order[l] = q
    BY <1>3 DEF Before
  <2>2. k = j /\ l = i
    BY <1>1, <2>1 DEF NoRepeats
  <2>3. QED
    BY <1>1, <2>1, <2>2
<1>4. QED
  BY <1>1, <1>2, <1>3 DEF ToSet

LEMMA NoRepeatsAppend ==
    ASSUME NEW S, NEW order \in Seq(S), NEW r \in S, NoRepeats(order), r \notin ToSet(order)
    PROVE  NoRepeats(Append(order, r))
<1> DEFINE more == Append(order, r)
<1>1. /\ DOMAIN order = 1 .. Len(order) /\ DOMAIN more = 1 .. Len(order) + 1
      /\ Len(order) \in Nat /\ more[Len(order) + 1] = r
      /\ \A i \in 1 .. Len(order) : more[i] = order[i]
  OBVIOUS
<1> HIDE DEF more
<1>2. \A i \in 1 .. Len(order) : more[i] # r
  BY <1>1 DEF ToSet
<1>3. NoRepeats(more)
  BY <1>1, <1>2 DEF NoRepeats
<1>4. QED
  BY <1>3 DEF more

-----------------------------------------------------------------------------
LEMMA InitInv == Init => IInv
<1> SUFFICES ASSUME Init PROVE IInv
  OBVIOUS
<1> USE RequestsAssumption
<1>1. TypeOK
  BY CapacityAssumption DEF Init, TypeOK
<1>2. TableInv /\ LockInv /\ ListsInv
  BY DEF Init, TableInv, LockInv, ListsInv
<1>3. ContentsInv /\ AcceptedInv
  BY NoElements DEF Init, ContentsInv, AcceptedInv, Waiting, NoRepeats
<1>4. OrderInv /\ BegunInOrder
  BY NoElements DEF Init, OrderInv, BegunInOrder, Sorted
<1>5. OvertakenInv
  BY DEF Init, OvertakenInv
<1>6. GateInv
  BY NoElements DEF Init, GateInv, FirstPromptIn
<1>7. QED
  BY <1>1, <1>2, <1>3, <1>4, <1>5, <1>6 DEF IInv

(* Steps that leave the workers alone keep what is said of them.           *)
LEMMA WorkersKept ==
    ASSUME IInv, UNCHANGED <<pool, wpc, queues, answer, history>>
    PROVE  /\ TableInv' /\ ListsInv' /\ ContentsInv' /\ OrderInv' /\ BegunInOrder' /\ OvertakenInv'
<1> USE DEF IInv, pool, queues, history
<1>1. TableInv' /\ ListsInv'
  BY DEF TableInv, ListsInv
<1>2. ContentsInv'
  BY DEF ContentsInv, Waiting
<1>3. OrderInv' /\ BegunInOrder' /\ OvertakenInv'
  BY DEF OrderInv, BegunInOrder, OvertakenInv
<1>4. QED
  BY <1>1, <1>2, <1>3

(* The steps of a call outside the critical section.                       *)
LEMMA CallInv ==
    ASSUME IInv, NEW r \in Requests, Do(r) \/ GateOpens(r) \/ Return(r) \/ Expire(r)
    PROVE  IInv'
<1> USE DEF IInv
<1>1. UNCHANGED <<lock, pool, wpc, queues, answer, gate, history>>
  BY DEF Do, GateOpens, Return, Expire
<1>2. \/ UNCHANGED pc
      \/ pc[r] = "new" /\ Goto(r, IF Gated(r) THEN "gate" ELSE "enqueue")
      \/ pc[r] = "gate" /\ gate[SessionOf[r]] \in {"ready", "none"} /\ Goto(r, "enqueue")
      \/ pc[r] = "gate" /\ Goto(r, "failed")
      \/ pc[r] = "wait" /\ Goto(r, "failed")
      \/ pc[r] = "wait" /\ answer[r] # None /\ Goto(r, answer[r])
  BY DEF Do, GateOpens, Return, Expire
<1>3. expired' \subseteq Requests
  BY DEF Do, GateOpens, Return, Expire, TypeOK
<1>4. answer[r] \in {None, "ok", "failed"}
  BY DEF TypeOK
<1>5. pc' \in [Requests -> {"new", "gate", "enqueue", "blocked", "wait", "ok", "failed"}]
  BY <1>2, <1>4 DEF TypeOK, Goto
<1>6. /\ \A q \in Requests : pc'[q] = "blocked" => pc[q] = "blocked"
      /\ \A q \in Requests : pc'[q] = "wait" => pc[q] = "wait"
      /\ \A q \in Requests : pc'[q] = "ok" => pc[q] = "ok" \/ answer[q] = "ok"
      /\ \A q \in Requests : pc[q] \in {"wait", "ok", "failed"} => pc'[q] \in {"wait", "ok", "failed"}
      /\ \A q \in Requests : pc'[q] = "enqueue" =>
            \/ pc[q] = "enqueue"
            \/ q = r /\ pc[r] = "new" /\ ~Gated(r)
            \/ q = r /\ gate[SessionOf[r]] \in {"ready", "none"}
  BY <1>2, <1>4 DEF TypeOK, Goto
<1>7. TypeOK'
  BY <1>1, <1>3, <1>5 DEF TypeOK, pool, queues, history
<1>8. LockInv'
  BY <1>1, <1>6 DEF LockInv, pool
<1>9. AcceptedInv'
  BY <1>1, <1>6 DEF AcceptedInv, pool, queues, history, Waiting
<1>10. GateInv'
  <2>1. \A s : FirstPromptIn(s)' = FirstPromptIn(s) /\ FollowsPrompt(s)' = FollowsPrompt(s)
    BY <1>1 DEF FirstPromptIn, FollowsPrompt
  <2>2. SessionOf[r] \in Sessions /\ gate[SessionOf[r]] \in {"none", "starting", "ready", "closed"}
    BY RequestsAssumption DEF TypeOK
  <2>3. ASSUME NEW q \in Requests \ (Openers \cup Urgent),
               pc'[q] \in {"enqueue", "blocked", "wait"} \/ q \in ToSet(arrivals')
        PROVE  FollowsPrompt(SessionOf[q])
    <3>1. CASE pc'[q] \in {"blocked", "wait"} \/ q \in ToSet(arrivals') \/ pc[q] = "enqueue"
      BY <1>1, <1>6, <2>3, <3>1 DEF GateInv, history
    <3>2. CASE q = r /\ pc[r] = "new" /\ ~Gated(r)
      BY <2>2, <2>3, <3>2 DEF Gated, GateInv, FollowsPrompt
    <3>3. CASE q = r /\ gate[SessionOf[r]] \in {"ready", "none"}
      BY <2>2, <2>3, <3>3 DEF GateInv, FollowsPrompt
    <3>4. QED
      BY <1>6, <2>3, <3>1, <3>2, <3>3
  <2>4. QED
    BY <1>1, <2>1, <2>3 DEF GateInv
<1>11. QED
  BY <1>1, <1>7, <1>8, <1>9, <1>10, WorkersKept

-----------------------------------------------------------------------------
(* The critical section of enqueue.                                        *)

(* A worker that was just started has nothing to do yet.                   *)
LEMMA WorkerStarts ==
    ASSUME IInv, NEW s \in Sessions, NEW w \in Workers, WorkerOf(s, w)
    PROVE  /\ TableInv'
           /\ worker' \in [Sessions -> Workers \cup {None}]
           /\ serves' \in [Workers -> Sessions \cup {None}]
           /\ wpc' \in [Workers -> {"gone", "idle", "retire", "collect", "execute", "run"}]
           /\ worker'[s] = w /\ serves'[w] = s
           /\ \A u \in Sessions : worker[u] # None => worker'[u] = worker[u]
           /\ \A v \in Workers : \/ wpc'[v] = wpc[v] /\ serves'[v] = serves[v]
                                 \/ /\ wpc[v] = "gone" /\ wpc'[v] = "idle"
                                    /\ incoming[v] = <<>>
           /\ wpc'[w] # "gone"
<1> USE RequestsAssumption DEF IInv
<1>1. CASE worker[s] = w /\ UNCHANGED <<pool, wpc>>
  <2>1. worker' = worker /\ serves' = serves /\ wpc' = wpc
    BY <1>1 DEF pool
  <2>2. w # None
    OBVIOUS
  <2>3. serves[w] = s /\ wpc[w] # "gone"
    BY <1>1, <2>2 DEF TableInv
  <2>4. TableInv'
    BY <2>1 DEF TableInv
  <2>5. QED
    BY <1>1, <2>1, <2>3, <2>4 DEF TypeOK
<1>2. CASE /\ worker[s] = None /\ wpc[w] = "gone"
           /\ worker' = [worker EXCEPT ![s] = w]
           /\ serves' = [serves EXCEPT ![w] = s]
           /\ wpc' = [wpc EXCEPT ![w] = "idle"]
  <2>1. /\ worker' \in [Sessions -> Workers \cup {None}]
        /\ serves' \in [Workers -> Sessions \cup {None}]
        /\ wpc' \in [Workers -> {"gone", "idle", "retire", "collect", "execute", "run"}]
    BY <1>2 DEF TypeOK
  <2>2. /\ worker'[s] = w /\ serves'[w] = s /\ wpc'[w] = "idle"
        /\ \A u \in Sessions \ {s} : worker'[u] = worker[u]
        /\ \A v \in Workers \ {w} : serves'[v] = serves[v] /\ wpc'[v] = wpc[v]
    BY <1>2 DEF TypeOK
  <2>3. incoming[w] = <<>>
    BY <1>2 DEF ListsInv
  <2>4. \A u \in Sessions : worker[u] # w
    BY <1>2 DEF TableInv, TypeOK
  <2>5. \A v \in Workers : wpc[v] # "gone" => serves[v] # s
    BY <1>2 DEF TableInv, TypeOK
  <2>6. \A u \in Sessions : worker[u] \in Workers \cup {None}
    BY DEF TypeOK
  <2>7. \A v \in Workers : serves[v] \in Sessions \cup {None}
    BY DEF TypeOK
  <2>8. s # None /\ w # None
    OBVIOUS
  <2>9. TableInv'
    <3>1. ASSUME NEW u \in Sessions, worker'[u] # None
          PROVE  serves'[worker'[u]] = u /\ wpc'[worker'[u]] # "gone"
      BY <2>2, <2>4, <2>6, <3>1 DEF TableInv
    <3>2. ASSUME NEW v \in Workers, wpc'[v] # "gone"
          PROVE  serves'[v] # None /\ worker'[serves'[v]] = v
      BY <2>2, <2>5, <2>7, <2>8, <3>2 DEF TableInv
    <3>3. QED
      BY <3>1, <3>2 DEF TableInv
  <2>10. QED
    BY <1>2, <2>1, <2>2, <2>3, <2>9
<1>3. QED
  BY <1>1, <1>2 DEF WorkerOf

(* The request is not accepted: its context is done, or there is no room.  *)
LEMMA RefusedInv ==
    ASSUME IInv, NEW r \in Requests, NEW w \in Workers, WorkerOf(SessionOf[r], w),
           pc[r] \in {"enqueue", "blocked"}, lock \in {None, r},
           UNCHANGED <<expired, answer, gate, queues, history>>,
           \/ Goto(r, "failed") /\ lock' = None
           \/ Goto(r, "blocked") /\ lock' = r /\ pc[r] = "enqueue"
    PROVE  IInv'
<1> USE RequestsAssumption DEF IInv
<1> DEFINE s == SessionOf[r]
<1>1. s \in Sessions
  OBVIOUS
<1> HIDE DEF s
<1>2. WorkerOf(s, w)
  BY DEF s
<1>3. /\ TableInv'
      /\ worker' \in [Sessions -> Workers \cup {None}]
      /\ serves' \in [Workers -> Sessions \cup {None}]
      /\ wpc' \in [Workers -> {"gone", "idle", "retire", "collect", "execute", "run"}]
      /\ worker'[s] = w
      /\ \A u \in Sessions : worker[u] # None => worker'[u] = worker[u]
      /\ \A v \in Workers : \/ wpc'[v] = wpc[v] /\ serves'[v] = serves[v]
                            \/ wpc[v] = "gone" /\ wpc'[v] = "idle" /\ incoming[v] = <<>>
  BY <1>1, <1>2, WorkerStarts
<1>4. /\ \A q \in Requests \ {r} : pc'[q] = pc[q]
      /\ pc'[r] \in {"failed", "blocked"}
      /\ pc' \in [Requests -> {"new", "gate", "enqueue", "blocked", "wait", "ok", "failed"}]
  BY DEF Goto, TypeOK
<1>5. TypeOK'
  BY <1>3, <1>4 DEF TypeOK, queues, history
<1>6. LockInv'
  <2>1. ASSUME NEW q \in Requests, pc'[q] = "blocked" PROVE q = r /\ lock' = r
    BY <1>4, <2>1 DEF LockInv, Goto, TypeOK
  <2>2. w # None
    OBVIOUS
  <2>3. QED
    BY <1>3, <2>1, <2>2 DEF LockInv, s
<1>7. ListsInv'
  BY <1>3 DEF ListsInv, queues
<1>8. ContentsInv'
  <2>1. \A v \in Workers : wpc[v] = "gone" => Waiting(v) = {} /\ current[v] = None
    BY NoElements DEF ListsInv, Waiting
  <2>2. \A v \in Workers : Waiting(v)' = Waiting(v)
    BY DEF Waiting, queues
  <2>3. QED
    BY <1>3, <2>1, <2>2 DEF ContentsInv, queues, history
<1>9. AcceptedInv'
  <2>1. \A q \in ToSet(arrivals) : q # r
    BY ElementsType DEF AcceptedInv, TypeOK
  <2>2. \A v : Waiting(v)' = Waiting(v)
    BY DEF Waiting, queues
  <2>3. \A q \in ToSet(arrivals) : SessionOf[q] \in Sessions
    BY ElementsType DEF TypeOK
  <2>4. UNCHANGED <<arrivals, begun, current>>
    BY DEF history, queues
  <2>5. ASSUME NEW q \in ToSet(arrivals) \ begun
        PROVE  worker'[SessionOf[q]] # None /\ q \in Waiting(worker'[SessionOf[q]])
    BY <1>3, <2>3 DEF AcceptedInv
  <2>6. QED
    BY <1>4, <2>1, <2>2, <2>4, <2>5 DEF AcceptedInv
<1>10. OrderInv' /\ BegunInOrder'
  BY DEF OrderInv, BegunInOrder, queues, history
<1>11. OvertakenInv'
  BY <1>3 DEF OvertakenInv, queues, history
<1>12. GateInv'
  <2>1. \A u : FirstPromptIn(u)' = FirstPromptIn(u) /\ FollowsPrompt(u)' = FollowsPrompt(u)
    BY DEF FirstPromptIn, FollowsPrompt
  <2>2. ASSUME NEW q \in Requests,
               pc'[q] \in {"enqueue", "blocked", "wait"} \/ q \in ToSet(arrivals)'
        PROVE  pc[q] \in {"enqueue", "blocked", "wait"} \/ q \in ToSet(arrivals)
    BY <1>4, <2>2 DEF history
  <2>3. QED
    BY <2>1, <2>2 DEF GateInv
<1>13. QED
  BY <1>3, <1>5, <1>6, <1>7, <1>8, <1>9, <1>10, <1>11, <1>12

(* The request is accepted: it is the last arrival, in its worker's hands. *)
LEMMA AcceptedPush ==
    ASSUME IInv, NEW r \in Requests, NEW w \in Workers, WorkerOf(SessionOf[r], w),
           pc[r] \in {"enqueue", "blocked"}, lock \in {None, r}, HasRoom(w),
           Push(r, w), Goto(r, "wait"), lock' = None, UNCHANGED <<expired, answer, gate>>
    PROVE  IInv'
<1> USE RequestsAssumption DEF IInv
<1> DEFINE s == SessionOf[r]
<1>1. s \in Sessions
  OBVIOUS
<1> HIDE DEF s
<1>2. WorkerOf(s, w)
  BY DEF s
<1>3. /\ TableInv'
      /\ worker' \in [Sessions -> Workers \cup {None}]
      /\ serves' \in [Workers -> Sessions \cup {None}]
      /\ wpc' \in [Workers -> {"gone", "idle", "retire", "collect", "execute", "run"}]
      /\ worker'[s] = w /\ serves'[w] = s /\ wpc'[w] # "gone"
      /\ \A u \in Sessions : worker[u] # None => worker'[u] = worker[u]
      /\ \A v \in Workers : \/ wpc'[v] = wpc[v] /\ serves'[v] = serves[v]
                            \/ wpc[v] = "gone" /\ wpc'[v] = "idle" /\ incoming[v] = <<>>
  BY <1>1, <1>2, WorkerStarts
<1>4. /\ \A q \in Requests \ {r} : pc'[q] = pc[q]
      /\ pc'[r] = "wait"
      /\ pc' \in [Requests -> {"new", "gate", "enqueue", "blocked", "wait", "ok", "failed"}]
  BY DEF Goto, TypeOK
<1>5. /\ arrivals \in Seq(Requests) /\ incoming \in [Workers -> Seq(Requests)]
      /\ arrivals' = Append(arrivals, r)
      /\ incoming' \in [Workers -> Seq(Requests)]
      /\ incoming'[w] = Append(incoming[w], r)
      /\ \A v \in Workers \ {w} : incoming'[v] = incoming[v]
      /\ UNCHANGED <<begun, overtaken, interrupts, normal, current, expired, answer, gate>>
  BY DEF Push, TypeOK
<1>6. /\ ToSet(arrivals') = ToSet(arrivals) \cup {r}
      /\ ToSet(incoming'[w]) = ToSet(incoming[w]) \cup {r}
  BY <1>5, AppendElements
<1>7. r \notin ToSet(arrivals) /\ r \notin begun /\ ToSet(arrivals) \subseteq Requests
  BY <1>5, ElementsType DEF AcceptedInv
<1>8. /\ Waiting(w)' = Waiting(w) \cup {r}
      /\ \A v \in Workers \ {w} : Waiting(v)' = Waiting(v)
      /\ \A v \in Workers : Waiting(v) \subseteq ToSet(arrivals)
      /\ \A v \in Workers : Waiting(v) \subseteq Waiting(v)'
  BY <1>5, <1>6 DEF Waiting, ContentsInv
<1>9. TypeOK'
  <2>1. arrivals' \in Seq(Requests)
    BY <1>5
  <2>2. /\ Len(incoming'[w]) <= Capacity
        /\ \A v \in Workers : Len(incoming'[v]) <= Capacity
    <3>1. Len(incoming[w]) \in Nat /\ Len(incoming'[w]) = Len(incoming[w]) + 1
      BY <1>5
    <3>2. Len(incoming'[w]) <= Capacity
      BY <3>1, CapacityAssumption DEF HasRoom
    <3>3. QED
      BY <1>5, <3>2 DEF TypeOK
  <2>3. lock' \in Requests \cup {None}
    OBVIOUS
  <2>4. QED
    BY <1>3, <1>4, <1>5, <2>1, <2>2, <2>3 DEF TypeOK
<1>10. LockInv'
  BY <1>4 DEF LockInv
<1>11. ListsInv'
  <2>1. \A v \in Workers : wpc'[v] = "gone" => wpc[v] = "gone" /\ v # w
    BY <1>3
  <2>2. \A v \in Workers : wpc'[v] = wpc[v] \/ (wpc[v] = "gone" /\ wpc'[v] = "idle")
    BY <1>3
  <2>3. QED
    BY <1>5, <2>1, <2>2 DEF ListsInv
<1>12. ContentsInv'
  <2>1. \A v \in Workers : wpc[v] = "gone" => Waiting(v) = {} /\ current[v] = None
    BY NoElements DEF ListsInv, Waiting
  <2>2. \A v \in Workers : Waiting(v) # {} \/ current[v] # None => serves'[v] = serves[v]
    BY <1>3, <2>1
  <2>3. ASSUME NEW v \in Workers, NEW q \in Waiting(v)'
        PROVE  q \in ToSet(arrivals') \ begun' /\ SessionOf[q] = serves'[v]
    <3>1. CASE q \in Waiting(v)
      BY <1>5, <1>6, <2>2, <3>1 DEF ContentsInv
    <3>2. CASE q = r /\ v = w
      BY <1>3, <1>5, <1>6, <1>7, <3>2 DEF s
    <3>3. QED
      BY <1>8, <2>3, <3>1, <3>2
  <2>4. QED
    BY <1>5, <2>2, <2>3 DEF ContentsInv
<1>13. AcceptedInv'
  <2>1. NoRepeats(arrivals')
    BY <1>5, <1>7, NoRepeatsAppend DEF AcceptedInv
  <2>2. begun' \subseteq ToSet(arrivals')
    BY <1>5, <1>6 DEF AcceptedInv
  <2>3. ASSUME NEW q \in ToSet(arrivals') \ begun'
        PROVE  worker'[SessionOf[q]] # None /\ q \in Waiting(worker[SessionOf[q]])'
    <3>1. CASE q = r
      BY <1>3, <1>8, <3>1 DEF s
    <3>2. CASE q \in ToSet(arrivals)
      <4>1. SessionOf[q] \in Sessions
        BY <1>7, <3>2
      <4>2. worker[SessionOf[q]] # None /\ q \in Waiting(worker[SessionOf[q]])
        BY <1>5, <2>3, <3>2 DEF AcceptedInv
      <4>3. worker'[SessionOf[q]] = worker[SessionOf[q]] /\ worker[SessionOf[q]] \in Workers
        BY <1>3, <4>1, <4>2 DEF TypeOK
      <4>4. Waiting(worker[SessionOf[q]])' = Waiting(worker[SessionOf[q]])
            \/ Waiting(worker[SessionOf[q]])' = Waiting(worker[SessionOf[q]]) \cup {r}
        BY <1>8, <4>3 DEF Waiting
      <4>5. QED
        BY <4>2, <4>3, <4>4
    <3>3. QED
      BY <1>6, <2>3, <3>1, <3>2
  <2>4. (/\ \A q \in Requests : q \in ToSet(arrivals) => pc[q] \in {"wait", "ok", "failed"}
         /\ \A q \in Requests : pc[q] = "wait" => q \in ToSet(arrivals)
         /\ \A q \in Requests : pc[q] = "ok" => answer[q] = "ok"
         /\ \A q \in Requests : answer[q] # None => q \in begun)'
    BY <1>4, <1>5, <1>6 DEF AcceptedInv
  <2>5. \A q \in begun' : answer'[q] # None \/ \E v \in Workers : current'[v] = q
    BY <1>5 DEF AcceptedInv
  <2>6. (\A q \in ToSet(arrivals) \ begun :
           worker[SessionOf[q]] # None /\ q \in Waiting(worker[SessionOf[q]]))'
    BY <2>3
  <2>7. QED
    BY <2>1, <2>2, <2>4, <2>5, <2>6, Zenon DEF AcceptedInv
<1>14. OrderInv'
  <2>1. /\ \A p, q : Before(arrivals, p, q) => Before(arrivals', p, q)
        /\ \A q \in ToSet(arrivals) : Before(arrivals', q, r)
        /\ \A list : Sorted(arrivals, list) => Sorted(arrivals', list)
    BY <1>5, BeforeGrows
  <2>2. ASSUME NEW v \in Workers
        PROVE  /\ Sorted(arrivals', incoming'[v])
               /\ \A q \in ToSet(interrupts[v]) \cup ToSet(normal[v]), p \in ToSet(incoming'[v]) :
                      Before(arrivals', q, p)
    <3>1. CASE v = w
      <4>1. Sorted(arrivals', incoming[w])
        BY <2>1 DEF OrderInv
      <4>2. \A q \in ToSet(incoming[w]) \cup ToSet(interrupts[w]) \cup ToSet(normal[w]) :
              Before(arrivals', q, r)
        BY <1>8, <2>1 DEF Waiting
      <4>3. incoming[w] \in Seq(Requests)
        BY <1>5
      <4>4. Sorted(arrivals', incoming'[w])
        BY <1>5, <4>1, <4>2, <4>3, SortedAppend
      <4>5. QED
        BY <1>6, <2>1, <3>1, <4>2, <4>4 DEF OrderInv
    <3>2. CASE v # w
      BY <1>5, <2>1, <3>2 DEF OrderInv
    <3>3. QED
      BY <3>1, <3>2
  <2>3. QED
    BY <1>5, <2>1, <2>2 DEF OrderInv
<1>15. BegunInOrder'
  <2>1. ASSUME NEW q \in Requests, NEW p \in Requests, Before(arrivals', q, p), p \in begun
        PROVE  Before(arrivals, q, p)
    <3>1. PICK i, j \in DOMAIN arrivals' : i < j /\ arrivals'[i] = q /\ arrivals'[j] = p
      BY <2>1 DEF Before
    <3>2. /\ Len(arrivals) \in Nat /\ DOMAIN arrivals = 1 .. Len(arrivals)
          /\ DOMAIN arrivals' = 1 .. Len(arrivals) + 1 /\ arrivals'[Len(arrivals) + 1] = r
          /\ \A k \in DOMAIN arrivals : arrivals'[k] = arrivals[k]
      BY <1>5
    <3>3. j # Len(arrivals) + 1
      BY <1>7, <2>1, <3>1, <3>2
    <3>4. i \in DOMAIN arrivals /\ j \in DOMAIN arrivals
      BY <3>1, <3>2, <3>3
    <3>5. QED
      BY <3>1, <3>2, <3>4 DEF Before
  <2>2. QED
    BY <1>5, <2>1 DEF BegunInOrder
<1>16. OvertakenInv'
  BY <1>3, <1>5, <1>6 DEF OvertakenInv
<1>17. GateInv'
  <2>1. \A u : FirstPromptIn(u)' = FirstPromptIn(u) /\ FollowsPrompt(u)' = FollowsPrompt(u)
    BY <1>5 DEF FirstPromptIn, FollowsPrompt
  <2>2. ASSUME NEW q \in Requests,
               pc'[q] \in {"enqueue", "blocked", "wait"} \/ q \in ToSet(arrivals')
        PROVE  pc[q] \in {"enqueue", "blocked", "wait"} \/ q \in ToSet(arrivals)
    BY <1>4, <1>6, <2>2
  <2>3. QED
    BY <1>5, <2>1, <2>2 DEF GateInv
<1>18. QED
  BY <1>3, <1>9, <1>10, <1>11, <1>12, <1>13, <1>14, <1>15, <1>16, <1>17

LEMMA EnqueueInv ==
    ASSUME IInv, NEW r \in Requests, Enqueue(r) \/ Unblock(r)
    PROVE  IInv'
<1> USE RequestsAssumption
<1>1. CASE Enqueue(r)
  <2>1. PICK w \in Workers :
          /\ WorkerOf(SessionOf[r], w)
          /\ \/ HasRoom(w) /\ Push(r, w) /\ Goto(r, "wait") /\ UNCHANGED lock
             \/ r \in expired /\ Goto(r, "failed") /\ UNCHANGED <<queues, history, lock>>
             \/ /\ ~HasRoom(w) /\ r \notin expired
                /\ lock' = r /\ Goto(r, "blocked") /\ UNCHANGED <<queues, history>>
    BY <1>1 DEF Enqueue
  <2>2. pc[r] = "enqueue" /\ lock = None /\ UNCHANGED <<expired, answer, gate>>
    BY <1>1 DEF Enqueue
  <2>3. CASE HasRoom(w) /\ Push(r, w) /\ Goto(r, "wait") /\ UNCHANGED lock
    BY <2>1, <2>2, <2>3, AcceptedPush
  <2>4. CASE Goto(r, "failed") /\ UNCHANGED <<queues, history, lock>>
    BY <2>1, <2>2, <2>4, RefusedInv
  <2>5. CASE lock' = r /\ Goto(r, "blocked") /\ UNCHANGED <<queues, history>>
    BY <2>1, <2>2, <2>5, RefusedInv
  <2>6. QED
    BY <2>1, <2>3, <2>4, <2>5
<1>2. CASE Unblock(r)
  <2> DEFINE w == worker[SessionOf[r]]
  <2>1. /\ pc[r] = "blocked" /\ lock' = None /\ UNCHANGED <<expired, pool, wpc, answer, gate>>
        /\ \/ HasRoom(w) /\ Push(r, w) /\ Goto(r, "wait")
           \/ Goto(r, "failed") /\ UNCHANGED <<queues, history>>
    BY <1>2 DEF Unblock
  <2>2. lock = r /\ w \in Workers /\ WorkerOf(SessionOf[r], w)
    BY <2>1 DEF IInv, LockInv, TypeOK, WorkerOf
  <2>3. CASE HasRoom(w) /\ Push(r, w) /\ Goto(r, "wait")
    BY <2>1, <2>2, <2>3, AcceptedPush
  <2>4. CASE Goto(r, "failed") /\ UNCHANGED <<queues, history>>
    BY <2>1, <2>2, <2>4, RefusedInv
  <2>5. QED
    BY <2>1, <2>3, <2>4
<1>3. QED
  BY <1>1, <1>2

-----------------------------------------------------------------------------
(* The worker.                                                             *)

(* Taking a request moves it from the channel to the list of its priority. *)
LEMMA TakeInv ==
    ASSUME IInv, NEW w \in Workers, wpc[w] \in {"idle", "collect"},
           Take(w), Continue(w, "collect"),
           UNCHANGED <<calls, lock, pool, current, answer, gate, history>>
    PROVE  IInv'
<1> USE DEF IInv
<1> DEFINE r == Head(incoming[w])
<1>1. /\ UNCHANGED <<pc, expired, lock, worker, serves, current, answer, gate>>
      /\ UNCHANGED <<arrivals, begun, overtaken>>
  BY DEF calls, pool, history
<1>2. /\ incoming[w] \in Seq(Requests) /\ interrupts[w] \in Seq(Requests)
      /\ normal[w] \in Seq(Requests) /\ incoming[w] # <<>>
  BY DEF Take, TypeOK
<1>3. /\ r \in Requests /\ Tail(incoming[w]) \in Seq(Requests)
      /\ ToSet(incoming[w]) = {r} \cup ToSet(Tail(incoming[w]))
  BY <1>2, TailElements
<1> HIDE DEF r
<1>4. /\ incoming' \in [Workers -> Seq(Requests)]
      /\ incoming'[w] = Tail(incoming[w])
      /\ \A v \in Workers \ {w} : incoming'[v] = incoming[v]
  BY <1>3 DEF Take, TypeOK
<1>5. \/ /\ r \in Urgent /\ normal' = normal
         /\ interrupts' = [interrupts EXCEPT ![w] = Append(@, r)]
      \/ /\ r \notin Urgent /\ interrupts' = interrupts
         /\ normal' = [normal EXCEPT ![w] = Append(@, r)]
  BY DEF Take, r
<1>6. /\ interrupts' \in [Workers -> Seq(Requests)] /\ normal' \in [Workers -> Seq(Requests)]
      /\ \A v \in Workers \ {w} : interrupts'[v] = interrupts[v] /\ normal'[v] = normal[v]
  <2>1. interrupts \in [Workers -> Seq(Requests)] /\ normal \in [Workers -> Seq(Requests)]
    BY DEF TypeOK
  <2>2. Append(interrupts[w], r) \in Seq(Requests) /\ Append(normal[w], r) \in Seq(Requests)
    BY <1>2, <1>3
  <2>3. CASE r \in Urgent
    BY <1>5, <2>1, <2>2, <2>3
  <2>4. CASE r \notin Urgent
    BY <1>5, <2>1, <2>2, <2>4
  <2>5. QED
    BY <2>3, <2>4
<1>7. \/ /\ r \in Urgent /\ normal'[w] = normal[w]
         /\ interrupts'[w] = Append(interrupts[w], r)
         /\ ToSet(interrupts'[w]) = ToSet(interrupts[w]) \cup {r}
      \/ /\ r \notin Urgent /\ interrupts'[w] = interrupts[w]
         /\ normal'[w] = Append(normal[w], r)
         /\ ToSet(normal'[w]) = ToSet(normal[w]) \cup {r}
  <2>1. interrupts \in [Workers -> Seq(Requests)] /\ normal \in [Workers -> Seq(Requests)]
    BY DEF TypeOK
  <2>2. /\ ToSet(Append(interrupts[w], r)) = ToSet(interrupts[w]) \cup {r}
        /\ ToSet(Append(normal[w], r)) = ToSet(normal[w]) \cup {r}
    BY <1>2, <1>3, AppendElements
  <2>3. CASE r \in Urgent
    BY <1>5, <2>1, <2>2, <2>3
  <2>4. CASE r \notin Urgent
    BY <1>5, <2>1, <2>2, <2>4
  <2>5. QED
    BY <2>3, <2>4
<1>8. /\ wpc' \in [Workers -> {"gone", "idle", "retire", "collect", "execute", "run"}]
      /\ wpc'[w] = "collect" /\ \A v \in Workers \ {w} : wpc'[v] = wpc[v]
  BY DEF Continue, TypeOK
<1>9. \A v \in Workers : Waiting(v)' = Waiting(v)
  BY <1>3, <1>4, <1>6, <1>7 DEF Waiting
<1>10. TypeOK'
  <2>1. Len(incoming'[w]) <= Capacity
    <3>1. Len(incoming[w]) \in Nat /\ Len(Tail(incoming[w])) = Len(incoming[w]) - 1
      BY <1>2
    <3>2. QED
      BY <1>4, <3>1, CapacityAssumption DEF TypeOK
  <2>2. \A v \in Workers : Len(incoming'[v]) <= Capacity
    BY <1>4, <2>1 DEF TypeOK
  <2>3. QED
    BY <1>1, <1>4, <1>6, <1>8, <2>2 DEF TypeOK
<1>11. TableInv' /\ LockInv'
  BY <1>1, <1>8 DEF TableInv, LockInv, TypeOK
<1>12. ListsInv'
  <2>1. interrupts'[w] # <<>> \/ normal'[w] # <<>>
    BY <1>2, <1>3, <1>7
  <2>2. QED
    BY <1>1, <1>4, <1>6, <1>8, <2>1 DEF ListsInv
<1>13. ContentsInv'
  <2>1. \A v \in Workers : /\ ToSet(interrupts'[v]) \subseteq Urgent
                           /\ ToSet(normal'[v]) \cap Urgent = {}
    <3>1. ToSet(interrupts'[w]) \subseteq Urgent /\ ToSet(normal'[w]) \cap Urgent = {}
      BY <1>7 DEF ContentsInv
    <3>2. QED
      BY <1>6, <3>1 DEF ContentsInv
  <2>2. QED
    BY <1>1, <1>9, <2>1 DEF ContentsInv
<1>14. AcceptedInv'
  <2>1. ASSUME NEW q \in ToSet(arrivals) \ begun
        PROVE  worker[SessionOf[q]] # None /\ q \in Waiting(worker[SessionOf[q]])'
    <3>1. worker[SessionOf[q]] # None /\ q \in Waiting(worker[SessionOf[q]])
      BY DEF AcceptedInv
    <3>2. SessionOf[q] \in Sessions
      BY RequestsAssumption, ElementsType DEF TypeOK
    <3>3. worker[SessionOf[q]] \in Workers
      BY <3>1, <3>2 DEF TypeOK
    <3>4. Waiting(worker[SessionOf[q]])' = Waiting(worker[SessionOf[q]])
      BY <1>1, <1>9, <3>3 DEF Waiting
    <3>5. QED
      BY <3>1, <3>4
  <2>2. (\A q \in ToSet(arrivals) \ begun :
           worker[SessionOf[q]] # None /\ q \in Waiting(worker[SessionOf[q]]))'
    BY <1>1, <2>1
  <2>3. QED
    BY <1>1, <2>2 DEF AcceptedInv
<1>15. OrderInv'
  <2>1. Sorted(arrivals, incoming[w]) /\ Sorted(arrivals, interrupts[w]) /\ Sorted(arrivals, normal[w])
    BY DEF OrderInv
  <2>2. /\ Sorted(arrivals, incoming'[w])
        /\ \A q \in ToSet(incoming'[w]) : Before(arrivals, r, q)
    BY <1>2, <1>4, <2>1, SortedTail DEF r
  <2>3. \A q \in ToSet(interrupts[w]) \cup ToSet(normal[w]) : Before(arrivals, q, r)
    BY <1>3 DEF OrderInv
  <2>4. Sorted(arrivals, interrupts'[w]) /\ Sorted(arrivals, normal'[w])
    BY ZenonT(30), <1>2, <1>3, <1>7, <2>1, <2>3, SortedAppend
  <2>5. \A q \in ToSet(interrupts'[w]) \cup ToSet(normal'[w]), p \in ToSet(incoming'[w]) :
           Before(arrivals, q, p)
    BY <1>3, <1>4, <1>7, <2>2 DEF OrderInv
  <2>6. QED
    BY <1>1, <1>4, <1>6, <2>2, <2>4, <2>5 DEF OrderInv
<1>16. BegunInOrder' /\ GateInv'
  BY <1>1 DEF BegunInOrder, GateInv, FollowsPrompt, FirstPromptIn
<1>17. OvertakenInv'
  BY <1>1, <1>6, <1>8 DEF OvertakenInv
<1>18. QED
  BY <1>10, <1>11, <1>12, <1>13, <1>14, <1>15, <1>16, <1>17

(* The worker moves on without touching a request.  When it has collected, *)
(* its channel is empty: whoever was accepted is in its lists.             *)
LEMMA MoveInv ==
    ASSUME IInv, NEW w \in Workers, TimerFires(w) \/ Collected(w)
    PROVE  IInv'
<1> USE DEF IInv
<1>1. /\ UNCHANGED <<pc, expired, lock, worker, serves, current, answer, gate>>
      /\ UNCHANGED <<arrivals, begun, overtaken, incoming, interrupts, normal>>
  BY DEF TimerFires, Collected, calls, pool, history, queues
<1>2. \/ wpc[w] = "idle" /\ Continue(w, "retire")
      \/ wpc[w] = "collect" /\ incoming[w] = <<>> /\ Continue(w, "execute")
  BY DEF TimerFires, Collected
<1>3. /\ wpc' \in [Workers -> {"gone", "idle", "retire", "collect", "execute", "run"}]
      /\ \A v \in Workers \ {w} : wpc'[v] = wpc[v]
      /\ \/ wpc[w] = "idle" /\ wpc'[w] = "retire"
         \/ wpc[w] = "collect" /\ incoming[w] = <<>> /\ wpc'[w] = "execute"
  BY <1>2 DEF Continue, TypeOK
<1>4. TypeOK'
  BY <1>1, <1>3 DEF TypeOK
<1>5. TableInv' /\ LockInv' /\ ListsInv'
  BY <1>1, <1>3 DEF TableInv, LockInv, ListsInv, TypeOK
<1>6. ContentsInv' /\ AcceptedInv'
  BY <1>1 DEF ContentsInv, AcceptedInv, Waiting
<1>7. OrderInv' /\ BegunInOrder' /\ GateInv'
  BY <1>1 DEF OrderInv, BegunInOrder, GateInv, FollowsPrompt, FirstPromptIn
<1>8. OvertakenInv'
  <2>1. ASSUME NEW i \in Urgent, wpc'[w] = "execute", wpc[w] # "execute",
               SessionOf[i] = serves[w], overtaken[i] = 1
        PROVE  i \in begun \cup ToSet(interrupts[w])
    <3>1. wpc[w] = "collect" /\ incoming[w] = <<>>
      BY <1>3, <2>1
    <3>2. i \in ToSet(arrivals)
      BY <2>1 DEF OvertakenInv
    <3>3. worker[serves[w]] = w
      BY <3>1 DEF TableInv
    <3>4. i \in begun \/ i \in Waiting(w)
      BY <2>1, <3>2, <3>3 DEF AcceptedInv
    <3>5. QED
      BY <2>1, <3>1, <3>4, NoElements DEF ContentsInv, Waiting
  <2>2. QED
    BY <1>1, <1>3, <2>1 DEF OvertakenInv
<1>9. QED
  BY <1>4, <1>5, <1>6, <1>7, <1>8

(* A worker that retires holds nothing, and nobody is handing it anything. *)
LEMMA RetireInv ==
    ASSUME IInv, NEW w \in Workers, Retire(w)
    PROVE  IInv'
<1> USE RequestsAssumption DEF IInv
<1>1. /\ UNCHANGED <<pc, expired, lock, current, answer, gate>>
      /\ UNCHANGED <<arrivals, begun, overtaken, incoming, interrupts, normal>>
      /\ wpc[w] = "retire" /\ lock = None
  BY DEF Retire, calls, history, queues
<1>2. worker[serves[w]] = w /\ serves[w] \in Sessions
  BY <1>1 DEF TableInv, TypeOK
<1>3. CASE incoming[w] # <<>>
  <2>1. Continue(w, "idle") /\ UNCHANGED <<worker, serves>>
    BY <1>3 DEF Retire, pool
  <2>2. /\ wpc' \in [Workers -> {"gone", "idle", "retire", "collect", "execute", "run"}]
        /\ wpc'[w] = "idle" /\ \A v \in Workers \ {w} : wpc'[v] = wpc[v]
    BY <2>1 DEF Continue, TypeOK
  <2>3. TypeOK'
    BY <1>1, <2>1, <2>2 DEF TypeOK
  <2>4. TableInv' /\ LockInv' /\ ListsInv'
    BY <1>1, <2>1, <2>2 DEF TableInv, LockInv, ListsInv, TypeOK
  <2>5. ContentsInv' /\ AcceptedInv'
    BY <1>1, <2>1 DEF ContentsInv, AcceptedInv, Waiting
  <2>6. OrderInv' /\ BegunInOrder' /\ GateInv' /\ OvertakenInv'
    BY <1>1, <2>1, <2>2 DEF OrderInv, BegunInOrder, GateInv, FollowsPrompt, FirstPromptIn, OvertakenInv
  <2>7. QED
    BY <2>3, <2>4, <2>5, <2>6
<1>4. CASE incoming[w] = <<>>
  <2> DEFINE s == serves[w]
  <2>1. /\ Continue(w, "gone")
        /\ worker' = [worker EXCEPT ![s] = None]
        /\ serves' = [serves EXCEPT ![w] = None]
    BY <1>2, <1>4 DEF Retire
  <2>2. /\ wpc' \in [Workers -> {"gone", "idle", "retire", "collect", "execute", "run"}]
        /\ worker' \in [Sessions -> Workers \cup {None}]
        /\ serves' \in [Workers -> Sessions \cup {None}]
        /\ wpc'[w] = "gone" /\ worker'[s] = None /\ serves'[w] = None
        /\ \A v \in Workers \ {w} : wpc'[v] = wpc[v] /\ serves'[v] = serves[v]
        /\ \A u \in Sessions \ {s} : worker'[u] = worker[u]
    BY <1>2, <2>1 DEF Continue, TypeOK
  <2>3. interrupts[w] = <<>> /\ normal[w] = <<>> /\ current[w] = None /\ Waiting(w) = {}
    BY <1>1, <1>4, NoElements DEF ListsInv, Waiting
  <2>4. TypeOK'
    BY <1>1, <2>2 DEF TypeOK
  <2>5. TableInv'
    <3>1. ASSUME NEW u \in Sessions, worker'[u] # None
          PROVE  serves'[worker'[u]] = u /\ wpc'[worker'[u]] # "gone"
      <4>1. u # s /\ worker'[u] = worker[u] /\ worker[u] \in Workers
        BY <2>2, <3>1 DEF TypeOK
      <4>2. worker[u] # w
        BY <3>1, <4>1 DEF TableInv
      <4>3. QED
        BY <2>2, <3>1, <4>1, <4>2 DEF TableInv
    <3>2. ASSUME NEW v \in Workers, wpc'[v] # "gone"
          PROVE  serves'[v] # None /\ worker'[serves'[v]] = v
      <4>1. v # w /\ serves'[v] = serves[v] /\ wpc[v] # "gone"
        BY <2>2, <3>2
      <4>2. serves[v] # s /\ serves[v] \in Sessions
        BY <1>2, <4>1 DEF TableInv, TypeOK
      <4>3. QED
        BY <2>2, <4>1, <4>2 DEF TableInv
    <3>3. QED
      BY <3>1, <3>2 DEF TableInv
  <2>6. LockInv'
    BY <1>1 DEF LockInv
  <2>7. ListsInv'
    BY <1>1, <1>4, <2>2, <2>3 DEF ListsInv
  <2>8. ContentsInv'
    <3>1. \A v \in Workers : Waiting(v)' = Waiting(v)
      BY <1>1 DEF Waiting
    <3>2. QED
      BY <1>1, <2>2, <2>3, <3>1 DEF ContentsInv
  <2>9. AcceptedInv'
    <3>1. ASSUME NEW q \in ToSet(arrivals) \ begun
          PROVE  worker'[SessionOf[q]] = worker[SessionOf[q]]
      <4>1. worker[SessionOf[q]] # None /\ q \in Waiting(worker[SessionOf[q]])
        BY DEF AcceptedInv
      <4>2. SessionOf[q] \in Sessions
        BY ElementsType DEF TypeOK
      <4>3. SessionOf[q] # s
        BY <1>2, <2>3, <4>1
      <4>4. QED
        BY <2>2, <4>2, <4>3
    <3>2. \A v : Waiting(v)' = Waiting(v)
      BY <1>1 DEF Waiting
    <3>3. \A q \in ToSet(arrivals) \ begun :
            worker'[SessionOf[q]] # None /\ q \in Waiting(worker'[SessionOf[q]])
      BY <3>1 DEF AcceptedInv
    <3>4. QED
      BY <1>1, <3>2, <3>3 DEF AcceptedInv
  <2>10. OrderInv' /\ BegunInOrder' /\ GateInv'
    BY <1>1 DEF OrderInv, BegunInOrder, GateInv, FollowsPrompt, FirstPromptIn
  <2>11. OvertakenInv'
    BY <1>1, <2>2 DEF OvertakenInv
  <2>12. QED
    BY <2>4, <2>5, <2>6, <2>7, <2>8, <2>9, <2>10, <2>11
<1>5. QED
  BY <1>3, <1>4

(* What is chosen is nobody else's, and everything of its terminal and its *)
(* priority that arrived earlier has been begun.                           *)
LEMMA ChooseEffect ==
    ASSUME IInv, NEW w \in Workers, wpc[w] = "execute", Choose(w)
    PROVE  /\ Chosen(w) \in Requests /\ Chosen(w) \in ToSet(arrivals) \ begun
           /\ SessionOf[Chosen(w)] = serves[w] /\ answer[Chosen(w)] = None
           /\ Chosen(w) \notin Urgent => interrupts[w] = <<>>
           /\ begun' = begun \cup {Chosen(w)}
           /\ interrupts' \in [Workers -> Seq(Requests)] /\ normal' \in [Workers -> Seq(Requests)]
           /\ \A v \in Workers \ {w} : interrupts'[v] = interrupts[v] /\ normal'[v] = normal[v]
           /\ ToSet(interrupts'[w]) \subseteq ToSet(interrupts[w])
           /\ ToSet(normal'[w]) \subseteq ToSet(normal[w])
           /\ Sorted(arrivals, interrupts'[w]) /\ Sorted(arrivals, normal'[w])
           /\ ToSet(interrupts'[w]) \cup ToSet(normal'[w]) \cup ToSet(incoming[w])
                 = Waiting(w) \ {Chosen(w)}
           /\ \A v \in Workers \ {w} : Chosen(w) \notin Waiting(v)
           /\ \A q \in Requests : /\ Before(arrivals, q, Chosen(w))
                                  /\ SessionOf[q] = serves[w]
                                  /\ q \in Urgent <=> Chosen(w) \in Urgent
                                  => q \in begun
<1> USE DEF IInv
<1> DEFINE c == Chosen(w)
<1>1. /\ interrupts \in [Workers -> Seq(Requests)] /\ normal \in [Workers -> Seq(Requests)]
      /\ interrupts[w] \in Seq(Requests) /\ normal[w] \in Seq(Requests)
      /\ arrivals \in Seq(Requests) /\ ToSet(arrivals) \subseteq Requests
  BY ElementsType DEF TypeOK
<1>2. interrupts[w] # <<>> \/ normal[w] # <<>>
  BY DEF ListsInv
<1>3. /\ Sorted(arrivals, interrupts[w]) /\ Sorted(arrivals, normal[w])
      /\ ToSet(interrupts[w]) \subseteq Urgent /\ ToSet(normal[w]) \cap Urgent = {}
      /\ \A q \in ToSet(interrupts[w]) \cup ToSet(normal[w]), r \in ToSet(incoming[w]) :
            Before(arrivals, q, r)
  BY DEF OrderInv, ContentsInv
<1>4. \A q, r : Before(arrivals, q, r) => q # r /\ ~Before(arrivals, r, q) /\ q \in ToSet(arrivals)
  <2>1. NoRepeats(arrivals) /\ DOMAIN arrivals \subseteq Nat
    BY <1>1 DEF AcceptedInv
  <2>2. QED
    BY <2>1, BeforeIsStrict
<1>5. begun' = begun \cup {c}
  BY DEF Choose
<1>6. /\ c \in Requests /\ c \in Waiting(w)
      /\ c \in Urgent <=> interrupts[w] # <<>>
      /\ interrupts' \in [Workers -> Seq(Requests)] /\ normal' \in [Workers -> Seq(Requests)]
      /\ \A v \in Workers \ {w} : interrupts'[v] = interrupts[v] /\ normal'[v] = normal[v]
      /\ Sorted(arrivals, interrupts'[w]) /\ Sorted(arrivals, normal'[w])
      /\ ToSet(interrupts'[w]) \cup ToSet(normal'[w]) \cup {c} = ToSet(interrupts[w]) \cup ToSet(normal[w])
      /\ ToSet(interrupts'[w]) \subseteq ToSet(interrupts[w])
      /\ ToSet(normal'[w]) \subseteq ToSet(normal[w])
      /\ \A q \in ToSet(interrupts'[w]) \cup ToSet(normal'[w]) :
            Before(arrivals, c, q) \/ ~(q \in Urgent <=> c \in Urgent)
  <2>1. CASE interrupts[w] # <<>>
    <3>1. c = Head(interrupts[w])
      BY <2>1 DEF Chosen
    <3>2. /\ c \in Requests /\ Tail(interrupts[w]) \in Seq(Requests)
          /\ ToSet(interrupts[w]) = {c} \cup ToSet(Tail(interrupts[w]))
      BY <1>1, <2>1, <3>1, TailElements
    <3>3. /\ Sorted(arrivals, Tail(interrupts[w]))
          /\ \A q \in ToSet(Tail(interrupts[w])) : Before(arrivals, Head(interrupts[w]), q)
      BY <1>1, <1>3, <2>1, SortedTail, Zenon
    <3>4. /\ interrupts' = [interrupts EXCEPT ![w] = Tail(interrupts[w])] /\ normal' = normal
      BY <2>1 DEF Choose
    <3>5. /\ interrupts' \in [Workers -> Seq(Requests)] /\ interrupts'[w] = Tail(interrupts[w])
          /\ \A v \in Workers \ {w} : interrupts'[v] = interrupts[v]
      BY <1>1, <3>2, <3>4
    <3>6. c \in Urgent /\ c \in Waiting(w)
      BY <1>3, <3>2 DEF Waiting
    <3>7. \A q \in ToSet(normal[w]) : q \notin Urgent
      BY <1>3
    <3> HIDE DEF c
    <3>8. QED
      BY <1>1, <1>3, <2>1, <3>1, <3>2, <3>3, <3>4, <3>5, <3>6, <3>7
  <2>2. CASE interrupts[w] = <<>>
    <3>1. c = Head(normal[w]) /\ normal[w] # <<>>
      BY <1>2, <2>2 DEF Chosen
    <3>2. /\ c \in Requests /\ Tail(normal[w]) \in Seq(Requests)
          /\ ToSet(normal[w]) = {c} \cup ToSet(Tail(normal[w]))
      BY <1>1, <3>1, TailElements
    <3>3. /\ Sorted(arrivals, Tail(normal[w]))
          /\ \A q \in ToSet(Tail(normal[w])) : Before(arrivals, Head(normal[w]), q)
      BY <1>1, <1>3, <3>1, SortedTail, Zenon
    <3>4. /\ normal' = [normal EXCEPT ![w] = Tail(normal[w])] /\ interrupts' = interrupts
      BY <2>2 DEF Choose
    <3>5. /\ normal' \in [Workers -> Seq(Requests)] /\ normal'[w] = Tail(normal[w])
          /\ \A v \in Workers \ {w} : normal'[v] = normal[v]
      BY <1>1, <3>2, <3>4
    <3>6. c \notin Urgent /\ c \in Waiting(w)
      BY <1>3, <3>2 DEF Waiting
    <3>7. ToSet(interrupts[w]) = {}
      BY <2>2, NoElements
    <3> HIDE DEF c
    <3>8. QED
      BY <1>1, <1>3, <2>2, <3>1, <3>2, <3>3, <3>4, <3>5, <3>6, <3>7
  <2>3. QED
    BY <2>1, <2>2
<1> HIDE DEF c
<1>7. c \in ToSet(arrivals) \ begun /\ SessionOf[c] = serves[w] /\ answer[c] = None
  BY <1>6 DEF ContentsInv, AcceptedInv
<1>8. \A q \in ToSet(incoming[w]) : Before(arrivals, c, q)
  BY <1>3, <1>6
<1>9. ToSet(interrupts'[w]) \cup ToSet(normal'[w]) \cup ToSet(incoming[w]) = Waiting(w) \ {c}
  BY <1>4, <1>6, <1>8 DEF Waiting
<1>10. ASSUME NEW v \in Workers \ {w} PROVE c \notin Waiting(v)
  <2>1. SUFFICES ASSUME c \in Waiting(v) PROVE FALSE
    OBVIOUS
  <2>2. serves[v] = serves[w]
    BY <1>7, <2>1 DEF ContentsInv
  <2>3. wpc[v] # "gone"
    BY <2>1, NoElements DEF ListsInv, Waiting
  <2>4. QED
    BY <2>2, <2>3 DEF TableInv
<1>11. ASSUME NEW q \in Requests, Before(arrivals, q, c), SessionOf[q] = serves[w],
              q \in Urgent <=> c \in Urgent, q \notin begun
       PROVE  FALSE
  <2>1. q \in ToSet(arrivals) /\ q # c /\ ~Before(arrivals, c, q)
    BY <1>4, <1>11
  <2>2. worker[serves[w]] = w
    BY DEF TableInv
  <2>3. q \in Waiting(w)
    BY <1>11, <2>1, <2>2 DEF AcceptedInv
  <2>4. QED
    BY <1>6, <1>8, <1>11, <2>1, <2>3 DEF Waiting
<1>12. QED
  BY <1>5, <1>6, <1>7, <1>9, <1>10, <1>11 DEF c

LEMMA ChooseInv ==
    ASSUME IInv, NEW w \in Workers, Skip(w) \/ Execute(w)
    PROVE  IInv'
<1> USE RequestsAssumption DEF IInv
<1> DEFINE c == Chosen(w)
<1>1. /\ wpc[w] = "execute" /\ Choose(w)
      /\ UNCHANGED <<pc, expired, lock, worker, serves, incoming, gate, arrivals>>
  BY DEF Skip, Execute, calls, pool
<1>2. /\ c \in Requests /\ c \in ToSet(arrivals) \ begun
      /\ SessionOf[c] = serves[w] /\ answer[c] = None
      /\ c \notin Urgent => interrupts[w] = <<>>
      /\ begun' = begun \cup {c}
      /\ interrupts' \in [Workers -> Seq(Requests)] /\ normal' \in [Workers -> Seq(Requests)]
      /\ \A v \in Workers \ {w} : interrupts'[v] = interrupts[v] /\ normal'[v] = normal[v]
      /\ ToSet(interrupts'[w]) \subseteq ToSet(interrupts[w])
      /\ ToSet(normal'[w]) \subseteq ToSet(normal[w])
      /\ Sorted(arrivals, interrupts'[w]) /\ Sorted(arrivals, normal'[w])
      /\ ToSet(interrupts'[w]) \cup ToSet(normal'[w]) \cup ToSet(incoming[w]) = Waiting(w) \ {c}
      /\ \A v \in Workers \ {w} : c \notin Waiting(v)
  BY <1>1, ChooseEffect
<1>3. \A q \in Requests : /\ Before(arrivals, q, c)
                          /\ SessionOf[q] = SessionOf[c]
                          /\ q \in Urgent <=> c \in Urgent
                          => q \in begun
  BY <1>1, <1>2, ChooseEffect
<1>4. \/ /\ answer' = [answer EXCEPT ![c] = "failed"] /\ current' = current
         /\ overtaken' = overtaken /\ Continue(w, More(w))
      \/ /\ answer' = answer /\ current' = [current EXCEPT ![w] = c] /\ Continue(w, "run")
         /\ overtaken' = [i \in Urgent |->
               IF c \notin Urgent /\ SessionOf[i] = serves[w] /\ i \in ToSet(arrivals) \ begun
               THEN overtaken[i] + 1 ELSE overtaken[i]]
  BY DEF Skip, Execute
<1> HIDE DEF c
<1>5. /\ wpc' \in [Workers -> {"gone", "idle", "retire", "collect", "execute", "run"}]
      /\ \A v \in Workers \ {w} : wpc'[v] = wpc[v]
      /\ wpc'[w] \in {"idle", "collect", "run"}
      /\ wpc'[w] = "idle" => interrupts'[w] = <<>> /\ normal'[w] = <<>>
      /\ wpc'[w] = "collect" => interrupts'[w] # <<>> \/ normal'[w] # <<>>
  BY <1>4 DEF Continue, More, TypeOK
<1>6. current[w] = None
  BY <1>1 DEF ListsInv
<1>7. /\ current' \in [Workers -> Requests \cup {None}]
      /\ \A v \in Workers \ {w} : current'[v] = current[v]
      /\ \/ wpc'[w] \in {"idle", "collect"} /\ current'[w] = None
         \/ wpc'[w] = "run" /\ current'[w] = c /\ answer' = answer
  <2>1. current \in [Workers -> Requests \cup {None}] /\ DOMAIN wpc = Workers
    BY DEF TypeOK
  <2>2. CASE current' = current /\ Continue(w, More(w))
    <3>1. wpc'[w] \in {"idle", "collect"}
      BY <2>1, <2>2 DEF Continue, More
    <3>2. QED
      BY <1>6, <2>1, <2>2, <3>1
  <2>3. CASE answer' = answer /\ current' = [current EXCEPT ![w] = c] /\ Continue(w, "run")
    BY <1>2, <2>1, <2>3 DEF Continue
  <2>4. QED
    BY <1>4, <2>2, <2>3
<1>8. /\ answer' \in [Requests -> {None, "ok", "failed"}]
      /\ \A q \in Requests \ {c} : answer'[q] = answer[q]
      /\ (answer'[c] = None /\ current'[w] = c) \/ answer'[c] = "failed"
  BY <1>2, <1>4 DEF TypeOK
<1>9. \A v \in Workers : Waiting(v)' = Waiting(v) \ {c}
  BY ZenonT(30), <1>1, <1>2 DEF Waiting
<1>10. \A i \in Urgent : overtaken[i] \in {0, 1} /\ (overtaken[i] = 1 => i \in ToSet(arrivals))
  BY DEF OvertakenInv
<1>11. \A i \in Urgent :
         \/ overtaken'[i] = overtaken[i]
         \/ /\ overtaken[i] = 0 /\ overtaken'[i] = 1
            /\ i \in ToSet(arrivals) /\ SessionOf[i] = serves[w]
  <2>1. ASSUME NEW i \in Urgent, c \notin Urgent, SessionOf[i] = serves[w],
               i \in ToSet(arrivals) \ begun
        PROVE  overtaken[i] = 0
    <3>1. interrupts[w] = <<>>
      BY <1>2, <2>1
    <3>2. i \notin begun \cup ToSet(interrupts[w])
      BY <2>1, <3>1, NoElements
    <3>3. QED
      BY <1>1, <1>10, <2>1, <3>2 DEF OvertakenInv
  <2>2. QED
    BY <1>4, <2>1
<1>12. overtaken' \in [Urgent -> Nat]
  <2>1. DOMAIN overtaken' = Urgent /\ overtaken' = [i \in Urgent |-> overtaken'[i]]
    BY <1>4 DEF TypeOK
  <2>2. \A i \in Urgent : overtaken'[i] \in {0, 1}
    BY <1>10, <1>11
  <2>3. QED
    BY <2>1, <2>2
<1>13. TypeOK'
  BY <1>1, <1>2, <1>5, <1>7, <1>8, <1>12 DEF TypeOK
<1>14. TableInv' /\ LockInv'
  BY <1>1, <1>5 DEF TableInv, LockInv, TypeOK
<1>15. ListsInv'
  <2>1. c # None
    BY <1>2
  <2>2. QED
    BY <1>1, <1>2, <1>5, <1>7, <2>1 DEF ListsInv
<1>16. ContentsInv'
  <2>1. ASSUME NEW v \in Workers, current'[v] # None
        PROVE  /\ current'[v] \in begun' /\ SessionOf[current'[v]] = serves[v]
               /\ answer'[current'[v]] = None
    <3>1. CASE v = w
      BY <1>2, <1>7, <2>1, <3>1
    <3>2. CASE v # w
      <4>1. current'[v] = current[v] /\ current[v] \in Requests
        BY <1>7, <2>1, <3>2 DEF TypeOK
      <4>2. /\ current[v] \in begun /\ SessionOf[current[v]] = serves[v]
            /\ answer[current[v]] = None
        BY <2>1, <4>1 DEF ContentsInv
      <4>3. answer'[current[v]] = None
        BY <1>2, <1>8, <4>1, <4>2
      <4>4. QED
        BY <1>2, <4>1, <4>2, <4>3
    <3>3. QED
      BY <3>1, <3>2
  <2>2. \A v \in Workers : /\ ToSet(interrupts'[v]) \subseteq Urgent
                           /\ ToSet(normal'[v]) \cap Urgent = {}
    <3>1. ToSet(interrupts'[w]) \subseteq Urgent /\ ToSet(normal'[w]) \cap Urgent = {}
      BY <1>2 DEF ContentsInv
    <3>2. QED
      BY <1>2, <3>1 DEF ContentsInv
  <2>3. \A v \in Workers : \A q \in Waiting(v)' :
          q \in ToSet(arrivals) \ begun' /\ SessionOf[q] = serves[v]
    BY <1>2, <1>9 DEF ContentsInv
  <2>4. QED
    BY <1>1, <2>1, <2>2, <2>3 DEF ContentsInv
<1>17. AcceptedInv'
  <2>1. ASSUME NEW q \in ToSet(arrivals) \ begun'
        PROVE  worker[SessionOf[q]] # None /\ q \in Waiting(worker[SessionOf[q]])'
    <3>1. q # c /\ worker[SessionOf[q]] # None /\ q \in Waiting(worker[SessionOf[q]])
      BY <1>2 DEF AcceptedInv
    <3>2. SessionOf[q] \in Sessions
      BY ElementsType DEF TypeOK
    <3>3. worker[SessionOf[q]] \in Workers
      BY <3>1, <3>2 DEF TypeOK
    <3>4. Waiting(worker[SessionOf[q]])' = Waiting(worker[SessionOf[q]]) \ {c}
      BY <1>1, <1>9, <3>3 DEF Waiting
    <3>5. QED
      BY <3>1, <3>4
  <2>2. (\A q \in ToSet(arrivals) \ begun :
           worker[SessionOf[q]] # None /\ q \in Waiting(worker[SessionOf[q]]))'
    BY <1>1, <2>1
  <2>3. (/\ \A q \in Requests : q \in ToSet(arrivals) => pc[q] \in {"wait", "ok", "failed"}
         /\ \A q \in Requests : pc[q] = "wait" => q \in ToSet(arrivals)
         /\ \A q \in Requests : pc[q] = "ok" => answer[q] = "ok"
         /\ \A q \in Requests : answer[q] # None => q \in begun)'
    BY <1>1, <1>2, <1>8 DEF AcceptedInv
  <2>4. begun' \subseteq ToSet(arrivals)
    BY <1>2 DEF AcceptedInv
  <2>5. ASSUME NEW q \in begun' PROVE answer'[q] # None \/ \E v \in Workers : current'[v] = q
    <3>1. CASE q = c
      BY <1>8, <3>1
    <3>2. CASE q # c
      <4>1. q \in begun /\ q \in Requests
        BY <1>2, <3>2, ElementsType DEF AcceptedInv, TypeOK
      <4>2. answer[q] # None \/ \E v \in Workers \ {w} : current[v] = q
        BY <1>6, <4>1 DEF AcceptedInv
      <4>3. QED
        BY <1>7, <1>8, <3>2, <4>1, <4>2
    <3>3. QED
      BY <3>1, <3>2
  <2>6. NoRepeats(arrivals)
    BY DEF AcceptedInv
  <2>7. QED
    BY <1>1, <2>2, <2>3, <2>4, <2>5, <2>6, Zenon DEF AcceptedInv
<1>18. OrderInv'
  <2>1. \A q \in ToSet(interrupts'[w]) \cup ToSet(normal'[w]), p \in ToSet(incoming[w]) :
           Before(arrivals, q, p)
    BY <1>2 DEF OrderInv
  <2>2. QED
    BY <1>1, <1>2, <2>1 DEF OrderInv
<1>19. BegunInOrder'
  BY <1>1, <1>2, <1>3 DEF BegunInOrder
<1>20. OvertakenInv'
  <2>1. ASSUME NEW i \in Urgent, NEW v \in Workers, wpc'[v] = "execute",
               SessionOf[i] = serves[v], overtaken'[i] = 1
        PROVE  i \in begun' \cup ToSet(interrupts'[v])
    <3>1. v # w /\ wpc[v] = "execute"
      BY <1>5, <2>1
    <3>2. serves[v] # serves[w]
      BY <1>1, <3>1 DEF TableInv
    <3>3. overtaken[i] = 1
      BY <1>11, <2>1, <3>2
    <3>4. QED
      BY <1>2, <2>1, <3>1, <3>3 DEF OvertakenInv
  <2>2. QED
    BY <1>1, <1>10, <1>11, <2>1 DEF OvertakenInv
<1>21. GateInv'
  <2>1. \A q \in Requests : answer[q] = "ok" => answer'[q] = "ok"
    BY <1>2, <1>8
  <2>2. \A s : FirstPromptIn(s) => FirstPromptIn(s)'
    BY <2>1 DEF FirstPromptIn
  <2>3. \A s : FollowsPrompt(s) => FollowsPrompt(s)'
    BY <1>1, <2>2 DEF FollowsPrompt
  <2>4. QED
    BY <1>1, <2>2, <2>3 DEF GateInv
<1>22. QED
  BY <1>13, <1>14, <1>15, <1>16, <1>17, <1>18, <1>19, <1>20, <1>21

(* A transaction ends with its result; whoever else is waited for keeps    *)
(* what it had.                                                            *)
LEMMA FinishInv ==
    ASSUME IInv, NEW w \in Workers, Finish(w)
    PROVE  IInv'
<1> USE RequestsAssumption DEF IInv
<1> DEFINE c == current[w]
<1>1. /\ wpc[w] = "run"
      /\ UNCHANGED <<pc, expired, lock, worker, serves, incoming, interrupts, normal, gate>>
      /\ UNCHANGED <<arrivals, begun, overtaken>>
      /\ current' = [current EXCEPT ![w] = None] /\ Continue(w, More(w))
  BY DEF Finish, calls, pool, history
<1>2. PICK result \in {"ok", "failed"} : answer' = [answer EXCEPT ![c] = result]
  BY DEF Finish
<1>3. /\ c \in Requests /\ c \in begun /\ SessionOf[c] = serves[w] /\ answer[c] = None
  BY <1>1 DEF ListsInv, ContentsInv, TypeOK
<1>4. /\ answer' \in [Requests -> {None, "ok", "failed"}]
      /\ answer'[c] \in {"ok", "failed"}
      /\ \A q \in Requests \ {c} : answer'[q] = answer[q]
  BY <1>2, <1>3 DEF TypeOK
<1>5. /\ current' \in [Workers -> Requests \cup {None}]
      /\ current'[w] = None /\ \A v \in Workers \ {w} : current'[v] = current[v]
  BY <1>1 DEF TypeOK
<1>6. /\ wpc' \in [Workers -> {"gone", "idle", "retire", "collect", "execute", "run"}]
      /\ \A v \in Workers \ {w} : wpc'[v] = wpc[v]
      /\ \/ wpc'[w] = "idle" /\ interrupts[w] = <<>> /\ normal[w] = <<>>
         \/ wpc'[w] = "collect" /\ (interrupts[w] # <<>> \/ normal[w] # <<>>)
  BY <1>1 DEF Continue, More, TypeOK
<1>7. \A v \in Workers \ {w} : current[v] # c
  <2>1. SUFFICES ASSUME NEW v \in Workers \ {w}, current[v] = c PROVE FALSE
    OBVIOUS
  <2>2. current[v] # None /\ serves[v] = serves[w]
    BY <1>3, <2>1 DEF ContentsInv
  <2>3. wpc[v] # "gone" /\ wpc[w] # "gone"
    BY <1>1, <2>2 DEF ListsInv
  <2>4. QED
    BY <2>2, <2>3 DEF TableInv
<1> HIDE DEF c
<1>8. TypeOK'
  BY <1>1, <1>4, <1>5, <1>6 DEF TypeOK
<1>9. TableInv' /\ LockInv' /\ ListsInv'
  BY <1>1, <1>5, <1>6 DEF TableInv, LockInv, ListsInv, TypeOK
<1>10. ContentsInv'
  <2>1. \A v \in Workers : Waiting(v)' = Waiting(v)
    BY <1>1 DEF Waiting
  <2>2. ASSUME NEW v \in Workers, current'[v] # None
        PROVE  /\ current'[v] \in begun /\ SessionOf[current'[v]] = serves[v]
               /\ answer'[current'[v]] = None
    <3>1. v # w /\ current'[v] = current[v] /\ current[v] \in Requests \ {c}
      BY <1>5, <1>7, <2>2 DEF TypeOK
    <3>2. QED
      BY <1>4, <2>2, <3>1 DEF ContentsInv
  <2>3. QED
    BY <1>1, <2>1, <2>2 DEF ContentsInv
<1>11. AcceptedInv'
  <2>1. \A v : Waiting(v)' = Waiting(v)
    BY <1>1 DEF Waiting
  <2>2. \A q \in begun' : answer'[q] # None \/ \E v \in Workers : current'[v] = q
    <3>1. ASSUME NEW q \in begun, q # c, answer'[q] = None
          PROVE  \E v \in Workers : current'[v] = q
      <4>1. q \in Requests
        BY ElementsType DEF AcceptedInv, TypeOK
      <4>2. answer[q] = None
        BY <1>4, <3>1, <4>1
      <4>3. PICK v \in Workers : current[v] = q
        BY <4>2 DEF AcceptedInv
      <4>4. v # w
        BY <3>1, <4>3 DEF c
      <4>5. QED
        BY <1>5, <4>3, <4>4
    <3>2. QED
      BY <1>1, <1>4, <3>1
  <2>3. (/\ \A q \in Requests : q \in ToSet(arrivals) => pc[q] \in {"wait", "ok", "failed"}
         /\ \A q \in Requests : pc[q] = "wait" => q \in ToSet(arrivals)
         /\ \A q \in Requests : pc[q] = "ok" => answer[q] = "ok"
         /\ \A q \in Requests : answer[q] # None => q \in begun)'
    BY <1>1, <1>3, <1>4 DEF AcceptedInv
  <2>4. (\A q \in ToSet(arrivals) \ begun :
           worker[SessionOf[q]] # None /\ q \in Waiting(worker[SessionOf[q]]))'
    BY <1>1, <2>1 DEF AcceptedInv
  <2>5. (NoRepeats(arrivals) /\ begun \subseteq ToSet(arrivals))'
    BY <1>1 DEF AcceptedInv
  <2>6. QED
    BY <2>2, <2>3, <2>4, <2>5, Zenon DEF AcceptedInv
<1>12. OrderInv' /\ BegunInOrder'
  BY <1>1 DEF OrderInv, BegunInOrder
<1>13. OvertakenInv'
  BY <1>1, <1>6 DEF OvertakenInv
<1>14. GateInv'
  <2>1. \A q \in Requests : answer[q] = "ok" => answer'[q] = "ok"
    BY <1>3, <1>4
  <2>2. \A s : FirstPromptIn(s) => FirstPromptIn(s)'
    BY <2>1 DEF FirstPromptIn
  <2>3. \A s : FollowsPrompt(s) => FollowsPrompt(s)'
    BY <1>1, <2>2 DEF FollowsPrompt
  <2>4. QED
    BY <1>1, <2>2, <2>3 DEF GateInv
<1>15. QED
  BY <1>8, <1>9, <1>10, <1>11, <1>12, <1>13, <1>14

(* Readiness: the provider marks the terminal when its first prompt is in, *)
(* a state given up before that turns its waiters away.                    *)
LEMMA ReadinessInv ==
    ASSUME IInv, NEW s \in Sessions, MarkReady(s) \/ RemoveReadiness(s)
    PROVE  IInv'
<1> USE RequestsAssumption DEF IInv
<1>1. /\ UNCHANGED <<pc, expired, lock, answer>>
      /\ UNCHANGED <<pool, wpc, queues, answer, history>>
      /\ UNCHANGED <<worker, serves, incoming, interrupts, normal, current, arrivals, begun, overtaken>>
  BY DEF MarkReady, RemoveReadiness, calls, pool, queues, history
<1>2. /\ gate' \in [Sessions -> {"none", "starting", "ready", "closed"}]
      /\ \A u \in Sessions \ {s} : gate'[u] = gate[u]
      /\ \/ gate'[s] = "ready" /\ \E r \in Openers : SessionOf[r] = s /\ pc[r] = "ok"
         \/ gate'[s] = "none" /\ gate[s] = "ready"
         \/ gate'[s] = "closed"
  BY DEF MarkReady, RemoveReadiness, TypeOK
<1>3. TypeOK'
  BY <1>1, <1>2 DEF TypeOK
<1>4. LockInv' /\ AcceptedInv'
  BY <1>1 DEF LockInv, AcceptedInv, Waiting
<1>5. GateInv'
  <2>1. \A u : FirstPromptIn(u)' = FirstPromptIn(u)
    BY <1>1 DEF FirstPromptIn
  <2>2. gate'[s] \in {"none", "ready"} => FirstPromptIn(s)
    <3>1. (\E r \in Openers : SessionOf[r] = s /\ pc[r] = "ok") => FirstPromptIn(s)
      BY DEF AcceptedInv, FirstPromptIn
    <3>2. QED
      BY <1>2, <3>1 DEF GateInv
  <2>3. \A u \in Sessions : gate'[u] \in {"none", "ready"} => FirstPromptIn(u)
    BY <1>2, <2>2 DEF GateInv
  <2>4. \A u \in Sessions : gate[u] = "closed" => gate'[u] = "closed"
    BY DEF MarkReady, RemoveReadiness, TypeOK
  <2>5. \A r \in Requests : FollowsPrompt(SessionOf[r]) => FollowsPrompt(SessionOf[r])'
    BY <2>1, <2>4 DEF FollowsPrompt
  <2>6. QED
    BY <1>1, <2>1, <2>3, <2>5 DEF GateInv
<1>6. QED
  BY <1>1, <1>3, <1>4, <1>5, WorkersKept

LEMMA IInvInductive == IInv /\ [Next]_vars => IInv'
<1> SUFFICES ASSUME IInv, [Next]_vars PROVE IInv'
  OBVIOUS
<1>1. CASE \E r \in Requests : Do(r) \/ Call(r) \/ Expire(r)
  <2>1. PICK r \in Requests : \/ Do(r) \/ GateOpens(r) \/ Return(r) \/ Expire(r)
                            \/ Enqueue(r) \/ Unblock(r)
    BY <1>1 DEF Call
  <2>2. QED
    BY <2>1, CallInv, EnqueueInv
<1>2. CASE \E w \in Workers : Run(w) \/ TimerFires(w)
  <2>1. PICK w \in Workers : Run(w) \/ TimerFires(w)
    BY <1>2
  <2>2. CASE Wake(w)
    BY <2>2, TakeInv DEF Wake
  <2>3. CASE Collect(w)
    <3>1. wpc[w] = "collect" /\ wpc' = wpc
      BY <2>3 DEF Collect
    <3>2. Continue(w, "collect")
      BY <3>1 DEF Continue, IInv, TypeOK
    <3>3. QED
      BY <2>3, <3>1, <3>2, TakeInv DEF Collect
  <2>4. CASE Retire(w)
    BY <2>4, RetireInv
  <2>5. CASE Collected(w) \/ TimerFires(w)
    BY <2>5, MoveInv
  <2>6. CASE Skip(w) \/ Execute(w)
    BY <2>6, ChooseInv
  <2>7. CASE Finish(w)
    BY <2>7, FinishInv
  <2>8. QED
    BY <2>1, <2>2, <2>3, <2>4, <2>5, <2>6, <2>7 DEF Run
<1>3. CASE \E s \in Sessions : MarkReady(s) \/ RemoveReadiness(s)
  BY <1>3, ReadinessInv
<1>4. CASE UNCHANGED vars
  <2>1. /\ UNCHANGED <<pc, expired, lock, gate>>
        /\ UNCHANGED <<pool, wpc, queues, answer, history>>
        /\ UNCHANGED <<worker, serves, incoming, interrupts, normal, current, arrivals, begun, overtaken>>
    BY <1>4 DEF vars, calls, pool, queues, history
  <2>2. TypeOK'
    BY <2>1 DEF IInv, TypeOK
  <2>3. LockInv' /\ AcceptedInv'
    BY <2>1 DEF IInv, LockInv, AcceptedInv, Waiting
  <2>4. GateInv'
    BY <2>1 DEF IInv, GateInv, FollowsPrompt, FirstPromptIn
  <2>5. QED
    BY <2>1, <2>2, <2>3, <2>4, WorkersKept DEF IInv
<1>5. QED
  BY <1>1, <1>2, <1>3, <1>4 DEF Next

-----------------------------------------------------------------------------
(* The broker never leaves the invariant: a worker of the table is alive   *)
(* and serves its terminal, its lists hold exactly the accepted requests   *)
(* of that terminal that are not begun, in the order of arrival.           *)
THEOREM BrokerInvariant == Spec => []IInv
  BY InitInv, IInvInductive, PTL DEF Spec

(* Every variable holds a value of its kind and no channel exceeds its     *)
(* capacity.                                                               *)
THEOREM BrokerTypeCorrect == Spec => []TypeOK
<1>1. IInv => TypeOK
  BY DEF IInv
<1>2. QED
  BY <1>1, BrokerInvariant, PTL

(* One worker at a time writes to a terminal, however often workers retire *)
(* and are replaced.                                                       *)
THEOREM OneTransactionHolds == Spec => []OneTransaction
<1>1. IInv => OneTransaction
  BY DEF IInv, TableInv, OneTransaction
<1>2. QED
  BY <1>1, BrokerInvariant, PTL

(* No accepted request is lost: until it is answered, a worker that is     *)
(* alive has it in its channel, in its lists or in execution.              *)
THEOREM NothingLostHolds == Spec => []NothingLost
<1>1. ASSUME IInv, NEW r \in Requests, pc[r] = "wait", answer[r] = None
      PROVE  \E w \in Workers : wpc[w] # "gone" /\ InHand(r, w)
  <2>1. CASE r \in begun
    <3>1. PICK w \in Workers : current[w] = r
      BY <1>1, <2>1 DEF IInv, AcceptedInv
    <3>2. wpc[w] # "gone"
      BY <1>1, <3>1, RequestsAssumption DEF IInv, ListsInv
    <3>3. QED
      BY <3>1, <3>2 DEF InHand
  <2>2. CASE r \notin begun
    <3> DEFINE w == worker[SessionOf[r]]
    <3>1. SessionOf[r] \in Sessions
      BY RequestsAssumption
    <3>2. w # None /\ r \in Waiting(w)
      BY <1>1, <2>2 DEF IInv, AcceptedInv
    <3>3. w \in Workers /\ wpc[w] # "gone"
      BY <1>1, <3>1, <3>2 DEF IInv, TypeOK, TableInv
    <3>4. QED
      BY <3>2, <3>3 DEF InHand, Waiting
  <2>3. QED
    BY <2>1, <2>2
<1>2. IInv => NothingLost
  BY <1>1 DEF NothingLost
<1>3. QED
  BY <1>2, BrokerInvariant, PTL

(* Requests of one terminal and one priority are begun in the order in     *)
(* which they were accepted, also across the retirement of a worker.       *)
THEOREM InOrderHolds == Spec => []InOrder
<1>1. ASSUME IInv, NEW i \in DOMAIN arrivals, NEW j \in DOMAIN arrivals, i < j,
             SessionOf[arrivals[i]] = SessionOf[arrivals[j]],
             arrivals[i] \in Urgent <=> arrivals[j] \in Urgent, arrivals[j] \in begun
      PROVE  arrivals[i] \in begun
  <2>1. Before(arrivals, arrivals[i], arrivals[j])
    BY <1>1 DEF Before
  <2>2. arrivals[i] \in Requests /\ arrivals[j] \in Requests
    BY <1>1 DEF IInv, TypeOK
  <2>3. QED
    BY <1>1, <2>1, <2>2 DEF IInv, BegunInOrder
<1>2. IInv => InOrder
  BY <1>1 DEF InOrder
<1>3. QED
  BY <1>2, BrokerInvariant, PTL

(* At most one normal request is begun while an accepted interrupt waits,  *)
(* whatever the number of terminals, workers and requests.                 *)
THEOREM InterruptsGoFirstHolds == Spec => []InterruptsGoFirst
<1>1. IInv => InterruptsGoFirst
  BY DEF IInv, OvertakenInv, InterruptsGoFirst
<1>2. QED
  BY <1>1, BrokerInvariant, PTL

(* A follow-up is never written to a terminal whose startup still waits    *)
(* for its first prompt.                                                   *)
THEOREM FirstPromptFirstHolds == Spec => []FirstPromptFirst
<1>1. ASSUME IInv, NEW w \in Workers, wpc[w] = "run", current[w] \notin Openers \cup Urgent
      PROVE  gate[serves[w]] = "closed" \/ FirstPromptIn(serves[w])
  <2> DEFINE c == current[w]
  <2>1. c \in Requests /\ c \in begun /\ SessionOf[c] = serves[w]
    BY <1>1 DEF IInv, TypeOK, ListsInv, ContentsInv
  <2>2. c \in ToSet(arrivals)
    BY <1>1, <2>1 DEF IInv, AcceptedInv
  <2>3. FollowsPrompt(serves[w])
    BY <1>1, <2>1, <2>2 DEF IInv, GateInv
  <2>4. QED
    BY <2>3 DEF FollowsPrompt
<1>2. IInv => FirstPromptFirst
  BY <1>1 DEF FirstPromptFirst
<1>3. QED
  BY <1>2, BrokerInvariant, PTL
=============================================================================
