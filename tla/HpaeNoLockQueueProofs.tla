------------------------ MODULE HpaeNoLockQueueProofs ------------------------
(***************************************************************************)
(* HpaeNoLockQueue hands every node to one owner and implements the atomic *)
(* RequestQueue, for any number of producers, nodes and requests, as long  *)
(* as no tag comes round (TagAssumption).                                  *)
(*                                                                         *)
(* The invariant describes the memory by lists of nodes that the stacks    *)
(* link.  Every action is shown to keep it with the lists it leaves, and   *)
(* the step of the atomic queue is read off the lists.                     *)
(***************************************************************************)
EXTENDS HpaeNoLockQueue, TLAPS, SequenceTheorems, FiniteSetTheorems,
        WellFoundedInduction

----------------------------------------------------------------------------
(* Linked lists of nodes. *)

\* ref refers to n with the tag n has.
Points(tag, ref, n) == ref.node = n /\ (n # Invalid => ref.tag = tag[n])

\* The list L of nodes begins at head and is linked through links.
Linked(links, tag, head, L) ==
  /\ L \in Seq(Node) /\ IsInjective(L)
  /\ Points(tag, head, IF L = <<>> THEN Invalid ELSE L[1])
  /\ \A i \in 1 .. Len(L) :
       Points(tag, links[L[i]], IF i < Len(L) THEN L[i + 1] ELSE Invalid)

\* A list that is not empty begins at a node, and its head has the tag of the
\* node.
LEMMA LinkedHead ==
  ASSUME NEW links, NEW tag, NEW head, NEW L, Linked(links, tag, head, L),
         head.node # Invalid
  PROVE  head.node \in Node /\ head.tag = tag[head.node] /\ L # <<>> /\ head.node = L[1]
<1>1. L # <<>> /\ L[1] = head.node /\ head.tag = tag[head.node] /\ L \in Seq(Node)
  BY DEF Linked, Points
<1>2. L[1] \in Node
  BY <1>1
<1> QED BY <1>1, <1>2

\* The first node links to the rest of the list.
LEMMA LinkedRest ==
  ASSUME NEW links, NEW tag, NEW head, NEW L, Linked(links, tag, head, L),
         head.node # Invalid
  PROVE  Tail(L) \in Seq(Node) /\ Linked(links, tag, links[head.node], Tail(L))
<1>1. L # <<>> /\ L[1] = head.node /\ L \in Seq(Node) /\ L[1] \in Node
  <2>1. L # <<>> /\ L[1] = head.node /\ L[1] \in Node
    BY LinkedHead
  <2> QED BY <2>1 DEF Linked
<1>2. /\ Len(L) \in Nat /\ Len(L) > 0 /\ DOMAIN L = 1 .. Len(L)
      /\ Tail(L) \in Seq(Node) /\ Len(Tail(L)) = Len(L) - 1
      /\ DOMAIN Tail(L) = 1 .. Len(L) - 1
      /\ \A i \in 1 .. Len(L) - 1 : Tail(L)[i] = L[i + 1]
  BY <1>1
<1> USE DEF Linked, Points, IsInjective
<1>3. IsInjective(Tail(L))
  BY <1>2
<1>4. Points(tag, links[head.node], IF Tail(L) = <<>> THEN Invalid ELSE Tail(L)[1])
  <2>1. Points(tag, links[L[1]], IF 1 < Len(L) THEN L[2] ELSE Invalid)
    BY <1>2
  <2>2. Tail(L) = <<>> <=> ~ 1 < Len(L)
    BY <1>2, EmptySeq
  <2>3. 1 < Len(L) => Tail(L)[1] = L[2]
    BY <1>2
  <2> QED BY <1>1, <2>1, <2>2, <2>3
<1>5. \A i \in 1 .. Len(Tail(L)) :
        Points(tag, links[Tail(L)[i]], IF i < Len(Tail(L)) THEN Tail(L)[i + 1] ELSE Invalid)
  <2> TAKE i \in 1 .. Len(Tail(L))
  <2>1. i + 1 \in 1 .. Len(L) /\ Tail(L)[i] = L[i + 1]
    BY <1>2
  <2>2. Points(tag, links[L[i + 1]], IF i + 1 < Len(L) THEN L[i + 1 + 1] ELSE Invalid)
    BY <2>1
  <2>3. /\ i < Len(Tail(L)) <=> i + 1 < Len(L)
        /\ i < Len(Tail(L)) => Tail(L)[i + 1] = L[i + 1 + 1]
    BY <1>2
  <2> QED BY <2>1, <2>2, <2>3
<1> QED BY <1>2, <1>3, <1>4, <1>5

\* The nodes of the list are the first one and those of the rest.
LEMMA LinkedRange ==
  ASSUME NEW links, NEW tag, NEW head, NEW L, Linked(links, tag, head, L),
         head.node # Invalid
  PROVE  /\ L = <<head.node>> \o Tail(L)
         /\ \A n : n \in Range(L) <=> n = head.node \/ n \in Range(Tail(L))
         /\ head.node \notin Range(Tail(L))
<1>1. L # <<>> /\ L[1] = head.node /\ L \in Seq(Node) /\ L[1] \in Node
  <2>1. L # <<>> /\ L[1] = head.node /\ L[1] \in Node
    BY LinkedHead
  <2> QED BY <2>1 DEF Linked
<1>2. /\ Len(L) \in Nat /\ Len(L) > 0 /\ DOMAIN L = 1 .. Len(L)
      /\ Tail(L) \in Seq(Node) /\ Len(Tail(L)) = Len(L) - 1
      /\ DOMAIN Tail(L) = 1 .. Len(L) - 1
      /\ \A i \in 1 .. Len(L) - 1 : Tail(L)[i] = L[i + 1]
  BY <1>1
<1> USE DEF Linked, IsInjective, Range
<1>6. L = <<head.node>> \o Tail(L)
  BY <1>1, <1>2
<1>7. Range(L) = {head.node} \cup Range(Tail(L))
  <2>1. \A i \in 1 .. Len(L) : i = 1 \/ i - 1 \in 1 .. Len(L) - 1
    BY <1>2
  <2>2. Range(L) \subseteq {head.node} \cup Range(Tail(L))
    <3> SUFFICES ASSUME NEW i \in 1 .. Len(L) PROVE L[i] \in {head.node} \cup Range(Tail(L))
      BY <1>2
    <3>1. CASE i = 1
      BY <1>1, <3>1
    <3>2. CASE i - 1 \in 1 .. Len(L) - 1
      <4>1. Tail(L)[i - 1] = L[i]
        BY <1>2, <3>2
      <4> HIDE DEF Linked, Points, IsInjective
      <4> QED BY <1>2, <3>2, <4>1
    <3> QED BY <2>1, <3>1, <3>2
  <2>3. {head.node} \cup Range(Tail(L)) \subseteq Range(L)
    BY <1>1, <1>2
  <2> QED BY <2>2, <2>3
<1>8. head.node \notin Range(Tail(L))
  <2> SUFFICES ASSUME NEW i \in 1 .. Len(L) - 1, Tail(L)[i] = head.node PROVE FALSE
    BY <1>2
  <2>1. L[i + 1] = L[1] /\ i + 1 \in 1 .. Len(L) /\ 1 \in 1 .. Len(L) /\ i + 1 # 1
    BY <1>1, <1>2
  <2> QED BY <1>2, <2>1
<1> QED BY <1>6, <1>7, <1>8

\* A list is empty when its head refers to no node.
LEMMA LinkedEmpty ==
  ASSUME NEW links, NEW tag, NEW head, NEW L, Linked(links, tag, head, L)
  PROVE  L = <<>> <=> head.node = Invalid
<1>1. \A s \in Seq(Node) : s # <<>> => s[1] \in Node
  OBVIOUS
<1>2. Invalid \notin Node
  BY CapacityAssumption DEF Invalid, Node
<1> QED BY <1>1, <1>2 DEF Linked, Points

\* A head that refers to no node begins the empty list.
LEMMA EmptyLinked ==
  ASSUME NEW links, NEW tag, NEW head, head.node = Invalid
  PROVE  Linked(links, tag, head, <<>>)
BY DEF Linked, Points, IsInjective

\* A node put in front of a sequence it is not in.
LEMMA InjectivePush ==
  ASSUME NEW n \in Node, NEW L \in Seq(Node), IsInjective(L), n \notin Range(L)
  PROVE  /\ IsInjective(<<n>> \o L)
         /\ \A m : m \in Range(<<n>> \o L) <=> m = n \/ m \in Range(L)
<1> DEFINE P == <<n>> \o L
<1>1. /\ P \in Seq(Node) /\ Len(L) \in Nat /\ Len(P) = Len(L) + 1 /\ P[1] = n
      /\ DOMAIN P = 1 .. Len(L) + 1 /\ DOMAIN L = 1 .. Len(L) /\ P # <<>>
      /\ \A i \in 1 .. Len(L) : P[i + 1] = L[i]
  OBVIOUS
<1> HIDE DEF P
<1>2. \A j \in 1 .. Len(P) : j = 1 \/ \E i \in 1 .. Len(L) : j = i + 1 /\ P[j] = L[i]
  <2> TAKE j \in 1 .. Len(P)
  <2>1. j # 1 => j - 1 \in 1 .. Len(L) /\ j = (j - 1) + 1
    BY <1>1
  <2> QED BY <1>1, <2>1
<1>3. Range(P) = {n} \cup Range(L)
  <2>1. Range(P) \subseteq {n} \cup Range(L)
    <3> SUFFICES ASSUME NEW j \in 1 .. Len(P) PROVE P[j] \in {n} \cup Range(L)
      BY <1>1 DEF Range
    <3>1. j # 1 => P[j] \in Range(L)
      BY <1>1, <1>2 DEF Range
    <3> QED BY <1>1, <3>1
  <2>2. \A i \in 1 .. Len(L) : i + 1 \in 1 .. Len(L) + 1
    BY <1>1
  <2>3. n \in Range(P)
    <3>1. 1 \in DOMAIN P
      BY <1>1
    <3> QED BY <1>1, <3>1 DEF Range
  <2>4. Range(L) \subseteq Range(P)
    <3> SUFFICES ASSUME NEW i \in 1 .. Len(L) PROVE L[i] \in Range(P)
      BY <1>1 DEF Range
    <3> QED BY <1>1, <2>2 DEF Range
  <2> QED BY <2>1, <2>3, <2>4
<1>4. \A i \in 1 .. Len(L) : L[i] # n
  BY <1>1 DEF Range
<1>5. IsInjective(P)
  <2> SUFFICES ASSUME NEW i \in 1 .. Len(P), NEW j \in 1 .. Len(P), P[i] = P[j] PROVE i = j
    BY <1>1 DEF IsInjective
  <2>1. \A k, l \in 1 .. Len(L) : L[k] = L[l] => k = l
    BY <1>1 DEF IsInjective
  <2>2. CASE i = 1 \/ j = 1
    BY <1>1, <1>2, <1>4, <2>2
  <2>3. CASE i # 1 /\ j # 1
    <3>1. PICK k \in 1 .. Len(L) : i = k + 1 /\ P[i] = L[k]
      BY <1>2, <2>3
    <3>2. PICK l \in 1 .. Len(L) : j = l + 1 /\ P[j] = L[l]
      BY <1>2, <2>3
    <3> QED BY <2>1, <3>1, <3>2
  <2> QED BY <2>2, <2>3
<1> QED BY <1>3, <1>5 DEF P

\* A node put in front of a list.
LEMMA LinkedPush ==
  ASSUME NEW links, NEW tag, NEW L, NEW ref, ref.node \in Node,
         Linked(links, tag, links[ref.node], L),
         ref.tag = tag[ref.node], ref.node \notin Range(L)
  PROVE  /\ Linked(links, tag, ref, <<ref.node>> \o L)
         /\ <<ref.node>> \o L \in Seq(Node)
         /\ \A n : n \in Range(<<ref.node>> \o L) <=> n = ref.node \/ n \in Range(L)
<1> DEFINE P == <<ref.node>> \o L
<1>1. /\ P \in Seq(Node) /\ Len(L) \in Nat /\ Len(P) = Len(L) + 1 /\ P[1] = ref.node
      /\ DOMAIN P = 1 .. Len(L) + 1 /\ DOMAIN L = 1 .. Len(L) /\ P # <<>>
      /\ \A i \in 1 .. Len(L) : P[i + 1] = L[i]
  BY DEF Linked
<1> HIDE DEF P
<1>2. \A j \in 1 .. Len(P) : j = 1 \/ \E i \in 1 .. Len(L) : j = i + 1 /\ P[j] = L[i]
  <2> TAKE j \in 1 .. Len(P)
  <2>1. j # 1 => j - 1 \in 1 .. Len(L) /\ j = (j - 1) + 1
    BY <1>1
  <2> QED BY <1>1, <2>1
<1>3. IsInjective(P)
  BY InjectivePush DEF Linked, P
<1>4. \A m : m \in Range(P) <=> m = ref.node \/ m \in Range(L)
  BY InjectivePush DEF Linked, P
<1>6. Points(tag, ref, IF P = <<>> THEN Invalid ELSE P[1])
  BY <1>1 DEF Points
<1>7. ASSUME NEW j \in 1 .. Len(P)
      PROVE  Points(tag, links[P[j]], IF j < Len(P) THEN P[j + 1] ELSE Invalid)
  <2>1. CASE j = 1
    <3>1. L = <<>> <=> ~ j < Len(P)
      BY <1>1, <2>1, EmptySeq DEF Linked
    <3>2. j < Len(P) => P[j + 1] = L[1]
      BY <1>1, <2>1
    <3> QED BY <1>1, <2>1, <3>1, <3>2 DEF Linked
  <2>2. CASE j # 1
    <3>1. PICK i \in 1 .. Len(L) : j = i + 1 /\ P[j] = L[i]
      BY <1>2, <2>2
    <3>2. /\ i < Len(L) <=> j < Len(P)
          /\ i < Len(L) => P[j + 1] = L[i + 1]
      BY <1>1, <3>1
    <3>3. Points(tag, links[L[i]], IF i < Len(L) THEN L[i + 1] ELSE Invalid)
      BY DEF Linked
    <3> QED BY <3>1, <3>2, <3>3
  <2> QED BY <2>1, <2>2
<1> QED BY <1>1, <1>3, <1>4, <1>6, <1>7 DEF Linked, P

\* What is done to other nodes leaves a list alone.
LEMMA LinkedFrame ==
  ASSUME NEW links, NEW tag, NEW head, NEW L, Linked(links, tag, head, L),
         NEW links2, NEW tag2,
         \A n \in Range(L) : links2[n] = links[n] /\ tag2[n] = tag[n]
  PROVE  Linked(links2, tag2, head, L)
<1>1. DOMAIN L = 1 .. Len(L) /\ Len(L) \in Nat /\ (L # <<>> => 1 \in 1 .. Len(L))
  BY DEF Linked
<1>2. \A i \in 1 .. Len(L) : L[i] \in Range(L)
  BY <1>1 DEF Range
<1>3. Points(tag2, head, IF L = <<>> THEN Invalid ELSE L[1])
  BY <1>1, <1>2 DEF Linked, Points
<1>4. ASSUME NEW i \in 1 .. Len(L)
      PROVE  Points(tag2, links2[L[i]], IF i < Len(L) THEN L[i + 1] ELSE Invalid)
  <2>1. i < Len(L) => i + 1 \in 1 .. Len(L)
    BY <1>1
  <2> QED BY <1>2, <2>1 DEF Linked, Points
<1> QED BY <1>3, <1>4 DEF Linked

\* A list has at most as many nodes as there are.
LEMMA LinkedFits ==
  ASSUME NEW links, NEW tag, NEW head, NEW L, Linked(links, tag, head, L)
  PROVE  Len(L) \in 0 .. Capacity
<1>1. L \in Injection(1 .. Len(L), Node) /\ Len(L) \in Nat
  BY DEF Linked, Injection, IsInjective
<1>2. IsFiniteSet(Node) /\ Cardinality(Node) = Capacity
  BY FS_Interval, CapacityAssumption DEF Node
<1>3. IsFiniteSet(1 .. Len(L)) /\ Cardinality(1 .. Len(L)) = Len(L)
  BY <1>1, FS_Interval
<1>4. Len(L) <= Capacity
  BY <1>1, <1>2, <1>3, FS_Injection
<1> QED BY <1>1, <1>4, CapacityAssumption

\* Chain follows the links of a list from its first node to its last.
LEMMA LinkedIsChain ==
  ASSUME NEW links, NEW tag, NEW head, NEW L, Linked(links, tag, head, L)
  PROVE  Chain(links, head) = L
<1> DEFINE Step(f) == [k \in Nat |->
             IF k = 0 THEN head.node
             ELSE IF f[k - 1] = Invalid THEN Invalid ELSE links[f[k - 1]].node]
           Along == [k \in Nat |-> IF k < Len(L) THEN L[k + 1] ELSE Invalid]
           at == CHOOSE f : f = Step(f)
           ends == {k \in 0 .. Capacity : at[k] = Invalid}
<1>1. /\ L \in Seq(Node) /\ Len(L) \in Nat /\ Len(L) <= Capacity /\ Capacity \in Nat
      /\ L = <<>> <=> Len(L) = 0
      /\ \A i \in 1 .. Len(L) : L[i] # Invalid
  <2>1. Len(L) \in 0 .. Capacity
    BY LinkedFits
  <2>2. L \in Seq(Node)
    BY DEF Linked
  <2> QED BY <2>1, <2>2, EmptySeq, CapacityAssumption DEF Invalid, Node
<1>2. Along = Step(Along)
  <2> SUFFICES ASSUME NEW k \in Nat PROVE Along[k] = Step(Along)[k]
    OBVIOUS
  <2>1. CASE k = 0
    BY <1>1, <2>1 DEF Linked, Points
  <2>2. CASE k # 0 /\ k <= Len(L)
    <3>1. k \in 1 .. Len(L) /\ Along[k - 1] = L[k]
      BY <1>1, <2>2
    <3>2. Points(tag, links[L[k]], IF k < Len(L) THEN L[k + 1] ELSE Invalid)
      BY <3>1 DEF Linked
    <3>3. Step(Along)[k] = links[L[k]].node
      BY <1>1, <2>2, <3>1
    <3> QED BY <3>2, <3>3 DEF Points
  <2>3. CASE k > Len(L)
    <3>1. k # 0 /\ k - 1 \in Nat /\ ~(k - 1 < Len(L)) /\ ~(k < Len(L))
      BY <1>1, <2>3
    <3> QED BY <3>1
  <2> QED BY <1>1, <2>1, <2>2, <2>3
<1>3. at = Step(at)
  BY <1>2
<1>4. \A k \in Nat : at[k] = Along[k]
  <2> DEFINE bad == {k \in Nat : at[k] # Along[k]}
  <2> SUFFICES ASSUME bad # {} PROVE FALSE
    OBVIOUS
  <2>1. PICK k \in bad : \A y \in bad : ~ (<<y, k>> \in OpToRel(<, Nat))
    BY NatLessThanWellFounded, WFMin
  <2>2. \A y \in Nat : y < k => at[y] = Along[y]
    BY <2>1 DEF OpToRel
  <2>3. at[k] = Step(at)[k] /\ Along[k] = Step(Along)[k] /\ k \in Nat
    BY <1>2, <1>3
  <2> HIDE DEF at, Along
  <2>4. k # 0 => at[k - 1] = Along[k - 1]
    BY <2>2, <2>3
  <2>5. at[k] = Along[k]
    BY <2>3, <2>4
  <2> QED BY <2>1, <2>5
<1> HIDE DEF at
<1>5. ends \cup {Capacity} = Len(L) .. Capacity
  <2>1. \A k \in 0 .. Capacity : at[k] = Invalid <=> Len(L) <= k
    BY <1>1, <1>4
  <2> QED BY <1>1, <2>1
<1>6. Min(ends \cup {Capacity}) = Len(L)
  <2>1. \A y \in Len(L) .. Capacity : Len(L) <= y
    BY <1>1
  <2>2. Len(L) \in Len(L) .. Capacity
    BY <1>1
  <2>3. \A x \in Len(L) .. Capacity :
          (\A y \in Len(L) .. Capacity : x <= y) => x = Len(L)
    BY <1>1, <2>2
  <2> QED BY <1>5, <2>1, <2>2, <2>3 DEF Min
<1>7. Chain(links, head) = [k \in 1 .. Min(ends \cup {Capacity}) |-> at[k - 1]]
  BY DEF Chain, at
<1>8. \A k \in 1 .. Len(L) : at[k - 1] = L[k]
  BY <1>1, <1>4
<1> QED BY <1>1, <1>6, <1>7, <1>8

----------------------------------------------------------------------------
(* The inductive invariant.  The lists are the free stack, the request     *)
(* stack and what the handler has still to walk; tag[n] is the tag of node *)
(* n and where[n] the place it is in.                                      *)

FreeingNode == pc[h] \in {"link", "free"}

Stacks(F, R, W, tag) ==
  /\ Linked(next, tag, freeHead, F)
  /\ Linked(next, tag, reqHead, R)
  /\ Linked(next, tag, Rest, W)

\* The places exclude each other because where is a function.
Places(F, R, W, where) ==
  \A n \in Node :
    /\ where[n] = "free" <=> n \in Range(F)
    /\ where[n] = "requests" <=> n \in Range(R)
    /\ where[n] = h <=> n \in Range(W) \/ (FreeingNode /\ node[h].node = n)
    /\ \A p \in Producer :
         where[n] = p <=> pc[p] \in {"link", "push"} /\ node[p].node = n

\* The head a producer is about to exchange has been popped since, and has a
\* larger tag for ever, or it is on the free stack and links to what the
\* producer has read.
Producers(tag, where) ==
  \A p \in Producer :
    /\ pc[p] \in {"idle", "pop", "next", "take", "link", "push"}
    /\ pc[p] # "idle" => sent[p] \in 1 .. MaxPush
    /\ pc[p] \in {"next", "take"} =>
         /\ old[p].node \in Node /\ old[p].tag <= tag[old[p].node]
         /\ old[p].tag = tag[old[p].node] =>
              /\ where[old[p].node] = "free"
              /\ pc[p] = "take" => nxt[p] = next[old[p].node]
    /\ pc[p] \in {"link", "push"} =>
         /\ Points(tag, node[p], node[p].node) /\ node[p].node \in Node
         /\ content[node[p].node] = <<p, sent[p]>>
    /\ pc[p] = "push" => next[node[p].node] = old[p]

HandlerWalks(W, tag) ==
  /\ pc[h] \in {"idle", "take", "walk", "link", "free", "run"}
  /\ FreeingNode =>
       /\ Points(tag, node[h], node[h].node) /\ node[h].node \in Node
       /\ node[h].node \notin Range(W)
  /\ pc[h] = "free" => next[node[h].node] = old[h]
  /\ pc[h] \in {"idle", "take"} => temp = <<>>

\* The requests a call of PushRequest has accepted, and those that have made
\* it pop a node or give up.
Accepted ==
  {r \in Request : r[2] < sent[r[1]] \/ (r[2] = sent[r[1]] /\ pc[r[1]] = "idle")}
Taken ==
  {r \in Request :
     r[2] < sent[r[1]] \/ (r[2] = sent[r[1]] /\ pc[r[1]] \notin {"pop", "next", "take"})}

Requests(R, W) ==
  /\ \A n \in Range(R) \cup Range(W) : content[n] \in Accepted
  /\ Range(temp) \cup Range(ran) \subseteq Accepted

\* A node has been popped no more often than requests have taken one.
TagsAreYoung(tag) == \A n \in Node : tag[n] <= Cardinality(Taken)

Shape(F, R, W, tag, where) ==
  /\ Stacks(F, R, W, tag) /\ Places(F, R, W, where)
  /\ Producers(tag, where) /\ HandlerWalks(W, tag)
  /\ Requests(R, W) /\ TagsAreYoung(tag)

IInv ==
  /\ TypeOK
  /\ \E F, R, W \in Seq(Node), tag \in [Node -> Nat], where \in [Node -> Place] :
       Shape(F, R, W, tag, where)

\* The requests are finitely many.
LEMMA FiniteRequests ==
  IsFiniteSet(Request) /\ Cardinality(Request) \in Nat
<1>1. IsFiniteSet(1 .. MaxPush)
  BY TagAssumption, FS_Interval
<1> QED BY <1>1, ThreadAssumption, FS_Product, FS_CardinalityType DEF Request

\* No tag comes round: there are more tags than requests, and a node is popped
\* for a request.
LEMMA TagsFit ==
  ASSUME NEW tag \in [Node -> Nat], TagsAreYoung(tag)
  PROVE  /\ IsFiniteSet(Taken) /\ Cardinality(Taken) \in Nat
         /\ \A n \in Node : tag[n] < TagRange
         /\ \A r \in Request \ Taken :
              /\ \A n \in Node : tag[n] + 1 < TagRange
              /\ Cardinality(Taken \cup {r}) = Cardinality(Taken) + 1
<1>1. IsFiniteSet(Request) /\ Cardinality(Request) \in Nat
  BY FiniteRequests
<1>2. Taken \subseteq Request
  BY DEF Taken
<1>3. /\ IsFiniteSet(Taken) /\ Cardinality(Taken) \in Nat
      /\ Cardinality(Taken) <= Cardinality(Request)
  BY <1>1, <1>2, FS_Subset, FS_CardinalityType
<1>4. \A n \in Node : tag[n] < TagRange
  BY <1>1, <1>3, TagAssumption DEF TagsAreYoung
<1>5. ASSUME NEW r \in Request \ Taken
      PROVE  /\ Cardinality(Taken \cup {r}) = Cardinality(Taken) + 1
             /\ \A n \in Node : tag[n] + 1 < TagRange
  <2>1. Cardinality(Taken \cup {r}) = Cardinality(Taken) + 1
    BY <1>3, FS_AddElement
  <2>2. Taken \cup {r} \in SUBSET Request
    BY <1>2
  <2>3. Cardinality(Taken \cup {r}) <= Cardinality(Request)
    BY <1>1, <2>2, FS_Subset
  <2>4. Cardinality(Taken) + 1 < TagRange
    BY <1>1, <1>3, <2>1, <2>3, TagAssumption
  <2> QED BY <1>3, <2>1, <2>4, TagAssumption DEF TagsAreYoung
<1> QED BY <1>3, <1>4, <1>5

\* A tag that does not come round is one larger.
LEMMA SmallMod ==
  ASSUME NEW a \in Nat, NEW b \in Nat, a < b
  PROVE  a % b = a
OBVIOUS

\* What popping a node does to its tag.
LEMMA IncIsPlusOne ==
  ASSUME NEW ref \in Ref, ref.tag + 1 < TagRange
  PROVE  IncRequestIndex(ref) = [tag |-> ref.tag + 1, node |-> ref.node]
<1>1. ref.tag + 1 \in Nat /\ TagRange \in Nat
  BY TagAssumption DEF Ref
<1>2. (ref.tag + 1) % TagRange = ref.tag + 1
  BY <1>1, SmallMod
<1>3. ref = [tag |-> ref.tag, node |-> ref.node]
  BY DEF Ref
<1>4. IncRequestIndex(ref) = [tag |-> (ref.tag + 1) % TagRange, node |-> ref.node]
  BY <1>3 DEF IncRequestIndex
<1> QED BY <1>2, <1>4

\* Nobody takes a request back.
LEMMA AcceptedStays ==
  ASSUME TypeOK, sent' = sent,
         \A p \in Producer : pc[p] = "idle" => pc'[p] = "idle"
  PROVE  Accepted \subseteq Accepted'
BY DEF Accepted, Request

\* Nobody gives back the node a request has taken.
LEMMA TakenStays ==
  ASSUME TypeOK, NEW tag \in [Node -> Nat], TagsAreYoung(tag), sent' = sent,
         \A p \in Producer : pc[p] \notin {"pop", "next", "take"} =>
                               pc'[p] \notin {"pop", "next", "take"}
  PROVE  TagsAreYoung(tag)'
<1>1. Taken \subseteq Taken' /\ Taken' \subseteq Request
  BY DEF Taken, Request
<1>2. IsFiniteSet(Request) /\ IsFiniteSet(Taken')
  BY <1>1, FiniteRequests, FS_Subset
<1>3. Cardinality(Taken) <= Cardinality(Taken') /\ Cardinality(Taken') \in Nat
      /\ Cardinality(Taken) \in Nat
  BY <1>1, <1>2, TagsFit, FS_Subset, FS_CardinalityType
<1> QED BY <1>3 DEF TagsAreYoung

\* At the start every node is on the free stack.
LEMMA InitHolds == Init => IInv
<1> SUFFICES ASSUME Init PROVE IInv
  OBVIOUS
<1> DEFINE F == [i \in 1 .. Capacity |-> i - 1]
           tag == [n \in Node |-> 0]
           where == [n \in Node |-> "free"]
<1> USE CapacityAssumption
<1>1. TypeOK
  <2>1. 0 \in 0 .. TagRange - 1
    BY TagAssumption, FiniteRequests
  <2>2. Nothing \in Ref /\ [tag |-> 0, node |-> 0] \in Ref
    BY <2>1 DEF Nothing, Ref, Node, Invalid
  <2>3. next \in [Node -> Ref]
    BY <2>1 DEF Init, Node, Ref, Invalid
  <2>4. sent \in [Producer -> 0 .. MaxPush]
    BY TagAssumption DEF Init
  <2> QED BY <2>2, <2>3, <2>4 DEF Init, TypeOK, Nothing
<1>2. F \in Seq(Node) /\ Len(F) = Capacity /\ DOMAIN F = 1 .. Capacity /\ F # <<>>
  BY DEF Node
<1>3. Range(F) = Node
  <2>1. \A n \in Node : n + 1 \in 1 .. Capacity /\ F[n + 1] = n
    BY DEF Node
  <2>2. \A i \in 1 .. Capacity : F[i] \in Node
    BY DEF Node
  <2> QED BY <1>2, <2>1, <2>2 DEF Range
<1>4. Linked(next, tag, freeHead, F)
  <2>1. Points(tag, freeHead, F[1])
    BY DEF Init, Points, Node
  <2>2. ASSUME NEW i \in 1 .. Len(F)
        PROVE  Points(tag, next[F[i]], IF i < Len(F) THEN F[i + 1] ELSE Invalid)
    BY <1>2 DEF Init, Points, Node, Invalid
  <2>3. IsInjective(F)
    BY <1>2 DEF IsInjective
  <2> HIDE DEF F
  <2> QED BY <1>2, <2>1, <2>2, <2>3 DEF Linked
<1>5. Linked(next, tag, reqHead, <<>>) /\ Linked(next, tag, Rest, <<>>)
  <2>1. reqHead.node = Invalid /\ Rest.node = Invalid
    BY DEF Init, Nothing, Rest, Thread, h
  <2> QED BY <2>1, EmptyLinked
<1>6. Places(F, <<>>, <<>>, where)
  BY <1>3, ThreadAssumption DEF Places, Init, FreeingNode, Thread, h, Range
<1>7. Producers(tag, where) /\ HandlerWalks(<<>>, tag)
  BY DEF Producers, HandlerWalks, FreeingNode, Init, Thread, h
<1>8. Requests(<<>>, <<>>)
  BY DEF Requests, Init, Range
<1>9. TagsAreYoung(tag)
  <2>1. Taken \subseteq Request
    BY DEF Taken
  <2>2. Cardinality(Taken) \in Nat
    BY <2>1, FiniteRequests, FS_Subset, FS_CardinalityType
  <2> QED BY <2>2 DEF TagsAreYoung
<1>10. Shape(F, <<>>, <<>>, tag, where)
  BY <1>4, <1>5, <1>6, <1>7, <1>8, <1>9 DEF Shape, Stacks
<1>11. tag \in [Node -> Nat] /\ where \in [Node -> Place] /\ <<>> \in Seq(Node)
  BY DEF Place
<1> QED BY <1>1, <1>2, <1>10, <1>11 DEF IInv

----------------------------------------------------------------------------
(* The steps of a producer. *)

\* A step that leaves the memory, the nodes in hand and what there is to walk
\* as they are, and withdraws no request.
LEMMA QuietStep ==
  ASSUME TypeOK, TypeOK',
         NEW F \in Seq(Node), NEW R \in Seq(Node), NEW W \in Seq(Node),
         NEW tag \in [Node -> Nat], NEW where \in [Node -> Place],
         Shape(F, R, W, tag, where),
         UNCHANGED <<freeHead, reqHead, next, content, node, Rest, FreeingNode, ran>>,
         \A p \in Producer : pc[p] \in {"link", "push"} <=> pc'[p] \in {"link", "push"},
         Range(temp') \subseteq Range(temp), Accepted \subseteq Accepted',
         Producers(tag, where)', HandlerWalks(W, tag)', TagsAreYoung(tag)'
  PROVE  Shape(F, R, W, tag, where)'
<1>1. Stacks(F, R, W, tag)'
  BY DEF Shape, Stacks
<1>2. Places(F, R, W, where)'
  BY DEF Shape, Places
<1>3. Requests(R, W)'
  BY DEF Shape, Requests
<1> QED BY <1>1, <1>2, <1>3 DEF Shape

\* A call begins: the request counts as taken only when it has popped a node.
LEMMA CallStep ==
  ASSUME NEW p \in Producer, Call(p), TypeOK,
         NEW F \in Seq(Node), NEW R \in Seq(Node), NEW W \in Seq(Node),
         NEW tag \in [Node -> Nat], NEW where \in [Node -> Place],
         Shape(F, R, W, tag, where)
  PROVE  TypeOK' /\ Shape(F, R, W, tag, where)'
<1> USE ThreadAssumption, TagAssumption DEF Call, Goto, Thread, h
<1>1. TypeOK'
  BY DEF TypeOK
<1>2. UNCHANGED <<Rest, FreeingNode>>
  BY DEF Rest, FreeingNode, TypeOK
<1>3. Accepted' = Accepted
  BY DEF Accepted, Request, TypeOK
<1>4. Taken' = Taken
  BY DEF Taken, Request, TypeOK
<1>5. Producers(tag, where)'
  BY DEF Shape, Producers, TypeOK
<1>6. HandlerWalks(W, tag)'
  BY <1>2 DEF Shape, HandlerWalks, TypeOK
<1>7. TagsAreYoung(tag)'
  BY <1>4 DEF Shape, TagsAreYoung
<1>8. \A q \in Producer : pc[q] \in {"link", "push"} <=> pc'[q] \in {"link", "push"}
  BY DEF TypeOK
<1> QED BY <1>1, <1>2, <1>3, <1>5, <1>6, <1>7, <1>8, QuietStep

\* The head of the free stack, when it is not empty, has the tag of its node.
LEMMA FreeTop ==
  ASSUME NEW F, NEW R, NEW W, NEW tag, NEW where,
         Shape(F, R, W, tag, where), freeHead.node # Invalid
  PROVE  /\ freeHead.node \in Node /\ freeHead.tag = tag[freeHead.node]
         /\ F # <<>> /\ where[freeHead.node] = "free"
<1>1. Linked(next, tag, freeHead, F)
  BY DEF Shape, Stacks
<1>2. freeHead.node \in Node /\ freeHead.tag = tag[freeHead.node] /\ F # <<>>
  BY <1>1, LinkedHead
<1>3. \A n : n \in Range(F) <=> n = freeHead.node \/ n \in Range(Tail(F))
  BY <1>1, LinkedRange
<1>4. where[freeHead.node] = "free"
  BY <1>2, <1>3 DEF Shape, Places
<1> QED BY <1>2, <1>4

\* A head is loaded with the tag its node has.
LEMMA LoadFreeStep ==
  ASSUME NEW p \in Producer, LoadFree(p), TypeOK,
         NEW F \in Seq(Node), NEW R \in Seq(Node), NEW W \in Seq(Node),
         NEW tag \in [Node -> Nat], NEW where \in [Node -> Place],
         Shape(F, R, W, tag, where)
  PROVE  TypeOK' /\ Shape(F, R, W, tag, where)'
<1> USE ThreadAssumption DEF LoadFree, Goto, Thread, h
<1>1. TypeOK'
  BY DEF TypeOK
<1>2. UNCHANGED <<Rest, FreeingNode>>
  BY DEF Rest, FreeingNode, TypeOK
<1>3. Accepted \subseteq Accepted'
  BY AcceptedStays DEF TypeOK
<1>4. TagsAreYoung(tag)'
  BY TakenStays DEF TypeOK, Shape
<1>5. HandlerWalks(W, tag)'
  BY <1>2 DEF Shape, HandlerWalks, TypeOK
<1>6. Producers(tag, where)'
  <2>1. freeHead.node # Invalid =>
          /\ freeHead.node \in Node /\ freeHead.tag = tag[freeHead.node]
          /\ where[freeHead.node] = "free"
    <3> SUFFICES ASSUME freeHead.node # Invalid
                 PROVE  /\ freeHead.node \in Node /\ freeHead.tag = tag[freeHead.node]
                        /\ where[freeHead.node] = "free"
      OBVIOUS
    <3> QED BY FreeTop
  <2> QED BY <2>1 DEF Shape, Producers, TypeOK
<1>7. \A q \in Producer : pc[q] \in {"link", "push"} <=> pc'[q] \in {"link", "push"}
  BY DEF TypeOK
<1> QED BY <1>1, <1>2, <1>3, <1>4, <1>5, <1>6, <1>7, QuietStep

\* What follows the node is read; it is right as long as the tag is.
LEMMA ReadNextStep ==
  ASSUME NEW p \in Producer, ReadNext(p), TypeOK,
         NEW F \in Seq(Node), NEW R \in Seq(Node), NEW W \in Seq(Node),
         NEW tag \in [Node -> Nat], NEW where \in [Node -> Place],
         Shape(F, R, W, tag, where)
  PROVE  TypeOK' /\ Shape(F, R, W, tag, where)'
<1> USE ThreadAssumption DEF ReadNext, Goto, Thread, h
<1>1. TypeOK'
  BY DEF TypeOK, Shape, Producers
<1>2. UNCHANGED <<Rest, FreeingNode>>
  BY DEF Rest, FreeingNode, TypeOK
<1>3. Accepted \subseteq Accepted'
  BY AcceptedStays DEF TypeOK
<1>4. TagsAreYoung(tag)'
  BY TakenStays DEF TypeOK, Shape
<1>5. HandlerWalks(W, tag)'
  BY <1>2 DEF Shape, HandlerWalks, TypeOK
<1>6. Producers(tag, where)'
  BY DEF Shape, Producers, TypeOK
<1>7. \A q \in Producer : pc[q] \in {"link", "push"} <=> pc'[q] \in {"link", "push"}
  BY DEF TypeOK
<1> QED BY <1>1, <1>2, <1>3, <1>4, <1>5, <1>6, <1>7, QuietStep

\* An exchange that fails sends the producer back to its load.
LEMMA ExchangeFails ==
  ASSUME NEW p \in Producer, TypeOK,
         \/ pc[p] = "take" /\ Goto(p, "pop")
         \/ pc[p] = "push" /\ Goto(p, "link"),
         UNCHANGED <<freeHead, reqHead, next, content, old, nxt, node, temp, sent, ran>>,
         NEW F \in Seq(Node), NEW R \in Seq(Node), NEW W \in Seq(Node),
         NEW tag \in [Node -> Nat], NEW where \in [Node -> Place],
         Shape(F, R, W, tag, where)
  PROVE  TypeOK' /\ Shape(F, R, W, tag, where)'
<1> USE ThreadAssumption DEF Goto, Thread, h
<1>1. TypeOK'
  BY DEF TypeOK
<1>2. UNCHANGED <<Rest, FreeingNode>>
  BY DEF Rest, FreeingNode, TypeOK
<1>3. Accepted \subseteq Accepted'
  BY AcceptedStays DEF TypeOK
<1>4. TagsAreYoung(tag)'
  BY TakenStays DEF TypeOK, Shape
<1>5. HandlerWalks(W, tag)'
  BY <1>2 DEF Shape, HandlerWalks, TypeOK
<1>6. Producers(tag, where)'
  BY DEF Shape, Producers, TypeOK
<1>7. \A q \in Producer : pc[q] \in {"link", "push"} <=> pc'[q] \in {"link", "push"}
  BY DEF TypeOK
<1> QED BY <1>1, <1>2, <1>3, <1>4, <1>5, <1>6, <1>7, QuietStep

\* An exchange that succeeds finds the tag it has read, so nobody has popped the
\* node since and what the producer has read of it is right.  From now on the
\* tag is another one.
LEMMA PopFreeStep ==
  ASSUME NEW p \in Producer, PopFree(p), freeHead = old[p], TypeOK,
         NEW F \in Seq(Node), NEW R \in Seq(Node), NEW W \in Seq(Node),
         NEW tag \in [Node -> Nat], NEW where \in [Node -> Place],
         Shape(F, R, W, tag, where)
  PROVE  /\ TypeOK' /\ Tail(F) \in Seq(Node)
         /\ \E tag2 \in [Node -> Nat], where2 \in [Node -> Place] :
              Shape(Tail(F), R, W, tag2, where2)'
<1> USE ThreadAssumption DEF Thread, h
<1>1. PICK n \in Node : n = old[p].node /\ n # Invalid
  BY CapacityAssumption DEF PopFree, Shape, Producers, Invalid, Node
<1>2. PICK tag2 \in [Node -> Nat] :
        tag2[n] = tag[n] + 1 /\ \A m \in Node : m # n => tag2[m] = tag[m]
  <2> WITNESS [tag EXCEPT ![n] = @ + 1] \in [Node -> Nat]
  <2> QED OBVIOUS
<1>3. PICK where2 \in [Node -> Place] :
        where2[n] = p /\ \A m \in Node : m # n => where2[m] = where[m]
  <2>1. [where EXCEPT ![n] = p] \in [Node -> Place]
    BY DEF Place
  <2> QED BY <2>1
<1>4. /\ pc[p] = "take" /\ pc' = [pc EXCEPT ![p] = "link"]
      /\ freeHead' = nxt[p] /\ node' = [node EXCEPT ![p] = IncRequestIndex(old[p])]
      /\ content' = [content EXCEPT ![n] = <<p, sent[p]>>]
      /\ UNCHANGED <<reqHead, next, old, nxt, temp, sent, ran>>
  BY <1>1 DEF PopFree, Goto
<1>5. /\ old[p].tag = tag[n] /\ where[n] = "free" /\ F # <<>> /\ Tail(F) \in Seq(Node)
      /\ Linked(next, tag, next[n], Tail(F))
      /\ \A m : m \in Range(F) <=> m = n \/ m \in Range(Tail(F))
      /\ n \notin Range(Tail(F))
  <2>1. freeHead.node = n /\ freeHead.node # Invalid /\ freeHead = old[p]
    BY <1>1
  <2>2. old[p].tag = tag[n] /\ where[n] = "free" /\ F # <<>>
    BY <2>1, FreeTop
  <2>3. Linked(next, tag, freeHead, F)
    BY DEF Shape, Stacks
  <2>4. Tail(F) \in Seq(Node) /\ Linked(next, tag, next[n], Tail(F))
    BY <2>1, <2>3, LinkedRest
  <2>5. /\ \A m : m \in Range(F) <=> m = n \/ m \in Range(Tail(F))
        /\ n \notin Range(Tail(F))
    BY <2>1, <2>3, LinkedRange
  <2> QED BY <2>2, <2>4, <2>5
<1>6. nxt[p] = next[n] /\ sent[p] \in 1 .. MaxPush
  BY <1>1, <1>4, <1>5 DEF Shape, Producers
<1>7. n \notin Range(R) /\ n \notin Range(W) /\ ~(FreeingNode /\ node[h].node = n)
  BY <1>5 DEF Shape, Places
<1>8. <<p, sent[p]>> \in Request \ Taken
  BY <1>4, <1>6, TagAssumption DEF Request, Taken
<1>9. Taken' = Taken \cup {<<p, sent[p]>>}
  BY <1>4, <1>8, TagAssumption DEF Taken, Request, TypeOK
<1>10. /\ tag[n] + 1 < TagRange
       /\ Cardinality(Taken \cup {<<p, sent[p]>>}) = Cardinality(Taken) + 1
       /\ Cardinality(Taken) \in Nat
  <2>1. TagsAreYoung(tag)
    BY DEF Shape
  <2> QED BY <1>8, <2>1, TagsFit
<1>11. IncRequestIndex(old[p]) = [tag |-> tag[n] + 1, node |-> n]
  <2>1. old[p] \in Ref /\ old[p].tag + 1 < TagRange
    BY <1>5, <1>10 DEF TypeOK
  <2> QED BY <1>1, <1>5, <2>1, IncIsPlusOne
<1>12. TypeOK'
  <2>1. [tag |-> tag[n] + 1, node |-> n] \in Ref
    BY <1>10, TagAssumption DEF Ref
  <2> QED BY <1>4, <1>8, <1>11, <2>1 DEF TypeOK
<1>13. UNCHANGED <<Rest, FreeingNode>> /\ node'[h] = node[h]
  BY <1>4 DEF Rest, FreeingNode, TypeOK
<1>14. Stacks(Tail(F), R, W, tag2)'
  <2>1. \A m \in Range(Tail(F)) : next[m] = next[m] /\ tag2[m] = tag[m]
    BY <1>2, <1>5 DEF Range
  <2>2. \A m \in Range(R) : next[m] = next[m] /\ tag2[m] = tag[m]
    BY <1>2, <1>7 DEF Range
  <2>3. \A m \in Range(W) : next[m] = next[m] /\ tag2[m] = tag[m]
    BY <1>2, <1>7 DEF Range
  <2>4. Linked(next, tag, reqHead, R) /\ Linked(next, tag, Rest, W)
    BY DEF Shape, Stacks
  <2>5. Linked(next, tag2, next[n], Tail(F))
    BY <1>5, <2>1, LinkedFrame
  <2>6. Linked(next, tag2, reqHead, R)
    BY <2>2, <2>4, LinkedFrame
  <2>7. Linked(next, tag2, Rest, W)
    BY <2>3, <2>4, LinkedFrame
  <2> QED BY <1>4, <1>6, <1>13, <2>5, <2>6, <2>7 DEF Stacks
<1>15. Places(Tail(F), R, W, where2)'
  <2>1. Places(F, R, W, where)
    BY DEF Shape
  <2>2. node'[p].node = n /\ \A q \in Producer : q # p => node'[q] = node[q] /\ pc'[q] = pc[q]
    BY <1>1, <1>4, <1>10, <1>11 DEF TypeOK
  <2>3. ASSUME NEW m \in Node
        PROVE  /\ where2[m] = "free" <=> m \in Range(Tail(F))
               /\ where2[m] = "requests" <=> m \in Range(R)
               /\ where2[m] = h <=> m \in Range(W) \/ (FreeingNode /\ node[h].node = m)
    BY <1>2, <1>3, <1>5, <1>7, <2>1 DEF Places
  <2>4. ASSUME NEW m \in Node, NEW q \in Producer
        PROVE  where2[m] = q <=> pc'[q] \in {"link", "push"} /\ node'[q].node = m
    <3>1. where[m] = q <=> pc[q] \in {"link", "push"} /\ node[q].node = m
      BY <2>1 DEF Places
    <3>2. CASE q = p
      <4>1. pc'[q] = "link" /\ where[m] # p
        BY <1>4, <2>1, <3>2 DEF TypeOK, Places
      <4> QED BY <1>3, <2>2, <3>2, <4>1
    <3>3. CASE q # p
      <4>1. m = n => where[m] # q /\ where2[m] # q
        BY <1>3, <1>5, <3>3
      <4> QED BY <1>3, <2>2, <3>1, <3>3, <4>1
    <3> QED BY <3>2, <3>3
  <2> QED BY <1>13, <2>3, <2>4 DEF Places
<1>16. Producers(tag2, where2)'
  <2>1. Producers(tag, where) /\ Places(F, R, W, where)
    BY DEF Shape
  <2>2. ASSUME NEW q \in Producer, q # p, pc[q] \in {"next", "take"}
        PROVE  /\ old[q].node \in Node /\ old[q].tag <= tag2[old[q].node]
               /\ old[q].tag = tag2[old[q].node] =>
                    /\ where2[old[q].node] = "free"
                    /\ pc[q] = "take" => nxt[q] = next[old[q].node]
    <3>1. old[q].tag \in Nat
      BY TagAssumption DEF TypeOK, Ref
    <3>2. /\ old[q].node \in Node /\ old[q].tag <= tag[old[q].node]
          /\ old[q].tag = tag[old[q].node] =>
               /\ where[old[q].node] = "free"
               /\ pc[q] = "take" => nxt[q] = next[old[q].node]
      BY <2>1, <2>2 DEF Producers
    <3>3. CASE old[q].node = n
      BY <1>2, <3>1, <3>2, <3>3
    <3>4. CASE old[q].node # n
      BY <1>2, <1>3, <3>2, <3>4
    <3> QED BY <3>3, <3>4
  <2>3. ASSUME NEW q \in Producer, q # p, pc[q] \in {"link", "push"}
        PROVE  /\ Points(tag2, node[q], node[q].node) /\ node[q].node \in Node
               /\ node[q].node # n /\ content'[node[q].node] = <<q, sent[q]>>
    <3>1. /\ Points(tag, node[q], node[q].node) /\ node[q].node \in Node
          /\ content[node[q].node] = <<q, sent[q]>> /\ where[node[q].node] = q
      BY <2>1, <2>3 DEF Producers, Places
    <3>2. node[q].node # n
      BY <1>5, <1>6, <3>1
    <3> QED BY <1>1, <1>2, <1>3, <1>4, <3>1, <3>2 DEF Points, TypeOK
  <2>4. Points(tag2, node'[p], n) /\ node'[p].node = n /\ content'[n] = <<p, sent[p]>>
    BY <1>1, <1>2, <1>3, <1>4, <1>10, <1>11 DEF Points, TypeOK
  <2>5. ASSUME NEW q \in Producer, q # p PROVE pc'[q] = pc[q] /\ node'[q] = node[q]
    BY <1>1, <1>4, <2>5 DEF TypeOK
  <2>6. pc'[p] = "link"
    BY <1>1, <1>4 DEF TypeOK
  <2>7. UNCHANGED <<sent, old, nxt, next>>
    BY <1>4
  <2> SUFFICES ASSUME NEW q \in Producer
               PROVE  /\ pc'[q] \in {"idle", "pop", "next", "take", "link", "push"}
                      /\ pc'[q] # "idle" => sent[q] \in 1 .. MaxPush
                      /\ pc'[q] \in {"next", "take"} =>
                           /\ old[q].node \in Node /\ old[q].tag <= tag2[old[q].node]
                           /\ old[q].tag = tag2[old[q].node] =>
                                /\ where2[old[q].node] = "free"
                                /\ pc'[q] = "take" => nxt[q] = next[old[q].node]
                      /\ pc'[q] \in {"link", "push"} =>
                           /\ Points(tag2, node'[q], node'[q].node) /\ node'[q].node \in Node
                           /\ content'[node'[q].node] = <<q, sent[q]>>
                      /\ pc'[q] = "push" => next[node'[q].node] = old[q]
    BY <2>7 DEF Producers, Points
  <2>8. CASE q = p
    BY <1>6, <2>4, <2>6, <2>8
  <2>9. CASE q # p
    <3>1. pc'[q] = pc[q] /\ node'[q] = node[q]
      BY <2>5, <2>9
    <3>2. /\ pc[q] \in {"idle", "pop", "next", "take", "link", "push"}
          /\ pc[q] # "idle" => sent[q] \in 1 .. MaxPush
          /\ pc[q] = "push" => next[node[q].node] = old[q]
      BY <2>1 DEF Producers
    <3> QED BY <2>2, <2>3, <2>9, <3>1, <3>2
  <2> QED BY <2>8, <2>9
<1>17. HandlerWalks(W, tag2)'
  <2>1. HandlerWalks(W, tag)
    BY DEF Shape
  <2>2. FreeingNode => tag2[node[h].node] = tag[node[h].node]
    BY <1>2, <1>3, <1>7, <2>1 DEF HandlerWalks
  <2>3. pc'[h] = pc[h]
    BY <1>1, <1>4 DEF TypeOK
  <2> QED BY <1>1, <1>4, <1>13, <2>1, <2>2, <2>3 DEF HandlerWalks, Points
<1>18. Requests(R, W)'
  <2>1. Accepted \subseteq Accepted'
    BY <1>1, <1>4, AcceptedStays DEF TypeOK
  <2>2. \A m \in Range(R) \cup Range(W) : content'[m] = content[m]
    BY <1>1, <1>4, <1>7 DEF Range, TypeOK
  <2> QED BY <1>1, <1>4, <2>1, <2>2 DEF Shape, Requests
<1>19. TagsAreYoung(tag2)'
  <2>1. Taken' = Taken \cup {<<p, sent[p]>>}
    BY <1>9
  <2>2. \A m \in Node : tag[m] <= Cardinality(Taken)
    BY DEF Shape, TagsAreYoung
  <2>3. ASSUME NEW m \in Node PROVE tag2[m] <= Cardinality(Taken) + 1
    <3>1. tag[m] \in Nat /\ tag[m] <= Cardinality(Taken) /\ Cardinality(Taken) \in Nat
      BY <1>10, <2>2
    <3>2. tag2[m] = tag[m] \/ tag2[m] = tag[m] + 1
      BY <1>2
    <3> QED BY <3>1, <3>2
  <2>4. Cardinality(Taken') = Cardinality(Taken) + 1
    BY <1>10, <2>1
  <2> QED BY <2>3, <2>4 DEF TagsAreYoung
<1> QED
  <2>1. Shape(Tail(F), R, W, tag2, where2)'
    BY <1>14, <1>15, <1>16, <1>17, <1>18, <1>19 DEF Shape
  <2> QED BY <1>5, <1>12, <2>1

\* A node on no list is given another successor.
LEMMA RelinkedNode ==
  ASSUME NEW F, NEW R, NEW W, NEW tag, Stacks(F, R, W, tag), next \in [Node -> Ref],
         NEW n, n \notin Range(F), n \notin Range(R), n \notin Range(W),
         NEW head, next' = [next EXCEPT ![n] = head],
         UNCHANGED <<freeHead, reqHead, Rest>>
  PROVE  Stacks(F, R, W, tag)'
<1>1. /\ Linked(next, tag, freeHead, F) /\ Linked(next, tag, reqHead, R)
      /\ Linked(next, tag, Rest, W)
  BY DEF Stacks
<1>2. Range(F) \subseteq Node /\ Range(R) \subseteq Node /\ Range(W) \subseteq Node
  BY <1>1 DEF Linked, Range
<1>3. /\ \A m \in Range(F) : next'[m] = next[m] /\ tag[m] = tag[m]
      /\ \A m \in Range(R) : next'[m] = next[m] /\ tag[m] = tag[m]
      /\ \A m \in Range(W) : next'[m] = next[m] /\ tag[m] = tag[m]
  BY <1>2
<1>4. Linked(next', tag, freeHead, F)
  BY <1>1, <1>3, LinkedFrame
<1>5. Linked(next', tag, reqHead, R)
  BY <1>1, <1>3, LinkedFrame
<1>6. Linked(next', tag, Rest, W)
  BY <1>1, <1>3, LinkedFrame
<1> QED BY <1>4, <1>5, <1>6 DEF Stacks

\* A producer makes its node point to the head it will compare.
LEMMA LinkRequestStep ==
  ASSUME NEW p \in Producer, LinkRequest(p), TypeOK,
         NEW F \in Seq(Node), NEW R \in Seq(Node), NEW W \in Seq(Node),
         NEW tag \in [Node -> Nat], NEW where \in [Node -> Place],
         Shape(F, R, W, tag, where)
  PROVE  TypeOK' /\ Shape(F, R, W, tag, where)'
<1> USE ThreadAssumption DEF Thread, h
<1>1. PICK n \in Node : n = node[p].node
  BY DEF LinkRequest, Shape, Producers
<1>2. /\ pc[p] = "link" /\ pc' = [pc EXCEPT ![p] = "push"]
      /\ old' = [old EXCEPT ![p] = reqHead] /\ next' = [next EXCEPT ![n] = reqHead]
      /\ UNCHANGED <<freeHead, reqHead, content, nxt, node, temp, sent, ran>>
  BY <1>1 DEF LinkRequest, LinkTo, Goto
<1>3. where[n] = p
  BY <1>1, <1>2 DEF Shape, Places
<1>4. n \notin Range(F) /\ n \notin Range(R) /\ n \notin Range(W)
  BY <1>3 DEF Shape, Places
<1>5. TypeOK'
  BY <1>2 DEF TypeOK
<1>6. UNCHANGED <<Rest, FreeingNode>>
  BY <1>2 DEF Rest, FreeingNode, TypeOK
<1>7. Stacks(F, R, W, tag)'
  <2>1. Stacks(F, R, W, tag) /\ next \in [Node -> Ref]
    BY DEF Shape, TypeOK
  <2> QED BY <1>2, <1>4, <1>6, <2>1, RelinkedNode
<1>8. \A q \in Producer : pc[q] \in {"link", "push"} <=> pc'[q] \in {"link", "push"}
  BY <1>2 DEF TypeOK
<1>9. Places(F, R, W, where)'
  BY <1>2, <1>6, <1>8 DEF Shape, Places
<1>10. Producers(tag, where)'
  <2>1. ASSUME NEW q \in Producer, pc[q] \in {"next", "take"},
               old[q].tag = tag[old[q].node]
        PROVE  next'[old[q].node] = next[old[q].node] /\ old'[q] = old[q]
    BY <1>1, <1>2, <1>3, <2>1 DEF Shape, Producers, TypeOK
  <2>2. ASSUME NEW q \in Producer, q # p, pc[q] = "push"
        PROVE  next'[node[q].node] = next[node[q].node] /\ old'[q] = old[q]
    <3>1. node[q].node \in Node /\ where[node[q].node] = q
      BY <2>2 DEF Shape, Producers, Places
    <3> QED BY <1>2, <1>3, <2>2, <3>1 DEF TypeOK
  <2>3. next'[node[p].node] = old'[p] /\ pc'[p] = "push"
    BY <1>1, <1>2 DEF TypeOK
  <2>4. ASSUME NEW q \in Producer, q # p PROVE pc'[q] = pc[q] /\ old'[q] = old[q]
    BY <1>2, <2>4 DEF TypeOK
  <2> QED BY <1>2, <2>1, <2>2, <2>3, <2>4 DEF Shape, Producers, Points
<1>11. HandlerWalks(W, tag)'
  <2>1. pc[h] = "free" => next'[node[h].node] = next[node[h].node] /\ old'[h] = old[h]
    <3> SUFFICES ASSUME pc[h] = "free"
                 PROVE  next'[node[h].node] = next[node[h].node] /\ old'[h] = old[h]
      OBVIOUS
    <3>1. node[h].node \in Node /\ where[node[h].node] = h
      BY DEF Shape, HandlerWalks, Places, FreeingNode
    <3> QED BY <1>2, <1>3, <3>1 DEF TypeOK
  <2>2. pc'[h] = pc[h]
    BY <1>2 DEF TypeOK
  <2> QED BY <1>2, <1>6, <2>1, <2>2 DEF Shape, HandlerWalks, Points
<1>12. Requests(R, W)'
  <2>1. Accepted \subseteq Accepted'
    BY <1>2, AcceptedStays DEF TypeOK
  <2> QED BY <1>2, <2>1 DEF Shape, Requests
<1>13. TagsAreYoung(tag)'
  BY <1>2, TakenStays DEF TypeOK, Shape
<1> QED BY <1>5, <1>7, <1>9, <1>10, <1>11, <1>12, <1>13 DEF Shape

\* A node that is pushed on the request stack changes hands, and its request is
\* accepted.
LEMMA PushRequestStep ==
  ASSUME NEW p \in Producer, PushRequest(p), reqHead = old[p], TypeOK,
         NEW F \in Seq(Node), NEW R \in Seq(Node), NEW W \in Seq(Node),
         NEW tag \in [Node -> Nat], NEW where \in [Node -> Place],
         Shape(F, R, W, tag, where)
  PROVE  /\ TypeOK' /\ node[p].node \in Node /\ content[node[p].node] = <<p, sent[p]>>
         /\ \E P \in Seq(Node) :
              /\ P = <<node[p].node>> \o R
              /\ \E where2 \in [Node -> Place] : Shape(F, P, W, tag, where2)'
<1> USE ThreadAssumption DEF Thread, h
<1>1. PICK n \in Node : n = node[p].node
  BY DEF PushRequest, Shape, Producers
<1>2. /\ pc[p] = "push" /\ pc' = [pc EXCEPT ![p] = "idle"] /\ reqHead' = node[p]
      /\ UNCHANGED <<freeHead, next, content, old, nxt, node, temp, sent, ran>>
  BY DEF PushRequest, Goto
<1>3. PICK where2 \in [Node -> Place] :
        where2[n] = "requests" /\ \A m \in Node : m # n => where2[m] = where[m]
  <2>1. [where EXCEPT ![n] = "requests"] \in [Node -> Place]
    BY DEF Place
  <2> QED BY <2>1
<1>4. where[n] = p
  BY <1>1, <1>2 DEF Shape, Places
<1>5. n \notin Range(F) /\ n \notin Range(R) /\ n \notin Range(W)
  BY <1>4 DEF Shape, Places
<1>6. /\ node[p].tag = tag[n] /\ content[n] = <<p, sent[p]>> /\ next[n] = reqHead
      /\ sent[p] \in 1 .. MaxPush
  <2>1. /\ Points(tag, node[p], n) /\ content[n] = <<p, sent[p]>> /\ next[n] = reqHead
        /\ sent[p] \in 1 .. MaxPush
    BY <1>1, <1>2 DEF PushRequest, Shape, Producers
  <2> QED BY <2>1, CapacityAssumption DEF Points, Invalid, Node
<1>7. PICK P : P = <<n>> \o R
  OBVIOUS
<1>8. P \in Seq(Node) /\ Linked(next, tag, node[p], P)
      /\ \A m : m \in Range(P) <=> m = n \/ m \in Range(R)
  <2>1. Linked(next, tag, next[node[p].node], R) /\ node[p].node \in Node
        /\ node[p].node \notin Range(R) /\ node[p].tag = tag[node[p].node]
        /\ P = <<node[p].node>> \o R
    BY <1>1, <1>5, <1>6, <1>7 DEF Shape, Stacks
  <2>2. P \in Seq(Node) /\ Linked(next, tag, node[p], P)
    BY <2>1, LinkedPush
  <2>3. \A m : m \in Range(P) <=> m = node[p].node \/ m \in Range(R)
    BY <2>1, LinkedPush
  <2> QED BY <1>1, <2>2, <2>3
<1>9. TypeOK'
  BY <1>2 DEF TypeOK
<1>10. UNCHANGED <<Rest, FreeingNode>>
  BY <1>2 DEF Rest, FreeingNode, TypeOK
<1>11. Stacks(F, P, W, tag)'
  BY <1>2, <1>8, <1>10 DEF Shape, Stacks
<1>12. pc'[p] = "idle" /\ \A t \in Thread : t # p => pc'[t] = pc[t]
  BY <1>2 DEF TypeOK
<1>13. Places(F, P, W, where2)'
  <2> SUFFICES ASSUME NEW m \in Node
               PROVE  /\ where2[m] = "free" <=> m \in Range(F)
                      /\ where2[m] = "requests" <=> m \in Range(P)
                      /\ where2[m] = h <=> m \in Range(W) \/ (FreeingNode /\ node[h].node = m)
                      /\ \A q \in Producer :
                           where2[m] = q <=> pc'[q] \in {"link", "push"} /\ node[q].node = m
    BY <1>2, <1>10 DEF Places
  <2>1. /\ where[m] = "free" <=> m \in Range(F)
        /\ where[m] = "requests" <=> m \in Range(R)
        /\ where[m] = h <=> m \in Range(W) \/ (FreeingNode /\ node[h].node = m)
        /\ \A q \in Producer :
             where[m] = q <=> pc[q] \in {"link", "push"} /\ node[q].node = m
    BY DEF Shape, Places
  <2>2. CASE m = n
    BY <1>3, <1>4, <1>5, <1>8, <1>12, <2>1, <2>2
  <2>3. CASE m # n
    BY <1>1, <1>2, <1>3, <1>8, <1>12, <2>1, <2>3
  <2> QED BY <2>2, <2>3
<1>14. Producers(tag, where2)'
  <2>1. \A m \in Node : where[m] = "free" => where2[m] = "free"
    BY <1>3, <1>4
  <2>2. Producers(tag, where)
    BY DEF Shape
  <2>3. pc'[p] = "idle" /\ \A q \in Producer : q # p => pc'[q] = pc[q]
    BY <1>12
  <2>4. UNCHANGED <<next, content, old, nxt, node, sent>>
    BY <1>2
  <2> QED BY <2>1, <2>2, <2>3, <2>4 DEF Producers
<1>15. HandlerWalks(W, tag)'
  BY <1>2, <1>10, <1>12 DEF Shape, HandlerWalks, Points
<1>16. Requests(P, W)'
  <2>1. Accepted \subseteq Accepted'
    BY <1>2, AcceptedStays DEF TypeOK
  <2>2. <<p, sent[p]>> \in Accepted'
    BY <1>2, <1>6, <1>12 DEF Accepted, Request
  <2> QED BY <1>2, <1>6, <1>8, <2>1, <2>2 DEF Shape, Requests
<1>17. TagsAreYoung(tag)'
  BY <1>2, TakenStays DEF TypeOK, Shape
<1> QED
  <2>1. Shape(F, P, W, tag, where2)'
    BY <1>11, <1>13, <1>14, <1>15, <1>16, <1>17 DEF Shape
  <2> QED BY <1>1, <1>6, <1>7, <1>8, <1>9, <2>1

----------------------------------------------------------------------------
(* The steps of the handler. *)

\* A step of the handler that writes its own program counter and the head it
\* will compare.
LEMMA HandlerQuietStep ==
  ASSUME TypeOK,
         NEW l \in {"idle", "take", "walk", "link", "free", "run"}, NEW ref \in Ref,
         pc' = [pc EXCEPT ![h] = l], old' = [old EXCEPT ![h] = ref],
         UNCHANGED <<freeHead, reqHead, next, content, nxt, node, temp, sent, ran>>,
         NEW F \in Seq(Node), NEW R \in Seq(Node), NEW W \in Seq(Node),
         NEW tag \in [Node -> Nat], NEW where \in [Node -> Place],
         Shape(F, R, W, tag, where), UNCHANGED <<Rest, FreeingNode>>,
         HandlerWalks(W, tag)'
  PROVE  TypeOK' /\ Shape(F, R, W, tag, where)'
<1> USE ThreadAssumption DEF Thread, h
<1>1. TypeOK'
  BY DEF TypeOK
<1>2. \A p \in Producer : pc'[p] = pc[p] /\ old'[p] = old[p]
  BY DEF TypeOK
<1>3. Accepted \subseteq Accepted'
  BY <1>2, AcceptedStays DEF TypeOK
<1>4. TagsAreYoung(tag)'
  BY <1>2, TakenStays DEF TypeOK, Shape
<1>5. Producers(tag, where)'
  <2>1. Producers(tag, where)
    BY DEF Shape
  <2> QED BY <1>2, <2>1 DEF Producers, Points
<1> QED BY <1>1, <1>2, <1>3, <1>4, <1>5, QuietStep

\* A step of the handler leaves alone what a producer holds and what it may
\* successfully exchange.
LEMMA ProducersStay ==
  ASSUME NEW tag, NEW where, NEW where2, Producers(tag, where), UNCHANGED sent,
         \A p \in Producer : /\ pc'[p] = pc[p] /\ old'[p] = old[p] /\ nxt'[p] = nxt[p]
                              /\ node'[p] = node[p],
         \A m \in Node : where[m] = "free" => where2[m] = "free" /\ next'[m] = next[m],
         \A p \in Producer : pc[p] \in {"link", "push"} =>
           /\ content'[node[p].node] = content[node[p].node]
           /\ next'[node[p].node] = next[node[p].node]
  PROVE  Producers(tag, where2)'
<1>1. ASSUME NEW p \in Producer
      PROVE  /\ pc'[p] \in {"idle", "pop", "next", "take", "link", "push"}
             /\ pc'[p] # "idle" => sent'[p] \in 1 .. MaxPush
             /\ pc'[p] \in {"next", "take"} =>
                  /\ old'[p].node \in Node /\ old'[p].tag <= tag[old'[p].node]
                  /\ old'[p].tag = tag[old'[p].node] =>
                       /\ where2[old'[p].node] = "free"
                       /\ pc'[p] = "take" => nxt'[p] = next'[old'[p].node]
             /\ pc'[p] \in {"link", "push"} =>
                  /\ Points(tag, node'[p], node'[p].node) /\ node'[p].node \in Node
                  /\ content'[node'[p].node] = <<p, sent'[p]>>
             /\ pc'[p] = "push" => next'[node'[p].node] = old'[p]
  <2>1. pc'[p] = pc[p] /\ old'[p] = old[p] /\ nxt'[p] = nxt[p] /\ node'[p] = node[p] /\ sent' = sent
    OBVIOUS
  <2> QED BY <2>1 DEF Producers
<1> QED BY <1>1 DEF Producers, Points

\* The handler loads the head of the request stack.
LEMMA LoadRequestsStep ==
  ASSUME LoadRequests, TypeOK,
         NEW F \in Seq(Node), NEW R \in Seq(Node), NEW W \in Seq(Node),
         NEW tag \in [Node -> Nat], NEW where \in [Node -> Place],
         Shape(F, R, W, tag, where)
  PROVE  TypeOK' /\ Shape(F, R, W, tag, where)'
<1> USE DEF Thread, h
<1>1. /\ pc' = [pc EXCEPT ![h] = "take"] /\ old' = [old EXCEPT ![h] = reqHead]
      /\ reqHead \in Ref /\ pc[h] = "idle" /\ pc'[h] = "take"
      /\ UNCHANGED <<freeHead, reqHead, next, content, nxt, node, temp, sent, ran>>
  BY DEF LoadRequests, Goto, TypeOK
<1>2. UNCHANGED <<Rest, FreeingNode>>
  BY <1>1 DEF Rest, FreeingNode
<1>3. HandlerWalks(W, tag)'
  BY <1>1, <1>2 DEF Shape, HandlerWalks, FreeingNode
<1> QED BY <1>1, <1>2, <1>3, HandlerQuietStep

\* An exchange that fails sends the handler back to its load.
LEMMA HandlerExchangeFails ==
  ASSUME TypeOK,
         \/ pc[h] = "take" /\ Goto(h, "idle")
         \/ pc[h] = "free" /\ Goto(h, "link"),
         UNCHANGED <<freeHead, reqHead, next, content, old, nxt, node, temp, sent, ran>>,
         NEW F \in Seq(Node), NEW R \in Seq(Node), NEW W \in Seq(Node),
         NEW tag \in [Node -> Nat], NEW where \in [Node -> Place],
         Shape(F, R, W, tag, where)
  PROVE  TypeOK' /\ Shape(F, R, W, tag, where)'
<1> USE DEF Thread, h
<1>1. PICK l \in {"idle", "link"} :
        /\ pc' = [pc EXCEPT ![h] = l] /\ pc'[h] = l
        /\ \/ pc[h] = "take" /\ l = "idle"
           \/ pc[h] = "free" /\ l = "link"
  <2>1. CASE pc[h] = "take" /\ Goto(h, "idle")
    <3>1. pc' = [pc EXCEPT ![h] = "idle"] /\ pc'[h] = "idle"
      BY <2>1 DEF Goto, TypeOK
    <3> QED BY <2>1, <3>1
  <2>2. CASE pc[h] = "free" /\ Goto(h, "link")
    <3>1. pc' = [pc EXCEPT ![h] = "link"] /\ pc'[h] = "link"
      BY <2>2 DEF Goto, TypeOK
    <3> QED BY <2>2, <3>1
  <2> QED BY <2>1, <2>2
<1>2. old' = [old EXCEPT ![h] = old[h]] /\ old[h] \in Ref
  BY DEF TypeOK
<1>3. UNCHANGED <<Rest, FreeingNode>>
  BY <1>1 DEF Rest, FreeingNode
<1>4. HandlerWalks(W, tag)'
  BY <1>1, <1>3 DEF Shape, HandlerWalks, FreeingNode, Points
<1> QED BY <1>1, <1>2, <1>3, <1>4, HandlerQuietStep

\* There is nothing left to walk.
LEMMA NothingLeft ==
  ASSUME NEW F, NEW R, NEW W, NEW tag, NEW where, Shape(F, R, W, tag, where),
         Rest.node = Invalid
  PROVE  W = <<>>
<1>1. Linked(next, tag, Rest, W)
  BY DEF Shape, Stacks
<1> QED BY <1>1, LinkedEmpty

\* Every request of the vector has been run.
LEMMA DoneStep ==
  ASSUME Done, TypeOK,
         NEW F \in Seq(Node), NEW R \in Seq(Node), NEW W \in Seq(Node),
         NEW tag \in [Node -> Nat], NEW where \in [Node -> Place],
         Shape(F, R, W, tag, where)
  PROVE  TypeOK' /\ Shape(F, R, W, tag, where)'
<1> USE DEF Thread, h
<1>1. /\ pc' = [pc EXCEPT ![h] = "idle"] /\ old' = [old EXCEPT ![h] = old[h]]
      /\ old[h] \in Ref /\ pc[h] = "run" /\ pc'[h] = "idle" /\ temp = <<>>
      /\ UNCHANGED <<freeHead, reqHead, next, content, nxt, node, temp, sent, ran>>
  BY DEF Done, Goto, TypeOK
<1>2. UNCHANGED <<Rest, FreeingNode>>
  BY <1>1 DEF Rest, FreeingNode
<1>3. HandlerWalks(W, tag)'
  BY <1>1, <1>2 DEF Shape, HandlerWalks, FreeingNode
<1> QED BY <1>1, <1>2, <1>3, HandlerQuietStep

\* At the end of the walk every node is on a stack or in the hands of a producer.
LEMMA EndOfWalkStep ==
  ASSUME EndOfWalk, TypeOK,
         NEW F \in Seq(Node), NEW R \in Seq(Node), NEW W \in Seq(Node),
         NEW tag \in [Node -> Nat], NEW where \in [Node -> Place],
         Shape(F, R, W, tag, where)
  PROVE  TypeOK' /\ Shape(F, R, W, tag, where)'
<1> USE ThreadAssumption DEF Thread, h
<1>1. /\ pc' = [pc EXCEPT ![h] = "run"] /\ pc[h] = "walk" /\ pc'[h] = "run"
      /\ node[h].node = Invalid
      /\ UNCHANGED <<freeHead, reqHead, next, content, old, nxt, node, temp, sent, ran>>
  BY DEF EndOfWalk, Goto, TypeOK
<1>2. Rest = node[h] /\ Rest' = Nothing /\ ~FreeingNode /\ ~FreeingNode'
  BY <1>1 DEF Rest, FreeingNode, Nothing
<1>3. W = <<>>
  BY <1>1, <1>2, NothingLeft
<1>4. \A p \in Producer : pc'[p] = pc[p]
  BY <1>1 DEF TypeOK
<1>5. TypeOK'
  BY <1>1 DEF TypeOK
<1>6. Stacks(F, R, W, tag)'
  <2>1. Linked(next, tag, Nothing, <<>>)
    BY EmptyLinked DEF Nothing
  <2> QED BY <1>1, <1>2, <1>3, <2>1 DEF Shape, Stacks
<1>7. Places(F, R, W, where)'
  BY <1>1, <1>2, <1>4 DEF Shape, Places
<1>8. Producers(tag, where)'
  BY <1>1, <1>4, ProducersStay DEF Shape
<1>9. HandlerWalks(W, tag)'
  BY <1>1, <1>2 DEF Shape, HandlerWalks
<1>10. Requests(R, W)'
  <2>1. Accepted \subseteq Accepted'
    BY <1>1, <1>4, AcceptedStays
  <2> QED BY <1>1, <2>1 DEF Shape, Requests
<1>11. TagsAreYoung(tag)'
  BY <1>1, <1>4, TakenStays DEF Shape
<1> QED BY <1>5, <1>6, <1>7, <1>8, <1>9, <1>10, <1>11 DEF Shape

\* The request stack becomes what there is to walk.
LEMMA TakeRequestsStep ==
  ASSUME TakeRequests, reqHead = old[h], TypeOK,
         NEW F \in Seq(Node), NEW R \in Seq(Node), NEW W \in Seq(Node),
         NEW tag \in [Node -> Nat], NEW where \in [Node -> Place],
         Shape(F, R, W, tag, where)
  PROVE  /\ TypeOK' /\ W = <<>>
         /\ \E where2 \in [Node -> Place] : Shape(F, <<>>, R, tag, where2)'
<1> USE ThreadAssumption DEF Thread, h
<1>1. /\ pc[h] = "take" /\ pc' = [pc EXCEPT ![h] = "walk"] /\ pc'[h] = "walk"
      /\ reqHead' = [old[h] EXCEPT !.node = Invalid]
      /\ node' = [node EXCEPT ![h] = reqHead] /\ node'[h] = reqHead
      /\ UNCHANGED <<freeHead, next, content, old, nxt, temp, sent, ran>>
  BY DEF TakeRequests, Goto, TypeOK
<1>2. Rest = Nothing /\ Rest' = reqHead /\ ~FreeingNode /\ ~FreeingNode'
  BY <1>1 DEF Rest, FreeingNode
<1>3. W = <<>>
  BY <1>2, NothingLeft DEF Nothing
<1>4. PICK where2 \in [Node -> Place] :
        \A m \in Node : where2[m] = IF where[m] = "requests" THEN h ELSE where[m]
  <2>1. [m \in Node |-> IF where[m] = "requests" THEN h ELSE where[m]] \in [Node -> Place]
    BY DEF Place
  <2> QED BY <2>1
<1>5. \A p \in Producer : pc'[p] = pc[p] /\ node'[p] = node[p]
  BY <1>1 DEF TypeOK
<1>6. reqHead' \in Ref /\ reqHead'.node = Invalid
  <2>1. old[h] \in Ref
    BY DEF TypeOK
  <2> QED BY <1>1, <2>1 DEF Ref
<1>7. TypeOK'
  BY <1>1, <1>6 DEF TypeOK
<1>8. Stacks(F, <<>>, R, tag)'
  <2>1. Linked(next, tag, reqHead', <<>>)
    BY <1>6, EmptyLinked
  <2> QED BY <1>1, <1>2, <2>1 DEF Shape, Stacks
<1>9. Places(F, <<>>, R, where2)'
  <2> SUFFICES ASSUME NEW m \in Node
               PROVE  /\ where2[m] = "free" <=> m \in Range(F)
                      /\ where2[m] = "requests" <=> m \in Range(<<>>)
                      /\ where2[m] = h <=> m \in Range(R)
                      /\ \A q \in Producer :
                           where2[m] = q <=> pc'[q] \in {"link", "push"} /\ node'[q].node = m
    BY <1>2 DEF Places
  <2>1. /\ where[m] = "free" <=> m \in Range(F)
        /\ where[m] = "requests" <=> m \in Range(R)
        /\ where[m] = h <=> m \in Range(W)
        /\ \A q \in Producer :
             where[m] = q <=> pc[q] \in {"link", "push"} /\ node[q].node = m
    BY <1>2 DEF Shape, Places
  <2>2. m \notin Range(<<>>)
    BY DEF Range
  <2>3. where[m] # h
    BY <1>3, <2>1, <2>2
  <2>4. CASE where[m] = "requests"
    BY <1>4, <1>5, <2>1, <2>2, <2>4
  <2>5. CASE where[m] # "requests"
    BY <1>4, <1>5, <2>1, <2>2, <2>3, <2>5
  <2> QED BY <2>4, <2>5
<1>10. Producers(tag, where2)'
  <2>1. Producers(tag, where)
    BY DEF Shape
  <2>2. \A m \in Node : where[m] = "free" => where2[m] = "free"
    BY <1>4
  <2> QED BY <1>1, <1>5, <2>1, <2>2, ProducersStay
<1>11. HandlerWalks(R, tag)'
  BY <1>1, <1>2 DEF HandlerWalks
<1>12. Requests(<<>>, R)'
  <2>1. Accepted \subseteq Accepted'
    BY <1>1, <1>5, AcceptedStays
  <2>2. Range(<<>>) = {}
    BY DEF Range
  <2> QED BY <1>1, <2>1, <2>2 DEF Shape, Requests
<1>13. TagsAreYoung(tag)'
  BY <1>1, <1>5, TakenStays DEF Shape
<1> QED
  <2>1. Shape(F, <<>>, R, tag, where2)'
    BY <1>8, <1>9, <1>10, <1>11, <1>12, <1>13 DEF Shape
  <2> QED BY <1>3, <1>7, <2>1

\* The handler moves the request out of the first node it has to walk; from now
\* on it reaches the rest of the list from what it has read of that node.
LEMMA TakeNodeStep ==
  ASSUME TakeNode, TypeOK,
         NEW F \in Seq(Node), NEW R \in Seq(Node), NEW W \in Seq(Node),
         NEW tag \in [Node -> Nat], NEW where \in [Node -> Place],
         Shape(F, R, W, tag, where)
  PROVE  /\ TypeOK' /\ Tail(W) \in Seq(Node) /\ node[h].node \in Node
         /\ W = <<node[h].node>> \o Tail(W) /\ node[h].node \notin Range(Tail(W))
         /\ node[h].node \notin Range(R)
         /\ Shape(F, R, Tail(W), tag, where)'
<1> USE ThreadAssumption DEF Thread, h
<1>1. /\ pc[h] = "walk" /\ pc' = [pc EXCEPT ![h] = "link"] /\ pc'[h] = "link"
      /\ node[h].node # Invalid
      /\ nxt' = [nxt EXCEPT ![h] = next[node[h].node]] /\ nxt'[h] = next[node[h].node]
      /\ temp' = Append(temp, content[node[h].node])
      /\ content' = [content EXCEPT ![node[h].node] = Empty]
      /\ UNCHANGED <<freeHead, reqHead, next, old, node, sent, ran>>
  BY DEF TakeNode, Goto, TypeOK
<1>2. Rest = node[h] /\ Rest' = next[node[h].node] /\ ~FreeingNode /\ FreeingNode'
  BY <1>1 DEF Rest, FreeingNode
<1>3. Linked(next, tag, node[h], W)
  BY <1>2 DEF Shape, Stacks
<1>4. PICK n \in Node : n = node[h].node /\ n # Invalid /\ node[h].tag = tag[n]
  BY <1>1, <1>3, LinkedHead
<1>5. PICK T \in Seq(Node) : T = Tail(W) /\ Linked(next, tag, next[n], T)
  BY <1>3, <1>4, LinkedRest
<1>6. /\ W = <<n>> \o T /\ n \notin Range(T)
      /\ \A m : m \in Range(W) <=> m = n \/ m \in Range(T)
  <2>1. \A m : m \in Range(W) <=> m = n \/ m \in Range(T)
    BY <1>3, <1>4, <1>5, LinkedRange
  <2>2. n \notin Range(T)
    BY <1>3, <1>4, <1>5, LinkedRange
  <2>3. W = <<n>> \o T
    BY <1>3, <1>4, <1>5, LinkedRange
  <2> QED BY <2>1, <2>2, <2>3
<1>7. where[n] = h /\ n \notin Range(R)
  BY <1>6 DEF Shape, Places
<1>8. content[n] \in Accepted /\ content[n] \in Request
  BY <1>6 DEF Shape, Requests, Accepted
<1>9. \A p \in Producer : pc'[p] = pc[p] /\ nxt'[p] = nxt[p]
  BY <1>1 DEF TypeOK
<1>10. temp \in Seq(Request) /\ temp' = Append(temp, content[n]) /\ temp' \in Seq(Request)
  BY <1>1, <1>4, <1>8 DEF TypeOK
<1>11. TypeOK'
  BY <1>1, <1>4, <1>10 DEF TypeOK
<1>12. Stacks(F, R, T, tag)'
  BY <1>1, <1>2, <1>4, <1>5 DEF Shape, Stacks
<1>13. Places(F, R, T, where)'
  <2> SUFFICES ASSUME NEW m \in Node
               PROVE  /\ where[m] = "free" <=> m \in Range(F)
                      /\ where[m] = "requests" <=> m \in Range(R)
                      /\ where[m] = h <=> m \in Range(T) \/ n = m
                      /\ \A q \in Producer :
                           where[m] = q <=> pc[q] \in {"link", "push"} /\ node[q].node = m
    BY <1>1, <1>2, <1>4, <1>9 DEF Places
  <2> QED BY <1>2, <1>6 DEF Shape, Places
<1>14. Producers(tag, where)'
  <2>1. Producers(tag, where) /\ Places(F, R, W, where)
    BY DEF Shape
  <2>2. ASSUME NEW p \in Producer, pc[p] \in {"link", "push"}
        PROVE  content'[node[p].node] = content[node[p].node]
    <3>1. node[p].node \in Node /\ where[node[p].node] = p
      BY <2>1, <2>2 DEF Producers, Places
    <3> QED BY <1>1, <1>4, <1>7, <3>1 DEF TypeOK
  <2>3. \A p \in Producer : node'[p] = node[p] /\ old'[p] = old[p]
    BY <1>1
  <2> QED BY <1>1, <1>9, <2>1, <2>2, <2>3, ProducersStay
<1>15. HandlerWalks(T, tag)'
  BY <1>1, <1>2, <1>4, <1>6 DEF HandlerWalks, Points
<1>16. Requests(R, T)'
  <2>1. Accepted \subseteq Accepted'
    BY <1>1, <1>9, AcceptedStays
  <2>2. Range(temp') \subseteq Range(temp) \cup {content[n]}
    BY <1>8, <1>10 DEF Range
  <2>3. Range(R) \subseteq Node /\ Range(T) \subseteq Node
    BY DEF Range
  <2>4. \A m \in Range(R) \cup Range(T) : content'[m] = content[m] /\ m \in Range(R) \cup Range(W)
    BY <1>1, <1>4, <1>6, <1>7, <2>3 DEF TypeOK
  <2> QED BY <1>1, <1>8, <2>1, <2>2, <2>4 DEF Shape, Requests
<1>17. TagsAreYoung(tag)'
  BY <1>1, <1>9, TakenStays DEF Shape
<1> QED
  <2>1. Shape(F, R, T, tag, where)'
    BY <1>12, <1>13, <1>14, <1>15, <1>16, <1>17 DEF Shape
  <2> QED BY <1>4, <1>5, <1>6, <1>7, <1>11, <2>1

\* The handler makes its node point to the top of the free stack.
LEMMA LinkFreeStep ==
  ASSUME LinkFree, TypeOK,
         NEW F \in Seq(Node), NEW R \in Seq(Node), NEW W \in Seq(Node),
         NEW tag \in [Node -> Nat], NEW where \in [Node -> Place],
         Shape(F, R, W, tag, where)
  PROVE  TypeOK' /\ Shape(F, R, W, tag, where)'
<1> USE ThreadAssumption DEF Thread, h
<1>1. PICK n \in Node : n = node[h].node
  BY DEF LinkFree, Shape, HandlerWalks, FreeingNode
<1>2. /\ pc[h] = "link" /\ pc' = [pc EXCEPT ![h] = "free"] /\ pc'[h] = "free"
      /\ old' = [old EXCEPT ![h] = freeHead] /\ old'[h] = freeHead
      /\ next' = [next EXCEPT ![n] = freeHead] /\ next'[n] = freeHead
      /\ UNCHANGED <<freeHead, reqHead, content, nxt, node, temp, sent, ran>>
  BY <1>1 DEF LinkFree, LinkTo, Goto, TypeOK
<1>3. FreeingNode /\ FreeingNode' /\ Rest' = Rest
  BY <1>2 DEF FreeingNode, Rest
<1>4. where[n] = h
  BY <1>1, <1>3 DEF Shape, Places
<1>5. n \notin Range(F) /\ n \notin Range(R) /\ n \notin Range(W)
  <2>1. n \notin Range(F) /\ n \notin Range(R)
    BY <1>4 DEF Shape, Places
  <2> QED BY <1>1, <1>3, <2>1 DEF Shape, HandlerWalks
<1>6. \A p \in Producer : pc'[p] = pc[p] /\ old'[p] = old[p]
  BY <1>2 DEF TypeOK
<1>7. TypeOK'
  BY <1>2 DEF TypeOK
<1>8. Stacks(F, R, W, tag)'
  <2>1. Stacks(F, R, W, tag) /\ next \in [Node -> Ref]
    BY DEF Shape, TypeOK
  <2> QED BY <1>2, <1>3, <1>5, <2>1, RelinkedNode
<1>9. Places(F, R, W, where)'
  BY <1>2, <1>3, <1>6 DEF Shape, Places
<1>10. Producers(tag, where)'
  <2>1. Producers(tag, where) /\ Places(F, R, W, where)
    BY DEF Shape
  <2>2. \A m \in Node : m # n => next'[m] = next[m]
    BY <1>2 DEF TypeOK
  <2>3. ASSUME NEW p \in Producer, pc[p] \in {"link", "push"}
        PROVE  node[p].node \in Node /\ node[p].node # n
    BY <1>4, <2>1, <2>3 DEF Producers, Places
  <2>4. \A p \in Producer : pc[p] \in {"link", "push"} =>
          /\ content'[node[p].node] = content[node[p].node]
          /\ next'[node[p].node] = next[node[p].node]
    BY <1>2, <2>2, <2>3
  <2>5. \A m \in Node : where[m] = "free" => next'[m] = next[m]
    BY <1>4, <2>2
  <2> QED BY <1>2, <1>6, <2>1, <2>4, <2>5, ProducersStay
<1>11. HandlerWalks(W, tag)'
  BY <1>1, <1>2, <1>3 DEF Shape, HandlerWalks, Points
<1>12. Requests(R, W)'
  <2>1. Accepted \subseteq Accepted'
    BY <1>2, <1>6, AcceptedStays
  <2> QED BY <1>2, <2>1 DEF Shape, Requests
<1>13. TagsAreYoung(tag)'
  BY <1>2, <1>6, TakenStays DEF Shape
<1> QED BY <1>7, <1>8, <1>9, <1>10, <1>11, <1>12, <1>13 DEF Shape

\* A node that is freed keeps the tag it got when it was popped: whoever saw it
\* on the free stack before that saw a smaller tag.
LEMMA FreeNodeStep ==
  ASSUME FreeNode, freeHead = old[h], TypeOK,
         NEW F \in Seq(Node), NEW R \in Seq(Node), NEW W \in Seq(Node),
         NEW tag \in [Node -> Nat], NEW where \in [Node -> Place],
         Shape(F, R, W, tag, where)
  PROVE  /\ TypeOK'
         /\ \E P \in Seq(Node), where2 \in [Node -> Place] : Shape(P, R, W, tag, where2)'
<1> USE ThreadAssumption DEF Thread, h
<1>1. PICK n \in Node : n = node[h].node
  BY DEF FreeNode, Shape, HandlerWalks, FreeingNode
<1>2. /\ pc[h] = "free" /\ pc' = [pc EXCEPT ![h] = "walk"] /\ pc'[h] = "walk"
      /\ freeHead' = node[h]
      /\ node' = [node EXCEPT ![h] = nxt[h]] /\ node'[h] = nxt[h]
      /\ UNCHANGED <<reqHead, next, content, old, nxt, temp, sent, ran>>
  BY DEF FreeNode, Goto, TypeOK
<1>3. PICK where2 \in [Node -> Place] :
        where2[n] = "free" /\ \A m \in Node : m # n => where2[m] = where[m]
  <2>1. [where EXCEPT ![n] = "free"] \in [Node -> Place]
    BY DEF Place
  <2> QED BY <2>1
<1>4. FreeingNode /\ ~FreeingNode' /\ Rest' = Rest
  BY <1>2 DEF FreeingNode, Rest
<1>5. where[n] = h
  BY <1>1, <1>4 DEF Shape, Places
<1>6. n \notin Range(F) /\ n \notin Range(R) /\ n \notin Range(W)
  <2>1. n \notin Range(F) /\ n \notin Range(R)
    BY <1>5 DEF Shape, Places
  <2> QED BY <1>1, <1>4, <2>1 DEF Shape, HandlerWalks
<1>7. node[h].tag = tag[n] /\ next[n] = freeHead
  <2>1. Points(tag, node[h], n) /\ next[n] = freeHead
    BY <1>1, <1>2, <1>4 DEF FreeNode, Shape, HandlerWalks
  <2> QED BY <2>1, CapacityAssumption DEF Points, Invalid, Node
<1>8. PICK P : P = <<n>> \o F
  OBVIOUS
<1>9. P \in Seq(Node) /\ Linked(next, tag, node[h], P)
      /\ \A m : m \in Range(P) <=> m = n \/ m \in Range(F)
  <2>1. Linked(next, tag, next[node[h].node], F) /\ node[h].node \in Node
        /\ node[h].node \notin Range(F) /\ node[h].tag = tag[node[h].node]
        /\ P = <<node[h].node>> \o F
    BY <1>1, <1>6, <1>7, <1>8 DEF Shape, Stacks
  <2>2. P \in Seq(Node) /\ Linked(next, tag, node[h], P)
    BY <2>1, LinkedPush
  <2>3. \A m : m \in Range(P) <=> m = node[h].node \/ m \in Range(F)
    BY <2>1, LinkedPush
  <2> QED BY <1>1, <2>2, <2>3
<1>10. \A p \in Producer : pc'[p] = pc[p] /\ node'[p] = node[p]
  BY <1>2 DEF TypeOK
<1>11. TypeOK'
  BY <1>2 DEF TypeOK
<1>12. Stacks(P, R, W, tag)'
  BY <1>2, <1>4, <1>9 DEF Shape, Stacks
<1>13. Places(P, R, W, where2)'
  <2> SUFFICES ASSUME NEW m \in Node
               PROVE  /\ where2[m] = "free" <=> m \in Range(P)
                      /\ where2[m] = "requests" <=> m \in Range(R)
                      /\ where2[m] = h <=> m \in Range(W)
                      /\ \A q \in Producer :
                           where2[m] = q <=> pc'[q] \in {"link", "push"} /\ node'[q].node = m
    BY <1>4 DEF Places
  <2>1. /\ where[m] = "free" <=> m \in Range(F)
        /\ where[m] = "requests" <=> m \in Range(R)
        /\ where[m] = h <=> m \in Range(W) \/ n = m
        /\ \A q \in Producer :
             where[m] = q <=> pc[q] \in {"link", "push"} /\ node[q].node = m
    BY <1>1, <1>4 DEF Shape, Places
  <2>2. CASE m = n
    BY <1>3, <1>5, <1>6, <1>9, <1>10, <2>1, <2>2
  <2>3. CASE m # n
    BY <1>3, <1>9, <1>10, <2>1, <2>3
  <2> QED BY <2>2, <2>3
<1>14. Producers(tag, where2)'
  <2>1. \A m \in Node : where[m] = "free" => where2[m] = "free"
    BY <1>3
  <2> QED BY <1>2, <1>10, <2>1, ProducersStay DEF Shape
<1>15. HandlerWalks(W, tag)'
  BY <1>2, <1>4 DEF HandlerWalks
<1>16. Requests(R, W)'
  <2>1. Accepted \subseteq Accepted'
    BY <1>2, <1>10, AcceptedStays
  <2> QED BY <1>2, <2>1 DEF Shape, Requests
<1>17. TagsAreYoung(tag)'
  BY <1>2, <1>10, TakenStays DEF Shape
<1> QED
  <2>1. Shape(P, R, W, tag, where2)'
    BY <1>12, <1>13, <1>14, <1>15, <1>16, <1>17 DEF Shape
  <2> QED BY <1>9, <1>11, <2>1

\* The vector without its last request.
LEMMA RunOrderTakesLast ==
  ASSUME NEW S, NEW s \in Seq(S), s # <<>>
  PROVE  /\ Len(s) \in Nat /\ Len(s) >= 1 /\ Head(RunOrder(s)) = s[Len(s)]
         /\ RunOrder(Tail(RunOrder(s))) = [i \in 1 .. Len(s) - 1 |-> s[i]]
         /\ RunOrder(Tail(RunOrder(s))) \in Seq(S)
<1>1. Len(s) \in Nat /\ Len(s) >= 1
  OBVIOUS
<1>2. PICK r \in Seq(S) : r = RunOrder(s)
  <2>1. \A i \in 1 .. Len(s) : (Len(s) - i) + 1 \in 1 .. Len(s)
    BY <1>1
  <2>2. \A i \in 1 .. Len(s) : s[(Len(s) - i) + 1] \in S
    BY <2>1
  <2>3. [i \in 1 .. Len(s) |-> s[(Len(s) - i) + 1]] \in Seq(S)
    BY <1>1, <2>2
  <2> QED BY <2>3 DEF RunOrder, Reverse
<1>3. Len(r) = Len(s) /\ r # <<>> /\ \A i \in 1 .. Len(s) : r[i] = s[Len(s) - i + 1]
  BY <1>1, <1>2 DEF RunOrder, Reverse
<1>4. Head(r) = s[Len(s)]
  BY <1>1, <1>3
<1>5. PICK t \in Seq(S) : t = Tail(r)
  BY <1>3, HeadTailProperties
<1>6. /\ Len(t) = Len(s) - 1
      /\ \A i \in 1 .. Len(s) - 1 : t[i] = s[Len(s) - i]
  <2>1. Len(t) = Len(s) - 1 /\ \A i \in 1 .. Len(s) - 1 : t[i] = r[i + 1]
    BY <1>3, <1>5
  <2> QED BY <1>1, <1>3, <2>1
<1>7. RunOrder(t) = [i \in 1 .. Len(s) - 1 |-> s[i]]
  <2>1. RunOrder(t) = [i \in 1 .. Len(s) - 1 |-> t[Len(s) - 1 - i + 1]]
    BY <1>6 DEF RunOrder, Reverse
  <2>2. ASSUME NEW i \in 1 .. Len(s) - 1 PROVE t[Len(s) - 1 - i + 1] = s[i]
    <3>1. Len(s) - i \in 1 .. Len(s) - 1 /\ Len(s) - 1 - i + 1 = Len(s) - i
          /\ Len(s) - (Len(s) - i) = i
      BY <1>1
    <3> QED BY <1>6, <3>1
  <2> QED BY <2>1, <2>2
<1>8. RunOrder(t) \in Seq(S)
  <2>1. \A i \in 1 .. Len(s) - 1 : s[i] \in S
    BY <1>1
  <2> QED BY <1>1, <1>7, <2>1
<1> QED BY <1>1, <1>2, <1>4, <1>5, <1>7, <1>8

\* The handler runs the last request of its vector.
LEMMA RunRequestStep ==
  ASSUME RunRequest, TypeOK,
         NEW F \in Seq(Node), NEW R \in Seq(Node), NEW W \in Seq(Node),
         NEW tag \in [Node -> Nat], NEW where \in [Node -> Place],
         Shape(F, R, W, tag, where)
  PROVE  TypeOK' /\ Shape(F, R, W, tag, where)'
<1>1. /\ pc[h] = "run" /\ temp # <<>> /\ temp \in Seq(Request)
      /\ ran' = Append(ran, temp[Len(temp)]) /\ Len(temp) \in Nat /\ Len(temp) >= 1
      /\ temp' = [i \in 1 .. Len(temp) - 1 |-> temp[i]] /\ temp' \in Seq(Request)
      /\ UNCHANGED <<freeHead, reqHead, next, content, pc, old, nxt, node, sent>>
  <2>1. temp # <<>> /\ temp \in Seq(Request)
    BY DEF RunRequest, TypeOK
  <2> QED BY <2>1, RunOrderTakesLast DEF RunRequest
<1>2. temp[Len(temp)] \in Request /\ temp[Len(temp)] \in Range(temp)
  BY <1>1 DEF Range
<1>3. TypeOK'
  BY <1>1, <1>2 DEF TypeOK
<1>4. UNCHANGED <<Rest, FreeingNode, Accepted>>
  BY <1>1 DEF Rest, FreeingNode, Accepted
<1>5. Range(temp') \subseteq Range(temp) /\ Range(ran') \subseteq Range(ran) \cup Range(temp)
  <2>1. Range(temp') \subseteq Range(temp)
    BY <1>1 DEF Range
  <2>2. ran \in Seq(Request)
    BY DEF TypeOK
  <2>3. Range(ran') \subseteq Range(ran) \cup {temp[Len(temp)]}
    BY <1>1, <1>2, <2>2 DEF Range
  <2> QED BY <1>2, <2>1, <2>3
<1>6. Requests(R, W)'
  BY <1>1, <1>4, <1>5 DEF Shape, Requests
<1>7. Stacks(F, R, W, tag)' /\ Places(F, R, W, where)'
  BY <1>1, <1>4 DEF Shape, Stacks, Places
<1>8. Producers(tag, where)' /\ HandlerWalks(W, tag)'
  BY <1>1, <1>4 DEF Shape, Producers, HandlerWalks
<1>9. TagsAreYoung(tag)'
  BY <1>1 DEF Shape, TagsAreYoung, Taken
<1> QED BY <1>3, <1>6, <1>7, <1>8, <1>9 DEF Shape

----------------------------------------------------------------------------
(* The atomic queue that the lists implement. *)

\* The requests in the nodes of a list, first to last.
Line(L) == [k \in DOMAIN L |-> content[L[k]]]

Pending == Reverse(Contents(reqHead))
Batch   == Reverse(temp \o Contents(Rest))

\* A list of nodes gives a sequence of requests of the same length.
LEMMA LineIsSeq ==
  ASSUME TypeOK, NEW L \in Seq(Node)
  PROVE  Line(L) \in Seq(Request \cup {Empty}) /\ Len(Line(L)) = Len(L)
<1>1. DOMAIN L = 1 .. Len(L) /\ Len(L) \in Nat /\ \A i \in 1 .. Len(L) : L[i] \in Node
  OBVIOUS
<1>2. \A i \in 1 .. Len(L) : content[L[i]] \in Request \cup {Empty}
  BY <1>1 DEF TypeOK
<1>3. Line(L) = [k \in 1 .. Len(L) |-> content[L[k]]]
  BY <1>1 DEF Line
<1> QED BY <1>1, <1>2, <1>3

\* The request of a node put in front comes first.
LEMMA LineOfPush ==
  ASSUME TypeOK, NEW T \in Seq(Node), NEW n \in Node
  PROVE  Line(<<n>> \o T) = <<content[n]>> \o Line(T)
<1> DEFINE P == <<n>> \o T
<1>1. /\ P \in Seq(Node) /\ Len(T) \in Nat /\ Len(P) = Len(T) + 1 /\ P[1] = n
      /\ DOMAIN P = 1 .. Len(T) + 1 /\ \A i \in 1 .. Len(T) : P[i + 1] = T[i]
  OBVIOUS
<1> HIDE DEF P
<1>2. Line(P) \in Seq(Request \cup {Empty}) /\ Len(Line(P)) = Len(T) + 1
  BY <1>1, LineIsSeq
<1>3. Line(T) \in Seq(Request \cup {Empty}) /\ Len(Line(T)) = Len(T)
  BY LineIsSeq
<1>4. /\ \A i \in 1 .. Len(T) + 1 : Line(P)[i] = content[P[i]]
      /\ \A i \in 1 .. Len(T) : Line(T)[i] = content[T[i]]
  BY <1>1 DEF Line
<1>5. PICK Q : Q = <<content[n]>> \o Line(T)
  OBVIOUS
<1>6. /\ Q \in Seq(Request \cup {Empty}) /\ Len(Q) = Len(T) + 1 /\ Q[1] = content[n]
      /\ \A i \in 1 .. Len(T) : Q[i + 1] = Line(T)[i]
  <2>1. content[n] \in Request \cup {Empty}
    BY DEF TypeOK
  <2> QED BY <1>3, <1>5, <2>1
<1>7. ASSUME NEW j \in 1 .. Len(T) + 1 PROVE Line(P)[j] = Q[j]
  <2>1. CASE j = 1
    BY <1>1, <1>4, <1>6, <2>1
  <2>2. CASE j # 1
    <3>1. PICK i \in 1 .. Len(T) : j = i + 1
      <4>1. j - 1 \in 1 .. Len(T) /\ j = (j - 1) + 1
        BY <1>1, <2>2
      <4> QED BY <4>1
    <3>2. P[j] = T[i] /\ Q[j] = Line(T)[i]
      BY <1>1, <1>6, <3>1
    <3> QED BY <1>4, <3>2
  <2> QED BY <2>1, <2>2
<1>8. Line(P) = Q
  BY <1>1, <1>2, <1>6, <1>7, SeqEqual
<1> QED BY <1>5, <1>8 DEF P

\* What Reverse of the community modules returns.
LEMMA ReverseProperties ==
  ASSUME NEW S, NEW s \in Seq(S)
  PROVE  /\ Reverse(s) \in Seq(S) /\ Len(Reverse(s)) = Len(s)
         /\ \A i \in 1 .. Len(s) : Reverse(s)[i] = s[Len(s) - i + 1]
<1>1. Len(s) \in Nat /\ \A i \in 1 .. Len(s) : (Len(s) - i) + 1 \in 1 .. Len(s)
  OBVIOUS
<1>2. \A i \in 1 .. Len(s) : s[(Len(s) - i) + 1] \in S
  BY <1>1
<1>3. Reverse(s) = [i \in 1 .. Len(s) |-> s[(Len(s) - i) + 1]]
  BY DEF Reverse
<1> QED BY <1>1, <1>2, <1>3

\* Reversing twice changes nothing.
LEMMA ReverseTwice ==
  ASSUME NEW S, NEW s \in Seq(S)
  PROVE  Reverse(Reverse(s)) = s
<1>1. PICK r \in Seq(S) : r = Reverse(s)
  BY ReverseProperties
<1>2. Len(r) = Len(s) /\ \A i \in 1 .. Len(s) : r[i] = s[Len(s) - i + 1]
  BY <1>1, ReverseProperties
<1>3. PICK t \in Seq(S) : t = Reverse(r)
  BY ReverseProperties
<1>4. Len(t) = Len(s) /\ \A i \in 1 .. Len(s) : t[i] = r[Len(s) - i + 1]
  BY <1>2, <1>3, ReverseProperties
<1>5. ASSUME NEW i \in 1 .. Len(s) PROVE t[i] = s[i]
  <2>1. Len(s) - i + 1 \in 1 .. Len(s) /\ Len(s) - (Len(s) - i + 1) + 1 = i
    OBVIOUS
  <2> QED BY <1>2, <1>4, <2>1
<1>6. t = s
  BY <1>4, <1>5, SeqEqual
<1> QED BY <1>1, <1>3, <1>6

\* What is put in front of a list comes out of it last.
LEMMA ReversePush ==
  ASSUME NEW S, NEW s \in Seq(S), NEW c \in S
  PROVE  Reverse(<<c>> \o s) = Append(Reverse(s), c)
<1>1. PICK r \in Seq(S) : r = Reverse(s)
  BY ReverseProperties
<1>2. Len(r) = Len(s) /\ Len(s) \in Nat /\ \A i \in 1 .. Len(s) : r[i] = s[Len(s) - i + 1]
  BY <1>1, ReverseProperties
<1>3. PICK q \in Seq(S) : q = <<c>> \o s
  <2>1. <<c>> \in Seq(S)
    OBVIOUS
  <2> QED BY <2>1, ConcatProperties
<1>4. Len(q) = Len(s) + 1 /\ q[1] = c /\ \A i \in 1 .. Len(s) : q[i + 1] = s[i]
  BY <1>3
<1>5. PICK t \in Seq(S) : t = Reverse(q)
  BY ReverseProperties
<1>6. Len(t) = Len(s) + 1 /\ \A i \in 1 .. Len(s) + 1 : t[i] = q[(Len(s) + 1) - i + 1]
  BY <1>4, <1>5, ReverseProperties
<1>7. PICK a \in Seq(S) : a = Append(r, c)
  BY AppendProperties
<1>8. Len(a) = Len(s) + 1 /\ a[Len(s) + 1] = c /\ \A i \in 1 .. Len(s) : a[i] = r[i]
  BY <1>2, <1>7
<1>9. ASSUME NEW i \in 1 .. Len(s) + 1 PROVE t[i] = a[i]
  <2>1. CASE i = Len(s) + 1
    BY <1>2, <1>4, <1>6, <1>8, <2>1
  <2>2. CASE i # Len(s) + 1
    <3>1. i \in 1 .. Len(s) /\ Len(s) - i + 1 \in 1 .. Len(s)
          /\ (Len(s) + 1) - i + 1 = (Len(s) - i + 1) + 1
      BY <1>2, <2>2
    <3> QED BY <1>2, <1>4, <1>6, <1>8, <3>1
  <2> QED BY <2>1, <2>2
<1>10. t = a
  BY <1>6, <1>8, <1>9, SeqEqual
<1> QED BY <1>1, <1>3, <1>5, <1>7, <1>10

\* What the lists are in terms of the atomic queue.
LEMMA ListsAreQueue ==
  ASSUME NEW F, NEW R, NEW W, NEW tag, NEW where, Shape(F, R, W, tag, where)
  PROVE  Pending = Reverse(Line(R)) /\ Batch = Reverse(temp \o Line(W))
<1>1. Linked(next, tag, reqHead, R) /\ Linked(next, tag, Rest, W)
  BY DEF Shape, Stacks
<1>2. Chain(next, reqHead) = R /\ Chain(next, Rest) = W
  BY <1>1, LinkedIsChain
<1> QED BY <1>2 DEF Pending, Batch, Contents, Line

\* The same after a step.
LEMMA ListsAreQueueAfter ==
  ASSUME NEW F, NEW R, NEW W, NEW tag, NEW where, Shape(F, R, W, tag, where)'
  PROVE  /\ Pending' = Reverse([k \in DOMAIN R |-> content'[R[k]]])
         /\ Batch' = Reverse(temp' \o [k \in DOMAIN W |-> content'[W[k]]])
<1>1. Linked(next', tag, reqHead', R) /\ Linked(next', tag, Rest', W)
  BY DEF Shape, Stacks
<1>2. Chain(next', reqHead') = R /\ Chain(next', Rest') = W
  BY <1>1, LinkedIsChain
<1>3. Chain(next, reqHead)' = R /\ Chain(next, Rest)' = W
  BY <1>2 DEF Chain
<1> QED BY <1>3 DEF Pending, Batch, Contents

\* What is in the queue or has been run has been accepted.
LEMMA QueueIsAccepted ==
  ASSUME TypeOK, NEW F, NEW R \in Seq(Node), NEW W \in Seq(Node), NEW tag, NEW where,
         Shape(F, R, W, tag, where)
  PROVE  /\ Pending \in Seq(Accepted) /\ Batch \in Seq(Accepted) /\ ran \in Seq(Accepted)
         /\ Line(R) \in Seq(Accepted) /\ Line(W) \in Seq(Accepted) /\ temp \in Seq(Accepted)
<1>1. ASSUME NEW L \in Seq(Node), \A n \in Range(L) : content[n] \in Accepted
      PROVE  Line(L) \in Seq(Accepted)
  <2>1. Line(L) \in Seq(Request \cup {Empty}) /\ Len(Line(L)) = Len(L)
    BY LineIsSeq
  <2>2. DOMAIN L = 1 .. Len(L) /\ Len(L) \in Nat
    OBVIOUS
  <2>3. \A k \in 1 .. Len(L) : content[L[k]] \in Accepted
    BY <1>1, <2>2 DEF Range
  <2>4. Line(L) = [k \in 1 .. Len(L) |-> content[L[k]]]
    BY <2>2 DEF Line
  <2> QED BY <2>2, <2>3, <2>4
<1>2. ASSUME NEW s \in Seq(Request), Range(s) \subseteq Accepted
      PROVE  s \in Seq(Accepted)
  <2>1. DOMAIN s = 1 .. Len(s) /\ Len(s) \in Nat
    OBVIOUS
  <2>2. \A i \in 1 .. Len(s) : s[i] \in Accepted
    BY <1>2, <2>1 DEF Range
  <2> QED BY <2>1, <2>2
<1>3. Requests(R, W)
  BY DEF Shape
<1>4. Line(R) \in Seq(Accepted) /\ Line(W) \in Seq(Accepted)
  BY <1>1, <1>3 DEF Requests
<1>5. temp \in Seq(Accepted) /\ ran \in Seq(Accepted)
  BY <1>2, <1>3 DEF Requests, TypeOK
<1>6. temp \o Line(W) \in Seq(Accepted)
  BY <1>4, <1>5, ConcatProperties
<1>7. Pending \in Seq(Accepted) /\ Batch \in Seq(Accepted)
  BY <1>4, <1>6, ReverseProperties, ListsAreQueue
<1> QED BY <1>4, <1>5, <1>7

\* A step that leaves the two lists and the vector alone is none of the atomic
\* queue.
LEMMA SameListsSameQueue ==
  ASSUME NEW F, NEW R, NEW W, NEW tag, NEW where, Shape(F, R, W, tag, where),
         NEW F2, NEW tag2, NEW where2, Shape(F2, R, W, tag2, where2)',
         \A n \in Range(R) \cup Range(W) : content'[n] = content[n],
         UNCHANGED temp
  PROVE  UNCHANGED <<Pending, Batch>>
<1>1. [k \in DOMAIN R |-> content'[R[k]]] = Line(R)
  BY DEF Line, Range
<1>2. [k \in DOMAIN W |-> content'[W[k]]] = Line(W)
  BY DEF Line, Range
<1>3. Pending = Reverse(Line(R)) /\ Batch = Reverse(temp \o Line(W))
  BY ListsAreQueue
<1>4. Pending' = Reverse(Line(R)) /\ Batch' = Reverse(temp \o Line(W))
  BY <1>1, <1>2, ListsAreQueueAfter
<1> QED BY <1>3, <1>4

\* The exchange on the request stack appends the request.
LEMMA PushAppends ==
  ASSUME TypeOK, NEW F, NEW R \in Seq(Node), NEW W \in Seq(Node), NEW tag, NEW where,
         Shape(F, R, W, tag, where), NEW n \in Node, content[n] \in Request,
         NEW where2, NEW P, P = <<n>> \o R, Shape(F, P, W, tag, where2)',
         UNCHANGED <<content, temp>>
  PROVE  Pending' = Append(Pending, content[n]) /\ Batch' = Batch
<1>1. Pending' = Reverse(Line(P)) /\ Batch' = Reverse(temp \o Line(W))
  BY ListsAreQueueAfter DEF Line
<1>2. Line(P) = <<content[n]>> \o Line(R) /\ Line(R) \in Seq(Request \cup {Empty})
  BY LineOfPush, LineIsSeq
<1>3. Reverse(Line(P)) = Append(Reverse(Line(R)), content[n])
  <2>1. content[n] \in Request \cup {Empty}
    OBVIOUS
  <2> QED BY <1>2, <2>1, ReversePush
<1> QED BY <1>1, <1>3, ListsAreQueue

\* The walk moves a request from the list to the vector: the batch is the same.
LEMMA WalkKeepsBatch ==
  ASSUME TypeOK, NEW F, NEW R \in Seq(Node), NEW W \in Seq(Node), NEW tag, NEW where,
         Shape(F, R, W, tag, where), NEW n \in Node, NEW T \in Seq(Node),
         W = <<n>> \o T, n \notin Range(R), n \notin Range(T),
         Shape(F, R, T, tag, where)',
         temp' = Append(temp, content[n]), content' = [content EXCEPT ![n] = Empty]
  PROVE  UNCHANGED <<Pending, Batch>>
<1>1. Range(R) \subseteq Node /\ Range(T) \subseteq Node
  BY DEF Range
<1>2. /\ \A m \in Range(R) : content'[m] = content[m]
      /\ \A m \in Range(T) : content'[m] = content[m]
  BY <1>1 DEF TypeOK
<1>3. [k \in DOMAIN R |-> content'[R[k]]] = Line(R)
  BY <1>2 DEF Line, Range
<1>4. [k \in DOMAIN T |-> content'[T[k]]] = Line(T)
  BY <1>2 DEF Line, Range
<1>5. Pending' = Reverse(Line(R)) /\ Batch' = Reverse(Append(temp, content[n]) \o Line(T))
  <2>1. /\ Pending' = Reverse([k \in DOMAIN R |-> content'[R[k]]])
        /\ Batch' = Reverse(temp' \o [k \in DOMAIN T |-> content'[T[k]]])
    BY ONLY Shape(F, R, T, tag, where)', ListsAreQueueAfter
  <2> QED BY <1>3, <1>4, <2>1
<1>6. Pending = Reverse(Line(R)) /\ Batch = Reverse(temp \o Line(W))
  BY ListsAreQueue
<1>7. Line(W) = <<content[n]>> \o Line(T)
  BY LineOfPush
<1>8. /\ temp \in Seq(Request \cup {Empty}) /\ content[n] \in Request \cup {Empty}
      /\ Line(T) \in Seq(Request \cup {Empty}) /\ <<content[n]>> \in Seq(Request \cup {Empty})
  <2>1. content[n] \in Request \cup {Empty}
    BY DEF TypeOK
  <2>2. temp \in Seq(Request \cup {Empty})
    BY DEF TypeOK
  <2> QED BY <2>1, <2>2, LineIsSeq
<1>9. Append(temp, content[n]) = temp \o <<content[n]>>
  BY <1>8, AppendIsConcat
<1>10. (temp \o <<content[n]>>) \o Line(T) = temp \o (<<content[n]>> \o Line(T))
  BY <1>8, ConcatAssociative
<1> QED BY <1>5, <1>6, <1>7, <1>9, <1>10

\* The exchange of the request stack takes all there is.
LEMMA TakeTakesAll ==
  ASSUME TypeOK, NEW F, NEW R \in Seq(Node), NEW tag, NEW where,
         Shape(F, R, <<>>, tag, where), NEW where2, Shape(F, <<>>, R, tag, where2)',
         temp = <<>>, UNCHANGED <<content, temp>>
  PROVE  Batch = <<>> /\ Batch' = Pending /\ Pending' = <<>>
<1>1. Line(<<>>) = <<>> /\ Line(R) \in Seq(Request \cup {Empty})
      /\ <<>> \in Seq(Request \cup {Empty})
  <2>1. Line(R) \in Seq(Request \cup {Empty})
    BY LineIsSeq
  <2>2. <<>> \in Seq(Node) /\ Len(<<>>) = 0
    OBVIOUS
  <2>3. Line(<<>>) \in Seq(Request \cup {Empty}) /\ Len(Line(<<>>)) = 0
    BY <2>2, LineIsSeq
  <2> QED BY <2>1, <2>3, EmptySeq
<1>2. Reverse(<<>>) = <<>>
  <2>1. Len(Reverse(<<>>)) = 0 /\ Reverse(<<>>) \in Seq(Request \cup {Empty})
    BY <1>1, ReverseProperties, EmptySeq
  <2> QED BY <2>1, EmptySeq
<1>3. <<>> \o Line(R) = Line(R) /\ <<>> \o <<>> = <<>>
  BY <1>1, ConcatEmptySeq
<1>4. Pending = Reverse(Line(R)) /\ Batch = Reverse(temp \o Line(<<>>))
  BY ListsAreQueue
<1>5. Pending' = Reverse(Line(<<>>)) /\ Batch' = Reverse(temp \o Line(R))
  BY ListsAreQueueAfter DEF Line
<1> QED BY <1>1, <1>2, <1>3, <1>4, <1>5

\* The handler runs the oldest request of the batch.
LEMMA RunRunsOldest ==
  ASSUME TypeOK, TypeOK', NEW F, NEW R \in Seq(Node), NEW W \in Seq(Node), NEW tag, NEW where,
         Shape(F, R, W, tag, where), Shape(F, R, W, tag, where)', RunRequest
  PROVE  /\ Batch # <<>> /\ Batch' = Tail(Batch) /\ ran' = Append(ran, Head(Batch))
         /\ Pending' = Pending
<1>1. /\ pc[h] = "run" /\ temp # <<>> /\ temp \in Seq(Request) /\ temp' \in Seq(Request)
      /\ ran' = Append(ran, Head(Reverse(temp)))
      /\ temp' = Reverse(Tail(Reverse(temp))) /\ UNCHANGED content
  BY DEF RunRequest, RunOrder, TypeOK
<1>2. W = <<>>
  <2>1. Rest = Nothing
    BY <1>1 DEF Rest
  <2> QED BY <2>1, NothingLeft DEF Nothing
<1>3. Line(W) = <<>>
  <2>1. Line(W) \in Seq(Request \cup {Empty}) /\ Len(Line(W)) = Len(W)
    BY LineIsSeq
  <2> QED BY <1>2, <2>1, EmptySeq
<1>4. Pending = Reverse(Line(R)) /\ Batch = Reverse(temp \o Line(W))
  BY ListsAreQueue
<1>5. Pending' = Reverse(Line(R)) /\ Batch' = Reverse(temp' \o Line(W))
  BY <1>1, ListsAreQueueAfter DEF Line
<1>6. temp \o <<>> = temp /\ temp' \o <<>> = temp'
  BY <1>1, ConcatEmptySeq
<1>7. PICK r \in Seq(Request) : r = Reverse(temp)
  BY <1>1, ReverseProperties
<1>8. r # <<>>
  <2>1. Len(r) = Len(temp)
    BY <1>1, <1>7, ReverseProperties
  <2> QED BY <1>1, <1>7, <2>1, EmptySeq
<1>9. Tail(r) \in Seq(Request)
  BY <1>8, HeadTailProperties
<1>10. Reverse(Reverse(Tail(r))) = Tail(r)
  BY <1>9, ReverseTwice
<1> QED BY <1>1, <1>3, <1>4, <1>5, <1>6, <1>7, <1>8, <1>10

----------------------------------------------------------------------------
(* Every step keeps the invariant and is a step of the atomic queue. *)

QueueStep == [Queue!Next]_(Queue!vars)

\* The four ways to be a step of the atomic queue: to leave it alone, to accept
\* a request, to take all there are, to run the oldest.
LEMMA Stutters ==
  ASSUME UNCHANGED <<Pending, Batch, ran>> PROVE QueueStep
BY DEF QueueStep, Queue!vars, Pending, Batch

\* A request that is new to the queue is accepted.
LEMMA IsAccept ==
  ASSUME NEW r \in Request, r \notin Range(Pending \o Batch \o ran),
         Pending' = Append(Pending, r), UNCHANGED <<Batch, ran>>
  PROVE  QueueStep
BY DEF QueueStep, Queue!Next, Queue!Accept, Queue!Range, Range, Pending, Batch

\* The handler takes all that are pending.
LEMMA IsTake ==
  ASSUME Batch = <<>>, Batch' = Pending, Pending' = <<>>, UNCHANGED ran
  PROVE  QueueStep
BY DEF QueueStep, Queue!Next, Queue!Take, Pending, Batch

\* The oldest request of the batch is run.
LEMMA IsRun ==
  ASSUME Batch # <<>>, Batch' = Tail(Batch), ran' = Append(ran, Head(Batch)),
         Pending' = Pending
  PROVE  QueueStep
BY DEF QueueStep, Queue!Next, Queue!Run, Pending, Batch

\* A step of a producer.
LEMMA ProduceHolds ==
  ASSUME IInv, NEW p \in Producer, Produce(p)
  PROVE  IInv' /\ QueueStep
<1>1. TypeOK
  BY DEF IInv
<1>2. PICK F \in Seq(Node), R \in Seq(Node), W \in Seq(Node), tag \in [Node -> Nat],
           where \in [Node -> Place] : Shape(F, R, W, tag, where)
  BY DEF IInv
<1>3. ASSUME TypeOK', Shape(F, R, W, tag, where)', UNCHANGED <<content, temp, ran>>
      PROVE  IInv' /\ QueueStep
  <2>1. UNCHANGED <<Pending, Batch>>
    BY <1>2, <1>3, SameListsSameQueue
  <2>2. QueueStep
    BY <1>3, <2>1, Stutters
  <2> QED BY <1>3, <2>2 DEF IInv
<1>4. CASE Call(p)
  <2>1. TypeOK' /\ Shape(F, R, W, tag, where)'
    BY <1>1, <1>2, <1>4, CallStep
  <2> QED BY <1>3, <1>4, <2>1 DEF Call
<1>5. CASE LoadFree(p)
  <2>1. TypeOK' /\ Shape(F, R, W, tag, where)'
    BY <1>1, <1>2, <1>5, LoadFreeStep
  <2> QED BY <1>3, <1>5, <2>1 DEF LoadFree
<1>6. CASE ReadNext(p)
  <2>1. TypeOK' /\ Shape(F, R, W, tag, where)'
    BY <1>1, <1>2, <1>6, ReadNextStep
  <2> QED BY <1>3, <1>6, <2>1 DEF ReadNext
<1>7. CASE PopFree(p)
  <2>1. CASE freeHead = old[p]
    <3>1. /\ TypeOK' /\ Tail(F) \in Seq(Node)
          /\ \E tag2 \in [Node -> Nat], where2 \in [Node -> Place] :
               Shape(Tail(F), R, W, tag2, where2)'
      BY <1>1, <1>2, <1>7, <2>1, PopFreeStep
    <3>2. PICK tag2 \in [Node -> Nat], where2 \in [Node -> Place] :
            Shape(Tail(F), R, W, tag2, where2)'
      BY <3>1
    <3>3. IInv'
      BY <3>1, <3>2 DEF IInv
    <3>4. UNCHANGED <<temp, ran>> /\ content' = [content EXCEPT ![old[p].node] = <<p, sent[p]>>]
          /\ pc[p] = "take" /\ freeHead.node # Invalid
      BY <1>2, <1>7, <2>1, CapacityAssumption DEF PopFree, Shape, Producers, Node, Invalid
    <3>5. freeHead.node \in Node /\ where[freeHead.node] = "free"
      BY <1>2, <3>4, FreeTop
    <3>6. old[p].node \notin Range(R) /\ old[p].node \notin Range(W)
      BY <1>2, <2>1, <3>5, ThreadAssumption DEF Shape, Places, Thread, h
    <3>7. \A n \in Range(R) \cup Range(W) : content'[n] = content[n]
      <4>1. Range(R) \subseteq Node /\ Range(W) \subseteq Node
        BY DEF Range
      <4> QED BY <1>1, <3>4, <3>6, <4>1 DEF TypeOK
    <3>8. UNCHANGED <<Pending, Batch>>
      <4>1. PICK T \in Seq(Node) : Shape(T, R, W, tag2, where2)'
        BY <3>1, <3>2
      <4> QED BY <1>2, <3>4, <3>7, <4>1, SameListsSameQueue
    <3> QED BY <3>3, <3>4, <3>8, Stutters
  <2>2. CASE freeHead # old[p]
    <3>1. /\ pc[p] = "take" /\ Goto(p, "pop")
          /\ UNCHANGED <<freeHead, reqHead, next, content, old, nxt, node, temp, sent, ran>>
      BY <1>7, <2>2 DEF PopFree
    <3>2. TypeOK' /\ Shape(F, R, W, tag, where)'
      BY <1>1, <1>2, <3>1, ExchangeFails
    <3> QED BY <1>3, <3>1, <3>2
  <2> QED BY <2>1, <2>2
<1>8. CASE LinkRequest(p)
  <2>1. TypeOK' /\ Shape(F, R, W, tag, where)'
    BY <1>1, <1>2, <1>8, LinkRequestStep
  <2> QED BY <1>3, <1>8, <2>1 DEF LinkRequest
<1>9. CASE PushRequest(p)
  <2>1. CASE reqHead = old[p]
    <3>1. PICK n \in Node : n = node[p].node
      BY <1>1, <1>2, <1>9, <2>1, PushRequestStep
    <3>2. TypeOK' /\ content[n] = <<p, sent[p]>>
      BY <1>1, <1>2, <1>9, <2>1, <3>1, PushRequestStep
    <3>3. PICK P \in Seq(Node), where2 \in [Node -> Place] :
            P = <<n>> \o R /\ Shape(F, P, W, tag, where2)'
      BY <1>1, <1>2, <1>9, <2>1, <3>1, PushRequestStep
    <3>4. IInv'
      BY <3>2, <3>3 DEF IInv
    <3>5. UNCHANGED <<content, temp, ran>> /\ pc[p] = "push"
      BY <1>9, <2>1 DEF PushRequest
    <3>6. content[n] \in Request /\ content[n] \notin Accepted
      BY <1>2, <3>2, <3>5, TagAssumption DEF Shape, Producers, Request, Accepted
    <3>7. Pending' = Append(Pending, content[n]) /\ Batch' = Batch
      BY <1>1, <1>2, <3>3, <3>5, <3>6, PushAppends
    <3>8. Pending \in Seq(Accepted) /\ Batch \in Seq(Accepted) /\ ran \in Seq(Accepted)
      BY <1>1, <1>2, QueueIsAccepted
    <3>9. Pending \o Batch \o ran \in Seq(Accepted)
      BY <3>8, ConcatProperties
    <3>10. content[n] \notin Range(Pending \o Batch \o ran)
      <4>1. \A s \in Seq(Accepted) : Range(s) \subseteq Accepted
        BY DEF Range
      <4> QED BY <3>6, <3>9, <4>1
    <3> QED BY <3>4, <3>5, <3>6, <3>7, <3>10, IsAccept
  <2>2. CASE reqHead # old[p]
    <3>1. /\ pc[p] = "push" /\ Goto(p, "link")
          /\ UNCHANGED <<freeHead, reqHead, next, content, old, nxt, node, temp, sent, ran>>
      BY <1>9, <2>2 DEF PushRequest
    <3>2. TypeOK' /\ Shape(F, R, W, tag, where)'
      BY <1>1, <1>2, <3>1, ExchangeFails
    <3> QED BY <1>3, <3>1, <3>2
  <2> QED BY <2>1, <2>2
<1> QED BY <1>4, <1>5, <1>6, <1>7, <1>8, <1>9 DEF Produce

\* A step of the handler.
LEMMA HandleHolds ==
  ASSUME IInv, Handle
  PROVE  IInv' /\ QueueStep
<1>1. TypeOK
  BY DEF IInv
<1>2. PICK F \in Seq(Node), R \in Seq(Node), W \in Seq(Node), tag \in [Node -> Nat],
           where \in [Node -> Place] : Shape(F, R, W, tag, where)
  BY DEF IInv
<1>3. ASSUME TypeOK', Shape(F, R, W, tag, where)', UNCHANGED <<content, temp, ran>>
      PROVE  IInv' /\ QueueStep
  <2>1. UNCHANGED <<Pending, Batch>>
    BY <1>2, <1>3, SameListsSameQueue
  <2>2. QueueStep
    BY <1>3, <2>1, Stutters
  <2> QED BY <1>3, <2>2 DEF IInv
<1>4. CASE LoadRequests
  <2>1. TypeOK' /\ Shape(F, R, W, tag, where)'
    BY <1>1, <1>2, <1>4, LoadRequestsStep
  <2> QED BY <1>3, <1>4, <2>1 DEF LoadRequests
<1>5. CASE TakeRequests
  <2>1. CASE reqHead = old[h]
    <3>1. TypeOK' /\ W = <<>>
      BY <1>1, <1>2, <1>5, <2>1, TakeRequestsStep
    <3>2. PICK where2 \in [Node -> Place] : Shape(F, <<>>, R, tag, where2)'
      BY <1>1, <1>2, <1>5, <2>1, TakeRequestsStep
    <3>3. IInv'
      <4>1. <<>> \in Seq(Node)
        OBVIOUS
      <4> QED BY <3>1, <3>2, <4>1 DEF IInv
    <3>4. UNCHANGED <<content, temp, ran>> /\ temp = <<>>
      BY <1>2, <1>5, <2>1 DEF TakeRequests, Shape, HandlerWalks
    <3>5. Batch = <<>> /\ Batch' = Pending /\ Pending' = <<>>
      BY <1>1, <1>2, <3>1, <3>2, <3>4, TakeTakesAll
    <3> QED BY <3>3, <3>4, <3>5, IsTake
  <2>2. CASE reqHead # old[h]
    <3>1. /\ pc[h] = "take" /\ Goto(h, "idle")
          /\ UNCHANGED <<freeHead, reqHead, next, content, old, nxt, node, temp, sent, ran>>
      BY <1>5, <2>2 DEF TakeRequests
    <3>2. TypeOK' /\ Shape(F, R, W, tag, where)'
      BY <1>1, <1>2, <3>1, HandlerExchangeFails
    <3> QED BY <1>3, <3>1, <3>2
  <2> QED BY <2>1, <2>2
<1>6. CASE TakeNode
  <2>1. PICK n \in Node : n = node[h].node
    BY <1>1, <1>2, <1>6, TakeNodeStep
  <2>2. PICK T \in Seq(Node) : T = Tail(W)
    BY <1>1, <1>2, <1>6, TakeNodeStep
  <2>3. TypeOK' /\ Shape(F, R, T, tag, where)'
    BY <1>1, <1>2, <1>6, <2>2, TakeNodeStep
  <2>4. W = <<n>> \o T /\ n \notin Range(T) /\ n \notin Range(R)
    BY <1>1, <1>2, <1>6, <2>1, <2>2, TakeNodeStep
  <2>5. /\ temp' = Append(temp, content[n]) /\ content' = [content EXCEPT ![n] = Empty]
        /\ ran' = ran
    BY <1>6, <2>1 DEF TakeNode
  <2>6. UNCHANGED <<Pending, Batch>>
    BY <1>1, <1>2, <2>3, <2>4, <2>5, WalkKeepsBatch
  <2>7. QueueStep
    BY <2>5, <2>6, Stutters
  <2> QED BY <2>3, <2>7 DEF IInv
<1>7. CASE LinkFree
  <2>1. TypeOK' /\ Shape(F, R, W, tag, where)'
    BY <1>1, <1>2, <1>7, LinkFreeStep
  <2> QED BY <1>3, <1>7, <2>1 DEF LinkFree
<1>8. CASE FreeNode
  <2>1. CASE freeHead = old[h]
    <3>1. TypeOK'
      BY <1>1, <1>2, <1>8, <2>1, FreeNodeStep
    <3>2. PICK P \in Seq(Node), where2 \in [Node -> Place] : Shape(P, R, W, tag, where2)'
      BY <1>1, <1>2, <1>8, <2>1, FreeNodeStep
    <3>3. IInv'
      BY <3>1, <3>2 DEF IInv
    <3>4. UNCHANGED <<content, temp, ran>>
      BY <1>8 DEF FreeNode
    <3>5. UNCHANGED <<Pending, Batch>>
      BY <1>2, <3>2, <3>4, SameListsSameQueue
    <3> QED BY <3>3, <3>4, <3>5, Stutters
  <2>2. CASE freeHead # old[h]
    <3>1. /\ pc[h] = "free" /\ Goto(h, "link")
          /\ UNCHANGED <<freeHead, reqHead, next, content, old, nxt, node, temp, sent, ran>>
      BY <1>8, <2>2 DEF FreeNode
    <3>2. TypeOK' /\ Shape(F, R, W, tag, where)'
      BY <1>1, <1>2, <3>1, HandlerExchangeFails
    <3> QED BY <1>3, <3>1, <3>2
  <2> QED BY <2>1, <2>2
<1>9. CASE EndOfWalk
  <2>1. TypeOK' /\ Shape(F, R, W, tag, where)'
    BY <1>1, <1>2, <1>9, EndOfWalkStep
  <2> QED BY <1>3, <1>9, <2>1 DEF EndOfWalk
<1>10. CASE RunRequest
  <2>1. TypeOK' /\ Shape(F, R, W, tag, where)'
    BY <1>1, <1>2, <1>10, RunRequestStep
  <2>2. /\ Batch # <<>> /\ Batch' = Tail(Batch) /\ ran' = Append(ran, Head(Batch))
        /\ Pending' = Pending
    BY <1>1, <1>2, <1>10, <2>1, RunRunsOldest
  <2>3. QueueStep
    BY <2>2, IsRun
  <2> QED BY <2>1, <2>3 DEF IInv
<1>11. CASE Done
  <2>1. TypeOK' /\ Shape(F, R, W, tag, where)'
    BY <1>1, <1>2, <1>11, DoneStep
  <2> QED BY <1>3, <1>11, <2>1 DEF Done
<1> QED BY <1>4, <1>5, <1>6, <1>7, <1>8, <1>9, <1>10, <1>11 DEF Handle

\* A step of either, or none.
LEMMA NextHolds == IInv /\ [Next]_vars => IInv' /\ QueueStep
<1> SUFFICES ASSUME IInv, [Next]_vars PROVE IInv' /\ QueueStep
  OBVIOUS
<1>1. CASE \E p \in Producer : Produce(p)
  BY <1>1, ProduceHolds
<1>2. CASE Handle
  BY <1>2, HandleHolds
<1>3. CASE UNCHANGED vars
  <2>1. UNCHANGED <<freeHead, reqHead, next, content, pc, old, nxt, node, temp, sent, ran>>
    BY <1>3 DEF vars
  <2>2. PICK F \in Seq(Node), R \in Seq(Node), W \in Seq(Node), tag \in [Node -> Nat],
             where \in [Node -> Place] : Shape(F, R, W, tag, where)
    BY DEF IInv
  <2>3. UNCHANGED <<Rest, FreeingNode, Accepted, Taken>>
    BY <2>1 DEF Rest, FreeingNode, Accepted, Taken
  <2>4. TypeOK'
    BY <2>1 DEF IInv, TypeOK
  <2>5. Stacks(F, R, W, tag)' /\ Places(F, R, W, where)'
    BY <2>1, <2>2, <2>3 DEF Shape, Stacks, Places
  <2>6. Producers(tag, where)' /\ HandlerWalks(W, tag)'
    BY <2>1, <2>2, <2>3 DEF Shape, Producers, HandlerWalks
  <2>7. Requests(R, W)' /\ TagsAreYoung(tag)'
    BY <2>1, <2>2, <2>3 DEF Shape, Requests, TagsAreYoung
  <2>8. Shape(F, R, W, tag, where)'
    BY <2>5, <2>6, <2>7 DEF Shape
  <2>9. UNCHANGED <<Pending, Batch>>
    BY <2>1, <2>2, <2>8, SameListsSameQueue
  <2>10. QueueStep
    BY <2>1, <2>9, Stutters
  <2> QED BY <2>4, <2>8, <2>10 DEF IInv
<1> QED BY <1>1, <1>2, <1>3 DEF Next

\* HpaeNoLockQueue: between any two accesses to the shared words the nodes are
\* on two linked stacks, in the list the handler walks or in the hands of one
\* thread, and a head that still has the tag of its node is not stale.
THEOREM QueueInvariant == Spec => []IInv
<1>1. IInv /\ [Next]_vars => IInv'
  BY NextHolds
<1> QED BY <1>1, InitHolds, PTL DEF Spec

\* HpaeNoLockQueue: the words, the nodes and the locals of the threads are of
\* their types, and what is run is a request.
THEOREM QueueTypeCorrect == Spec => []TypeOK
<1>1. IInv => TypeOK
  BY DEF IInv
<1> QED BY <1>1, QueueInvariant, PTL

\* The places a node is in are the one that where names.
LEMMA HoldsIsPlace ==
  ASSUME TypeOK, NEW F \in Seq(Node), NEW R \in Seq(Node), NEW W \in Seq(Node),
         NEW tag \in [Node -> Nat], NEW where \in [Node -> Place], Shape(F, R, W, tag, where),
         NEW at \in Place
  PROVE  /\ \A n \in Node : n \in Range(Holds(at)) <=> where[n] = at
         /\ IsInjective(Holds(at))
<1> USE ThreadAssumption DEF Thread
<1>1. Linked(next, tag, freeHead, F) /\ Linked(next, tag, reqHead, R) /\ Linked(next, tag, Rest, W)
  BY DEF Shape, Stacks
<1>2. Chain(next, freeHead) = F
  BY <1>1, LinkedIsChain
<1>3. Chain(next, reqHead) = R
  BY <1>1, LinkedIsChain
<1>4. Chain(next, Rest) = W
  BY <1>1, LinkedIsChain
<1>5. IsInjective(F) /\ IsInjective(R) /\ IsInjective(W)
  BY <1>1 DEF Linked
<1>6. Places(F, R, W, where)
  BY DEF Shape
<1>7. CASE at = "free"
  BY <1>2, <1>5, <1>6, <1>7 DEF Holds, Places
<1>8. CASE at = "requests"
  BY <1>3, <1>5, <1>6, <1>8 DEF Holds, Places
<1>9. CASE at = h
  <2>1. at # "free" /\ at # "requests"
    BY <1>9 DEF h
  <2>2. CASE ~FreeingNode
    <3>1. Holds(at) = <<>> \o W
      BY <1>4, <1>9, <2>1, <2>2 DEF Holds, Owned, FreeingNode
    <3>2. Holds(at) = W
      BY <3>1, ConcatEmptySeq
    <3> QED BY <1>5, <1>6, <1>9, <2>2, <3>2 DEF Places
  <2>3. CASE FreeingNode
    <3>1. PICK n \in Node : n = node[h].node /\ n \notin Range(W)
      BY <2>3 DEF Shape, HandlerWalks
    <3>2. PICK P : P = <<n>> \o W
      OBVIOUS
    <3>3. Holds(at) = P
      BY <1>4, <1>9, <2>1, <2>3, <3>1, <3>2 DEF Holds, Owned, FreeingNode
    <3>4. /\ IsInjective(P)
          /\ \A m : m \in Range(P) <=> m = n \/ m \in Range(W)
      BY <1>5, <3>1, <3>2, InjectivePush
    <3> QED BY <1>6, <1>9, <2>3, <3>1, <3>3, <3>4 DEF Places
  <2> QED BY <2>2, <2>3
<1>10. CASE at \in Producer
  <2>1. at # "free" /\ at # "requests" /\ at # h
    BY <1>10 DEF h
  <2>2. CASE pc[at] \in {"link", "push"}
    <3>1. node[at].node \in Node /\ Holds(at) = <<node[at].node>>
      BY <1>10, <2>1, <2>2 DEF Holds, Owned, Shape, Producers
    <3>2. Range(<<node[at].node>>) = {node[at].node} /\ IsInjective(<<node[at].node>>)
      BY DEF Range, IsInjective
    <3>3. \A n \in Node : where[n] = at <=> node[at].node = n
      BY <1>6, <1>10, <2>2 DEF Places
    <3> QED BY <3>1, <3>2, <3>3
  <2>3. CASE pc[at] \notin {"link", "push"}
    <3>1. Holds(at) = <<>>
      BY <1>10, <2>1, <2>3 DEF Holds, Owned
    <3>2. Range(<<>>) = {} /\ IsInjective(<<>>)
      BY DEF Range, IsInjective
    <3> QED BY <1>6, <1>10, <2>3, <3>1, <3>2 DEF Places
  <2> QED BY <2>2, <2>3
<1> QED BY <1>7, <1>8, <1>9, <1>10 DEF Place, h

\* HpaeNoLockQueue: every node is on the free stack, on the request stack or in
\* the hands of one thread, in one place and once.
THEOREM NodesHaveOneOwner == Spec => []EveryNodeHasOneOwner
<1>1. IInv => EveryNodeHasOneOwner
  <2> SUFFICES ASSUME IInv PROVE EveryNodeHasOneOwner
    OBVIOUS
  <2>1. TypeOK
    BY DEF IInv
  <2>2. PICK F \in Seq(Node), R \in Seq(Node), W \in Seq(Node), tag \in [Node -> Nat],
             where \in [Node -> Place] : Shape(F, R, W, tag, where)
    BY DEF IInv
  <2>3. ASSUME NEW at \in Place
        PROVE  /\ \A n \in Node : n \in Range(Holds(at)) <=> where[n] = at
               /\ IsInjective(Holds(at))
    BY <2>1, <2>2, HoldsIsPlace
  <2>4. ASSUME NEW n \in Node
        PROVE  Cardinality({at \in Place : n \in Range(Holds(at))}) = 1
    <3>1. where[n] \in Place
      OBVIOUS
    <3>2. {at \in Place : n \in Range(Holds(at))} = {where[n]}
      BY <2>3, <3>1
    <3> QED BY <3>2, FS_Singleton
  <2> QED BY <2>3, <2>4 DEF EveryNodeHasOneOwner
<1> QED BY <1>1, QueueInvariant, PTL

\* HpaeNoLockQueue implements the atomic queue: a request is accepted by the
\* exchange on the request stack, the exchange of the handler takes all there
\* are, and they run in the order they were accepted.
THEOREM QueueIsAtomic == Spec => ImplementsRequestQueue
<1>1. Init => Queue!Init
  <2> SUFFICES ASSUME Init PROVE Queue!Init
    OBVIOUS
  <2>1. TypeOK
    BY InitHolds DEF IInv
  <2>2. reqHead.node = Invalid /\ Rest.node = Invalid /\ temp = <<>> /\ ran = <<>>
    BY DEF Init, Nothing, Rest, Thread, h
  <2>3. Linked(next, [n \in Node |-> 0], reqHead, <<>>)
    BY <2>2, EmptyLinked
  <2>4. Linked(next, [n \in Node |-> 0], Rest, <<>>)
    BY <2>2, EmptyLinked
  <2>5. Chain(next, reqHead) = <<>> /\ Chain(next, Rest) = <<>>
    BY <2>3, <2>4, LinkedIsChain
  <2>6. Contents(reqHead) = <<>> /\ Contents(Rest) = <<>>
    BY <2>5 DEF Contents
  <2>7. Reverse(<<>>) = <<>> /\ <<>> \o <<>> = <<>>
    BY DEF Reverse
  <2> QED BY <2>2, <2>6, <2>7 DEF Queue!Init
<1>2. IInv /\ [Next]_vars => QueueStep
  BY NextHolds
<1> QED BY <1>1, <1>2, QueueInvariant, PTL DEF Spec, QueueStep, ImplementsRequestQueue, Queue!Spec
=============================================================================
