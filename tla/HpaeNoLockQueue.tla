-------------------------- MODULE HpaeNoLockQueue --------------------------
(***************************************************************************)
(* HpaeNoLockQueue (hpae_no_lock_queue.cpp): the request queue between the *)
(* threads that call an HPAE manager and the thread of that manager.  The  *)
(* nodes are preallocated and linked through their indexes into two        *)
(* stacks, one of free nodes and one of requests, each with an atomic head *)
(* that carries a tag next to the index.  Popping a node increments its    *)
(* tag, so that a head seen before a pause is not taken for the same head  *)
(* after it (the ABA problem).                                             *)
(*                                                                         *)
(* One step is one access to a word other threads may write; the accesses  *)
(* of a thread to the node it owns are part of the step before or after.   *)
(* Reset, which no manager calls, is left out.                             *)
(***************************************************************************)
EXTENDS Naturals, SequencesExt, FiniteSets

CONSTANTS
  Producer,  \* threads that call PushRequest
  Handler,   \* the thread that calls HandleRequests
  Capacity,  \* maxRequestCount, 10000 in the managers
  TagRange,  \* 2^32 in the code
  MaxPush    \* bound: the requests of one producer

ASSUME CapacityAssumption == Capacity \in Nat \ {0}
ASSUME ThreadAssumption ==
  /\ Handler \notin Producer /\ IsFiniteSet(Producer)
  /\ {"free", "requests"} \cap (Producer \cup {Handler}) = {}

VARIABLES
  freeHead,  \* freeRequestHeadIndex_
  reqHead,   \* requestHeadIndex_
  next,      \* nextRequestIndex of each node
  content,   \* request of each node
  pc,
  old,       \* the head a thread has loaded and will compare
  nxt,       \* the next index it has read
  node,      \* the node it owns
  temp,      \* tempRequestQueue_
  sent,      \* calls of PushRequest so far
  ran        \* requests run so far, in order

vars == <<freeHead, reqHead, next, content, pc, old, nxt, node, temp, sent, ran>>

Thread  == Producer \cup {Handler}
Node    == 0 .. Capacity - 1
Invalid == Capacity  \* INVALID_REQUEST_ID, the index of no node
Ref     == [tag : 0 .. TagRange - 1, node : Node \cup {Invalid}]
Nothing == [tag |-> 0, node |-> Invalid]
Request == Producer \X (1 .. MaxPush)
Empty   == <<>>  \* a null std::function

\* The bound on the requests is such that no node is popped so often that its
\* tag comes round again.
ASSUME TagAssumption ==
  MaxPush \in Nat /\ TagRange \in Nat /\ Cardinality(Request) < TagRange

\* InitQueue.
Init ==
  /\ freeHead = [tag |-> 0, node |-> 0] /\ reqHead = Nothing
  /\ next = [n \in Node |-> [tag |-> 0, node |-> n + 1]]
  /\ content = [n \in Node |-> Empty]
  /\ pc = [t \in Thread |-> "idle"]
  /\ old = [t \in Thread |-> Nothing] /\ nxt = old /\ node = old
  /\ temp = <<>> /\ ran = <<>>
  /\ sent = [p \in Producer |-> 0]

Goto(t, l) == pc' = [pc EXCEPT ![t] = l]

\* IncRequsetIndex.
KeepsTag(ref) == ref
IncRequestIndex(ref) == [ref EXCEPT !.tag = (@ + 1) % TagRange]

----------------------------------------------------------------------------
(* PushRequest: GetRequestNode on the free stack, then PushRequestNode on  *)
(* the request stack.                                                      *)

Call(p) ==
  /\ pc[p] = "idle" /\ sent[p] < MaxPush
  /\ sent' = [sent EXCEPT ![p] = @ + 1]
  /\ Goto(p, "pop")
  /\ UNCHANGED <<freeHead, reqHead, next, content, old, nxt, node, temp, ran>>

\* With no free node the request is dropped.
LoadFree(p) ==
  /\ pc[p] = "pop"
  /\ IF freeHead.node = Invalid
       THEN Goto(p, "idle") /\ UNCHANGED old
       ELSE Goto(p, "next") /\ old' = [old EXCEPT ![p] = freeHead]
  /\ UNCHANGED <<freeHead, reqHead, next, content, nxt, node, temp, sent, ran>>

ReadNext(p) ==
  /\ pc[p] = "next"
  /\ nxt' = [nxt EXCEPT ![p] = next[old[p].node]]
  /\ Goto(p, "take")
  /\ UNCHANGED <<freeHead, reqHead, next, content, old, node, temp, sent, ran>>

\* The exchange, and on success the move of the request into the node.
PopFree(p) ==
  /\ pc[p] = "take"
  /\ IF freeHead = old[p]
       THEN /\ freeHead' = nxt[p]
            /\ node' = [node EXCEPT ![p] = IncRequestIndex(old[p])]
            /\ content' = [content EXCEPT ![old[p].node] = <<p, sent[p]>>]
            /\ Goto(p, "link")
       ELSE Goto(p, "pop") /\ UNCHANGED <<freeHead, node, content>>
  /\ UNCHANGED <<reqHead, next, old, nxt, temp, sent, ran>>

\* t loads a head and makes its own node point to it.
LinkTo(t, head) ==
  /\ old' = [old EXCEPT ![t] = head]
  /\ next' = [next EXCEPT ![node[t].node] = head]

LinkRequest(p) ==
  /\ pc[p] = "link"
  /\ LinkTo(p, reqHead)
  /\ Goto(p, "push")
  /\ UNCHANGED <<freeHead, reqHead, content, nxt, node, temp, sent, ran>>

PushRequest(p) ==
  /\ pc[p] = "push"
  /\ IF reqHead = old[p]
       THEN reqHead' = node[p] /\ Goto(p, "idle")
       ELSE Goto(p, "link") /\ UNCHANGED reqHead
  /\ UNCHANGED <<freeHead, next, content, old, nxt, node, temp, sent, ran>>

----------------------------------------------------------------------------
(* HandleRequests and ProcessRequests. *)

h == Handler

LoadRequests ==
  /\ pc[h] = "idle"
  /\ old' = [old EXCEPT ![h] = reqHead]
  /\ Goto(h, "take")
  /\ UNCHANGED <<freeHead, reqHead, next, content, nxt, node, temp, sent, ran>>

\* The head the request stack is left with; it keeps the tag.
TakeRequests ==
  /\ pc[h] = "take"
  /\ IF reqHead = old[h]
       THEN /\ reqHead' = [old[h] EXCEPT !.node = Invalid]
            /\ node' = [node EXCEPT ![h] = old[h]]
            /\ Goto(h, "walk")
       ELSE Goto(h, "idle") /\ UNCHANGED <<reqHead, node>>
  /\ UNCHANGED <<freeHead, next, content, old, nxt, temp, sent, ran>>

TakeNode ==
  /\ pc[h] = "walk" /\ node[h].node # Invalid
  /\ nxt' = [nxt EXCEPT ![h] = next[node[h].node]]
  /\ temp' = Append(temp, content[node[h].node])
  /\ content' = [content EXCEPT ![node[h].node] = Empty]
  /\ Goto(h, "link")
  /\ UNCHANGED <<freeHead, reqHead, next, old, node, sent, ran>>

LinkFree ==
  /\ pc[h] = "link"
  /\ LinkTo(h, freeHead)
  /\ Goto(h, "free")
  /\ UNCHANGED <<freeHead, reqHead, content, nxt, node, temp, sent, ran>>

FreeNode ==
  /\ pc[h] = "free"
  /\ IF freeHead = old[h]
       THEN /\ freeHead' = node[h]
            /\ node' = [node EXCEPT ![h] = nxt[h]]
            /\ Goto(h, "walk")
       ELSE Goto(h, "link") /\ UNCHANGED <<freeHead, node>>
  /\ UNCHANGED <<reqHead, next, content, old, nxt, temp, sent, ran>>

EndOfWalk ==
  /\ pc[h] = "walk" /\ node[h].node = Invalid
  /\ Goto(h, "run")
  /\ UNCHANGED <<freeHead, reqHead, next, content, old, nxt, node, temp, sent, ran>>

\* The stack gave the newest first: the vector is run from its end.
NewestFirst(s) == s
RunOrder(s) == Reverse(s)

RunRequest ==
  /\ pc[h] = "run" /\ temp # <<>>
  /\ ran' = Append(ran, Head(RunOrder(temp)))
  /\ temp' = RunOrder(Tail(RunOrder(temp)))
  /\ UNCHANGED <<freeHead, reqHead, next, content, pc, old, nxt, node, sent>>

Done ==
  /\ pc[h] = "run" /\ temp = <<>>
  /\ Goto(h, "idle")
  /\ UNCHANGED <<freeHead, reqHead, next, content, old, nxt, node, temp, sent, ran>>

----------------------------------------------------------------------------
Produce(p) ==
  Call(p) \/ LoadFree(p) \/ ReadNext(p) \/ PopFree(p) \/ LinkRequest(p) \/ PushRequest(p)

Handle ==
  \/ LoadRequests \/ TakeRequests \/ TakeNode \/ LinkFree \/ FreeNode
  \/ EndOfWalk \/ RunRequest \/ Done

Next == (\E p \in Producer : Produce(p)) \/ Handle

Spec == Init /\ [][Next]_vars

----------------------------------------------------------------------------
\* The nodes reached from a head through links, first to last, at most Capacity
\* of them.
Chain(links, head) ==
  LET at[k \in Nat] == IF k = 0 THEN head.node
                       ELSE IF at[k - 1] = Invalid THEN Invalid
                       ELSE links[at[k - 1]].node
      ends == {k \in 0 .. Capacity : at[k] = Invalid}
  IN [k \in 1 .. Min(ends \cup {Capacity}) |-> at[k - 1]]

Contents(head) ==
  LET nodes == Chain(next, head) IN [k \in DOMAIN nodes |-> content[nodes[k]]]

\* What the handler has still to walk: in the middle of freeing a node the
\* rest of the list is reached from nxt.
Rest == IF pc[h] \in {"link", "free"} THEN nxt[h]
        ELSE IF pc[h] = "walk" THEN node[h] ELSE Nothing

\* The nodes a thread owns: in its hands and on no shared stack.
Owned(t) ==
  IF t = h THEN (IF pc[h] \in {"link", "free"} THEN <<node[h].node>> ELSE <<>>) \o Chain(next, Rest)
  ELSE IF pc[t] \in {"link", "push"} THEN <<node[t].node>> ELSE <<>>

\* The places a node can be in and the nodes in each.
Place == Thread \cup {"free", "requests"}
Holds(at) == CASE at = "free" -> Chain(next, freeHead)
               [] at = "requests" -> Chain(next, reqHead)
               [] OTHER -> Owned(at)

----------------------------------------------------------------------------
TypeOK ==
  /\ pc \in [Thread -> {"idle", "pop", "next", "take", "link", "push", "walk", "free", "run"}]
  /\ freeHead \in Ref /\ reqHead \in Ref
  /\ next \in [Node -> Ref]
  /\ content \in [Node -> Request \cup {Empty}]
  /\ old \in [Thread -> Ref] /\ nxt \in [Thread -> Ref] /\ node \in [Thread -> Ref]
  /\ temp \in Seq(Request) /\ ran \in Seq(Request)
  /\ sent \in [Producer -> 0 .. MaxPush]

\* Every node is in exactly one place: on the free stack, on the request
\* stack, or in the hands of one thread.  None leaks and none is handed out
\* twice, whatever a stale GetRequestNode read before its exchange.
EveryNodeHasOneOwner ==
  /\ \A n \in Node : Cardinality({at \in Place : n \in Range(Holds(at))}) = 1
  /\ \A at \in Place : IsInjective(Holds(at))

\* PushRequest and HandleRequests of any number of threads have the effect of
\* one atomic queue: accepted requests run once, in the order of acceptance.
Queue == INSTANCE RequestQueue WITH
  pending <- Reverse(Contents(reqHead)),
  batch   <- Reverse(temp \o Contents(Rest))

ImplementsRequestQueue == Queue!Spec

=============================================================================
