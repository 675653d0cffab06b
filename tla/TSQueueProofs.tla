---------------------------- MODULE TSQueueProofs ----------------------------
(***************************************************************************)
(* Theorems about TSQueue, for any threads, nodes and items, with and      *)
(* without reuse of the nodes.                                             *)
(***************************************************************************)
EXTENDS TSQueue, FiniteSetTheorems, SequenceTheorems, WellFoundedInduction, TLAPS

\* The threads that hold a node they have not linked yet, and those nodes.
Pushers == {t \in Threads : op[t] \in PushSteps \ {"finish", "count"}}
Held == {node[t] : t \in Pushers}

\* The threads that have taken the old dummy and not given it back yet.
Takers == {t \in Threads : op[t] \in {"uncount", "free"}}

\* The nodes that a push may take, and those that a chain may be made of.
Pool == unused \cup Range(freeNodes)
Live == linked \cup {head.pNode} \cup Held

\* Every node has one place.
Places ==
    /\ \A t \in Pushers : node[t] \in Nodes \ (linked \cup {head.pNode} \cup Pool)
    /\ \A t, u \in Pushers : node[t] = node[u] => t = u
    /\ \A t \in Takers : link[t].pNode \in Nodes \ (Live \cup Pool)
    /\ \A t, u \in Takers : link[t].pNode = link[u].pNode => t = u
    /\ head.pNode \notin linked \cup Pool
    /\ linked \cap Pool = {}
    /\ tail.pNode \in linked \cup {head.pNode}

\* The free list has each of its nodes once, and no new one.
PoolInv ==
    /\ \A i, j \in 1 .. Len(freeNodes) : freeNodes[i] = freeNodes[j] => i = j
    /\ unused \cap Range(freeNodes) = {}
    /\ ~Recycles => freeNodes = <<>>

\* Behind a live node is a linked one, which is behind no other, or nothing; any other
\* node is closed.
NextInv ==
    /\ \A n \in Live : next[n] \in linked \cup {End}
    /\ \A m, n \in Live : next[m] = next[n] /\ next[m] # End => m = n
    /\ \A n \in Nodes \ Live : next[n] # End

SameLink(a, b) == a.pNode = b.pNode /\ a.sequence = b.sequence

\* What a thread may conclude from a tail or a head that has the sequence it has read.
TailRead(t) == op[t] \in {"link", "next of tail", "help", "finish"}
HeadRead(t) == op[t] \in PopSteps \ {"headSequence", "headNode", "uncount", "free"}
NextRead(t) == op[t] \in {"recheck", "compare", "help pop", "elem", "swap"} /\ after[t] \in Nodes
OldTail(t) == [pNode |-> link[t].pNode, sequence |-> tailSeq[t]]

PushReads(t) ==
    /\ op[t] = "tailNode" => link[t].sequence <= tail.sequence
    /\ TailRead(t) =>
        /\ link[t].pNode \in Nodes /\ link[t].sequence <= tail.sequence
        /\ link[t].sequence = tail.sequence => link[t].pNode = tail.pNode
    /\ op[t] = "next of tail" /\ SameLink(link[t], tail) => next[tail.pNode] # End
    /\ op[t] = "help" /\ SameLink(link[t], tail) => after[t] = next[tail.pNode] /\ after[t] # End
    /\ op[t] = "finish" =>
        /\ node[t] \in Nodes
        /\ SameLink(link[t], tail) => next[tail.pNode] = node[t]

PopReads(t) ==
    /\ op[t] = "headNode" => link[t].sequence <= head.sequence
    /\ HeadRead(t) =>
        /\ link[t].pNode \in Nodes /\ link[t].sequence <= head.sequence
        /\ link[t].sequence = head.sequence => link[t].pNode = head.pNode
    /\ op[t] \in {"next of head", "recheck", "compare", "help pop"} => tailSeq[t] <= tail.sequence
    /\ NextRead(t) /\ SameLink(link[t], head) => next[head.pNode] = after[t]
    /\ op[t] \in {"recheck", "compare", "help pop"} /\ NextRead(t) /\ SameLink(OldTail(t), tail)
       => next[tail.pNode] = after[t]
    /\ op[t] = "compare" => after[t] # None
    /\ op[t] \in {"help pop", "elem", "swap"} => after[t] \in Nodes
    /\ op[t] \in {"elem", "swap"} /\ SameLink(link[t], head) => tail.pNode # head.pNode
    /\ op[t] = "swap" /\ SameLink(link[t], head) => item[t] = elem[after[t]]

\* All that threads have read, as far as they may rely on it.
Reads == \A t \in Threads : PushReads(t) /\ PopReads(t)

\* The part of the invariant that speaks of one node at a time.
Base == TypeOK /\ Places /\ PoolInv /\ NextInv /\ Reads

\* m_Count is off by the pushes that have linked and not counted yet, and by the pops
\* that have swapped the head and not counted yet.
Uncounted == {t \in Threads : op[t] \in {"finish", "count"}}
Overcounted == {t \in Threads : op[t] = "uncount"}
Counted ==
    /\ IsFiniteSet(Uncounted) /\ IsFiniteSet(Overcounted)
    /\ count = Cardinality(linked) - Cardinality(Uncounted) + Cardinality(Overcounted)

\* A pop is about to report an empty queue only if the queue was empty during its call.
Seen ==
    /\ \A t \in sawEmpty : Popping(t)
    /\ next[head.pNode] = End => \A t \in Threads : Popping(t) => t \in sawEmpty
    /\ \A t \in Threads : op[t] = "recheck" /\ after[t] = End /\ link[t].sequence = head.sequence
         => t \in sawEmpty
    /\ \A t \in Threads : op[t] = "compare" /\ after[t] = End => t \in sawEmpty

\* A queue without reuse: nobody remembers a tail that is still to be pushed.
Fresh == ~Recycles => \A t \in Threads : link[t].pNode \notin unused \cup Held

(***************************************************************************)
(* A reused node may be linked behind a node that is itself not linked yet *)
(* (the old tail came back by the free list), so there are private chains  *)
(* beside the queue.  root is the node that a push holds at the top of a   *)
(* private chain, or End for the chain of the queue; rank counts along a   *)
(* chain; older is what a node cannot be linked behind of.                 *)
(***************************************************************************)
Top(root, x) == IF root[x] = End THEN head.pNode ELSE root[x]

Shape(root, rank, older) ==
    /\ root[head.pNode] = End /\ root[tail.pNode] = End /\ \A n \in Held : root[n] = n
    /\ \A x \in Live : root[x] \in Held \cup {End} /\ rank[x] >= rank[Top(root, x)]
    /\ \A m \in Live : next[m] \in linked => root[next[m]] = root[m] /\ rank[next[m]] = rank[m] + 1
    /\ \A n \in linked : \E m \in Live : next[m] = n
    /\ \A x, y \in Live : root[x] = root[y] =>
        /\ rank[x] = rank[y] => x = y
        /\ next[y] = End => rank[x] <= rank[y]
    /\ \A x \in Nodes : x \notin older[x] /\ \A y \in older[x] : older[y] \subseteq older[x]
    /\ \A u \in Threads : op[u] = "link" /\ link[u].pNode \in Live /\ root[link[u].pNode] # End
        => node[u] \in older[root[link[u].pNode]]
    /\ ~Recycles => \A n \in linked : root[n] = End

Roots == [Nodes -> Nodes \cup {End}]
Ranks == [Nodes -> Int]
Olders == [Nodes -> SUBSET Nodes]

\* The chains are disjoint and lead nowhere else, whoever links a node where.
Shaped == \E root \in Roots, rank \in Ranks, older \in Olders : Shape(root, rank, older)

-----------------------------------------------------------------------------
(***************************************************************************)
(* Types.                                                                  *)
(***************************************************************************)

AllSteps == {"idle"} \cup PushSteps \cup PopSteps

LEMMA LinkFacts ==
  /\ NoLink \in Links
  /\ \A a, b \in Links : SameLink(a, b) <=> a = b
  /\ \A a \in Links : a.pNode \in Nodes \cup {None} /\ a.sequence \in Nat
  /\ \A n \in Nodes \cup {None}, k \in Nat : [pNode |-> n, sequence |-> k] \in Links
  BY DEF Links, NoLink, SameLink

LEMMA StepFacts ==
  /\ {"idle", "tailSequence", "tailNode", "link", "next of tail", "help", "finish", "count",
      "headSequence", "headNode", "tail sequence", "next of head", "recheck", "compare",
      "help pop", "elem", "swap", "uncount", "free"} = AllSteps
  BY DEF AllSteps, PushSteps, PopSteps

LEMMA TurnsTypes ==
  ASSUME TypeOK, NEW t \in Threads, NEW step \in AllSteps, Turns(t, step)
  PROVE  /\ op' \in [Threads -> AllSteps] /\ link' \in [Threads -> Links]
         /\ tailSeq' \in [Threads -> Nat] /\ after' \in [Threads -> Nodes \cup {End, None}]
  BY LinkFacts DEF Turns, Goes, TypeOK, AllSteps

LEMMA GoesTypes ==
  ASSUME TypeOK, NEW t \in Threads, NEW step \in AllSteps, Goes(t, step)
  PROVE  op' \in [Threads -> AllSteps]
  BY DEF Goes, TypeOK, AllSteps

\* A finished push leaves the tail where it is, or moves it to the node it was given.
LEMMA FinishPushFacts ==
  ASSUME TypeOK, NEW n, NEW old \in Links, FinishPush(n, old)
  PROVE  \/ ~SameLink(old, tail) /\ tail' = tail
         \/ /\ SameLink(old, tail) /\ tail' = [pNode |-> n, sequence |-> tail.sequence + 1]
            /\ tail'.pNode = n /\ tail'.sequence = tail.sequence + 1 /\ tail'.sequence > tail.sequence
            /\ n \in Nodes => tail' \in Links
  <1>1. tail \in Links /\ tail.sequence \in Nat BY LinkFacts DEF TypeOK
  <1>2. CASE SameLink(old, tail)
    <2>1. tail = old BY <1>1, <1>2, LinkFacts
    <2>2. tail' = [pNode |-> n, sequence |-> tail.sequence + 1] BY <2>1 DEF FinishPush
    <2>3. n \in Nodes => tail' \in Links BY <1>1, <2>2, LinkFacts
    <2>4. QED BY <1>1, <1>2, <2>2, <2>3
  <1>3. CASE ~SameLink(old, tail)
    <2>1. tail # old BY <1>1, <1>3, LinkFacts
    <2>2. QED BY <1>3, <2>1 DEF FinishPush
  <1>4. QED BY <1>2, <1>3

LEMMA FreeFacts ==
  ASSUME TypeOK, freeNodes # <<>>
  PROVE  Head(freeNodes) \in Nodes /\ Tail(freeNodes) \in Seq(Nodes)
  BY DEF TypeOK

LEMMA ReadsTypes ==
  ASSUME TypeOK, Reads, NEW t \in Threads
  PROVE  /\ TailRead(t) \/ HeadRead(t) => link[t].pNode \in Nodes
         /\ op[t] \in {"help pop", "elem", "swap"} => after[t] \in Nodes
         /\ op[t] = "finish" => node[t] \in Nodes
         /\ link[t] \in Links /\ OldTail(t) \in Links
         /\ link[t].pNode \in Nodes \cup {None} /\ link[t].sequence \in Nat
  <1>1. link[t] \in Links /\ tailSeq[t] \in Nat BY DEF TypeOK
  <1>2. link[t].pNode \in Nodes \cup {None} /\ link[t].sequence \in Nat BY <1>1, LinkFacts
  <1>3. OldTail(t) \in Links BY <1>1, <1>2, LinkFacts DEF OldTail
  <1>4. TailRead(t) \/ HeadRead(t) => link[t].pNode \in Nodes BY DEF Reads, PushReads, PopReads
  <1>5. op[t] \in {"help pop", "elem", "swap"} => after[t] \in Nodes BY DEF Reads, PopReads
  <1>6. op[t] = "finish" => node[t] \in Nodes BY DEF Reads, PushReads
  <1>7. QED BY <1>1, <1>2, <1>3, <1>4, <1>5, <1>6

LEMMA PushTypes ==
  ASSUME TypeOK, Reads, Places, NextInv, NEW t \in Threads, Notes
  PROVE  /\ \A e \in Items : PushItem(t, e) => TypeOK'
         /\ ReadTailSequence(t) \/ ReadTailNode(t) \/ LinkNode(t) \/ LinkFails(t)
            \/ ReadNextOfTail(t) \/ HelpPush(t) \/ FinishOwnPush(t) \/ CountPush(t) => TypeOK'
  <1> USE DEF TypeOK
  <1>0. {"idle", "tailSequence", "tailNode", "link", "next of tail", "help", "finish", "count"} \subseteq AllSteps
    BY StepFacts
  <1>s. sawEmpty' \subseteq Threads BY DEF Notes
  <1>1. ASSUME NEW step \in {"idle", "tailSequence", "tailNode", "link", "next of tail", "help", "finish", "count"},
               Goes(t, step)
        PROVE  op' \in [Threads -> {"idle"} \cup PushSteps \cup PopSteps]
    BY <1>0, <1>1, GoesTypes DEF AllSteps
  <1>2. ASSUME NEW step \in {"tailSequence", "count"}, Turns(t, step)
        PROVE  /\ op' \in [Threads -> {"idle"} \cup PushSteps \cup PopSteps] /\ link' \in [Threads -> Links]
               /\ tailSeq' \in [Threads -> Nat] /\ after' \in [Threads -> Nodes \cup {End, None}]
    BY <1>0, <1>2, TurnsTypes DEF AllSteps
  <1>3. ASSUME NEW e \in Items, PushItem(t, e) PROVE TypeOK'
    <2>1. PICK n \in Nodes :
            /\ IF freeNodes # <<>>
               THEN n = Head(freeNodes) /\ freeNodes' = Tail(freeNodes) /\ UNCHANGED unused
               ELSE n \in unused /\ unused' = unused \ {n} /\ UNCHANGED freeNodes
            /\ elem' = [elem EXCEPT ![n] = e]
            /\ next' = [next EXCEPT ![n] = End]
            /\ node' = [node EXCEPT ![t] = n]
      BY <1>3 DEF PushItem
    <2>2. freeNodes' \in Seq(Nodes) /\ unused' \subseteq Nodes BY <2>1, FreeFacts
    <2>3. op' \in [Threads -> {"idle"} \cup PushSteps \cup PopSteps] BY <1>1, <1>3 DEF PushItem
    <2>4. unsent' \subseteq Items /\ UNCHANGED <<head, tail, count, link, tailSeq, after, item, linked>>
      BY <1>3 DEF PushItem
    <2>5. elem' \in [Nodes -> Items \cup {None}] /\ next' \in [Nodes -> Nodes \cup {End, None}]
          /\ node' \in [Threads -> Nodes \cup {None}]
      BY <2>1
    <2>6. QED BY <1>s, <2>2, <2>3, <2>4, <2>5
  <1>4. ASSUME ReadTailSequence(t) PROVE TypeOK'
    <2>1. op' \in [Threads -> {"idle"} \cup PushSteps \cup PopSteps] BY <1>1, <1>4 DEF ReadTailSequence
    <2>2. [link[t] EXCEPT !.sequence = tail.sequence] \in Links BY DEF Links
    <2>3. link' \in [Threads -> Links] BY <1>4, <2>2 DEF ReadTailSequence
    <2>4. QED BY <1>s, <1>4, <2>1, <2>3 DEF ReadTailSequence, queue, history
  <1>5. ASSUME ReadTailNode(t) PROVE TypeOK'
    <2>1. op' \in [Threads -> {"idle"} \cup PushSteps \cup PopSteps] BY <1>1, <1>5 DEF ReadTailNode
    <2>2. [link[t] EXCEPT !.pNode = tail.pNode] \in Links BY DEF Links
    <2>3. link' \in [Threads -> Links] BY <1>5, <2>2 DEF ReadTailNode
    <2>4. QED BY <1>s, <1>5, <2>1, <2>3 DEF ReadTailNode, queue, history
  <1>6. ASSUME LinkNode(t) PROVE TypeOK'
    <2>1. op' \in [Threads -> {"idle"} \cup PushSteps \cup PopSteps] BY <1>1, <1>6 DEF LinkNode
    <2>2. node[t] \in Nodes BY <1>6 DEF LinkNode, Places, Pushers, PushSteps
    <2>3. next' \in [Nodes -> Nodes \cup {End, None}] /\ linked' \subseteq Nodes
      BY <1>6, <2>2 DEF LinkNode
    <2>4. QED BY <1>s, <1>6, <2>1, <2>3 DEF LinkNode
  <1>7. ASSUME LinkFails(t) PROVE TypeOK'
    <2>1. op' \in [Threads -> {"idle"} \cup PushSteps \cup PopSteps] BY <1>1, <1>7 DEF LinkFails
    <2>2. QED BY <1>s, <1>7, <2>1 DEF LinkFails, queue, history
  <1>8. ASSUME ReadNextOfTail(t) PROVE TypeOK'
    <2>1. op' \in [Threads -> {"idle"} \cup PushSteps \cup PopSteps] BY <1>1, <1>8 DEF ReadNextOfTail
    <2>2. link[t].pNode \in Nodes BY <1>8, ReadsTypes DEF ReadNextOfTail, TailRead
    <2>3. after' \in [Threads -> Nodes \cup {End, None}] BY <1>8, <2>2 DEF ReadNextOfTail
    <2>4. QED BY <1>s, <1>8, <2>1, <2>3 DEF ReadNextOfTail, queue, history
  <1>9. ASSUME HelpPush(t) PROVE TypeOK'
    <2>1. tail.pNode \in Live BY DEF Places, Live
    <2>2. SameLink(link[t], tail) => after[t] \in Nodes
      <3>1. ASSUME SameLink(link[t], tail) PROVE after[t] = next[tail.pNode] /\ after[t] # End
        BY <1>9, <3>1 DEF HelpPush, Reads, PushReads
      <3>2. next[tail.pNode] \in linked \cup {End} BY <2>1 DEF NextInv
      <3>3. QED BY <3>1, <3>2
    <2>3. tail' \in Links /\ tail'.pNode \in Nodes
      BY <1>9, <2>2, FinishPushFacts DEF HelpPush
    <2>4. QED BY <1>s, <1>2, <1>9, <2>3 DEF HelpPush, history
  <1>10. ASSUME FinishOwnPush(t) PROVE TypeOK'
    <2>1. node[t] \in Nodes BY <1>10, ReadsTypes DEF FinishOwnPush
    <2>2. tail' \in Links /\ tail'.pNode \in Nodes
      BY <1>10, <2>1, FinishPushFacts DEF FinishOwnPush
    <2>3. QED BY <1>s, <1>2, <1>10, <2>2 DEF FinishOwnPush, history
  <1>11. ASSUME CountPush(t) PROVE TypeOK'
    <2>1. op' \in [Threads -> {"idle"} \cup PushSteps \cup PopSteps] BY <1>1, <1>11 DEF CountPush
    <2>2. node' \in [Threads -> Nodes \cup {None}] /\ count' \in Int BY <1>11 DEF CountPush
    <2>3. QED BY <1>s, <1>11, <2>1, <2>2 DEF CountPush, history
  <1>12. QED BY <1>3, <1>4, <1>5, <1>6, <1>7, <1>8, <1>9, <1>10, <1>11

LEMMA PopTypes ==
  ASSUME TypeOK, Reads, Places, NextInv, NEW t \in Threads, Notes
  PROVE  /\ PopItem(t) \/ ReadHeadSequence(t) \/ ReadHeadNode(t) \/ ReadTailSequenceToPop(t)
            \/ ReadNextOfHead(t) \/ Recheck(t) \/ Compare(t) \/ HelpPop(t) \/ ReadElem(t) => TypeOK'
         /\ SwapHead(t) \/ SwapFails(t) \/ CountPop(t) \/ ReturnItem(t) => TypeOK'
  <1> USE DEF TypeOK
  <1>0. {"idle", "headSequence", "headNode", "tail sequence", "next of head", "recheck", "compare",
         "help pop", "elem", "swap", "uncount", "free"} \subseteq AllSteps
    BY StepFacts
  <1>s. sawEmpty' \subseteq Threads BY DEF Notes
  <1>1. ASSUME NEW step \in {"idle", "headSequence", "headNode", "tail sequence", "next of head", "recheck",
                             "compare", "help pop", "elem", "swap", "uncount", "free"},
               Goes(t, step)
        PROVE  op' \in [Threads -> {"idle"} \cup PushSteps \cup PopSteps]
    BY <1>0, <1>1, GoesTypes DEF AllSteps
  <1>2. ASSUME NEW step \in {"idle", "headSequence"}, Turns(t, step)
        PROVE  /\ op' \in [Threads -> {"idle"} \cup PushSteps \cup PopSteps] /\ link' \in [Threads -> Links]
               /\ tailSeq' \in [Threads -> Nat] /\ after' \in [Threads -> Nodes \cup {End, None}]
    BY <1>0, <1>2, TurnsTypes DEF AllSteps
  <1>3. ASSUME PopItem(t) PROVE TypeOK'
    <2>1. op' \in [Threads -> {"idle"} \cup PushSteps \cup PopSteps] BY <1>1, <1>3 DEF PopItem
    <2>2. QED BY <1>s, <1>3, <2>1 DEF PopItem, queue, history
  <1>4. ASSUME ReadHeadSequence(t) PROVE TypeOK'
    <2>1. op' \in [Threads -> {"idle"} \cup PushSteps \cup PopSteps] BY <1>1, <1>4 DEF ReadHeadSequence
    <2>2. [link[t] EXCEPT !.sequence = head.sequence] \in Links BY DEF Links
    <2>3. link' \in [Threads -> Links] BY <1>4, <2>2 DEF ReadHeadSequence
    <2>4. QED BY <1>s, <1>4, <2>1, <2>3 DEF ReadHeadSequence, queue, history
  <1>5. ASSUME ReadHeadNode(t) PROVE TypeOK'
    <2>1. op' \in [Threads -> {"idle"} \cup PushSteps \cup PopSteps] BY <1>1, <1>5 DEF ReadHeadNode
    <2>2. [link[t] EXCEPT !.pNode = head.pNode] \in Links BY DEF Links
    <2>3. link' \in [Threads -> Links] BY <1>5, <2>2 DEF ReadHeadNode
    <2>4. QED BY <1>s, <1>5, <2>1, <2>3 DEF ReadHeadNode, queue, history
  <1>6. ASSUME ReadTailSequenceToPop(t) PROVE TypeOK'
    <2>1. op' \in [Threads -> {"idle"} \cup PushSteps \cup PopSteps] BY <1>1, <1>6 DEF ReadTailSequenceToPop
    <2>2. tail.sequence \in Nat BY LinkFacts
    <2>3. tailSeq' \in [Threads -> Nat] BY <1>6, <2>2 DEF ReadTailSequenceToPop
    <2>4. QED BY <1>s, <1>6, <2>1, <2>3 DEF ReadTailSequenceToPop, queue, history
  <1>7. ASSUME ReadNextOfHead(t) PROVE TypeOK'
    <2>1. op' \in [Threads -> {"idle"} \cup PushSteps \cup PopSteps] BY <1>1, <1>7 DEF ReadNextOfHead
    <2>2. link[t].pNode \in Nodes BY <1>7, ReadsTypes DEF ReadNextOfHead, HeadRead, PopSteps
    <2>3. after' \in [Threads -> Nodes \cup {End, None}] BY <1>7, <2>2 DEF ReadNextOfHead
    <2>4. QED BY <1>s, <1>7, <2>1, <2>3 DEF ReadNextOfHead, queue, history
  <1>8. ASSUME Recheck(t) PROVE TypeOK'
    <2>1. \/ Goes(t, "compare") /\ UNCHANGED <<link, tailSeq, after>>
          \/ Turns(t, "headSequence")
      BY <1>8 DEF Recheck
    <2>2. /\ op' \in [Threads -> {"idle"} \cup PushSteps \cup PopSteps] /\ link' \in [Threads -> Links]
          /\ tailSeq' \in [Threads -> Nat] /\ after' \in [Threads -> Nodes \cup {End, None}]
      BY <1>1, <1>2, <2>1
    <2>3. QED BY <1>s, <1>8, <2>2 DEF Recheck, queue, history
  <1>9. ASSUME Compare(t) PROVE TypeOK'
    <2>1. \/ Goes(t, "help pop") /\ UNCHANGED <<link, tailSeq, after>>
          \/ Goes(t, "elem") /\ UNCHANGED <<link, tailSeq, after>>
          \/ Turns(t, "idle") \/ Turns(t, "headSequence")
      BY <1>9 DEF Compare
    <2>2. /\ op' \in [Threads -> {"idle"} \cup PushSteps \cup PopSteps] /\ link' \in [Threads -> Links]
          /\ tailSeq' \in [Threads -> Nat] /\ after' \in [Threads -> Nodes \cup {End, None}]
      BY <1>1, <1>2, <2>1
    <2>3. QED BY <1>s, <1>9, <2>2 DEF Compare, queue, history
  <1>10. ASSUME HelpPop(t) PROVE TypeOK'
    <2>1. after[t] \in Nodes /\ OldTail(t) \in Links BY <1>10, ReadsTypes DEF HelpPop
    <2>2. [link[t] EXCEPT !.sequence = tailSeq[t]] = OldTail(t) BY DEF OldTail, Links
    <2>3. tail' \in Links /\ tail'.pNode \in Nodes
      BY <1>10, <2>1, <2>2, FinishPushFacts DEF HelpPop
    <2>4. QED BY <1>s, <1>2, <1>10, <2>3 DEF HelpPop, history
  <1>11. ASSUME ReadElem(t) PROVE TypeOK'
    <2>1. op' \in [Threads -> {"idle"} \cup PushSteps \cup PopSteps] BY <1>1, <1>11 DEF ReadElem
    <2>2. after[t] \in Nodes BY <1>11, ReadsTypes DEF ReadElem
    <2>3. item' \in [Threads -> Items \cup {None}] BY <1>11, <2>2 DEF ReadElem
    <2>4. QED BY <1>s, <1>11, <2>1, <2>3 DEF ReadElem, queue, history
  <1>12. ASSUME SwapHead(t) PROVE TypeOK'
    <2>1. op' \in [Threads -> {"idle"} \cup PushSteps \cup PopSteps] BY <1>1, <1>12 DEF SwapHead
    <2>2. after[t] \in Nodes /\ link[t].sequence \in Nat BY <1>12, ReadsTypes DEF SwapHead
    <2>3. head' \in Links /\ head'.pNode \in Nodes /\ linked' \subseteq Nodes
      BY <1>12, <2>2 DEF SwapHead, Links
    <2>4. QED BY <1>s, <1>12, <2>1, <2>3 DEF SwapHead
  <1>13. ASSUME SwapFails(t) PROVE TypeOK'
    <2>1. item' \in [Threads -> Items \cup {None}] BY <1>13 DEF SwapFails
    <2>2. QED BY <1>s, <1>2, <1>13, <2>1 DEF SwapFails, queue, history
  <1>14. ASSUME CountPop(t) PROVE TypeOK'
    <2>1. op' \in [Threads -> {"idle"} \cup PushSteps \cup PopSteps] BY <1>1, <1>14 DEF CountPop
    <2>2. count' \in Int BY <1>14 DEF CountPop
    <2>3. QED BY <1>s, <1>14, <2>1, <2>2 DEF CountPop, history
  <1>15. ASSUME ReturnItem(t) PROVE TypeOK'
    <2>1. link[t].pNode \in Nodes BY <1>15 DEF ReturnItem, Places, Takers
    <2>2. FreeTop \in Nodes \cup {None} BY FreeFacts DEF FreeTop
    <2>3. <<link[t].pNode>> \o freeNodes \in Seq(Nodes) BY <2>1
    <2>4. next' \in [Nodes -> Nodes \cup {End, None}] /\ freeNodes' \in Seq(Nodes)
      BY <1>15, <2>1, <2>2, <2>3 DEF ReturnItem
    <2>5. elem' \in [Nodes -> Items \cup {None}] /\ item' \in [Threads -> Items \cup {None}]
      BY <1>15, <2>1 DEF ReturnItem
    <2>6. QED BY <1>s, <1>2, <1>15, <2>4, <2>5 DEF ReturnItem, history
  <1>16. QED BY <1>3, <1>4, <1>5, <1>6, <1>7, <1>8, <1>9, <1>10, <1>11, <1>12, <1>13, <1>14, <1>15

LEMMA TypeStep ==
  ASSUME Base, NEW t \in Threads, Calls(t) \/ Step(t), Notes
  PROVE  TypeOK'
  BY PushTypes, PopTypes DEF Base, Calls, Step

LEMMA TypeInit == Init => TypeOK
  <1> SUFFICES ASSUME Init PROVE TypeOK OBVIOUS
  <1>1. PICK dummy \in Nodes : head = [pNode |-> dummy, sequence |-> 0] /\ tail = head
          /\ next = [n \in Nodes |-> IF n = dummy THEN End ELSE None] /\ unused = Nodes \ {dummy}
    BY DEF Init
  <1>2. head \in Links /\ tail \in Links /\ {head.pNode, tail.pNode} \subseteq Nodes
    BY <1>1, LinkFacts
  <1>3. {"idle"} \cup PushSteps \cup PopSteps = AllSteps BY DEF AllSteps
  <1>4. QED BY <1>1, <1>2, <1>3, LinkFacts DEF Init, TypeOK
-----------------------------------------------------------------------------
(***************************************************************************)
(* What a step leaves alone.                                               *)
(***************************************************************************)

\* The other threads stay where they are.
Rest(t) == \A u \in Threads \ {t} :
    /\ op'[u] = op[u] /\ node'[u] = node[u] /\ link'[u] = link[u]
    /\ tailSeq'[u] = tailSeq[u] /\ after'[u] = after[u] /\ item'[u] = item[u]

LEMMA StepRest ==
  ASSUME TypeOK, NEW t \in Threads, Calls(t) \/ Step(t)
  PROVE  Rest(t)
  <1> USE DEF TypeOK, Rest, Goes, Turns
  <1>1. ASSUME NEW e \in Items, PushItem(t, e) PROVE Rest(t)
    <2>1. PICK n \in Nodes : node' = [node EXCEPT ![t] = n] BY <1>1 DEF PushItem
    <2>2. QED BY <1>1, <2>1 DEF PushItem
  <1>2. CASE PopItem(t) BY <1>2 DEF PopItem
  <1>3. CASE ReadTailSequence(t) \/ ReadTailNode(t) \/ LinkNode(t) \/ LinkFails(t)
    BY <1>3 DEF ReadTailSequence, ReadTailNode, LinkNode, LinkFails
  <1>4. CASE ReadNextOfTail(t) \/ HelpPush(t) \/ FinishOwnPush(t) \/ CountPush(t)
    BY <1>4 DEF ReadNextOfTail, HelpPush, FinishOwnPush, CountPush
  <1>5. CASE ReadHeadSequence(t) \/ ReadHeadNode(t) \/ ReadTailSequenceToPop(t) \/ ReadNextOfHead(t)
    BY <1>5 DEF ReadHeadSequence, ReadHeadNode, ReadTailSequenceToPop, ReadNextOfHead
  <1>6. CASE Recheck(t) BY <1>6 DEF Recheck
  <1>7. CASE Compare(t) BY <1>7 DEF Compare
  <1>8. CASE HelpPop(t) \/ ReadElem(t) \/ SwapHead(t) \/ SwapFails(t)
    BY <1>8 DEF HelpPop, ReadElem, SwapHead, SwapFails
  <1>9. CASE CountPop(t) \/ ReturnItem(t) BY <1>9 DEF CountPop, ReturnItem
  <1>10. QED BY <1>1, <1>2, <1>3, <1>4, <1>5, <1>6, <1>7, <1>8, <1>9 DEF Calls, Step

\* A quiet step takes no node from its place; it may move the tail on by one node.
Quiet(t) ==
    /\ UNCHANGED <<head, next, elem, freeNodes, unused, linked>>
    /\ (t \in Pushers)' <=> t \in Pushers
    /\ t \in Pushers => node'[t] = node[t]
    /\ (t \in Takers)' <=> t \in Takers
    /\ t \in Takers => link'[t] = link[t]
    /\ \/ tail' = tail
       \/ /\ tail'.pNode = next[tail.pNode] /\ tail'.pNode \in Nodes
          /\ tail'.sequence > tail.sequence

PushLoop(t) == ReadTailSequence(t) \/ ReadTailNode(t) \/ LinkFails(t) \/ ReadNextOfTail(t)
PopLoop(t) ==
    \/ PopItem(t) \/ ReadHeadSequence(t) \/ ReadHeadNode(t) \/ ReadTailSequenceToPop(t)
    \/ ReadNextOfHead(t) \/ Recheck(t) \/ Compare(t) \/ ReadElem(t) \/ SwapFails(t)
Finishes(t) == HelpPush(t) \/ FinishOwnPush(t) \/ HelpPop(t)
QuietStep(t) == PushLoop(t) \/ PopLoop(t) \/ Finishes(t) \/ CountPush(t) \/ CountPop(t)

LEMMA TailNext ==
  ASSUME Places, NextInv
  PROVE  tail.pNode \in Live /\ next[tail.pNode] \in linked \cup {End} /\ head.pNode \in Live
  BY DEF Places, NextInv, Live

\* A step that finishes a push moves the tail to the node behind it.
LEMMA FinishSteps ==
  ASSUME Base, NEW t \in Threads, Finishes(t)
  PROVE  \/ tail' = tail
         \/ /\ tail'.pNode = next[tail.pNode] /\ tail'.pNode \in Nodes
            /\ tail'.sequence > tail.sequence
  <1> USE DEF Base
  <1>1. CASE HelpPush(t)
    <2>1. SameLink(link[t], tail) => after[t] = next[tail.pNode] /\ after[t] # End
      BY <1>1 DEF HelpPush, Reads, PushReads
    <2>2. SameLink(link[t], tail) => after[t] \in Nodes BY <2>1, TailNext DEF TypeOK
    <2>3. QED BY <1>1, <2>1, <2>2, FinishPushFacts, ReadsTypes DEF HelpPush
  <1>2. CASE FinishOwnPush(t)
    <2>1. node[t] \in Nodes /\ (SameLink(link[t], tail) => next[tail.pNode] = node[t])
      BY <1>2 DEF FinishOwnPush, Reads, PushReads
    <2>2. QED BY <1>2, <2>1, FinishPushFacts, ReadsTypes DEF FinishOwnPush
  <1>3. CASE HelpPop(t)
    <2>1. after[t] \in Nodes /\ OldTail(t) \in Links BY <1>3, ReadsTypes DEF HelpPop
    <2>2. [link[t] EXCEPT !.sequence = tailSeq[t]] = OldTail(t) BY DEF OldTail, Links, TypeOK
    <2>3. SameLink(OldTail(t), tail) => next[tail.pNode] = after[t]
      BY <1>3, <2>1 DEF HelpPop, Reads, PopReads, NextRead
    <2>4. QED BY <1>3, <2>1, <2>2, <2>3, FinishPushFacts DEF HelpPop
  <1>4. QED BY <1>1, <1>2, <1>3 DEF Finishes

LEMMA QuietSteps ==
  ASSUME Base, NEW t \in Threads, QuietStep(t)
  PROVE  Quiet(t)
  <1> USE DEF Base, TypeOK, Goes, Turns, Pushers, Takers, PushSteps, queue, history
  <1>1. CASE PushLoop(t)
    BY <1>1 DEF PushLoop, ReadTailSequence, ReadTailNode, LinkFails, ReadNextOfTail, Quiet
  <1>2. CASE PopItem(t) \/ ReadHeadSequence(t) \/ ReadHeadNode(t) \/ ReadTailSequenceToPop(t)
    BY <1>2 DEF PopItem, ReadHeadSequence, ReadHeadNode, ReadTailSequenceToPop, Quiet
  <1>3. CASE ReadNextOfHead(t) \/ Recheck(t) \/ Compare(t)
    BY <1>3 DEF ReadNextOfHead, Recheck, Compare, Quiet
  <1>4. CASE ReadElem(t) \/ SwapFails(t)
    BY <1>4 DEF ReadElem, SwapFails, Quiet
  <1>5. CASE CountPush(t) \/ CountPop(t)
    BY <1>5 DEF CountPush, CountPop, Quiet
  <1>6. CASE Finishes(t)
    <2>1. UNCHANGED <<head, next, elem, freeNodes, unused, linked>>
      BY <1>6 DEF Finishes, HelpPush, FinishOwnPush, HelpPop
    <2>2. /\ (t \in Pushers)' <=> t \in Pushers
          /\ t \in Pushers => node'[t] = node[t]
          /\ (t \in Takers)' <=> t \in Takers
          /\ t \in Takers => link'[t] = link[t]
      BY <1>6 DEF Finishes, HelpPush, FinishOwnPush, HelpPop
    <2>3. QED BY <1>6, <2>1, <2>2, FinishSteps DEF Quiet
  <1>7. QED BY <1>1, <1>2, <1>3, <1>4, <1>5, <1>6 DEF QuietStep, PopLoop

\* What a step must not do to what others have read.
Steady ==
    /\ head' = head \/ head'.sequence > head.sequence
    /\ tail' = tail \/ tail'.sequence > tail.sequence
    /\ tail' = tail /\ next[tail.pNode] # End => next'[tail.pNode] = next[tail.pNode]
    /\ head' = head /\ next[head.pNode] # End => next'[head.pNode] = next[head.pNode]
    /\ head' = head /\ tail.pNode # head.pNode => tail'.pNode # head.pNode
    /\ head' = head /\ next[head.pNode] \in Nodes => elem'[next[head.pNode]] = elem[next[head.pNode]]

LEMMA QuietSets ==
  ASSUME Base, NEW t \in Threads, Quiet(t), Rest(t)
  PROVE  /\ Pushers' = Pushers /\ \A u \in Pushers : node'[u] = node[u]
         /\ Takers' = Takers /\ \A u \in Takers : link'[u] = link[u]
         /\ Held' = Held /\ Live' = Live /\ Pool' = Pool
  <1>1. Pushers' = Pushers BY DEF Quiet, Rest, Pushers
  <1>2. Takers' = Takers BY DEF Quiet, Rest, Takers
  <1>3. \A u \in Pushers : node'[u] = node[u] BY DEF Quiet, Rest, Pushers
  <1>4. \A u \in Takers : link'[u] = link[u] BY DEF Quiet, Rest, Takers
  <1>5. Held' = Held BY <1>1, <1>3 DEF Held
  <1>6. QED BY <1>1, <1>2, <1>3, <1>4, <1>5 DEF Quiet, Live, Pool

LEMMA QuietKeeps ==
  ASSUME Base, NEW t \in Threads, Quiet(t), Rest(t)
  PROVE  Places' /\ PoolInv' /\ NextInv' /\ Steady
  <1> USE DEF Base
  <1>1. UNCHANGED <<head, next, elem, freeNodes, unused, linked>> BY DEF Quiet
  <1>2. /\ Pushers' = Pushers /\ \A u \in Pushers : node'[u] = node[u]
        /\ Takers' = Takers /\ \A u \in Takers : link'[u] = link[u]
        /\ Live' = Live /\ Pool' = Pool
    BY QuietSets
  <1>3. tail' = tail \/ (tail'.pNode \in linked /\ tail'.sequence > tail.sequence)
    <2>1. End \notin Nodes BY QueueAssumption
    <2>2. QED BY <2>1, TailNext DEF Quiet
  <1>4. tail'.pNode \in linked \cup {head.pNode} BY <1>3 DEF Places
  <1>5. Places'
    <2>1. \A u \in Pushers' : node'[u] \in Nodes \ (linked' \cup {head'.pNode} \cup Pool')
      BY <1>1, <1>2 DEF Places
    <2>2. \A u, v \in Pushers' : node'[u] = node'[v] => u = v BY <1>2 DEF Places
    <2>3. \A u \in Takers' : link'[u].pNode \in Nodes \ (Live' \cup Pool') BY <1>2 DEF Places
    <2>4. \A u, v \in Takers' : link'[u].pNode = link'[v].pNode => u = v BY <1>2 DEF Places
    <2>5. QED BY <1>1, <1>2, <1>4, <2>1, <2>2, <2>3, <2>4 DEF Places
  <1>6. PoolInv' BY <1>1 DEF PoolInv
  <1>7. NextInv' BY <1>1, <1>2 DEF NextInv
  <1>8. Steady BY <1>1, <1>3 DEF Steady, Places
  <1>9. QED BY <1>5, <1>6, <1>7, <1>8
-----------------------------------------------------------------------------
(***************************************************************************)
(* The steps that move a node from one place to another.                   *)
(***************************************************************************)

\* A push takes a node of the pool, whose end is open.
Takes(t, n) ==
    /\ op[t] = "idle" /\ op'[t] = "tailSequence" /\ node'[t] = n /\ n \in Pool
    /\ UNCHANGED <<head, tail, linked, link>>
    /\ Pool' = Pool \ {n} /\ PoolInv' /\ unused' \subseteq unused
    /\ next'[n] = End /\ \A m \in Nodes \ {n} : next'[m] = next[m] /\ elem'[m] = elem[m]

LEMMA HeadOfPool ==
  ASSUME TypeOK, PoolInv, freeNodes # <<>>
  PROVE  /\ Head(freeNodes) \in Range(freeNodes)
         /\ Range(Tail(freeNodes)) = Range(freeNodes) \ {Head(freeNodes)}
         /\ \A i, j \in 1 .. Len(Tail(freeNodes)) : Tail(freeNodes)[i] = Tail(freeNodes)[j] => i = j
  <1> DEFINE s == freeNodes
  <1>1. s \in Seq(Nodes) /\ s # <<>> BY DEF TypeOK
  <1>2. Len(s) \in Nat /\ Len(s) > 0 /\ DOMAIN s = 1 .. Len(s) /\ Head(s) = s[1] BY <1>1
  <1>3. /\ Tail(s) \in Seq(Nodes) /\ Len(Tail(s)) = Len(s) - 1 /\ DOMAIN Tail(s) = 1 .. Len(s) - 1
        /\ \A i \in 1 .. Len(s) - 1 : Tail(s)[i] = s[i + 1]
    BY <1>1
  <1>4. \A i, j \in 1 .. Len(s) : s[i] = s[j] => i = j BY DEF PoolInv
  <1>5. Range(s) = {s[i] : i \in 1 .. Len(s)} BY <1>2 DEF Range
  <1>6. Range(Tail(s)) = {s[i + 1] : i \in 1 .. Len(s) - 1} BY <1>3 DEF Range
  <1> HIDE DEF s
  <1>7. Head(s) \in Range(s) BY <1>2, <1>5
  <1>8. Range(Tail(s)) = Range(s) \ {Head(s)}
    <2>1. ASSUME NEW x \in Range(Tail(s)) PROVE x \in Range(s) \ {Head(s)}
      <3>1. PICK i \in 1 .. Len(s) - 1 : x = s[i + 1] BY <1>6
      <3>2. i + 1 \in 1 .. Len(s) /\ i + 1 # 1 /\ 1 \in 1 .. Len(s) BY <1>2
      <3>3. QED BY <1>2, <1>4, <1>5, <3>1, <3>2
    <2>2. ASSUME NEW x \in Range(s) \ {Head(s)} PROVE x \in Range(Tail(s))
      <3>1. PICK i \in 1 .. Len(s) : x = s[i] BY <1>5
      <3>2. i # 1 BY <1>2, <3>1
      <3>3. i - 1 \in 1 .. Len(s) - 1 /\ i - 1 + 1 = i BY <1>2, <3>2
      <3>4. QED BY <1>6, <3>1, <3>3
    <2>3. QED BY <2>1, <2>2
  <1>9. ASSUME NEW i \in 1 .. Len(Tail(s)), NEW j \in 1 .. Len(Tail(s)), Tail(s)[i] = Tail(s)[j]
        PROVE  i = j
    <2>1. i + 1 \in 1 .. Len(s) /\ j + 1 \in 1 .. Len(s) /\ s[i + 1] = s[j + 1]
      BY <1>2, <1>3, <1>9
    <2>2. i + 1 = j + 1 BY <1>4, <2>1
    <2>3. QED BY <1>2, <1>3, <2>2
  <1>10. QED BY <1>7, <1>8, <1>9 DEF s

LEMMA PushTakes ==
  ASSUME Base, NEW t \in Threads, NEW e \in Items, PushItem(t, e)
  PROVE  \E n \in Nodes : Takes(t, n) /\ elem'[n] = e
  <1> USE DEF Base
  <1>1. PICK n \in Nodes :
          /\ IF freeNodes # <<>>
             THEN n = Head(freeNodes) /\ freeNodes' = Tail(freeNodes) /\ UNCHANGED unused
             ELSE n \in unused /\ unused' = unused \ {n} /\ UNCHANGED freeNodes
          /\ elem' = [elem EXCEPT ![n] = e]
          /\ next' = [next EXCEPT ![n] = End]
          /\ node' = [node EXCEPT ![t] = n]
    BY DEF PushItem
  <1>2. /\ op[t] = "idle" /\ op'[t] = "tailSequence" /\ node'[t] = n
        /\ UNCHANGED <<head, tail, linked, link>>
        /\ next'[n] = End /\ \A m \in Nodes \ {n} : next'[m] = next[m] /\ elem'[m] = elem[m]
        /\ elem'[n] = e
    BY <1>1 DEF PushItem, TypeOK, Goes
  <1>3. n \in Pool /\ Pool' = Pool \ {n} /\ PoolInv' /\ unused' \subseteq unused
    <2>1. CASE freeNodes # <<>>
      <3>1. n = Head(freeNodes) /\ freeNodes' = Tail(freeNodes) /\ unused' = unused BY <1>1, <2>1
      <3>2. n \in Range(freeNodes) /\ Range(freeNodes') = Range(freeNodes) \ {n} BY <2>1, <3>1, HeadOfPool
      <3>3. n \notin unused BY <3>2 DEF PoolInv
      <3>4. PoolInv' BY <2>1, <3>1, <3>2, HeadOfPool DEF PoolInv
      <3>5. QED BY <3>1, <3>2, <3>3, <3>4 DEF Pool
    <2>2. CASE freeNodes = <<>>
      <3>1. n \in unused /\ unused' = unused \ {n} /\ freeNodes' = freeNodes BY <1>1, <2>2
      <3>2. n \notin Range(freeNodes) BY <3>1 DEF PoolInv
      <3>3. QED BY <3>1, <3>2 DEF Pool, PoolInv
    <2>3. QED BY <2>1, <2>2
  <1>4. QED BY <1>2, <1>3 DEF Takes

LEMMA TakesSets ==
  ASSUME Base, NEW t \in Threads, NEW n \in Nodes, Takes(t, n), Rest(t)
  PROVE  /\ t \notin Pushers /\ Pushers' = Pushers \cup {t}
         /\ \A u \in Pushers : node'[u] = node[u]
         /\ Takers' = Takers /\ t \notin Takers
         /\ n \notin Live /\ Held' = Held \cup {n} /\ Live' = Live \cup {n}
  <1> USE DEF Base
  <1>1. t \notin Pushers /\ t \notin Takers BY DEF Takes, Pushers, Takers, PushSteps
  <1>2. Pushers' = Pushers \cup {t} BY DEF Takes, Pushers, PushSteps, Rest
  <1>3. Takers' = Takers BY DEF Takes, Takers, Rest
  <1>4. \A u \in Pushers : node'[u] = node[u] BY <1>1 DEF Rest, Pushers
  <1>5. Held' = Held \cup {n} BY <1>2, <1>4 DEF Held, Takes
  <1>6. n \notin Live BY DEF Takes, Places, Live, Held
  <1>7. Live' = Live \cup {n} BY <1>5 DEF Live, Takes
  <1>8. QED BY <1>1, <1>2, <1>3, <1>4, <1>5, <1>6, <1>7

LEMMA TakesKeeps ==
  ASSUME Base, NEW t \in Threads, NEW n \in Nodes, Takes(t, n), Rest(t)
  PROVE  Places' /\ PoolInv' /\ NextInv' /\ Steady
  <1> USE DEF Base
  <1>1. /\ t \notin Pushers /\ Pushers' = Pushers \cup {t} /\ node'[t] = n
        /\ \A u \in Pushers : node'[u] = node[u]
        /\ Takers' = Takers /\ link' = link
        /\ n \notin Live /\ Held' = Held \cup {n} /\ Live' = Live \cup {n}
        /\ Pool' = Pool \ {n} /\ n \in Pool /\ UNCHANGED <<head, tail, linked>>
    BY TakesSets DEF Takes
  <1>2. \A u \in Pushers : node[u] # n /\ node[u] \in Live BY <1>1 DEF Places, Live, Held
  <1>3. Places'
    <2>1. \A u \in Pushers' : node'[u] \in Nodes \ (linked' \cup {head'.pNode} \cup Pool')
      BY <1>1 DEF Places, Live
    <2>2. \A u, v \in Pushers' : node'[u] = node'[v] => u = v BY <1>1, <1>2 DEF Places
    <2>3. \A u \in Takers' : link'[u].pNode \in Nodes \ (Live' \cup Pool') BY <1>1 DEF Places
    <2>4. \A u, v \in Takers' : link'[u].pNode = link'[v].pNode => u = v BY <1>1 DEF Places
    <2>5. QED BY <1>1, <2>1, <2>2, <2>3, <2>4 DEF Places
  <1>4. next'[n] = End /\ \A m \in Nodes \ {n} : next'[m] = next[m] /\ elem'[m] = elem[m] BY DEF Takes
  <1>5. Live \subseteq Nodes BY DEF Live, Held, Places, TypeOK
  <1>6. NextInv'
    <2>1. \A m \in Live' : next'[m] \in linked' \cup {End} BY <1>1, <1>4, <1>5 DEF NextInv
    <2>2. \A k, m \in Live' : next'[k] = next'[m] /\ next'[k] # End => k = m
      BY <1>1, <1>4, <1>5 DEF NextInv
    <2>3. \A m \in Nodes \ Live' : next'[m] # End BY <1>1, <1>4 DEF NextInv
    <2>4. QED BY <2>1, <2>2, <2>3 DEF NextInv
  <1>7. Steady
    <2>1. tail.pNode \in Live /\ head.pNode \in Live /\ (next[head.pNode] \in linked \cup {End})
      BY TailNext DEF NextInv
    <2>2. End \notin Nodes BY QueueAssumption
    <2>3. next[head.pNode] \in Nodes => next[head.pNode] \in Nodes \ {n} BY <1>1, <2>1, <2>2 DEF Live
    <2>4. QED BY <1>1, <1>4, <1>5, <2>1, <2>3 DEF Steady
  <1>8. QED BY <1>3, <1>6, <1>7 DEF Takes

\* A push links its node behind a live node whose end is open.
Links_(t, m, n) ==
    /\ op[t] = "link" /\ op'[t] = "finish" /\ node[t] = n
    /\ m = link[t].pNode /\ m \in Live /\ next[m] = End
    /\ next'[m] = n /\ \A x \in Nodes \ {m} : next'[x] = next[x]
    /\ linked' = linked \cup {n}
    /\ UNCHANGED <<head, tail, elem, freeNodes, unused, node, link>>

LEMMA LinkLinks ==
  ASSUME Base, NEW t \in Threads, LinkNode(t)
  PROVE  \E m, n \in Nodes : Links_(t, m, n)
  <1> USE DEF Base
  <1>1. op[t] = "link" /\ link[t].pNode \in Nodes
    BY ReadsTypes DEF LinkNode, TailRead
  <1>2. t \in Pushers BY <1>1 DEF Pushers, PushSteps
  <1>3. node[t] \in Nodes BY <1>2 DEF Places
  <1>4. next[link[t].pNode] = End BY DEF LinkNode, TailIsLast
  <1>5. link[t].pNode \in Live BY <1>1, <1>4 DEF NextInv
  <1>6. Links_(t, link[t].pNode, node[t])
    BY <1>1, <1>3, <1>4, <1>5 DEF LinkNode, Links_, Goes, TypeOK
  <1>7. QED BY <1>1, <1>3, <1>6

LEMMA LinksSets ==
  ASSUME Base, NEW t \in Threads, NEW m \in Nodes, NEW n \in Nodes, Links_(t, m, n), Rest(t)
  PROVE  /\ t \in Pushers /\ Pushers' = Pushers \ {t} /\ node' = node
         /\ Takers' = Takers /\ link' = link /\ t \notin Takers
         /\ n \in Held /\ Held' = Held \ {n} /\ Live' = Live /\ Pool' = Pool
         /\ n \notin linked \cup {head.pNode} \cup Pool
  <1> USE DEF Base
  <1>1. t \in Pushers /\ t \notin Takers BY DEF Links_, Pushers, Takers, PushSteps
  <1>2. Pushers' = Pushers \ {t} BY DEF Links_, Pushers, PushSteps, Rest
  <1>3. Takers' = Takers BY DEF Links_, Takers, Rest
  <1>4. node' = node /\ link' = link BY DEF Links_
  <1>5. n \in Held /\ n = node[t] BY <1>1 DEF Held, Links_
  <1>6. Held' = Held \ {n} BY <1>1, <1>2, <1>4, <1>5 DEF Held, Places
  <1>7. Live' = Live BY <1>5, <1>6 DEF Live, Links_
  <1>8. Pool' = Pool BY DEF Links_, Pool
  <1>9. n \notin linked \cup {head.pNode} \cup Pool BY <1>1, <1>5 DEF Places
  <1>10. QED BY <1>1, <1>2, <1>3, <1>4, <1>5, <1>6, <1>7, <1>8, <1>9

LEMMA LinksKeeps ==
  ASSUME Base, NEW t \in Threads, NEW m \in Nodes, NEW n \in Nodes, Links_(t, m, n), Rest(t)
  PROVE  Places' /\ PoolInv' /\ NextInv' /\ Steady
  <1> USE DEF Base
  <1>1. /\ Pushers' = Pushers \ {t} /\ node' = node /\ t \in Pushers
        /\ Takers' = Takers /\ link' = link
        /\ n \in Held /\ Live' = Live /\ Pool' = Pool
        /\ n \notin linked \cup {head.pNode} \cup Pool
    BY LinksSets
  <1>2. /\ UNCHANGED <<head, tail, elem, freeNodes, unused>> /\ linked' = linked \cup {n} /\ n = node[t]
        /\ m \in Live /\ next[m] = End /\ next'[m] = n /\ \A x \in Nodes \ {m} : next'[x] = next[x]
    BY DEF Links_
  <1>3. Live \subseteq Nodes BY DEF Live, Held, Places, TypeOK
  <1>4. End \notin Nodes BY QueueAssumption
  <1>5. Places'
    <2>1. \A u \in Pushers' : node'[u] \in Nodes \ (linked' \cup {head'.pNode} \cup Pool')
      BY <1>1, <1>2 DEF Places
    <2>2. \A u, v \in Pushers' : node'[u] = node'[v] => u = v BY <1>1 DEF Places
    <2>3. \A u \in Takers' : link'[u].pNode \in Nodes \ (Live' \cup Pool') BY <1>1 DEF Places
    <2>4. \A u, v \in Takers' : link'[u].pNode = link'[v].pNode => u = v BY <1>1 DEF Places
    <2>5. head'.pNode \notin linked' \cup Pool' /\ linked' \cap Pool' = {}
          /\ tail'.pNode \in linked' \cup {head'.pNode}
      BY <1>1, <1>2 DEF Places
    <2>6. QED BY <2>1, <2>2, <2>3, <2>4, <2>5 DEF Places
  <1>6. PoolInv' BY <1>2 DEF PoolInv
  <1>7. NextInv'
    <2>1. \A x \in Live' : next'[x] \in linked' \cup {End} BY <1>1, <1>2, <1>3 DEF NextInv
    <2>2. \A x \in Live : next[x] # n BY <1>1, <1>4 DEF NextInv
    <2>3. \A x, y \in Live' : next'[x] = next'[y] /\ next'[x] # End => x = y
      BY <1>1, <1>2, <1>3, <2>2 DEF NextInv
    <2>4. \A x \in Nodes \ Live' : next'[x] # End BY <1>1, <1>2 DEF NextInv
    <2>5. QED BY <2>1, <2>3, <2>4 DEF NextInv
  <1>8. Steady BY <1>2, <1>3, TailNext DEF Steady
  <1>9. QED BY <1>5, <1>6, <1>7, <1>8

\* A pop moves the head on to the node behind it and keeps the old one.
Swaps(t, h, a) ==
    /\ op[t] = "swap" /\ op'[t] = "uncount" /\ link[t].pNode = h /\ link[t] = head /\ after[t] = a
    /\ h = head.pNode /\ next[h] = a /\ a \in linked /\ item[t] = elem[a] /\ tail.pNode # h
    /\ head'.pNode = a /\ head'.sequence = head.sequence + 1 /\ head'.sequence > head.sequence
    /\ linked' = linked \ {a}
    /\ UNCHANGED <<tail, next, elem, freeNodes, unused, node, link>>

LEMMA SwapSwaps ==
  ASSUME Base, NEW t \in Threads, SwapHead(t)
  PROVE  \E h, a \in Nodes : Swaps(t, h, a)
  <1> USE DEF Base
  <1>1. op[t] = "swap" /\ head = link[t] BY DEF SwapHead, HeadIs
  <1>2. SameLink(link[t], head) /\ NextRead(t) /\ after[t] \in Nodes
    BY <1>1, ReadsTypes DEF SameLink, NextRead
  <1>3. next[head.pNode] = after[t] /\ item[t] = elem[after[t]] /\ tail.pNode # head.pNode
    BY <1>1, <1>2 DEF Reads, PopReads
  <1>4. End \notin Nodes BY QueueAssumption
  <1>5. after[t] \in linked /\ head.pNode \in Nodes BY <1>2, <1>3, <1>4, TailNext DEF NextInv, TypeOK
  <1>6. head'.pNode = after[t] /\ head'.sequence = head.sequence + 1 /\ head'.sequence > head.sequence
    BY <1>1, LinkFacts DEF SwapHead, TypeOK
  <1>7. Swaps(t, head.pNode, after[t])
    BY <1>1, <1>3, <1>5, <1>6 DEF SwapHead, Swaps, Goes, TypeOK
  <1>8. QED BY <1>2, <1>5, <1>7

LEMMA SwapsSets ==
  ASSUME Base, NEW t \in Threads, NEW h \in Nodes, NEW a \in Nodes, Swaps(t, h, a), Rest(t)
  PROVE  /\ Pushers' = Pushers /\ node' = node /\ t \notin Pushers
         /\ t \notin Takers /\ Takers' = Takers \cup {t} /\ link' = link
         /\ h \notin linked \cup Held \cup Pool /\ h \in Live /\ a \notin Held
         /\ Held' = Held /\ Live' = Live \ {h} /\ Pool' = Pool
         /\ \A u \in Takers : link[u].pNode # h
  <1> USE DEF Base
  <1>1. t \notin Pushers /\ t \notin Takers BY DEF Swaps, Pushers, Takers, PushSteps
  <1>2. Pushers' = Pushers BY DEF Swaps, Pushers, PushSteps, Rest
  <1>3. Takers' = Takers \cup {t} BY DEF Swaps, Takers, Rest
  <1>4. node' = node /\ link' = link BY DEF Swaps
  <1>5. Held' = Held BY <1>2, <1>4 DEF Held
  <1>6. h \notin linked \cup Held \cup Pool /\ a \notin Held BY DEF Swaps, Places, Held
  <1>7. h \in Live BY DEF Swaps, Live
  <1>8. Live' = Live \ {h} BY <1>5, <1>6 DEF Live, Swaps
  <1>9. Pool' = Pool BY DEF Swaps, Pool
  <1>10. \A u \in Takers : link[u].pNode # h BY <1>7 DEF Places
  <1>11. QED BY <1>1, <1>2, <1>3, <1>4, <1>5, <1>6, <1>7, <1>8, <1>9, <1>10

LEMMA SwapsKeeps ==
  ASSUME Base, NEW t \in Threads, NEW h \in Nodes, NEW a \in Nodes, Swaps(t, h, a), Rest(t)
  PROVE  Places' /\ PoolInv' /\ NextInv' /\ Steady
  <1> USE DEF Base
  <1>1. /\ Pushers' = Pushers /\ node' = node
        /\ Takers' = Takers \cup {t} /\ link' = link
        /\ h \notin linked \cup Held \cup Pool /\ h \in Live /\ a \notin Held
        /\ Live' = Live \ {h} /\ Pool' = Pool
        /\ \A u \in Takers : link[u].pNode # h
    BY SwapsSets
  <1>2. /\ link[t].pNode = h /\ h = head.pNode /\ next[h] = a /\ a \in linked /\ tail.pNode # h
        /\ head'.pNode = a /\ head'.sequence > head.sequence
        /\ linked' = linked \ {a}
        /\ UNCHANGED <<tail, next, elem, freeNodes, unused>>
    BY DEF Swaps
  <1>4. End \notin Nodes BY QueueAssumption
  <1>5. Places'
    <2>1. \A u \in Pushers' : node'[u] \in Nodes \ (linked' \cup {head'.pNode} \cup Pool')
      BY <1>1, <1>2 DEF Places
    <2>2. \A u, v \in Pushers' : node'[u] = node'[v] => u = v BY <1>1 DEF Places
    <2>3. \A u \in Takers' : link'[u].pNode \in Nodes \ (Live' \cup Pool') BY <1>1, <1>2 DEF Places
    <2>4. \A u, v \in Takers' : link'[u].pNode = link'[v].pNode => u = v BY <1>1, <1>2 DEF Places
    <2>5. head'.pNode \notin linked' \cup Pool' /\ linked' \cap Pool' = {}
          /\ tail'.pNode \in linked' \cup {head'.pNode}
      BY <1>1, <1>2 DEF Places
    <2>6. QED BY <2>1, <2>2, <2>3, <2>4, <2>5 DEF Places
  <1>6. PoolInv' BY <1>2 DEF PoolInv
  <1>7. NextInv'
    <2>1. \A x \in Live \ {h} : next[x] # a BY <1>1, <1>2, <1>4 DEF NextInv, TypeOK
    <2>2. \A x \in Live' : next'[x] \in linked' \cup {End} BY <1>1, <1>2, <2>1 DEF NextInv
    <2>3. \A x, y \in Live' : next'[x] = next'[y] /\ next'[x] # End => x = y
      BY <1>1, <1>2 DEF NextInv
    <2>4. \A x \in Nodes \ Live' : next'[x] # End
      <3>1. \A x \in linked : x # End BY <1>4 DEF TypeOK
      <3>2. QED BY <1>1, <1>2, <3>1 DEF NextInv
    <2>5. QED BY <2>2, <2>3, <2>4 DEF NextInv
  <1>8. Steady BY <1>2 DEF Steady
  <1>9. QED BY <1>5, <1>6, <1>7, <1>8

\* The old dummy goes to the free list, if there is one: its end stays closed.
Gives(t, h) ==
    /\ op[t] = "free" /\ op'[t] = "idle" /\ h = link[t].pNode
    /\ UNCHANGED <<head, tail, unused, linked, node>>
    /\ Pool' = (IF Recycles THEN Pool \cup {h} ELSE Pool) /\ PoolInv'
    /\ next'[h] # End /\ \A x \in Nodes \ {h} : next'[x] = next[x] /\ elem'[x] = elem[x]

LEMMA ConsOfPool ==
  ASSUME TypeOK, PoolInv, NEW h \in Nodes, h \notin Pool
  PROVE  LET s == <<h>> \o freeNodes
         IN  /\ Range(s) = Range(freeNodes) \cup {h}
             /\ \A i, j \in 1 .. Len(s) : s[i] = s[j] => i = j
  <1> DEFINE f == freeNodes
             s == <<h>> \o f
  <1>1. f \in Seq(Nodes) /\ Len(f) \in Nat /\ DOMAIN f = 1 .. Len(f) BY DEF TypeOK
  <1>2. /\ s \in Seq(Nodes) /\ Len(s) = Len(f) + 1 /\ DOMAIN s = 1 .. Len(f) + 1
        /\ s[1] = h /\ \A i \in 2 .. Len(f) + 1 : s[i] = f[i - 1]
    BY <1>1
  <1>3. \A i, j \in 1 .. Len(f) : f[i] = f[j] => i = j BY DEF PoolInv
  <1>4. Range(f) = {f[i] : i \in 1 .. Len(f)} BY <1>1 DEF Range
  <1>5. Range(s) = {s[i] : i \in 1 .. Len(f) + 1} BY <1>2 DEF Range
  <1>6. h \notin Range(f) BY DEF Pool
  <1> HIDE DEF f, s
  <1>7. Range(s) = Range(f) \cup {h}
    <2>1. ASSUME NEW x \in Range(s) PROVE x \in Range(f) \cup {h}
      <3>1. PICK i \in 1 .. Len(f) + 1 : x = s[i] BY <1>5
      <3>2. i = 1 \/ i \in 2 .. Len(f) + 1 BY <1>1
      <3>3. i \in 2 .. Len(f) + 1 => i - 1 \in 1 .. Len(f) BY <1>1
      <3>4. QED BY <1>2, <1>4, <3>1, <3>2, <3>3
    <2>2. ASSUME NEW x \in Range(f) PROVE x \in Range(s)
      <3>1. PICK i \in 1 .. Len(f) : x = f[i] BY <1>4
      <3>2. i + 1 \in 2 .. Len(f) + 1 /\ i + 1 \in 1 .. Len(f) + 1 /\ i + 1 - 1 = i BY <1>1
      <3>3. s[i + 1] = f[i] BY <1>2, <3>2
      <3>4. QED BY <1>5, <3>1, <3>2, <3>3
    <2>3. h \in Range(s)
      <3>1. 1 \in 1 .. Len(f) + 1 BY <1>1
      <3>2. QED BY <1>2, <1>5, <3>1
    <2>4. QED BY <2>1, <2>2, <2>3
  <1>8. ASSUME NEW i \in 1 .. Len(s), NEW j \in 1 .. Len(s), s[i] = s[j]
        PROVE  i = j
    <2>1. ASSUME NEW k \in 1 .. Len(s) PROVE k = 1 \/ (k \in 2 .. Len(f) + 1 /\ k - 1 \in 1 .. Len(f))
      BY <1>1, <1>2
    <2>2. \A k \in 1 .. Len(f) : f[k] # h BY <1>4, <1>6
    <2>3. CASE i = 1 BY <1>2, <1>8, <2>1, <2>2, <2>3
    <2>4. CASE j = 1 BY <1>2, <1>8, <2>1, <2>2, <2>4
    <2>5. CASE i # 1 /\ j # 1
      <3>1. i - 1 \in 1 .. Len(f) /\ j - 1 \in 1 .. Len(f) /\ f[i - 1] = f[j - 1]
        BY <1>2, <1>8, <2>1, <2>5
      <3>2. i - 1 = j - 1 BY <1>3, <3>1
      <3>3. QED BY <1>1, <1>2, <3>2
    <2>6. QED BY <2>3, <2>4, <2>5
  <1>9. QED BY <1>7, <1>8 DEF s, f

LEMMA ReturnGives ==
  ASSUME Base, NEW t \in Threads, ReturnItem(t)
  PROVE  \E h \in Nodes : Gives(t, h)
  <1> USE DEF Base
  <1> DEFINE h == link[t].pNode
  <1>1. op[t] = "free" /\ t \in Takers BY DEF ReturnItem, Takers
  <1>2. h \in Nodes \ (Live \cup Pool) BY <1>1 DEF Places
  <1>3. op'[t] = "idle" /\ UNCHANGED <<head, tail, unused, linked, node>>
    BY DEF ReturnItem, Turns, Goes, history, TypeOK
  <1>4. \A x \in Nodes \ {h} : next'[x] = next[x] /\ elem'[x] = elem[x]
    BY DEF ReturnItem, TypeOK
  <1>5. next'[h] # End
    <2>1. CASE Recycles
      <3>1. FreeTop \in Nodes \cup {None} BY FreeFacts DEF FreeTop
      <3>2. next'[h] = FreeTop BY <1>2, <2>1 DEF ReturnItem, TypeOK
      <3>3. QED BY <3>1, <3>2, QueueAssumption
    <2>2. CASE ~Recycles
      <3>1. next' = next BY <2>2 DEF ReturnItem
      <3>2. QED BY <1>2, <3>1 DEF NextInv
    <2>3. QED BY <2>1, <2>2
  <1>6. Pool' = (IF Recycles THEN Pool \cup {h} ELSE Pool) /\ PoolInv'
    <2>1. CASE Recycles
      <3>1. freeNodes' = <<h>> \o freeNodes BY <2>1 DEF ReturnItem
      <3>2. Range(freeNodes') = Range(freeNodes) \cup {h}
        BY <1>2, <3>1, ConsOfPool
      <3>3. \A i, j \in 1 .. Len(freeNodes') : freeNodes'[i] = freeNodes'[j] => i = j
        BY <1>2, <3>1, ConsOfPool
      <3>4. unused' \cap Range(freeNodes') = {} BY <1>2, <1>3, <3>2 DEF PoolInv, Pool
      <3>5. QED BY <1>3, <2>1, <3>2, <3>3, <3>4 DEF Pool, PoolInv
    <2>2. CASE ~Recycles
      <3>1. freeNodes' = freeNodes BY <2>2 DEF ReturnItem
      <3>2. QED BY <1>3, <2>2, <3>1 DEF Pool, PoolInv
    <2>3. QED BY <2>1, <2>2
  <1>7. Gives(t, h) BY <1>1, <1>3, <1>4, <1>5, <1>6 DEF Gives
  <1>8. QED BY <1>2, <1>7

LEMMA GivesSets ==
  ASSUME Base, NEW t \in Threads, NEW h \in Nodes, Gives(t, h), Rest(t)
  PROVE  /\ Pushers' = Pushers /\ node' = node /\ t \notin Pushers
         /\ t \in Takers /\ Takers' = Takers \ {t} /\ \A u \in Takers \ {t} : link'[u] = link[u]
         /\ h \notin Live \cup Pool /\ Held' = Held /\ Live' = Live /\ Pool' \subseteq Pool \cup {h}
         /\ \A u \in Takers \ {t} : link[u].pNode # h
  <1> USE DEF Base
  <1>1. t \notin Pushers /\ t \in Takers BY DEF Gives, Pushers, Takers, PushSteps
  <1>2. Pushers' = Pushers BY DEF Gives, Pushers, PushSteps, Rest
  <1>3. Takers' = Takers \ {t} BY DEF Gives, Takers, Rest
  <1>4. node' = node BY DEF Gives
  <1>5. Held' = Held BY <1>2, <1>4 DEF Held
  <1>6. Live' = Live BY <1>5 DEF Live, Gives
  <1>7. h \notin Live \cup Pool BY <1>1 DEF Gives, Places
  <1>8. \A u \in Takers \ {t} : link'[u] = link[u] BY DEF Rest, Takers
  <1>9. \A u \in Takers \ {t} : link[u].pNode # h BY <1>1 DEF Places, Gives
  <1>10. Pool' \subseteq Pool \cup {h} BY DEF Gives
  <1>11. QED BY <1>1, <1>2, <1>3, <1>4, <1>5, <1>6, <1>7, <1>8, <1>9, <1>10

LEMMA GivesKeeps ==
  ASSUME Base, NEW t \in Threads, NEW h \in Nodes, Gives(t, h), Rest(t)
  PROVE  Places' /\ PoolInv' /\ NextInv' /\ Steady
  <1> USE DEF Base
  <1>1. /\ Pushers' = Pushers /\ node' = node
        /\ Takers' = Takers \ {t} /\ \A u \in Takers \ {t} : link'[u] = link[u]
        /\ h \notin Live \cup Pool /\ Live' = Live /\ Pool' \subseteq Pool \cup {h}
        /\ \A u \in Takers \ {t} : link[u].pNode # h
    BY GivesSets
  <1>2. /\ UNCHANGED <<head, tail, unused, linked, node>>
        /\ next'[h] # End /\ \A x \in Nodes \ {h} : next'[x] = next[x] /\ elem'[x] = elem[x]
    BY DEF Gives
  <1>3. Live \subseteq Nodes BY DEF Live, Held, Places, TypeOK
  <1>4. End \notin Nodes BY QueueAssumption
  <1>5. Places'
    <2>1. \A u \in Pushers' : node'[u] \in Nodes \ (linked' \cup {head'.pNode} \cup Pool')
      <3>1. \A u \in Pushers : node[u] # h BY <1>1 DEF Live, Held
      <3>2. QED BY <1>1, <1>2, <3>1 DEF Places
    <2>2. \A u, v \in Pushers' : node'[u] = node'[v] => u = v BY <1>1 DEF Places
    <2>3. \A u \in Takers' : link'[u].pNode \in Nodes \ (Live' \cup Pool') BY <1>1, <1>2 DEF Places
    <2>4. \A u, v \in Takers' : link'[u].pNode = link'[v].pNode => u = v BY <1>1, <1>2 DEF Places
    <2>5. head'.pNode \notin linked' \cup Pool' /\ linked' \cap Pool' = {}
          /\ tail'.pNode \in linked' \cup {head'.pNode}
      BY <1>1, <1>2 DEF Places, Live
    <2>6. QED BY <2>1, <2>2, <2>3, <2>4, <2>5 DEF Places
  <1>6. PoolInv' BY DEF Gives
  <1>7. NextInv'
    <2>1. \A x \in Live : next'[x] = next[x] BY <1>1, <1>2, <1>3
    <2>2. \A x \in Nodes \ Live' : next'[x] # End BY <1>1, <1>2 DEF NextInv
    <2>3. QED BY <1>1, <1>2, <2>1, <2>2 DEF NextInv
  <1>8. Steady
    <2>1. tail.pNode \in Live /\ head.pNode \in Live /\ next[head.pNode] \in linked \cup {End}
      BY TailNext DEF NextInv
    <2>2. next[head.pNode] \in Nodes => next[head.pNode] \in Live BY <1>4, <2>1 DEF Live
    <2>3. QED BY <1>1, <1>2, <1>3, <2>1, <2>2 DEF Steady
  <1>9. QED BY <1>5, <1>6, <1>7, <1>8

-----------------------------------------------------------------------------
(***************************************************************************)
(* What the threads have read.                                             *)
(***************************************************************************)

\* What another thread has read stays true, or its comparison will fail.
LEMMA ReadsOthers ==
  ASSUME Base, TypeOK', Places', NextInv', Steady, NEW t \in Threads, Rest(t), NEW u \in Threads \ {t}
  PROVE  PushReads(u)' /\ PopReads(u)'
  <1> USE DEF Base
  <1>1. /\ op'[u] = op[u] /\ node'[u] = node[u] /\ link'[u] = link[u]
        /\ tailSeq'[u] = tailSeq[u] /\ after'[u] = after[u] /\ item'[u] = item[u]
    BY DEF Rest
  <1>2. PushReads(u) /\ PopReads(u) BY DEF Reads
  <1>3. /\ tail.sequence \in Nat /\ tail'.sequence \in Nat /\ head.sequence \in Nat /\ head'.sequence \in Nat
        /\ link[u].sequence \in Nat /\ tailSeq[u] \in Nat
    BY LinkFacts DEF TypeOK
  <1>4. /\ tail.sequence <= tail'.sequence /\ (tail'.sequence <= tail.sequence => tail' = tail)
        /\ link[u].sequence <= tail.sequence => link[u].sequence <= tail'.sequence
        /\ tailSeq[u] <= tail.sequence => tailSeq[u] <= tail'.sequence
    <2>1. CASE tail' = tail BY <1>3, <2>1
    <2>2. CASE tail' # tail
      <3>1. tail'.sequence > tail.sequence BY <2>2 DEF Steady
      <3>2. QED BY <1>3, <3>1
    <2>3. QED BY <2>1, <2>2
  <1>5. /\ head.sequence <= head'.sequence /\ (head'.sequence <= head.sequence => head' = head)
        /\ link[u].sequence <= head.sequence => link[u].sequence <= head'.sequence
    <2>1. CASE head' = head BY <1>3, <2>1
    <2>2. CASE head' # head
      <3>1. head'.sequence > head.sequence BY <2>2 DEF Steady
      <3>2. QED BY <1>3, <3>1
    <2>3. QED BY <2>1, <2>2
  <1>6. TailRead(u)' <=> TailRead(u) BY <1>1 DEF TailRead
  <1>7. HeadRead(u)' <=> HeadRead(u) BY <1>1 DEF HeadRead
  <1>8. NextRead(u)' <=> NextRead(u) BY <1>1 DEF NextRead
  <1>9. OldTail(u)' = OldTail(u) /\ OldTail(u).sequence = tailSeq[u] BY <1>1 DEF OldTail
  <1>10. End \notin Nodes BY QueueAssumption
  <1>11. PushReads(u)'
    <2>1. op'[u] = "tailNode" => link'[u].sequence <= tail'.sequence
      BY <1>1, <1>2, <1>3, <1>4 DEF PushReads
    <2>2. TailRead(u)' =>
            /\ link'[u].pNode \in Nodes /\ link'[u].sequence <= tail'.sequence
            /\ link'[u].sequence = tail'.sequence => link'[u].pNode = tail'.pNode
      <3>1. SUFFICES ASSUME TailRead(u)
                     PROVE  /\ link[u].pNode \in Nodes /\ link[u].sequence <= tail'.sequence
                            /\ link[u].sequence = tail'.sequence => link[u].pNode = tail'.pNode
        BY <1>1, <1>6
      <3>2. /\ link[u].pNode \in Nodes /\ link[u].sequence <= tail.sequence
            /\ link[u].sequence = tail.sequence => link[u].pNode = tail.pNode
        BY <1>2, <3>1 DEF PushReads
      <3>3. link[u].sequence = tail'.sequence => tail' = tail BY <1>4, <3>2
      <3>4. QED BY <1>4, <3>2, <3>3
    <2>3. TailRead(u) /\ SameLink(link[u], tail') => tail' = tail /\ SameLink(link[u], tail)
      <3>1. TailRead(u) => link[u].sequence <= tail.sequence BY <1>2 DEF PushReads
      <3>2. QED BY <1>4, <3>1 DEF SameLink
    <2>4. op'[u] = "next of tail" /\ SameLink(link'[u], tail') => next'[tail'.pNode] # End
      BY <1>1, <1>2, <2>3 DEF PushReads, Steady, TailRead
    <2>5. op'[u] = "help" /\ SameLink(link'[u], tail') => after'[u] = next'[tail'.pNode] /\ after'[u] # End
      BY <1>1, <1>2, <2>3 DEF PushReads, Steady, TailRead
    <2>6. op'[u] = "finish" =>
            /\ node'[u] \in Nodes
            /\ SameLink(link'[u], tail') => next'[tail'.pNode] = node'[u]
      BY <1>1, <1>2, <1>10, <2>3 DEF PushReads, Steady, TailRead
    <2>7. QED BY <2>1, <2>2, <2>4, <2>5, <2>6 DEF PushReads, SameLink, TailRead
  <1>12. PopReads(u)'
    <2>1. op'[u] = "headNode" => link'[u].sequence <= head'.sequence
      BY <1>1, <1>2, <1>3, <1>5 DEF PopReads
    <2>2. HeadRead(u)' =>
            /\ link'[u].pNode \in Nodes /\ link'[u].sequence <= head'.sequence
            /\ link'[u].sequence = head'.sequence => link'[u].pNode = head'.pNode
      <3>1. SUFFICES ASSUME HeadRead(u)
                     PROVE  /\ link[u].pNode \in Nodes /\ link[u].sequence <= head'.sequence
                            /\ link[u].sequence = head'.sequence => link[u].pNode = head'.pNode
        BY <1>1, <1>7
      <3>2. /\ link[u].pNode \in Nodes /\ link[u].sequence <= head.sequence
            /\ link[u].sequence = head.sequence => link[u].pNode = head.pNode
        BY <1>2, <3>1 DEF PopReads
      <3>3. link[u].sequence = head'.sequence => head' = head BY <1>5, <3>2
      <3>4. QED BY <1>5, <3>2, <3>3
    <2>3. op'[u] \in {"next of head", "recheck", "compare", "help pop"} => tailSeq'[u] <= tail'.sequence
      <3>1. op[u] \in {"next of head", "recheck", "compare", "help pop"} => tailSeq[u] <= tail.sequence
        BY <1>2 DEF PopReads
      <3>2. QED BY <1>1, <1>4, <3>1
    <2>4. HeadRead(u) /\ SameLink(link[u], head') => head' = head /\ SameLink(link[u], head)
      <3>1. HeadRead(u) => link[u].sequence <= head.sequence BY <1>2 DEF PopReads
      <3>2. QED BY <1>5, <3>1 DEF SameLink
    <2>5. op[u] \in {"recheck", "compare", "help pop"} /\ SameLink(OldTail(u), tail')
          => tail' = tail /\ SameLink(OldTail(u), tail)
      <3>1. op[u] \in {"recheck", "compare", "help pop"} => tailSeq[u] <= tail.sequence BY <1>2 DEF PopReads
      <3>2. QED BY <1>4, <1>9, <3>1 DEF SameLink
    <2>6. NextRead(u) => HeadRead(u) BY DEF NextRead, HeadRead, PopSteps
    <2>7. NextRead(u)' /\ SameLink(link'[u], head') => next'[head'.pNode] = after'[u]
      <3>1. SUFFICES ASSUME NextRead(u), SameLink(link[u], head') PROVE next'[head'.pNode] = after[u]
        BY <1>1, <1>8
      <3>2. head' = head /\ SameLink(link[u], head) BY <2>4, <2>6, <3>1
      <3>3. next[head.pNode] = after[u] /\ after[u] # End BY <1>2, <1>10, <3>1, <3>2 DEF PopReads, NextRead
      <3>4. QED BY <3>2, <3>3 DEF Steady
    <2>8. op'[u] \in {"recheck", "compare", "help pop"} /\ NextRead(u)' /\ SameLink(OldTail(u)', tail')
          => next'[tail'.pNode] = after'[u]
      <3>1. SUFFICES ASSUME op[u] \in {"recheck", "compare", "help pop"}, NextRead(u), SameLink(OldTail(u), tail')
                     PROVE next'[tail'.pNode] = after[u]
        BY <1>1, <1>8, <1>9
      <3>2. tail' = tail /\ SameLink(OldTail(u), tail) BY <2>5, <3>1
      <3>3. next[tail.pNode] = after[u] /\ after[u] # End BY <1>2, <1>10, <3>1, <3>2 DEF PopReads, NextRead
      <3>4. QED BY <3>2, <3>3 DEF Steady
    <2>9. op'[u] = "compare" => after'[u] # None BY <1>1, <1>2 DEF PopReads
    <2>10. op'[u] \in {"help pop", "elem", "swap"} => after'[u] \in Nodes BY <1>1, <1>2 DEF PopReads
    <2>11. op'[u] \in {"elem", "swap"} /\ SameLink(link'[u], head') => tail'.pNode # head'.pNode
      <3>1. SUFFICES ASSUME op[u] \in {"elem", "swap"}, SameLink(link[u], head') PROVE tail'.pNode # head'.pNode
        BY <1>1
      <3>2. head' = head /\ SameLink(link[u], head) BY <2>4, <3>1 DEF HeadRead, PopSteps
      <3>3. QED BY <1>2, <3>1, <3>2 DEF PopReads, Steady
    <2>12. op'[u] = "swap" /\ SameLink(link'[u], head') => item'[u] = elem'[after'[u]]
      <3>1. SUFFICES ASSUME op[u] = "swap", SameLink(link[u], head') PROVE item[u] = elem'[after[u]]
        BY <1>1
      <3>2. head' = head /\ SameLink(link[u], head) BY <2>4, <3>1 DEF HeadRead, PopSteps
      <3>3. after[u] \in Nodes /\ item[u] = elem[after[u]] BY <1>2, <3>1, <3>2 DEF PopReads
      <3>4. next[head.pNode] = after[u] BY <1>2, <3>1, <3>2, <3>3 DEF PopReads, NextRead
      <3>5. QED BY <3>2, <3>3, <3>4 DEF Steady
    <2>13. QED
      BY <2>1, <2>2, <2>3, <2>7, <2>8, <2>9, <2>10, <2>11, <2>12
         DEF PopReads, SameLink, HeadRead, NextRead, OldTail
  <1>13. QED BY <1>11, <1>12

\* A thread between two turns has read nothing.
LEMMA NothingRead ==
  ASSUME NEW t \in Threads,
         op'[t] \in {"idle", "tailSequence", "count", "headSequence", "uncount", "free"}
  PROVE  PushReads(t)' /\ PopReads(t)'
  <1>1. ~TailRead(t)' /\ ~HeadRead(t)' BY DEF TailRead, HeadRead, PopSteps
  <1>2. PushReads(t)' BY <1>1 DEF PushReads
  <1>3. PopReads(t)' BY <1>1 DEF PopReads, NextRead
  <1>4. QED BY <1>2, <1>3

LEMMA PushReadsOwn ==
  ASSUME Base, NEW t \in Threads,
         \/ ReadTailSequence(t) \/ ReadTailNode(t) \/ LinkNode(t) \/ LinkFails(t)
         \/ ReadNextOfTail(t) \/ HelpPush(t) \/ FinishOwnPush(t) \/ CountPush(t)
         \/ \E e \in Items : PushItem(t, e)
  PROVE  PushReads(t)' /\ PopReads(t)'
  <1> USE DEF Base
  <1>1. ASSUME op'[t] \in {"tailNode", "link", "next of tail", "help", "finish"} PROVE PopReads(t)'
    <2>1. ~HeadRead(t)' BY <1>1 DEF HeadRead, PopSteps
    <2>2. QED BY <1>1, <2>1 DEF PopReads, NextRead
  <1>2. PushReads(t) BY DEF Reads
  <1>3. tail.sequence \in Nat /\ link[t].sequence \in Nat /\ link[t] \in Links BY LinkFacts DEF TypeOK
  <1>4. CASE ReadTailSequence(t)
    <2>1. op'[t] = "tailNode" /\ link'[t].sequence = tail.sequence /\ tail' = tail
      BY <1>3, <1>4 DEF ReadTailSequence, Goes, TypeOK, queue, Links
    <2>2. PushReads(t)' BY <1>3, <2>1 DEF PushReads, TailRead
    <2>3. QED BY <1>1, <2>1, <2>2
  <1>5. CASE ReadTailNode(t)
    <2>1. op[t] = "tailNode" /\ op'[t] = "link" /\ tail' = tail
          /\ link'[t].sequence = link[t].sequence /\ link'[t].pNode = tail.pNode
      BY <1>3, <1>5 DEF ReadTailNode, Goes, TypeOK, queue, Links
    <2>2. link[t].sequence <= tail.sequence /\ tail.pNode \in Nodes BY <1>2, <2>1 DEF PushReads, TypeOK
    <2>3. PushReads(t)' BY <2>1, <2>2 DEF PushReads, TailRead
    <2>4. QED BY <1>1, <2>1, <2>3
  <1>6. CASE LinkNode(t)
    <2>1. PICK m, n \in Nodes : Links_(t, m, n) BY <1>6, LinkLinks
    <2>2. op[t] = "link" /\ op'[t] = "finish" /\ m = link[t].pNode /\ node'[t] = n /\ next'[m] = n
          /\ tail' = tail /\ link' = link
      BY <2>1 DEF Links_
    <2>3. /\ link[t].pNode \in Nodes /\ link[t].sequence <= tail.sequence
          /\ link[t].sequence = tail.sequence => link[t].pNode = tail.pNode
      BY <1>2, <2>2 DEF PushReads, TailRead
    <2>4. PushReads(t)' BY <2>2, <2>3 DEF PushReads, TailRead, SameLink
    <2>5. QED BY <1>1, <2>2, <2>4
  <1>7. CASE LinkFails(t)
    <2>1. op[t] = "link" /\ op'[t] = "next of tail" /\ tail' = tail /\ link' = link /\ next' = next
          /\ next[link[t].pNode] # End
      BY <1>7 DEF LinkFails, Goes, TypeOK, queue, TailIsLast
    <2>2. /\ link[t].pNode \in Nodes /\ link[t].sequence <= tail.sequence
          /\ link[t].sequence = tail.sequence => link[t].pNode = tail.pNode
      BY <1>2, <2>1 DEF PushReads, TailRead
    <2>3. PushReads(t)' BY <2>1, <2>2 DEF PushReads, TailRead, SameLink
    <2>4. QED BY <1>1, <2>1, <2>3
  <1>8. CASE ReadNextOfTail(t)
    <2>1. op[t] = "next of tail" /\ op'[t] = "help" /\ tail' = tail /\ link' = link /\ next' = next
          /\ after'[t] = next[link[t].pNode]
      BY <1>8 DEF ReadNextOfTail, Goes, TypeOK, queue
    <2>2. /\ link[t].pNode \in Nodes /\ link[t].sequence <= tail.sequence
          /\ link[t].sequence = tail.sequence => link[t].pNode = tail.pNode
          /\ SameLink(link[t], tail) => next[tail.pNode] # End
      BY <1>2, <2>1 DEF PushReads, TailRead
    <2>3. PushReads(t)' BY <2>1, <2>2 DEF PushReads, TailRead, SameLink
    <2>4. QED BY <1>1, <2>1, <2>3
  <1>9. CASE HelpPush(t) \/ FinishOwnPush(t) \/ CountPush(t)
    <2>1. op'[t] \in {"idle", "tailSequence", "count"}
      BY <1>9 DEF HelpPush, FinishOwnPush, CountPush, Turns, Goes, TypeOK
    <2>2. QED BY <2>1, NothingRead
  <1>10. CASE \E e \in Items : PushItem(t, e)
    <2>1. op'[t] = "tailSequence" BY <1>10 DEF PushItem, Goes, TypeOK
    <2>2. QED BY <2>1, NothingRead
  <1>11. QED BY <1>4, <1>5, <1>6, <1>7, <1>8, <1>9, <1>10

LEMMA PopReadsOwn ==
  ASSUME Base, NEW t \in Threads,
         \/ PopItem(t) \/ ReadHeadSequence(t) \/ ReadHeadNode(t) \/ ReadTailSequenceToPop(t)
         \/ ReadNextOfHead(t) \/ Recheck(t) \/ Compare(t) \/ HelpPop(t) \/ ReadElem(t)
         \/ SwapHead(t) \/ SwapFails(t) \/ CountPop(t) \/ ReturnItem(t)
  PROVE  PushReads(t)' /\ PopReads(t)'
  <1> USE DEF Base
  <1>1. ASSUME op'[t] \in {"headNode", "tail sequence", "next of head", "recheck", "compare", "help pop",
                           "elem", "swap"}
        PROVE PushReads(t)'
    <2>1. ~TailRead(t)' BY <1>1 DEF TailRead
    <2>2. QED BY <1>1, <2>1 DEF PushReads
  <1>2. PopReads(t) BY DEF Reads
  <1>3. head.sequence \in Nat /\ tail.sequence \in Nat /\ link[t].sequence \in Nat /\ link[t] \in Links
    BY LinkFacts DEF TypeOK
  <1>4. CASE ReadHeadSequence(t)
    <2>1. op'[t] = "headNode" /\ link'[t].sequence = head.sequence /\ head' = head
      BY <1>3, <1>4 DEF ReadHeadSequence, Goes, TypeOK, queue, Links
    <2>2. PopReads(t)' BY <1>3, <2>1 DEF PopReads, HeadRead, NextRead
    <2>3. QED BY <1>1, <2>1, <2>2
  <1>5. CASE ReadHeadNode(t)
    <2>1. op[t] = "headNode" /\ op'[t] = "tail sequence" /\ head' = head
          /\ link'[t].sequence = link[t].sequence /\ link'[t].pNode = head.pNode
      BY <1>3, <1>5 DEF ReadHeadNode, Goes, TypeOK, queue, Links
    <2>2. link[t].sequence <= head.sequence /\ head.pNode \in Nodes BY <1>2, <2>1 DEF PopReads, TypeOK
    <2>3. PopReads(t)' BY <2>1, <2>2 DEF PopReads, HeadRead, NextRead
    <2>4. QED BY <1>1, <2>1, <2>3
  <1>h. op[t] \in {"tail sequence", "next of head", "recheck", "compare", "help pop", "elem", "swap"} =>
            /\ link[t].pNode \in Nodes /\ link[t].sequence <= head.sequence
            /\ link[t].sequence = head.sequence => link[t].pNode = head.pNode
    BY <1>2 DEF PopReads, HeadRead, PopSteps
  <1>6. CASE ReadTailSequenceToPop(t)
    <2>1. op[t] = "tail sequence" /\ op'[t] = "next of head" /\ tailSeq'[t] = tail.sequence
          /\ UNCHANGED <<head, tail, link>>
      BY <1>6 DEF ReadTailSequenceToPop, Goes, TypeOK, queue
    <2>2. tailSeq'[t] <= tail'.sequence /\ ~NextRead(t)'
      <3>1. tail'.sequence = tail.sequence /\ tailSeq'[t] = tail.sequence BY <2>1
      <3>2. tailSeq'[t] <= tail'.sequence BY <1>3, <3>1
      <3>3. ~NextRead(t)' BY <2>1 DEF NextRead
      <3>4. QED BY <3>2, <3>3
    <2>3. /\ link'[t].pNode \in Nodes /\ link'[t].sequence <= head'.sequence
          /\ link'[t].sequence = head'.sequence => link'[t].pNode = head'.pNode
      BY <1>h, <2>1
    <2>4. PopReads(t)' BY <2>1, <2>2, <2>3 DEF PopReads
    <2>5. QED BY <1>1, <2>1, <2>4
  <1>7. CASE ReadNextOfHead(t)
    <2>1. op[t] = "next of head" /\ op'[t] = "recheck" /\ after'[t] = next[link[t].pNode]
          /\ UNCHANGED <<head, tail, next, link, tailSeq>>
      BY <1>7 DEF ReadNextOfHead, Goes, TypeOK, queue
    <2>2. tailSeq[t] <= tail.sequence BY <1>2, <2>1 DEF PopReads
    <2>3. PopReads(t)' BY <1>h, <2>1, <2>2 DEF PopReads, HeadRead, NextRead, SameLink, OldTail
    <2>4. QED BY <1>1, <2>1, <2>3
  <1>n. op[t] \in {"recheck", "compare", "elem", "swap"} /\ after[t] \in Nodes /\ SameLink(link[t], head)
        => next[head.pNode] = after[t]
    BY <1>2 DEF PopReads, NextRead
  <1>8. CASE Recheck(t)
    <2>1. CASE HeadStands(t)
      <3>1. op[t] = "recheck" /\ op'[t] = "compare" /\ after[t] # None
            /\ UNCHANGED <<head, tail, next, link, tailSeq, after>>
        BY <1>8, <2>1 DEF Recheck, Goes, TypeOK, queue, HeadStands
      <3>2. tailSeq[t] <= tail.sequence BY <1>2, <3>1 DEF PopReads
      <3>3. after[t] \in Nodes /\ SameLink(OldTail(t), tail) => next[tail.pNode] = after[t]
        BY <1>2, <3>1 DEF PopReads, NextRead
      <3>4. OldTail(t)' = OldTail(t) BY <3>1 DEF OldTail
      <3>5. PopReads(t)' BY <1>h, <1>n, <3>1, <3>2, <3>3, <3>4 DEF PopReads, HeadRead, NextRead, SameLink
      <3>6. QED BY <1>1, <3>1, <3>5
    <2>2. CASE ~HeadStands(t)
      <3>1. op'[t] = "headSequence" BY <1>8, <2>2 DEF Recheck, Turns, Goes, TypeOK
      <3>2. QED BY <3>1, NothingRead
    <2>3. QED BY <2>1, <2>2
  <1>9. CASE Compare(t)
    <2>1. CASE after[t] = End
      <3>1. op'[t] \in {"idle", "headSequence"} BY <1>9, <2>1 DEF Compare, Turns, Goes, TypeOK
      <3>2. QED BY <3>1, NothingRead
    <2>2. CASE after[t] # End
      <3>1. op[t] = "compare" /\ op'[t] = (IF AtTail(t) THEN "help pop" ELSE "elem")
            /\ UNCHANGED <<head, tail, next, link, tailSeq, after>>
        BY <1>9, <2>2 DEF Compare, Goes, TypeOK, queue
      <3>2. tailSeq[t] <= tail.sequence /\ after[t] # None BY <1>2, <3>1 DEF PopReads
      <3>3. after[t] \in Nodes BY <2>2, <3>2 DEF TypeOK
      <3>4. SameLink(OldTail(t), tail) => next[tail.pNode] = after[t]
        BY <1>2, <3>1, <3>3 DEF PopReads, NextRead
      <3>5. OldTail(t)' = OldTail(t) BY <3>1 DEF OldTail
      <3>6. op'[t] = "elem" /\ SameLink(link[t], head) => tail.pNode # head.pNode
        BY <3>1 DEF AtTail, SameLink
      <3>7. PopReads(t)'
        BY <1>h, <1>n, <3>1, <3>2, <3>3, <3>4, <3>5, <3>6 DEF PopReads, HeadRead, NextRead, SameLink
      <3>8. QED BY <1>1, <3>1, <3>7
    <2>3. QED BY <2>1, <2>2
  <1>10. CASE ReadElem(t)
    <2>1. op[t] = "elem" /\ op'[t] = "swap" /\ item'[t] = elem[after[t]]
          /\ UNCHANGED <<head, tail, next, elem, link, tailSeq, after>>
      BY <1>10 DEF ReadElem, Goes, TypeOK, queue
    <2>2. after[t] \in Nodes /\ (SameLink(link[t], head) => tail.pNode # head.pNode)
      BY <1>2, <2>1 DEF PopReads
    <2>3. PopReads(t)' BY <1>h, <1>n, <2>1, <2>2 DEF PopReads, HeadRead, NextRead, SameLink
    <2>4. QED BY <1>1, <2>1, <2>3
  <1>11. CASE PopItem(t) \/ HelpPop(t) \/ SwapHead(t) \/ SwapFails(t) \/ CountPop(t) \/ ReturnItem(t)
    <2>1. op'[t] \in {"idle", "headSequence", "uncount", "free"}
      BY <1>11 DEF PopItem, HelpPop, SwapHead, SwapFails, CountPop, ReturnItem, Turns, Goes, TypeOK
    <2>2. QED BY <2>1, NothingRead
  <1>12. QED BY <1>4, <1>5, <1>6, <1>7, <1>8, <1>9, <1>10, <1>11

-----------------------------------------------------------------------------
(***************************************************************************)
(* The invariant.                                                          *)
(***************************************************************************)

LEMMA InitBase ==
  ASSUME Init
  PROVE  Base /\ Held = {} /\ Pushers = {} /\ Takers = {}
  <1>1. PICK dummy \in Nodes :
          /\ head = [pNode |-> dummy, sequence |-> 0] /\ tail = head
          /\ next = [n \in Nodes |-> IF n = dummy THEN End ELSE None]
          /\ unused = Nodes \ {dummy}
    BY DEF Init
  <1>2. freeNodes = <<>> /\ op = [t \in Threads |-> "idle"] /\ linked = {} BY DEF Init
  <1>3. head.pNode = dummy /\ tail.pNode = dummy BY <1>1
  <1>4. Pushers = {} /\ Takers = {} /\ Held = {} BY <1>2 DEF Pushers, Takers, Held, PushSteps
  <1>5. Live = {dummy} BY <1>2, <1>3, <1>4 DEF Live
  <1>6. Range(freeNodes) = {} /\ Pool = Nodes \ {dummy} BY <1>1, <1>2 DEF Range, Pool
  <1>7. Places BY <1>2, <1>3, <1>4, <1>6 DEF Places
  <1>8. PoolInv BY <1>2, <1>6 DEF PoolInv
  <1>9. NextInv BY <1>1, <1>5, QueueAssumption DEF NextInv
  <1>10. Reads
    <2>1. ASSUME NEW t \in Threads PROVE PushReads(t) /\ PopReads(t)
      <3>1. op[t] = "idle" BY <1>2
      <3>2. ~TailRead(t) /\ ~HeadRead(t) BY <3>1 DEF TailRead, HeadRead, PopSteps
      <3>3. QED BY <3>1, <3>2 DEF PushReads, PopReads, NextRead
    <2>2. QED BY <2>1 DEF Reads
  <1>11. QED BY <1>4, <1>7, <1>8, <1>9, <1>10, TypeInit DEF Base

\* One lemma for every step: its kind, and what it keeps.
LEMMA StepKinds ==
  ASSUME Base, NEW t \in Threads, Calls(t) \/ Step(t)
  PROVE  \/ Quiet(t)
         \/ \E n \in Nodes : Takes(t, n)
         \/ \E m, n \in Nodes : Links_(t, m, n)
         \/ \E h, a \in Nodes : Swaps(t, h, a)
         \/ \E h \in Nodes : Gives(t, h)
  <1>1. CASE QuietStep(t) BY <1>1, QuietSteps
  <1>2. ASSUME NEW e \in Items, PushItem(t, e) PROVE \E n \in Nodes : Takes(t, n) BY <1>2, PushTakes
  <1>3. CASE LinkNode(t) BY <1>3, LinkLinks
  <1>4. CASE SwapHead(t) BY <1>4, SwapSwaps
  <1>5. CASE ReturnItem(t) BY <1>5, ReturnGives
  <1>6. QED BY <1>1, <1>2, <1>3, <1>4, <1>5 DEF Calls, Step, QuietStep, PushLoop, PopLoop, Finishes

LEMMA BaseStep ==
  ASSUME Base, NEW t \in Threads, Calls(t) \/ Step(t), Notes
  PROVE  Base'
  <1> USE DEF Base
  <1>1. Rest(t) BY StepRest
  <1>2. Places' /\ PoolInv' /\ NextInv' /\ Steady
    BY <1>1, StepKinds, QuietKeeps, TakesKeeps, LinksKeeps, SwapsKeeps, GivesKeeps
  <1>3. TypeOK' BY TypeStep DEF Next
  <1>4. PushReads(t)' /\ PopReads(t)' BY PushReadsOwn, PopReadsOwn DEF Calls, Step
  <1>5. ASSUME NEW u \in Threads PROVE PushReads(u)' /\ PopReads(u)'
    <2>1. CASE u = t BY <1>4, <2>1
    <2>2. CASE u # t BY <1>1, <1>2, <1>3, <2>2, ReadsOthers
    <2>3. QED BY <2>1, <2>2
  <1>6. Reads' BY <1>5 DEF Reads
  <1>7. QED BY <1>2, <1>3, <1>6

LEMMA BaseStutter ==
  ASSUME Base, UNCHANGED vars
  PROVE  Base'
  <1>1. UNCHANGED <<head, tail, count, next, elem, freeNodes, unused, op, node, link, tailSeq, after, item,
                    unsent, linked, sawEmpty>>
    BY DEF vars, queue, locals, history
  <1>2. Pushers' = Pushers /\ Takers' = Takers BY <1>1 DEF Pushers, Takers
  <1>3. Held' = Held BY <1>1, <1>2 DEF Held
  <1>4. Live' = Live /\ Pool' = Pool BY <1>1, <1>3 DEF Live, Pool
  <1>5. TypeOK' BY <1>1 DEF Base, TypeOK
  <1>6. Places' BY <1>1, <1>2, <1>4 DEF Base, Places
  <1>7. PoolInv' BY <1>1 DEF Base, PoolInv
  <1>8. NextInv' BY <1>1, <1>4 DEF Base, NextInv
  <1>9. ASSUME NEW u \in Threads PROVE PushReads(u)' /\ PopReads(u)'
    <2>1. PushReads(u) /\ PopReads(u) BY DEF Base, Reads
    <2>2. PushReads(u)' BY <1>1, <2>1 DEF PushReads, TailRead, SameLink
    <2>3. PopReads(u)' BY <1>1, <2>1 DEF PopReads, HeadRead, NextRead, SameLink, OldTail
    <2>4. QED BY <2>2, <2>3
  <1>10. Reads' BY <1>9 DEF Reads
  <1>11. QED BY <1>5, <1>6, <1>7, <1>8, <1>10 DEF Base

\* Every node is in one place, behind every node is a linked one, and what a thread has
\* read of the head and the tail holds as long as their sequence is the one it read.
THEOREM BaseAlways == Spec => []Base
  <1>1. Init => Base BY InitBase
  <1>2. Base /\ [Next]_vars => Base' BY BaseStep, BaseStutter DEF Next
  <1>3. QED BY <1>1, <1>2, PTL DEF Spec

\* The variables keep their types: with that, the tail and the head always point to a node.
THEOREM TypeAlways == Spec => []TypeOK
  <1>1. Base => TypeOK BY DEF Base
  <1>2. QED BY <1>1, BaseAlways, PTL

\* The node a pop takes was linked and not popped, and the item it read before its swap is
\* that of the node, although other threads may have reused the node since.
THEOREM PopsWhatWasLinkedAlways == Spec => PopsWhatWasLinked
  <1>1. ASSUME Base, NEW t \in Threads, SwapHead(t)
        PROVE  after[t] \in linked /\ item[t] = elem[after[t]]
    BY <1>1, SwapSwaps DEF Swaps
  <1>2. Base => [\A t \in Threads : SwapHead(t) => after[t] \in linked /\ item[t] = elem[after[t]]]_vars
    BY <1>1
  <1>3. QED BY <1>2, BaseAlways, PTL DEF PopsWhatWasLinked
-----------------------------------------------------------------------------
(***************************************************************************)
(* The chains.                                                             *)
(***************************************************************************)

LEMMA LiveFacts ==
  ASSUME Base
  PROVE  /\ Live \subseteq Nodes /\ linked \subseteq Live /\ Held \subseteq Live /\ head.pNode \in Live
         /\ tail.pNode \in Live /\ End \notin Nodes /\ Held \cap (linked \cup {head.pNode}) = {}
         /\ Held \subseteq Nodes /\ head.pNode \in Nodes /\ tail.pNode \in Nodes /\ linked \subseteq Nodes
         /\ \A x \in Live : next[x] \in linked \cup {End}
  <1>1. \A t \in Pushers : node[t] \in Nodes /\ node[t] \notin linked \cup {head.pNode} BY DEF Base, Places
  <1>2. Held \subseteq Nodes /\ Held \cap (linked \cup {head.pNode}) = {} BY <1>1 DEF Held
  <1>3. QED BY <1>2, QueueAssumption DEF Live, Base, Places, TypeOK, NextInv

\* A thread that is to link has just read the tail.
LEMMA ToLink ==
  ASSUME Base, NEW t \in Threads, Calls(t) \/ Step(t), op'[t] = "link"
  PROVE  link'[t].pNode = tail.pNode /\ tail' = tail
  <1>1. CASE ReadTailNode(t)
    <2>1. link[t] \in Links BY DEF Base, TypeOK
    <2>2. QED BY <1>1, <2>1 DEF ReadTailNode, Base, TypeOK, queue, Links
  <1> USE DEF Base, TypeOK, Goes, Turns
  <1>2. CASE ReadTailSequence(t) \/ LinkNode(t) \/ LinkFails(t) \/ ReadNextOfTail(t) \/ HelpPush(t)
    BY <1>2 DEF ReadTailSequence, LinkNode, LinkFails, ReadNextOfTail, HelpPush
  <1>3. CASE FinishOwnPush(t) \/ CountPush(t) \/ PopItem(t) \/ \E e \in Items : PushItem(t, e)
    BY <1>3 DEF FinishOwnPush, CountPush, PopItem, PushItem
  <1>4. CASE ReadHeadSequence(t) \/ ReadHeadNode(t) \/ ReadTailSequenceToPop(t) \/ ReadNextOfHead(t)
    BY <1>4 DEF ReadHeadSequence, ReadHeadNode, ReadTailSequenceToPop, ReadNextOfHead
  <1>5. CASE Recheck(t) BY <1>5 DEF Recheck
  <1>6. CASE Compare(t) BY <1>6 DEF Compare
  <1>7. CASE HelpPop(t) \/ ReadElem(t) \/ SwapHead(t) \/ SwapFails(t)
    BY <1>7 DEF HelpPop, ReadElem, SwapHead, SwapFails
  <1>8. CASE CountPop(t) \/ ReturnItem(t)
    BY <1>8 DEF CountPop, ReturnItem
  <1>9. QED BY <1>1, <1>2, <1>3, <1>4, <1>5, <1>6, <1>7, <1>8 DEF Calls, Step

\* A step that changes no chain keeps their shape.
LEMMA ShapeQuiet ==
  ASSUME Base, NEW t \in Threads, Calls(t) \/ Step(t), Quiet(t), Rest(t),
         NEW root \in Roots, NEW rank \in Ranks, NEW older \in Olders, Shape(root, rank, older)
  PROVE  Shape(root, rank, older)'
  <1>1. /\ UNCHANGED <<head, next, linked>>
        /\ Held' = Held /\ Live' = Live
    BY QuietSets DEF Quiet
  <1>2. root[tail'.pNode] = End
    <2>1. tail' = tail \/ (tail'.pNode = next[tail.pNode] /\ tail'.pNode \in Nodes) BY DEF Quiet
    <2>2. tail'.pNode = next[tail.pNode] /\ tail'.pNode \in Nodes => root[tail'.pNode] = root[tail.pNode]
      BY LiveFacts DEF Shape
    <2>3. QED BY <2>1, <2>2 DEF Shape
  <1>3. \A u \in Threads : op'[u] = "link" /\ link'[u].pNode \in Live' /\ root[link'[u].pNode] # End
        => node'[u] \in older[root[link'[u].pNode]]
    <2>1. SUFFICES ASSUME NEW u \in Threads, op'[u] = "link", link'[u].pNode \in Live', root[link'[u].pNode] # End
                   PROVE  node'[u] \in older[root[link'[u].pNode]]
      OBVIOUS
    <2>2. u # t BY <2>1, ToLink DEF Shape
    <2>3. op[u] = "link" /\ link'[u] = link[u] /\ node'[u] = node[u] BY <2>1, <2>2 DEF Rest
    <2>4. QED BY <1>1, <2>1, <2>3 DEF Shape
  <1>4. \A x \in Live : Top(root, x)' = Top(root, x) BY <1>1 DEF Top
  <1>5. QED BY <1>1, <1>2, <1>3, <1>4 DEF Shape

LEMMA ShapeGives ==
  ASSUME Base, NEW t \in Threads, NEW h \in Nodes, Gives(t, h), Rest(t),
         NEW root \in Roots, NEW rank \in Ranks, NEW older \in Olders, Shape(root, rank, older)
  PROVE  Shape(root, rank, older)'
  <1>1. /\ UNCHANGED <<head, tail, linked>> /\ op'[t] = "idle"
        /\ Held' = Held /\ Live' = Live /\ h \notin Live
        /\ \A x \in Live : next'[x] = next[x]
    BY GivesSets, LiveFacts DEF Gives
  <1>2. \A u \in Threads : op'[u] = "link" /\ link'[u].pNode \in Live' /\ root[link'[u].pNode] # End
        => node'[u] \in older[root[link'[u].pNode]]
    <2>1. SUFFICES ASSUME NEW u \in Threads, op'[u] = "link", link'[u].pNode \in Live', root[link'[u].pNode] # End
                   PROVE  node'[u] \in older[root[link'[u].pNode]]
      OBVIOUS
    <2>2. u # t BY <1>1, <2>1
    <2>3. op[u] = "link" /\ link'[u] = link[u] /\ node'[u] = node[u] BY <2>1, <2>2 DEF Rest
    <2>4. QED BY <1>1, <2>1, <2>3 DEF Shape
  <1>3. \A x \in Live : Top(root, x)' = Top(root, x) BY <1>1 DEF Top
  <1>4. QED BY <1>1, <1>2, <1>3 DEF Shape

\* A pop takes the first node off the chain of the queue.
LEMMA ShapeSwaps ==
  ASSUME Base, NEW t \in Threads, NEW h \in Nodes, NEW a \in Nodes, Swaps(t, h, a), Rest(t),
         NEW root \in Roots, NEW rank \in Ranks, NEW older \in Olders, Shape(root, rank, older)
  PROVE  Shape(root, rank, older)'
  <1>1. /\ h = head.pNode /\ head'.pNode = a /\ next[h] = a /\ a \in linked /\ linked' = linked \ {a}
        /\ UNCHANGED <<tail, next>> /\ op'[t] = "uncount"
        /\ Held' = Held /\ Live' = Live \ {h} /\ h \notin linked \cup Held
    BY SwapsSets DEF Swaps
  <1>2. root[a] = End /\ rank[a] = rank[h] + 1 BY <1>1, LiveFacts DEF Shape
  <1>3. \A x \in Live' : root[x] = End => rank[x] >= rank[a]
    <2>1. SUFFICES ASSUME NEW x \in Live', root[x] = End PROVE rank[x] >= rank[a] OBVIOUS
    <2>2. x \in Live /\ h \in Live /\ x # h /\ root[h] = End BY <1>1, LiveFacts DEF Shape
    <2>3. rank[x] >= rank[h] BY <1>1, <2>1, <2>2 DEF Shape, Top
    <2>4. rank[x] # rank[h] BY <2>1, <2>2 DEF Shape
    <2>5. rank[x] \in Int /\ rank[h] \in Int BY <2>2, LiveFacts DEF Ranks
    <2>6. QED BY <1>2, <2>3, <2>4, <2>5
  <1>4. \A x \in Live' : root[x] \in Held' \cup {End} /\ rank[x] >= rank[Top(root, x)']
    BY <1>1, <1>3 DEF Shape, Top
  <1>5. \A n \in linked' : \E m \in Live' : next'[m] = n
    <2>1. SUFFICES ASSUME NEW n \in linked' PROVE \E m \in Live' : next'[m] = n OBVIOUS
    <2>2. PICK m \in Live : next[m] = n BY <1>1 DEF Shape
    <2>3. m # h BY <1>1, <2>2
    <2>4. QED BY <1>1, <2>2, <2>3
  <1>6. \A u \in Threads : op'[u] = "link" /\ link'[u].pNode \in Live' /\ root[link'[u].pNode] # End
        => node'[u] \in older[root[link'[u].pNode]]
    <2>1. SUFFICES ASSUME NEW u \in Threads, op'[u] = "link", link'[u].pNode \in Live', root[link'[u].pNode] # End
                   PROVE  node'[u] \in older[root[link'[u].pNode]]
      OBVIOUS
    <2>2. u # t BY <1>1, <2>1
    <2>3. op[u] = "link" /\ link'[u] = link[u] /\ node'[u] = node[u] BY <2>1, <2>2 DEF Rest
    <2>4. QED BY <1>1, <2>1, <2>3 DEF Shape
  <1>7. root[head'.pNode] = End /\ root[tail'.pNode] = End /\ \A n \in Held' : root[n] = n
    BY <1>1, <1>2 DEF Shape
  <1>8. \A m \in Live' : next'[m] \in linked' => root[next'[m]] = root[m] /\ rank[next'[m]] = rank[m] + 1
    BY <1>1 DEF Shape
  <1>9. \A x, y \in Live' : root[x] = root[y] =>
          /\ rank[x] = rank[y] => x = y
          /\ next'[y] = End => rank[x] <= rank[y]
    BY <1>1 DEF Shape
  <1>10. ~Recycles => \A n \in linked' : root[n] = End BY <1>1 DEF Shape
  <1>11. \A x \in Nodes : x \notin older[x] /\ \A y \in older[x] : older[y] \subseteq older[x] BY DEF Shape
  <1>12. QED BY <1>4, <1>5, <1>6, <1>7, <1>8, <1>9, <1>10, <1>11 DEF Shape

\* A node that a push takes is a private chain, with nothing behind it.
LEMMA ShapeTakes ==
  ASSUME Base, NEW t \in Threads, NEW n \in Nodes, Takes(t, n), Rest(t),
         NEW root \in Roots, NEW rank \in Ranks, NEW older \in Olders, Shape(root, rank, older)
  PROVE  \E r \in Roots, k \in Ranks, o \in Olders : Shape(r, k, o)'
  <1> DEFINE r == [root EXCEPT ![n] = n]
             k == [rank EXCEPT ![n] = 0]
             o == [x \in Nodes |-> IF x = n THEN Nodes \ {n} ELSE older[x] \ {n}]
  <1>1. r \in Roots /\ k \in Ranks /\ o \in Olders BY DEF Roots, Ranks, Olders
  <1>2. /\ UNCHANGED <<head, tail, linked>> /\ op'[t] = "tailSequence" /\ node'[t] = n
        /\ Held' = Held \cup {n} /\ Live' = Live \cup {n} /\ n \notin Live
        /\ next'[n] = End /\ \A x \in Live : next'[x] = next[x] /\ x # n
    BY TakesSets, LiveFacts DEF Takes
  <1>3. r[n] = n /\ k[n] = 0 /\ \A x \in Live : r[x] = root[x] /\ k[x] = rank[x]
    BY <1>2, LiveFacts DEF Roots, Ranks
  <1>4. \A x \in Live : root[x] # n BY <1>2, LiveFacts DEF Shape
  <1>5. n # End BY LiveFacts
  <1> HIDE DEF r, k
  <1>6. r[head'.pNode] = End /\ r[tail'.pNode] = End /\ \A x \in Held' : r[x] = x
    BY <1>2, <1>3, LiveFacts DEF Shape
  <1>7. \A x \in Live' : r[x] \in Held' \cup {End} /\ k[x] >= k[Top(r, x)']
    <2>1. SUFFICES ASSUME NEW x \in Live' PROVE r[x] \in Held' \cup {End} /\ k[x] >= k[Top(r, x)']
      OBVIOUS
    <2>2. CASE x = n
      <3>1. Top(r, x)' = n BY <1>3, <1>5, <2>2 DEF Top
      <3>2. QED BY <1>2, <1>3, <2>2, <3>1
    <2>3. CASE x # n
      <3>1. x \in Live BY <1>2, <2>3
      <3>2. root[x] \in Held \cup {End} /\ rank[x] >= rank[Top(root, x)] BY <3>1 DEF Shape
      <3>3. Top(r, x)' = Top(root, x) BY <1>2, <1>3, <3>1 DEF Top
      <3>4. Top(root, x) \in Live BY <3>2, LiveFacts DEF Top
      <3>5. QED BY <1>2, <1>3, <3>1, <3>2, <3>3, <3>4
    <2>4. QED BY <2>2, <2>3
  <1>8. \A m \in Live' : next'[m] \in linked' => r[next'[m]] = r[m] /\ k[next'[m]] = k[m] + 1
    BY <1>2, <1>3, <1>5, LiveFacts DEF Shape
  <1>9. \A x \in linked' : \E m \in Live' : next'[m] = x BY <1>2 DEF Shape
  <1>10. \A x, y \in Live' : r[x] = r[y] =>
          /\ k[x] = k[y] => x = y
          /\ next'[y] = End => k[x] <= k[y]
    <2>1. SUFFICES ASSUME NEW x \in Live', NEW y \in Live', r[x] = r[y]
                   PROVE  (k[x] = k[y] => x = y) /\ (next'[y] = End => k[x] <= k[y])
      OBVIOUS
    <2>2. CASE x = n
      <3>1. y = n BY <1>2, <1>3, <1>4, <2>1, <2>2
      <3>2. QED BY <1>3, <2>2, <3>1
    <2>3. CASE x # n
      <3>1. y # n BY <1>2, <1>3, <1>4, <2>1, <2>3
      <3>2. QED BY <1>2, <1>3, <2>1, <2>3, <3>1 DEF Shape
    <2>4. QED BY <2>2, <2>3
  <1>11. \A x \in Nodes : x \notin o[x] /\ \A y \in o[x] : o[y] \subseteq o[x]
    <2>1. \A x \in Nodes : x \notin older[x] /\ older[x] \subseteq Nodes /\ \A y \in older[x] : older[y] \subseteq older[x]
      BY DEF Shape, Olders
    <2>2. QED BY <2>1
  <1>12. \A u \in Threads : op'[u] = "link" /\ link'[u].pNode \in Live' /\ r[link'[u].pNode] # End
        => node'[u] \in o[r[link'[u].pNode]]
    <2>1. SUFFICES ASSUME NEW u \in Threads, op'[u] = "link", link'[u].pNode \in Live', r[link'[u].pNode] # End
                   PROVE  node'[u] \in o[r[link'[u].pNode]]
      OBVIOUS
    <2>2. u # t BY <1>2, <2>1
    <2>3. op[u] = "link" /\ link'[u] = link[u] /\ node'[u] = node[u] BY <2>1, <2>2 DEF Rest
    <2>4. u \in Pushers BY <2>3 DEF Pushers, PushSteps
    <2>5. node[u] \in Nodes /\ node[u] # n BY <1>2, <2>4, LiveFacts DEF Held
    <2>6. CASE link[u].pNode = n BY <1>3, <2>3, <2>5, <2>6
    <2>7. CASE link[u].pNode # n
      <3>1. link[u].pNode \in Live BY <1>2, <2>1, <2>3, <2>7
      <3>2. node[u] \in older[root[link[u].pNode]] BY <1>3, <2>1, <2>3, <3>1 DEF Shape
      <3>3. root[link[u].pNode] \in Nodes \ {n} BY <1>3, <1>4, <2>1, <2>3, <3>1, LiveFacts DEF Shape
      <3>4. QED BY <1>3, <2>3, <2>5, <3>1, <3>2, <3>3
    <2>8. QED BY <2>6, <2>7
  <1>13. ~Recycles => \A x \in linked' : r[x] = End BY <1>2, <1>3, LiveFacts DEF Shape
  <1>14. Shape(r, k, o)' BY <1>6, <1>7, <1>8, <1>9, <1>10, <1>11, <1>12, <1>13 DEF Shape
  <1>15. QED BY <1>1, <1>14

\* A push hangs its private chain behind the end of another chain, never of its own.
LEMMA ShapeLinks ==
  ASSUME Base, NEW t \in Threads, NEW m \in Nodes, NEW n \in Nodes, Links_(t, m, n), Rest(t), Fresh,
         NEW root \in Roots, NEW rank \in Ranks, NEW older \in Olders, Shape(root, rank, older)
  PROVE  \E r \in Roots, k \in Ranks : Shape(r, k, older)'
  <1> DEFINE up == rank[m] + 1 - rank[n]
             r == [x \in Nodes |-> IF root[x] = n THEN root[m] ELSE root[x]]
             k == [x \in Nodes |-> IF root[x] = n THEN rank[x] + up ELSE rank[x]]
  <1>0. rank[m] \in Int /\ rank[n] \in Int /\ \A x \in Live : rank[x] \in Int BY LiveFacts DEF Ranks
  <1>1. r \in Roots /\ k \in Ranks BY DEF Roots, Ranks
  <1>2. /\ UNCHANGED <<head, tail, link, node>> /\ op'[t] = "finish"
        /\ Held' = Held \ {n} /\ Live' = Live /\ n \in Held /\ n \in Live /\ linked' = linked \cup {n}
        /\ m \in Live /\ next[m] = End /\ next'[m] = n /\ \A x \in Live \ {m} : next'[x] = next[x]
        /\ n \notin linked /\ n # head.pNode
    BY LinksSets, LiveFacts DEF Links_
  <1>3. root[n] = n /\ n # End BY <1>2, LiveFacts DEF Shape
  <1>4. root[m] # n
    <2>1. op[t] = "link" /\ link[t].pNode = m /\ node[t] = n BY DEF Links_
    <2>2. root[m] # End => n \in older[root[m]] BY <1>2, <2>1 DEF Shape
    <2>3. n \notin older[n] BY DEF Shape
    <2>4. QED BY <1>3, <2>2, <2>3
  <1>5. \A x \in Live : root[x] \in Held \cup {End} BY DEF Shape
  <1>6. \A x \in Live : r[x] = (IF root[x] = n THEN root[m] ELSE root[x])
                        /\ k[x] = (IF root[x] = n THEN rank[x] + up ELSE rank[x])
    BY LiveFacts
  <1>7. \A x \in Live : r[x] # n BY <1>4, <1>6
  <1> HIDE DEF r, k
  <1>8. \A x \in Live : root[x] = n => rank[x] >= rank[n] /\ k[x] > rank[m] /\ k[x] \in Int
    <2>1. SUFFICES ASSUME NEW x \in Live, root[x] = n PROVE rank[x] >= rank[n] /\ k[x] > rank[m] /\ k[x] \in Int
      OBVIOUS
    <2>2. rank[x] >= rank[n] BY <1>3, <2>1 DEF Shape, Top
    <2>3. k[x] = rank[x] + (rank[m] + 1 - rank[n]) BY <1>6, <2>1
    <2>4. QED BY <1>0, <2>2, <2>3
  <1>9. \A x \in Live : root[x] = root[m] => rank[x] <= rank[m] BY <1>2 DEF Shape
  <1>10. r[head'.pNode] = End /\ r[tail'.pNode] = End /\ \A x \in Held' : r[x] = x
    BY <1>2, <1>3, <1>6, LiveFacts DEF Shape
  <1>11. \A x \in Live' : r[x] \in Held' \cup {End} /\ k[x] >= k[Top(r, x)']
    <2>1. SUFFICES ASSUME NEW x \in Live PROVE r[x] \in Held' \cup {End} /\ k[x] >= k[Top(r, x)']
      BY <1>2
    <2>2. r[x] \in Held' \cup {End} BY <1>2, <1>5, <1>6, <1>7
    <2>3. CASE root[x] = n
      <3>1. r[x] = root[m] /\ Top(r, x)' = Top(root, m) BY <1>2, <1>6, <2>3 DEF Top
      <3>2. rank[m] >= rank[Top(root, m)] /\ Top(root, m) \in Live /\ root[Top(root, m)] # n
        BY <1>2, <1>3, <1>4, <1>5, LiveFacts DEF Shape, Top
      <3>3. k[Top(root, m)] = rank[Top(root, m)] BY <1>6, <3>2
      <3>4. k[x] > rank[m] /\ k[x] \in Int BY <1>8, <2>3
      <3>5. rank[Top(root, m)] \in Int BY <1>0, <3>2
      <3>6. QED BY <1>0, <2>2, <3>1, <3>2, <3>3, <3>4, <3>5
    <2>4. CASE root[x] # n
      <3>1. r[x] = root[x] /\ Top(r, x)' = Top(root, x) /\ k[x] = rank[x] BY <1>2, <1>6, <2>4 DEF Top
      <3>2. rank[x] >= rank[Top(root, x)] /\ Top(root, x) \in Live /\ root[Top(root, x)] # n
        BY <1>3, <1>5, <2>4, LiveFacts DEF Shape, Top
      <3>3. k[Top(root, x)] = rank[Top(root, x)] BY <1>6, <3>2
      <3>4. QED BY <2>2, <3>1, <3>2, <3>3
    <2>5. QED BY <2>3, <2>4
  <1>12. \A y \in Live' : next'[y] \in linked' => r[next'[y]] = r[y] /\ k[next'[y]] = k[y] + 1
    <2>1. SUFFICES ASSUME NEW y \in Live, next'[y] \in linked'
                   PROVE  r[next'[y]] = r[y] /\ k[next'[y]] = k[y] + 1
      BY <1>2
    <2>2. CASE y = m
      <3>1. next'[y] = n /\ r[n] = root[m] /\ r[m] = root[m] /\ k[m] = rank[m] BY <1>2, <1>3, <1>4, <1>6, <2>2
      <3>2. k[n] = rank[n] + (rank[m] + 1 - rank[n]) BY <1>2, <1>3, <1>6
      <3>3. k[n] = rank[m] + 1 BY <1>0, <3>2
      <3>4. QED BY <2>2, <3>1, <3>3
    <2>3. CASE y # m
      <3>1. next'[y] = next[y] /\ next[y] \in linked BY <1>2, <1>3, <2>1, <2>3, LiveFacts
      <3>2. root[next[y]] = root[y] /\ rank[next[y]] = rank[y] + 1 /\ next[y] \in Live
        BY <3>1, LiveFacts DEF Shape
      <3>3. r[next[y]] = r[y] BY <1>6, <3>2
      <3>4. rank[y] \in Int /\ up \in Int BY <1>0
      <3>5. k[next[y]] = k[y] + 1
        <4>1. CASE root[y] = n
          <5>1. k[next[y]] = rank[y] + 1 + up /\ k[y] = rank[y] + up BY <1>6, <3>2, <4>1
          <5>2. QED BY <3>4, <5>1
        <4>2. CASE root[y] # n BY <1>6, <3>2, <4>2
        <4>3. QED BY <4>1, <4>2
      <3>6. QED BY <3>1, <3>3, <3>5
    <2>4. QED BY <2>2, <2>3
  <1>13. \A x \in linked' : \E y \in Live' : next'[y] = x
    <2>1. SUFFICES ASSUME NEW x \in linked' PROVE \E y \in Live : next'[y] = x BY <1>2
    <2>2. CASE x = n BY <1>2, <2>2
    <2>3. CASE x # n
      <3>1. PICK y \in Live : next[y] = x BY <1>2, <2>1, <2>3 DEF Shape
      <3>2. y # m BY <1>2, <2>1, <2>3, <3>1, LiveFacts
      <3>3. QED BY <1>2, <3>1, <3>2
    <2>4. QED BY <2>2, <2>3
  <1>14. \A x, y \in Live' : r[x] = r[y] =>
          /\ k[x] = k[y] => x = y
          /\ next'[y] = End => k[x] <= k[y]
    <2>1. SUFFICES ASSUME NEW x \in Live, NEW y \in Live, r[x] = r[y]
                   PROVE  (k[x] = k[y] => x = y) /\ (next'[y] = End => k[x] <= k[y])
      BY <1>2
    <2>i. rank[x] \in Int /\ rank[y] \in Int /\ up \in Int BY <1>0
    <2>e. next'[y] = End => next[y] = End /\ y # m BY <1>2, <1>3
    <2>2. CASE root[x] = n /\ root[y] = n
      <3>1. k[x] = rank[x] + up /\ k[y] = rank[y] + up BY <1>6, <2>2
      <3>2. (rank[x] = rank[y] => x = y) /\ (next[y] = End => rank[x] <= rank[y]) BY <2>1, <2>2 DEF Shape
      <3>3. (k[x] = k[y] => rank[x] = rank[y]) /\ (rank[x] <= rank[y] => k[x] <= k[y])
        BY <2>i, <3>1
      <3>4. QED BY <2>e, <3>2, <3>3
    <2>3. CASE root[x] # n /\ root[y] # n
      <3>1. k[x] = rank[x] /\ k[y] = rank[y] /\ root[x] = root[y] BY <1>6, <2>1, <2>3
      <3>2. QED BY <2>1, <2>e, <3>1 DEF Shape
    <2>4. CASE root[x] = n /\ root[y] # n
      <3>1. root[y] = root[m] /\ k[y] = rank[y] BY <1>6, <2>1, <2>4
      <3>2. k[x] > rank[m] /\ rank[y] <= rank[m] /\ k[x] \in Int BY <1>8, <1>9, <2>1, <2>4, <3>1
      <3>3. k[x] # k[y] BY <1>0, <2>i, <3>1, <3>2
      <3>4. next'[y] # End
        <4>1. SUFFICES ASSUME next'[y] = End PROVE FALSE OBVIOUS
        <4>2. next[y] = End /\ y # m BY <2>e, <4>1
        <4>3. rank[m] <= rank[y] BY <1>2, <2>1, <3>1, <4>2 DEF Shape
        <4>4. rank[m] = rank[y] BY <1>0, <2>i, <3>2, <4>3
        <4>5. QED BY <1>2, <2>1, <3>1, <4>2, <4>4 DEF Shape
      <3>5. QED BY <3>3, <3>4
    <2>5. CASE root[x] # n /\ root[y] = n
      <3>1. root[x] = root[m] /\ k[x] = rank[x] BY <1>6, <2>1, <2>5
      <3>2. k[y] > rank[m] /\ rank[x] <= rank[m] /\ k[y] \in Int BY <1>8, <1>9, <2>1, <2>5, <3>1
      <3>3. QED BY <1>0, <2>i, <3>1, <3>2
    <2>6. QED BY <2>2, <2>3, <2>4, <2>5
  <1>15. \A u \in Threads : op'[u] = "link" /\ link'[u].pNode \in Live' /\ r[link'[u].pNode] # End
        => node'[u] \in older[r[link'[u].pNode]]
    <2>1. SUFFICES ASSUME NEW u \in Threads, op'[u] = "link", link'[u].pNode \in Live', r[link'[u].pNode] # End
                   PROVE  node'[u] \in older[r[link'[u].pNode]]
      OBVIOUS
    <2>2. u # t BY <1>2, <2>1
    <2>3. op[u] = "link" /\ link'[u] = link[u] /\ node'[u] = node[u] /\ link[u].pNode \in Live
      BY <1>2, <2>1, <2>2 DEF Rest
    <2>4. root[link[u].pNode] # End BY <1>3, <1>6, <2>1, <2>3
    <2>5. node[u] \in older[root[link[u].pNode]] BY <2>3, <2>4 DEF Shape
    <2>6. CASE root[link[u].pNode] = n
      <3>1. r[link[u].pNode] = root[m] /\ root[m] # End BY <1>6, <2>1, <2>3, <2>6
      <3>2. op[t] = "link" /\ link[t].pNode = m /\ node[t] = n BY DEF Links_
      <3>3. n \in older[root[m]] /\ root[m] \in Nodes BY <1>2, <3>1, <3>2, LiveFacts DEF Shape
      <3>4. older[n] \subseteq older[root[m]] BY <3>3 DEF Shape
      <3>5. QED BY <2>3, <2>5, <2>6, <3>1, <3>4
    <2>7. CASE root[link[u].pNode] # n BY <1>6, <2>3, <2>5, <2>7
    <2>8. QED BY <2>6, <2>7
  <1>16. ~Recycles => \A x \in linked' : r[x] = End
    <2>1. SUFFICES ASSUME ~Recycles, NEW x \in linked' PROVE r[x] = End OBVIOUS
    <2>2. m \notin Held BY <2>1 DEF Fresh, Links_
    <2>3. root[m] = End BY <1>2, <2>1, <2>2 DEF Shape, Live
    <2>4. CASE x = n BY <1>2, <1>3, <1>6, <2>3, <2>4
    <2>5. CASE x # n BY <1>2, <1>3, <1>6, <2>1, <2>5, LiveFacts DEF Shape
    <2>6. QED BY <2>4, <2>5
  <1>17. \A x \in Nodes : x \notin older[x] /\ \A y \in older[x] : older[y] \subseteq older[x] BY DEF Shape
  <1>18. Shape(r, k, older)' BY <1>10, <1>11, <1>12, <1>13, <1>14, <1>15, <1>16, <1>17 DEF Shape
  <1>19. QED BY <1>1, <1>18

\* A thread keeps the node it has read, forgets it, or reads the head or the tail.
LEMMA LinkReads ==
  ASSUME Base, NEW t \in Threads, Calls(t) \/ Step(t)
  PROVE  link'[t].pNode \in {link[t].pNode, None, head.pNode, tail.pNode}
  <1>0. link[t] \in Links /\ NoLink.pNode = None BY DEF Base, TypeOK, NoLink
  <1> USE DEF Base, TypeOK, Turns
  <1>1. CASE ReadTailSequence(t) \/ ReadTailNode(t) \/ ReadHeadSequence(t) \/ ReadHeadNode(t)
    <2>1. CASE ReadTailSequence(t) BY <1>0, <2>1 DEF ReadTailSequence, Links
    <2>2. CASE ReadTailNode(t) BY <1>0, <2>2 DEF ReadTailNode, Links
    <2>3. CASE ReadHeadSequence(t) BY <1>0, <2>3 DEF ReadHeadSequence, Links
    <2>4. CASE ReadHeadNode(t) BY <1>0, <2>4 DEF ReadHeadNode, Links
    <2>5. QED BY <1>1, <2>1, <2>2, <2>3, <2>4
  <1>2. CASE LinkNode(t) \/ LinkFails(t) \/ ReadNextOfTail(t) \/ HelpPush(t)
    BY <1>0, <1>2 DEF LinkNode, LinkFails, ReadNextOfTail, HelpPush
  <1>3. CASE FinishOwnPush(t) \/ CountPush(t) \/ PopItem(t) \/ \E e \in Items : PushItem(t, e)
    BY <1>0, <1>3 DEF FinishOwnPush, CountPush, PopItem, PushItem
  <1>4. CASE ReadTailSequenceToPop(t) \/ ReadNextOfHead(t)
    BY <1>4 DEF ReadTailSequenceToPop, ReadNextOfHead
  <1>5. CASE Recheck(t) BY <1>0, <1>5 DEF Recheck
  <1>6. CASE Compare(t) BY <1>0, <1>6 DEF Compare
  <1>7. CASE HelpPop(t) \/ ReadElem(t) \/ SwapHead(t) \/ SwapFails(t)
    BY <1>0, <1>7 DEF HelpPop, ReadElem, SwapHead, SwapFails
  <1>8. CASE CountPop(t) \/ ReturnItem(t)
    BY <1>0, <1>8 DEF CountPop, ReturnItem
  <1>9. QED BY <1>1, <1>2, <1>3, <1>4, <1>5, <1>6, <1>7, <1>8 DEF Calls, Step

\* Without reuse no node becomes new, and only a new one becomes held.
LEMMA FreshShrinks ==
  ASSUME Base, NEW t \in Threads, Calls(t) \/ Step(t), ~Recycles
  PROVE  unused' \cup Held' \subseteq unused \cup Held
  <1>1. Rest(t) BY StepRest DEF Base
  <1>2. CASE Quiet(t) BY <1>1, <1>2, QuietSets DEF Quiet
  <1>3. ASSUME NEW n \in Nodes, Takes(t, n) PROVE unused' \cup Held' \subseteq unused \cup Held
    <2>1. Pool = unused BY DEF Base, PoolInv, Pool, Range
    <2>2. Held' = Held \cup {n} BY <1>1, <1>3, TakesSets
    <2>3. QED BY <1>3, <2>1, <2>2 DEF Takes
  <1>4. ASSUME NEW m \in Nodes, NEW n \in Nodes, Links_(t, m, n) PROVE unused' \cup Held' \subseteq unused \cup Held
    BY <1>1, <1>4, LinksSets DEF Links_
  <1>5. ASSUME NEW h \in Nodes, NEW a \in Nodes, Swaps(t, h, a) PROVE unused' \cup Held' \subseteq unused \cup Held
    BY <1>1, <1>5, SwapsSets DEF Swaps
  <1>6. ASSUME NEW h \in Nodes, Gives(t, h) PROVE unused' \cup Held' \subseteq unused \cup Held
    BY <1>1, <1>6, GivesSets DEF Gives
  <1>7. QED BY <1>2, <1>3, <1>4, <1>5, <1>6, StepKinds

LEMMA FreshStep ==
  ASSUME Base, Fresh, NEW t \in Threads, Calls(t) \/ Step(t)
  PROVE  Fresh'
  <1>1. SUFFICES ASSUME ~Recycles, NEW u \in Threads PROVE link'[u].pNode \notin unused' \cup Held' BY DEF Fresh
  <1>2. unused' \cup Held' \subseteq unused \cup Held BY <1>1, FreshShrinks
  <1>3. link[u].pNode \notin unused \cup Held BY <1>1 DEF Fresh
  <1>4. CASE u # t BY <1>2, <1>3, <1>4, StepRest DEF Rest, Base
  <1>5. CASE u = t
    <2>1. head.pNode \notin unused /\ tail.pNode \notin unused BY DEF Base, Places, Pool
    <2>2. head.pNode \notin Held /\ tail.pNode \notin Held BY LiveFacts DEF Base, Places
    <2>3. None \notin unused \cup Held BY LiveFacts, QueueAssumption DEF Base, TypeOK
    <2>4. QED BY <1>2, <1>3, <1>5, <2>1, <2>2, <2>3, LinkReads
  <1>6. QED BY <1>4, <1>5

LEMMA ShapedStep ==
  ASSUME Base, Fresh, Shaped, NEW t \in Threads, Calls(t) \/ Step(t)
  PROVE  Shaped'
  <1>0. PICK root \in Roots, rank \in Ranks, older \in Olders : Shape(root, rank, older) BY DEF Shaped
  <1>1. Rest(t) BY StepRest DEF Base
  <1>2. SUFFICES \E r \in Roots, k \in Ranks, o \in Olders : Shape(r, k, o)' BY DEF Shaped
  <1>3. CASE Quiet(t) BY <1>0, <1>1, <1>3, ShapeQuiet
  <1>4. ASSUME NEW n \in Nodes, Takes(t, n) PROVE \E r \in Roots, k \in Ranks, o \in Olders : Shape(r, k, o)'
    BY <1>0, <1>1, <1>4, ShapeTakes
  <1>5. ASSUME NEW m \in Nodes, NEW n \in Nodes, Links_(t, m, n)
        PROVE  \E r \in Roots, k \in Ranks, o \in Olders : Shape(r, k, o)'
    BY <1>0, <1>1, <1>5, ShapeLinks
  <1>6. ASSUME NEW h \in Nodes, NEW a \in Nodes, Swaps(t, h, a)
        PROVE  \E r \in Roots, k \in Ranks, o \in Olders : Shape(r, k, o)'
    BY <1>0, <1>1, <1>6, ShapeSwaps
  <1>7. ASSUME NEW h \in Nodes, Gives(t, h)
        PROVE  \E r \in Roots, k \in Ranks, o \in Olders : Shape(r, k, o)'
    BY <1>0, <1>1, <1>7, ShapeGives
  <1>8. QED BY <1>3, <1>4, <1>5, <1>6, <1>7, StepKinds

LEMMA InitShaped ==
  ASSUME Init
  PROVE  Shaped /\ Fresh
  <1>1. Base /\ Held = {} /\ Pushers = {} BY InitBase
  <1>2. linked = {} /\ op = [t \in Threads |-> "idle"] /\ link = [t \in Threads |-> NoLink] BY DEF Init
  <1>3. Live = {head.pNode} /\ head.pNode \in Nodes /\ tail.pNode = head.pNode
    BY <1>1, <1>2, LiveFacts DEF Live, Init
  <1> DEFINE root == [n \in Nodes |-> End]
             rank == [n \in Nodes |-> 0]
             older == [n \in Nodes |-> {}]
  <1>4. root \in Roots /\ rank \in Ranks /\ older \in Olders BY DEF Roots, Ranks, Olders
  <1>5. root[head.pNode] = End /\ rank[head.pNode] = 0 /\ Top(root, head.pNode) = head.pNode BY <1>3 DEF Top
  <1>6. \A x \in Nodes : older[x] = {} OBVIOUS
  <1> HIDE DEF root, rank, older
  <1>7. Shape(root, rank, older) BY <1>1, <1>2, <1>3, <1>5, <1>6 DEF Shape
  <1>8. NoLink.pNode = None /\ None \notin Nodes /\ unused \subseteq Nodes
    BY <1>1, QueueAssumption DEF NoLink, Base, TypeOK
  <1>9. Fresh BY <1>1, <1>2, <1>8 DEF Fresh
  <1>10. QED BY <1>4, <1>7, <1>9 DEF Shaped

LEMMA ShapedStutter ==
  ASSUME Shaped, Fresh, UNCHANGED vars
  PROVE  Shaped' /\ Fresh'
  <1>1. UNCHANGED <<head, tail, next, unused, op, node, link, linked>>
    BY DEF vars, queue, locals, history
  <1>2. Pushers' = Pushers BY <1>1 DEF Pushers
  <1>3. Held' = Held BY <1>1, <1>2 DEF Held
  <1>4. Live' = Live BY <1>1, <1>3 DEF Live
  <1>5. PICK root \in Roots, rank \in Ranks, older \in Olders : Shape(root, rank, older) BY DEF Shaped
  <1>6. Shape(root, rank, older)' BY <1>1, <1>3, <1>4, <1>5 DEF Shape, Top
  <1>7. Shaped' BY <1>6 DEF Shaped
  <1>8. QED BY <1>1, <1>3, <1>7 DEF Fresh

LEMMA ShapedAlways == Spec => [](Base /\ Shaped /\ Fresh)
  <1>1. Init => Base /\ Shaped /\ Fresh BY InitBase, InitShaped
  <1>2. Base /\ Shaped /\ Fresh /\ [Next]_vars => Base' /\ Shaped' /\ Fresh'
    BY BaseStep, BaseStutter, FreshStep, ShapedStep, ShapedStutter DEF Next
  <1>3. QED BY <1>1, <1>2, PTL DEF Spec
-----------------------------------------------------------------------------
(***************************************************************************)
(* The chain of the queue as a sequence.                                   *)
(***************************************************************************)

\* What is behind the i-th node of the chain c, of which the head is the 0-th.
Behind(c, i) == IF i = 0 THEN next[head.pNode] ELSE next[c[i]]

ChainIs(c) ==
    /\ c \in Seq(Nodes) /\ Len(c) <= Cardinality(linked)
    /\ \A i \in 1 .. Len(c) : c[i] = Behind(c, i - 1)
    /\ Behind(c, Len(c)) = End

\* One walk along the chain, as Chain makes it.
Walk[k \in 0 .. Cardinality(Nodes)] ==
    IF k = 0 THEN head.pNode ELSE IF Walk[k - 1] \in Nodes THEN next[Walk[k - 1]] ELSE End

LEMMA ChainIsWalk ==
  Chain = [k \in 1 .. Cardinality({i \in 1 .. Cardinality(Nodes) : Walk[i] \in Nodes}) |-> Walk[k]]
  BY DEF Chain, Walk

LEMMA LeastOf ==
  ASSUME NEW S, S \subseteq Nat, S # {}
  PROVE  \E x \in S : \A y \in S : x <= y
  <1> DEFINE R == {ss \in Nat \X Nat : ss[1] < ss[2]}
  <1>1. IsWellFoundedOn(R, Nat) BY NatLessThanWellFounded DEF OpToRel
  <1>2. PICK x \in S : \A y \in S : <<y, x>> \notin R
    <2> HIDE DEF R
    <2> QED BY WFMin, <1>1
  <1>3. \A y \in S : ~(y < x) BY <1>2
  <1>4. QED BY <1>3

LEMMA WalkIs ==
  ASSUME NEW g,
         g = [k \in 0 .. Cardinality(Nodes) |->
                IF k = 0 THEN head.pNode ELSE IF g[k - 1] \in Nodes THEN next[g[k - 1]] ELSE End]
  PROVE  Walk = g
  <1> DEFINE D == 0 .. Cardinality(Nodes)
             Turn(f) == [k \in D |-> IF k = 0 THEN head.pNode ELSE IF f[k - 1] \in Nodes THEN next[f[k - 1]] ELSE End]
  <1>1. Cardinality(Nodes) \in Nat BY QueueAssumption, FS_CardinalityType
  <1>2. Walk = CHOOSE f : f = Turn(f) BY DEF Walk
  <1>3. \E f : f = Turn(f) OBVIOUS
  <1> HIDE DEF Turn
  <1>4. Walk = Turn(Walk) BY <1>2, <1>3
  <1>5. g = Turn(g) BY DEF Turn
  <1>6. \A k \in D : Walk[k] = g[k]
    <2> DEFINE S == {k \in D : Walk[k] # g[k]}
    <2>1. SUFFICES ASSUME S # {} PROVE FALSE OBVIOUS
    <2>2. S \subseteq Nat BY <1>1
    <2>3. PICK k \in S : \A j \in S : k <= j BY <2>1, <2>2, LeastOf
    <2>4. k \in D /\ Walk[k] # g[k] BY <2>3
    <2>5. Walk[k] = (IF k = 0 THEN head.pNode ELSE IF Walk[k - 1] \in Nodes THEN next[Walk[k - 1]] ELSE End)
      BY <1>4, <2>4 DEF Turn
    <2>6. g[k] = (IF k = 0 THEN head.pNode ELSE IF g[k - 1] \in Nodes THEN next[g[k - 1]] ELSE End)
      BY <1>5, <2>4 DEF Turn
    <2>7. k # 0 BY <2>4, <2>5, <2>6
    <2>8. k - 1 \in D /\ ~(k <= k - 1) BY <1>1, <2>4, <2>7
    <2>9. Walk[k - 1] = g[k - 1] BY <2>3, <2>8
    <2>10. QED BY <2>4, <2>5, <2>6, <2>9
  <1>7. Walk = [k \in D |-> Walk[k]] /\ g = [k \in D |-> g[k]]
    <2>1. \A f : Turn(f) = [k \in D |-> Turn(f)[k]] BY DEF Turn
    <2>2. QED BY <1>4, <1>5, <2>1
  <1>8. QED BY <1>6, <1>7

\* There is one such sequence, and Chain is it.
LEMMA ChainUnique ==
  ASSUME TypeOK, NEW c, ChainIs(c)
  PROVE  Chain = c
  <1> DEFINE N == Cardinality(Nodes)
             m == Len(c)
             g == [k \in 0 .. N |-> IF k = 0 THEN head.pNode ELSE IF k <= m THEN c[k] ELSE End]
  <1>1. N \in Nat /\ Cardinality(linked) <= N /\ Cardinality(linked) \in Nat
    BY QueueAssumption, FS_CardinalityType, FS_Subset DEF TypeOK
  <1>2. c \in Seq(Nodes) /\ m \in Nat /\ \A i \in 1 .. m : c[i] \in Nodes BY DEF ChainIs
  <1>3. m <= N BY <1>1, <1>2 DEF ChainIs
  <1>4. head.pNode \in Nodes /\ End \notin Nodes BY QueueAssumption DEF TypeOK
  <1>5. c = [k \in 1 .. m |-> c[k]] BY <1>2
  <1>6. ASSUME NEW k \in 0 .. N
        PROVE  g[k] = IF k = 0 THEN head.pNode ELSE IF g[k - 1] \in Nodes THEN next[g[k - 1]] ELSE End
    <2>1. CASE k = 0 BY <1>1, <2>1
    <2>2. CASE k # 0
      <3>1. k - 1 \in 0 .. N /\ k - 1 + 1 = k BY <1>1, <2>2
      <3>2. CASE k <= m
        <4>1. k \in 1 .. m /\ k - 1 <= m BY <1>1, <1>2, <2>2, <3>2
        <4>2. g[k] = c[k] /\ c[k] = Behind(c, k - 1) BY <2>2, <4>1 DEF ChainIs
        <4>3. CASE k - 1 = 0
          <5>1. g[k - 1] = head.pNode BY <3>1, <4>3
          <5>2. c[k] = next[head.pNode] BY <4>2, <4>3 DEF Behind
          <5>3. QED BY <1>4, <2>2, <4>2, <5>1, <5>2
        <4>4. CASE k - 1 # 0
          <5>1. k - 1 \in 1 .. m BY <3>1, <4>1, <4>4
          <5>2. g[k - 1] = c[k - 1] /\ c[k - 1] \in Nodes BY <1>2, <3>1, <4>1, <4>4, <5>1
          <5>3. c[k] = next[c[k - 1]] BY <4>2, <4>4 DEF Behind
          <5>4. QED BY <2>2, <4>2, <5>2, <5>3
        <4>5. QED BY <4>3, <4>4
      <3>3. CASE ~(k <= m)
        <4>1. g[k] = End BY <2>2, <3>3
        <4>2. CASE k - 1 <= m
          <5>1. k - 1 = m BY <1>2, <3>1, <3>3, <4>2
          <5>2. Behind(c, m) = End BY DEF ChainIs
          <5>3. next[g[k - 1]] = End
            <6>1. CASE m = 0
              <7>1. g[k - 1] = head.pNode BY <3>1, <5>1, <6>1
              <7>2. QED BY <5>2, <6>1, <7>1 DEF Behind
            <6>2. CASE m # 0
              <7>1. g[k - 1] = c[m] BY <1>2, <3>1, <5>1, <6>2
              <7>2. QED BY <5>2, <6>2, <7>1 DEF Behind
            <6>3. QED BY <6>1, <6>2
          <5>4. QED BY <2>2, <4>1, <5>3
        <4>3. CASE ~(k - 1 <= m)
          <5>1. g[k - 1] = End BY <1>2, <3>1, <4>3
          <5>2. QED BY <1>4, <2>2, <4>1, <5>1
        <4>4. QED BY <4>2, <4>3
      <3>4. QED BY <3>2, <3>3
    <2>3. QED BY <2>1, <2>2
  <1>7. g = [k \in 0 .. N |-> IF k = 0 THEN head.pNode ELSE IF g[k - 1] \in Nodes THEN next[g[k - 1]] ELSE End]
    <2>1. g = [k \in 0 .. N |-> g[k]] OBVIOUS
    <2> HIDE DEF g
    <2>2. QED BY <1>6, <2>1
  <1>8. \A k \in 1 .. N : g[k] = IF k <= m THEN c[k] ELSE End BY <1>1
  <1> HIDE DEF g
  <1>9. Walk = g BY <1>7, WalkIs
  <1>10. {i \in 1 .. N : Walk[i] \in Nodes} = 1 .. m
    <2>1. \A i \in 1 .. N : Walk[i] \in Nodes <=> i <= m BY <1>2, <1>4, <1>8, <1>9
    <2>2. QED BY <1>1, <1>2, <1>3, <2>1
  <1>11. Cardinality(1 .. m) = m
    <2>1. m \in Int /\ 1 \in Int BY <1>2
    <2>2. Cardinality(1 .. m) = (IF 1 > m THEN 0 ELSE m - 1 + 1) BY <2>1, FS_Interval
    <2> HIDE DEF m
    <2>3. QED BY <1>2, <2>2
  <1>12. Chain = [k \in 1 .. m |-> Walk[k]] BY <1>10, <1>11, ChainIsWalk
  <1>13. \A k \in 1 .. m : Walk[k] = c[k] BY <1>1, <1>2, <1>3, <1>8, <1>9
  <1>14. QED BY <1>5, <1>12, <1>13

\* A set of positive numbers that goes down to one in steps of one.
LEMMA StepsDown ==
  ASSUME NEW R, IsFiniteSet(R), R \subseteq Nat \ {0}, \A k \in R : k # 1 => k - 1 \in R
  PROVE  R = 1 .. Cardinality(R)
  <1>1. \A k \in R : k \in Nat /\ k > 0 OBVIOUS
  <1> DEFINE Out == (Nat \ {0}) \ R
  <1>2. Out # {}
    <2>1. SUFFICES ASSUME Out = {} PROVE FALSE OBVIOUS
    <2>2. Cardinality(R) \in Nat BY FS_CardinalityType
    <2>3. 1 .. Cardinality(R) + 1 \in SUBSET R BY <2>1, <2>2
    <2>4. Cardinality(1 .. Cardinality(R) + 1) = Cardinality(R) + 1 BY <2>2, FS_Interval
    <2>5. Cardinality(1 .. Cardinality(R) + 1) <= Cardinality(R) BY <2>3, FS_Subset
    <2>6. QED BY <2>2, <2>4, <2>5
  <1>3. Out \subseteq Nat OBVIOUS
  <1>4. PICK j \in Out : \A i \in Out : j <= i
    <2> HIDE DEF Out
    <2> QED BY <1>2, <1>3, LeastOf
  <1>5. j \in Nat /\ j > 0 /\ j \notin R OBVIOUS
  <1>6. 1 .. j - 1 \subseteq R
    <2>1. SUFFICES ASSUME NEW i \in 1 .. j - 1 PROVE i \in R OBVIOUS
    <2>2. i \in Nat \ {0} /\ ~(j <= i) BY <1>5
    <2>3. QED BY <1>4, <2>2
  <1>7. R \subseteq 1 .. j - 1
    <2> DEFINE Beyond == {k \in R : k > j}
    <2>1. Beyond = {}
      <3>1. SUFFICES ASSUME Beyond # {} PROVE FALSE OBVIOUS
      <3>2. Beyond \subseteq Nat BY <1>1
      <3>3. PICK k \in Beyond : \A i \in Beyond : k <= i
        <4> HIDE DEF Beyond
        <4> QED BY <3>1, <3>2, LeastOf
      <3>4. k \in R /\ k > j /\ k \in Nat BY <1>1, <3>3
      <3>5. k # 1 BY <1>5, <3>4
      <3>6. k - 1 \in R BY <3>4, <3>5
      <3>7. k - 1 > j BY <1>5, <3>4, <3>6
      <3>8. ~(k <= k - 1) BY <3>4
      <3>9. QED BY <3>3, <3>6, <3>7, <3>8
    <2>2. \A k \in R : k < j BY <1>1, <1>5, <2>1
    <2>3. QED BY <1>1, <1>5, <2>2
  <1>8. R = 1 .. j - 1 BY <1>6, <1>7
  <1>9. Cardinality(R) = j - 1 BY <1>5, <1>8, FS_Interval
  <1>10. QED BY <1>8, <1>9

\* The nodes of the chain of the queue but the head.
Main(root) == {x \in linked : root[x] = End}

LEMMA MainFacts ==
  ASSUME Base, NEW root \in Roots, NEW rank \in Ranks, NEW older \in Olders, Shape(root, rank, older)
  PROVE  LET d(x) == rank[x] - rank[head.pNode]
         IN  /\ \A x \in Main(root) : d(x) \in Nat \ {0}
             /\ \A x, y \in Main(root) : d(x) = d(y) => x = y
             /\ \A x \in Main(root) : \E y \in Live :
                  /\ next[y] = x /\ d(y) = d(x) - 1 /\ (y \in Main(root) \/ (y = head.pNode /\ d(x) = 1))
             /\ \A y \in Main(root) \cup {head.pNode} :
                  next[y] # End => next[y] \in Main(root) /\ d(next[y]) = d(y) + 1
  <1> DEFINE d(x) == rank[x] - rank[head.pNode]
  <1>1. \A x \in Live : rank[x] \in Int BY LiveFacts DEF Ranks
  <1>2. rank[head.pNode] \in Int /\ root[head.pNode] = End BY <1>1, LiveFacts DEF Shape
  <1>3. Main(root) \subseteq Live /\ head.pNode \notin Main(root) BY LiveFacts DEF Main, Base, Places
  <1>4. ASSUME NEW x \in Main(root) PROVE d(x) \in Nat \ {0}
    <2>1. x \in Live /\ root[x] = End /\ x # head.pNode BY <1>3 DEF Main
    <2>2. rank[x] >= rank[head.pNode] BY <2>1 DEF Shape, Top
    <2>3. rank[x] # rank[head.pNode] BY <1>2, <2>1, LiveFacts DEF Shape
    <2>4. rank[x] \in Int BY <1>1, <2>1
    <2>5. QED BY <1>2, <2>2, <2>3, <2>4
  <1>5. ASSUME NEW x \in Main(root), NEW y \in Main(root), d(x) = d(y) PROVE x = y
    <2>1. x \in Live /\ y \in Live /\ root[x] = root[y] BY <1>3 DEF Main
    <2>2. rank[x] = rank[y] BY <1>1, <1>2, <1>5, <2>1
    <2>3. QED BY <2>1, <2>2 DEF Shape
  <1>6. ASSUME NEW x \in Main(root)
        PROVE  \E y \in Live : next[y] = x /\ d(y) = d(x) - 1 /\ (y \in Main(root) \/ (y = head.pNode /\ d(x) = 1))
    <2>1. x \in linked /\ x \in Live /\ root[x] = End BY <1>3 DEF Main
    <2>2. PICK y \in Live : next[y] = x BY <2>1 DEF Shape
    <2>3. root[y] = End /\ rank[x] = rank[y] + 1 BY <2>1, <2>2 DEF Shape
    <2>4. y \notin Held BY <2>2, <2>3, LiveFacts DEF Shape
    <2>5. y \in Main(root) \/ y = head.pNode BY <2>2, <2>3, <2>4 DEF Live, Main
    <2>6. d(y) = d(x) - 1 /\ (y = head.pNode => d(x) = 1) BY <1>1, <1>2, <2>1, <2>2, <2>3
    <2>7. QED BY <2>2, <2>5, <2>6
  <1>7. ASSUME NEW y \in Main(root) \cup {head.pNode}, next[y] # End
        PROVE  next[y] \in Main(root) /\ d(next[y]) = d(y) + 1
    <2>1. y \in Live /\ root[y] = End BY <1>2, <1>3, LiveFacts DEF Main
    <2>2. next[y] \in linked BY <1>7, <2>1, LiveFacts
    <2>3. root[next[y]] = End /\ rank[next[y]] = rank[y] + 1 BY <2>1, <2>2 DEF Shape
    <2>4. QED BY <1>1, <1>2, <2>1, <2>2, <2>3 DEF Main
  <1>8. QED BY <1>4, <1>5, <1>6, <1>7

LEMMA MainChain ==
  ASSUME Base, NEW root \in Roots, NEW rank \in Ranks, NEW older \in Olders, Shape(root, rank, older)
  PROVE  ChainIs(Chain) /\ Range(Chain) = Main(root) /\ Len(Chain) = Cardinality(Main(root))
  <1> DEFINE d(x) == rank[x] - rank[head.pNode]
             R == {d(x) : x \in Main(root)}
             f == [x \in Main(root) |-> d(x)]
             M == Cardinality(R)
             c == [k \in 1 .. M |-> CHOOSE x \in Main(root) : d(x) = k]
  <1>1. /\ \A x \in Main(root) : d(x) \in Nat \ {0}
        /\ \A x, y \in Main(root) : d(x) = d(y) => x = y
        /\ \A x \in Main(root) : \E y \in Live :
             /\ next[y] = x /\ d(y) = d(x) - 1 /\ (y \in Main(root) \/ (y = head.pNode /\ d(x) = 1))
        /\ \A y \in Main(root) \cup {head.pNode} :
             next[y] # End => next[y] \in Main(root) /\ d(next[y]) = d(y) + 1
    BY MainFacts
  <1>2. IsFiniteSet(Main(root)) /\ Cardinality(Main(root)) <= Cardinality(linked)
    <2>1. IsFiniteSet(linked) BY QueueAssumption, LiveFacts, FS_Subset
    <2>2. Main(root) \in SUBSET linked BY DEF Main
    <2>3. QED BY <2>1, <2>2, FS_Subset
  <1>3. IsFiniteSet(R) /\ M = Cardinality(Main(root))
    <2>1. f \in Bijection(Main(root), R)
      BY <1>1 DEF Bijection, Injection, Surjection, IsInjective
    <2>2. ExistsBijection(Main(root), R) BY <2>1 DEF ExistsBijection
    <2>3. QED BY <1>2, <2>2, FS_Bijection
  <1>d. d(head.pNode) = 0
    <2>1. rank[head.pNode] \in Int BY LiveFacts DEF Ranks
    <2>2. QED BY <2>1
  <1> HIDE DEF d
  <1>4. \A k \in R : k # 1 => k - 1 \in R
    <2>1. SUFFICES ASSUME NEW x \in Main(root), d(x) # 1 PROVE d(x) - 1 \in R OBVIOUS
    <2>2. PICK y \in Live : d(y) = d(x) - 1 /\ y \in Main(root) BY <1>1, <2>1
    <2>3. QED BY <2>2
  <1>5. R \subseteq Nat \ {0} BY <1>1
  <1>6. R = 1 .. M
    <2> HIDE DEF R
    <2> QED BY <1>3, <1>4, <1>5, StepsDown
  <1>7. M \in Nat BY <1>3, FS_CardinalityType
  <1>8. \A k \in 1 .. M : c[k] \in Main(root) /\ d(c[k]) = k
    <2>1. ASSUME NEW k \in 1 .. M PROVE \E x \in Main(root) : d(x) = k BY <1>6
    <2>2. ASSUME NEW k \in 1 .. M PROVE c[k] \in Main(root) /\ d(c[k]) = k
      <3>1. c[k] = CHOOSE x \in Main(root) : d(x) = k OBVIOUS
      <3> HIDE DEF c
      <3>2. QED BY <2>1, <3>1
    <2>3. QED BY <2>2
  <1>9. Main(root) \subseteq Nodes /\ head.pNode \notin Main(root) BY LiveFacts DEF Main, Base, Places
  <1>10. Len(c) = M /\ c \in Seq(Nodes) /\ DOMAIN c = 1 .. M
    <2>1. \A k \in 1 .. M : c[k] \in Nodes BY <1>8, <1>9
    <2>2. c = [k \in 1 .. M |-> c[k]] OBVIOUS
    <2> HIDE DEF c, M
    <2>3. QED BY <1>7, <2>1, <2>2
  <1>r. \A x \in Main(root) : d(x) \in 1 .. M BY <1>6
  <1> HIDE DEF c, R, M
  <1>11. ASSUME NEW i \in 1 .. M PROVE c[i] = Behind(c, i - 1)
    <2>1. c[i] \in Main(root) /\ d(c[i]) = i BY <1>8
    <2>2. PICK y \in Live : /\ next[y] = c[i] /\ d(y) = d(c[i]) - 1
                            /\ y \in Main(root) \/ (y = head.pNode /\ d(c[i]) = 1)
      BY <1>1, <2>1
    <2>3. CASE i = 1
      <3>1. y \notin Main(root) BY <1>1, <2>1, <2>2, <2>3
      <3>2. QED BY <2>2, <2>3, <3>1 DEF Behind
    <2>4. CASE i # 1
      <3>1. y \in Main(root) BY <2>1, <2>2, <2>4
      <3>2. i - 1 \in 1 .. M /\ i - 1 # 0 BY <1>7, <2>4
      <3>3. y = c[i - 1] BY <1>1, <1>8, <2>1, <2>2, <3>1, <3>2
      <3>4. QED BY <2>2, <3>2, <3>3 DEF Behind
    <2>5. QED BY <2>3, <2>4
  <1>12. Behind(c, M) = End
    <2> DEFINE p == IF M = 0 THEN head.pNode ELSE c[M]
    <2>1. Behind(c, M) = next[p] BY DEF Behind
    <2>2. p \in Main(root) \cup {head.pNode} /\ d(p) = M
      <3>1. CASE M = 0 BY <1>d, <3>1
      <3>2. CASE M # 0
        <4>1. M \in 1 .. M BY <1>7, <3>2
        <4>2. QED BY <1>8, <3>2, <4>1
      <3>3. QED BY <3>1, <3>2
    <2> HIDE DEF p
    <2>3. next[p] # End => next[p] \in Main(root) /\ d(next[p]) = M + 1 BY <1>1, <2>2
    <2>4. M + 1 \notin 1 .. M BY <1>7
    <2>5. QED BY <1>r, <2>1, <2>3, <2>4
  <1>13. ChainIs(c) BY <1>2, <1>3, <1>10, <1>11, <1>12 DEF ChainIs
  <1>14. Chain = c BY <1>13, ChainUnique DEF Base
  <1>15. Range(c) = Main(root)
    <2>1. Range(c) = {c[k] : k \in 1 .. M} BY <1>10 DEF Range
    <2>2. ASSUME NEW x \in Main(root) PROVE x \in {c[k] : k \in 1 .. M}
      <3>1. d(x) \in 1 .. M BY <1>r
      <3>2. c[d(x)] = x BY <1>1, <1>8, <3>1
      <3>3. QED BY <3>1, <3>2
    <2>3. QED BY <1>8, <2>1, <2>2
  <1>16. QED BY <1>3, <1>10, <1>13, <1>14, <1>15
-----------------------------------------------------------------------------
(***************************************************************************)
(* The count.                                                              *)
(***************************************************************************)

\* A step counts, links or unlinks, or none of these.
Counts(t, inUncounted, inOvercounted) ==
    /\ (t \in Uncounted)' <=> inUncounted
    /\ (t \in Overcounted)' <=> inOvercounted

LEMMA StepCounts ==
  ASSUME Base, NEW t \in Threads, Calls(t) \/ Step(t)
  PROVE  \/ Counts(t, t \in Uncounted, t \in Overcounted) /\ count' = count /\ linked' = linked
         \/ t \in Uncounted /\ Counts(t, FALSE, t \in Overcounted) /\ count' = count + 1 /\ linked' = linked
         \/ t \in Overcounted /\ Counts(t, t \in Uncounted, FALSE) /\ count' = count - 1 /\ linked' = linked
         \/ /\ t \notin Uncounted /\ Counts(t, TRUE, t \in Overcounted) /\ count' = count
            /\ \E n \in Nodes \ linked : linked' = linked \cup {n}
         \/ /\ t \notin Overcounted /\ Counts(t, t \in Uncounted, TRUE) /\ count' = count
            /\ \E a \in linked : linked' = linked \ {a}
  <1> USE DEF Base, TypeOK, Goes, Turns, Uncounted, Overcounted, Counts
  <1>1. CASE LinkNode(t)
    <2>1. PICK m, n \in Nodes : Links_(t, m, n) BY <1>1, LinkLinks
    <2>2. n \notin linked /\ linked' = linked \cup {n} BY <2>1, LinksSets, StepRest DEF Links_
    <2>3. count' = count /\ op[t] = "link" /\ op'[t] = "finish" BY <1>1 DEF LinkNode
    <2>4. QED BY <2>2, <2>3
  <1>2. CASE SwapHead(t)
    <2>1. PICK h, a \in Nodes : Swaps(t, h, a) BY <1>2, SwapSwaps
    <2>2. a \in linked /\ linked' = linked \ {a} BY <2>1 DEF Swaps
    <2>3. count' = count /\ op[t] = "swap" /\ op'[t] = "uncount" BY <1>2 DEF SwapHead
    <2>4. QED BY <2>2, <2>3
  <1>3. CASE CountPush(t)
    <2>1. op[t] = "count" /\ op'[t] = "idle" /\ count' = count + 1 /\ linked' = linked
      BY <1>3 DEF CountPush, history
    <2>2. QED BY <2>1
  <1>4. CASE CountPop(t)
    <2>1. op[t] = "uncount" /\ op'[t] = "free" /\ count' = count - 1 /\ linked' = linked
      BY <1>4 DEF CountPop, history
    <2>2. QED BY <2>1
  <1>5. CASE FinishOwnPush(t)
    <2>1. op[t] = "finish" /\ op'[t] = "count" /\ count' = count /\ linked' = linked
      BY <1>5 DEF FinishOwnPush, history
    <2>2. QED BY <2>1
  <1> DEFINE Other == /\ op[t] \notin {"finish", "count", "uncount"} /\ op'[t] \notin {"finish", "count", "uncount"}
                      /\ count' = count /\ linked' = linked
  <1>6. CASE PushLoop(t) \/ HelpPush(t)
    <2>1. Other BY <1>6 DEF PushLoop, ReadTailSequence, ReadTailNode, LinkFails, ReadNextOfTail, HelpPush, queue, history
    <2>2. QED BY <2>1
  <1>7. CASE \E e \in Items : PushItem(t, e)
    <2>1. Other BY <1>7 DEF PushItem
    <2>2. QED BY <2>1
  <1>8. CASE PopItem(t) \/ ReadHeadSequence(t) \/ ReadHeadNode(t) \/ ReadTailSequenceToPop(t) \/ ReadNextOfHead(t)
    <2>1. Other
      BY <1>8 DEF PopItem, ReadHeadSequence, ReadHeadNode, ReadTailSequenceToPop, ReadNextOfHead, queue, history
    <2>2. QED BY <2>1
  <1>9. CASE Recheck(t) \/ Compare(t)
    <2>1. Other BY <1>9 DEF Recheck, Compare, queue, history
    <2>2. QED BY <2>1
  <1>10. CASE HelpPop(t) \/ ReadElem(t) \/ SwapFails(t) \/ ReturnItem(t)
    <2>1. Other BY <1>10 DEF HelpPop, ReadElem, SwapFails, ReturnItem, queue, history
    <2>2. QED BY <2>1
  <1>11. QED BY <1>1, <1>2, <1>3, <1>4, <1>5, <1>6, <1>7, <1>8, <1>9, <1>10
         DEF Calls, Step, PushLoop

LEMMA CountedStep ==
  ASSUME Base, Counted, NEW t \in Threads, Calls(t) \/ Step(t)
  PROVE  Counted'
  <1> DEFINE U == Uncounted
             O == Overcounted
  <1>1. IsFiniteSet(linked) /\ Cardinality(linked) \in Nat
    BY QueueAssumption, LiveFacts, FS_Subset, FS_CardinalityType
  <1>2. IsFiniteSet(U) /\ IsFiniteSet(O) /\ Cardinality(U) \in Nat /\ Cardinality(O) \in Nat
        /\ count = Cardinality(linked) - Cardinality(U) + Cardinality(O)
    BY FS_CardinalityType DEF Counted
  <1>3. U' \ {t} = U \ {t} /\ O' \ {t} = O \ {t}
    BY StepRest DEF Rest, Uncounted, Overcounted, Base
  <1>4. SUFFICES IsFiniteSet(U') /\ IsFiniteSet(O')
                 /\ count' = Cardinality(linked') - Cardinality(U') + Cardinality(O')
    BY DEF Counted
  <1> HIDE DEF U, O
  <1>5. CASE Counts(t, t \in U, t \in O) /\ count' = count /\ linked' = linked
    <2>1. U' = U /\ O' = O BY <1>3, <1>5 DEF Counts, U, O
    <2>2. QED BY <1>2, <1>5, <2>1
  <1>6. CASE t \in U /\ Counts(t, FALSE, t \in O) /\ count' = count + 1 /\ linked' = linked
    <2>1. U' = U \ {t} /\ O' = O BY <1>3, <1>6 DEF Counts, U, O
    <2>2. IsFiniteSet(U') /\ Cardinality(U') = Cardinality(U) - 1 BY <1>2, <1>6, <2>1, FS_RemoveElement
    <2>3. QED BY <1>1, <1>2, <1>6, <2>1, <2>2
  <1>7. CASE t \in O /\ Counts(t, t \in U, FALSE) /\ count' = count - 1 /\ linked' = linked
    <2>1. O' = O \ {t} /\ U' = U BY <1>3, <1>7 DEF Counts, U, O
    <2>2. IsFiniteSet(O') /\ Cardinality(O') = Cardinality(O) - 1 BY <1>2, <1>7, <2>1, FS_RemoveElement
    <2>3. QED BY <1>1, <1>2, <1>7, <2>1, <2>2
  <1>8. CASE /\ t \notin U /\ Counts(t, TRUE, t \in O) /\ count' = count
             /\ \E n \in Nodes \ linked : linked' = linked \cup {n}
    <2>1. U' = U \cup {t} /\ O' = O BY <1>3, <1>8 DEF Counts, U, O
    <2>2. IsFiniteSet(U') /\ Cardinality(U') = Cardinality(U) + 1 BY <1>2, <1>8, <2>1, FS_AddElement
    <2>3. Cardinality(linked') = Cardinality(linked) + 1 BY <1>1, <1>8, FS_AddElement
    <2>4. QED BY <1>1, <1>2, <1>8, <2>1, <2>2, <2>3
  <1>9. CASE /\ t \notin O /\ Counts(t, t \in U, TRUE) /\ count' = count
             /\ \E a \in linked : linked' = linked \ {a}
    <2>1. O' = O \cup {t} /\ U' = U BY <1>3, <1>9 DEF Counts, U, O
    <2>2. IsFiniteSet(O') /\ Cardinality(O') = Cardinality(O) + 1 BY <1>2, <1>9, <2>1, FS_AddElement
    <2>3. Cardinality(linked') = Cardinality(linked) - 1 BY <1>1, <1>9, FS_RemoveElement
    <2>4. QED BY <1>1, <1>2, <1>9, <2>1, <2>2, <2>3
  <1>10. QED BY <1>5, <1>6, <1>7, <1>8, <1>9, StepCounts DEF U, O

LEMMA CountedAlways == Spec => []Counted
  <1>1. Init => Counted
    <2>1. SUFFICES ASSUME Init PROVE Counted OBVIOUS
    <2>2. Uncounted = {} /\ Overcounted = {} /\ linked = {} /\ count = 0 BY <2>1 DEF Init, Uncounted, Overcounted
    <2>3. QED BY <2>2, FS_EmptySet DEF Counted
  <1>2. Base /\ Counted /\ [Next]_vars => Counted'
    <2>1. ASSUME Counted, UNCHANGED vars PROVE Counted'
      BY <2>1 DEF Counted, Uncounted, Overcounted, vars, queue, locals, history
    <2>2. QED BY <2>1, CountedStep DEF Next
  <1>3. QED BY <1>1, <1>2, BaseAlways, PTL DEF Spec

\* The tail never falls behind the head, every node in the chain was linked and not
\* popped, and when no thread is in a call the chain is all of those nodes and m_Count
\* is its length: for any threads and nodes, reused or not.
THEOREM QueueWholeAlways == Spec => []QueueWhole
  <1>1. ASSUME Base, Shaped, Counted PROVE QueueWhole
    <2>1. PICK root \in Roots, rank \in Ranks, older \in Olders : Shape(root, rank, older) BY <1>1 DEF Shaped
    <2>2. Range(Chain) = Main(root) /\ Len(Chain) = Cardinality(Main(root)) BY <1>1, <2>1, MainChain
    <2>3. TailFollowsHead
      <3>1. Range(Chain) \subseteq linked BY <2>2 DEF Main
      <3>2. tail.pNode \in linked \cup {head.pNode} BY <1>1 DEF Base, Places
      <3>3. root[tail.pNode] = End BY <2>1 DEF Shape
      <3>4. QED BY <2>2, <3>1, <3>2, <3>3 DEF TailFollowsHead, Main
    <2>4. ASSUME \A t \in Threads : op[t] = "idle" PROVE Range(Chain) = linked /\ count = Len(Chain)
      <3>1. Pushers = {} /\ Uncounted = {} /\ Overcounted = {}
        BY <2>4 DEF Pushers, PushSteps, Uncounted, Overcounted
      <3>2. Held = {} BY <3>1 DEF Held
      <3>3. \A x \in linked : root[x] = End BY <1>1, <2>1, <3>2, LiveFacts DEF Shape
      <3>4. Main(root) = linked BY <3>3 DEF Main
      <3>5. Cardinality(linked) \in Nat
        BY <1>1, QueueAssumption, LiveFacts, FS_Subset, FS_CardinalityType
      <3>6. count = Cardinality(linked) BY <1>1, <3>1, <3>5, FS_EmptySet DEF Counted
      <3>7. QED BY <2>2, <3>4, <3>6
    <2>5. QED BY <1>1, <2>3, <2>4 DEF QueueWhole, NothingLost, Base
  <1>2. QED BY <1>1, ShapedAlways, CountedAlways, PTL
-----------------------------------------------------------------------------
(***************************************************************************)
(* The queue is first in, first out.                                       *)
(***************************************************************************)

LEMMA ChainUniqueAt == \A c : TypeOK /\ ChainIs(c) => Chain = c
  BY ChainUnique

LEMMA ChainUniqueNext == (\A c : TypeOK /\ ChainIs(c) => Chain = c)'
  BY ChainUniqueAt, PTL

LEMMA ChainNext ==
  ASSUME TypeOK', NEW c, ChainIs(c)'
  PROVE  Chain' = c
  BY ChainUniqueNext

\* A thread that sees the end behind the head has seen the queue empty.
LEMMA SeenStep ==
  ASSUME Base, Seen, NEW t \in Threads, Calls(t) \/ Step(t), Notes
  PROVE  Seen'
  <1>0. Rest(t) /\ Steady
    BY StepRest, StepKinds, QuietKeeps, TakesKeeps, LinksKeeps, SwapsKeeps, GivesKeeps DEF Base
  <1>1. /\ \A u \in sawEmpty' : Popping(u)'
        /\ next'[head'.pNode] = End => \A u \in Threads : Popping(u)' => u \in sawEmpty'
        /\ \A u \in Threads : Popping(u)' /\ u \in sawEmpty => u \in sawEmpty'
    BY DEF Notes
  <1>2. \A u \in Threads : op'[u] \in {"recheck", "compare"} => Popping(u)' BY DEF Popping, PopSteps
  <1>3. \A u \in Threads : head.sequence \in Nat /\ link[u].sequence \in Nat
    BY LinkFacts DEF Base, TypeOK
  <1>4. ASSUME NEW u \in Threads, op'[u] = "recheck", after'[u] = End, link'[u].sequence = head'.sequence
        PROVE  u \in sawEmpty'
    <2>1. CASE u # t
      <3>1. op[u] = "recheck" /\ after[u] = End /\ link[u].sequence = head'.sequence BY <1>0, <1>4, <2>1 DEF Rest
      <3>2. link[u].sequence <= head.sequence BY <3>1 DEF Base, Reads, PopReads, HeadRead, PopSteps
      <3>3. ~(head'.sequence > head.sequence) BY <1>3, <3>1, <3>2
      <3>4. head' = head BY <1>0, <3>3 DEF Steady
      <3>5. u \in sawEmpty BY <3>1, <3>4 DEF Seen
      <3>6. QED BY <1>1, <1>2, <1>4, <3>5
    <2>2. CASE u = t
      <3>1. ReadNextOfHead(t)
        <4> USE <1>4, <2>2 DEF Base, TypeOK, Goes, Turns
        <4>1. ~PushLoop(t) /\ ~LinkNode(t) /\ ~HelpPush(t) /\ ~FinishOwnPush(t) /\ ~CountPush(t)
          BY DEF PushLoop, ReadTailSequence, ReadTailNode, LinkFails, ReadNextOfTail, LinkNode, HelpPush,
                 FinishOwnPush, CountPush
        <4>2. ~PopItem(t) /\ ~ReadHeadSequence(t) /\ ~ReadHeadNode(t) /\ ~ReadTailSequenceToPop(t)
          BY DEF PopItem, ReadHeadSequence, ReadHeadNode, ReadTailSequenceToPop
        <4>3. ~Recheck(t) /\ ~Compare(t) /\ ~HelpPop(t) /\ ~ReadElem(t) BY DEF Recheck, Compare, HelpPop, ReadElem
        <4>4. ~SwapHead(t) /\ ~SwapFails(t) /\ ~CountPop(t) /\ ~ReturnItem(t)
          BY DEF SwapHead, SwapFails, CountPop, ReturnItem
        <4>5. \A e \in Items : ~PushItem(t, e) BY DEF PushItem
        <4>6. QED BY <4>1, <4>2, <4>3, <4>4, <4>5 DEF Calls, Step, PushLoop
      <3>2. /\ op[t] = "next of head" /\ after'[t] = next[link[t].pNode]
            /\ UNCHANGED <<head, next, link>>
        BY <3>1 DEF ReadNextOfHead, Base, TypeOK, queue
      <3>3. link[t].pNode = head.pNode
        BY <1>4, <2>2, <3>2 DEF Base, Reads, PopReads, HeadRead, PopSteps
      <3>4. next'[head'.pNode] = End BY <1>4, <2>2, <3>2, <3>3
      <3>5. QED BY <1>1, <1>2, <1>4, <3>4
    <2>3. QED BY <2>1, <2>2
  <1>5. ASSUME NEW u \in Threads, op'[u] = "compare", after'[u] = End
        PROVE  u \in sawEmpty'
    <2>1. CASE u # t
      <3>1. op[u] = "compare" /\ after[u] = End BY <1>0, <1>5, <2>1 DEF Rest
      <3>2. u \in sawEmpty BY <3>1 DEF Seen
      <3>3. QED BY <1>1, <1>2, <1>5, <3>2
    <2>2. CASE u = t
      <3>1. Recheck(t)
        <4> USE <1>5, <2>2 DEF Base, TypeOK, Goes, Turns
        <4>1. ~PushLoop(t) /\ ~LinkNode(t) /\ ~HelpPush(t) /\ ~FinishOwnPush(t) /\ ~CountPush(t)
          BY DEF PushLoop, ReadTailSequence, ReadTailNode, LinkFails, ReadNextOfTail, LinkNode, HelpPush,
                 FinishOwnPush, CountPush
        <4>2. ~PopItem(t) /\ ~ReadHeadSequence(t) /\ ~ReadHeadNode(t) /\ ~ReadTailSequenceToPop(t)
          BY DEF PopItem, ReadHeadSequence, ReadHeadNode, ReadTailSequenceToPop
        <4>3. ~ReadNextOfHead(t) /\ ~Compare(t) /\ ~HelpPop(t) /\ ~ReadElem(t)
          BY DEF ReadNextOfHead, Compare, HelpPop, ReadElem
        <4>4. ~SwapHead(t) /\ ~SwapFails(t) /\ ~CountPop(t) /\ ~ReturnItem(t)
          BY DEF SwapHead, SwapFails, CountPop, ReturnItem
        <4>5. \A e \in Items : ~PushItem(t, e) BY DEF PushItem
        <4>6. QED BY <4>1, <4>2, <4>3, <4>4, <4>5 DEF Calls, Step, PushLoop
      <3>2. HeadStands(t) BY <1>5, <2>2, <3>1 DEF Recheck, Turns, Goes, Base, TypeOK
      <3>3. op[t] = "recheck" /\ after[t] = End /\ link[t].sequence = head.sequence
        BY <1>5, <2>2, <3>1, <3>2 DEF Recheck, HeadStands
      <3>4. t \in sawEmpty BY <3>3 DEF Seen
      <3>5. QED BY <1>1, <1>2, <1>5, <2>2, <3>4
    <2>3. QED BY <2>1, <2>2
  <1>6. QED BY <1>1, <1>4, <1>5 DEF Seen

LEMMA SeenAlways == Spec => []Seen
  <1>1. Init => Seen
    <2>1. SUFFICES ASSUME Init PROVE Seen OBVIOUS
    <2>2. sawEmpty = {} /\ \A t \in Threads : op[t] = "idle" BY <2>1 DEF Init
    <2>3. QED BY <2>2 DEF Seen, Popping, PopSteps
  <1>2. Base /\ Seen /\ [Next]_vars => Seen'
    <2>1. ASSUME Seen, UNCHANGED vars PROVE Seen'
      BY <2>1 DEF Seen, Popping, vars, queue, locals
    <2>2. QED BY <2>1, SeenStep DEF Next
  <1>3. QED BY <1>1, <1>2, BaseAlways, PTL DEF Spec

\* The call that a thread is in.
LEMMA CallFacts ==
  \A t \in Threads :
    /\ op[t] = "idle" => CallOf(t) = Fifo!Doing("idle", None)
    /\ op[t] \in {"finish", "count"} => CallOf(t) = Fifo!Doing("pushed", None)
    /\ t \in Pushers => CallOf(t) = Fifo!Doing("push", elem[node[t]])
    /\ Popping(t) => CallOf(t) = Fifo!Doing("pop", None)
    /\ op[t] \in {"uncount", "free"} => CallOf(t) = Fifo!Doing("got", item[t])
  <1> SUFFICES ASSUME NEW t \in Threads
      PROVE  /\ op[t] = "idle" => CallOf(t) = Fifo!Doing("idle", None)
             /\ op[t] \in {"finish", "count"} => CallOf(t) = Fifo!Doing("pushed", None)
             /\ t \in Pushers => CallOf(t) = Fifo!Doing("push", elem[node[t]])
             /\ Popping(t) => CallOf(t) = Fifo!Doing("pop", None)
             /\ op[t] \in {"uncount", "free"} => CallOf(t) = Fifo!Doing("got", item[t])
    OBVIOUS
  <1> USE DEF CallOf, Fifo!Doing
  <1>1. op[t] = "idle" => CallOf(t) = Fifo!Doing("idle", None) BY DEF PushSteps, PopSteps, Popping
  <1>2. op[t] \in {"finish", "count"} => CallOf(t) = Fifo!Doing("pushed", None) BY DEF PushSteps, PopSteps, Popping
  <1>3. t \in Pushers => CallOf(t) = Fifo!Doing("push", elem[node[t]])
    BY DEF Pushers, PushSteps, PopSteps, Popping
  <1>4. Popping(t) => CallOf(t) = Fifo!Doing("pop", None) BY DEF PushSteps, PopSteps, Popping
  <1>5. op[t] \in {"uncount", "free"} => CallOf(t) = Fifo!Doing("got", item[t]) BY DEF PushSteps, PopSteps, Popping
  <1>6. QED BY <1>1, <1>2, <1>3, <1>4, <1>5

LEMMA CallFactsNext ==
  (\A t \in Threads :
    /\ op[t] = "idle" => CallOf(t) = Fifo!Doing("idle", None)
    /\ op[t] \in {"finish", "count"} => CallOf(t) = Fifo!Doing("pushed", None)
    /\ t \in Pushers => CallOf(t) = Fifo!Doing("push", elem[node[t]])
    /\ Popping(t) => CallOf(t) = Fifo!Doing("pop", None)
    /\ op[t] \in {"uncount", "free"} => CallOf(t) = Fifo!Doing("got", item[t]))'
  BY CallFacts, PTL

\* Only a call that pops says so, and what the thread does is one of the five.
LEMMA PopCalls ==
  ASSUME TypeOK, NEW t \in Threads
  PROVE  CallOf(t).op = "pop" <=> Popping(t)
  <1>1. op[t] \in AllSteps BY DEF TypeOK, AllSteps
  <1>2. op[t] = "idle" \/ op[t] \in {"finish", "count"} \/ t \in Pushers \/ Popping(t) \/ op[t] \in {"uncount", "free"}
    BY <1>1 DEF AllSteps, PushSteps, PopSteps, Pushers, Popping
  <1>3. Popping(t) => CallOf(t).op = "pop" BY CallFacts DEF Fifo!Doing
  <1>4. ~Popping(t) => CallOf(t).op # "pop" BY <1>2, CallFacts DEF Fifo!Doing
  <1>5. QED BY <1>3, <1>4

\* Items are written to nodes that are in no chain and in no push's hands.
LEMMA ElemStays ==
  ASSUME Base, NEW t \in Threads, Calls(t) \/ Step(t)
  PROVE  \A x \in Live : elem'[x] = elem[x]
  <1>1. Rest(t) BY StepRest DEF Base
  <1>2. CASE Quiet(t) BY <1>2 DEF Quiet
  <1>3. ASSUME NEW n \in Nodes, Takes(t, n) PROVE \A x \in Live : elem'[x] = elem[x]
    BY <1>1, <1>3, TakesSets, LiveFacts DEF Takes
  <1>4. ASSUME NEW m \in Nodes, NEW n \in Nodes, Links_(t, m, n) PROVE \A x \in Live : elem'[x] = elem[x]
    BY <1>4 DEF Links_
  <1>5. ASSUME NEW h \in Nodes, NEW a \in Nodes, Swaps(t, h, a) PROVE \A x \in Live : elem'[x] = elem[x]
    BY <1>5 DEF Swaps
  <1>6. ASSUME NEW h \in Nodes, Gives(t, h) PROVE \A x \in Live : elem'[x] = elem[x]
    BY <1>1, <1>6, GivesSets, LiveFacts DEF Gives
  <1>7. QED BY <1>2, <1>3, <1>4, <1>5, <1>6, StepKinds

\* A step is no news to the calls of the other threads.
LEMMA OthersCall ==
  ASSUME Base, NEW t \in Threads, Calls(t) \/ Step(t)
  PROVE  CallsMade' = [CallsMade EXCEPT ![t] = CallOf(t)']
  <1>1. ASSUME NEW u \in Threads \ {t} PROVE CallOf(u)' = CallOf(u)
    <2>1. op'[u] = op[u] /\ node'[u] = node[u] /\ item'[u] = item[u] BY StepRest DEF Rest, Base
    <2>2. (Popping(u)' <=> Popping(u)) /\ (u \in Pushers' <=> u \in Pushers) BY <2>1 DEF Popping, Pushers
    <2>3. u \in Pushers => elem'[node'[u]] = elem[node[u]]
      BY <2>1, ElemStays, LiveFacts DEF Held
    <2>4. op[u] = "idle" \/ op[u] \in {"finish", "count"} \/ u \in Pushers \/ Popping(u) \/ op[u] \in {"uncount", "free"}
      <3>1. op[u] \in AllSteps BY DEF Base, TypeOK, AllSteps
      <3>2. QED BY <3>1 DEF AllSteps, PushSteps, PopSteps, Pushers, Popping
    <2>5. QED BY <2>1, <2>2, <2>3, <2>4, CallFacts, CallFactsNext
  <1>2. QED BY <1>1 DEF CallsMade

\* What the chain of the queue is when no node is reused.
LEMMA WholeChain ==
  ASSUME Base, Shaped, ~Recycles
  PROVE  /\ ChainIs(Chain) /\ Range(Chain) = linked
         /\ \A n \in Held : next[n] = End
  <1>1. PICK root \in Roots, rank \in Ranks, older \in Olders : Shape(root, rank, older) BY DEF Shaped
  <1>2. \A n \in linked : root[n] = End BY <1>1 DEF Shape
  <1>3. Main(root) = linked BY <1>2 DEF Main
  <1>4. ASSUME NEW n \in Held PROVE next[n] = End
    <2>1. SUFFICES ASSUME next[n] # End PROVE FALSE OBVIOUS
    <2>2. next[n] \in linked /\ n \in Live BY <2>1, LiveFacts
    <2>3. root[next[n]] = root[n] /\ root[n] = n BY <1>1, <2>2 DEF Shape
    <2>4. QED BY <1>2, <2>2, <2>3, LiveFacts
  <1>5. QED BY <1>1, <1>3, <1>4, MainChain

LEMMA ContentsFacts ==
  ASSUME Base, ChainIs(Chain)
  PROVE  /\ Chain \in Seq(Nodes) /\ Len(Chain) \in Nat /\ DOMAIN Chain = 1 .. Len(Chain)
         /\ \A i \in 1 .. Len(Chain) : Chain[i] \in Nodes
         /\ Contents \in Seq(Items \cup {None}) /\ Len(Contents) = Len(Chain)
         /\ \A i \in 1 .. Len(Chain) : Contents[i] = elem[Chain[i]]
         /\ Contents = <<>> <=> next[head.pNode] = End
  <1>1. Chain \in Seq(Nodes) /\ Len(Chain) \in Nat /\ DOMAIN Chain = 1 .. Len(Chain)
        /\ \A i \in 1 .. Len(Chain) : Chain[i] \in Nodes
    BY DEF ChainIs
  <1>2. Contents = [i \in 1 .. Len(Chain) |-> elem[Chain[i]]] BY <1>1 DEF Contents
  <1>3. \A i \in 1 .. Len(Chain) : elem[Chain[i]] \in Items \cup {None} BY <1>1 DEF Base, TypeOK
  <1>4. Contents \in Seq(Items \cup {None}) /\ Len(Contents) = Len(Chain) BY <1>1, <1>2, <1>3
  <1>5. Contents = <<>> <=> Len(Chain) = 0 BY <1>1, <1>4
  <1>6. Len(Chain) = 0 => next[head.pNode] = End BY DEF ChainIs, Behind
  <1>7. Len(Chain) # 0 => next[head.pNode] # End
    <2>1. SUFFICES ASSUME Len(Chain) # 0 PROVE next[head.pNode] # End OBVIOUS
    <2>2. 1 \in 1 .. Len(Chain) BY <1>1, <2>1
    <2>3. Chain[1] = Behind(Chain, 1 - 1) BY <2>2 DEF ChainIs
    <2>4. Chain[1] = next[head.pNode] BY <2>3 DEF Behind
    <2>5. QED BY <1>1, <2>2, <2>4, LiveFacts
  <1>8. QED BY <1>1, <1>2, <1>4, <1>5, <1>6, <1>7

LEMMA EmptyContents == Base /\ ChainIs(Chain) => (Contents = <<>> <=> next[head.pNode] = End)
  BY ContentsFacts

LEMMA EmptyContentsNext == (Base /\ ChainIs(Chain) => (Contents = <<>> <=> next[head.pNode] = End))'
  BY EmptyContents, PTL

\* A step that links and unlinks nothing leaves the contents as they are.
LEMMA SameContents ==
  ASSUME Base, Base', Shaped, ~Recycles, NEW t \in Threads, Calls(t) \/ Step(t), ~LinkNode(t), ~SwapHead(t)
  PROVE  Contents' = Contents /\ ChainIs(Chain)'
  <1>0. Rest(t) BY StepRest DEF Base
  <1>1. ChainIs(Chain) /\ Range(Chain) = linked BY WholeChain
  <1>2. head' = head /\ linked' = linked /\ \A x \in linked \cup {head.pNode} : next'[x] = next[x]
    <2>1. CASE QuietStep(t) BY <2>1, QuietSteps DEF Quiet
    <2>2. CASE \E e \in Items : PushItem(t, e)
      <3>1. PICK n \in Nodes : Takes(t, n) BY <2>2, PushTakes
      <3>2. n \notin Live BY <1>0, <3>1, TakesSets
      <3>3. QED BY <3>1, <3>2, LiveFacts DEF Takes
    <2>3. CASE ReturnItem(t)
      <3>1. PICK h \in Nodes : Gives(t, h) BY <2>3, ReturnGives
      <3>2. h \notin Live BY <1>0, <3>1, GivesSets
      <3>3. QED BY <3>1, <3>2, LiveFacts DEF Gives
    <2>4. QED BY <2>1, <2>2, <2>3 DEF Calls, Step, QuietStep, PushLoop, PopLoop, Finishes
  <1>3. Chain \in Seq(Nodes) /\ Len(Chain) \in Nat /\ DOMAIN Chain = 1 .. Len(Chain) BY <1>1, ContentsFacts
  <1>4. \A i \in 1 .. Len(Chain) : Chain[i] \in linked BY <1>1, <1>3 DEF Range
  <1>6. PICK d : d = Chain OBVIOUS
  <1>7. \A i \in 0 .. Len(d) : Behind(d, i)' = Behind(d, i) BY <1>2, <1>3, <1>4, <1>6 DEF Behind
  <1>8. ChainIs(d)'
    <2>1. ChainIs(d) /\ Len(d) \in Nat BY <1>1, <1>3, <1>6
    <2>2. \A i \in 1 .. Len(d) : i - 1 \in 0 .. Len(d) BY <2>1
    <2>3. QED BY <1>2, <1>7, <2>1, <2>2 DEF ChainIs
  <1>9. Chain' = d BY <1>8, ChainNext DEF Base
  <1>10. Chain' = Chain BY <1>6, <1>9
  <1>11. \A i \in DOMAIN Chain : elem'[Chain[i]] = elem[Chain[i]] BY <1>3, <1>4, ElemStays, LiveFacts
  <1>12. QED BY <1>8, <1>9, <1>10, <1>11 DEF Contents

\* A node that is linked is the last of the chain.
LEMMA PushedContents ==
  ASSUME Base, Base', Shaped, Fresh, ~Recycles, NEW t \in Threads, LinkNode(t)
  PROVE  Contents' = Append(Contents, elem[node[t]]) /\ ChainIs(Chain)'
  <1>1. Rest(t) BY StepRest DEF Base, Step
  <1>2. PICK m, n \in Nodes : Links_(t, m, n) BY LinkLinks
  <1>3. /\ n \in Held /\ n \notin linked \cup {head.pNode} /\ n = node[t]
        /\ head' = head /\ linked' = linked \cup {n} /\ elem' = elem
        /\ m \in Live /\ next[m] = End /\ next'[m] = n /\ \A x \in Nodes \ {m} : next'[x] = next[x]
    BY <1>1, <1>2, LinksSets DEF Links_
  <1>4. ChainIs(Chain) /\ Range(Chain) = linked /\ next[n] = End BY <1>3, WholeChain
  <1>5. m \notin Held BY <1>2 DEF Fresh, Links_
  <1>6. m \in linked \cup {head.pNode} /\ m # n BY <1>3, <1>5 DEF Live
  <1>7. /\ Chain \in Seq(Nodes) /\ Len(Chain) \in Nat /\ DOMAIN Chain = 1 .. Len(Chain)
        /\ \A i \in 1 .. Len(Chain) : Chain[i] \in Nodes
    BY <1>4, ContentsFacts
  <1>8. PICK d : d = Chain OBVIOUS
  <1> DEFINE L == Len(d)
             p(i) == IF i = 0 THEN head.pNode ELSE d[i]
             c == Append(d, n)
  <1>9. /\ d \in Seq(Nodes) /\ L \in Nat /\ \A i \in 1 .. L : d[i] \in Nodes
        /\ \A i \in 1 .. L : d[i] = next[p(i - 1)]
        /\ next[p(L)] = End
        /\ L <= Cardinality(linked) /\ Range(d) = {d[i] : i \in 1 .. L}
    BY <1>4, <1>7, <1>8 DEF ChainIs, Behind, Range
  <1>10. \A i \in 0 .. L : p(i) \in Nodes BY <1>9, LiveFacts
  <1>11. \A i \in 0 .. L : p(i) = m => i = L
    <2>1. SUFFICES ASSUME NEW i \in 0 .. L, p(i) = m, i # L PROVE FALSE OBVIOUS
    <2>2. i + 1 \in 1 .. L /\ i + 1 - 1 = i BY <1>9, <2>1
    <2>3. d[i + 1] = next[p(i)] BY <1>9, <2>2
    <2>4. QED BY <1>3, <1>9, <2>1, <2>2, <2>3, LiveFacts
  <1>12. p(L) = m
    <2>1. \E i \in 0 .. L : p(i) = m
      <3>1. CASE m = head.pNode
        <4>1. 0 \in 0 .. L /\ p(0) = m BY <1>9, <3>1
        <4>2. QED BY <4>1
      <3>2. CASE m \in linked
        <4>1. PICK i \in 1 .. L : m = d[i] BY <1>4, <1>8, <1>9, <3>2
        <4>2. i \in 0 .. L /\ p(i) = m BY <1>9, <4>1
        <4>3. QED BY <4>2
      <3>3. QED BY <1>6, <3>1, <3>2
    <2>2. QED BY <1>11, <2>1
  <1>13. /\ c \in Seq(Nodes) /\ Len(c) = L + 1 /\ c[L + 1] = n
         /\ \A i \in 1 .. L : c[i] = d[i]
    BY <1>9
  <1>14. Cardinality(linked') = Cardinality(linked) + 1 /\ Cardinality(linked) \in Nat
    <2>1. IsFiniteSet(linked) BY QueueAssumption, LiveFacts, FS_Subset
    <2>2. QED BY <1>3, <2>1, FS_AddElement, FS_CardinalityType
  <1> HIDE DEF c
  <1>15. \A i \in 0 .. L : Behind(c, i)' = next'[p(i)]
    BY <1>3, <1>9, <1>13 DEF Behind
  <1>16. \A i \in 1 .. L : c[i] = Behind(c, i - 1)'
    <2>1. SUFFICES ASSUME NEW i \in 1 .. L PROVE c[i] = Behind(c, i - 1)' OBVIOUS
    <2>2. i - 1 \in 0 .. L /\ i - 1 # L BY <1>9
    <2>3. p(i - 1) # m /\ p(i - 1) \in Nodes BY <1>10, <1>11, <2>2
    <2>4. next'[p(i - 1)] = next[p(i - 1)] BY <1>3, <2>3
    <2>5. QED BY <1>9, <1>13, <1>15, <2>2, <2>4
  <1>17. c[L + 1] = Behind(c, L + 1 - 1)'
    <2>1. L \in 0 .. L /\ L + 1 - 1 = L BY <1>9
    <2>2. QED BY <1>3, <1>12, <1>13, <1>15, <2>1
  <1>18. Behind(c, L + 1)' = End
    <2>1. L + 1 # 0 BY <1>9
    <2>2. Behind(c, L + 1)' = next'[n] BY <1>13, <2>1 DEF Behind
    <2>3. QED BY <1>3, <1>4, <1>6, <2>2
  <1>19. ChainIs(c)'
    <2>1. \A i \in 1 .. L + 1 : i \in 1 .. L \/ i = L + 1 BY <1>9
    <2>2. \A i \in 1 .. Len(c) : c[i] = Behind(c, i - 1)' BY <1>13, <1>16, <1>17, <2>1
    <2>3. Len(c) <= Cardinality(linked') BY <1>9, <1>13, <1>14
    <2>4. QED BY <1>13, <1>18, <2>2, <2>3 DEF ChainIs
  <1>20. Chain' = c BY <1>19, ChainNext DEF Base
  <1>21. Contents' = Append(Contents, elem[n])
    <2>1. Contents \in Seq(Items \cup {None}) /\ Len(Contents) = L /\ \A i \in 1 .. L : Contents[i] = elem[d[i]]
      BY <1>4, <1>8, ContentsFacts
    <2>2. elem[n] \in Items \cup {None} BY LiveFacts, <1>3 DEF Base, TypeOK
    <2>3. /\ Append(Contents, elem[n]) \in Seq(Items \cup {None}) /\ Len(Append(Contents, elem[n])) = L + 1
          /\ Append(Contents, elem[n])[L + 1] = elem[n]
          /\ \A i \in 1 .. L : Append(Contents, elem[n])[i] = elem[d[i]]
      BY <2>1, <2>2, AppendProperties
    <2>4. DOMAIN c = 1 .. L + 1 BY <1>9, <1>13
    <2>5. Contents' = [i \in 1 .. L + 1 |-> elem[c[i]]] BY <1>3, <1>20, <2>4 DEF Contents
    <2>6. \A i \in 1 .. L + 1 : Append(Contents, elem[n])[i] = elem[c[i]]
      <3>1. \A i \in 1 .. L + 1 : i \in 1 .. L \/ i = L + 1 BY <1>9
      <3>2. QED BY <1>13, <2>3, <3>1
    <2>7. Append(Contents, elem[n]) = [i \in 1 .. L + 1 |-> Append(Contents, elem[n])[i]] BY <2>3
    <2>8. QED BY <2>5, <2>6, <2>7
  <1>22. QED BY <1>3, <1>19, <1>20, <1>21

LEMMA SequenceIsFunction ==
  ASSUME NEW S, NEW s \in Seq(S)
  PROVE  s = [k \in 1 .. Len(s) |-> s[k]]
  OBVIOUS

\* A pop takes the first node of the chain.
LEMMA PoppedContents ==
  ASSUME Base, Base', Shaped, ~Recycles, NEW t \in Threads, SwapHead(t)
  PROVE  /\ Contents # <<>> /\ Contents' = Tail(Contents) /\ Head(Contents) = item[t]
         /\ ChainIs(Chain)'
  <1>1. PICK h, a \in Nodes : Swaps(t, h, a) BY SwapSwaps
  <1>2. /\ h = head.pNode /\ next[h] = a /\ a \in linked /\ item[t] = elem[a]
        /\ head'.pNode = a /\ linked' = linked \ {a} /\ next' = next /\ elem' = elem
    BY <1>1 DEF Swaps
  <1>3. ChainIs(Chain) BY WholeChain
  <1>4. /\ Chain \in Seq(Nodes) /\ Len(Chain) \in Nat /\ DOMAIN Chain = 1 .. Len(Chain)
        /\ \A i \in 1 .. Len(Chain) : Chain[i] \in Nodes
    BY <1>3, ContentsFacts
  <1>5. PICK d : d = Chain OBVIOUS
  <1> DEFINE L == Len(d)
             c == Tail(d)
  <1>6. a # End BY <1>2, LiveFacts
  <1>7. L > 0 /\ d \in Seq(Nodes) /\ L \in Nat /\ L <= Cardinality(linked)
    <2>1. L = 0 => next[head.pNode] = End BY <1>3, <1>5 DEF ChainIs, Behind
    <2>2. QED BY <1>2, <1>3, <1>4, <1>5, <1>6, <2>1 DEF ChainIs
  <1>8. d[1] = a
    <2>1. 1 \in 1 .. L BY <1>7
    <2>2. d[1] = Behind(d, 1 - 1) BY <1>3, <1>5, <2>1 DEF ChainIs
    <2>3. QED BY <1>2, <2>2 DEF Behind
  <1>9. c \in Seq(Nodes) /\ Len(c) = L - 1 /\ \A i \in 1 .. L - 1 : c[i] = d[i + 1] BY <1>7
  <1>10. Cardinality(linked') = Cardinality(linked) - 1 /\ Cardinality(linked) \in Nat
    <2>1. IsFiniteSet(linked) BY QueueAssumption, LiveFacts, FS_Subset
    <2>2. QED BY <1>2, <2>1, FS_RemoveElement, FS_CardinalityType
  <1> HIDE DEF c
  <1>11. \A i \in 0 .. L - 1 : Behind(c, i)' = next[d[i + 1]]
    <2>1. ASSUME NEW i \in 0 .. L - 1 PROVE Behind(c, i)' = next[d[i + 1]]
      <3>1. CASE i = 0 BY <1>2, <1>8, <3>1 DEF Behind
      <3>2. CASE i # 0
        <4>1. i \in 1 .. L - 1 BY <1>7, <3>2
        <4>2. QED BY <1>2, <1>9, <3>2, <4>1 DEF Behind
      <3>3. QED BY <3>1, <3>2
    <2>2. QED BY <2>1
  <1>12. \A i \in 1 .. L - 1 : c[i] = Behind(c, i - 1)'
    <2>1. SUFFICES ASSUME NEW i \in 1 .. L - 1 PROVE c[i] = Behind(c, i - 1)' OBVIOUS
    <2>2. i + 1 \in 1 .. L /\ i + 1 - 1 = i /\ i # 0 /\ i - 1 \in 0 .. L - 1 /\ i - 1 + 1 = i BY <1>7
    <2>3. d[i + 1] = Behind(d, i + 1 - 1) BY <1>3, <1>5, <2>2 DEF ChainIs
    <2>4. d[i + 1] = next[d[i]] BY <2>2, <2>3 DEF Behind
    <2>5. Behind(c, i - 1)' = next[d[i]] BY <1>11, <2>2
    <2>6. QED BY <1>9, <2>4, <2>5
  <1>13. Behind(c, L - 1)' = End
    <2>1. Behind(d, L) = End BY <1>3, <1>5 DEF ChainIs
    <2>2. next[d[L]] = End BY <1>7, <2>1 DEF Behind
    <2>3. L - 1 \in 0 .. L - 1 /\ L - 1 + 1 = L BY <1>7
    <2>4. QED BY <1>11, <2>2, <2>3
  <1>14. ChainIs(c)' BY <1>7, <1>9, <1>10, <1>12, <1>13 DEF ChainIs
  <1>15. Chain' = c BY <1>14, ChainNext DEF Base
  <1>16. Contents \in Seq(Items \cup {None}) /\ Len(Contents) = L /\ \A i \in 1 .. L : Contents[i] = elem[d[i]]
    BY <1>3, <1>5, ContentsFacts
  <1>17. Contents # <<>> /\ Head(Contents) = item[t]
    <2>1. 1 \in 1 .. L BY <1>7
    <2>2. Contents[1] = elem[a] BY <1>8, <1>16, <2>1
    <2>3. QED BY <1>2, <1>7, <1>16, <2>2
  <1>18. Contents' = Tail(Contents)
    <2>1. DOMAIN c = 1 .. L - 1 BY <1>7, <1>9
    <2>2. Contents' = [i \in 1 .. L - 1 |-> elem[c[i]]] BY <1>2, <1>15, <2>1 DEF Contents
    <2>3. /\ Tail(Contents) \in Seq(Items \cup {None}) /\ Len(Tail(Contents)) = L - 1
          /\ \A i \in 1 .. L - 1 : Tail(Contents)[i] = Contents[i + 1]
      BY <1>16, <1>17, HeadTailProperties
    <2>5. Tail(Contents) = [i \in 1 .. L - 1 |-> Tail(Contents)[i]] BY <2>3, SequenceIsFunction
    <2>4. \A i \in 1 .. L - 1 : Contents[i + 1] = elem[c[i]]
      <3>1. \A i \in 1 .. L - 1 : i + 1 \in 1 .. L BY <1>7
      <3>2. QED BY <1>9, <1>16, <3>1
    <2>6. QED BY <2>2, <2>3, <2>4, <2>5
  <1>19. QED BY <1>14, <1>15, <1>17, <1>18

\* A step is a step of the atomic queue, or it changes neither the contents nor the calls.
LEMMA StepIsAtomic ==
  ASSUME Base, Base', Shaped, Fresh, Seen, ~Recycles, NEW t \in Threads, Calls(t) \/ Step(t)
  PROVE  /\ ChainIs(Chain)'
         /\ \/ UNCHANGED <<Contents, CallsMade>>
            \/ Fifo!Begin(t) \/ Fifo!Push(t) \/ Fifo!PopFirst(t) \/ Fifo!PopNothing(t) \/ Fifo!Return(t)
  <1> DEFINE later == CallOf(t)'
  <1>1. CallsMade[t] = CallOf(t) /\ CallsMade' = [CallsMade EXCEPT ![t] = later]
    BY OthersCall DEF CallsMade
  <1>2. later = CallOf(t) => CallsMade' = CallsMade BY <1>1 DEF CallsMade
  <1>3. Fifo!Moves(t, later) BY <1>1 DEF Fifo!Moves
  <1>4. /\ op'[t] = "idle" => later = Fifo!Doing("idle", None)
        /\ op'[t] \in {"finish", "count"} => later = Fifo!Doing("pushed", None)
        /\ (t \in Pushers)' => later = Fifo!Doing("push", elem'[node'[t]])
        /\ Popping(t)' => later = Fifo!Doing("pop", None)
        /\ op'[t] \in {"uncount", "free"} => later = Fifo!Doing("got", item'[t])
    BY CallFactsNext
  <1>5. /\ op[t] = "idle" => CallOf(t) = Fifo!Doing("idle", None)
        /\ op[t] \in {"finish", "count"} => CallOf(t) = Fifo!Doing("pushed", None)
        /\ t \in Pushers => CallOf(t) = Fifo!Doing("push", elem[node[t]])
        /\ Popping(t) => CallOf(t) = Fifo!Doing("pop", None)
        /\ op[t] \in {"uncount", "free"} => CallOf(t) = Fifo!Doing("got", item[t])
    BY CallFacts
  <1>t. TypeOK BY DEF Base
  <1> HIDE DEF later
  <1>6. CASE LinkNode(t)
    <2>1. t \in Pushers /\ op'[t] = "finish" BY <1>6, <1>t DEF LinkNode, Goes, Pushers, PushSteps, TypeOK
    <2>2. CallOf(t) = Fifo!Doing("push", elem[node[t]]) /\ later = Fifo!Doing("pushed", None) BY <1>4, <1>5, <2>1
    <2>3. Contents' = Append(Contents, elem[node[t]]) /\ ChainIs(Chain)' BY <1>6, PushedContents
    <2>4. QED BY <1>1, <1>3, <2>2, <2>3 DEF Fifo!Push, Fifo!Doing
  <1>7. CASE SwapHead(t)
    <2>1. op[t] = "swap" /\ op'[t] = "uncount" /\ item' = item BY <1>7, <1>t DEF SwapHead, Goes, TypeOK
    <2>2. Popping(t) BY <2>1 DEF Popping, PopSteps
    <2>3. CallOf(t) = Fifo!Doing("pop", None) /\ later = Fifo!Doing("got", item[t]) BY <1>4, <1>5, <2>1, <2>2
    <2>4. Contents # <<>> /\ Contents' = Tail(Contents) /\ Head(Contents) = item[t] /\ ChainIs(Chain)'
      BY <1>7, PoppedContents
    <2>5. QED BY <1>1, <1>3, <2>3, <2>4 DEF Fifo!PopFirst, Fifo!Doing
  <1>8. SUFFICES ASSUME ~LinkNode(t), ~SwapHead(t), Contents' = Contents
                 PROVE  \/ CallsMade' = CallsMade
                        \/ Fifo!Begin(t) \/ Fifo!PopNothing(t) \/ Fifo!Return(t)
    BY <1>6, <1>7, SameContents
  <1>9. CASE PopItem(t)
    <2>1. op[t] = "idle" /\ op'[t] = "headSequence" BY <1>9, <1>t DEF PopItem, Goes, TypeOK
    <2>2. Popping(t)' BY <2>1 DEF Popping, PopSteps
    <2>3. CallOf(t) = Fifo!Idle /\ later = Fifo!Doing("pop", None) BY <1>4, <1>5, <2>1, <2>2 DEF Fifo!Idle
    <2>4. QED BY <1>1, <1>3, <1>8, <2>3 DEF Fifo!Begin
  <1>10. ASSUME NEW e \in Items, PushItem(t, e) PROVE Fifo!Begin(t)
    <2>1. PICK n \in Nodes : Takes(t, n) /\ elem'[n] = e BY <1>10, PushTakes
    <2>2. op[t] = "idle" /\ (t \in Pushers)' /\ elem'[node'[t]] = e
      BY <2>1, TakesSets, StepRest, <1>t DEF Takes
    <2>3. CallOf(t) = Fifo!Idle /\ later = Fifo!Doing("push", e) BY <1>4, <1>5, <2>2 DEF Fifo!Idle
    <2>4. QED BY <1>1, <1>3, <1>8, <2>3 DEF Fifo!Begin
  <1>11. CASE PushLoop(t) \/ HelpPush(t)
    <2>1. t \in Pushers /\ (t \in Pushers)' /\ node'[t] = node[t]
      BY <1>11, <1>t DEF PushLoop, ReadTailSequence, ReadTailNode, LinkFails, ReadNextOfTail, HelpPush, Turns, Goes,
                         Pushers, PushSteps, TypeOK
    <2>2. elem'[node[t]] = elem[node[t]] BY <2>1, ElemStays, LiveFacts DEF Held
    <2>3. QED BY <1>2, <1>4, <1>5, <2>1, <2>2
  <1>12. CASE FinishOwnPush(t)
    <2>1. op[t] = "finish" /\ op'[t] = "count" BY <1>12, <1>t DEF FinishOwnPush, Turns, Goes, TypeOK
    <2>2. QED BY <1>2, <1>4, <1>5, <2>1
  <1>13. CASE CountPush(t)
    <2>1. op[t] = "count" /\ op'[t] = "idle" BY <1>13, <1>t DEF CountPush, Goes, TypeOK
    <2>2. CallOf(t) = Fifo!Doing("pushed", None) /\ later = Fifo!Idle BY <1>4, <1>5, <2>1 DEF Fifo!Idle
    <2>3. QED BY <1>1, <1>3, <1>8, <2>2 DEF Fifo!Return, Fifo!Doing
  <1>14. ASSUME Popping(t), Popping(t)' PROVE CallsMade' = CallsMade BY <1>2, <1>4, <1>5, <1>14
  <1>15. CASE ReadHeadSequence(t) \/ ReadHeadNode(t) \/ ReadTailSequenceToPop(t) \/ ReadNextOfHead(t)
    <2>1. Popping(t) /\ Popping(t)'
      BY <1>15, <1>t DEF ReadHeadSequence, ReadHeadNode, ReadTailSequenceToPop, ReadNextOfHead, Goes,
                         Popping, PopSteps, TypeOK
    <2>2. QED BY <1>14, <2>1
  <1>16. CASE Recheck(t)
    <2>1. op[t] = "recheck" /\ op'[t] \in {"compare", "headSequence"}
      BY <1>16, <1>t DEF Recheck, Turns, Goes, TypeOK
    <2>2. Popping(t) /\ Popping(t)' BY <2>1 DEF Popping, PopSteps
    <2>3. QED BY <1>14, <2>2
  <1>17. CASE Compare(t)
    <2>1. op[t] = "compare" /\ op'[t] \in {"idle", "headSequence", "help pop", "elem"}
          /\ (op'[t] = "idle" => after[t] = End)
      BY <1>17, <1>t DEF Compare, Turns, Goes, TypeOK
    <2>2. Popping(t) BY <2>1 DEF Popping, PopSteps
    <2>3. CASE op'[t] = "idle"
      <3>1. t \in sawEmpty BY <2>1, <2>3 DEF Seen
      <3>2. CallOf(t) = Fifo!Doing("pop", None) /\ later = Fifo!Idle BY <1>4, <1>5, <2>2, <2>3 DEF Fifo!Idle
      <3>3. QED BY <1>1, <1>3, <1>8, <3>1, <3>2 DEF Fifo!PopNothing, Fifo!Doing
    <2>4. CASE op'[t] # "idle"
      <3>1. Popping(t)' BY <2>1, <2>4 DEF Popping, PopSteps
      <3>2. QED BY <1>14, <2>2, <3>1
    <2>5. QED BY <2>3, <2>4
  <1>18. CASE HelpPop(t) \/ ReadElem(t) \/ SwapFails(t)
    <2>1. Popping(t) /\ Popping(t)'
      BY <1>18, <1>t DEF HelpPop, ReadElem, SwapFails, Turns, Goes, Popping, PopSteps, TypeOK
    <2>2. QED BY <1>14, <2>1
  <1>19. CASE CountPop(t)
    <2>1. op[t] = "uncount" /\ op'[t] = "free" /\ item' = item BY <1>19, <1>t DEF CountPop, Goes, TypeOK
    <2>2. QED BY <1>2, <1>4, <1>5, <2>1
  <1>20. CASE ReturnItem(t)
    <2>1. op[t] = "free" /\ op'[t] = "idle" BY <1>20, <1>t DEF ReturnItem, Turns, Goes, TypeOK
    <2>2. CallOf(t) = Fifo!Doing("got", item[t]) /\ later = Fifo!Idle BY <1>4, <1>5, <2>1 DEF Fifo!Idle
    <2>3. QED BY <1>1, <1>3, <1>8, <2>2 DEF Fifo!Return, Fifo!Doing
  <1>21. QED BY <1>8, <1>9, <1>10, <1>11, <1>12, <1>13, <1>15, <1>16, <1>17, <1>18, <1>19, <1>20
         DEF Calls, Step, PushLoop

LEMMA PopCallsNext == (\A t \in Threads : TypeOK => (CallOf(t).op = "pop" <=> Popping(t)))'
  <1>1. \A t \in Threads : TypeOK => (CallOf(t).op = "pop" <=> Popping(t)) BY PopCalls
  <1>2. QED BY <1>1, PTL

\* The history of the threads that pop is the one of the atomic queue, and a step that is
\* none of its steps does not change it.
LEMMA SawIsAtomic ==
  ASSUME Base, Base', Shaped, Seen, ~Recycles, ChainIs(Chain)', Notes
  PROVE  /\ sawEmpty' = {t \in Threads : CallsMade'[t].op = "pop" /\ (Contents' = <<>> \/ t \in sawEmpty)}
         /\ UNCHANGED <<Contents, CallsMade>> => sawEmpty' = sawEmpty
  <1>1. Contents' = <<>> <=> next'[head'.pNode] = End BY EmptyContentsNext
  <1>2. \A t \in Threads : CallsMade'[t].op = "pop" <=> Popping(t)' BY PopCallsNext DEF CallsMade, Base
  <1>3. sawEmpty' = {t \in Threads : CallsMade'[t].op = "pop" /\ (Contents' = <<>> \/ t \in sawEmpty)}
    BY <1>1, <1>2 DEF Notes
  <1>4. ASSUME UNCHANGED <<Contents, CallsMade>> PROVE sawEmpty' = sawEmpty
    <2>1. Contents = <<>> <=> next[head.pNode] = End BY WholeChain, EmptyContents
    <2>2. \A t \in Threads : CallsMade[t].op = "pop" <=> Popping(t) BY PopCalls DEF CallsMade, Base
    <2>3. \A t \in Threads : t \in sawEmpty <=> Popping(t) /\ (Contents = <<>> \/ t \in sawEmpty)
      BY <2>1 DEF Seen
    <2>4. sawEmpty \subseteq Threads BY DEF Base, TypeOK
    <2>5. QED BY <1>3, <1>4, <2>2, <2>3, <2>4
  <1>5. QED BY <1>3, <1>4

\* As long as no node is reused the queue is linearizable: whatever its threads do, it is
\* a first-in, first-out queue whose operations happen at one instant each.
THEOREM TSQueueIsItemQueue ==
  ASSUME ~Recycles
  PROVE  Spec => IsItemQueue
  <1>1. Init => Fifo!Init
    <2>1. SUFFICES ASSUME Init PROVE Fifo!Init OBVIOUS
    <2>2. Base /\ Shaped BY <2>1, InitBase, InitShaped
    <2>3. next[head.pNode] = End BY <2>1 DEF Init
    <2>4. Contents = <<>> BY <2>2, <2>3, WholeChain, EmptyContents
    <2>5. \A t \in Threads : CallOf(t) = Fifo!Idle BY <2>1, CallFacts DEF Init, Fifo!Idle
    <2>6. CallsMade = [t \in Threads |-> Fifo!Idle] BY <2>5 DEF CallsMade
    <2>7. sawEmpty = {} BY <2>1 DEF Init
    <2>8. QED BY <2>4, <2>6, <2>7 DEF Fifo!Init
  <1> DEFINE I == Base /\ Shaped /\ Fresh /\ Seen
  <1>2. I /\ I' /\ [Next]_vars => [Fifo!Next]_Fifo!atomic
    <2>1. SUFFICES ASSUME I, I', [Next]_vars PROVE [Fifo!Next]_Fifo!atomic OBVIOUS
    <2>2. CASE UNCHANGED vars
      <3>1. Chain' = Chain BY <2>2 DEF vars, queue, Chain
      <3>2. UNCHANGED <<Contents, CallsMade, sawEmpty>>
        BY <2>2, <3>1 DEF vars, queue, locals, Contents, CallsMade, CallOf, Popping
      <3>3. QED BY <3>2 DEF Fifo!atomic
    <2>3. ASSUME NEW t \in Threads, Calls(t) \/ Step(t), Notes PROVE [Fifo!Next]_Fifo!atomic
      <3>1. /\ ChainIs(Chain)'
            /\ \/ UNCHANGED <<Contents, CallsMade>>
               \/ Fifo!Begin(t) \/ Fifo!Push(t) \/ Fifo!PopFirst(t) \/ Fifo!PopNothing(t) \/ Fifo!Return(t)
        BY <2>1, <2>3, StepIsAtomic
      <3>2. /\ sawEmpty' = {u \in Threads : CallsMade'[u].op = "pop" /\ (Contents' = <<>> \/ u \in sawEmpty)}
            /\ UNCHANGED <<Contents, CallsMade>> => sawEmpty' = sawEmpty
        BY <2>1, <2>3, <3>1, SawIsAtomic
      <3>3. QED BY <3>1, <3>2 DEF Fifo!Next, Fifo!atomic
    <2>4. QED BY <2>1, <2>2, <2>3 DEF Next
  <1>3. QED BY <1>1, <1>2, ShapedAlways, SeenAlways, PTL DEF Spec, IsItemQueue, Fifo!Spec
==============================================================================
