------------------------------- MODULE TSQueue -------------------------------
(***************************************************************************)
(* The lock-free queue of tier0 (CTSQueue): a chain of nodes with a dummy  *)
(* at its head, a tail that may lag behind and that every thread helps     *)
(* along, and a free list (CTSListBase) from which PushItem takes the      *)
(* nodes that PopItem has given back.                                      *)
(*                                                                         *)
(* Every shared word that is read or swapped is a step of its own.  The    *)
(* free list is atomic, as TSList shows, and keeps its links in the pNext  *)
(* of its nodes.  What a thread does to a node that only it holds is part  *)
(* of the step before or after.  Reads happen in program order: Pop has a  *)
(* barrier between the two of the head, Push has none between the two of   *)
(* the tail, whose order its comment on FinishPush takes for granted.  The *)
(* sequence numbers are machine words and do not wrap.  Without Recycles,  *)
(* the nodes are those of callers of Push and Pop who free no node while   *)
(* the queue is in use.                                                    *)
(***************************************************************************)
EXTENDS Integers, Sequences, FiniteSets, Functions

CONSTANTS
    Threads,
    Nodes,
    Items,      \* what may be pushed, each item once: the bound on the number of pushes
    Recycles,   \* nodes come back by the free list
    End,        \* the mark of the end of the chain
    None        \* NULL, and no item

ASSUME QueueAssumption ==
    /\ IsFiniteSet(Nodes) /\ End \notin Nodes /\ None \notin Nodes \cup Items /\ End # None
    /\ Recycles \in BOOLEAN

VARIABLES
    head,       \* m_Head
    tail,       \* m_Tail
    count,      \* m_Count
    next,       \* pNext of every node
    elem,       \* elem of every node
    freeNodes,  \* m_FreeNodes, its top first
    unused,     \* the nodes that were never allocated
    op,         \* the step a thread takes next
    node,       \* pNode of a push
    link,       \* oldTail of a push, head of a pop
    tailSeq,    \* tailSequence of a pop
    after,      \* the pNext that was read
    item,       \* elem of a pop
    unsent,     \* history: the items that were not pushed yet
    linked,     \* history: the nodes that were linked and whose item was not popped
    sawEmpty    \* history: the threads that pop and for which the queue was empty meanwhile

queue == <<head, tail, count, next, elem, freeNodes, unused>>
locals == <<op, node, link, tailSeq, after, item>>
history == <<unsent, linked>>
vars == <<queue, locals, history, sawEmpty>>

Links == [pNode : Nodes \cup {None}, sequence : Nat]
NoLink == [pNode |-> None, sequence |-> 0]

PushSteps == {"tailSequence", "tailNode", "link", "next of tail", "help", "finish", "count"}
PopSteps == {"headSequence", "headNode", "tail sequence", "next of head", "recheck", "compare",
             "help pop", "elem", "swap", "uncount", "free"}

Init == \E dummy \in Nodes :
    /\ head = [pNode |-> dummy, sequence |-> 0] /\ tail = head /\ count = 0
    /\ next = [n \in Nodes |-> IF n = dummy THEN End ELSE None]
    /\ elem = [n \in Nodes |-> None] /\ freeNodes = <<>> /\ unused = Nodes \ {dummy}
    /\ op = [t \in Threads |-> "idle"] /\ node = [t \in Threads |-> None]
    /\ link = [t \in Threads |-> NoLink] /\ tailSeq = [t \in Threads |-> 0]
    /\ after = [t \in Threads |-> None] /\ item = [t \in Threads |-> None]
    /\ unsent = Items /\ linked = {} /\ sawEmpty = {}

Goes(t, step) == op' = [op EXCEPT ![t] = step]

\* A turn of a loop begins: what the last one read is not used again.
Turns(t, step) ==
    /\ Goes(t, step)
    /\ link' = [link EXCEPT ![t] = NoLink] /\ tailSeq' = [tailSeq EXCEPT ![t] = 0]
    /\ after' = [after EXCEPT ![t] = None]

\* Mutant: the pointers are compared without their sequence.
FinishPushUncounted(n, old) ==
    tail' = IF tail.pNode = old.pNode THEN [pNode |-> n, sequence |-> old.sequence + 1] ELSE tail

\* FinishPush: the tail moves on unless it has moved already.
FinishPush(n, old) == tail' = IF tail = old THEN [pNode |-> n, sequence |-> old.sequence + 1] ELSE tail

-----------------------------------------------------------------------------
\* PushItem, up to the loop of Push: a node of the free list or a new one.
PushItem(t, e) ==
    /\ op[t] = "idle" /\ e \in unsent
    /\ \E n \in Nodes :
        /\ IF freeNodes # <<>>
           THEN n = Head(freeNodes) /\ freeNodes' = Tail(freeNodes) /\ UNCHANGED unused
           ELSE n \in unused /\ unused' = unused \ {n} /\ UNCHANGED freeNodes
        /\ elem' = [elem EXCEPT ![n] = e]
        /\ next' = [next EXCEPT ![n] = End]
        /\ node' = [node EXCEPT ![t] = n]
    /\ Goes(t, "tailSequence")
    /\ unsent' = unsent \ {e}
    /\ UNCHANGED <<head, tail, count, link, tailSeq, after, item, linked>>

ReadTailSequence(t) ==
    /\ op[t] = "tailSequence"
    /\ link' = [link EXCEPT ![t].sequence = tail.sequence]
    /\ Goes(t, "tailNode")
    /\ UNCHANGED <<queue, node, tailSeq, after, item, history>>

ReadTailNode(t) ==
    /\ op[t] = "tailNode"
    /\ link' = [link EXCEPT ![t].pNode = tail.pNode]
    /\ Goes(t, "link")
    /\ UNCHANGED <<queue, node, tailSeq, after, item, history>>

\* Mutant: the link is stored without a comparison.
TailIsLastUnseen(t) == TRUE

TailIsLast(t) == next[link[t].pNode] = End

\* The interlocked exchange that links the node, if there is nothing behind the old tail.
LinkNode(t) ==
    /\ op[t] = "link" /\ TailIsLast(t)
    /\ next' = [next EXCEPT ![link[t].pNode] = node[t]]
    /\ linked' = linked \cup {node[t]}
    /\ Goes(t, "finish")
    /\ UNCHANGED <<head, tail, count, elem, freeNodes, unused, node, link, tailSeq, after, item, unsent>>

LinkFails(t) ==
    /\ op[t] = "link" /\ ~TailIsLast(t)
    /\ Goes(t, "next of tail")
    /\ UNCHANGED <<queue, node, link, tailSeq, after, item, history>>

\* Another thread is trying to push, help it along.
ReadNextOfTail(t) ==
    /\ op[t] = "next of tail"
    /\ after' = [after EXCEPT ![t] = next[link[t].pNode]]
    /\ Goes(t, "help")
    /\ UNCHANGED <<queue, node, link, tailSeq, item, history>>

HelpPush(t) ==
    /\ op[t] = "help"
    /\ FinishPush(after[t], link[t])
    /\ Turns(t, "tailSequence")
    /\ UNCHANGED <<head, count, next, elem, freeNodes, unused, node, item, history>>

FinishOwnPush(t) ==
    /\ op[t] = "finish"
    /\ FinishPush(node[t], link[t])
    /\ Turns(t, "count")
    /\ UNCHANGED <<head, count, next, elem, freeNodes, unused, node, item, history>>

CountPush(t) ==
    /\ op[t] = "count"
    /\ count' = count + 1
    /\ Goes(t, "idle") /\ node' = [node EXCEPT ![t] = None]
    /\ UNCHANGED <<head, tail, next, elem, freeNodes, unused, link, tailSeq, after, item, history>>
-----------------------------------------------------------------------------
PopItem(t) ==
    /\ op[t] = "idle"
    /\ Goes(t, "headSequence")
    /\ UNCHANGED <<queue, node, link, tailSeq, after, item, history>>

ReadHeadSequence(t) ==
    /\ op[t] = "headSequence"
    /\ link' = [link EXCEPT ![t].sequence = head.sequence]
    /\ Goes(t, "headNode")
    /\ UNCHANGED <<queue, node, tailSeq, after, item, history>>

ReadHeadNode(t) ==
    /\ op[t] = "headNode"
    /\ link' = [link EXCEPT ![t].pNode = head.pNode]
    /\ Goes(t, "tail sequence")
    /\ UNCHANGED <<queue, node, tailSeq, after, item, history>>

ReadTailSequenceToPop(t) ==
    /\ op[t] = "tail sequence"
    /\ tailSeq' = [tailSeq EXCEPT ![t] = tail.sequence]
    /\ Goes(t, "next of head")
    /\ UNCHANGED <<queue, node, link, after, item, history>>

ReadNextOfHead(t) ==
    /\ op[t] = "next of head"
    /\ after' = [after EXCEPT ![t] = next[link[t].pNode]]
    /\ Goes(t, "recheck")
    /\ UNCHANGED <<queue, node, link, tailSeq, item, history>>

HeadStands(t) == after[t] # None /\ link[t].sequence = head.sequence

Recheck(t) ==
    /\ op[t] = "recheck"
    /\ IF HeadStands(t)
       THEN Goes(t, "compare") /\ UNCHANGED <<link, tailSeq, after>>
       ELSE Turns(t, "headSequence")
    /\ UNCHANGED <<queue, node, item, history>>

\* Mutant: the head may overtake the tail.
AtTailIfEmpty(t) == after[t] = End

AtTail(t) == link[t].pNode = tail.pNode

\* The head against the tail: nothing to pop, a push to help, or a node to take.
Compare(t) ==
    /\ op[t] = "compare"
    /\ IF after[t] = End
       THEN Turns(t, IF AtTail(t) THEN "idle" ELSE "headSequence")
       ELSE /\ Goes(t, IF AtTail(t) THEN "help pop" ELSE "elem")
            /\ UNCHANGED <<link, tailSeq, after>>
    /\ UNCHANGED <<queue, node, item, history>>

\* Mutant: the push is not helped, the loop goes round until its thread has finished it.
HelpPopWaits(t) ==
    /\ op[t] = "help pop"
    /\ Turns(t, "headSequence")
    /\ UNCHANGED <<head, tail, count, next, elem, freeNodes, unused, node, item, history>>

HelpPop(t) ==
    /\ op[t] = "help pop"
    /\ FinishPush(after[t], [link[t] EXCEPT !.sequence = tailSeq[t]])
    /\ Turns(t, "headSequence")
    /\ UNCHANGED <<head, count, next, elem, freeNodes, unused, node, item, history>>

\* The node may have been freed, by design.
ReadElem(t) ==
    /\ op[t] = "elem"
    /\ item' = [item EXCEPT ![t] = elem[after[t]]]
    /\ Goes(t, "swap")
    /\ UNCHANGED <<queue, node, link, tailSeq, after, history>>

\* Mutant: the pointers are compared without their sequence.
HeadIsNode(t) == head.pNode = link[t].pNode

HeadIs(t) == head = link[t]

SwapHead(t) ==
    /\ op[t] = "swap" /\ HeadIs(t)
    /\ head' = [pNode |-> after[t], sequence |-> link[t].sequence + 1]
    /\ linked' = linked \ {after[t]}
    /\ Goes(t, "uncount")
    /\ UNCHANGED <<tail, count, next, elem, freeNodes, unused, node, link, tailSeq, after, item, unsent>>

SwapFails(t) ==
    /\ op[t] = "swap" /\ ~HeadIs(t)
    /\ Turns(t, "headSequence")
    /\ item' = [item EXCEPT ![t] = None]
    /\ UNCHANGED <<queue, node, history>>

CountPop(t) ==
    /\ op[t] = "uncount"
    /\ count' = count - 1
    /\ Goes(t, "free")
    /\ UNCHANGED <<head, tail, next, elem, freeNodes, unused, node, link, tailSeq, after, item, history>>

FreeTop == IF freeNodes = <<>> THEN None ELSE Head(freeNodes)

\* The old dummy takes the item, which PopItem reads there, and is given back.
ReturnItem(t) ==
    /\ op[t] = "free"
    /\ IF Recycles
       THEN /\ next' = [next EXCEPT ![link[t].pNode] = FreeTop]
            /\ freeNodes' = <<link[t].pNode>> \o freeNodes
       ELSE UNCHANGED <<next, freeNodes>>
    /\ elem' = [elem EXCEPT ![link[t].pNode] = item[t]]
    /\ Turns(t, "idle") /\ item' = [item EXCEPT ![t] = None]
    /\ UNCHANGED <<head, tail, count, unused, node, history>>
-----------------------------------------------------------------------------
Popping(t) == op[t] \in PopSteps \ {"uncount", "free"}

Step(t) ==
    \/ ReadTailSequence(t) \/ ReadTailNode(t) \/ LinkNode(t) \/ LinkFails(t)
    \/ ReadNextOfTail(t) \/ HelpPush(t) \/ FinishOwnPush(t) \/ CountPush(t)
    \/ ReadHeadSequence(t) \/ ReadHeadNode(t) \/ ReadTailSequenceToPop(t) \/ ReadNextOfHead(t)
    \/ Recheck(t) \/ Compare(t) \/ HelpPop(t) \/ ReadElem(t) \/ SwapHead(t) \/ SwapFails(t)
    \/ CountPop(t) \/ ReturnItem(t)

Calls(t) == PopItem(t) \/ \E e \in Items : PushItem(t, e)

\* The history of the threads that pop.
Notes == sawEmpty' = {t \in Threads : Popping(t)' /\ (next'[head'.pNode] = End \/ t \in sawEmpty)}

Next == \E t \in Threads : (Calls(t) \/ Step(t)) /\ Notes

Spec == Init /\ [][Next]_vars

\* While threads are in operations some thread is run; none in particular, any of
\* them may be stopped for ever.
FairSpec == Spec /\ WF_vars(\E t \in Threads : Step(t) /\ Notes)
-----------------------------------------------------------------------------
TypeOK ==
    /\ head \in Links /\ tail \in Links /\ {head.pNode, tail.pNode} \subseteq Nodes /\ count \in Int
    /\ next \in [Nodes -> Nodes \cup {End, None}] /\ elem \in [Nodes -> Items \cup {None}]
    /\ freeNodes \in Seq(Nodes) /\ unused \subseteq Nodes
    /\ op \in [Threads -> {"idle"} \cup PushSteps \cup PopSteps] /\ node \in [Threads -> Nodes \cup {None}]
    /\ link \in [Threads -> Links] /\ tailSeq \in [Threads -> Nat]
    /\ after \in [Threads -> Nodes \cup {End, None}] /\ item \in [Threads -> Items \cup {None}]
    /\ unsent \subseteq Items /\ linked \subseteq Nodes /\ sawEmpty \subseteq Threads

\* The nodes behind the dummy.
Chain ==
    LET f[k \in 0 .. Cardinality(Nodes)] ==
            IF k = 0 THEN head.pNode ELSE IF f[k - 1] \in Nodes THEN next[f[k - 1]] ELSE End
        length == Cardinality({k \in 1 .. Cardinality(Nodes) : f[k] \in Nodes})
    IN  [k \in 1 .. length |-> f[k]]

\* The tail never falls behind the head, which would give its node to the free
\* list, and every node in the chain is one that was linked and not popped.
TailFollowsHead ==
    /\ tail.pNode \in {head.pNode} \cup Range(Chain)
    /\ Range(Chain) \subseteq linked

\* When nobody is in the middle of a push or a pop, every node that was pushed
\* and not popped can be reached from the head, and m_Count is their number.
NothingLost ==
    (\A t \in Threads : op[t] = "idle") => Range(Chain) = linked /\ count = Len(Chain)

\* The chain from the head is the queue, and the tail stays in it.
QueueWhole == TypeOK /\ TailFollowsHead /\ NothingLost

\* A pop takes a node that no other pop has taken, and the item that it read
\* before is that node's, although the node could have been reused in between.
PopsWhatWasLinked ==
    [][\A t \in Threads : SwapHead(t) => after[t] \in linked /\ item[t] = elem[after[t]]]_vars

CallOf(t) ==
    LET Doing(o, e) == [op |-> o, item |-> e]
    IN  CASE op[t] \in {"finish", "count"} -> Doing("pushed", None)
          [] op[t] \in PushSteps \ {"finish", "count"} -> Doing("push", elem[node[t]])
          [] Popping(t) -> Doing("pop", None)
          [] op[t] \in {"uncount", "free"} -> Doing("got", item[t])
          [] OTHER -> Doing("idle", None)

Contents == [k \in DOMAIN Chain |-> elem[Chain[k]]]
CallsMade == [t \in Threads |-> CallOf(t)]

Fifo == INSTANCE ItemQueue WITH queue <- Contents, call <- CallsMade

\* Without reuse of nodes the queue is a first-in, first-out queue whose
\* operations are atomic (linearizable).
IsItemQueue == Fifo!Spec

\* Lock freedom: as long as some thread is in an operation and some thread is run,
\* operations return, although a push that is stopped before it moves the tail
\* leaves the tail behind for the others.
LockFree ==
    \/ <>[](\A t \in Threads : op[t] = "idle")
    \/ []<><<\E t \in Threads : op[t] # "idle" /\ op'[t] = "idle">>_vars
==============================================================================
