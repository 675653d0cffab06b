------------------------------- MODULE TSList -------------------------------
(***************************************************************************)
(* The lock-free list of tier0 (CTSListBase), as CTSList<T> uses it:       *)
(* threads push and pop items and purge the list, with a head that is      *)
(* swapped as a whole and a sequence number against nodes that come back.  *)
(*                                                                         *)
(* The head is read in two halves, in whichever order the build loads      *)
(* them, and the link of a node that is in no list may be anything: its    *)
(* owner is writing it, or the heap has it.  Memory that was freed stays   *)
(* readable, as the node reuse of the list counts on.  The depth does not  *)
(* overflow: there are fewer nodes than a half word counts.                *)
(***************************************************************************)
EXTENDS Integers, Sequences, Functions

CONSTANTS
    Threads,
    Nodes,      \* the blocks of memory that are, were or will be nodes
    Items,
    SeqMod,     \* the number of values of head.Sequence, 2^16 in the code
    None        \* no node and no item

ASSUME ListAssumption ==
    /\ None \notin Nodes /\ None \notin Items
    /\ SeqMod \in Nat /\ SeqMod > 1

VARIABLES
    head,       \* m_Head
    next,       \* Next of every node
    elem,       \* elem of every node
    free,       \* the nodes that are not allocated
    op,         \* what a thread is executing
    node,       \* pNode of a push, the node a pop has taken, pCurrent of a purge
    loaded,     \* the parts of its locals a thread has read in this turn of its loop
    old,        \* oldHead
    link,       \* newHead.value.Next of a pop
    list,       \* history: the nodes in the list, the top one last
    swept,      \* history: the nodes a purge has detached and not yet deleted
    late        \* history: how many pushes have happened since a thread read the sequence

memory == <<head, next, elem, free>>
locals == <<op, node, loaded, old, link>>
history == <<list, swept, late>>
vars == <<memory, locals, history>>

Ops == {"idle", "push", "pop", "take", "purge", "sweep"}
Loops == {"push", "pop", "purge"}
Heads == [Next : Nodes \cup {None}, Depth : Nat, Sequence : 0 .. SeqMod - 1]

NoHead == [Next |-> None, Depth |-> 0, Sequence |-> 0]
Empty == [t \in Threads |-> None]

Init ==
    /\ head = NoHead
    /\ next = [n \in Nodes |-> None] /\ elem = [n \in Nodes |-> None] /\ free = Nodes
    /\ op = [t \in Threads |-> "idle"] /\ node = Empty /\ link = Empty
    /\ loaded = [t \in Threads |-> {}] /\ old = [t \in Threads |-> NoHead]
    /\ list = <<>> /\ swept = [t \in Threads |-> <<>>] /\ late = [t \in Threads |-> 0]

Goes(t, o) == op' = [op EXCEPT ![t] = o]

\* Mutant: the head is read once, before the loop.
RestartsStale(t) == UNCHANGED <<loaded, old, link>>

\* The locals of a turn of the loop are read anew in the next one.
Restarts(t) ==
    /\ loaded' = [loaded EXCEPT ![t] = {}] /\ old' = [old EXCEPT ![t] = NoHead]
    /\ link' = [link EXCEPT ![t] = None]

InTime(t) == late' = [late EXCEPT ![t] = 0]

Front(s) == SubSeq(s, 1, Len(s) - 1)
Last(s) == s[Len(s)]
-----------------------------------------------------------------------------
\* PushItem: a new node with the item.
PushItem(t, e) ==
    /\ op[t] = "idle"
    /\ \E n \in free :
        /\ free' = free \ {n}
        /\ elem' = [elem EXCEPT ![n] = e]
        /\ node' = [node EXCEPT ![t] = n]
    /\ Goes(t, "push")
    /\ UNCHANGED <<head, next, loaded, old, link, history>>

PopItem(t) ==
    /\ op[t] = "idle"
    /\ Goes(t, "pop")
    /\ UNCHANGED <<memory, node, loaded, old, link, history>>

Purge(t) ==
    /\ op[t] = "idle"
    /\ Goes(t, "purge")
    /\ UNCHANGED <<memory, node, loaded, old, link, history>>

LoadNext(t) ==
    /\ op[t] \in Loops /\ "Next" \notin loaded[t]
    /\ old' = [old EXCEPT ![t].Next = head.Next]
    /\ loaded' = [loaded EXCEPT ![t] = @ \cup {"Next"}]
    /\ UNCHANGED <<memory, op, node, link, history>>

LoadTag(t) ==
    /\ op[t] \in Loops /\ "tag" \notin loaded[t]
    /\ old' = [old EXCEPT ![t].Depth = head.Depth, ![t].Sequence = head.Sequence]
    /\ loaded' = [loaded EXCEPT ![t] = @ \cup {"tag"}]
    /\ UNCHANGED <<memory, op, node, link, history>>

HeadLoaded(t) == {"Next", "tag"} \subseteq loaded[t]

\* Pop and Detach of an empty list return NULL.
ReturnNull(t) ==
    /\ op[t] \in {"pop", "purge"} /\ HeadLoaded(t) /\ old[t].Next = None
    /\ Goes(t, "idle") /\ Restarts(t) /\ InTime(t)
    /\ UNCHANGED <<memory, node, list, swept>>

LoadLink(t) ==
    /\ op[t] = "pop" /\ HeadLoaded(t) /\ old[t].Next # None /\ "link" \notin loaded[t]
    /\ \E n \in IF old[t].Next \in Range(list) THEN {next[old[t].Next]} ELSE Nodes \cup {None} :
        link' = [link EXCEPT ![t] = n]
    /\ loaded' = [loaded EXCEPT ![t] = @ \cup {"link"}]
    /\ UNCHANGED <<memory, op, node, old, history>>
-----------------------------------------------------------------------------
\* Mutant: only the pointer is compared.
SameNext(t) == head.Next = old[t].Next

\* ThreadInterlockedAssignIf64x128.
Unchanged(t) == head = old[t]

\* Another thread was faster: the loop goes round again.
Retry(t) ==
    /\ op[t] \in Loops /\ HeadLoaded(t) /\ ~Unchanged(t)
    /\ op[t] # "push" => old[t].Next # None
    /\ op[t] = "pop" => "link" \in loaded[t]
    /\ Restarts(t) /\ InTime(t)
    /\ UNCHANGED <<memory, op, node, list, swept>>

\* Mutant: the number is wider than its half word.
NextSequenceWide(s) == s + 1

NextSequence(s) == IF s = SeqMod - 1 THEN 0 ELSE s + 1

\* Mutant: only the depth is counted.
PushedHeadSameSequence(t) ==
    [Next |-> node[t], Depth |-> old[t].Depth + 1, Sequence |-> old[t].Sequence]

PushedHead(t) ==
    [Next |-> node[t], Depth |-> old[t].Depth + 1, Sequence |-> NextSequence(old[t].Sequence)]

Overtaken(t) == {u \in Threads \ {t} : "tag" \in loaded[u]}

\* Fewer pushes than the sequence number has values happen while another thread
\* is between the reading of the head and its swap.
NoWrap(t) == \A u \in Overtaken(t) : late[u] < SeqMod - 1

PushSwap(t) ==
    /\ op[t] = "push" /\ HeadLoaded(t) /\ Unchanged(t) /\ NoWrap(t)
    /\ head' = PushedHead(t)
    /\ next' = [next EXCEPT ![node[t]] = old[t].Next]
    /\ Goes(t, "idle") /\ Restarts(t)
    /\ node' = [node EXCEPT ![t] = None]
    /\ list' = Append(list, node[t])
    /\ late' = [u \in Threads |-> IF u \in Overtaken(t) THEN late[u] + 1 ELSE 0]
    /\ UNCHANGED <<elem, free, swept>>

PoppedHead(t) == [Next |-> link[t], Depth |-> old[t].Depth - 1, Sequence |-> old[t].Sequence]

PopSwap(t) ==
    /\ op[t] = "pop" /\ "link" \in loaded[t] /\ Unchanged(t)
    /\ head' = PoppedHead(t)
    /\ Goes(t, "take") /\ Restarts(t) /\ InTime(t)
    /\ node' = [node EXCEPT ![t] = old[t].Next]
    /\ list' = Front(list)
    /\ UNCHANGED <<next, elem, free, swept>>

\* Mutant: the depth is not masked out.
DetachedHeadSameDepth(t) == [Next |-> None, Depth |-> old[t].Depth, Sequence |-> old[t].Sequence]

DetachedHead(t) == [Next |-> None, Depth |-> 0, Sequence |-> old[t].Sequence]

DetachSwap(t) ==
    /\ op[t] = "purge" /\ HeadLoaded(t) /\ old[t].Next # None /\ Unchanged(t)
    /\ head' = DetachedHead(t)
    /\ Goes(t, "sweep") /\ Restarts(t) /\ InTime(t)
    /\ node' = [node EXCEPT ![t] = old[t].Next]
    /\ list' = <<>> /\ swept' = [swept EXCEPT ![t] = list]
    /\ UNCHANGED <<next, elem, free>>

\* delete: the heap has the node again.
Delete(n) ==
    /\ free' = free \cup {n}
    /\ next' = [next EXCEPT ![n] = None] /\ elem' = [elem EXCEPT ![n] = None]

\* The rest of PopItem, which returns the item.
TakeItem(t) ==
    /\ op[t] = "take"
    /\ Delete(node[t])
    /\ Goes(t, "idle") /\ node' = [node EXCEPT ![t] = None]
    /\ UNCHANGED <<head, loaded, old, link, history>>

\* Mutant: the node is deleted before its link is read.
SweepNextDeleted(t) == next'[node[t]]

SweepNext(t) == next[node[t]]

\* A turn of the loop of Purge.
Sweep(t) ==
    /\ op[t] = "sweep"
    /\ Delete(node[t])
    /\ node' = [node EXCEPT ![t] = SweepNext(t)]
    /\ Goes(t, IF SweepNext(t) = None THEN "idle" ELSE "sweep")
    /\ swept' = [swept EXCEPT ![t] = Front(@)]
    /\ UNCHANGED <<head, loaded, old, link, list, late>>
-----------------------------------------------------------------------------
Calls(t) == PopItem(t) \/ Purge(t) \/ \E e \in Items : PushItem(t, e)

Step(t) ==
    \/ LoadNext(t) \/ LoadTag(t) \/ LoadLink(t) \/ ReturnNull(t) \/ Retry(t)
    \/ PushSwap(t) \/ PopSwap(t) \/ DetachSwap(t) \/ TakeItem(t) \/ Sweep(t)

Next == \E t \in Threads : Calls(t) \/ Step(t)

Spec == Init /\ [][Next]_vars

\* While threads are in operations some thread is run; none in particular, any of
\* them may be stopped for ever.
FairSpec == Spec /\ WF_vars(\E t \in Threads : Step(t))
-----------------------------------------------------------------------------
TypeOK ==
    /\ head \in Heads
    /\ next \in [Nodes -> Nodes \cup {None}] /\ elem \in [Nodes -> Items \cup {None}]
    /\ free \subseteq Nodes
    /\ op \in [Threads -> Ops] /\ node \in [Threads -> Nodes \cup {None}]
    /\ loaded \in [Threads -> SUBSET {"Next", "tag", "link"}]
    /\ old \in [Threads -> Heads] /\ link \in [Threads -> Nodes \cup {None}]
    /\ list \in Seq(Nodes) /\ swept \in [Threads -> Seq(Nodes)]
    /\ late \in [Threads -> 0 .. SeqMod - 1]

\* The nodes of s hang together, from the last to the first.
Linked(s) ==
    \A i \in DOMAIN s : next[s[i]] = IF i = 1 THEN None ELSE s[i - 1]

TopOf(s) == IF s = <<>> THEN None ELSE Last(s)

\* The head and the links hold the items that were pushed and not popped or
\* purged, newest first, and Count() is their number.
HeadHoldsList ==
    /\ Linked(list) /\ head.Next = TopOf(list)
    /\ head.Depth = Len(list)

Once(s) == \A i, j \in DOMAIN s : s[i] = s[j] => i = j

\* The nodes in the hands of thread t.
Held(t) == {n \in Nodes :
    \/ op[t] \in {"push", "take"} /\ n = node[t]
    \/ op[t] = "sweep" /\ n \in Range(swept[t])}

\* No node is given to two threads, is in the list and in a thread's hands, or
\* deleted while it is in either; and none is lost.
EveryNodeOnce ==
    /\ Once(list)
    /\ \A t \in Threads : Held(t) \cap (free \cup Range(list)) = {}
    /\ \A t \in Threads : \A u \in Threads \ {t} : Held(t) \cap Held(u) = {}
    /\ free \cap Range(list) = {}
    /\ Nodes = free \cup Range(list) \cup UNION {Held(t) : t \in Threads}

\* The list is whole and its nodes are its own, whatever its threads still point to.
ListWhole == HeadHoldsList /\ EveryNodeOnce

\* The list is a stack whose operations are atomic (linearizable): an empty pop
\* takes effect when it reads the pointer, the others when they swap the head.
FoundNothing(t) == "Next" \in loaded[t] /\ old[t].Next = None

CallOf(t) ==
    LET Doing(o, e) == [op |-> o, item |-> e]
    IN  CASE op[t] = "push" -> Doing("push", elem[node[t]])
          [] op[t] = "pop" -> Doing(IF FoundNothing(t) THEN "got" ELSE "pop", None)
          [] op[t] = "take" -> Doing("got", elem[node[t]])
          [] op[t] = "purge" -> Doing(IF FoundNothing(t) THEN "purged" ELSE "purge", None)
          [] op[t] = "sweep" -> Doing("purged", None)
          [] OTHER -> Doing("idle", None)

Contents == [i \in DOMAIN list |-> elem[list[i]]]
CallsMade == [t \in Threads |-> CallOf(t)]

Stack == INSTANCE ItemStack WITH stack <- Contents, call <- CallsMade

IsItemStack == Stack!Spec

\* Lock freedom: as long as some thread is in an operation and some thread is run,
\* operations return, whichever threads are never run again.
LockFree ==
    \/ <>[](\A t \in Threads : op[t] = "idle")
    \/ []<><<\E t \in Threads : op[t] # "idle" /\ op'[t] = "idle">>_vars
=============================================================================
