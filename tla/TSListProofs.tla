----------------------------- MODULE TSListProofs -----------------------------
(***************************************************************************)
(* Theorems about TSList, for any threads, nodes and items and any number  *)
(* of values of the sequence number.                                       *)
(***************************************************************************)
EXTENDS TSList, SequenceTheorems, TLAPS

\* A thread has loaded only what its place in the loop allows, and holds the
\* node it works on.
LocalsInv == \A t \in Threads :
    /\ loaded[t] # {} => op[t] \in Loops
    /\ "link" \in loaded[t] => op[t] = "pop" /\ HeadLoaded(t) /\ old[t].Next # None
    /\ op[t] \in {"push", "take"} => node[t] \in Nodes
    /\ "tag" \notin loaded[t] => late[t] = 0

\* A purge walks down the nodes it has detached.
SweepInv == \A t \in Threads : op[t] = "sweep" =>
    /\ swept[t] # <<>> /\ node[t] = Last(swept[t])
    /\ Linked(swept[t]) /\ Once(swept[t])

\* The sequence number is behind by the pushes since; without one the list can
\* only have become shorter, and if it has not, it is the same list.
FreshInv == \A t \in Threads : "tag" \in loaded[t] =>
    /\ \/ head.Sequence = old[t].Sequence + late[t]
       \/ head.Sequence = old[t].Sequence + late[t] - SeqMod
    /\ late[t] = 0 => Len(list) <= old[t].Depth
    /\ /\ "link" \in loaded[t] /\ late[t] = 0
       /\ Len(list) = old[t].Depth /\ head.Next = old[t].Next
       => link[t] = next[old[t].Next]

Inv == TypeOK /\ HeadHoldsList /\ EveryNodeOnce /\ LocalsInv /\ SweepInv /\ FreshInv
-----------------------------------------------------------------------------
(***************************************************************************)
(* Sequences of nodes.                                                     *)
(***************************************************************************)

LEMMA AppendFacts ==
  ASSUME NEW s \in Seq(Nodes), NEW n \in Nodes
  PROVE  /\ Append(s, n) \in Seq(Nodes) /\ Len(Append(s, n)) = Len(s) + 1
         /\ DOMAIN Append(s, n) = 1 .. Len(s) + 1
         /\ \A i \in 1 .. Len(s) : Append(s, n)[i] = s[i]
         /\ Append(s, n)[Len(s) + 1] = n
  OBVIOUS

LEMMA FrontFacts ==
  ASSUME NEW s \in Seq(Nodes), s # <<>>
  PROVE  /\ Front(s) \in Seq(Nodes) /\ Len(Front(s)) = Len(s) - 1 /\ Len(s) \in Nat /\ Len(s) > 0
         /\ DOMAIN Front(s) = 1 .. Len(s) - 1
         /\ \A i \in 1 .. Len(s) - 1 : Front(s)[i] = s[i]
         /\ Last(s) \in Nodes
  <1> DEFINE m == Len(s) - 1
  <1>1. Len(s) \in Nat /\ Len(s) > 0 /\ DOMAIN s = 1 .. Len(s) /\ \A i \in 1 .. Len(s) : s[i] \in Nodes
    OBVIOUS
  <1>2. m \in Nat /\ \A i \in 1 .. m : s[i] \in Nodes BY <1>1
  <1>3. Last(s) \in Nodes BY <1>1 DEF Last
  <1>4. Front(s) = SubSeq(s, 1, m) BY DEF Front
  <1> HIDE DEF m
  <1>5. /\ Front(s) \in Seq(Nodes)
        /\ Len(Front(s)) = IF 1 <= m THEN m - 1 + 1 ELSE 0
        /\ \A i \in 1 .. m - 1 + 1 : Front(s)[i] = s[1 + i - 1]
    BY <1>2, <1>4, SubSeqProperties
  <1>6. m - 1 + 1 = m /\ \A i \in 1 .. m : 1 + i - 1 = i BY <1>2
  <1>7. Len(Front(s)) = m BY <1>2, <1>5, <1>6
  <1>8. \A i \in 1 .. m : Front(s)[i] = s[i] BY <1>5, <1>6
  <1>9. DOMAIN Front(s) = 1 .. m BY <1>5, <1>7
  <1>10. QED BY <1>1, <1>3, <1>5, <1>7, <1>8, <1>9 DEF m

LEMMA BeginningOfSeq ==
  ASSUME NEW S, NEW s \in Seq(S), Len(s) > 0
  PROVE  SubSeq(s, 1, Len(s) - 1) = [i \in 1 .. Len(s) - 1 |-> s[i]]
  <1> DEFINE m == Len(s) - 1
  <1>1. m \in Nat /\ \A i \in 1 .. m : s[i] \in S OBVIOUS
  <1> HIDE DEF m
  <1>2. /\ SubSeq(s, 1, m) \in Seq(S)
        /\ Len(SubSeq(s, 1, m)) = IF 1 <= m THEN m - 1 + 1 ELSE 0
        /\ \A i \in 1 .. m - 1 + 1 : SubSeq(s, 1, m)[i] = s[1 + i - 1]
    BY <1>1, SubSeqProperties
  <1>3. m - 1 + 1 = m /\ \A i \in 1 .. m : 1 + i - 1 = i BY <1>1
  <1>4. Len(SubSeq(s, 1, m)) = m BY <1>1, <1>2, <1>3
  <1>5. \A i \in 1 .. m : SubSeq(s, 1, m)[i] = s[i] BY <1>2, <1>3
  <1>6. SubSeq(s, 1, m) = [i \in 1 .. m |-> SubSeq(s, 1, m)[i]] BY <1>2, <1>4
  <1>7. SubSeq(s, 1, m) = [i \in 1 .. m |-> s[i]] BY <1>5, <1>6
  <1>8. QED BY <1>7 DEF m

LEMMA RangeFacts ==
  ASSUME NEW s \in Seq(Nodes)
  PROVE  /\ Range(s) \subseteq Nodes
         /\ \A i \in 1 .. Len(s) : s[i] \in Range(s)
         /\ \A x \in Range(s) : \E i \in 1 .. Len(s) : s[i] = x
  BY DEF Range

LEMMA AppendRange ==
  ASSUME NEW s \in Seq(Nodes), NEW n \in Nodes
  PROVE  /\ Range(Append(s, n)) = Range(s) \cup {n}
         /\ Once(s) /\ n \notin Range(s) => Once(Append(s, n))
  <1>1. Range(Append(s, n)) = Range(s) \cup {n}
    BY AppendFacts DEF Range
  <1>2. ASSUME Once(s), n \notin Range(s) PROVE Once(Append(s, n))
    BY <1>2, AppendFacts, RangeFacts DEF Once
  <1>3. QED BY <1>1, <1>2

LEMMA FrontRange ==
  ASSUME NEW s \in Seq(Nodes), s # <<>>, Once(s)
  PROVE  Range(Front(s)) = Range(s) \ {Last(s)} /\ Once(Front(s)) /\ Last(s) \in Range(s)
  <1>1. \A i \in 1 .. Len(s) : s[i] = Last(s) => i = Len(s)
    BY FrontFacts DEF Once, Last
  <1>2. \A i \in 1 .. Len(s) : i = Len(s) \/ i \in 1 .. Len(s) - 1
    BY FrontFacts
  <1>3. Range(Front(s)) = {s[i] : i \in 1 .. Len(s) - 1}
    BY FrontFacts DEF Range
  <1>4. Range(s) = {s[i] : i \in 1 .. Len(s)}
    BY DEF Range
  <1>5. Last(s) \in Range(s) BY <1>4, FrontFacts DEF Last
  <1>6. 1 .. Len(s) - 1 \subseteq 1 .. Len(s) BY FrontFacts
  <1>7. Range(Front(s)) = Range(s) \ {Last(s)}
    <2>1. \A x \in Range(Front(s)) : x \in Range(s) /\ x # Last(s)
      BY <1>1, <1>3, <1>4, <1>6, FrontFacts
    <2>2. \A x \in Range(s) : x # Last(s) => x \in Range(Front(s))
      BY <1>2, <1>3, <1>4 DEF Last
    <2>3. QED BY <2>1, <2>2
  <1>8. Once(Front(s))
    <2>1. DOMAIN s = 1 .. Len(s) OBVIOUS
    <2>2. ASSUME NEW i \in 1 .. Len(s) - 1, NEW j \in 1 .. Len(s) - 1, Front(s)[i] = Front(s)[j] PROVE i = j
      BY <1>6, <2>1, <2>2, FrontFacts DEF Once
    <2>3. QED BY <2>2, FrontFacts DEF Once
  <1>9. QED BY <1>5, <1>7, <1>8

-----------------------------------------------------------------------------
(***************************************************************************)
(* Types.                                                                  *)
(***************************************************************************)

LEMMA TypeInit == Init => TypeOK
  BY ListAssumption DEF Init, TypeOK, NoHead, Heads, Empty, Ops

LEMMA TypeStep ==
  ASSUME TypeOK, LocalsInv, HeadHoldsList, SweepInv, [Next]_vars
  PROVE  TypeOK'
  <1> USE DEF TypeOK, Heads
  <1>1. NoHead \in Heads /\ \A t \in Threads : old[t] \in Heads /\ loaded[t] \subseteq {"Next", "tag", "link"}
    BY ListAssumption DEF NoHead
  <1>2. ASSUME NEW t \in Threads, Restarts(t)
        PROVE  /\ loaded' \in [Threads -> SUBSET {"Next", "tag", "link"}]
               /\ old' \in [Threads -> Heads] /\ link' \in [Threads -> Nodes \cup {None}]
    BY <1>1, <1>2 DEF Restarts
  <1>3. ASSUME NEW t \in Threads, InTime(t) PROVE late' \in [Threads -> 0 .. SeqMod - 1]
    BY <1>3, ListAssumption DEF InTime
  <1>4. ASSUME NEW t \in Threads, NEW n \in Nodes, Delete(n)
        PROVE  /\ free' \subseteq Nodes /\ next' \in [Nodes -> Nodes \cup {None}]
               /\ elem' \in [Nodes -> Items \cup {None}]
    BY <1>4 DEF Delete
  <1>5. ASSUME NEW t \in Threads, NEW o \in Ops, Goes(t, o) PROVE op' \in [Threads -> Ops]
    BY <1>5 DEF Goes
  <1>6. {"idle", "push", "pop", "take", "purge", "sweep"} \subseteq Ops BY DEF Ops
  <1>7. CASE UNCHANGED vars BY <1>7 DEF vars, memory, locals, history
  <1>8. ASSUME NEW t \in Threads, Calls(t) \/ Step(t) PROVE TypeOK'
    <2>1. CASE PopItem(t) BY <1>5, <1>6, <2>1 DEF PopItem, memory, history
    <2>2. CASE Purge(t) BY <1>5, <1>6, <2>2 DEF Purge, memory, history
    <2>3. ASSUME NEW e \in Items, PushItem(t, e) PROVE TypeOK'
      BY <1>5, <1>6, <2>3 DEF PushItem, history
    <2>4. CASE LoadNext(t) BY <2>4 DEF LoadNext, memory, history
    <2>5. CASE LoadTag(t) BY <2>5 DEF LoadTag, memory, history
    <2>6. CASE LoadLink(t)
      <3>1. PICK n \in Nodes \cup {None} : link' = [link EXCEPT ![t] = n]
        BY <2>6 DEF LoadLink
      <3>2. QED BY <2>6, <3>1 DEF LoadLink, memory, history
    <2>7. CASE ReturnNull(t) BY <1>2, <1>3, <1>5, <1>6, <2>7 DEF ReturnNull, memory
    <2>8. CASE Retry(t) BY <1>2, <1>3, <2>8 DEF Retry, memory
    <2>9. CASE PushSwap(t)
      <3>1. node[t] \in Nodes BY <2>9 DEF PushSwap, LocalsInv
      <3>2. PushedHead(t) \in Heads
        BY <1>1, <3>1, ListAssumption DEF PushedHead, NextSequence
      <3>3. \A u \in Threads : (IF u \in Overtaken(t) THEN late[u] + 1 ELSE 0) \in 0 .. SeqMod - 1
        BY <2>9, ListAssumption DEF PushSwap, NoWrap
      <3>4. list' \in Seq(Nodes) BY <2>9, <3>1, AppendFacts DEF PushSwap
      <3>5. QED BY <1>2, <1>5, <1>6, <2>9, <3>1, <3>2, <3>3, <3>4 DEF PushSwap
    <2>10. CASE PopSwap(t)
      <3>1. old[t].Next \in Nodes /\ head = old[t] BY <2>10 DEF PopSwap, LocalsInv, Unchanged
      <3>2. list # <<>> BY <3>1, ListAssumption DEF HeadHoldsList, TopOf
      <3>3. PoppedHead(t) \in Heads
        <4>1. Len(list) > 0 BY <3>2, FrontFacts
        <4>2. old[t].Depth - 1 \in Nat BY <3>1, <4>1 DEF HeadHoldsList
        <4>3. QED BY <4>2 DEF PoppedHead
      <3>4. list' \in Seq(Nodes) BY <2>10, <3>2, FrontFacts DEF PopSwap
      <3>5. QED BY <1>2, <1>3, <1>5, <1>6, <2>10, <3>1, <3>3, <3>4 DEF PopSwap
    <2>11. CASE DetachSwap(t)
      <3>1. DetachedHead(t) \in Heads BY DEF DetachedHead
      <3>2. QED BY <1>2, <1>3, <1>5, <1>6, <2>11, <3>1 DEF DetachSwap
    <2>12. CASE TakeItem(t)
      <3>1. node[t] \in Nodes BY <2>12 DEF TakeItem, LocalsInv
      <3>2. QED BY <1>4, <1>5, <1>6, <2>12, <3>1 DEF TakeItem, history
    <2>13. CASE Sweep(t)
      <3>1. swept[t] # <<>> /\ node[t] = Last(swept[t]) BY <2>13 DEF Sweep, SweepInv
      <3>2. node[t] \in Nodes /\ Front(swept[t]) \in Seq(Nodes) BY <3>1, FrontFacts
      <3>3. swept' \in [Threads -> Seq(Nodes)] BY <2>13, <3>2 DEF Sweep
      <3>4. (IF SweepNext(t) = None THEN "idle" ELSE "sweep") \in Ops BY <1>6
      <3>5. op' \in [Threads -> Ops] BY <1>5, <2>13, <3>4 DEF Sweep
      <3>6. QED BY <1>4, <2>13, <3>2, <3>3, <3>5 DEF Sweep, SweepNext
    <2>14. QED BY <1>8, <2>1, <2>2, <2>3, <2>4, <2>5, <2>6, <2>7, <2>8, <2>9, <2>10, <2>11,
              <2>12, <2>13 DEF Calls, Step
  <1>9. QED BY <1>7, <1>8 DEF Next
-----------------------------------------------------------------------------
(***************************************************************************)
(* Whose a node is.                                                        *)
(***************************************************************************)

\* A step that moves nodes between the heap, the list and one thread's hands,
\* and neither makes nor loses one.
Moved(t) ==
    /\ \A u \in Threads \ {t} : Held(u)' = Held(u)
    /\ free' \cup Range(list') \cup Held(t)' = free \cup Range(list) \cup Held(t)
    /\ free' \cap Range(list') = {} /\ free' \cap Held(t)' = {} /\ Range(list') \cap Held(t)' = {}
    /\ Once(list')

LEMMA MovedKeeps ==
  ASSUME EveryNodeOnce, NEW t \in Threads, Moved(t)
  PROVE  EveryNodeOnce'
  <1> DEFINE mine == free \cup Range(list) \cup Held(t)
  <1>1. \A u \in Threads \ {t} : Held(u)' = Held(u) /\ Held(u) \cap mine = {}
    BY DEF Moved, EveryNodeOnce
  <1>2. free' \subseteq mine /\ Range(list') \subseteq mine /\ Held(t)' \subseteq mine
    BY DEF Moved
  <1>3. \A u \in Threads : Held(u)' \cap (free' \cup Range(list')) = {}
    BY <1>1, <1>2 DEF Moved
  <1>4. \A u \in Threads : \A v \in Threads \ {u} : Held(u)' \cap Held(v)' = {}
    <2>1. ASSUME NEW u \in Threads, NEW v \in Threads \ {u} PROVE Held(u)' \cap Held(v)' = {}
      <3>1. CASE u = t BY <1>1, <1>2, <3>1
      <3>2. CASE v = t BY <1>1, <1>2, <3>2
      <3>3. CASE u # t /\ v # t BY <1>1, <3>3 DEF EveryNodeOnce
      <3>4. QED BY <3>1, <3>2, <3>3
    <2>2. QED BY <2>1
  <1>5. Nodes = free' \cup Range(list') \cup UNION {Held(u)' : u \in Threads}
    <2>1. Nodes = mine \cup UNION {Held(u) : u \in Threads \ {t}} BY DEF EveryNodeOnce
    <2>2. UNION {Held(u) : u \in Threads \ {t}} = UNION {Held(u)' : u \in Threads \ {t}} BY <1>1
    <2>3. mine = free' \cup Range(list') \cup Held(t)' BY DEF Moved
    <2>4. QED BY <2>1, <2>2, <2>3
  <1>6. QED BY <1>3, <1>4, <1>5 DEF EveryNodeOnce, Moved

\* What a thread does to its own place leaves the others' hands alone.
LEMMA OthersHold ==
  ASSUME TypeOK, NEW t \in Threads, NEW u \in Threads \ {t},
         op'[u] = op[u], node'[u] = node[u], swept'[u] = swept[u]
  PROVE  Held(u)' = Held(u)
  BY DEF Held

LEMMA EmptyHands ==
  ASSUME NEW t \in Threads
  PROVE  /\ op[t] \notin {"push", "take", "sweep"} => Held(t) = {}
         /\ op[t] \in {"push", "take"} /\ node[t] \in Nodes => Held(t) = {node[t]}
         /\ op[t] = "sweep" => Held(t) = Nodes \cap Range(swept[t])
  <1>1. ASSUME op[t] \notin {"push", "take", "sweep"} PROVE Held(t) = {}
    BY <1>1 DEF Held
  <1>2. ASSUME op[t] \in {"push", "take"}, node[t] \in Nodes PROVE Held(t) = {node[t]}
    <2>1. op[t] # "sweep" BY <1>2
    <2>2. \A n \in Nodes : n \in Held(t) => n = node[t] BY <2>1, Zenon DEF Held
    <2>3. node[t] \in Held(t) BY <1>2 DEF Held
    <2>4. Held(t) \subseteq Nodes BY DEF Held
    <2>5. QED BY <2>2, <2>3, <2>4
  <1>3. ASSUME op[t] = "sweep" PROVE Held(t) = Nodes \cap Range(swept[t])
    <2>1. op[t] \notin {"push", "take"} BY <1>3
    <2>2. \A n \in Nodes : n \in Held(t) <=> n \in Range(swept[t]) BY <1>3, <2>1 DEF Held
    <2>3. Held(t) \subseteq Nodes BY DEF Held
    <2>4. QED BY <2>2, <2>3
  <1>4. QED BY <1>1, <1>2, <1>3

LEMMA EmptyHandsNext ==
  ASSUME NEW t \in Threads
  PROVE  /\ op'[t] \notin {"push", "take", "sweep"} => Held(t)' = {}
         /\ op'[t] \in {"push", "take"} /\ node'[t] \in Nodes => Held(t)' = {node'[t]}
         /\ op'[t] = "sweep" => Held(t)' = Nodes \cap Range(swept'[t])
  <1>1. ASSUME op'[t] \notin {"push", "take", "sweep"} PROVE Held(t)' = {}
    BY <1>1 DEF Held
  <1>2. ASSUME op'[t] \in {"push", "take"}, node'[t] \in Nodes PROVE Held(t)' = {node'[t]}
    <2>1. op'[t] # "sweep" BY <1>2
    <2>2. \A n \in Nodes : n \in Held(t)' => n = node'[t] BY <2>1, Zenon DEF Held
    <2>3. node'[t] \in Held(t)' BY <1>2 DEF Held
    <2>4. Held(t)' \subseteq Nodes BY DEF Held
    <2>5. QED BY <2>2, <2>3, <2>4
  <1>3. ASSUME op'[t] = "sweep" PROVE Held(t)' = Nodes \cap Range(swept'[t])
    <2>1. op'[t] \notin {"push", "take"} BY <1>3
    <2>2. \A n \in Nodes : n \in Held(t)' <=> n \in Range(swept'[t]) BY <1>3, <2>1 DEF Held
    <2>3. Held(t)' \subseteq Nodes BY DEF Held
    <2>4. QED BY <2>2, <2>3
  <1>4. QED BY <1>1, <1>2, <1>3

\* The steps that only read, or only begin or give up.
Reads(t) ==
    /\ UNCHANGED <<head, next, elem, free, node, list, swept>>
    /\ \A u \in Threads \ {t} : /\ op'[u] = op[u] /\ loaded'[u] = loaded[u]
                               /\ old'[u] = old[u] /\ link'[u] = link[u] /\ late'[u] = late[u]
    /\ \/ op'[t] = op[t]
       \/ {op[t], op'[t]} \cap {"push", "take", "sweep"} = {}

LEMMA ReadsFacts ==
  ASSUME TypeOK, NEW t \in Threads,
         \/ PopItem(t) \/ Purge(t) \/ LoadNext(t) \/ LoadTag(t) \/ LoadLink(t)
         \/ ReturnNull(t) \/ Retry(t)
  PROVE  Reads(t)
  <1> USE DEF Reads, TypeOK
  <1>1. CASE PopItem(t) BY <1>1 DEF PopItem, Goes, memory, history
  <1>2. CASE Purge(t) BY <1>2 DEF Purge, Goes, memory, history
  <1>3. CASE LoadNext(t) BY <1>3 DEF LoadNext, memory, history
  <1>4. CASE LoadTag(t) BY <1>4 DEF LoadTag, memory, history
  <1>5. CASE LoadLink(t) BY <1>5 DEF LoadLink, memory, history
  <1>6. CASE ReturnNull(t) BY <1>6 DEF ReturnNull, Goes, Restarts, InTime, memory
  <1>7. CASE Retry(t) BY <1>7 DEF Retry, Restarts, InTime, memory
  <1>8. QED BY <1>1, <1>2, <1>3, <1>4, <1>5, <1>6, <1>7

LEMMA ReadsMove ==
  ASSUME TypeOK, EveryNodeOnce, NEW t \in Threads, Reads(t)
  PROVE  EveryNodeOnce'
  <1>1. \A u \in Threads : Held(u)' = Held(u)
    BY DEF Reads, Held
  <1>2. QED BY <1>1 DEF Reads, EveryNodeOnce, Once

\* What a pop or a purge takes: it has read the head as it still is.
LEMMA SwapFacts ==
  ASSUME TypeOK, HeadHoldsList, LocalsInv, NEW t \in Threads, Unchanged(t), old[t].Next # None
  PROVE  /\ head = old[t] /\ list # <<>> /\ old[t].Next = Last(list)
         /\ old[t].Depth = Len(list) /\ Last(list) \in Nodes
  BY FrontFacts DEF HeadHoldsList, TopOf, Unchanged, TypeOK

\* The link of the node that is deleted next tells whether it is the last one.
LEMMA SweepsToTheEnd ==
  ASSUME NEW t \in Threads, swept[t] \in Seq(Nodes), swept[t] # <<>>, node[t] = Last(swept[t]), Linked(swept[t])
  PROVE  /\ SweepNext(t) = None => Len(swept[t]) = 1
         /\ SweepNext(t) # None => Len(swept[t]) > 1 /\ SweepNext(t) = Last(Front(swept[t]))
  <1> DEFINE s == swept[t]
  <1>1. s \in Seq(Nodes) /\ s # <<>> /\ node[t] = Last(s) /\ Linked(s) OBVIOUS
  <1>2. SweepNext(t) = next[Last(s)] BY DEF SweepNext
  <1> HIDE DEF s
  <1>3. Len(s) \in Nat /\ Len(s) > 0 /\ DOMAIN s = 1 .. Len(s) BY <1>1, FrontFacts
  <1>4. Len(s) \in DOMAIN s BY <1>3
  <1>5. SweepNext(t) = IF Len(s) = 1 THEN None ELSE s[Len(s) - 1]
    BY <1>1, <1>2, <1>4 DEF Linked, Last
  <1>6. CASE Len(s) = 1 BY <1>5, <1>6 DEF s
  <1>7. CASE Len(s) # 1
    <2>1. Len(s) - 1 \in 1 .. Len(s) BY <1>3, <1>7
    <2>2. s[Len(s) - 1] \in Nodes BY <1>1, <2>1, ElementOfSeq
    <2>3. Last(Front(s)) = s[Len(s) - 1]
      <3>1. Len(Front(s)) = Len(s) - 1 BY <1>1, FrontFacts
      <3>2. Len(s) - 1 \in 1 .. Len(s) - 1 BY <1>3, <1>7
      <3>3. QED BY <1>1, <3>1, <3>2, FrontFacts DEF Last
    <2>4. Len(s) > 1 BY <1>3, <1>7
    <2>5. SweepNext(t) # None BY <1>5, <1>7, <2>2, ListAssumption
    <2>6. QED BY <1>5, <1>7, <2>3, <2>4, <2>5 DEF s
  <1>8. QED BY <1>6, <1>7

LEMMA OnceStep ==
  ASSUME TypeOK, EveryNodeOnce, HeadHoldsList, LocalsInv, SweepInv, NEW t \in Threads, Calls(t) \/ Step(t)
  PROVE  EveryNodeOnce'
  <1> USE DEF TypeOK
  <1>1. ASSUME NEW e \in Items, PushItem(t, e) PROVE EveryNodeOnce'
    <2>1. PICK n \in free : free' = free \ {n} /\ node' = [node EXCEPT ![t] = n]
      BY <1>1 DEF PushItem
    <2>2. op' = [op EXCEPT ![t] = "push"] /\ list' = list /\ swept' = swept /\ op[t] = "idle"
      BY <1>1 DEF PushItem, Goes, history
    <2>3. Held(t) = {} /\ Held(t)' = {n} BY <2>1, <2>2, EmptyHands, EmptyHandsNext
    <2>4. \A u \in Threads \ {t} : Held(u)' = Held(u) BY <2>1, <2>2, OthersHold
    <2>5. Moved(t) BY <2>1, <2>2, <2>3, <2>4 DEF Moved, EveryNodeOnce
    <2>6. QED BY <2>5, MovedKeeps
  <1>2. CASE PushSwap(t)
    <2>1. node[t] \in Nodes BY <1>2 DEF PushSwap, LocalsInv
    <2>2. /\ op' = [op EXCEPT ![t] = "idle"] /\ node' = [node EXCEPT ![t] = None] /\ swept' = swept
          /\ free' = free /\ list' = Append(list, node[t]) /\ op[t] = "push"
      BY <1>2 DEF PushSwap, Goes
    <2>3. Held(t) = {node[t]} /\ Held(t)' = {} BY <2>1, <2>2, EmptyHands, EmptyHandsNext
    <2>4. \A u \in Threads \ {t} : Held(u)' = Held(u) BY <2>2, OthersHold
    <2>5. Range(list') = Range(list) \cup {node[t]} /\ Once(list')
      BY <2>1, <2>2, <2>3, AppendRange DEF EveryNodeOnce
    <2>6. Moved(t) BY <2>2, <2>3, <2>4, <2>5 DEF Moved, EveryNodeOnce
    <2>7. QED BY <2>6, MovedKeeps
  <1>3. CASE PopSwap(t)
    <2>1. /\ list # <<>> /\ old[t].Next = Last(list) /\ Last(list) \in Nodes
      BY <1>3, SwapFacts DEF PopSwap, LocalsInv
    <2>2. /\ op' = [op EXCEPT ![t] = "take"] /\ node' = [node EXCEPT ![t] = Last(list)] /\ swept' = swept
          /\ free' = free /\ list' = Front(list) /\ op[t] = "pop"
      BY <1>3, <2>1 DEF PopSwap, Goes
    <2>3. Held(t) = {} /\ Held(t)' = {Last(list)} BY <2>1, <2>2, EmptyHands, EmptyHandsNext
    <2>4. \A u \in Threads \ {t} : Held(u)' = Held(u) BY <2>2, OthersHold
    <2>5. Range(list') = Range(list) \ {Last(list)} /\ Once(list') /\ Last(list) \in Range(list)
      BY <2>1, <2>2, FrontRange DEF EveryNodeOnce
    <2>6. Moved(t) BY <2>2, <2>3, <2>4, <2>5 DEF Moved, EveryNodeOnce
    <2>7. QED BY <2>6, MovedKeeps
  <1>4. CASE DetachSwap(t)
    <2>1. /\ op' = [op EXCEPT ![t] = "sweep"] /\ swept' = [swept EXCEPT ![t] = list]
          /\ node' = [node EXCEPT ![t] = old[t].Next]
          /\ free' = free /\ list' = <<>> /\ op[t] = "purge"
      BY <1>4 DEF DetachSwap, Goes
    <2>2. Held(t) = {} /\ Held(t)' = Range(list)
      <3>1. swept'[t] = list /\ op'[t] = "sweep" BY <2>1
      <3>2. Held(t) = {} BY <2>1, EmptyHands
      <3>3. Held(t)' = Nodes \cap Range(list) BY <3>1, EmptyHandsNext
      <3>4. QED BY <3>2, <3>3, RangeFacts
    <2>3. \A u \in Threads \ {t} : Held(u)' = Held(u) BY <2>1, OthersHold
    <2>4. Range(list') = {} /\ Once(list') BY <2>1 DEF Range, Once
    <2>5. Moved(t) BY <2>1, <2>2, <2>3, <2>4 DEF Moved, EveryNodeOnce
    <2>6. QED BY <2>5, MovedKeeps
  <1>5. CASE TakeItem(t)
    <2>1. node[t] \in Nodes BY <1>5 DEF TakeItem, LocalsInv
    <2>2. /\ op' = [op EXCEPT ![t] = "idle"] /\ node' = [node EXCEPT ![t] = None] /\ swept' = swept
          /\ free' = free \cup {node[t]} /\ list' = list /\ op[t] = "take"
      BY <1>5 DEF TakeItem, Goes, Delete, history
    <2>3. Held(t) = {node[t]} /\ Held(t)' = {} BY <2>1, <2>2, EmptyHands, EmptyHandsNext
    <2>4. \A u \in Threads \ {t} : Held(u)' = Held(u) BY <2>2, OthersHold
    <2>5. Moved(t) BY <2>2, <2>3, <2>4 DEF Moved, EveryNodeOnce
    <2>6. QED BY <2>5, MovedKeeps
  <1>6. CASE Sweep(t)
    <2>1. /\ swept[t] # <<>> /\ node[t] = Last(swept[t]) /\ Linked(swept[t]) /\ Once(swept[t])
          /\ swept[t] \in Seq(Nodes)
      BY <1>6 DEF Sweep, SweepInv
    <2>2. /\ op' = [op EXCEPT ![t] = IF SweepNext(t) = None THEN "idle" ELSE "sweep"]
          /\ node' = [node EXCEPT ![t] = SweepNext(t)]
          /\ swept' = [swept EXCEPT ![t] = Front(swept[t])]
          /\ free' = free \cup {node[t]} /\ list' = list /\ op[t] = "sweep"
      BY <1>6 DEF Sweep, Goes, Delete
    <2>3. Held(t) = Range(swept[t])
      <3>1. Held(t) = Nodes \cap Range(swept[t]) BY <2>2, EmptyHands
      <3>2. Range(swept[t]) \subseteq Nodes BY <2>1, RangeFacts
      <3>3. QED BY <3>1, <3>2
    <2>4. /\ Range(Front(swept[t])) = Range(swept[t]) \ {node[t]} /\ node[t] \in Range(swept[t])
          /\ Range(Front(swept[t])) \subseteq Nodes
      BY <2>1, FrontRange, FrontFacts, RangeFacts
    <2>5. Held(t)' = Range(swept[t]) \ {node[t]}
      <3>1. CASE SweepNext(t) = None
        <4>1. Len(swept[t]) = 1 BY <2>1, <3>1, SweepsToTheEnd
        <4>2. Range(Front(swept[t])) = {} BY <2>1, <4>1, FrontFacts DEF Range
        <4>3. Held(t)' = {} BY <2>2, <3>1, EmptyHandsNext
        <4>4. QED BY <2>4, <4>2, <4>3
      <3>2. CASE SweepNext(t) # None
        <4>1. op'[t] = "sweep" /\ swept'[t] = Front(swept[t]) BY <2>2, <3>2
        <4>2. QED BY <2>4, <4>1, EmptyHandsNext
      <3>3. QED BY <3>1, <3>2
    <2>6. \A u \in Threads \ {t} : Held(u)' = Held(u) BY <2>2, OthersHold
    <2>7. Moved(t) BY <2>2, <2>3, <2>4, <2>5, <2>6 DEF Moved, EveryNodeOnce
    <2>8. QED BY <2>7, MovedKeeps
  <1>7. QED BY <1>1, <1>2, <1>3, <1>4, <1>5, <1>6, ReadsFacts, ReadsMove DEF Calls, Step
-----------------------------------------------------------------------------
(***************************************************************************)
(* The list.                                                               *)
(***************************************************************************)

\* A node that is in the heap or in a thread's hands may be written.
LEMMA LinkedElsewhere ==
  ASSUME NEW s \in Seq(Nodes), Linked(s), next \in [Nodes -> Nodes \cup {None}],
         NEW n \in Nodes, n \notin Range(s), NEW v, next' = [next EXCEPT ![n] = v]
  PROVE  /\ \A i \in DOMAIN s : next'[s[i]] = next[s[i]]
         /\ \A i \in DOMAIN s : next'[s[i]] = IF i = 1 THEN None ELSE s[i - 1]
  <1>1. \A i \in DOMAIN s : s[i] \in Nodes /\ s[i] # n BY RangeFacts
  <1>2. QED BY <1>1 DEF Linked

LEMMA LinkedFront ==
  ASSUME NEW s \in Seq(Nodes), s # <<>>, Linked(s)
  PROVE  Linked(Front(s))
  <1>1. DOMAIN Front(s) = 1 .. Len(s) - 1 /\ Len(s) \in Nat /\ DOMAIN s = 1 .. Len(s) BY FrontFacts
  <1>2. ASSUME NEW i \in 1 .. Len(s) - 1
        PROVE  next[Front(s)[i]] = IF i = 1 THEN None ELSE Front(s)[i - 1]
    <2>1. i \in DOMAIN s /\ Front(s)[i] = s[i]
      <3>1. i \in 1 .. Len(s) BY <1>1
      <3>2. QED BY <1>1, <3>1, FrontFacts
    <2>2. i # 1 => Front(s)[i - 1] = s[i - 1]
      <3>1. i # 1 => i - 1 \in 1 .. Len(s) - 1 BY <1>1
      <3>2. QED BY <3>1, FrontFacts
    <2>3. next[s[i]] = IF i = 1 THEN None ELSE s[i - 1] BY <2>1 DEF Linked
    <2>4. QED BY <2>1, <2>2, <2>3
  <1>3. QED BY <1>1, <1>2 DEF Linked

\* The node under the top is what its link says.
LEMMA TopLink ==
  ASSUME NEW s \in Seq(Nodes), s # <<>>, Linked(s)
  PROVE  next[Last(s)] = TopOf(Front(s))
  <1>1. Len(s) \in Nat /\ Len(s) > 0 /\ DOMAIN s = 1 .. Len(s) BY FrontFacts
  <1>2. next[s[Len(s)]] = IF Len(s) = 1 THEN None ELSE s[Len(s) - 1] BY <1>1 DEF Linked
  <1>3. CASE Len(s) = 1
    <2>1. Front(s) = <<>> BY <1>3, FrontFacts
    <2>2. QED BY <1>2, <1>3, <2>1 DEF TopOf, Last
  <1>4. CASE Len(s) # 1
    <2>1. Front(s) # <<>> /\ Len(Front(s)) = Len(s) - 1
      <3>1. Len(Front(s)) = Len(s) - 1 BY FrontFacts
      <3>2. Len(Front(s)) > 0 BY <1>1, <1>4, <3>1
      <3>3. QED BY <3>1, <3>2
    <2>2. Len(s) - 1 \in 1 .. Len(s) - 1 BY <1>1, <1>4
    <2>3. Front(s)[Len(s) - 1] = s[Len(s) - 1] BY <2>2, FrontFacts
    <2>4. QED BY <1>2, <1>4, <2>1, <2>3 DEF TopOf, Last
  <1>5. QED BY <1>3, <1>4

LEMMA InHands ==
  ASSUME TypeOK, EveryNodeOnce, LocalsInv, SweepInv, NEW t \in Threads
  PROVE  /\ op[t] \in {"push", "take"} => node[t] \in Nodes /\ node[t] \in Held(t)
         /\ op[t] = "sweep" => node[t] \in Nodes /\ node[t] \in Held(t)
         /\ Held(t) \cap Range(list) = {}
  <1>1. ASSUME op[t] \in {"push", "take"} PROVE node[t] \in Nodes /\ node[t] \in Held(t)
    BY <1>1, EmptyHands DEF LocalsInv
  <1>2. ASSUME op[t] = "sweep" PROVE node[t] \in Nodes /\ node[t] \in Held(t)
    <2>1. swept[t] \in Seq(Nodes) /\ swept[t] # <<>> /\ node[t] = Last(swept[t]) /\ Once(swept[t])
      BY <1>2 DEF SweepInv, TypeOK
    <2>2. node[t] \in Range(swept[t]) /\ node[t] \in Nodes BY <2>1, FrontRange, FrontFacts
    <2>3. QED BY <1>2, <2>2, EmptyHands
  <1>3. QED BY <1>1, <1>2 DEF EveryNodeOnce

\* Links that are written are not those of the list.
LEMMA ListLinksStay ==
  ASSUME TypeOK, EveryNodeOnce, LocalsInv, SweepInv, HeadHoldsList, NEW t \in Threads, Calls(t) \/ Step(t)
  PROVE  \A i \in DOMAIN list : next'[list[i]] = IF i = 1 THEN None ELSE list[i - 1]
  <1>1. list \in Seq(Nodes) /\ Linked(list) /\ next \in [Nodes -> Nodes \cup {None}]
    BY DEF TypeOK, HeadHoldsList
  <1>2. CASE next' = next BY <1>1, <1>2 DEF Linked
  <1>3. ASSUME NEW v, next' = [next EXCEPT ![node[t]] = v], op[t] \in {"push", "take", "sweep"}
        PROVE  \A i \in DOMAIN list : next'[list[i]] = IF i = 1 THEN None ELSE list[i - 1]
    <2>1. node[t] \in Nodes /\ node[t] \notin Range(list) BY <1>3, InHands
    <2>2. QED BY <1>1, <1>3, <2>1, LinkedElsewhere
  <1>4. CASE PushSwap(t) BY <1>3, <1>4 DEF PushSwap
  <1>5. CASE TakeItem(t) BY <1>3, <1>5 DEF TakeItem, Delete
  <1>6. CASE Sweep(t) BY <1>3, <1>6 DEF Sweep, Delete
  <1>7. CASE PopSwap(t) \/ DetachSwap(t) BY <1>2, <1>7 DEF PopSwap, DetachSwap
  <1>8. ASSUME NEW e \in Items, PushItem(t, e) PROVE next' = next BY <1>8 DEF PushItem
  <1>9. QED BY <1>2, <1>4, <1>5, <1>6, <1>7, <1>8, ReadsFacts DEF Calls, Step, Reads

LEMMA HeadStep ==
  ASSUME TypeOK, EveryNodeOnce, LocalsInv, SweepInv, FreshInv, HeadHoldsList,
         NEW t \in Threads, Calls(t) \/ Step(t)
  PROVE  HeadHoldsList'
  <1>1. list \in Seq(Nodes) /\ Linked(list) BY DEF TypeOK, HeadHoldsList
  <1>2. \A i \in DOMAIN list : next'[list[i]] = IF i = 1 THEN None ELSE list[i - 1] BY ListLinksStay
  <1>3. CASE head' = head /\ list' = list
    BY <1>2, <1>3 DEF HeadHoldsList, Linked, TopOf, Last
  <1>4. CASE PushSwap(t)
    <2>1. node[t] \in Nodes BY <1>4 DEF PushSwap, LocalsInv
    <2>2. head = old[t] /\ list' = Append(list, node[t]) /\ next' = [next EXCEPT ![node[t]] = old[t].Next]
      BY <1>4 DEF PushSwap, Unchanged
    <2>3. next'[node[t]] = TopOf(list) BY <2>1, <2>2 DEF HeadHoldsList, TypeOK
    <2>4. /\ list' \in Seq(Nodes) /\ Len(list') = Len(list) + 1 /\ DOMAIN list' = 1 .. Len(list) + 1
          /\ \A i \in 1 .. Len(list) : list'[i] = list[i]
          /\ list'[Len(list) + 1] = node[t]
      BY <1>1, <2>1, <2>2, AppendFacts
    <2>5. Linked(list)'
      <3>1. Len(list) \in Nat /\ DOMAIN list = 1 .. Len(list) BY <1>1
      <3>2. ASSUME NEW i \in 1 .. Len(list) PROVE next'[list'[i]] = IF i = 1 THEN None ELSE list'[i - 1]
        <4>1. next'[list[i]] = IF i = 1 THEN None ELSE list[i - 1] BY <1>2, <3>1
        <4>2. i # 1 => i - 1 \in 1 .. Len(list) BY <3>1
        <4>3. QED BY <2>4, <4>1, <4>2
      <3>3. TopOf(list) = IF Len(list) + 1 = 1 THEN None ELSE list'[Len(list) + 1 - 1]
        <4>1. CASE list = <<>> BY <4>1 DEF TopOf
        <4>2. CASE list # <<>>
          <5>1. Len(list) \in 1 .. Len(list) /\ Len(list) + 1 # 1 BY <1>1, <4>2, FrontFacts
          <5>2. Len(list) + 1 - 1 = Len(list) BY <3>1
          <5>3. QED BY <2>4, <4>2, <5>1, <5>2 DEF TopOf, Last
        <4>3. QED BY <4>1, <4>2
      <3>4. \A i \in 1 .. Len(list) + 1 : i \in 1 .. Len(list) \/ i = Len(list) + 1 BY <3>1
      <3>5. QED BY <2>3, <2>4, <3>2, <3>3, <3>4 DEF Linked
    <2>6. head'.Next = node[t] /\ head'.Depth = old[t].Depth + 1 BY <1>4 DEF PushSwap, PushedHead
    <2>7. TopOf(list)' = node[t]
      <3>1. list' # <<>> BY <1>1, <2>4
      <3>2. QED BY <2>4, <3>1 DEF TopOf, Last
    <2>8. head'.Depth = Len(list') BY <2>2, <2>4, <2>6 DEF HeadHoldsList
    <2>9. QED BY <2>5, <2>6, <2>7, <2>8 DEF HeadHoldsList
  <1>5. CASE PopSwap(t)
    <2>1. /\ head = old[t] /\ list # <<>> /\ old[t].Next = Last(list)
          /\ old[t].Depth = Len(list) /\ Last(list) \in Nodes
      BY <1>5, SwapFacts DEF PopSwap, LocalsInv
    <2>2. list' = Front(list) /\ next' = next BY <1>5 DEF PopSwap
    <2>3. late[t] = 0
      <3>1. "tag" \in loaded[t] BY <1>5 DEF PopSwap, LocalsInv, HeadLoaded
      <3>2. old[t].Sequence \in 0 .. SeqMod - 1 /\ late[t] \in 0 .. SeqMod - 1 /\ SeqMod \in Nat
        BY ListAssumption DEF TypeOK, Heads
      <3>3. \/ old[t].Sequence = old[t].Sequence + late[t]
            \/ old[t].Sequence = old[t].Sequence + late[t] - SeqMod
        BY <2>1, <3>1 DEF FreshInv
      <3>4. QED BY <3>2, <3>3
    <2>4. link[t] = next[Last(list)]
      <3>1. "tag" \in loaded[t] /\ "link" \in loaded[t] BY <1>5 DEF PopSwap, LocalsInv, HeadLoaded
      <3>2. QED BY <2>1, <2>3, <3>1 DEF FreshInv
    <2>5. link[t] = TopOf(Front(list)) BY <1>1, <2>1, <2>4, TopLink
    <2>6. head'.Next = link[t] /\ head'.Depth = old[t].Depth - 1 BY <1>5 DEF PopSwap, PoppedHead
    <2>7. Linked(Front(list)) BY <1>1, <2>1, LinkedFront
    <2>8. Len(Front(list)) = Len(list) - 1 BY <1>1, <2>1, FrontFacts
    <2>9. QED BY <2>1, <2>2, <2>5, <2>6, <2>7, <2>8 DEF HeadHoldsList, Linked, TopOf, Last
  <1>6. CASE DetachSwap(t)
    <2>1. list' = <<>> /\ head'.Next = None /\ head'.Depth = 0 BY <1>6 DEF DetachSwap, DetachedHead
    <2>2. QED BY <2>1 DEF HeadHoldsList, Linked, TopOf
  <1>7. CASE TakeItem(t) \/ Sweep(t) BY <1>3, <1>7 DEF TakeItem, Sweep, history
  <1>8. ASSUME NEW e \in Items, PushItem(t, e) PROVE HeadHoldsList' BY <1>3, <1>8 DEF PushItem, history
  <1>9. QED BY <1>3, <1>4, <1>5, <1>6, <1>7, <1>8, ReadsFacts DEF Calls, Step, Reads
-----------------------------------------------------------------------------
(***************************************************************************)
(* The locals of the threads.                                              *)
(***************************************************************************)

LEMMA LocalsStep ==
  ASSUME TypeOK, HeadHoldsList, LocalsInv, SweepInv, NEW t \in Threads, Calls(t) \/ Step(t)
  PROVE  LocalsInv'
  <1> DEFINE Fine(u) == /\ loaded'[u] # {} => op'[u] \in Loops
                        /\ "link" \in loaded'[u] => /\ op'[u] = "pop" /\ {"Next", "tag"} \subseteq loaded'[u]
                                                   /\ old'[u].Next # None
                        /\ op'[u] \in {"push", "take"} => node'[u] \in Nodes
                        /\ "tag" \notin loaded'[u] => late'[u] = 0
  <1> USE DEF TypeOK, LocalsInv, HeadLoaded, Loops
  <1>1. \A u \in Threads \ {t} : /\ loaded'[u] = loaded[u] /\ op'[u] = op[u]
                                 /\ old'[u] = old[u] /\ node'[u] = node[u]
                                 /\ late'[u] = late[u] \/ "tag" \in loaded[u]
    <2>1. CASE Reads(t) BY <2>1 DEF Reads
    <2>2. ASSUME NEW e \in Items, PushItem(t, e)
          PROVE  \A u \in Threads \ {t} : /\ loaded'[u] = loaded[u] /\ op'[u] = op[u]
                                         /\ old'[u] = old[u] /\ node'[u] = node[u] /\ late'[u] = late[u]
      BY <2>2 DEF PushItem, Goes, history
    <2>3. CASE PushSwap(t) BY <2>3 DEF PushSwap, Goes, Restarts, Overtaken
    <2>4. CASE PopSwap(t) BY <2>4 DEF PopSwap, Goes, Restarts, InTime
    <2>5. CASE DetachSwap(t) BY <2>5 DEF DetachSwap, Goes, Restarts, InTime
    <2>6. CASE TakeItem(t) BY <2>6 DEF TakeItem, Goes, history
    <2>7. CASE Sweep(t) BY <2>7 DEF Sweep, Goes
    <2>8. QED BY <2>1, <2>2, <2>3, <2>4, <2>5, <2>6, <2>7, ReadsFacts DEF Calls, Step
  <1>2. Fine(t)
    <2>1. CASE PopItem(t) BY <2>1 DEF PopItem, Goes, history
    <2>2. CASE Purge(t) BY <2>2 DEF Purge, Goes, history
    <2>3. ASSUME NEW e \in Items, PushItem(t, e) PROVE Fine(t) BY <2>3 DEF PushItem, Goes, history
    <2>4. CASE LoadNext(t) BY <2>4 DEF LoadNext, history
    <2>5. CASE LoadTag(t) BY <2>5 DEF LoadTag, history
    <2>6. CASE LoadLink(t) BY <2>6 DEF LoadLink, history
    <2>7. CASE ReturnNull(t) BY <2>7 DEF ReturnNull, Goes, Restarts, InTime
    <2>8. CASE Retry(t) BY <2>8 DEF Retry, Restarts, InTime
    <2>9. CASE PushSwap(t) BY <2>9 DEF PushSwap, Goes, Restarts, Overtaken
    <2>10. CASE PopSwap(t)
      <3>1. old[t].Next \in Nodes BY <2>10 DEF PopSwap, Heads
      <3>2. QED BY <2>10, <3>1 DEF PopSwap, Goes, Restarts, InTime
    <2>11. CASE DetachSwap(t) BY <2>11 DEF DetachSwap, Goes, Restarts, InTime
    <2>12. CASE TakeItem(t) BY <2>12 DEF TakeItem, Goes, history
    <2>13. CASE Sweep(t) BY <2>13 DEF Sweep, Goes
    <2>14. QED BY <2>1, <2>2, <2>3, <2>4, <2>5, <2>6, <2>7, <2>8, <2>9, <2>10, <2>11, <2>12, <2>13
           DEF Calls, Step
  <1>3. \A u \in Threads : Fine(u)
    <2>1. ASSUME NEW u \in Threads, u # t PROVE Fine(u) BY <1>1, <2>1
    <2>2. QED BY <1>2, <2>1
  <1>4. QED BY <1>3

\* The detached nodes of another thread stay linked.
LEMMA SweepStep ==
  ASSUME TypeOK, EveryNodeOnce, HeadHoldsList, LocalsInv, SweepInv, NEW t \in Threads, Calls(t) \/ Step(t)
  PROVE  SweepInv'
  <1> DEFINE Fine(u) == op'[u] = "sweep" =>
                /\ swept'[u] # <<>> /\ node'[u] = Last(swept'[u])
                /\ Linked(swept[u])' /\ Once(swept'[u])
  <1> USE DEF TypeOK
  <1>1. ASSUME NEW u \in Threads, op[u] = "sweep", op'[u] = op[u], node'[u] = node[u], swept'[u] = swept[u],
               next' = next
        PROVE  Fine(u)
    BY <1>1 DEF SweepInv, Linked, Last
  <1>2. ASSUME NEW u \in Threads \ {t}, op'[u] = "sweep", op'[u] = op[u], node'[u] = node[u], swept'[u] = swept[u],
               op[t] \in {"push", "take", "sweep"}, NEW v, next' = [next EXCEPT ![node[t]] = v]
        PROVE  Fine(u)
    <2>1. /\ swept[u] \in Seq(Nodes) /\ Linked(swept[u]) /\ swept[u] # <<>>
          /\ node[u] = Last(swept[u]) /\ Once(swept[u])
      BY <1>2 DEF SweepInv
    <2>2. node[t] \in Nodes /\ node[t] \in Held(t) BY <1>2, InHands
    <2>3. node[t] \notin Held(u) BY <2>2 DEF EveryNodeOnce
    <2>4. node[t] \notin Range(swept[u])
      <3>1. Held(u) = Nodes \cap Range(swept[u]) BY <1>2, EmptyHands
      <3>2. QED BY <2>2, <2>3, <3>1
    <2>5. Linked(swept[u])'
      <3>1. \A i \in DOMAIN swept[u] : next'[swept[u][i]] = IF i = 1 THEN None ELSE swept[u][i - 1]
        BY <1>2, <2>1, <2>2, <2>4, LinkedElsewhere
      <3>2. QED BY <1>2, <3>1 DEF Linked
    <2>6. QED BY <1>2, <2>1, <2>5
  <1>3. CASE Reads(t)
    <2>1. ASSUME NEW u \in Threads, op'[u] = "sweep" PROVE op[u] = "sweep"
      BY <1>3, <2>1 DEF Reads
    <2>2. QED BY <1>1, <1>3, <2>1 DEF Reads, SweepInv
  <1>4. ASSUME NEW e \in Items, PushItem(t, e) PROVE SweepInv'
    <2>1. next' = next /\ op' = [op EXCEPT ![t] = "push"] /\ swept' = swept
          /\ \A u \in Threads \ {t} : node'[u] = node[u]
      BY <1>4 DEF PushItem, Goes, history
    <2>2. QED BY <1>1, <2>1 DEF SweepInv
  <1>5. CASE PushSwap(t)
    <2>1. next' = [next EXCEPT ![node[t]] = old[t].Next] /\ op' = [op EXCEPT ![t] = "idle"]
          /\ node' = [node EXCEPT ![t] = None] /\ swept' = swept /\ op[t] = "push"
      BY <1>5 DEF PushSwap, Goes
    <2>2. QED BY <1>2, <2>1 DEF SweepInv
  <1>6. CASE PopSwap(t)
    <2>1. next' = next /\ op' = [op EXCEPT ![t] = "take"] /\ swept' = swept
          /\ node' = [node EXCEPT ![t] = old[t].Next]
      BY <1>6 DEF PopSwap, Goes
    <2>2. QED BY <1>1, <2>1 DEF SweepInv
  <1>7. CASE DetachSwap(t)
    <2>1. next' = next /\ op' = [op EXCEPT ![t] = "sweep"] /\ swept' = [swept EXCEPT ![t] = list]
          /\ node' = [node EXCEPT ![t] = old[t].Next]
      BY <1>7 DEF DetachSwap, Goes
    <2>2. list # <<>> /\ old[t].Next = Last(list) BY <1>7, SwapFacts DEF DetachSwap
    <2>3. Linked(list) /\ Once(list) BY DEF HeadHoldsList, EveryNodeOnce
    <2>4. Fine(t) BY <2>1, <2>2, <2>3 DEF Linked, Last
    <2>5. QED BY <1>1, <2>1, <2>4 DEF SweepInv
  <1>8. CASE TakeItem(t)
    <2>1. next' = [next EXCEPT ![node[t]] = None] /\ op' = [op EXCEPT ![t] = "idle"]
          /\ node' = [node EXCEPT ![t] = None] /\ swept' = swept /\ op[t] = "take"
      BY <1>8 DEF TakeItem, Goes, Delete, history
    <2>2. QED BY <1>2, <2>1 DEF SweepInv
  <1>9. CASE Sweep(t)
    <2>1. /\ next' = [next EXCEPT ![node[t]] = None] /\ op[t] = "sweep"
          /\ op' = [op EXCEPT ![t] = IF SweepNext(t) = None THEN "idle" ELSE "sweep"]
          /\ node' = [node EXCEPT ![t] = SweepNext(t)]
          /\ swept' = [swept EXCEPT ![t] = Front(swept[t])]
      BY <1>9 DEF Sweep, Goes, Delete
    <2>2. Fine(t)
      <3>1. SUFFICES ASSUME SweepNext(t) # None PROVE Fine(t) BY <2>1
      <3>2. /\ swept[t] \in Seq(Nodes) /\ swept[t] # <<>> /\ node[t] = Last(swept[t])
            /\ Linked(swept[t]) /\ Once(swept[t])
        BY <2>1 DEF SweepInv
      <3>3. Len(swept[t]) > 1 /\ SweepNext(t) = Last(Front(swept[t])) BY <3>1, <3>2, SweepsToTheEnd
      <3>4. /\ Front(swept[t]) \in Seq(Nodes) /\ Linked(Front(swept[t])) /\ Once(Front(swept[t]))
            /\ node[t] \notin Range(Front(swept[t])) /\ node[t] \in Nodes
        BY <3>2, FrontFacts, FrontRange, LinkedFront
      <3>5. Front(swept[t]) # <<>>
        <4>1. Len(Front(swept[t])) = Len(swept[t]) - 1 /\ Len(swept[t]) \in Nat BY <3>2, FrontFacts
        <4>2. Len(Front(swept[t])) > 0 BY <3>3, <4>1
        <4>3. QED BY <4>2
      <3>6. Linked(swept[t])'
        <4>1. swept'[t] = Front(swept[t]) BY <2>1
        <4>2. \A i \in DOMAIN Front(swept[t]) :
                 next'[Front(swept[t])[i]] = IF i = 1 THEN None ELSE Front(swept[t])[i - 1]
          BY <2>1, <3>4, LinkedElsewhere
        <4>3. QED BY <4>1, <4>2 DEF Linked
      <3>7. QED BY <2>1, <3>3, <3>4, <3>5, <3>6
    <2>3. QED BY <1>2, <2>1, <2>2 DEF SweepInv
  <1>10. QED BY <1>3, <1>4, <1>5, <1>6, <1>7, <1>8, <1>9, ReadsFacts DEF Calls, Step
-----------------------------------------------------------------------------
(***************************************************************************)
(* What a thread has read of the head.                                     *)
(***************************************************************************)

\* One more push, and fewer than the sequence number can count.
LEMMA CountedOn ==
  ASSUME NEW now \in 0 .. SeqMod - 1, NEW then \in 0 .. SeqMod - 1, NEW n \in 0 .. SeqMod - 1, n < SeqMod - 1,
         now = then + n \/ now = then + n - SeqMod
  PROVE  NextSequence(now) = then + (n + 1) \/ NextSequence(now) = then + (n + 1) - SeqMod
  <1>1. SeqMod \in Nat BY ListAssumption
  <1>2. CASE now = SeqMod - 1
    <2>1. now = then + n BY <1>1, <1>2
    <2>2. 0 = then + (n + 1) - SeqMod BY <1>1, <1>2, <2>1
    <2>3. QED BY <1>2, <2>2 DEF NextSequence
  <1>3. CASE now # SeqMod - 1 BY <1>1, <1>3 DEF NextSequence
  <1>4. QED BY <1>2, <1>3

LEMMA FreshStep ==
  ASSUME TypeOK, EveryNodeOnce, HeadHoldsList, LocalsInv, SweepInv, FreshInv, NEW t \in Threads, Calls(t) \/ Step(t)
  PROVE  FreshInv'
  <1> DEFINE Fine(u) == "tag" \in loaded'[u] =>
                /\ \/ head'.Sequence = old'[u].Sequence + late'[u]
                   \/ head'.Sequence = old'[u].Sequence + late'[u] - SeqMod
                /\ late'[u] = 0 => Len(list') <= old'[u].Depth
                /\ /\ "link" \in loaded'[u] /\ late'[u] = 0
                   /\ Len(list') = old'[u].Depth /\ head'.Next = old'[u].Next
                   => link'[u] = next'[old'[u].Next]
  <1> USE DEF TypeOK, Heads
  <1>1. ASSUME NEW u \in Threads, loaded'[u] = loaded[u], old'[u] = old[u], late'[u] = late[u], link'[u] = link[u],
               head' = head, list' = list
        PROVE  Fine(u)
    <2>1. SUFFICES ASSUME "tag" \in loaded[u] PROVE Fine(u) BY <1>1
    <2>2. ASSUME "link" \in loaded[u], late[u] = 0, Len(list) = old[u].Depth, head.Next = old[u].Next
          PROVE  link[u] = next'[old[u].Next]
      <3>1. old[u].Next # None BY <2>2 DEF LocalsInv
      <3>2. list # <<>> /\ old[u].Next = Last(list) BY <2>2, <3>1 DEF HeadHoldsList, TopOf
      <3>3. Len(list) \in DOMAIN list BY <3>2, FrontFacts
      <3>4. next'[Last(list)] = next[Last(list)]
        BY <3>3, ListLinksStay DEF HeadHoldsList, Linked, Last
      <3>5. QED BY <2>1, <2>2, <3>2, <3>4 DEF FreshInv
    <2>3. QED BY <1>1, <2>1, <2>2 DEF FreshInv
  <1>2. ASSUME NEW u \in Threads, loaded'[u] = {} PROVE Fine(u) BY <1>2
  <1>3. ASSUME NEW u \in Threads, loaded'[u] = loaded[u], old'[u] = old[u], late'[u] = late[u], link'[u] = link[u],
               head'.Sequence = head.Sequence, Len(list') < Len(list), Len(list) \in Nat, Len(list') \in Nat
        PROVE  Fine(u)
    <2>1. SUFFICES ASSUME "tag" \in loaded[u] PROVE Fine(u) BY <1>3
    <2>2. late[u] = 0 => Len(list) <= old[u].Depth BY <2>1 DEF FreshInv
    <2>3. late[u] = 0 => Len(list') < old[u].Depth
      <3>1. old[u].Depth \in Nat OBVIOUS
      <3>2. QED BY <1>3, <2>2, <3>1
    <2>4. old[u].Depth \in Nat OBVIOUS
    <2>5. QED BY <1>3, <2>1, <2>3, <2>4 DEF FreshInv
  <1>4. CASE \/ PopItem(t) \/ Purge(t) \/ LoadNext(t) \/ LoadTag(t) \/ LoadLink(t)
             \/ ReturnNull(t) \/ Retry(t)
    <2>1. \A u \in Threads \ {t} : Fine(u) BY <1>1, <1>4, ReadsFacts DEF Reads
    <2>2. CASE PopItem(t) BY <1>1, <2>1, <2>2 DEF PopItem, memory, history, FreshInv
    <2>3. CASE Purge(t) BY <1>1, <2>1, <2>3 DEF Purge, memory, history, FreshInv
    <2>4. CASE LoadNext(t)
      <3>1. /\ "link" \notin loaded'[t] /\ head' = head /\ list' = list /\ late' = late
            /\ "tag" \in loaded'[t] => "tag" \in loaded[t]
            /\ old'[t].Depth = old[t].Depth /\ old'[t].Sequence = old[t].Sequence
        BY <2>4 DEF LoadNext, memory, history, LocalsInv, HeadLoaded
      <3>2. Fine(t) BY <3>1 DEF FreshInv
      <3>3. QED BY <2>1, <3>2 DEF FreshInv
    <2>5. CASE LoadTag(t)
      <3>1. /\ "link" \notin loaded'[t] /\ head' = head /\ list' = list /\ late'[t] = 0
            /\ old'[t].Depth = head.Depth /\ old'[t].Sequence = head.Sequence
        BY <2>5 DEF LoadTag, memory, history, LocalsInv, HeadLoaded
      <3>2. Fine(t) BY <3>1 DEF HeadHoldsList
      <3>3. QED BY <2>1, <3>2 DEF FreshInv
    <2>6. CASE LoadLink(t)
      <3>1. /\ "tag" \in loaded[t] /\ old[t].Next # None /\ head' = head /\ list' = list /\ late' = late
            /\ old' = old /\ next' = next
            /\ old[t].Next \in Range(list) => link'[t] = next[old[t].Next]
        BY <2>6 DEF LoadLink, memory, history, HeadLoaded
      <3>2. head.Next = old[t].Next => old[t].Next \in Range(list)
        <4>1. SUFFICES ASSUME head.Next = old[t].Next PROVE old[t].Next \in Range(list) OBVIOUS
        <4>2. list # <<>> /\ old[t].Next = Last(list) BY <3>1, <4>1 DEF HeadHoldsList, TopOf
        <4>3. Len(list) \in 1 .. Len(list) BY <4>2, FrontFacts
        <4>4. QED BY <4>2, <4>3, RangeFacts DEF Last
      <3>3. Fine(t) BY <3>1, <3>2 DEF FreshInv
      <3>4. QED BY <2>1, <3>3 DEF FreshInv
    <2>7. CASE ReturnNull(t) \/ Retry(t)
      <3>1. loaded'[t] = {} BY <2>7 DEF ReturnNull, Retry, Restarts
      <3>2. QED BY <1>2, <2>1, <3>1 DEF FreshInv
    <2>8. QED BY <1>4, <2>2, <2>3, <2>4, <2>5, <2>6, <2>7
  <1>5. ASSUME NEW e \in Items, PushItem(t, e) PROVE FreshInv'
    BY <1>1, <1>5 DEF PushItem, history, FreshInv
  <1>6. CASE PushSwap(t)
    <2>1. loaded'[t] = {} BY <1>6 DEF PushSwap, Restarts
    <2>2. ASSUME NEW u \in Threads, u # t, "tag" \in loaded'[u] PROVE Fine(u)
      <3>1. /\ loaded'[u] = loaded[u] /\ old'[u] = old[u] /\ late'[u] = late[u] + 1
            /\ late[u] < SeqMod - 1
        BY <1>6, <2>2 DEF PushSwap, Restarts, Overtaken, NoWrap
      <3>2. head'.Sequence = NextSequence(head.Sequence)
        BY <1>6 DEF PushSwap, PushedHead, Unchanged
      <3>3. head.Sequence = old[u].Sequence + late[u] \/ head.Sequence = old[u].Sequence + late[u] - SeqMod
        BY <2>2, <3>1 DEF FreshInv
      <3>4. head.Sequence \in 0 .. SeqMod - 1 /\ old[u].Sequence \in 0 .. SeqMod - 1 /\ late[u] \in 0 .. SeqMod - 1
        OBVIOUS
      <3>5. \/ head'.Sequence = old[u].Sequence + late'[u]
            \/ head'.Sequence = old[u].Sequence + late'[u] - SeqMod
        BY <3>1, <3>2, <3>3, <3>4, CountedOn
      <3>6. late'[u] # 0 BY <3>1, <3>4
      <3>7. QED BY <3>1, <3>5, <3>6
    <2>3. QED BY <1>2, <2>1, <2>2 DEF FreshInv
  <1>7. CASE PopSwap(t)
    <2>1. list # <<>> /\ head = old[t] BY <1>7, SwapFacts DEF PopSwap, LocalsInv
    <2>2. Len(list') < Len(list) /\ Len(list) \in Nat /\ Len(list') \in Nat
      BY <1>7, <2>1, FrontFacts DEF PopSwap
    <2>3. head'.Sequence = head.Sequence BY <1>7, <2>1 DEF PopSwap, PoppedHead
    <2>4. loaded'[t] = {} BY <1>7 DEF PopSwap, Restarts
    <2>5. ASSUME NEW u \in Threads, u # t PROVE Fine(u)
      BY <1>3, <1>7, <2>2, <2>3, <2>5 DEF PopSwap, Restarts, InTime
    <2>6. QED BY <1>2, <2>4, <2>5 DEF FreshInv
  <1>8. CASE DetachSwap(t)
    <2>1. list # <<>> /\ head = old[t] BY <1>8, SwapFacts DEF DetachSwap
    <2>2. Len(list') < Len(list) /\ Len(list) \in Nat /\ Len(list') \in Nat
      BY <1>8, <2>1, FrontFacts DEF DetachSwap
    <2>3. head'.Sequence = head.Sequence BY <1>8, <2>1 DEF DetachSwap, DetachedHead
    <2>4. loaded'[t] = {} BY <1>8 DEF DetachSwap, Restarts
    <2>5. ASSUME NEW u \in Threads, u # t PROVE Fine(u)
      BY <1>3, <1>8, <2>2, <2>3, <2>5 DEF DetachSwap, Restarts, InTime
    <2>6. QED BY <1>2, <2>4, <2>5 DEF FreshInv
  <1>9. CASE TakeItem(t) BY <1>1, <1>9 DEF TakeItem, history, FreshInv
  <1>10. CASE Sweep(t) BY <1>1, <1>10 DEF Sweep, FreshInv
  <1>11. QED BY <1>4, <1>5, <1>6, <1>7, <1>8, <1>9, <1>10 DEF Calls, Step
-----------------------------------------------------------------------------
(***************************************************************************)
(* The invariant.                                                          *)
(***************************************************************************)

LEMMA InvInit == Init => Inv
  <1> SUFFICES ASSUME Init PROVE Inv OBVIOUS
  <1>1. TypeOK BY TypeInit
  <1>2. HeadHoldsList BY DEF Init, HeadHoldsList, Linked, TopOf, NoHead
  <1>3. EveryNodeOnce
    <2>1. Range(list) = {} /\ Once(list) BY DEF Init, Range, Once
    <2>2. \A t \in Threads : Held(t) = {} BY DEF Init, Held
    <2>3. free = Nodes BY DEF Init
    <2>4. QED BY <2>1, <2>2, <2>3 DEF EveryNodeOnce
  <1>4. LocalsInv /\ SweepInv /\ FreshInv BY DEF Init, LocalsInv, SweepInv, FreshInv
  <1>5. QED BY <1>1, <1>2, <1>3, <1>4 DEF Inv

LEMMA InvStep ==
  ASSUME Inv, [Next]_vars
  PROVE  Inv'
  <1> USE DEF Inv
  <1>1. TypeOK' BY TypeStep
  <1>2. ASSUME NEW t \in Threads, Calls(t) \/ Step(t) PROVE Inv'
    BY <1>1, <1>2, HeadStep, OnceStep, LocalsStep, SweepStep, FreshStep
  <1>3. CASE UNCHANGED vars
    BY <1>1, <1>3 DEF vars, memory, locals, history, HeadHoldsList, Linked, TopOf, Last, EveryNodeOnce, Once,
       Held, LocalsInv, HeadLoaded, SweepInv, FreshInv
  <1>4. QED BY <1>2, <1>3 DEF Next

\* The invariant that the theorems below rest on holds in every state.
THEOREM InvAlways == Spec => []Inv
  BY InvInit, InvStep, PTL DEF Spec

\* Types (TypeOK), for any number of threads and nodes.
THEOREM TSListTypeCorrect == Spec => []TypeOK
  <1>1. Inv => TypeOK BY DEF Inv
  <1>2. QED BY <1>1, InvAlways, PTL

\* The head and the links hold exactly the items that are in the list
\* (CTSListBase::Push, Pop and Detach), however the threads interleave.
THEOREM HeadHoldsListAlways == Spec => []HeadHoldsList
  <1>1. Inv => HeadHoldsList BY DEF Inv
  <1>2. QED BY <1>1, InvAlways, PTL

\* No node is given twice, freed while in use, or lost (CTSList).
THEOREM EveryNodeOnceAlways == Spec => []EveryNodeOnce
  <1>1. Inv => EveryNodeOnce BY DEF Inv
  <1>2. QED BY <1>1, InvAlways, PTL

\* Both together, for any number of threads, nodes and sequence numbers (CTSList).
THEOREM ListWholeAlways == Spec => []ListWhole
  <1>1. HeadHoldsList /\ EveryNodeOnce => ListWhole BY DEF ListWhole
  <1>2. QED BY <1>1, HeadHoldsListAlways, EveryNodeOnceAlways, PTL
-----------------------------------------------------------------------------
(***************************************************************************)
(* The refinement of the atomic stack.                                     *)
(***************************************************************************)

LEMMA CallFacts ==
  ASSUME NEW t \in Threads
  PROVE  /\ op[t] = "idle" => CallOf(t) = Stack!Doing("idle", None)
         /\ op[t] = "push" => CallOf(t) = Stack!Doing("push", elem[node[t]])
         /\ op[t] = "take" => CallOf(t) = Stack!Doing("got", elem[node[t]])
         /\ op[t] = "sweep" => CallOf(t) = Stack!Doing("purged", None)
         /\ op[t] = "pop" => CallOf(t) = Stack!Doing(IF FoundNothing(t) THEN "got" ELSE "pop", None)
         /\ op[t] = "purge" => CallOf(t) = Stack!Doing(IF FoundNothing(t) THEN "purged" ELSE "purge", None)
  BY DEF CallOf, Stack!Doing

LEMMA CallFactsNext ==
  ASSUME NEW t \in Threads
  PROVE  /\ op'[t] = "idle" => CallOf(t)' = Stack!Doing("idle", None)
         /\ op'[t] = "push" => CallOf(t)' = Stack!Doing("push", elem'[node'[t]])
         /\ op'[t] = "take" => CallOf(t)' = Stack!Doing("got", elem'[node'[t]])
         /\ op'[t] = "sweep" => CallOf(t)' = Stack!Doing("purged", None)
         /\ op'[t] = "pop" => CallOf(t)' = Stack!Doing(IF FoundNothing(t)' THEN "got" ELSE "pop", None)
         /\ op'[t] = "purge" => CallOf(t)' = Stack!Doing(IF FoundNothing(t)' THEN "purged" ELSE "purge", None)
  BY DEF CallOf, Stack!Doing

\* Items that are written are those of nodes from the heap or in a thread's hands.
LEMMA ItemsStay ==
  ASSUME Inv, NEW t \in Threads, Calls(t) \/ Step(t)
  PROVE  /\ \A n \in Range(list) : elem'[n] = elem[n]
         /\ \A u \in Threads \ {t} : op[u] \in {"push", "take"} => elem'[node[u]] = elem[node[u]]
  <1> USE DEF Inv
  <1>1. CASE elem' = elem BY <1>1
  <1>2. ASSUME NEW n \in Nodes, NEW v, elem' = [elem EXCEPT ![n] = v], n \notin Range(list),
               \A u \in Threads \ {t} : n \notin Held(u)
        PROVE  /\ \A m \in Range(list) : elem'[m] = elem[m]
               /\ \A u \in Threads \ {t} : op[u] \in {"push", "take"} => elem'[node[u]] = elem[node[u]]
    <2>1. \A m \in Nodes : m # n => elem'[m] = elem[m] BY <1>2 DEF TypeOK
    <2>2. Range(list) \subseteq Nodes BY RangeFacts DEF TypeOK
    <2>3. \A u \in Threads \ {t} : op[u] \in {"push", "take"} => node[u] \in Nodes /\ node[u] # n
      BY <1>2, InHands
    <2>4. QED BY <1>2, <2>1, <2>2, <2>3
  <1>3. ASSUME NEW e \in Items, PushItem(t, e)
        PROVE  /\ \A n \in Range(list) : elem'[n] = elem[n]
               /\ \A u \in Threads \ {t} : op[u] \in {"push", "take"} => elem'[node[u]] = elem[node[u]]
    <2>1. PICK n \in free : elem' = [elem EXCEPT ![n] = e] BY <1>3 DEF PushItem
    <2>2. n \in Nodes /\ n \notin Range(list) /\ \A u \in Threads : n \notin Held(u)
      BY DEF TypeOK, EveryNodeOnce
    <2>3. QED BY <1>2, <2>1, <2>2
  <1>4. CASE TakeItem(t) \/ Sweep(t)
    <2>1. elem' = [elem EXCEPT ![node[t]] = None] /\ op[t] \in {"take", "sweep"}
      BY <1>4 DEF TakeItem, Sweep, Delete
    <2>2. node[t] \in Nodes /\ node[t] \in Held(t) /\ node[t] \notin Range(list) BY <2>1, InHands
    <2>3. \A u \in Threads \ {t} : node[t] \notin Held(u) BY <2>2 DEF EveryNodeOnce
    <2>4. QED BY <1>2, <2>1, <2>2, <2>3
  <1>5. CASE PushSwap(t) \/ PopSwap(t) \/ DetachSwap(t)
    BY <1>1, <1>5 DEF PushSwap, PopSwap, DetachSwap
  <1>6. QED BY <1>1, <1>3, <1>4, <1>5, ReadsFacts DEF Calls, Step, Reads

LEMMA OthersCall ==
  ASSUME Inv, NEW t \in Threads, Calls(t) \/ Step(t)
  PROVE  CallsMade' = [CallsMade EXCEPT ![t] = CallOf(t)']
  <1> USE DEF Inv, TypeOK
  <1>1. \A u \in Threads \ {t} : /\ loaded'[u] = loaded[u] /\ op'[u] = op[u]
                                 /\ old'[u] = old[u] /\ node'[u] = node[u]
    <2>1. CASE Reads(t) BY <2>1 DEF Reads
    <2>2. ASSUME NEW e \in Items, PushItem(t, e)
          PROVE  \A u \in Threads \ {t} : /\ loaded'[u] = loaded[u] /\ op'[u] = op[u]
                                         /\ old'[u] = old[u] /\ node'[u] = node[u]
      BY <2>2 DEF PushItem, Goes
    <2>3. CASE PushSwap(t) BY <2>3 DEF PushSwap, Goes, Restarts
    <2>4. CASE PopSwap(t) BY <2>4 DEF PopSwap, Goes, Restarts
    <2>5. CASE DetachSwap(t) BY <2>5 DEF DetachSwap, Goes, Restarts
    <2>6. CASE TakeItem(t) BY <2>6 DEF TakeItem, Goes
    <2>7. CASE Sweep(t) BY <2>7 DEF Sweep, Goes
    <2>8. QED BY <2>1, <2>2, <2>3, <2>4, <2>5, <2>6, <2>7, ReadsFacts DEF Calls, Step
  <1>2. ASSUME NEW u \in Threads \ {t} PROVE CallOf(u)' = CallOf(u)
    <2>1. FoundNothing(u)' = FoundNothing(u) BY <1>1 DEF FoundNothing
    <2>2. op[u] \in {"push", "take"} => elem'[node'[u]] = elem[node[u]] BY <1>1, ItemsStay
    <2>3. op[u] \in Ops /\ op'[u] = op[u] BY <1>1
    <2>4. QED BY <2>1, <2>2, <2>3, CallFacts, CallFactsNext DEF Ops
  <1>3. QED BY <1>2 DEF CallsMade

LEMMA SameContents ==
  ASSUME Inv, NEW t \in Threads, Calls(t) \/ Step(t), list' = list
  PROVE  Contents' = Contents
  <1>1. \A i \in DOMAIN list : list[i] \in Range(list) BY RangeFacts DEF Inv, TypeOK
  <1>2. QED BY <1>1, ItemsStay DEF Contents

LEMMA ContentsFacts ==
  ASSUME Inv
  PROVE  /\ DOMAIN Contents = 1 .. Len(list) /\ Len(list) \in Nat /\ Len(Contents) = Len(list)
         /\ Contents \in Seq(Items \cup {None})
         /\ list = <<>> <=> Contents = <<>>
         /\ \A i \in 1 .. Len(list) : Contents[i] = elem[list[i]]
  <1>1. /\ list \in Seq(Nodes) /\ elem \in [Nodes -> Items \cup {None}] /\ Len(list) \in Nat
        /\ DOMAIN list = 1 .. Len(list)
    BY DEF Inv, TypeOK
  <1>2. \A i \in 1 .. Len(list) : list[i] \in Nodes BY <1>1
  <1>3. Contents = [i \in 1 .. Len(list) |-> elem[list[i]]] BY <1>1 DEF Contents
  <1>4. Contents \in [1 .. Len(list) -> Items \cup {None}] BY <1>1, <1>2, <1>3
  <1>5. Contents \in Seq(Items \cup {None}) /\ Len(Contents) = Len(list) BY <1>1, <1>4
  <1>6. list = <<>> <=> Contents = <<>> BY <1>1, <1>5
  <1>7. QED BY <1>1, <1>3, <1>4, <1>5, <1>6

LEMMA StepIsAtomic ==
  ASSUME Inv, Inv', NEW t \in Threads, Calls(t) \/ Step(t)
  PROVE  \/ UNCHANGED <<Contents, CallsMade>>
         \/ \/ Stack!Begin(t) \/ Stack!Push(t) \/ Stack!PopTop(t) \/ Stack!PopNothing(t)
            \/ Stack!Purge(t) \/ Stack!Return(t)
  <1> DEFINE after == CallOf(t)'
  <1> USE DEF Inv, TypeOK
  <1>1. CallsMade[t] = CallOf(t) /\ CallsMade' = [CallsMade EXCEPT ![t] = after]
    BY OthersCall DEF CallsMade
  <1>2. ASSUME CallOf(t)' = CallOf(t) PROVE CallsMade' = CallsMade
    BY <1>1, <1>2 DEF CallsMade
  <1>3. Stack!Moves(t, after) BY <1>1 DEF Stack!Moves
  <1>4. op[t] = "idle" => ~FoundNothing(t) BY DEF LocalsInv, FoundNothing, Loops
  <1> HIDE DEF after
  <1>5. CASE PopItem(t)
    <2>1. op[t] = "idle" /\ op'[t] = "pop" /\ ~FoundNothing(t)' /\ list' = list
      BY <1>4, <1>5 DEF PopItem, Goes, history, FoundNothing
    <2>2. after = Stack!Doing("pop", None) /\ CallOf(t) = Stack!Idle
      BY <2>1, CallFacts, CallFactsNext DEF after, Stack!Idle
    <2>3. QED BY <1>1, <1>3, <2>1, <2>2, SameContents DEF Stack!Begin
  <1>6. CASE Purge(t)
    <2>1. op[t] = "idle" /\ op'[t] = "purge" /\ ~FoundNothing(t)' /\ list' = list
      BY <1>4, <1>6 DEF Purge, Goes, history, FoundNothing
    <2>2. after = Stack!Doing("purge", None) /\ CallOf(t) = Stack!Idle
      BY <2>1, CallFacts, CallFactsNext DEF after, Stack!Idle
    <2>3. QED BY <1>1, <1>3, <2>1, <2>2, SameContents DEF Stack!Begin
  <1>7. ASSUME NEW e \in Items, PushItem(t, e)
        PROVE  Stack!Begin(t)
    <2>1. op[t] = "idle" /\ op'[t] = "push" /\ list' = list /\ elem'[node'[t]] = e
      BY <1>7 DEF PushItem, Goes, history
    <2>2. after = Stack!Doing("push", e) /\ CallOf(t) = Stack!Idle
      BY <2>1, CallFacts, CallFactsNext DEF after, Stack!Idle
    <2>3. QED BY <1>1, <1>3, <2>1, <2>2, SameContents DEF Stack!Begin
  <1>8. CASE LoadNext(t)
    <2>1. op' = op /\ list' = list /\ elem' = elem /\ node' = node /\ ~FoundNothing(t)
          /\ (FoundNothing(t)' <=> head.Next = None)
      BY <1>8 DEF LoadNext, memory, history, FoundNothing
    <2>2. Contents' = Contents BY <2>1, SameContents
    <2>3. head.Next = None => Contents = <<>>
      <3>1. list # <<>> => Last(list) \in Nodes BY FrontFacts
      <3>2. head.Next = None => list = <<>> BY <3>1, ListAssumption DEF HeadHoldsList, TopOf
      <3>3. QED BY <3>2, ContentsFacts
    <2>4. CASE head.Next = None /\ op[t] = "pop"
      <3>1. CallOf(t) = Stack!Doing("pop", None) /\ after = Stack!Doing("got", None)
        BY <2>1, <2>4, CallFacts, CallFactsNext DEF after
      <3>2. QED BY <1>1, <1>3, <2>2, <2>3, <2>4, <3>1 DEF Stack!PopNothing, Stack!Doing
    <2>5. CASE head.Next = None /\ op[t] = "purge"
      <3>1. CallOf(t) = Stack!Doing("purge", None) /\ after = Stack!Doing("purged", None)
        BY <2>1, <2>5, CallFacts, CallFactsNext DEF after
      <3>2. QED BY <1>1, <1>3, <2>2, <2>3, <2>5, <3>1 DEF Stack!Purge, Stack!Doing
    <2>6. CASE head.Next # None \/ op[t] = "push"
      <3>1. op[t] \in Loops BY <1>8 DEF LoadNext
      <3>2. CallOf(t)' = CallOf(t) BY <2>1, <2>6, <3>1, CallFacts, CallFactsNext DEF Loops
      <3>3. QED BY <1>2, <2>2, <3>2
    <2>7. QED BY <1>8, <2>4, <2>5, <2>6 DEF LoadNext, Loops
  <1>9. ASSUME op' = op, list' = list, elem' = elem, node' = node, op[t] # "idle", FoundNothing(t)' = FoundNothing(t)
        PROVE  UNCHANGED <<Contents, CallsMade>>
    <2>1. op[t] \in Ops OBVIOUS
    <2>2. CallOf(t)' = CallOf(t) BY <1>9, <2>1, CallFacts, CallFactsNext DEF Ops
    <2>3. QED BY <1>2, <1>9, <2>2, SameContents
  <1>10. CASE LoadTag(t)
    BY <1>9, <1>10 DEF LoadTag, memory, history, FoundNothing, Loops
  <1>11. CASE LoadLink(t)
    BY <1>9, <1>11 DEF LoadLink, memory, history, FoundNothing
  <1>12. CASE Retry(t)
    <2>1. op' = op /\ list' = list /\ elem' = elem /\ node' = node /\ op[t] \in Loops /\ ~FoundNothing(t)'
      BY <1>12 DEF Retry, Restarts, memory, FoundNothing
    <2>2. op[t] # "push" => ~FoundNothing(t) BY <1>12 DEF Retry, FoundNothing
    <2>3. CallOf(t)' = CallOf(t) BY <2>1, <2>2, CallFacts, CallFactsNext DEF Loops
    <2>4. QED BY <1>2, <2>1, <2>3, SameContents
  <1>13. CASE ReturnNull(t)
    <2>1. op[t] \in {"pop", "purge"} /\ op'[t] = "idle" /\ list' = list /\ FoundNothing(t)
      BY <1>13 DEF ReturnNull, Goes, FoundNothing, HeadLoaded
    <2>2. CallOf(t) \in {Stack!Doing("got", None), Stack!Doing("purged", None)} /\ after = Stack!Idle
      BY <2>1, CallFacts, CallFactsNext DEF after, Stack!Idle
    <2>3. QED BY <1>1, <1>3, <2>1, <2>2, SameContents DEF Stack!Return, Stack!Doing
  <1>14. CASE PushSwap(t)
    <2>1. op[t] = "push" /\ op'[t] = "idle" /\ elem' = elem /\ list' = Append(list, node[t]) /\ node[t] \in Nodes
      BY <1>14 DEF PushSwap, Goes, LocalsInv
    <2>2. CallOf(t) = Stack!Doing("push", elem[node[t]]) /\ after = Stack!Idle
      BY <2>1, CallFacts, CallFactsNext DEF after, Stack!Idle
    <2>3. Contents' = Append(Contents, elem[node[t]])
      <3>1. DOMAIN list' = 1 .. Len(list) + 1 /\ list'[Len(list) + 1] = node[t]
            /\ \A i \in 1 .. Len(list) : list'[i] = list[i]
        BY <2>1, AppendFacts
      <3>2. Contents' = [i \in 1 .. Len(list) + 1 |-> elem[list'[i]]] BY <2>1, <3>1 DEF Contents
      <3>3. Append(Contents, elem[node[t]]) \in Seq(Items \cup {None})
            /\ Len(Append(Contents, elem[node[t]])) = Len(list) + 1
            /\ \A i \in 1 .. Len(list) : Append(Contents, elem[node[t]])[i] = elem[list[i]]
            /\ Append(Contents, elem[node[t]])[Len(list) + 1] = elem[node[t]]
        <4>1. elem[node[t]] \in Items \cup {None} BY <2>1
        <4>2. /\ Append(Contents, elem[node[t]]) \in Seq(Items \cup {None})
              /\ Len(Append(Contents, elem[node[t]])) = Len(Contents) + 1
              /\ \A i \in 1 .. Len(Contents) : Append(Contents, elem[node[t]])[i] = Contents[i]
              /\ Append(Contents, elem[node[t]])[Len(Contents) + 1] = elem[node[t]]
          BY <4>1, ContentsFacts, AppendProperties
        <4>3. QED BY <4>2, ContentsFacts
      <3>4. DOMAIN Append(Contents, elem[node[t]]) = 1 .. Len(list) + 1 BY <3>3
      <3>5. \A i \in 1 .. Len(list) + 1 : Append(Contents, elem[node[t]])[i] = elem[list'[i]]
        <4>1. \A i \in 1 .. Len(list) + 1 : i \in 1 .. Len(list) \/ i = Len(list) + 1 BY ContentsFacts
        <4>2. QED BY <3>1, <3>3, <4>1
      <3>6. Append(Contents, elem[node[t]]) = [i \in 1 .. Len(list) + 1 |-> elem[list'[i]]]
        BY <3>3, <3>4, <3>5
      <3>7. QED BY <3>2, <3>6
    <2>4. QED BY <1>1, <1>3, <2>2, <2>3 DEF Stack!Push, Stack!Doing
  <1>15. CASE PopSwap(t)
    <2>1. list # <<>> /\ old[t].Next = Last(list) /\ Last(list) \in Nodes
      BY <1>15, SwapFacts DEF PopSwap, LocalsInv
    <2>2. op[t] = "pop" /\ op'[t] = "take" /\ elem' = elem /\ list' = Front(list) /\ node'[t] = Last(list)
          /\ ~FoundNothing(t)
      BY <1>15, <2>1, ListAssumption DEF PopSwap, Goes, FoundNothing
    <2>3. CallOf(t) = Stack!Doing("pop", None) /\ after = Stack!Doing("got", elem[Last(list)])
      BY <2>2, CallFacts, CallFactsNext DEF after
    <2>4. Len(list) > 0 /\ Len(list) \in Nat BY <2>1, FrontFacts
    <2>5. Contents # <<>> /\ Contents[Len(Contents)] = elem[Last(list)]
      <3>1. Len(list) \in 1 .. Len(list) BY <2>4
      <3>2. QED BY <2>1, <3>1, ContentsFacts DEF Last
    <2>6. Contents' = SubSeq(Contents, 1, Len(Contents) - 1)
      <3>1. DOMAIN Front(list) = 1 .. Len(list) - 1 /\ \A i \in 1 .. Len(list) - 1 : Front(list)[i] = list[i]
        BY <2>1, FrontFacts
      <3>2. Contents' = [i \in 1 .. Len(list) - 1 |-> elem[list[i]]] BY <2>2, <3>1 DEF Contents
      <3>3. \A i \in 1 .. Len(list) - 1 : Contents[i] = elem[list[i]]
        <4>1. 1 .. Len(list) - 1 \subseteq 1 .. Len(list) BY <2>4
        <4>2. QED BY <4>1, ContentsFacts
      <3>4. SubSeq(Contents, 1, Len(Contents) - 1) = [i \in 1 .. Len(list) - 1 |-> Contents[i]]
        BY <2>4, ContentsFacts, BeginningOfSeq
      <3>5. QED BY <3>2, <3>3, <3>4
    <2>7. QED BY <1>1, <1>3, <2>3, <2>5, <2>6 DEF Stack!PopTop, Stack!Doing
  <1>16. CASE DetachSwap(t)
    <2>1. op[t] = "purge" /\ op'[t] = "sweep" /\ list' = <<>> /\ ~FoundNothing(t)
      BY <1>16 DEF DetachSwap, Goes, FoundNothing
    <2>2. CallOf(t) = Stack!Doing("purge", None) /\ after = Stack!Doing("purged", None)
      BY <2>1, CallFacts, CallFactsNext DEF after
    <2>3. Contents' = <<>> BY <2>1 DEF Contents
    <2>4. QED BY <1>1, <1>3, <2>2, <2>3 DEF Stack!Purge, Stack!Doing
  <1>17. CASE TakeItem(t)
    <2>1. op[t] = "take" /\ op'[t] = "idle" /\ list' = list BY <1>17 DEF TakeItem, Goes, history
    <2>2. CallOf(t) = Stack!Doing("got", elem[node[t]]) /\ after = Stack!Idle
      BY <2>1, CallFacts, CallFactsNext DEF after, Stack!Idle
    <2>3. QED BY <1>1, <1>3, <2>1, <2>2, SameContents DEF Stack!Return, Stack!Doing
  <1>18. CASE Sweep(t)
    <2>1. op[t] = "sweep" /\ op'[t] \in {"idle", "sweep"} /\ list' = list BY <1>18 DEF Sweep, Goes
    <2>2. CallOf(t) = Stack!Doing("purged", None)
          /\ after \in {Stack!Idle, Stack!Doing("purged", None)}
      BY <2>1, CallFacts, CallFactsNext DEF after, Stack!Idle
    <2>3. CASE after = Stack!Idle
      BY <1>1, <1>3, <2>1, <2>2, <2>3, SameContents DEF Stack!Return, Stack!Doing
    <2>4. CASE after = Stack!Doing("purged", None)
      BY <1>2, <2>1, <2>2, <2>4, SameContents DEF after
    <2>5. QED BY <2>2, <2>3, <2>4
  <1>19. QED BY <1>5, <1>6, <1>7, <1>8, <1>10, <1>11, <1>12, <1>13, <1>14, <1>15, <1>16, <1>17, <1>18
         DEF Calls, Step

\* The lock-free list is linearizable: whatever its threads do, it is a stack
\* whose operations happen at one instant each.
THEOREM TSListIsItemStack == Spec => IsItemStack
  <1>1. Init => Stack!Init
    <2>1. SUFFICES ASSUME Init PROVE Stack!Init OBVIOUS
    <2>2. Contents = <<>> BY <2>1 DEF Init, Contents
    <2>3. \A t \in Threads : CallOf(t) = Stack!Idle
      BY <2>1, CallFacts DEF Init, Stack!Idle
    <2>4. CallsMade = [t \in Threads |-> Stack!Idle] BY <2>3 DEF CallsMade
    <2>5. QED BY <2>2, <2>4 DEF Stack!Init
  <1>2. Inv /\ Inv' /\ [Next]_vars => [Stack!Next]_Stack!atomic
    <2>1. SUFFICES ASSUME Inv, Inv', [Next]_vars PROVE [Stack!Next]_Stack!atomic OBVIOUS
    <2>2. CASE UNCHANGED vars
      <3>1. UNCHANGED <<Contents, CallsMade>>
        BY <2>2 DEF vars, memory, locals, history, Contents, CallsMade, CallOf, FoundNothing
      <3>2. QED BY <3>1 DEF Stack!atomic
    <2>3. ASSUME NEW t \in Threads, Calls(t) \/ Step(t) PROVE [Stack!Next]_Stack!atomic
      <3>1. \/ UNCHANGED <<Contents, CallsMade>>
            \/ \/ Stack!Begin(t) \/ Stack!Push(t) \/ Stack!PopTop(t) \/ Stack!PopNothing(t)
               \/ Stack!Purge(t) \/ Stack!Return(t)
        BY <2>1, <2>3, StepIsAtomic
      <3>2. QED BY <3>1 DEF Stack!Next, Stack!atomic
    <2>4. QED BY <2>1, <2>2, <2>3 DEF Next
  <1>3. QED BY <1>1, <1>2, InvAlways, PTL DEF Spec, IsItemStack, Stack!Spec

===============================================================================
