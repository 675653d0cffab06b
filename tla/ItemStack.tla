------------------------------ MODULE ItemStack ------------------------------
(***************************************************************************)
(* What CTSList promises its threads: a stack of items whose operations    *)
(* each happen at one instant between their call and their return.  TSList *)
(* is shown to implement this.                                             *)
(***************************************************************************)
EXTENDS Sequences, Naturals

CONSTANTS
    Threads,
    Items,
    None        \* no item

VARIABLES
    stack,      \* the items, the top one last
    call        \* what each thread is in the middle of

atomic == <<stack, call>>

Calls == [op : {"idle", "push", "pop", "got", "purge", "purged"}, item : Items \cup {None}]

Doing(op, item) == [op |-> op, item |-> item]
Idle == Doing("idle", None)

Init == stack = <<>> /\ call = [t \in Threads |-> Idle]

Moves(t, c) == call' = [call EXCEPT ![t] = c]

Begin(t) ==
    /\ call[t] = Idle
    /\ \/ \E e \in Items : Moves(t, Doing("push", e))
       \/ Moves(t, Doing("pop", None))
       \/ Moves(t, Doing("purge", None))
    /\ UNCHANGED stack

Push(t) ==
    /\ call[t].op = "push"
    /\ stack' = Append(stack, call[t].item)
    /\ Moves(t, Idle)

PopTop(t) ==
    /\ call[t].op = "pop" /\ stack # <<>>
    /\ stack' = SubSeq(stack, 1, Len(stack) - 1)
    /\ Moves(t, Doing("got", stack[Len(stack)]))

PopNothing(t) ==
    /\ call[t].op = "pop" /\ stack = <<>>
    /\ UNCHANGED stack
    /\ Moves(t, Doing("got", None))

Purge(t) ==
    /\ call[t].op = "purge"
    /\ stack' = <<>>
    /\ Moves(t, Doing("purged", None))

Return(t) ==
    /\ call[t].op \in {"got", "purged"}
    /\ Moves(t, Idle)
    /\ UNCHANGED stack

Next == \E t \in Threads :
    Begin(t) \/ Push(t) \/ PopTop(t) \/ PopNothing(t) \/ Purge(t) \/ Return(t)

Spec == Init /\ [][Next]_atomic
==============================================================================
