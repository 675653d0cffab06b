------------------------------ MODULE ItemQueue ------------------------------
(***************************************************************************)
(* What CTSQueue promises its threads: a first-in, first-out queue of      *)
(* items whose operations each happen at one instant between their call    *)
(* and their return.  A pop may say that there is nothing if the queue was *)
(* empty at some instant since it was called.  TSQueue is shown to         *)
(* implement this as long as it does not reuse its nodes.                  *)
(***************************************************************************)
EXTENDS Sequences, Naturals

CONSTANTS
    Threads,
    Items,
    None        \* no item

VARIABLES
    queue,      \* the items, the oldest first
    call,       \* what each thread is in the middle of
    sawEmpty    \* the threads that pop and for which the queue was empty meanwhile

atomic == <<queue, call, sawEmpty>>

Doing(op, item) == [op |-> op, item |-> item]
Idle == Doing("idle", None)

Init == queue = <<>> /\ call = [t \in Threads |-> Idle] /\ sawEmpty = {}

Moves(t, c) == call' = [call EXCEPT ![t] = c]

Begin(t) ==
    /\ call[t] = Idle
    /\ (\E e \in Items : Moves(t, Doing("push", e))) \/ Moves(t, Doing("pop", None))
    /\ UNCHANGED queue

Push(t) ==
    /\ call[t].op = "push"
    /\ queue' = Append(queue, call[t].item)
    /\ Moves(t, Doing("pushed", None))

PopFirst(t) ==
    /\ call[t].op = "pop" /\ queue # <<>>
    /\ queue' = Tail(queue)
    /\ Moves(t, Doing("got", Head(queue)))

PopNothing(t) ==
    /\ call[t].op = "pop" /\ t \in sawEmpty
    /\ Moves(t, Idle)
    /\ UNCHANGED queue

Return(t) ==
    /\ call[t].op \in {"pushed", "got"}
    /\ Moves(t, Idle)
    /\ UNCHANGED queue

Next ==
    /\ \E t \in Threads : Begin(t) \/ Push(t) \/ PopFirst(t) \/ PopNothing(t) \/ Return(t)
    /\ sawEmpty' = {t \in Threads : call'[t].op = "pop" /\ (queue' = <<>> \/ t \in sawEmpty)}

Spec == Init /\ [][Next]_atomic
==============================================================================
