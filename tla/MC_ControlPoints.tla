-------------------------- MODULE MC_ControlPoints --------------------------
EXTENDS ControlPoints

CONSTANTS r1, r2, b1

OneEach == [p \in Players |-> IF p = b1 THEN Blue ELSE Red]

\* Five-point style: a base each and a neutral point between.
Chain == [i \in Points |-> IF i = 0 THEN Red ELSE IF i = N - 1 THEN Blue ELSE None]
Hill == [i \in Points |-> None]
NoPrevious == [t \in Teams |-> [i \in Points |-> {}]]
OneGroup == [i \in Points |-> 0]
AllMayWin == Teams
AllCanCap == [i \in Points |-> Teams]
OneRequired == [t \in Teams |-> 1]
TwoRedRequired == [t \in Teams |-> IF t = Red THEN 2 ELSE 1]
=============================================================================
