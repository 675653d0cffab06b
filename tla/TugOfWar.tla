------------------------------- MODULE TugOfWar -------------------------------
(***************************************************************************)
(* What a linear map of control points promises its players, with nobody   *)
(* in it: two teams push a front line along a row of points.  A team takes *)
(* a point only when it holds the whole road from its base to that point,  *)
(* and the step that gives a team the last point is the step that ends the *)
(* round.  ControlPoints is shown to implement this.                       *)
(***************************************************************************)
EXTENDS Integers

CONSTANTS
    Teams,
    None,
    Points,     \* a row of points, a set of consecutive integers
    BaseOf,     \* the end of the row that is a team's
    Start       \* who holds the points when a round begins

VARIABLES
    held,       \* the team that holds a point, or None
    play,       \* "closed", "open" or "won"
    winner      \* the team that won the round, None for a draw and before the end

tug == <<held, play, winner>>

\* The points a team passes on the way from its base to point i.
Road(t, i) == {k \in Points : \/ BaseOf[t] <= k /\ k < i
                              \/ i < k /\ k <= BaseOf[t]}

Init == held = Start /\ play = "closed" /\ winner = None

Ends(t) == play' = "won" /\ winner' = t

Advance(t, i) ==
    /\ play = "open" /\ held[i] # t
    /\ held' = [held EXCEPT ![i] = t]
    /\ \A k \in Road(t, i) : held[k] = t
    /\ IF \A k \in Points : held'[k] = t THEN Ends(t) ELSE UNCHANGED <<play, winner>>

Open == play = "closed" /\ play' = "open" /\ UNCHANGED <<held, winner>>
Close == play = "open" /\ play' = "closed" /\ UNCHANGED <<held, winner>>

\* The round is decided otherwise: by the time, a command or the map.
Decide(t) == play # "won" /\ Ends(t) /\ UNCHANGED held

NewRound == held' = Start /\ play' = "closed" /\ winner' = None

Next ==
    \/ \E t \in Teams, i \in Points : Advance(t, i)
    \/ Open \/ Close \/ NewRound
    \/ \E t \in Teams \cup {None} : Decide(t)

Spec == Init /\ [][Next]_tug
===============================================================================
