---------------------------- MODULE CaptureTheFlag ----------------------------
(***************************************************************************)
(* What capture the flag promises its players: a flag is in one place, a   *)
(* player carries at most one flag, never the own one, and only who        *)
(* carries a flag home scores with it.  CaptureFlag is shown to implement  *)
(* this.                                                                   *)
(***************************************************************************)
EXTENDS Integers

CONSTANTS Players, Teams, Flags, FlagTeam, MaxScore

VARIABLES
    place,   \* "home", "ground", or the player who carries a flag
    side,    \* the team of a player
    score    \* the captures of a team in this round

ctf == <<place, side, score>>

Free(p) == \A f \in Flags : place[f] # p

Init ==
    /\ place = [f \in Flags |-> "home"]
    /\ side \in [Players -> Teams]
    /\ score = [t \in Teams |-> 0]

Take(p, f) ==
    /\ place' = [place EXCEPT ![f] = p]
    /\ place[f] \notin Players /\ Free(p) /\ side[p] # FlagTeam[f]
    /\ UNCHANGED <<side, score>>

Fall(f) ==
    /\ place[f] \in Players
    /\ place' = [place EXCEPT ![f] = "ground"]
    /\ UNCHANGED <<side, score>>

GoHome(f) ==
    /\ place[f] # "home"
    /\ place' = [place EXCEPT ![f] = "home"]
    /\ UNCHANGED <<side, score>>

\* A capture in sudden death may count for more than one.
Score(p, f) ==
    /\ place[f] = p
    /\ place' = [place EXCEPT ![f] = "home"]
    /\ \E s \in score[side[p]] + 1 .. MaxScore : score' = [score EXCEPT ![side[p]] = s]
    /\ UNCHANGED side

\* A player who changes sides takes no flag along.
ChangeSide(p, t) ==
    /\ side' = [side EXCEPT ![p] = t]
    /\ UNCHANGED score
    /\ place' \in {[f \in Flags |-> IF place[f] = p THEN where ELSE place[f]] : where \in {"home", "ground"}}

NewRound ==
    /\ place' = [f \in Flags |-> "home"]
    /\ side' \in [Players -> Teams]
    /\ score' = [t \in Teams |-> 0]

Next ==
    \/ \E f \in Flags :
          /\ place'[f] # place[f]
          /\ Fall(f) \/ GoHome(f) \/ \E p \in Players : Take(p, f) \/ Score(p, f)
    \/ \E p \in Players, t \in Teams : ChangeSide(p, t)
    \/ NewRound

Spec == Init /\ [][Next]_ctf
===============================================================================
