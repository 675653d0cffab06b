------------------------- MODULE CaptureFlagProofs -------------------------
(***************************************************************************)
(* Theorems about CaptureFlag, for every value of its constants.           *)
(***************************************************************************)
EXTENDS CaptureFlag, TLAPS

FlagFunctions == [Flags -> FlagStates]

-----------------------------------------------------------------------------
(***************************************************************************)
(* The states of a flag.                                                   *)
(***************************************************************************)

LEMMA SpawnedFacts ==
  ASSUME NEW f \in Flags
  PROVE  Spawned(f) \in FlagStates /\ Spawned(f).status = "home"
  <1>1. CASE f \in StartsDisabled
    <2>1. Spawned(f) = [status |-> "home", prev |-> None, timer |-> "off", touch |-> FALSE,
                        captured |-> FALSE, disabled |-> TRUE]
      BY <1>1 DEF Spawned
    <2>2. QED BY <2>1 DEF FlagStates
  <1>2. CASE f \notin StartsDisabled
    <2>1. Spawned(f) = [status |-> "home", prev |-> None, timer |-> "off", touch |-> TRUE,
                        captured |-> FALSE, disabled |-> FALSE]
      <3>1. (f \notin StartsDisabled) = TRUE /\ (f \in StartsDisabled) = FALSE BY <1>2
      <3>2. QED BY <3>1, Zenon DEF Spawned
    <2>2. QED BY <2>1 DEF FlagStates
  <1>3. QED BY <1>1, <1>2

LEMMA SpawnedInPlay ==
  ASSUME NEW f \in Flags, ~Spawned(f).disabled
  PROVE  Spawned(f).touch
  BY DEF Spawned

LEMMA ResetFacts ==
  ASSUME NEW s \in FlagStates
  PROVE  /\ Reset(s) \in FlagStates /\ Reset(s).status = "home"
         /\ Reset(s).touch = s.touch /\ Reset(s).captured = s.captured
         /\ Reset(s).disabled = s.disabled
  BY DEF Reset, FlagStates

LEMMA StolenFacts ==
  ASSUME NEW s \in FlagStates, NEW p \in Players
  PROVE  /\ Stolen(s, p) \in FlagStates /\ Stolen(s, p).status = "stolen"
         /\ Stolen(s, p).prev = p /\ Stolen(s, p).disabled = s.disabled
  BY DEF Stolen, FlagStates

LEMMA DroppedFacts ==
  ASSUME NEW s \in FlagStates
  PROVE  /\ Dropped(s) \in FlagStates /\ Dropped(s).status = "dropped"
         /\ Dropped(s).touch = TRUE /\ Dropped(s).disabled = s.disabled
  BY DEF Dropped, FlagStates

LEMMA DisabledFacts ==
  ASSUME NEW s \in FlagStates
  PROVE  /\ Disabled(s) \in FlagStates /\ Disabled(s).status = s.status
         /\ Disabled(s).prev = s.prev /\ Disabled(s).disabled = TRUE
  BY DEF Disabled, FlagStates

\* A flag that thinks is where it was, or goes home from the ground; it can be touched.
LEMMA ThinkFacts ==
  ASSUME NEW s \in FlagStates
  PROVE  LET new == Returned(Touchable(s))
         IN  /\ new \in FlagStates /\ new.disabled = s.disabled
             /\ \/ new.status = s.status /\ new.prev = s.prev
                \/ s.status = "dropped" /\ new.status = "home"
             /\ s.touch \/ s.captured => new.touch
  <1>1. /\ Touchable(s) \in FlagStates /\ Touchable(s).status = s.status
        /\ Touchable(s).prev = s.prev /\ Touchable(s).disabled = s.disabled
        /\ s.touch \/ s.captured => Touchable(s).touch
    BY DEF Touchable, FlagStates
  <1>2. QED BY <1>1, ResetFacts DEF Returned

\* The two outcomes for a flag that is dropped.
LEMMA FallsFacts ==
  ASSUME NEW s \in FlagStates, NEW inZone \in BOOLEAN
  PROVE  LET new == IF inZone THEN Reset(Dropped(s)) ELSE Dropped(s)
         IN  /\ new \in FlagStates /\ new.status \in {"home", "dropped"}
             /\ new.touch = TRUE /\ new.disabled = s.disabled
  <1>1. Dropped(s) \in FlagStates BY DroppedFacts
  <1>2. QED BY <1>1, DroppedFacts, ResetFacts

LEMMA ResetOneType ==
  ASSUME NEW flags \in FlagFunctions, NEW f \in Flags
  PROVE  [flags EXCEPT ![f] = Reset(@)] \in FlagFunctions
  <1>1. Reset(flags[f]) \in FlagStates BY ResetFacts DEF FlagFunctions
  <1>2. QED BY <1>1 DEF FlagFunctions

LEMMA FlagAfterDropType ==
  ASSUME TypeOK, NEW p \in Players, NEW inZone \in BOOLEAN
  PROVE  FlagAfterDrop(p, inZone) \in FlagFunctions
  <1>1. CASE ~Drops(p) BY <1>1 DEF FlagAfterDrop, TypeOK, FlagFunctions
  <1>2. CASE Drops(p)
    <2>1. item[p] \in Flags /\ flag[item[p]] \in FlagStates BY <1>2 DEF Drops, TypeOK
    <2>2. QED BY <1>2, <2>1, FallsFacts DEF FlagAfterDrop, TypeOK, FlagFunctions
  <1>3. QED BY <1>1, <1>2

-----------------------------------------------------------------------------
(***************************************************************************)
(* Types.                                                                  *)
(***************************************************************************)

ItemAndFlagTypes == item \in [Players -> Flags \cup {None}] /\ flag \in FlagFunctions

LEMMA DropTypes ==
  ASSUME TypeOK, NEW p \in Players, Drop(p)
  PROVE  ItemAndFlagTypes'
  <1>1. item' \in [Players -> Flags \cup {None}] BY DEF TypeOK, Drop, ItemAfterDrop
  <1>2. flag' \in FlagFunctions BY FlagAfterDropType DEF Drop
  <1>3. QED BY <1>1, <1>2 DEF ItemAndFlagTypes

LEMMA PlayerStepTypes ==
  ASSUME TypeOK, NEW p \in Players, PlayerSteps(p)
  PROVE  TypeOK'
  <1> USE DEF TypeOK, ItemAndFlagTypes, FlagFunctions, people, round
  <1>1. CASE DropFlag(p) BY <1>1, DropTypes DEF DropFlag
  <1>2. CASE RespawnFlagZoneTouch(p)
    <2>1. item[p] \in Flags BY <1>2 DEF RespawnFlagZoneTouch
    <2>2. FlagAfterDrop(p, FALSE) \in FlagFunctions BY FlagAfterDropType
    <2>3. flag' \in FlagFunctions BY <1>2, <2>1, <2>2, ResetOneType DEF RespawnFlagZoneTouch
    <2>4. QED BY <1>2, <2>3 DEF RespawnFlagZoneTouch, ItemAfterDrop
  <1>3. CASE Die(p) BY <1>3, DropTypes DEF Die
  <1>4. CASE Disconnect(p)
    <2>1. PICK inZone \in BOOLEAN :
            flag' = [f \in Flags |-> [FlagAfterDrop(p, inZone)[f] EXCEPT
                                        !.prev = IF @ = p THEN None ELSE @]]
      BY <1>4 DEF Disconnect
    <2>2. \A f \in Flags : FlagAfterDrop(p, inZone)[f] \in FlagStates
      BY FlagAfterDropType
    <2>3. \A f \in Flags : flag'[f] \in FlagStates BY <2>1, <2>2 DEF FlagStates
    <2>4. flag' \in FlagFunctions BY <2>1, <2>3
    <2>5. QED BY <1>4, <2>4 DEF Disconnect
  <1>5. CASE Respawn(p) BY <1>5 DEF Respawn
  <1>6. ASSUME NEW t \in Teams, ChangeTeam(p, t) PROVE TypeOK'
    BY <1>6, DropTypes DEF ChangeTeam
  <1>7. ASSUME NEW t \in Teams, ForceChangeTeam(p, t) PROVE TypeOK'
    BY <1>7, DropTypes DEF ForceChangeTeam
  <1>8. ASSUME NEW f \in Flags, FlagTouch(p, f) PROVE TypeOK'
    <2>1. flag[f] \in FlagStates OBVIOUS
    <2>2. Reset(flag[f]) \in FlagStates /\ Stolen(flag[f], p) \in FlagStates
      BY <2>1, ResetFacts, StolenFacts
    <2>2a. item' \in [Players -> Flags \cup {None}] BY <1>8 DEF FlagTouch, PickUp
    <2>2b. flag' \in FlagFunctions BY <1>8, <2>2 DEF FlagTouch, PickUp
    <2>3. QED BY <1>8, <2>2a, <2>2b DEF FlagTouch
  <1>9. ASSUME NEW z \in ZoneTeams, Capture(p, z) PROVE TypeOK'
    <2>1. item[p] \in Flags /\ flag[item[p]] \in FlagStates BY <1>9 DEF Capture
    <2>2. [Reset(flag[item[p]]) EXCEPT !.captured = TRUE] \in FlagStates
      BY <2>1, ResetFacts DEF FlagStates
    <2>3. team[p] \in Teams /\ caps[team[p]] \in 0 .. MaxCaps OBVIOUS
    <2>4. CapsAfter(team[p]) \in 0 .. MaxCaps
      BY <1>9, <2>3, RuleAssumption DEF CapsAfter, Capture
    <2>5. QED BY <1>9, <2>1, <2>2, <2>3, <2>4 DEF Capture
  <1>10. QED
    BY <1>1, <1>2, <1>3, <1>4, <1>5, <1>6, <1>7, <1>8, <1>9 DEF PlayerSteps

LEMMA FlagStepTypes ==
  ASSUME TypeOK, NEW f \in Flags, FlagSteps(f) \/ MapSteps(f)
  PROVE  TypeOK'
  <1> USE DEF TypeOK, ItemAndFlagTypes, FlagFunctions, people, round
  <1>1. flag[f] \in FlagStates OBVIOUS
  <1>2. CASE Think(f) BY <1>1, <1>2, ThinkFacts DEF Think
  <1>3. CASE ReturnTimeElapses(f) \/ InputReturnTime(f)
    <2>1. \A x \in {"running", "over"} : [flag[f] EXCEPT !.timer = x] \in FlagStates
      BY <1>1 DEF FlagStates
    <2>2. QED BY <1>3, <2>1 DEF ReturnTimeElapses, InputReturnTime
  <1>4. CASE InputEnable(f)
    <2>1. [[flag[f] EXCEPT !.disabled = FALSE] EXCEPT !.touch = TRUE] \in FlagStates
      BY <1>1 DEF FlagStates
    <2>2. QED BY <1>4, <2>1 DEF InputEnable
  <1>5. CASE InputDisable(f) BY <1>1, <1>5, DisabledFacts DEF InputDisable
  <1>6. CASE InputForceDrop(f)
    <2>1. flag[f].prev \in Players BY <1>6 DEF InputForceDrop, Carried
    <2>2. QED BY <1>6, <2>1, DropTypes DEF InputForceDrop
  <1>7. CASE InputForceReset(f)
    <2>1. CASE Carried(f)
      <3>1. flag[f].prev \in Players BY <2>1 DEF Carried
      <3>2. FlagAfterDrop(flag[f].prev, FALSE) \in FlagFunctions BY <3>1, FlagAfterDropType
      <3>3. flag' \in FlagFunctions
        <4>1. flag' = [FlagAfterDrop(flag[f].prev, FALSE) EXCEPT ![f] = Reset(@)]
          BY <1>7, <2>1 DEF InputForceReset, ForceReset
        <4>2. QED BY <3>2, <4>1, ResetOneType
      <3>4. QED BY <1>7, <2>1, <3>3 DEF InputForceReset, ForceReset, ItemAfterDrop
    <2>2. CASE ~Carried(f) BY <1>1, <1>7, <2>2, ResetFacts DEF InputForceReset, ForceReset
    <2>3. QED BY <2>1, <2>2
  <1>8. CASE InputForceResetAndDisable(f)
    <2>1. Reset(flag[f]) \in FlagStates BY <1>1, ResetFacts
    <2>2. flag' \in FlagFunctions BY <1>1, <1>8, <2>1, DisabledFacts DEF InputForceResetAndDisable
    <2>3. QED BY <1>8, <2>2 DEF InputForceResetAndDisable, ItemAfterDrop
  <1>9. QED
    BY <1>2, <1>3, <1>4, <1>5, <1>6, <1>7, <1>8 DEF FlagSteps, MapSteps

LEMMA RoundStepTypes ==
  ASSUME TypeOK, RoundSteps
  PROVE  TypeOK'
  <1> USE DEF TypeOK, ItemAndFlagTypes, FlagFunctions, people, round
  <1>1. CASE RoundRespawn
    <2>1. ItemAndFlagTypes'
      <3>1. CASE Recreate BY <3>1, SpawnedFacts DEF Recreate
      <3>2. CASE RoundActivate
        <4>1. \A f \in Flags : /\ flag[f] \in FlagStates /\ Dropped(flag[f]) \in FlagStates
                               /\ Reset(flag[f]) \in FlagStates
                               /\ Reset(Dropped(flag[f])) \in FlagStates
          BY DroppedFacts, ResetFacts
        <4>2. QED BY <3>2, <4>1 DEF RoundActivate
      <3>3. QED BY <1>1, <3>1, <3>2 DEF RoundRespawn
    <2>2. team' \in [Players -> Teams] BY <1>1 DEF RoundRespawn, Teams
    <2>3. waiting' \in BOOLEAN BY <1>1 DEF RoundRespawn
    <2>4. caps' \in [Teams -> 0 .. MaxCaps] BY <1>1, RuleAssumption DEF RoundRespawn
    <2>5. QED BY <1>1, <2>1, <2>2, <2>3, <2>4 DEF RoundRespawn
  <1>2. CASE RoundStart BY <1>2 DEF RoundStart
  <1>3. CASE CheckCapsPerRound BY <1>3 DEF CheckCapsPerRound, Teams
  <1>4. CASE GoToStalemate BY <1>4 DEF GoToStalemate
  <1>5. CASE WonElsewhere BY <1>5 DEF WonElsewhere
  <1>6. QED BY <1>1, <1>2, <1>3, <1>4, <1>5 DEF RoundSteps

\* Every flag, item and count keeps its type, the captures within the bound on
\* them: sudden death gives a team no more than the limit.
THEOREM CaptureFlagTypeCorrect == Spec => []TypeOK
  <1>1. Init => TypeOK
    <2> SUFFICES ASSUME Init PROVE TypeOK OBVIOUS
    <2>1. flag \in [Flags -> FlagStates] BY SpawnedFacts DEF Init
    <2>2. caps \in [Teams -> 0 .. MaxCaps] BY RuleAssumption DEF Init
    <2>3. QED BY <2>1, <2>2 DEF Init, TypeOK
  <1>2. TypeOK /\ [Next]_vars => TypeOK'
    <2> SUFFICES ASSUME TypeOK, [Next]_vars PROVE TypeOK' OBVIOUS
    <2>1. CASE UNCHANGED vars BY <2>1 DEF vars, people, round, TypeOK
    <2>2. CASE Next BY <2>2, PlayerStepTypes, FlagStepTypes, RoundStepTypes DEF Next
    <2>3. QED BY <2>1, <2>2
  <1>3. QED BY <1>1, <1>2, PTL DEF Spec

-----------------------------------------------------------------------------
(***************************************************************************)
(* The inductive invariant of a map that is played as it was made, and the *)
(* few kinds of steps such a map has.                                      *)
(***************************************************************************)

Carriers ==
    /\ \A f \in Flags : flag[f].status = "stolen" => Carried(f)
    /\ \A p \in Players : item[p] # None =>
          alive[p] /\ flag[item[p]].status = "stolen" /\ flag[item[p]].prev = p
Enemies == \A p \in Players : item[p] # None => FlagTeam[item[p]] # team[p]
CarriedEnabled == \A f \in Flags : flag[f].status = "stolen" => ~flag[f].disabled
Playable(s) == ~s.disabled /\ s.status # "stolen" => s.touch \/ s.captured
InPlay == \A f \in Flags : Playable(flag[f])

CarrierInv == Carriers /\ Enemies /\ CarriedEnabled /\ InPlay

\* A flag that nobody takes, loses or returns.
Same(f) == /\ flag'[f].status = flag[f].status
           /\ flag[f].status = "stolen" => flag'[f].prev = flag[f].prev

\* A player is left without a flag, all the others as they were.
Releases(p) ==
    /\ item' = [item EXCEPT ![p] = None]
    /\ \A q \in Players \ {p} : alive'[q] = alive[q] /\ team'[q] = team[q]
    /\ \A f \in Flags :
          IF f = item[p] THEN flag'[f].status \in {"home", "dropped"} /\ Playable(flag'[f])
          ELSE Same(f) /\ (CarriedEnabled => (flag[f].status = "stolen" => ~flag'[f].disabled))
                       /\ (Playable(flag[f]) => Playable(flag'[f]))

\* Nobody takes or loses a flag.
Quiet ==
    /\ UNCHANGED <<item, team, caps>>
    /\ \A q \in Players : alive[q] => alive'[q]
    /\ \A f \in Flags : /\ (CarriedEnabled => (flag[f].status = "stolen" => ~flag'[f].disabled))
                         /\ (Playable(flag[f]) => Playable(flag'[f]))
    /\ \/ \A f \in Flags : Same(f)
       \/ \E f \in Flags : /\ flag[f].status = "dropped" /\ flag'[f].status = "home"
                            /\ \A g \in Flags \ {f} : Same(g)

Takes(p, f) ==
    /\ alive[p] /\ item[p] = None /\ flag[f].status # "stolen" /\ ~flag[f].disabled
    /\ team[p] # FlagTeam[f]
    /\ item' = [item EXCEPT ![p] = f]
    /\ flag' = [flag EXCEPT ![f] = Stolen(@, p)]
    /\ UNCHANGED <<people, caps>>

Renews ==
    /\ item' = [p \in Players |-> None]
    /\ \A f \in Flags : flag'[f].status = "home" /\ Playable(flag'[f])
    /\ team' \in [Players -> Teams]
    /\ caps' = [t \in Teams |-> 0]

Scores(p) ==
    /\ item[p] \in Flags /\ Releases(p) /\ flag'[item[p]].status = "home"
    /\ UNCHANGED people /\ FlagsMayBeCapped /\ CanFlagBeCaptured(team[p])
    /\ caps' = [caps EXCEPT ![team[p]] = CapsAfter(team[p])]

Effect ==
    \/ Quiet \/ Renews
    \/ \E p \in Players : \/ Releases(p) /\ UNCHANGED <<team, caps>>
                          \/ \E t \in Teams : Releases(p) /\ team' = [team EXCEPT ![p] = t] /\ UNCHANGED caps
                          \/ Scores(p)
                          \/ \E f \in Flags : Takes(p, f)

-----------------------------------------------------------------------------
(***************************************************************************)
(* Every step is of one of these kinds.                                    *)
(***************************************************************************)

LEMMA CarriedFacts ==
  ASSUME TypeOK, CarrierInv, NEW p \in Players, item[p] # None
  PROVE  /\ item[p] \in Flags /\ Drops(p) /\ Carried(item[p])
         /\ \A q \in Players : item[q] = item[p] => q = p
  BY DEF TypeOK, CarrierInv, Carriers, CarriedEnabled, Drops, Carried

\* The item is given up and its flag falls or goes home.
LEMMA AfterDropFacts ==
  ASSUME TypeOK, CarrierInv, NEW p \in Players, NEW inZone \in BOOLEAN
  PROVE  /\ ItemAfterDrop(p) = [item EXCEPT ![p] = None]
         /\ \A f \in Flags :
               LET new == FlagAfterDrop(p, inZone)[f]
               IN  IF f = item[p] THEN new.status \in {"home", "dropped"} /\ new.touch = TRUE
                   ELSE new = flag[f]
  <1>1. CASE item[p] = None
    <2>1. ~Drops(p) BY <1>1 DEF Drops
    <2>2. FlagAfterDrop(p, inZone) = flag BY <2>1 DEF FlagAfterDrop
    <2>3. ItemAfterDrop(p) = [item EXCEPT ![p] = None] BY <1>1, <2>1 DEF ItemAfterDrop
    <2>4. QED BY <1>1, <2>2, <2>3, FlagAssumption
  <1>2. CASE item[p] # None
    <2>1. item[p] \in Flags /\ Drops(p) BY <1>2, CarriedFacts
    <2>2. ItemAfterDrop(p) = [item EXCEPT ![p] = None] BY <2>1 DEF ItemAfterDrop
    <2>3. flag[item[p]] \in FlagStates BY <2>1 DEF TypeOK
    <2>4. FlagAfterDrop(p, inZone)
            = [flag EXCEPT ![item[p]] = IF inZone THEN Reset(Dropped(@)) ELSE Dropped(@)]
      BY <2>1 DEF FlagAfterDrop
    <2>5. QED BY <2>1, <2>2, <2>3, <2>4, FallsFacts DEF TypeOK
  <1>3. QED BY <1>1, <1>2

LEMMA DropReleases ==
  ASSUME TypeOK, CarrierInv, NEW p \in Players, Drop(p),
         \A q \in Players \ {p} : alive'[q] = alive[q] /\ team'[q] = team[q]
  PROVE  Releases(p)
  <1>1. PICK inZone \in BOOLEAN : flag' = FlagAfterDrop(p, inZone) BY DEF Drop
  <1>2. item' = [item EXCEPT ![p] = None] BY AfterDropFacts DEF Drop
  <1>3. ASSUME NEW f \in Flags, f = item[p]
        PROVE  flag'[f].status \in {"home", "dropped"} /\ Playable(flag'[f])
    BY <1>1, <1>3, AfterDropFacts DEF Playable
  <1>4. ASSUME NEW f \in Flags, f # item[p] PROVE flag'[f] = flag[f]
    BY <1>1, <1>4, AfterDropFacts
  <1>5. QED BY <1>2, <1>3, <1>4 DEF Releases, Same, CarriedEnabled

LEMMA PlayerEffect ==
  ASSUME TypeOK, PlainMap, CarrierInv, NEW p \in Players, PlayerSteps(p)
  PROVE  Effect
  <1> USE DEF people, round
  <1>1. CASE DropFlag(p) \/ Die(p)
    <2>1. Drop(p) /\ UNCHANGED <<team, caps>> BY <1>1 DEF DropFlag, Die
    <2>2. \A q \in Players \ {p} : alive'[q] = alive[q] /\ team'[q] = team[q]
      BY <1>1 DEF DropFlag, Die, TypeOK
    <2>3. QED BY <2>1, <2>2, DropReleases DEF Effect
  <1>2. CASE RespawnFlagZoneTouch(p)
    <2>1. item[p] # None /\ item[p] \in Flags BY <1>2 DEF RespawnFlagZoneTouch, TypeOK
    <2>2. FlagAfterDrop(p, FALSE) \in FlagFunctions BY FlagAfterDropType
    <2>3. flag' = [FlagAfterDrop(p, FALSE) EXCEPT ![item[p]] = Reset(@)]
          /\ item' = ItemAfterDrop(p) /\ UNCHANGED <<people, caps>>
      BY <1>2 DEF RespawnFlagZoneTouch
    <2>4. flag'[item[p]].status = "home" /\ flag'[item[p]].touch = TRUE
      BY <2>1, <2>2, <2>3, AfterDropFacts, ResetFacts DEF FlagFunctions
    <2>5. \A f \in Flags : f # item[p] => flag'[f] = flag[f]
      BY <2>2, <2>3, AfterDropFacts DEF FlagFunctions
    <2>6. item' = [item EXCEPT ![p] = None] BY <2>3, AfterDropFacts
    <2>7. Releases(p) BY <2>3, <2>4, <2>5, <2>6 DEF Releases, Same, CarriedEnabled, Playable
    <2>8. QED BY <2>3, <2>7 DEF Effect
  <1>3. CASE Disconnect(p)
    <2>1. PICK inZone \in BOOLEAN :
            flag' = [f \in Flags |-> [FlagAfterDrop(p, inZone)[f] EXCEPT
                                        !.prev = IF @ = p THEN None ELSE @]]
      BY <1>3 DEF Disconnect
    <2>2. ASSUME NEW f \in Flags
          PROVE  LET old == FlagAfterDrop(p, inZone)[f]
                 IN  /\ flag'[f].status = old.status /\ flag'[f].touch = old.touch
                     /\ flag'[f].captured = old.captured /\ flag'[f].disabled = old.disabled
                     /\ old.prev # p => flag'[f].prev = old.prev
      <3>1. FlagAfterDrop(p, inZone)[f] \in FlagStates BY FlagAfterDropType DEF FlagFunctions
      <3>2. QED BY <2>1, <3>1 DEF FlagStates
    <2>3. ASSUME NEW f \in Flags, f = item[p]
          PROVE  flag'[f].status \in {"home", "dropped"} /\ Playable(flag'[f])
      BY <2>2, <2>3, AfterDropFacts DEF Playable
    <2>4. ASSUME NEW f \in Flags, f # item[p]
          PROVE  /\ Same(f) /\ flag'[f].disabled = flag[f].disabled
                 /\ (Playable(flag[f]) => Playable(flag'[f]))
      <3>1. FlagAfterDrop(p, inZone)[f] = flag[f] BY <2>4, AfterDropFacts
      <3>2. flag[f].status = "stolen" => flag[f].prev # p
        BY <2>4 DEF CarrierInv, Carriers, Carried
      <3>3. QED BY <2>2, <3>1, <3>2 DEF Same, Playable
    <2>5. \A q \in Players \ {p} : alive'[q] = alive[q] /\ team'[q] = team[q]
      BY <1>3 DEF Disconnect, TypeOK
    <2>6. item' = [item EXCEPT ![p] = None] /\ UNCHANGED <<team, caps>> BY <1>3 DEF Disconnect
    <2>7. Releases(p) BY <2>3, <2>4, <2>5, <2>6 DEF Releases, CarriedEnabled
    <2>8. QED BY <2>6, <2>7 DEF Effect
  <1>4. CASE Respawn(p)
    <2>1. UNCHANGED <<item, flag, team, caps>> BY <1>4 DEF Respawn
    <2>2. \A q \in Players : alive[q] => alive'[q] BY <1>4 DEF Respawn, TypeOK
    <2>3. QED BY <2>1, <2>2 DEF Effect, Quiet, Same, CarriedEnabled
  <1>5. ASSUME NEW t \in Teams, ChangeTeam(p, t) \/ ForceChangeTeam(p, t) PROVE Effect
    <2>1. Drop(p) /\ team' = [team EXCEPT ![p] = t] /\ UNCHANGED caps
      BY <1>5 DEF ChangeTeam, ForceChangeTeam
    <2>2. \A q \in Players \ {p} : alive'[q] = alive[q] /\ team'[q] = team[q]
      BY <1>5 DEF ChangeTeam, ForceChangeTeam, TypeOK
    <2>3. QED BY <2>1, <2>2, DropReleases DEF Effect
  <1>6. ASSUME NEW f \in Flags, FlagTouch(p, f) PROVE Effect
    <2>1. /\ flag[f].touch /\ ~flag[f].disabled /\ flag[f].status # "stolen" /\ alive[p]
          /\ UNCHANGED <<people, caps>>
      BY <1>6 DEF FlagTouch
    <2>2. CASE flag[f].status = "dropped" /\ flag' = [flag EXCEPT ![f] = Reset(@)] /\ UNCHANGED item
      <3>1. flag[f] \in FlagStates /\ flag'[f] = Reset(flag[f]) BY <2>2 DEF TypeOK
      <3>2. flag'[f].status = "home" /\ flag'[f].touch BY <2>1, <3>1, ResetFacts
      <3>3. \A g \in Flags \ {f} : flag'[g] = flag[g] BY <2>2 DEF TypeOK
      <3>4. Quiet BY <2>1, <2>2, <3>2, <3>3 DEF Quiet, Same, CarriedEnabled, Playable
      <3>5. QED BY <3>4 DEF Effect
    <2>3. CASE team[p] # FlagTeam[f] /\ (HasNoFlag(p) \/ ReturnOnTouch) /\ PickUp(p, f)
      <3>1. item[p] = None
        <4>1. SUFFICES ASSUME item[p] # None, ReturnOnTouch PROVE FALSE BY <2>3 DEF HasNoFlag
        <4>2. item[p] \in Flags /\ FlagTeam[item[p]] # team[p] /\ flag[item[p]].status = "stolen"
          BY <4>1 DEF TypeOK, CarrierInv, Enemies, Carriers
        <4>3. FlagTeam[item[p]] \in Teams /\ FlagTeam[f] \in Teams /\ team[p] \in Teams
          BY <4>2, FlagAssumption DEF TypeOK
        <4>4. FlagTeam[item[p]] = FlagTeam[f] BY <2>3, <4>2, <4>3 DEF Teams
        <4>5. QED BY <2>1, <4>1, <4>2, <4>4 DEF PlainMap
      <3>2. Takes(p, f) BY <2>1, <2>3, <3>1 DEF Takes, PickUp
      <3>3. QED BY <3>2 DEF Effect
    <2>4. QED BY <1>6, <2>2, <2>3 DEF FlagTouch
  <1>7. ASSUME NEW z \in ZoneTeams, Capture(p, z) PROVE Effect
    <2>1. item[p] \in Flags /\ flag[item[p]] \in FlagStates BY <1>7 DEF Capture, TypeOK
    <2>2. /\ flag' = [flag EXCEPT ![item[p]] = [Reset(@) EXCEPT !.captured = TRUE]]
          /\ item' = [item EXCEPT ![p] = None] /\ UNCHANGED people
      BY <1>7 DEF Capture
    <2>3. flag'[item[p]].status = "home" /\ flag'[item[p]].captured = TRUE
      BY <2>1, <2>2, ResetFacts DEF TypeOK, FlagStates
    <2>4. \A f \in Flags : f # item[p] => flag'[f] = flag[f] BY <2>2 DEF TypeOK
    <2>5. Releases(p) BY <2>2, <2>3, <2>4 DEF Releases, Same, CarriedEnabled, Playable
    <2>6. Scores(p) BY <1>7, <2>1, <2>2, <2>3, <2>5 DEF Scores, Capture
    <2>7. QED BY <2>6 DEF Effect
  <1>8. QED BY <1>1, <1>2, <1>3, <1>4, <1>5, <1>6, <1>7 DEF PlayerSteps

\* One flag changes without being taken or lost.
LEMMA OneFlagQuiet ==
  ASSUME TypeOK, NEW f \in Flags, NEW new, flag' = [flag EXCEPT ![f] = new],
         UNCHANGED <<people, item, caps>>,
         \/ new.status = flag[f].status /\ new.prev = flag[f].prev
         \/ flag[f].status = "dropped" /\ new.status = "home",
         flag[f].status = "stolen" /\ ~flag[f].disabled => ~new.disabled,
         Playable(flag[f]) => Playable(new)
  PROVE  Effect
  <1>1. flag'[f] = new /\ \A g \in Flags \ {f} : flag'[g] = flag[g] BY DEF TypeOK
  <1>2. \A g \in Flags \ {f} : Same(g) BY <1>1 DEF Same
  <1>3. \/ Same(f)
        \/ flag[f].status = "dropped" /\ flag'[f].status = "home"
    BY <1>1 DEF Same
  <1>4. (\A g \in Flags : Same(g))
        \/ (flag[f].status = "dropped" /\ flag'[f].status = "home" /\ \A g \in Flags \ {f} : Same(g))
    BY <1>2, <1>3
  <1>5. \A g \in Flags : Playable(flag[g]) => Playable(flag'[g])
    <2>1. \A g \in Flags \ {f} : Playable(flag'[g]) = Playable(flag[g]) BY <1>1
    <2>2. QED BY <1>1, <2>1
  <1>6. \A g \in Flags : CarriedEnabled => (flag[g].status = "stolen" => ~flag'[g].disabled)
    BY <1>1 DEF CarriedEnabled
  <1>7. Quiet BY <1>4, <1>5, <1>6 DEF Quiet, people
  <1>8. QED BY <1>7 DEF Effect

\* A flag that is reset by the map leaves its carrier.
LEMMA ResetEffect ==
  ASSUME TypeOK, CarrierInv, NEW f \in Flags, flag[f].status # "home",
         UNCHANGED <<people, caps>>,
         item' = IF Carried(f) THEN ItemAfterDrop(flag[f].prev) ELSE item,
         flag'[f].status = "home", Playable(flag'[f]),
         \A g \in Flags \ {f} : flag'[g] = flag[g]
  PROVE  Effect
  <1>1. CASE Carried(f)
    <2> DEFINE p == flag[f].prev
    <2>1. p \in Players /\ item[p] = f BY <1>1 DEF Carried
    <2>2. item' = [item EXCEPT ![p] = None] BY <1>1, <2>1, AfterDropFacts
    <2>3. Releases(p) BY <2>1, <2>2 DEF Releases, Same, CarriedEnabled, people
    <2>4. QED BY <2>1, <2>3 DEF Effect, people
  <1>2. CASE ~Carried(f)
    <2>1. flag[f].status = "dropped"
      BY <1>2 DEF CarrierInv, Carriers, TypeOK, FlagStates
    <2>2. \A g \in Flags \ {f} : Same(g) BY DEF Same
    <2>3. \A g \in Flags : Playable(flag[g]) => Playable(flag'[g]) OBVIOUS
    <2>4. \A g \in Flags : CarriedEnabled => (flag[g].status = "stolen" => ~flag'[g].disabled)
      BY <2>1 DEF CarriedEnabled
    <2>5. Quiet BY <1>2, <2>1, <2>2, <2>3, <2>4 DEF Quiet, people
    <2>6. QED BY <2>5 DEF Effect
  <1>3. QED BY <1>1, <1>2

LEMMA FlagEffect ==
  ASSUME TypeOK, PlainMap, CarrierInv, NEW f \in Flags, FlagSteps(f) \/ MapSteps(f)
  PROVE  Effect
  <1>1. flag[f] \in FlagStates BY DEF TypeOK
  <1>2. CASE Think(f)
    <2> DEFINE new == Returned(Touchable(flag[f]))
    <2>1. flag' = [flag EXCEPT ![f] = new] /\ UNCHANGED <<people, item, caps>>
      BY <1>2 DEF Think
    <2>2. /\ new.disabled = flag[f].disabled
          /\ \/ new.status = flag[f].status /\ new.prev = flag[f].prev
             \/ flag[f].status = "dropped" /\ new.status = "home"
          /\ flag[f].touch \/ flag[f].captured => new.touch
      BY <1>1, ThinkFacts
    <2>3. Playable(flag[f]) => Playable(new) BY <2>2 DEF Playable
    <2> HIDE DEF new
    <2>4. QED BY <2>1, <2>2, <2>3, OneFlagQuiet
  <1>3. ASSUME NEW x, flag' = [flag EXCEPT ![f].timer = x], UNCHANGED <<people, item, caps>>
        PROVE  Effect
    <2> DEFINE new == [flag[f] EXCEPT !.timer = x]
    <2>1. /\ new.status = flag[f].status /\ new.prev = flag[f].prev /\ new.touch = flag[f].touch
          /\ new.captured = flag[f].captured /\ new.disabled = flag[f].disabled
      BY <1>1 DEF FlagStates
    <2>2. flag' = [flag EXCEPT ![f] = new] BY <1>3
    <2>3. Playable(flag[f]) => Playable(new) BY <2>1 DEF Playable
    <2> HIDE DEF new
    <2>4. QED BY <1>3, <2>1, <2>2, <2>3, OneFlagQuiet
  <1>4. CASE ReturnTimeElapses(f) \/ InputReturnTime(f)
    BY <1>3, <1>4 DEF ReturnTimeElapses, InputReturnTime
  <1>5. CASE InputEnable(f)
    <2> DEFINE new == [[flag[f] EXCEPT !.disabled = FALSE] EXCEPT !.touch = TRUE]
    <2>1. /\ new.status = flag[f].status /\ new.prev = flag[f].prev /\ new.touch = TRUE
          /\ new.disabled = FALSE
      BY <1>1 DEF FlagStates
    <2>2. flag' = [flag EXCEPT ![f] = new] /\ UNCHANGED <<people, item, caps>>
      BY <1>1, <1>5 DEF InputEnable, TypeOK
    <2>3. Playable(new) BY <2>1 DEF Playable
    <2> HIDE DEF new
    <2>4. QED BY <2>1, <2>2, <2>3, OneFlagQuiet
  <1>6. CASE InputDisable(f)
    <2> DEFINE new == Disabled(flag[f])
    <2>1. flag[f].status # "stolen" BY <1>6 DEF InputDisable, PlainMap
    <2>2. new.status = flag[f].status /\ new.prev = flag[f].prev /\ new.disabled = TRUE
      BY <1>1, DisabledFacts
    <2>3. flag' = [flag EXCEPT ![f] = new] /\ UNCHANGED <<people, item, caps>>
      BY <1>6 DEF InputDisable
    <2>4. Playable(new) BY <2>2 DEF Playable
    <2> HIDE DEF new
    <2>5. QED BY <2>1, <2>2, <2>3, <2>4, OneFlagQuiet
  <1>7. CASE InputForceDrop(f)
    <2>1. /\ flag[f].prev \in Players /\ Drop(flag[f].prev)
          /\ UNCHANGED <<people, caps>>
      BY <1>7 DEF InputForceDrop, Carried
    <2>2. QED BY <2>1, DropReleases DEF Effect, people
  <1>8. CASE InputForceReset(f)
    <2>1. /\ flag[f].status # "home" /\ UNCHANGED <<people, caps>> /\ ForceReset(f)
      BY <1>8 DEF InputForceReset
    <2>2. CASE Carried(f)
      <3> DEFINE p == flag[f].prev
                 after == FlagAfterDrop(p, FALSE)
      <3>1. p \in Players /\ item[p] = f BY <2>2 DEF Carried
      <3>2. after \in FlagFunctions BY <3>1, FlagAfterDropType
      <3>3. after[f].touch = TRUE /\ \A g \in Flags \ {f} : after[g] = flag[g]
        BY <3>1, AfterDropFacts
      <3>4. item' = ItemAfterDrop(p) /\ flag' = [after EXCEPT ![f] = Reset(@)]
        BY <2>1, <2>2 DEF ForceReset
      <3> HIDE DEF after, p
      <3>5. flag'[f] = Reset(after[f]) /\ \A g \in Flags \ {f} : flag'[g] = flag[g]
        BY <3>2, <3>3, <3>4 DEF FlagFunctions
      <3>6. flag'[f].status = "home" /\ flag'[f].touch = TRUE
        BY <3>2, <3>3, <3>5, ResetFacts DEF FlagFunctions
      <3>7. item' = IF Carried(f) THEN ItemAfterDrop(flag[f].prev) ELSE item
        BY <2>2, <3>4 DEF p
      <3>8. QED BY <2>1, <3>5, <3>6, <3>7, ResetEffect DEF Playable
    <2>3. CASE ~Carried(f)
      <3>1. item' = item /\ flag' = [flag EXCEPT ![f] = Reset(@)] BY <2>1, <2>3 DEF ForceReset
      <3>2. flag'[f] = Reset(flag[f]) /\ \A g \in Flags \ {f} : flag'[g] = flag[g]
        BY <3>1 DEF TypeOK
      <3>3. flag[f].status # "stolen" /\ Playable(flag[f])
        BY <2>3 DEF CarrierInv, Carriers, InPlay
      <3>4. flag'[f].status = "home" /\ Playable(flag'[f])
        BY <1>1, <3>2, <3>3, ResetFacts DEF Playable
      <3>5. QED BY <2>1, <2>3, <3>1, <3>2, <3>4, ResetEffect
    <2>4. QED BY <2>2, <2>3
  <1>9. CASE InputForceResetAndDisable(f)
    <2>1. /\ flag' = [flag EXCEPT ![f] = Disabled(IF @.status = "home" THEN @ ELSE Reset(@))]
          /\ UNCHANGED <<people, caps>>
          /\ item' = IF Carried(f) /\ flag[f].status # "home" THEN ItemAfterDrop(flag[f].prev) ELSE item
      BY <1>9 DEF InputForceResetAndDisable
    <2>2. CASE flag[f].status = "home"
      <3> DEFINE new == Disabled(flag[f])
      <3>1. new.status = flag[f].status /\ new.prev = flag[f].prev /\ new.disabled = TRUE
        BY <1>1, DisabledFacts
      <3>2. flag' = [flag EXCEPT ![f] = new] /\ item' = item BY <2>1, <2>2
      <3>3. Playable(new) BY <3>1 DEF Playable
      <3> HIDE DEF new
      <3>4. QED BY <2>1, <2>2, <3>1, <3>2, <3>3, OneFlagQuiet
    <2>3. CASE flag[f].status # "home"
      <3>1. Reset(flag[f]) \in FlagStates /\ Reset(flag[f]).status = "home" BY <1>1, ResetFacts
      <3>2. /\ flag'[f] = Disabled(Reset(flag[f]))
            /\ \A g \in Flags \ {f} : flag'[g] = flag[g]
        BY <2>1, <2>3 DEF TypeOK
      <3>3. flag'[f].status = "home" /\ flag'[f].disabled = TRUE BY <3>1, <3>2, DisabledFacts
      <3>4. item' = IF Carried(f) THEN ItemAfterDrop(flag[f].prev) ELSE item BY <2>1, <2>3
      <3>5. QED BY <2>1, <2>3, <3>2, <3>3, <3>4, ResetEffect DEF Playable
    <2>4. QED BY <2>2, <2>3
  <1>10. QED
    BY <1>2, <1>4, <1>5, <1>6, <1>7, <1>8, <1>9 DEF FlagSteps, MapSteps

\* Whichever way a round begins, no flag is left with a player.
LEMMA RoundEffect ==
  ASSUME TypeOK, CarrierInv, RoundSteps
  PROVE  Effect
  <1>1. CASE RoundRespawn
    <2>1. /\ item' = [p \in Players |-> None]
          /\ \A f \in Flags : flag'[f].status = "home" /\ Playable(flag'[f])
      <3>1. CASE Recreate BY <3>1, SpawnedFacts, SpawnedInPlay DEF Recreate, Playable
      <3>2. CASE RoundActivate
        <4> DEFINE lost(f) == Carried(f) /\ ~flag[f].disabled
        <4>1. ASSUME NEW p \in Players PROVE item'[p] = None
          <5>1. CASE item[p] = None BY <3>2, <5>1 DEF RoundActivate
          <5>2. CASE item[p] # None
            <6>1. /\ item[p] \in Flags /\ lost(item[p]) /\ flag[item[p]].prev = p
              BY <5>2, CarriedFacts DEF CarrierInv, Carriers, CarriedEnabled
            <6>2. QED BY <3>2, <6>1 DEF RoundActivate
          <5>3. QED BY <5>1, <5>2
        <4>2. item' = [p \in Players |-> None] BY <3>2, <4>1 DEF RoundActivate
        <4>3. ASSUME NEW f \in Flags PROVE flag'[f].status = "home" /\ Playable(flag'[f])
          <5>1. flag[f] \in FlagStates BY DEF TypeOK
          <5>2. CASE lost(f)
            <6>1. flag'[f] = Reset(Dropped(flag[f])) BY <3>2, <5>2 DEF RoundActivate
            <6>2. Dropped(flag[f]) \in FlagStates /\ Dropped(flag[f]).touch = TRUE
              BY <5>1, DroppedFacts
            <6>3. QED BY <6>1, <6>2, ResetFacts DEF Playable
          <5>3. CASE ~lost(f)
            <6>1. flag'[f] = Reset(flag[f]) BY <3>2, <5>3 DEF RoundActivate
            <6>2. flag[f].status # "stolen" /\ Playable(flag[f])
              BY <5>3 DEF CarrierInv, Carriers, CarriedEnabled, InPlay
            <6>3. QED BY <5>1, <6>1, <6>2, ResetFacts DEF Playable
          <5>4. QED BY <5>2, <5>3
        <4>4. QED BY <4>2, <4>3
      <3>3. QED BY <1>1, <3>1, <3>2 DEF RoundRespawn
    <2>2. team' \in [Players -> Teams] BY <1>1, RoundStepTypes DEF RoundSteps, TypeOK
    <2>3. Renews BY <1>1, <2>1, <2>2 DEF RoundRespawn, Renews
    <2>4. QED BY <2>3 DEF Effect
  <1>2. CASE RoundStart \/ CheckCapsPerRound \/ GoToStalemate \/ WonElsewhere
    <2>1. UNCHANGED <<people, item, flag, caps>>
      BY <1>2 DEF RoundStart, CheckCapsPerRound, GoToStalemate, WonElsewhere
    <2>2. Quiet BY <2>1 DEF Quiet, Same, CarriedEnabled, people
    <2>3. QED BY <2>2 DEF Effect
  <1>3. QED BY <1>1, <1>2 DEF RoundSteps

LEMMA StepEffect ==
  ASSUME TypeOK, PlainMap, CarrierInv, [Next]_vars
  PROVE  Effect
  <1>1. CASE Next BY <1>1, PlayerEffect, FlagEffect, RoundEffect DEF Next
  <1>2. CASE UNCHANGED vars
    <2>1. Quiet BY <1>2 DEF vars, people, Quiet, Same, CarriedEnabled
    <2>2. QED BY <2>1 DEF Effect
  <1>3. QED BY <1>1, <1>2

-----------------------------------------------------------------------------
(***************************************************************************)
(* Every kind of step keeps the invariant.                                 *)
(***************************************************************************)

LEMMA ReleasesKeeps ==
  ASSUME TypeOK, TypeOK', CarrierInv, NEW p \in Players, Releases(p)
  PROVE  CarrierInv'
  <1>1. item'[p] = None /\ \A q \in Players \ {p} : item'[q] = item[q]
    BY DEF Releases, TypeOK
  <1>2. ASSUME NEW q \in Players, item'[q] # None
        PROVE  /\ q # p /\ item'[q] = item[q] /\ item[q] # item[p] /\ item[q] \in Flags
               /\ alive'[q] /\ team'[q] = team[q]
               /\ flag'[item[q]].status = "stolen" /\ flag'[item[q]].prev = q
    <2>1. q # p /\ item'[q] = item[q] /\ item[q] # None BY <1>1, <1>2
    <2>2. item[q] \in Flags /\ item[q] # item[p] BY <2>1, CarriedFacts
    <2>3. alive[q] /\ flag[item[q]].status = "stolen" /\ flag[item[q]].prev = q
      BY <2>1 DEF CarrierInv, Carriers
    <2>4. QED BY <2>1, <2>2, <2>3 DEF Releases, Same
  <1>3. ASSUME NEW f \in Flags, flag'[f].status = "stolen"
        PROVE  Carried(f)' /\ ~flag'[f].disabled
    <2>1. f # item[p] BY <1>3 DEF Releases
    <2>2. Same(f) /\ flag[f].status = "stolen" /\ ~flag'[f].disabled
      BY <1>3, <2>1 DEF Releases, Same, CarrierInv
    <2>3. PICK q \in Players : flag[f].prev = q /\ item[q] = f
      BY <2>2 DEF CarrierInv, Carriers, Carried
    <2>4. q # p /\ item'[q] = f BY <1>1, <2>1, <2>3
    <2>5. QED BY <2>2, <2>3, <2>4 DEF Same, Carried
  <1>4. \A f \in Flags : Playable(flag'[f]) BY DEF Releases, CarrierInv, InPlay
  <1>5. Carriers' BY <1>2, <1>3 DEF Carriers
  <1>6. Enemies' BY <1>2 DEF Enemies, CarrierInv
  <1>7. QED BY <1>3, <1>4, <1>5, <1>6 DEF CarrierInv, CarriedEnabled, InPlay

LEMMA QuietKeeps ==
  ASSUME TypeOK, TypeOK', CarrierInv, Quiet
  PROVE  CarrierInv'
  <1>1. ASSUME NEW f \in Flags
        PROVE  /\ flag'[f].status = "stolen" <=> flag[f].status = "stolen"
               /\ flag[f].status = "stolen" => flag'[f].prev = flag[f].prev
    BY DEF Quiet, Same
  <1>2. Carriers'
    <2>1. ASSUME NEW f \in Flags, flag'[f].status = "stolen" PROVE Carried(f)'
      BY <1>1, <2>1 DEF Quiet, CarrierInv, Carriers, Carried
    <2>2. ASSUME NEW p \in Players, item'[p] # None
          PROVE  alive'[p] /\ flag'[item'[p]].status = "stolen" /\ flag'[item'[p]].prev = p
      <3>1. item'[p] = item[p] /\ item[p] \in Flags BY <2>2 DEF Quiet, TypeOK
      <3>2. QED BY <1>1, <2>2, <3>1 DEF Quiet, CarrierInv, Carriers
    <2>3. QED BY <2>1, <2>2 DEF Carriers
  <1>3. Enemies' BY DEF Quiet, CarrierInv, Enemies
  <1>4. CarriedEnabled' BY <1>1 DEF Quiet, CarrierInv, CarriedEnabled
  <1>5. InPlay' BY DEF Quiet, CarrierInv, InPlay
  <1>6. QED BY <1>2, <1>3, <1>4, <1>5 DEF CarrierInv

LEMMA TakesKeeps ==
  ASSUME TypeOK, TypeOK', CarrierInv, NEW p \in Players, NEW f \in Flags, Takes(p, f)
  PROVE  CarrierInv'
  <1>1. flag[f] \in FlagStates /\ flag'[f] = Stolen(flag[f], p)
        /\ \A g \in Flags \ {f} : flag'[g] = flag[g]
    BY DEF Takes, TypeOK
  <1>2. /\ flag'[f].status = "stolen" /\ flag'[f].prev = p /\ ~flag'[f].disabled
    BY <1>1, StolenFacts DEF Takes
  <1>3. item'[p] = f /\ \A q \in Players \ {p} : item'[q] = item[q] BY DEF Takes, TypeOK
  <1>4. \A q \in Players : item[q] # f BY FlagAssumption DEF Takes, CarrierInv, Carriers
  <1>5. Carriers'
    <2>1. ASSUME NEW g \in Flags, flag'[g].status = "stolen" PROVE Carried(g)'
      <3>1. CASE g = f BY <1>2, <1>3, <3>1 DEF Carried
      <3>2. CASE g # f
        <4>1. flag'[g] = flag[g] /\ flag[g].status = "stolen" BY <1>1, <2>1, <3>2
        <4>2. PICK q \in Players : flag[g].prev = q /\ item[q] = g
          BY <4>1 DEF CarrierInv, Carriers, Carried
        <4>3. q # p BY <3>2, <4>2, FlagAssumption DEF Takes
        <4>4. QED BY <1>3, <4>1, <4>2, <4>3 DEF Carried
      <3>3. QED BY <3>1, <3>2
    <2>2. ASSUME NEW q \in Players, item'[q] # None
          PROVE  alive'[q] /\ flag'[item'[q]].status = "stolen" /\ flag'[item'[q]].prev = q
      <3>1. CASE q = p BY <1>2, <1>3, <3>1 DEF Takes, people
      <3>2. CASE q # p
        <4>1. item'[q] = item[q] /\ item[q] \in Flags \ {f} BY <1>3, <1>4, <2>2, <3>2 DEF TypeOK
        <4>2. QED BY <1>1, <2>2, <4>1 DEF Takes, people, CarrierInv, Carriers
      <3>3. QED BY <3>1, <3>2
    <2>3. QED BY <2>1, <2>2 DEF Carriers
  <1>6. Enemies' BY <1>3 DEF Takes, people, CarrierInv, Enemies
  <1>7. CarriedEnabled' BY <1>1, <1>2 DEF CarrierInv, CarriedEnabled
  <1>8. InPlay' BY <1>1, <1>2 DEF CarrierInv, InPlay, Playable
  <1>9. QED BY <1>5, <1>6, <1>7, <1>8 DEF CarrierInv

LEMMA StepKeepsCarriers ==
  ASSUME TypeOK, TypeOK', PlainMap, CarrierInv, [Next]_vars
  PROVE  CarrierInv'
  <1>1. Effect BY StepEffect
  <1>2. CASE Renews
    <2>1. \A p \in Players : item'[p] = None BY <1>2 DEF Renews
    <2>2. QED BY <1>2, <2>1 DEF Renews, CarrierInv, Carriers, Enemies, CarriedEnabled, InPlay
  <1>3. QED
    BY <1>1, <1>2, ReleasesKeeps, QuietKeeps, TakesKeeps DEF Effect, Scores

LEMMA InitCarriers ==
  ASSUME Init PROVE CarrierInv
  <1>1. \A f \in Flags : flag[f].status = "home" /\ Playable(flag[f])
    BY SpawnedFacts, SpawnedInPlay DEF Init, Playable
  <1>2. QED BY <1>1 DEF Init, CarrierInv, Carriers, Enemies, CarriedEnabled, InPlay

LEMMA CarrierInvAlways == Spec => [](PlainMap => CarrierInv)
  <1>1. Init => (PlainMap => CarrierInv) BY InitCarriers
  <1>2. TypeOK /\ TypeOK' /\ (PlainMap => CarrierInv) /\ [Next]_vars => (PlainMap => CarrierInv)'
    <2>1. PlainMap' = PlainMap BY DEF PlainMap
    <2>2. QED BY <2>1, StepKeepsCarriers
  <1>3. QED BY <1>1, <1>2, CaptureFlagTypeCorrect, PTL DEF Spec

-----------------------------------------------------------------------------
(***************************************************************************)
(* What this means for the players.                                        *)
(***************************************************************************)

\* With any number of players and flags, the player's item, the flag's status and
\* the owner the flag remembers never disagree.
THEOREM CarrierAgreesAlways == Spec => []CarrierAgrees
  <1>1. (PlainMap => CarrierInv) => CarrierAgrees
    BY DEF CarrierInv, Carriers, CarrierAgrees
  <1>2. QED BY <1>1, CarrierInvAlways, PTL

\* No change of teams leaves a player with a flag of the own team.
THEOREM EnemyCarrierAlways == Spec => []EnemyCarrier
  <1>1. (PlainMap => CarrierInv) => EnemyCarrier BY DEF CarrierInv, Enemies, EnemyCarrier
  <1>2. QED BY <1>1, CarrierInvAlways, PTL

\* No way of dropping, capturing or resetting a flag leaves it out of play.
THEOREM FreeFlagInPlayAlways == Spec => []FreeFlagInPlay
  <1>1. (PlainMap => CarrierInv) => FreeFlagInPlay
    BY DEF CarrierInv, InPlay, Playable, FreeFlagInPlay
  <1>2. QED BY <1>1, CarrierInvAlways, PTL

\* Flags and players agree, on every map that disables no carried flag.
THEOREM FlagsAgreeAlways == Spec => []FlagsAgree
  <1>1. CarrierAgrees /\ EnemyCarrier /\ FreeFlagInPlay => FlagsAgree BY DEF FlagsAgree
  <1>2. QED BY <1>1, CarrierAgreesAlways, EnemyCarrierAlways, FreeFlagInPlayAlways, PTL

\* No team wins by captures while another one has more, although both may have
\* passed the limit before the rules look.
THEOREM WinnerHasMostAlways == Spec => []WinnerHasMost
  <1>1. Init => WinnerHasMost BY DEF Init, WinnerHasMost
  <1>2. TypeOK /\ WinnerHasMost /\ [Next]_vars => WinnerHasMost'
    <2> SUFFICES ASSUME TypeOK, WinnerHasMost, [Next]_vars PROVE WinnerHasMost' OBVIOUS
    <2>1. CASE RoundRespawn BY <2>1 DEF RoundRespawn, WinnerHasMost
    <2>2. CASE CheckCapsPerRound
      <3>1. winner' \in MostCaps
        <4>1. MostCaps \subseteq {Red, Blue} BY DEF MostCaps, OverLimit, Teams
        <4>2. QED BY <2>2, <4>1 DEF CheckCapsPerRound
      <3>2. winner' \in Teams /\ caps[winner'] >= CapsLimit
            /\ \A t \in OverLimit : caps[t] <= caps[winner']
        BY <3>1 DEF MostCaps, OverLimit
      <3>3. \A t \in Teams : caps[t] <= caps[winner']
        <4>1. SUFFICES ASSUME NEW t \in Teams, t \notin OverLimit PROVE caps[t] <= caps[winner']
          BY <3>2
        <4>2. caps[t] \in Nat /\ caps[winner'] \in Nat /\ ~(caps[t] >= CapsLimit)
          BY <3>2, <4>1 DEF TypeOK, OverLimit
        <4>3. QED BY <3>2, <4>2, RuleAssumption
      <3>4. QED BY <2>2, <3>2, <3>3 DEF CheckCapsPerRound, WinnerHasMost
    <2>3. CASE RoundSteps /\ ~RoundRespawn /\ ~CheckCapsPerRound
      BY <2>3 DEF RoundSteps, RoundStart, GoToStalemate, WonElsewhere, WinnerHasMost
    <2>4. ASSUME NEW p \in Players, PlayerSteps(p) PROVE WinnerHasMost'
      <3>1. CASE UNCHANGED <<caps, round>> BY <3>1 DEF round, WinnerHasMost
      <3>2. ASSUME NEW z \in ZoneTeams, Capture(p, z) PROVE WinnerHasMost'
        BY <3>2 DEF Capture, FlagsMayBeCapped, round, WinnerHasMost
      <3>3. (\E z \in ZoneTeams : Capture(p, z)) \/ UNCHANGED <<caps, round>>
        BY <2>4 DEF PlayerSteps, DropFlag, RespawnFlagZoneTouch, Die, Disconnect, Respawn,
                    ChangeTeam, ForceChangeTeam, FlagTouch
      <3>4. QED BY <3>1, <3>2, <3>3
    <2>5. ASSUME NEW f \in Flags, FlagSteps(f) \/ MapSteps(f) PROVE WinnerHasMost'
      <3>1. UNCHANGED <<caps, round>>
        BY <2>5 DEF FlagSteps, MapSteps, Think, ReturnTimeElapses, InputEnable, InputDisable,
                    InputForceDrop, InputForceReset, InputForceResetAndDisable, InputReturnTime
      <3>2. QED BY <3>1 DEF round, WinnerHasMost
    <2>6. CASE UNCHANGED vars BY <2>6 DEF vars, round, WinnerHasMost
    <2>7. QED BY <2>1, <2>2, <2>3, <2>4, <2>5, <2>6 DEF Next
  <1>3. QED BY <1>1, <1>2, CaptureFlagTypeCorrect, PTL DEF Spec

LEMMA CapsAfterGrows ==
  ASSUME TypeOK, NEW t \in Teams
  PROVE  CapsAfter(t) \in Nat /\ CapsAfter(t) > caps[t]
  BY RuleAssumption DEF CapsAfter, TypeOK

\* The only way for the captures of a team to grow: one of its living players
\* brings an enemy flag home while the round is played and, if touching returns
\* flags, no player has the team's own.
LEMMA StepEarns ==
  ASSUME TypeOK, TypeOK', CarrierInv, PlainMap, [Next]_vars
  PROVE  CapturesEarned
  <1> SUFFICES ASSUME NEW t \in Teams, caps'[t] > caps[t] PROVE Earned(t)
    BY DEF CapturesEarned
  <1>1. ~UNCHANGED caps BY DEF TypeOK
  <1>2. ~Renews
    <2>1. SUFFICES ASSUME Renews PROVE FALSE OBVIOUS
    <2>2. caps'[t] = 0 /\ caps[t] \in Nat BY <2>1 DEF Renews, TypeOK
    <2>3. QED BY <2>2
  <1>3. PICK p \in Players : Scores(p)
    BY <1>1, <1>2, StepEffect DEF Effect, Quiet, Takes
  <1>4. t = team[p] BY <1>3 DEF Scores, TypeOK
  <1>5. /\ item[p] \in Flags /\ item[p] # None /\ item'[p] = None /\ alive[p]
        /\ FlagTeam[item[p]] # t /\ flag'[item[p]].status = "home"
    BY <1>3, <1>4, FlagAssumption DEF Scores, Releases, CarrierInv, Carriers, Enemies, TypeOK
  <1>6. phase \in {"running", "stalemate"} BY <1>3 DEF Scores, FlagsMayBeCapped, TypeOK
  <1>7. ASSUME ReturnOnTouch, NEW f \in Flags, NEW q \in Players, FlagTeam[f] = t PROVE item[q] # f
    <2>1. flag[f].disabled \/ flag[f].status = "home"
      BY <1>3, <1>4, <1>7 DEF Scores, CanFlagBeCaptured
    <2>2. flag[f].status # "stolen" BY <2>1 DEF CarrierInv, CarriedEnabled
    <2>3. QED BY <2>2, FlagAssumption DEF CarrierInv, Carriers
  <1>8. QED BY <1>4, <1>5, <1>6, <1>7 DEF Earned

THEOREM CapturesAreEarnedAlways == Spec => CapturesAreEarned
  <1>1. TypeOK /\ TypeOK' /\ (PlainMap => CarrierInv) /\ [Next]_vars => [CapturesEarned]_vars
    BY StepEarns DEF CapturesEarned
  <1>2. QED BY <1>1, CaptureFlagTypeCorrect, CarrierInvAlways, PTL DEF Spec, CapturesAreEarned

-----------------------------------------------------------------------------
(***************************************************************************)
(* CaptureFlag implements CaptureTheFlag.                                  *)
(***************************************************************************)

GameStep == [Game!Next]_(Game!ctf)

LEMMA PlaceFacts ==
  ASSUME TypeOK, CarrierInv, NEW f \in Flags, NEW p \in Players
  PROVE  /\ Place[f] \in Players <=> flag[f].status = "stolen"
         /\ Place[f] = "home" <=> flag[f].status = "home"
         /\ Place[f] = p <=> item[p] = f
  <1>1. flag[f].status \in {"home", "stolen", "dropped"} BY DEF TypeOK, FlagStates
  <1>2. flag[f].status = "stolen" => flag[f].prev \in Players /\ item[flag[f].prev] = f
    BY DEF CarrierInv, Carriers, Carried
  <1>3. item[p] = f => flag[f].status = "stolen" /\ flag[f].prev = p
    BY FlagAssumption DEF CarrierInv, Carriers
  <1>4. QED BY <1>1, <1>2, <1>3, FlagAssumption DEF Place

LEMMA SamePlace ==
  ASSUME NEW f \in Flags, Same(f) PROVE Place'[f] = Place[f]
  BY DEF Same, Place

\* The flag that p gives up is on the ground or at home, the others where they were.
LEMMA ReleasesPlace ==
  ASSUME TypeOK, CarrierInv, NEW p \in Players, Releases(p)
  PROVE  \/ item[p] = None /\ Place' = Place
         \/ \E where \in {"home", "ground"} :
               /\ item[p] \in Flags /\ Place' = [Place EXCEPT ![item[p]] = where]
               /\ where = "home" <=> flag'[item[p]].status = "home"
  <1>1. \A f \in Flags : f # item[p] => Place'[f] = Place[f] BY SamePlace DEF Releases
  <1>2. CASE item[p] = None
    <2>1. \A f \in Flags : Place'[f] = Place[f] BY <1>1, <1>2, FlagAssumption
    <2>2. Place' = Place BY <2>1 DEF Place
    <2>3. QED BY <1>2, <2>2
  <1>3. CASE item[p] # None
    <2> DEFINE where == IF flag'[item[p]].status = "home" THEN "home" ELSE "ground"
    <2>1. item[p] \in Flags BY <1>3 DEF TypeOK
    <2>2. Place'[item[p]] = where BY <2>1 DEF Releases, Place
    <2>3. Place' = [Place EXCEPT ![item[p]] = where]
      <3>1. \A f \in Flags : Place'[f] = [Place EXCEPT ![item[p]] = where][f]
        BY <1>1, <2>1, <2>2 DEF Place
      <3>2. QED BY <3>1 DEF Place
    <2>4. QED BY <2>1, <2>3
  <1>4. QED BY <1>2, <1>3

LEMMA StepPlays ==
  ASSUME TypeOK, TypeOK', CarrierInv, PlainMap, [Next]_vars
  PROVE  GameStep
  <1> USE DEF GameStep, Game!ctf
  <1>1. CASE Quiet
    <2>1. UNCHANGED <<team, caps>> BY <1>1 DEF Quiet
    <2>2. CASE \A f \in Flags : Same(f)
      <3>1. \A f \in Flags : Place'[f] = Place[f] BY <2>2, SamePlace
      <3>2. Place' = Place BY <3>1 DEF Place
      <3>3. QED BY <2>1, <3>2
    <2>3. ASSUME NEW f \in Flags, flag[f].status = "dropped", flag'[f].status = "home",
                 \A g \in Flags \ {f} : Same(g)
          PROVE  GameStep
      <3>1. \A g \in Flags \ {f} : Place'[g] = Place[g] BY <2>3, SamePlace
      <3>2. Place[f] = "ground" /\ Place'[f] = "home" BY <2>3 DEF Place
      <3>3. \A g \in Flags : Place'[g] = [Place EXCEPT ![f] = "home"][g]
        BY <3>1, <3>2 DEF Place
      <3>4. Place' = [Place EXCEPT ![f] = "home"] BY <3>3 DEF Place
      <3>5. Game!GoHome(f) BY <2>1, <3>2, <3>4 DEF Game!GoHome
      <3>6. QED BY <3>2, <3>5 DEF Game!Next
    <2>4. QED BY <1>1, <2>2, <2>3 DEF Quiet
  <1>2. CASE Renews
    <2>1. Place' = [f \in Flags |-> "home"] BY <1>2 DEF Renews, Place
    <2>2. Game!NewRound BY <1>2, <2>1 DEF Renews, Game!NewRound
    <2>3. QED BY <2>2 DEF Game!Next
  <1>3. ASSUME NEW p \in Players, Releases(p), UNCHANGED <<team, caps>> PROVE GameStep
    <2>1. CASE item[p] = None
      <3>1. Place' = Place BY <1>3, <2>1, ReleasesPlace, FlagAssumption
      <3>2. QED BY <1>3, <3>1
    <2>2. CASE item[p] # None
      <3>1. item[p] \in Flags /\ Place[item[p]] = p
        BY <2>2, PlaceFacts DEF TypeOK
      <3>2. \/ Place' = [Place EXCEPT ![item[p]] = "home"]
            \/ Place' = [Place EXCEPT ![item[p]] = "ground"]
        BY <1>3, <2>2, ReleasesPlace
      <3>3. Place[item[p]] \in Players /\ Place[item[p]] # "home" BY <3>1, FlagAssumption
      <3>4. Game!Fall(item[p]) \/ Game!GoHome(item[p])
        BY <1>3, <3>2, <3>3 DEF Game!Fall, Game!GoHome
      <3>5. Place'[item[p]] \in {"home", "ground"} BY <3>1, <3>2 DEF Place
      <3>6. Place'[item[p]] # Place[item[p]] BY <3>1, <3>5, FlagAssumption
      <3>7. QED BY <3>1, <3>4, <3>6 DEF Game!Next
    <2>3. QED BY <2>1, <2>2
  <1>4. ASSUME NEW p \in Players, NEW t \in Teams, Releases(p),
               team' = [team EXCEPT ![p] = t], UNCHANGED caps
        PROVE  GameStep
    <2> DEFINE Left(where) == [f \in Flags |-> IF Place[f] = p THEN where ELSE Place[f]]
    <2>1. \A f \in Flags : Place[f] = p <=> item[p] = f BY PlaceFacts
    <2>2. \E where \in {"home", "ground"} : Place' = Left(where)
      <3>1. CASE item[p] = None
        <4>1. Place' = Place BY <1>4, <3>1, ReleasesPlace, FlagAssumption
        <4>2. \A f \in Flags : Place[f] # p BY <2>1, <3>1, FlagAssumption
        <4>3. Place' = Left("home") BY <4>1, <4>2 DEF Place
        <4>4. QED BY <4>3
      <3>2. CASE item[p] # None
        <4>1. PICK where \in {"home", "ground"} :
                item[p] \in Flags /\ Place' = [Place EXCEPT ![item[p]] = where]
          BY <1>4, <3>2, ReleasesPlace
        <4>2. \A f \in Flags : Place'[f] = Left(where)[f] BY <2>1, <4>1 DEF Place
        <4>3. Place' = Left(where) BY <4>2 DEF Place
        <4>4. QED BY <4>3
      <3>3. QED BY <3>1, <3>2
    <2>3. Game!ChangeSide(p, t) BY <1>4, <2>2 DEF Game!ChangeSide
    <2>4. QED BY <2>3 DEF Game!Next
  <1>5. ASSUME NEW p \in Players, Scores(p) PROVE GameStep
    <2>1. item[p] \in Flags /\ item[p] # None /\ flag'[item[p]].status = "home" /\ UNCHANGED team
      BY <1>5, FlagAssumption DEF Scores, people
    <2>2. Place[item[p]] = p BY <2>1, PlaceFacts
    <2>3. Place' = [Place EXCEPT ![item[p]] = "home"]
      BY <1>5, <2>1, ReleasesPlace DEF Scores
    <2>4. team[p] \in Teams BY DEF TypeOK
    <2>5. /\ caps' = [caps EXCEPT ![team[p]] = CapsAfter(team[p])]
          /\ CapsAfter(team[p]) \in caps[team[p]] + 1 .. MaxCaps
      <3>1. caps' = [caps EXCEPT ![team[p]] = CapsAfter(team[p])] BY <1>5 DEF Scores
      <3>2. CapsAfter(team[p]) = caps'[team[p]] BY <2>4, <3>1 DEF TypeOK
      <3>3. CapsAfter(team[p]) <= MaxCaps BY <2>4, <3>2 DEF TypeOK
      <3>4. caps[team[p]] \in Nat BY <2>4 DEF TypeOK
      <3>5. QED BY <2>4, <3>1, <3>3, <3>4, CapsAfterGrows, RuleAssumption
    <2>6. Game!Score(p, item[p]) BY <2>1, <2>2, <2>3, <2>5 DEF Game!Score
    <2>7. Place'[item[p]] # Place[item[p]]
      <3>1. Place'[item[p]] = "home" BY <2>1, <2>3 DEF Place
      <3>2. QED BY <2>2, <3>1, FlagAssumption
    <2>8. QED BY <2>1, <2>6, <2>7 DEF Game!Next
  <1>6. ASSUME NEW p \in Players, NEW f \in Flags, Takes(p, f) PROVE GameStep
    <2>1. flag[f] \in FlagStates /\ flag'[f] = Stolen(flag[f], p)
          /\ \A g \in Flags \ {f} : flag'[g] = flag[g]
      BY <1>6 DEF Takes, TypeOK
    <2>2. flag'[f].status = "stolen" /\ flag'[f].prev = p BY <2>1, StolenFacts
    <2>3. \A g \in Flags : Place'[g] = [Place EXCEPT ![f] = p][g] BY <2>1, <2>2 DEF Place
    <2>4. Place' = [Place EXCEPT ![f] = p] BY <2>3 DEF Place
    <2>5. Place[f] \notin Players BY <1>6, PlaceFacts DEF Takes
    <2>6. Game!Free(p) BY <1>6, PlaceFacts, FlagAssumption DEF Takes, Game!Free
    <2>7. Game!Take(p, f) BY <1>6, <2>4, <2>5, <2>6 DEF Takes, people, Game!Take
    <2>8. Place'[f] = p BY <2>2, <2>3 DEF Place
    <2>9. QED BY <2>5, <2>7, <2>8 DEF Game!Next
  <1>7. QED BY <1>1, <1>2, <1>3, <1>4, <1>5, <1>6, StepEffect DEF Effect

\* With any number of players and flags, dying, leaving, changing teams, inputs
\* of the map and new rounds included, what happens to the flags is a game of
\* capture the flag: each is in one place, a player carries at most one and never
\* the own team's, and only who carries a flag home scores.
THEOREM CaptureFlagIsCaptureTheFlag == ASSUME PlainMap PROVE Spec => IsCaptureTheFlag
  <1>1. Init => Game!Init
    <2> SUFFICES ASSUME Init PROVE Game!Init OBVIOUS
    <2>1. Place = [f \in Flags |-> "home"] BY SpawnedFacts DEF Init, Place
    <2>2. QED BY <2>1 DEF Init, Game!Init
  <1>2. TypeOK /\ TypeOK' /\ (PlainMap => CarrierInv) /\ [Next]_vars => [Game!Next]_(Game!ctf)
    BY StepPlays DEF GameStep
  <1>3. QED BY <1>1, <1>2, CaptureFlagTypeCorrect, CarrierInvAlways, PTL
            DEF Spec, IsCaptureTheFlag, Game!Spec

=============================================================================
