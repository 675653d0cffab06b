# Gold Fortress 2: TLA+ models of the game's state machines

This directory holds TLA+ specifications of parts of the game code under `src/src/game` and of the
lock-free containers in `src/src/public/tier0`, the TLC configurations that model-check them, and TLAPS proofs about them.

## The system

The repository is a modification of Team Fortress 2. The server runs one frame at a time: entities
think and handle input, the game rules think, delayed entity input is delivered, and the entities
marked for deletion are deleted. Nearly all of the game logic runs on this one thread, so what is
hard about it is not data races but *order*: many handlers, called from entities, console variables,
chat, player commands and timers, share the members of a few long-lived objects, and each of them
was written and tested with one order of calls in mind. The client's workshop manager has the same
shape: its handlers are the callbacks of Steam, which come when Steam likes. The exception are the
lock-free containers, which any thread may use at any time.

| Component | State it keeps | Operations | Talks to | What is hard | What makes it correct |
|---|---|---|---|---|---|
| Round rules (`teamplayroundbased_gamerules.cpp`, overrides in `tf_gamerules.cpp`) | round state and its deadline, waiting period, restart deadline, ready teams, one-shot reset/switch/scramble flags, scores, limits, HUD timers | state think, once a second checks, console variables and commands, wins declared by entities, chat, joins and leaves | players, round timers, control point master, win entities | deadlines cancelled from many places, one-shot flags set long before they are read, deferred deletion, hide and restore of HUD timers | rounds begin and end only when they may, matches start, scores agree with rounds, each timer lives as long as its owner |
| Control points (`team_control_point*.cpp`, `trigger_area_capture.cpp`, `team_objectiveresource.cpp`) | owner, locks, previous points, capture progress, who touches an area, a copy of all that for clients, mini-rounds | touch, think, capture, set owner, lock, pick a round | round rules, objective resource, timers | several areas for a point, players changing team or dying inside, locks and mini-rounds switching meanwhile | a point is captured only by a team that may, progress never goes the wrong way, a win is declared once |
| Round timer (`teamplay_round_timer.cpp`) | remaining time, setup, paused, overtime, auto-countdown | inputs from the map, think | round rules, HUD | time kept as end time or as remaining time, depending on pause | pausing and resuming conserve time |
| Flags (`entity_capture_flag.cpp`, `func_capture_zone.cpp`, `func_respawnflag.cpp`) | home, stolen or dropped; carrier, in the flag and in the player; touch function; return time; captures of the round | touch, drop, capture, reset, think, inputs | players, round rules | a carrier who dies, leaves, changes team or is switched; inputs on a carried flag; captures counted by a poll | flag and carrier agree, nobody carries the own flag, captures are earned, a free flag can be taken |
| Votes (`vote_controller.cpp`) | active issue, ballots, potential votes, timers | create, cast, think, player leaves | players, issues | players who leave or are kicked during a vote, votes that pass while time runs out | one result per vote, no ballot counted twice |
| Teleporters and buildings (`tf_obj_teleporter.cpp`, `tf_obj.cpp`, `tf_obj_sapper.cpp`) | pairing, recharge state, sapper, construction | build, pair, teleport, sap, destroy | players | destruction and pick-up in the middle of a teleport | both ends agree on the pairing |
| Workshop (`cf_workshop_manager.cpp`) | items that are tracked, listed, shown, disabled, on the search path; a running query; a pending content reload | Steam's answers and notifications, refresh, mount and unmount, enable and disable, delete | Steam (external), file system, engine | answers late, lost or before the refresh; files that disappear; reloads that are deferred; a restart | what is loaded is what is mounted, disabled items stay off, subscribed ones are mounted, no pointer to a freed item |
| Entity lists (`entitylist_base.cpp`) | serial numbers, delete list | add, remove, look up a handle | everything | stale handles | a handle never reaches another entity |
| Lock-free containers (`tslist.h`) | a stack and a queue whose heads carry a sequence number; nodes that come back | push, pop, purge, help | work items, call queues, pools | nodes that are deleted or reused while another thread holds a pointer to them; heads read in halves; a tail that lags | linearizable, nothing lost or taken twice, some thread always gets through |
| Command buffer (`commandbuffer.cpp`) | delayed commands, argument buffer | add, next, delay | console | reordering, compaction | commands of one tick keep their order |

Components of other game modes (arena, Mann vs Machine, PASS Time, robot destruction, competitive
matchmaking), of single players (conditions, weapons), and the client's panels are listed in
`PROJECT.json` with the reason why they are not modelled.

## Modules

| Module | What it is |
|---|---|
| `RoundRules` | The round rules of a casual or tournament server |
| `MC_RoundRules` | Definitions that give its constants their values for TLC |
| `RoundRulesProofs` | Type correctness of `RoundRules`, proved |
| `RoundRulesSafety` | The safety properties of `RoundRules` and their inductive invariants, proved |
| `ControlPoints` | Control points, capture areas, their master and the objective resource |
| `MC_ControlPoints` | Definitions that give its constants their values for TLC |
| `ControlPointsProofs` | What a think can do, type correctness, `ResourceAgrees` and `ScorerInArea`, proved |
| `TugOfWar` | What a linear map promises, abstractly: a front line that moves along a row of points |
| `ControlPointsChain` | The win and its output, captures, defenders and the chain of points of a linear map, and that it implements `TugOfWar`, proved |
| `CaptureFlag` | Flags, their carriers, capture zones and the captures that win |
| `CaptureTheFlag` | What capture the flag promises, abstractly: a flag is in one place, and only its carrier scores |
| `MC_CaptureFlag` | Definitions that give its constants their values for TLC |
| `CaptureFlagProofs` | Its safety properties, and that it implements `CaptureTheFlag`, proved |
| `Workshop` | The client's workshop manager |
| `MC_Workshop` | The model values of its run |
| `WorkshopProofs` | Its safety properties, proved |
| `TSList` | The lock-free list (`CTSListBase`, `CTSList`) |
| `ItemStack` | What it promises, abstractly: an atomic stack |
| `TSListProofs` | That `TSList` is sound and implements `ItemStack`, proved |
| `TSQueue` | The lock-free queue (`CTSQueue`) |
| `ItemQueue` | What it promises, abstractly: an atomic first-in, first-out queue |
| `TSQueueProofs` | That `TSQueue` is sound, and implements `ItemQueue` when no node is reused, proved |
| `MC_TSList`, `MC_TSQueue` | The model values of their runs and their symmetries |

### `RoundRules`

The module follows one server frame (`phase`): *entities* (commands, entity thinks, players, time),
then `State_Think` (one action per state), then the checks `Think` makes once a second
(`Periodic_*`), then delayed entity input (*events*), then `EndFrame`, which deletes what
`UTIL_Remove` marked. `Think_GAME_OVER` is the early return once `g_fGameOver` is set.

* A member of the class is a variable (its name in the comment of its declaration). An absolute time
  is a *deadline*: `unset`, `pending` or `due`; comparing it with `curtime` is testing for `due`, and
  `StateTimeUp`, `WaitTimeUp`, `RestartTimeUp`, `StalemateTimeUp`, `MapTimePasses` let it pass.
  `timeLeft` has three values because the code asks for the map's time in three ranges.
* Console variables that ask for something (`mp_restartgame`, `mp_restartround`, ...) are members of
  `cvars`; the polls of `CheckRestartRound` and `CheckWaitingForPlayers` clear them.
* `State_Transition` leaves the old state, enters the new one and runs its `Enter` handler, all in one
  action. `RESTART` transitions to `PREROUND` in its own `Enter`, so it is never seen between steps.
* The HUD timers are a record: whether the handles of the waiting and the stalemate timer are empty,
  live or being deleted, which timers are shown, and the one `HideActiveTimer` remembers. The round's
  timer comes first in the entity list, which decides the one that is remembered.
* A player is a member of a team, alive or not: `pop` and `alive` are the teams that have one.
* Which states a map lets a drawn or won round go to is a nondeterministic choice (`CanGoToStalemate`,
  `TimerMayExpire`, the control point master's verdict, `CanChangelevelBecauseOfTimeLimit`).
* A score changes in four ways. `SetWinningTeam` gives the winner a point for a full round, unless the
  map's control point master scores captures (`ShouldScorePerRound`; `ScorePerCapture` is the master's
  flag). On such a map `HandleScoring` gives a point for a capture while points may be captured.
  `AddTeamScore` adds what else the map adds, a negative number included and in any state
  (`ScoreInputs`): the inputs `AddRedTeamScore` and `AddBlueTeamScore` (`tf_gamerules.cpp:1671-1682`), flags
  that score as they are captured (`entity_capture_flag.cpp:1608-1727`, with `tf_flag_caps_per_round` 0
  among others) and `game_score` entities (`maprules.cpp:188`). A restart or a switch of the teams resets or
  exchanges the scores.
* `CheckWinLimit` looks at `mp_winlimit` and then at `mp_windifference` with `mp_windifference_min`
  (`LimitTeams`). The limits and the options of the server are constants: a vote that extends the map
  and its limits (`tf_voteissues.cpp:887`) is not modelled.
* A capture scores and then lets the map declare the win. Here these are two steps, so that the model
  has more interleavings than the code, never fewer. Of `PointsMayBeCaptured` the setup time and the
  bosses, which only forbid more, are left out.

Not in the model: arena, bonus rounds, Mann vs Machine, competitive matchmaking,
`mp_tournament_readymode`, stopwatch, respawn waves, autobalance, the end of the intermission (the
process loads another map), commentary mode, and everything that is only told to clients.

### `ControlPoints`

One area per point, no mini-rounds, no king of the hill timers. Each entity is a part of the state:

* `area[i]` is a `CTriggerAreaCapture`: the capturing team (`None` when `m_bCapturing` is false), the
  area's own copy of the owner (`m_nOwningTeam`), the time that remains, and whether it is blocked.
  `owner` and `locked` are the `CTeamControlPoint`s, `res` the `CBaseTeamObjectiveResource`, `disabled`
  and `fired` the master. Three copies of the owner exist, and the rules read the resource's.
* `in` is the touch list of the areas (a player is in one at most); the dead stay in it until somebody
  leaves, as in the code. `life` tells apart what `PlayerMayCapturePoint` and `PlayerMayBlockPoint` do:
  a player who can capture, one who only blocks (invulnerable), one who does neither (disguised,
  cloaked, stunned) and a dead one. Every player has the capture value 1.
* `scoring` are the players whose `EscortScoringThink` is scheduled.
* `CaptureThink` is one operator, used by the think of an area and, with the touch list already
  changed, by `StartTouch`. Its time is counted in steps: a think moves a capture by one, and the
  second think that `StartTouch` causes in the same frame may move it by none.
* `phase` is what the points see of the rules: captures are allowed (`open`), not allowed (before the
  round, setup, a boss) or the round is won. A win goes through `SetWinningTeam`, which refuses a second.
* `MapInputs` names the entity inputs the map uses, since the properties of a map depend on it.

Not in the model: mini-rounds, several areas for one point, a player who changes team without dying,
disabled areas, `SetControlPoint`, `SetTeamCanCap`, `SetWinnerAndForceCaps`, `team_startcap`, scores
per point, respawn wave adjustments and the credit for blocks.

`PlaysTugOfWar` maps a linear map to `TugOfWar`: the owners are who holds the points, `phase` and
`winner` the play. Everything else (areas, captures that go on, blocks, locks, touches, the resource,
the master) stutters.

### `CaptureFlag`

The flags of type CTF, with any number of flags, players and zones.

* `flag[f]` has the members of `CCaptureFlag` that decide what happens to it: status, `m_hPrevOwner`,
  the return time (off, running or over), whether its touch function is `FlagTouch`, `m_bCaptured` and
  `m_bDisabled`. `item[p]` is the player's `m_hItem`. The two are set in different functions, and that
  they agree (`CarrierAgrees`) is a theorem and no part of the state's shape.
* `Drop` is `CCaptureFlag::Drop` with its guard, which `DropFlag`, `Die`, `Disconnect`, `ChangeTeam`, the
  `drop` and `reset` inputs and `RoundActivate` all go through. A player dropped in a
  `func_respawnflag` zone loses the flag to its home at once.
* `Think` is one action: after a capture it gives the touch function back, and of a dropped flag whose
  time is over it returns it.
* `RoundRespawn` rebuilds the flags and respawns, switches or scrambles the players, as
  `RoundRules` describes it; `CheckCapsPerRound` is the poll of the rules' think.
* Positions are abstracted: a living player touches any flag or zone at any time, or never.

`PlainMap`, under which most properties are stated, excludes two kinds of maps: those that disable a
flag while it is carried (it then refuses to be dropped), and with `tf_flag_return_on_touch` those with
two flags of a team. There, a disabled flag stays with its carrier through death and a change of team
(`entity_capture_flag.cpp:1839`), and a player may come to carry two flags, of which the player
remembers one (`entity_capture_flag.cpp:1122`).

### `Workshop`

* Sets are the manager's containers: `tracked` is `m_mapItems`, `listed` `m_vecSubscribedItems`, `browse`
  the list of the browser, `disabled` the list of disabled items and `saved` its file. `paths` is the
  search path of the file system, `loaded` what the engine has loaded of it; between them stands the
  content reload that `Update` does later.
* Steam is the environment. A refresh reads any set of items. A subscription or its end may be answered
  for any item at any time, or never: a second `SubscribeItem` unregisters the answer to the first.
  Items are installed, and told of, in any order; those in `Vanishing` may lose their files.
* Unmounting a tracked item without an install folder goes on with an array that is not initialized:
  `Unmounted` lets it remove any item's folder, or none.
* `Restart` ends the game between any two steps and starts it again. Only the file of disabled items
  and what Steam has installed survive.
* `Content` are the items that are content replacements. In the code that depends on tags and on the
  folders of the item; the model supposes that both agree. `MountWeaponSkin`, which looks at the folders
  only, therefore mounts any of them.

Not in the model: `CCFWorkshopItem`'s own states and the downloads it starts, uploads and changes of
metadata, weapon mods, the HUD's reload (which shares the cooldown of the content reload), preparing a
map for a server, and dedicated servers.

### `TSList` and `TSQueue`

A step is one access of one thread to memory that others use; what a thread does with its own locals or
with a node that only it holds belongs to the step before or after.

* In `TSList`, `head` is `m_Head` with its three parts. A thread reads it in two halves in either order
  (`LoadNext`, `LoadTag`), since it is wider than a load, and swaps it whole. The link of a node that is
  not in the list may be anything (`LoadLink`): its owner writes it, or the heap has it. A push writes
  its own node's link in the step of the swap, which nobody can tell.
* `delete` gives a node back to the heap (`free`), which may hand it out again at once. Memory that was
  freed stays readable, which the code takes for granted.
* `SeqMod` is the number of values of `Sequence`, 2^16 in the code. `NoWrap` is an assumption about the
  environment and no guard of the code: fewer than that many pushes happen while another
  thread is between its read of the head and its swap. The depth does not overflow: nodes are fewer than
  it can count.
* `list`, `swept` and `late` are history variables: what is in the list, what a purge has yet to delete,
  and the pushes a thread has slept through.
* In `TSQueue` the two words of `m_Head` and `m_Tail` are read one at a time, in the order of the code, and
  swapped together. `Push` has no barrier between its two reads of the tail (`tslist.h:865-866`) and `m_Tail` is not
  volatile: that they happen in program order is an assumption about the build, which the comment at
  `tslist.h:878` shares. The free list is a sequence that is atomic, as `TSList` shows, whose links are in the
  `pNext` of its nodes, where a late thread may meet them. The sequences are words of the machine and do
  not wrap.
* An item is pushed once, which bounds a run; popping goes on. `Recycles` says whether popped nodes come
  back: `PushItem` and `PopItem` reuse them, and users of `Push` and `Pop` must not.
* `ItemStack` and `ItemQueue` let an operation happen at one instant between its call and its return. A
  pop of the list that finds nothing takes effect when it reads the pointer; when a pop of the
  queue does is known only later, so that `sawEmpty` remembers whether the queue was empty meanwhile.

Not in the model: `CTSPool`, `CTSSimpleList` and `CTSListWithFreeList`, which wrap the same base; the `Purge`
and `RemoveAll` of the queue, which are not meant for several threads; memory orders weaker than the
barriers in the code ask for.

### How they meet

The first two meet in `SetWinningTeam`, `RoundRespawn` and `PointsMayBeCaptured`; flags meet the rules in
`SetWinningTeam`, `RoundRespawn` and `FlagsMayBeCapped`. `RoundRules` lets a map declare any win at any
time; `ControlPoints` and `CaptureFlag` let the rules open, close and end a round at any time. Each
therefore covers every behaviour of the others, at the price of a few that do not occur.

## Runs

All runs of `RoundRules` (`rr_`) have the two teams; `MaxScore` and `MaxPlayed` bound the wins a map may declare, and
`MaxScore` the scores it adds, below zero too.

| Run | Server | Shows |
|---|---|---|
| `rr_casual` | waiting period, `mp_winlimit 2`, `mp_maxrounds 2`, restarts, ready restarts, cancelled waits, scrambles | the assertion on the waiting timer, wins within rounds, no round past a limit, HUD timers |
| `rr_suddendeath` | timed sudden death, time limit, `mp_winlimit 1`, mini-rounds, inputs that score, `nextlevel`, teams that switch | the stalemate timer, finality; a draw declared after a win in the same round leaves a win limit that the once a second checks meet |
| `rr_tournament` | tournament with sudden death, `mp_windifference 1`, restarts of the tournament | a match starts from zero; one that two ready teams await starts |
| `rr_waiting` | waiting period with requests to be ready, to restart at once and to wait again, `mp_winlimit 1` on a map that scores captures | the wait ends; a limit that a capture passes ends the game |
| `cp_linear` | three points in a chain, one player a team, captures pause when blocked | a team's points stay connected to its base while several captures go on, `TugOfWar` is implemented, defenders count, every change of owner is earned by who stands there, a win is declared in the step that decides it, the resource agrees |
| `cp_hill` | one neutral point, captures break when blocked, with all inputs and a master that is disabled | no win output for a win that was refused, an area held long enough is captured, an abandoned capture ends, a win that was missed while the master was disabled is found |
| `cf_ctf` | two players, a flag and a zone for each team, `tf_flag_return_on_touch`, inputs on the red flag, one capture wins | flag and carrier agree, nobody carries the own flag, a free flag can be taken, captures are earned and the winner has most of them, a dropped flag returns, `CaptureTheFlag` is implemented |
| `ws_client` | a weapon skin of the player's own and a map whose files may vanish | what is loaded is what is mounted, disabled items stay disabled over restarts and stay off, subscribed ones are mounted, the browser holds no freed item |
| `ts_list` | two threads push, pop and purge; three nodes that the heap hands out again, two items, a sequence number of two values | the list stays whole, every node has one owner, `ItemStack` is implemented, some thread always gets through |
| `ts_queue` | three threads, three nodes that come back, three items | the tail stays in the queue, nothing is lost, a pop takes what was linked with its own item |
| `ts_fifo` | two threads, three nodes that are not reused, two items | `ItemQueue` is implemented; some thread always gets through, whatever tail a push leaves |
| `cp_escort` | one point | *violation*: players go on scoring after a capture broke |

Two rounds are enough for the limits to be met in either order, for a second round to follow a reset
and for a second match to follow a first; a win or two per team are enough for the scores to differ, to
be equal again and to be swapped. The flags, deadlines and timers are not bounded at all. `Symmetry`
exchanges the teams and is used only in runs without liveness properties.

Three points are the least with a point between two bases, so that a capture can depend on one that is
lost meanwhile; two steps of a capture let it be begun, half done and lose what it gained; a player of
each team is enough for a block, since captures depend on which teams are in an area and only their
speed on how many.

In `cf_ctf` a capture wins, and `MaxCaps` 2 lets a second one come before the rules look, so that the
winner is compared with a team that has as many or more; a capture in sudden death always
reaches a limit of one, so that its bonus shows only in the proofs, which hold for every limit. Two
players can be enemies, each with the other's flag, or of one team. Only the red flag has inputs: the
flags are alike, and the blue one shows what happens to a flag that has none.

In `ws_client` one item is content and one is not, and the one whose files vanish is the one that is not:
its unmounting may then take the folder of the other from the search path, which is the worst it can do.
Nothing else is bounded: sets and Boolean flags are all the state there is. With two items an
action on one meets every state of another; no action involves three.

In `ts_list` three nodes let a node be popped, deleted, handed out and pushed again under another one while
a thread holds its address. Two sequence numbers let a thread sleep through one push, which is what the
return of a node needs (it is popped and pushed again), and let the number wrap; the proofs hold for any. In the
queue a stale old tail needs a node that was the tail, was popped, and is being pushed again, which two
items make and a third leaves behind. `ts_queue` has a third thread, so that two can disagree while one sleeps,
and `Alike`, which exchanges threads, nodes and items; it is not used with liveness. In `ts_fifo` three nodes are the
dummy and two pushes, enough for a pop to take the wrong item and for a push to leave the tail behind.

The modes not combined in a run of `RoundRules` (for example sudden death with a waiting period) are covered by the
proofs, which hold for all constants.

## Fairness

`FairSpec` assumes that frames go on (weak fairness of `State_Think`, of the periodic checks, of
`EndFrame`), that the once a second checks are not for ever skipped
(`SF(Periodic_LimitReached \/ Periodic_Checks)`: the frame
rate exceeds one per second, so `Periodic_NotDue` is not for ever the choice), and that a deadline is
reached (`SF` of three of the time actions, each of which is enabled in one phase of a frame only).
Nothing is assumed of players, of the map or of the console. A property that needs them to come to
rest says so: `WaitingEnds` supposes that requests stop, `AwaitedMatchStarts` that restarts do. A wait
that every second is asked to begin again does not end, and should not. `LimitEndsGame` holds of the states
within the bounds (`WithinBounds`), past which frames stop; in its run no state is past them.

In `ControlPoints`, `FairSpec` assumes that every area and the master think (both schedule their next
think in every think) and that the engine reports touches (`AreaTouch`, every frame). Nothing is
assumed of players, inputs and rounds: `HeldAreaIsCaptured` and `HeldPointsWin` suppose that what they
wait for lasts.

In `CaptureFlag`, `FairSpec` assumes that a flag thinks (its think schedules itself) and that its return time
passes. Players and inputs are free:
`DroppedFlagReturns` leaves a map the freedom to set the return time again and again. `Workshop` assumes no
fairness: Steam need not answer anything.

In `TSList` and `TSQueue`, `FairSpec` assumes that some thread is run as long as threads are in operations, and
nothing of any one thread: each may be stopped for ever at any instruction. `LockFree` is thus lock freedom,
which a queue with a spin lock in it would not have: the thread that spins would be the one that is run. A single
thread may lose every swap, so no more can be promised. In `TSList`, `NoWrap` holds back the push that would
reuse a sequence number some thread has slept on; with `SeqMod` 2 that thread is then the one to be run, where the
code would have 2^16 pushes to go. Nobody has to call anything.

## Proofs

`TypeCorrect` (`RoundRulesProofs`) is proved by one lemma per action, over lemmas on what the HUD
operators, a respawn, a restart, a win and a draw return. The theorems of `RoundRulesSafety` hold for
every value of the constants, given the assumptions in `RoundRules` (the options are Booleans, the
limits natural numbers, the two teams and `None` distinct):

* `CountdownOrReadyAlways`: the property is inductive itself.
* `WinsWithinRoundsAlways`: needs `ScoresFollow` (rounds are never reset without the scores), without
  which a reset of the count of rounds alone breaks the property. Its hypothesis `OnlyRoundsScore`, a condition on
  the map, is needed: a capture or an input scores without a round, and the score exceeds the rounds.
* `WaitTimerOnlyWhileWaitingAlways`: needs `WaitTimerInv`. A timer that is being deleted exists in the
  last phase of a frame only, because the only other place that deletes it, the restart that ends the
  wait, always rebuilds the map (`RestartTimers`).
* `StalemateTimerLivesAlways`: inductive together with `WaitTimerInv`.
* `TimersShownAlways`: needs `HudInv`, which says which timer may be hidden behind which (`HiddenBehind`) and
  that one timer at most is on display that is not being deleted. It holds for the record that each handler passes on and
  not only for the state: a restart that ends a wait ends the sudden death on the same record, between a timer that is
  restored and one that is deleted. The hypothesis `NoCancelledStalemate` is needed, as TLC showed when it checked the invariant: a wait that
  is cancelled in the middle of a sudden death restores the timer which the sudden death hides, next to its own.
* `GameOverIsFinalAlways`: needs that only three states are reached from the intermission.
* `NoRoundPastLimitAlways`: needs `LimitInv`. Only wins reach `mp_maxrounds` and, where only rounds score
  (`OnlyRoundsScore`), `mp_winlimit` and `mp_windifference`, so every state but the win and
  the intermission is below them. Where captures or inputs score, a restart that keeps the scores
  (`mp_switchteams`) may begin a round past a score's limit before the once a second checks have seen it; that the
  game then ends all the same is `LimitEndsGame`, which is model-checked.
* `MatchStartsCleanAlways`: needs `CleanInv` (the reset flags stay set) and `WaitEndsInRestart` (in a
  tournament only the restart that begins a match ends the wait).

The proofs about `ControlPoints` rest on one lemma, `ThinkHasOutcome` (`ControlPointsProofs`): whatever
branch a `CaptureThink` takes, it has one of the three outcomes of `ThinkOutcome` (the capturing team
stays, the resource is told of another one, or the capture is completed). Every other lemma
argues about the outcomes and not about the branches. The constants are assumed to be what
`ControlPoints` says of them: finite sets of players and points, two distinct teams, a positive number
of steps. On top of type correctness:

* `ResourceAgreesAlways` and `ScorerInAreaAlways` (`ControlPointsProofs`): inductive as they stand.
* `OutputMatchesWinnerAlways` (`ControlPointsChain`): needs `FiredIsWinner` (before the win nothing was fired). The hypothesis that a
  map which resets points has one group of them is needed for the reset of a point after the round, which sets the owner and looks for a
  win again: the points of another group may all be the other team's. With one group, the point that was reset is nobody's.
* `PointsAreEarnedAlways` (`ControlPointsChain`): an action property; every outcome that gives the point
  away has looked at the team, the players in the area and the rules in that think.
* `NoWinPendingAlways`: needs `WinInv` (the master of a map that has no inputs for it is never disabled,
  and an undecided round has no team that owns all it needs), under the hypothesis `Undecided`, that
  the map's own default owners do not decide the round.
* `ChainHoldsAlways`: the property is not inductive alone. Whether a team may capture depends on its
  farthest owned point, which is read from the resource (`ResourceAgrees`), and a team that has lost its
  base could capture next to it without being connected to it. But a point that was owned never becomes
  unowned (`ChainInv`), so the other team owns that base, by the chain it owns every point, and it has
  won (`WinInv`); after a win no point may be captured.
* `DefendersCountAlways`: the same invariant. Whether the owner's players count is asked of the owner's own front. By the chain the
  owner holds the road from its base to the point under attack, so that its farthest point is no nearer (`FarthestReaches`), nor is it
  farther, since the attackers' road begins there (`OwnerMayCapture`).
* `LinearMapIsTugOfWar`: a change of owner is earned (`CaptureFacts`), and by the chain of `ChainHolds` the
  team that may capture holds the whole road to the point. That the same step ends the round when it was
  the last point is `WinInv` again. Hypothesis: `LinearMap`.

The proofs about `CaptureFlag` (`CaptureFlagProofs`) hold for any numbers of players, flags and zones, any
limit and any set of inputs, on the maps of `PlainMap`. The inductive invariant is `CarrierInv`: player
and flag name each other, the carried flag is an enemy's, it is enabled, and a free one is in play. The
parts need each other. That a drop is never refused (the guard looks at `m_bDisabled`) needs that carried
flags are enabled; that dying leaves no flag behind needs that the drop is not refused; that a reset
flag can be touched needs that it was dropped before. `Effect` names the kinds of steps there are (a
flag is released, taken, captured, nothing happens, a new round), one lemma shows that every action is
of one of them, and the four properties, the captures and the refinement
`CaptureFlagIsCaptureTheFlag` argue about the kinds only. `WinnerHasMostAlways` is inductive as it stands: captures stop with the win.

The proofs about `Workshop` (`WorkshopProofs`) hold for any sets of items. Their invariant is
`WorkshopInv`: content on the search path whose files stay is installed and is in
`m_vecMountedWeaponSkins` (`MountedContent`), without which an unmounting would not ask for a reload;
the browser's items are tracked; and the list of disabled items in memory is the one on disk, so that a
restart enables nothing (`ChoiceKept`, the first half of `DisabledStaysUnmountedAlways`). Its second half and
`ListedItemsMountedAlways` need no invariant: each path asks anew, and they show that none of the handlers forgets to.

The proofs about `TSList` (`TSListProofs`) hold for any threads, nodes, items and number of sequences. The
invariant `Inv` adds to type correctness, to the whole list and to the single owners what a purge still
has to walk through (`SweepInv`) and what a thread may conclude from what it has read (`FreshInv`): the sequence is behind by the
pushes it has slept through; if there was none, the list can only have become shorter, and if its depth is
the same, it is the same list and the link it read is still that of the top node. `NoWrap` makes it certain that a
sequence that is equal means no push. So the swap of a pop takes the top of `list`, and
`TSListIsItemStack` maps every step to one of `ItemStack` or to a stutter.

The proofs about `TSQueue` (`TSQueueProofs`) hold for any threads, nodes and items. The invariant has four parts:

* `Base`: every node has one place (pool, held by a push, linked, the dummy, taken by a pop); the links of the
  nodes outside the pool are one to one and lead to linked nodes; and `Reads`, what a thread may conclude
  from a head or tail that still has the sequence it read. `PopsWhatWasLinkedAlways` follows from that alone: the
  item was read from the node behind the head, and an equal head means the same node behind it.
* `Shaped`: a push with a stale tail may link its node behind one that is not linked itself, so that private
  chains hang on the nodes that other pushes hold. That nodes cannot be linked in a ring needs an order among pushes
  that is no part of the program's state: `Shape` has three functions, the node at the top of a chain (`root`), the position in
  it (`rank`) and the nodes a push is too old to meet (`older`), and the invariant says that there are such functions. Every step is
  proved by naming the new ones.
* `Counted`: `m_Count` is off by one for every push that has linked but not counted, and every pop that has swapped but not counted.
* `Seen`: a pop reports an empty queue only if the queue was empty during its call.

`QueueWholeAlways` is the first three: `Contents` is defined by following links, so that `ChainUnique` (there is one way to
follow them) and `MainChain` (it visits just the nodes whose root is the head) connect it with `Shaped`. `TSQueueIsItemQueue` adds `Seen`
and, without reuse, `Fresh` (no thread remembers a tail that is yet to be pushed), by which every node is linked at the end of the
chain, as a queue must have it. Its hypothesis `~Recycles` is that of the class for `Push` and `Pop`; with reuse
the property is false, as said under *Findings*.

Every invariant, every action property and every refinement that a run checks is proved for all constants. Only
model-checked are the properties of liveness: `WaitingEnds`, `LimitEndsGame`, `AwaitedMatchStarts`, `HeldAreaIsCaptured`, `AbandonedCaptureEnds`,
`HeldPointsWin`, `DroppedFlagReturns` and `LockFree` of both containers. Liveness under fairness is beyond the prover, which
does not reason about `ENABLED`, and so is induction over data; no module declares a `RECURSIVE` operator.
Proved and not checked in a run, because another run's or property's bounds show nothing more: `CountdownOrReady`,
`ScorerInArea` and the `TypeOK` of `Workshop` and of `TSQueue`. The configurations keep the cases out of the runs that the hypotheses of the theorems
keep out: `rr_suddendeath` cancels no wait, and the maps of the `cp_` runs have one group of points.

## Findings

`ScoringMeansCapture` (run `cp_escort`): `EndCapture` and `BreakCapture` clear the capturing team and then look its
players up by it, so those who stay in the area are never told to stop scoring.

Behaviour the models have and no run is about. TLC found the first six as counterexamples to properties that
said otherwise, which are not kept; the others are exceptions named in a property:

* A tournament that everybody leaves goes back to waiting without awaiting ready teams again
  (`Think_STARTGAME`; `m_bAwaitingReadyRestart` is set by the constructor and `RestartTournament` only). Two
  teams that come next and are ready wait until `mp_tournament_restart`. `AwaitedMatchStarts` speaks of awaited teams.
* `m_bChangelevelAfterStalemate` survives a sudden death that everybody leaves, and the first win after a
  restart, which resets the map's time, ends the map.
* A draw declared during the waiting period of a server with sudden death, or after a win in the same round, hides a second timer, which
  the assertion in `HideActiveTimer` says cannot be handled: hence the hypothesis of `MapTimerShown`.
* A wait that is cancelled (`mp_waitingforplayers_cancel`) in the middle of a sudden death shows the timer that the sudden death hides,
  next to its own: `RestoreActiveTimer` does not ask who hid it. `TimersShown` excepts it.
* The free list of `CTSQueue` protects threads that pop, which the comment of the class speaks of, not those that push. A push that
  sleeps with the old tail in its hands finds that node with an open end again when it is being pushed
  anew, and links its node there. Until the other push has linked the old tail, no pop finds the item, and `PopItem` may
  say that the queue is empty. So `QueueWhole` looks for what was pushed when nobody is in a push, and
  `IsItemQueue` is checked without reuse.
* A push may leave the tail a node behind, as its comment says, until somebody pushes or pops again. `ValidateQueue`, which
  `Purge` and `RemoveAll` call first, takes such a queue for a corrupt one.
* The console mounts an item with content, whatever its type, and whether or not the player has disabled it
  (`cf_workshop_mount_skin`).
* `cf_workshop_refresh_skins` unmounts all content, mounts only skins again, and asks for a reload only if
  there is one: sound and HUD mods stay loaded without being mounted.
* An item that is unsubscribed and subscribed again before the next refresh is listed, but that refresh
  neither tracks nor mounts it.
* A notification that comes after an item was unsubscribed mounts it again.
* A flag that a map disables while it is carried cannot be dropped any more.

One comment could not be put to a run, since the part is not modelled: `PrepareLevelResources` says that
it "blocks until ready" (`cf_workshop_manager.cpp:3574`), while the first refresh of an item leaves it in a
state that `AsyncPrepareLevelResources` does not wait for.

## Plan

In this order:

1. Intermediate invariants that the liveness properties rest on and that are no properties yet: that a
   thread which loses a swap has seen another's success (`LockFree`), that the deadline of a wait is pending while nothing else
   ends it (`WaitingEnds`).
2. `VoteController`: ballots, its three timers, players who leave. The order of calls that matters there: a ballot that
   is cast in the five seconds after a result restarts the timer of the vote (`CheckForEarlyVoteClose`), and the result is
   computed again.
3. The states of one workshop item, and how a map is prepared for a server.
4. Mini-rounds in `ControlPoints`; `RoundRules` with arena mode and `mp_tournament_readymode`.
5. `RoundTimer`, `Teleporter`, `CommandBuffer`, `EntityList`.

## Not modelled

The repository has more than two million lines, most of them vendored, of the engine's libraries, of the
client's panels and of game modes, weapons and bots. `PROJECT.json` lists the parts and the reasons: continuous
quantities (movement, damage, conditions), data-driven behaviour (populations, schemas), generated and
third-party code. The implementation of the threading library is not in the repository.
