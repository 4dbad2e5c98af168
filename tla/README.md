# A TLA+ verification of JaffarPlus

JaffarPlus searches the inputs of a video game for a sequence that reaches a goal. It
runs a breadth-first search over game states with many worker threads that share a
state database and a hash database, both short of memory by design. The modules here
model that search (`source/`), check it with TLC on small instances and prove part of
it with TLAPS for every instance.

## 1. Inventory

| Part | State | Operations | Used by |
|---|---|---|---|
| Hash database, `hashDb.hpp` | deque of hash stores, age | initialize, checkHashExists (concurrent), insertHash, advanceStep | engine workers; main thread at the barrier |
| State database, `stateDb/base.hpp` | deque of base states, multimap of next states, two reference buffers | pushState, loadStateIntoRunner, saveStateFromRunner, advanceStep, getBestState, getWorstState | engine, driver |
| - Plain, `stateDb/plain.hpp` | one queue of free slots | popState, getFreeState, returnFreeState | |
| - NUMA-aware, `stateDb/numa.hpp` | free queue and scavenger queue per memory domain | the same, in stages, with a lookup of a slot's domain by its address | |
| Engine, `engine.hpp` | checkpoint level, tolerance and cutoff; best win of the step; candidate inputs detected; step | initialize, reset, runStep, workerFunction, runNewInput, runInput | driver |
| Driver, `driver.hpp` | best and worst state with their solutions, step, wins, finished flag | run, updateBestState, updateWorstState, saver loop, saves | `jaffar.cpp` |
| Runner, `runner.hpp`, `inputSet.hpp` | game, input sets and numbers of inputs, input history, step | initialize, parseInputSet, registerInput, allowed and candidate inputs, advanceState, serialize, computeHash | engine (one per thread), driver, playback |
| Game, `game.hpp`, `rule.hpp`, `condition.hpp`, `property.hpp` | rules, satisfied rules, state type, reward, checkpoint level and tolerance | initialize, parseRules, evaluateRules, satisfyRule, updateGameStateType, updateReward, (de)serializeState | runner, engine |
| Single games, `games/` | magnets, distances, values derived from the emulator's memory | hooks around advancing, loading and evaluating; rule actions; reward; additional hash | game |
| Emulator interface and adapters, `emulator.hpp`, `emulators/` | the core's state, disabled blocks, the renderer's last picture | initialize, advanceState, (de)serialize, enable blocks, renderer state | game, player |
| Player, `player.cpp`, `playback.hpp` | recorded sequence of steps with their pictures, current step, play and reload flags | initialize, commands, render | user |
| Command line `jaffar.cpp` | - | configuration, exit code | user, tests |

How they interact. `Driver::run` (main thread) calls `Engine::runStep` in a loop. A step
is a parallel region: every worker pops base states from the state database, runs each
input on its own runner, asks the hash database whether the result is new, evaluates the
rules, takes a slot and pushes the new state. The barrier at the end of the region is
the only synchronization of a whole step: after it the main thread alone advances both
databases. Inside the region the workers meet in concurrent containers, one lock (best
win) and unprotected fields (the checkpoint). A second thread of the driver saves the
best and worst results to files under a mutex.

What is hard to get right, and the property each part owes:

- **Hash database.** A lookup walks several stores, one atomic operation each, while
  others insert. It must answer as one atomic check of a bounded window would, and call
  a hash new once only.
- **State database.** Slots move between a free queue, two databases, scavenger queues
  and workers, and are taken from either end of the deque. None may be lost or shared;
  the worst base state goes first; the last worker to leave a step must leave nothing
  behind; a state must be read against the reference data it was written with, while
  the buffers are swapped once a step.
- **Engine.** With room to spare it must be a breadth-first search, whatever the
  threads do; short of room it must still end, prune behind checkpoints, report the
  best win of a step and survive states that do not fit.
- **Driver.** The best win of all steps is reported, files always match each other, the
  exit code says what was found, and both threads end.
- **Game, runner, playback**. A rule stays satisfied; actions of rules are applied in
  label order, and again whenever a state is loaded; a state must depend on its inputs
  only, not on what else its runner has run, nor on its hash being computed; conditions
  must be evaluated on the state that was loaded, with what is derived from it; what the
  engine stored for a state must be what a replay of its inputs shows, to the last step
  and no further, with the right picture, also when it is played once more.

`PROJECT.json` lists the hazards line by line with the properties that cover them.

## 2. Modules

| Module | Models | Relation |
|---|---|---|
| `SeenWindow` | what the hash database promises: one atomic check against the last stores | abstract |
| `HashDb` | `hashDb.hpp`, one action per store probed | implements `SeenWindow` |
| `HashDbProofs` | theorems about `HashDb` | |
| `StatePool` | what a state database promises: slots in one place each, nothing left behind | abstract |
| `StatePoolProofs` | theorems about `StatePool` | used by the next proofs with `INSTANCE` |
| `StateDb` | `base.hpp` and the engine's use of it | shared by the next two |
| `StateDbPlain` | `plain.hpp` | extends `StateDb`, implements `StatePool` |
| `StateDbNuma` | `numa.hpp`, popState and getFreeState in their single container operations | extends `StateDb`, implements `StatePool` |
| `StateDbPlainProofs`, `StateDbNumaProofs` | theorems about the two databases | |
| `FiniteFacts` | lemmas on sequences without repetition, on sorted ones, on maxima and minima, on sums, on folds of a set in the order of its numbers, and on recursive functions of a number or a sequence | used by the proofs |
| `LevelSearch` | breadth-first search of a game, one frontier per step, and the shortest wins it is to find | abstract |
| `Engine` | `engine.hpp` with `SeenWindow` as its hash database and `StatePool`'s operations on an ordered deque | |
| `EngineSearch` | `Engine` with history variables | implements `LevelSearch` |
| `EngineProofs` | theorems about `Engine`; that it implements `LevelSearch`, and what that finds | |
| `MCGames` | the small games the engine is checked on | |
| `Driver` | `driver.hpp`, both threads, one engine step being one action, and the exit code of `jaffar.cpp` | |
| `DriverProofs` | theorems about `Driver` | |
| `Emulator` | `emulator.hpp` and the adapter `quickerNES.hpp` around a core that is data | functions of an emulator's state |
| `GameScript` | configurations: parsing of rules, conditions, actions and input sets (`game.hpp`, `runner.hpp`), and what it rejects | extends `Emulator` |
| `SingleGames` | `sprilo.hpp`, `princeOfPersia.hpp`, `anotherWorld.hpp` behind the hooks of `Game` | extends `GameScript` |
| `GameRules` | `game.hpp`, `rule.hpp`, `condition.hpp` | extends `SingleGames`; functions of a game's state |
| `Runner` | `runner.hpp`, `inputSet.hpp` | extends `GameRules` |
| `Replay` | a worker's runner and what it stores, then `playback.hpp` and `player.cpp` | extends `Runner` |
| `ReplayProofs` | theorems about `Replay`, and so about the layers below it | |
| `MC*` | instances | |

The layers meet at the abstract specifications: `HashDb` implements `SeenWindow`, which
`Engine` uses by `INSTANCE`; both databases implement `StatePool`, whose steps are what
`Engine` does with its databases (take a base state, take a slot, evict, store, give
back); what `Engine` yields per step (states, wins, the best win) is what `Driver` sees.
`Replay` looks inside what is a constant to `Engine`: the runner that a worker loads a
state into, runs an input on and stores, whichever states those are.

State and actions in terms of the code:

- *Hash stores* are an interval of ids `oldest .. newest`; `_hashStores.rbegin()` is
  `newest`. `ProbeNewest` is `insert(hash).second`, `ProbeOlder` is `contains(hash)`.
- *Slots* are model values (plain) or addresses (NUMA, where an address decides the
  domain). A slot's contents are the reward of its state and which reference buffer it
  was encoded against; `AdvanceStep` swaps the buffers. Whether a state fits its slot is
  a choice (`Push` or `ReturnFresh`).
- *popState of the NUMA database* is a sequence of actions: own scavenger queue, up to
  `ScavengingDepth` pops from the deque, a foreign state held in no queue (`carried`)
  between its pop and its push, then the other domains' scavenger queues.
- *Engine workers* go through `runInput` with one action per read or write of shared
  data: hash check, cutoff, level, state type, free slot, steal, store, release, and the
  three writes of the checkpoint, one by one. The level compared at `engine.hpp:574` is
  the one the runner still has from its base state (`RunnerLevel`), and the tolerance is
  the one the runner was left with (`runnerTol`), as in the code.
- *The game* is a constant: for each state its successors, hash, type, level, reward,
  allowed and candidate inputs, and whether it fits. `EngineAssumption` says that levels
  do not fall along an input: satisfied rules stay satisfied.
- *Emulator*: the core is a table (`AdvanceCore`, `Memory`); beside it are the byte that
  sprilo's rules write to ("Lap Progress"), one block of the state that "Disabled State
  Properties" may leave out of saved states (a counter of inputs, modulo two, so that a
  block that is not restored shows), and the last picture drawn and shown, each named by
  the core's state.
- *Configuration*: `Scripts` holds scripts as they are written; `Rules`,
  `InLabelOrder`, `AllowedSets`, `InputStrings` are what `Game::initialize` and `Runner::initialize`
  make of them. A later rule replaces one of its label, an index is a place in the file,
  inputs are numbered as they appear, and a number takes the type of the property that
  it is compared with. What makes initialization throw is `Accepted`, which
  `ScriptsAssumption` asks of every script.
- *Rules* are functions from one state of a game to the next, one for each method of
  `Game`, in the order in which `Engine::initialize`, `runInput` and `Playback` call
  them. The hooks that a game overrides are functions by the game's name in
  `SingleGames`. What is not serialized (magnets, distance, tolerance, the height of the
  Kid's feet, the flag that stops the reward) stays in the runner from one state to the
  next, as in the code, and what is not initialized is chosen from `Uninitialized`.
  `RunInput` leaves the runner as far evaluated as `runInput` does on each of its ways
  out (`RunDropped`, `RunStored`); candidate inputs are read on what the last allowed
  input left (`LeftOver`).
- *Player*: `StartPlayer` is `main` up to the loop (a runner of its own, rendering and
  blocks enabled, the initial state saved), `RecordStep` is one round of
  `Playback::initialize`, `ShowStep` shows the picture and loads the step, `Command`
  handles a key, or none, to the end of the loop's round.
- *Driver*: one action per critical section of the main thread, split at the point where
  the state is copied and its inputs are not; two actions per save, one for each file;
  `Return` is the end of `main` in `jaffar.cpp`.

## 3. Runs

| Run | Question | Bounds |
|---|---|---|
| `hash_db` | Do concurrent lookups answer as an atomic window, and is a hash new once? | 2 threads, 3 hashes, 3 stores retired after 2 entries, 6 steps |
| `state_db_plain` | Are slots conserved, states decodable and sorted, the worst evicted, and does each step end with nothing left? | 2 threads, 4 slots, 2 rewards, 2 inputs per state |
| `state_db_numa` | The same, with states in transit between queues | the same, 2 domains of 2 slots, depth 2, buffers apart |
| `state_db_numa_adjacent` | (violated) Does a slot return to its own domain? | buffers adjacent |
| `engine_search` | Is the search breadth-first, without duplicates, and are the shortest wins found with the best one kept? | 3 threads, a graph of 10 states, 26 slots, 4 steps |
| `engine_limits` | Short of slots and of hash stores, with candidate inputs tried by two threads at once: is nothing stored twice, are checkpoints respected, and does the search end? | 2 threads, 3 slots, 3 inputs, 4 steps |
| `checkpoint_race` | (violated) Does the checkpoint level only rise? | 2 threads, 6 slots |
| `checkpoint_drop` | (violated) Are only states behind the checkpoint dropped? | as above |
| `win_overflow` | (violated) Is a win that beats the best one of its step stored? | 2 threads, 3 slots |
| `driver` | Do saved files match, is the best win reported, does the exit code tell whether there is one, do both threads end? | 2 rewards, 3 steps, every configuration but the next one |
| `replay` | Does a stored state depend on its inputs only, were these allowed, and do its rules and lap progress follow from them; does the player record and show the same for every step, with its picture, and reach the end? | three games: 8, 4 and 4 cores, 3, 3 and 2 inputs, 7, 4 and 2 rules; 3 steps, every start option and key |
| `stale_best` | (violated) Is the stored solution that of the stored state? | differential compression, search continues after a win |

Why the bounds are enough to be interesting. Three stores make a lookup pass two older
ones and six steps retire each of them; four slots with two inputs per state run out of
free slots, so that stealing meets popping on a deque of one or two states; the NUMA
instance has a worker per domain, and slots of both in the deque; the graph of
`engine_search` has states reached in two ways, a cycle, a failure, two wins in one step
of which the worse comes first, and two states with one hash, and TLC finds that it meets
the hypotheses of `EngineProofs` (`CompleteAssumption`); the games of the other
engine runs reach two checkpoints in one step, leave states behind them, and have
candidate inputs. Three driver steps let a win be kept over a step that finds a worse
one and over a step that finds none. The race of `replay` has two laps: its rules
advance the lap progress, one of them twice, and clear it, satisfy each other over two levels, overwrite each
other's magnet, win with a small label, fail, and compare a property with a number, one
of them beyond its type, and with another property; its labels are not in the order of
the file, its initial sequence has an input and a block is disabled. Prince of Persia
climbs from one room to the next, so that magnets of the other room fall silent while
they overwrite, and the height of his feet decides which inputs are allowed; candidate
inputs are tested. Another World has a label given twice, and its core moves when it is
hashed. Two slots and one runner let a state be left by one path and loaded with the
result of another, and three steps are enough to enter the second lap, to win, to fail,
and to climb the stairs and turn back. `MaxAge`, `MaxInputs`, `MaxSteps` bound counters
that the code leaves open or takes from its configuration. In the hash run thread and
hash symmetry is used: only safety is checked there.

The violated runs are disagreements between the code and its own comments:

1. `numa.hpp:189` compares with `<=` against a buffer's end, so the first slot of an
   adjacent buffer is taken for a slot of the domain before ("Finding out to which
   database this state pointer belongs to", line 197). It is a question of locality and
   of the size of that queue: `SlotsConserved` still holds where both fit.
2. `engine.hpp:536-541` compares and writes the checkpoint without a lock ("Checking
   whether this state's checkpoint is new").
3. `engine.hpp:574` compares the level of the base state (updateGameStateType runs at
   581) and so drops states that meet the checkpoint ("Checking whether this state meets
   checkpoint", line 571; "If state does not meet checkpoint, then do not process it
   further", line 576).
4. `engine.hpp:615` serializes a win without the handler that `pushState` has
   (`base.hpp:151`): one that does not fit is not stored, and the program ends ("Best win
   state needs to be stored if its better than any previous one found", line 609).
5. `driver.hpp:298` decodes the kept best state against the reference data of a later
   step.

## 4. Fairness

Weak fairness per worker thread: the operating system runs every thread, and no
operation of the concurrent containers blocks. The engine's one lock is held within one
action. In the driver the saver thread has weak fairness; the main thread has strong
fairness, because `std::mutex` gives no order of arrival but the saver thread sleeps for
100 ms without the mutex between two rounds, so the main thread finds it free again and
again. Nothing is assumed of the time to save: `Wake` may always find it too early.
The player is one thread (weak fairness of `Player`) that waits for a key only when it
is not playing and not unattended; no fairness is assumed of whoever presses keys, so
`PlaysToTheEnd` speaks of playbacks left alone.
`CHECK_DEADLOCK FALSE` stands only where the program itself comes to its end (engine,
driver and player) or waits for a key that nobody presses (player).

## 5. Proofs

`HashDbProofs` proves, for any set of workers and hashes, any number of stores at least
one and any store size (`HashDbAssumption`):

- `Invariance`: `Spec => []IInv`, and from it `TypeCorrect`: `Spec => []TypeOK`;
- `NovelAtMostOnce`: `Spec => NovelOnce`, an action property;
- `Refinement`: `Spec => RefinesSeenWindow`.

Why an inductive invariant is needed: a call that has inserted its hash in the newest
store and still reads older ones has an answer that is settled but not given. `IInv`
therefore adds to the types that (`WindowFull`) stores are dropped only when all are in
use, (`Remembered`) a hash called new in a store still kept is in that store or a newer
one, (`Exclusive`) no two calls are past the newest store with the same hash, and
(`Undecided`) such a call's hash, if it was called new before, is in a store it has yet
to read. `Exclusive` holds because insertion into the newest store is atomic: the second
call to insert a hash finds it there. The invariant is proved action by action;
`NovelOnce` follows from `Remembered` and `Undecided`: a call that reaches the end has
no store left in which the hash could be. For the refinement, the step that inserts is
mapped to the window's reply, the probes of older stores to stutters, and the rotation
to the end of a step; the lemmas on maxima of finite sets of ids (`MaxOfInterval`,
`LastIdIs`) give `LastSeen` the value the window has.

`StatePoolProofs` proves of the abstract pool, for any workers (at least one) and slots
that do not contain `Null`: each slot is in one place (`SlotsConserved`) and, when the
workers have stopped, no base state is left and nobody holds a slot
(`NothingLeftBehind`). What is added to make this inductive is that only an active
worker holds a base state, and that base states are left only while one is active. Both
databases are then shown to take only steps of the pool, so that these facts are
proved once and used twice, as part of their invariants.

`StateDbPlainProofs`, under `StateDbAssumption` (a finite set of slots, at least one
worker, integer rewards): `TypeCorrect`, `NoSlotIsLost` (`SlotsConserved`),
`BaseStatesSorted`, `AlwaysDecodable`, `TheWorstIsEvicted` and `Refinement`
(`ImplementsStatePool`). The invariant is a simulation: `Ordered` (the deque and the map
hold each slot once) and `Phases` (what a worker holds at each point of its loop) make
each step one of the pool's; the pool's own invariant then says that a slot that is
written is in nobody else's hands, from which `Encoded` and the two orders follow.

`StateDbNumaProofs`, under `StateDbAssumption`, `NumaAssumption` (disjoint buffers that
make up the slots, at least one domain, a depth of at least one) and, as a hypothesis of
each theorem, `Apart`: no buffer starts at the address where another one ends, without
which `SlotsAtHome` is false (run `state_db_numa_adjacent`). Proved are the same facts
and `HomeKept` (`SlotsAtHome`). Two parts of its invariant have no counterpart in the
plain database:

- `Watched`. A worker may stop with base states left in the deque, as it gives up after
  `ScavengingDepth` states of other domains, or while one is in another worker's hands.
  They are not forgotten because a non-empty scavenger queue will be looked into by an
  active worker (the one that put a state there looks into all others before it stops),
  and the deque will be looked into by an active worker unless some scavenger queue is
  not empty. So the last worker to stop finds nothing anywhere: the step is the pool's
  `Stop`.
- `Ahead`. What has been set aside was popped from the front of a sorted deque before
  what is left in it, so the last state of the deque is the worst of all, although it
  is not compared with those in the scavenger queues.

Steps that move a base state from the deque to a worker's hands to a scavenger queue
are stutters of the pool; all steps but `Push` and `Advance` are `Orderly`, and one
lemma (`ContentKept`) shows that such a step keeps the contents and the order.

`EngineProofs`, under `EngineAssumption` (at least one thread, finitely many; a
checkpoint's level does not fall along a path), for any game and any sizes of the
databases: `TypeCorrect`, `NoHashTwice` (`NoDuplicates`), `WinIsBest`
(`BestWinIsBest`), `CheckpointCuts` (`CheckpointPrunes`), `NoSlotLost`, and `UsesWindow`:
the engine implements `SeenWindow` as its user, so that the engine and `HashDb` meet in
one specification that each is proved against. The invariant's parts:

- `Sole`: the state in the hands of a worker that was told "new" differs in its hash from
  every other such state and from all states stored in this step, as all their hashes
  are in the window; the window moves only when nobody holds such a state.
- `Loaded` and `Pruned`: rules are evaluated before the level is compared, but the level
  is updated after, so that what is compared is the level of the base state. That is no
  more than the new state's, hence what passes meets the checkpoint; without the
  assumption on levels it would not follow. What wrongly does not pass is the run
  `checkpoint_drop`.
- `Phase` (when all threads have stopped, the current database is empty), `AllOrNone`
  (a terminated program is terminated for all) and `SlotsCounted`, with the number of
  workers that hold a base state and of those that hold a slot for a new one.

It also has the two properties that say what the engine is for:

- `Refinement` (`ImplementsLevelSearch`), under `Complete`: no checkpoints or candidate
  inputs, states that fit, two slots for every state and thread, and a hash database that
  never starts a new generation. `Expanding` says which part of the search's frontier is
  still in the database, in the hands of workers or expanded; `Waiting` and `Asked` what a
  worker is about to do for a successor; `Covered` that each successor of the frontier has
  its hash known, or its base state waits, or a worker is about to ask for it;
  `Accounted` that each new hash has exactly one state for it, stored, won, failed or in a
  worker's hands. So when all threads have stopped nothing waits, every successor's hash
  is known, and the states stored are one step of the search, whichever worker met them.
  That a worker finds a free slot (`Room`) is a count: states stored have different
  hashes, so they are not more than there are states, and a thread holds two slots.
- `FirstWins` of the search itself, and with `Refinement` `ShortestWins`
  (`FindsShortestWins`): the step of the first win stores all wins that as few inputs
  lead to. The hypothesis `HashesTellApart` is what a configuration's hash properties
  owe: a state on the way to a first win has its hash to itself among the states that as
  few inputs reach. `OnTheWay` keeps the way's next state in the frontier: if its hash were
  known it would be reached by fewer inputs (`Shortcut`), and the win with it. States off
  the way may share hashes, as two of `engine_search` do.

`DriverProofs`, under `DriverAssumption`: `TypeCorrect`, `BestWinIsReported`
(`ReportsBestWin`) and `ExitCodeTellsWin` (`CodeTellsWin`) for every configuration;
`SolutionIsOfState` and `FilesAgree` (`SolutionMatches`, `FilesMatch`) under the
hypothesis `EndsWhenWon`: a configuration with differential compression ends on the
first win. Without it they are false (run `stale_best`). The invariant's parts:
`WinsKept` (the best win of the steps so far is the best state, or is about to be
compared with it), `GoesOn` and `Ended` (why the loop goes on, or ended), `Matched`
(what both threads have copied and written belongs together), and who holds the mutex.

`ReplayProofs` proves of a worker's runner and of the player, for any scripts, core and
uninitialized values that the assumptions named in section 6 accept, any length of the
history, every option and every key:

- `TypeCorrect`, with the inductive invariant `Typing`: what is stored or recorded is a
  state of the script that is run, the history holds numbers of its inputs, and steps
  stay within the history and the sequence.
- `ShowsTheSolution` (`ShowsPath`), with `Typing /\ Following`. The playback enables all
  blocks before the initial state is saved, so that every recorded state holds them, and
  the picture is taken over from the frame of the input that was run last. Both hold
  again when a recorded state is loaded, so a restart finds them.
- `StoresThePath` (`StoredIsPath`) and `InputsMayRun` (`InputsAllowed`), with
  `Typing /\ Searching`: every stored state is its path's. The runner is in any state
  when it loads one, and loading runs the actions of its rules again. The lemmas
  `WritesOnce` and `RulesWrite` show that this changes nothing more in what lasts
  (`Settled`), by `RulesAssumption`; `JudgeAlike` and those before it that what is judged
  of an input depends on the rules, the core, the last input and what was written only,
  not on the magnets, distance and heights that the runner had (`Same`, `RewardsAlike`).
- `SatisfiesTheRules` (`RulesOfPath`), by induction on the path of a stored state, which
  `StoresThePath` gives: the status after an input is the closure of what held in any
  state before (`StatusOfRules`, from what the recursive `SatisfyRule` marks), and
  running the actions in label order changes what is written as `Lap` says of the rules
  (`LapFacts`, `RulesProgress`).
- `ReplaysTheSolution` (`SolutionReplays`), with `Typing /\ Following /\ Searching /\
  Replaying`. The engine evaluates the initial state and the playback does not. Up to the first input
  they differ (`AtStart`); the first input makes them agree (`FirstInput`), as
  `ReplayAssumption` says of the rules that they satisfy and `RulesAssumption` of what
  these write. From then on hashing, drawing and restoring keep them so (`Replays`).
- `ShowsTheStep` (`ShowsStep`), with all of these and `Showing`: recorded states are `Settled` and hold
  all blocks, so that a state that is loaded and stored again is the one recorded, and
  the magnets are those of the last action of the last satisfied rule that sets them
  (`ActionsSet`, `RulesSet`), whatever was shown before.

How recursion is handled there. The induction theorems of the library take an operator as
a parameter, which the provers cannot instantiate. `FiniteFacts` therefore states
induction over sets: a set of numbers that holds zero and each successor holds all
(`NatSetInduction`), and a fold in the order of labels has a value for each finite set,
which the next larger label extends (`LatestExists`, `LatestInduction`); recursive
functions of a number or a sequence exist and unfold (`NatRecursion`, `SeqRecursion`).
So what `SatisfyRule`, `RunRuleActions`, `Undisturbed`, `CoreAfter` and `RulesAfter` yield
is proved for all scripts and paths and not only checked on three games.

Only model-checked: liveness (`StepEnds`, `SearchEnds`, `RunEnds`, `PlaysToTheEnd`), which
is out of the prover's reach. Every invariant and every property of single steps that a
passing run checks is also the statement of a theorem.

## 6. Not modelled

- Emulator cores: data, constants of the models, and third-party code in submodules
  that the repository does not hold. Of the adapters QuickerNES is modelled; the others
  call other cores and have pictures of their own (SDLPoP, Stella and Hawk draw a state
  that they load), which `Replay` does not show: their games run with
  `--disableRender`.
- Of the single games three are modelled, with one dimension for positions (two for
  Prince of Persia) and integers for rewards. Hellway, Arkanoid, Dino Runner, Super
  Mario Bros. and Christmas Craze have hooks of the same shapes (a point magnet, a
  distance, values read from memory). "Kid Pos X" of Prince of Persia is registered but
  never assigned and has no place in the model.
- Bytes: serialization, compression and hashing are abstracted to what they tell apart;
  byte order, 64-bit properties and fractions of floats are left out. Hash collisions
  are modelled (two states may share a hash).
- Timers, statistics, printing, the reading of JSON and command lines, windows. Sizes in
  megabytes are counts.
- Configurations the code does not reject but that disable it (zero hash stores, zero
  scavenging depth), excluded by named assumptions, and a run without maximum step.
- What the named assumptions on scripts exclude because the code does not survive it or
  does not say what it means: what initialization throws on, properties of different
  sizes compared, labels given twice so that an index leaves the storage of the status
  (`ScriptsAssumption`); a magnet without a number (`ActionsAssumption`); rules that
  satisfy each other in a cycle, where the code recurses for ever, and an action that
  advances the lap progress in a rule that satisfies no clearing one, which loading would
  count twice (`RulesAssumption`); a disabled block in Another World (`HashAssumption`);
  a rule that holds in the initial state and never again, as playback does not evaluate
  it and the engine does, or that is decided there by what is not initialized
  (`ReplayAssumption`). The repository's examples satisfy them, but for the block that
  `examples/raw/stage01.jaffar` disables. The other assumptions only say what the
  constants are: a core takes a script's inputs and has the properties that its game
  reads, as integers (`CoresAssumption`, `RewardAssumption`), memory that is not
  initialized holds something (`GarbageAssumption`), and there is a history and an input
  (`RunnerAssumption`).
- `InputsAllowed` asks whether an input was allowed in the state that the inputs before
  it lead to undisturbed, with what is derived from that state.
- Quicksave files and the hash that the player prints. Step 0 of a playback is shown
  before any evaluation: its type is whatever the memory held, and its picture, when a
  solution is played once more, is the last one of the playback before. `ShowsPath`
  speaks of pictures from the first input on.

Observed while modelling, with no run of its own: `game.hpp:309` clears the checkpoint
level but not the tolerance ("Clearing checkpoint level and tolerance", line 308), so
that a runner keeps the tolerance of a state that it evaluated before (`runnerTol`). It
counts only if `runInput` returns before the type of the new state is determined and the
level of the base state is above the checkpoint's, as that of an initial state that meets
a checkpoint is. The case "climbing down" of
`princeOfPersia.hpp:253` is never taken, as the difference of frames is an unsigned
byte (`KidPosY` has it so); and the direction's reward at line 317 reads as
`1.0` or `-1.0 * magnet`, by the precedence of the conditional, so that the magnet counts
to one side only (`PrinceReward`).

## 7. Plan

Done: hash database, both state databases, engine and driver; emulator, configurations,
three games, rules, runner and playback. All are modelled, and what the runs check of
their safety is proved. Next, in order:

1. `Runner` in `Engine`: the hash stages of `computeHash` and the games of `Replay`
   instead of constants, with the lemma that a game's successors, types and levels are
   what `EngineAssumption` asks for.
2. A single specification of what `Runner` promises the engine, a game as a function of
   the path, that `Replay` implements and `Engine` uses, as `HashDb` and `SeenWindow` do.
3. The other emulator adapters, where their pictures differ.
