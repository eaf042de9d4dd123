# A verification project for smo_archipelago

smo_archipelago connects a modified *Super Mario Odyssey* to an Archipelago
multiworld.  This directory holds TLA+ models of the parts of it that are hard to
get right, TLC configurations that check them on small instances, and proofs,
checked by TLAPS, that hold for every instance.  Every definition was translated
from the code under `src/`; `PROJECT.json` maps each one to its lines.

## 1. The system

    game (SMO) -- hooks --> Switch mod (C++)  <-- TCP, JSON lines -->  SMOClient bridge
                            frame thread                                (Python, asyncio)
                            socket worker                                     |
                                                                          websocket
                                                                              |
                                                                   Archipelago server (external)

* **Switch mod**, `src/switch-mod/src/`.  Hooks run on the game's *frame thread*;
  one *worker thread* (`ApClient::threadMain`) owns the socket.  They share atomics,
  single-producer rings and seqlocks in `ApState`.  Nothing is saved but what the
  game saves.
* **Bridge**, `src/apworld/smo_archipelago/client/`.  One asyncio loop: a coroutine
  per Switch connection (`switch_server.py`), a task per package of the AP server
  (`context.py`), shared state (`state.py`).  Every `await` lets the others run.
  Nothing is saved at all.
* **Generation**, `src/apworld/smo_archipelago/*.py`: items, rules, the entrance
  shuffle, the Talkatoo order, the kingdom gates.
* **Set-up wizard and scripts**, `_setup/`, `src/scripts/`: from a game dump and the
  installed apworld to the client's tables and the mod on the console.  Threads, child
  processes and files; what it leaves is what the running system trusts.

### Inventory

| component | state | operations | interacts with | what is hard | correct means |
|---|---|---|---|---|---|
| moon ledger | received and paid moons (`state.py`), balance (`ApState`), `PayShineNum` (the save) | item receipt, deposit, `pay_snapshot`, `outstanding`, save, load | AP server, worker, hooks | crash between deposit and save, loads, lost and late lines | the balance is received minus paid for the save that is loaded; no credit is invented |
| item mirror | `received_items`, counts, bonus picks, `captures_unlocked` | Connected, ReceivedItems, replay at HELLO, ability table | AP server, registry, frame thread | tasks interleave at every send, histories are replayed, slots change | each item once, bonuses once, the Switch agrees with the bridge |
| Switch registry | `_connections`, `_active_device_id`, `BridgeState._switches` | HELLO, refuse, replace, set_active, promote, tear-down | user, every connection | coroutines overlap, sends fail | nobody lost, the slot bound, who becomes active is sent the state |
| check delivery | dedup set and ring (Switch), buffers, held snapshot, `locations_checked`, goal latch (bridge) | check, capture, goal, snapshot, confirm, reject, drain | hooks, worker, AP server | losses at every hop, the wrong save, AP not ready | nothing unasked is credited, nothing is lost for good |
| socket worker | socket, `snapshot_pending`, `rehello_requested_`, backoff | connect, HELLO, snapshot, receive, pump | frame thread, discovery, bridge | dead links, deferred snapshot, quick bounces | always a HELLO and a snapshot owed or sent |
| frame-thread state | rings, seqlocks, coin high-water mark, pending kill, moon label | applyOnFrame, applyCoinGrant, maybeApplyInboundKill | worker, game | torn reads, full rings, what a reboot forgets | each grant applied once |
| frame-thread tables | a sequence number and plain words per table | push, lookup | worker, game | torn reads, starvation, no fences | a lookup answers from one whole table |
| coins | the total due, the last total sent, `coins_applied`, the purse | grant, apply, load, reboot | bridge, worker, saves | totals sent again, marks that outlive saves | each coin once |
| session after a load | `connected` latch, bubble queue, announcement, `snapshot_pending` | load, re-HELLO, bubble shown or dropped, snapshot | frame thread, worker | four deadlines and three senders | the snapshot is of the loaded save, the player is told the truth |
| DeathLink | `death_pending_send`, `last_observed_death_ms`, cached HP | report, bounce, kill | AP server, hooks | echoes, debounce | one death, one kill |
| Talkatoo | order, window of three, named moons | build order, push windows, name, block | generation, AP server | pushes overlap, a block may lock the player out | the Switch has the current windows; some moon can be taken |
| kingdom gates | rolled thresholds, exit gates | roll, evaluate | generation, ledger | clamping, a balance in flight | out exactly when enough was received |
| access logic | regions, doors, their rules; what the sweep has reached | set_rules, after_set_rules, a round of the sweep, an item | entrance shuffle, Archipelago's fill | each pass replaces rules of another, moves are compiled twice | no place counts as open before it is; with all items everything is |
| entrance shuffle | the bijection, rows on the Switch | roll, push in chunks, enter, leave | generation, game | half-sent maps, maps of two slots | out where one went in |
| scouts, palette, shop labels | scout cache, colours, labels | Connected, scouted batch, replay | AP server, Switch | slot changes under running pushes | each moon shows this slot's item |
| moon label | one pending label with a sequence number | check, answer, cutscene frame | worker, frame thread | two writers, late answers | no other moon's label |
| moon colour | animation frame, tint, get window | make, drive, per-frame hook | game | vanilla drives it too | the next frame shows it |
| item pool | the pool, rolled gates, item rules | starters, cuts, filler, roll, demote, pin | generation | each step undoes another's assumption | gates can open, everything has a place |
| setup: tree and build | unpacked tree, marker, artifacts | unpack, build, deploy | apworld file, compiler | crashes between file operations | marker means whole and current |
| setup: extraction | venv, RomFS cache, two tables, sentinel | extract, cancel, reload | extractor processes, client | orphaned children, half-written tables | ok means good tables, and the client has them |
| setup: prerequisites | tools, rows, resolved compiler | detect, install, pick, clean up | three threads | they overlap | rows and compiler are what is there |
| setup: wizard, pipeline | buttons, attempts, workers | enter, retry, next, finish | all the above | late events, revisits | Next means it is done |
| line protocol | read buffers, the static `DecodedMsg`, `leftover_msgs` | encode, receive, pop a line, decode, reconnect | every message of the above | cut and joined bytes, lost connections, reused structs, limits of 8 KiB | whole messages of this connection, in order |
| discovery | the responder's socket and address, the attempt on the Switch | probe, answer, bounce, connect | worker, `main.py`, the network | late and lost datagrams, a bridge that restarts or moves | who was found can be connected to |
| maps, commands | -- | text, look-ups | all | little | -- |

The hazards of the code, at the line where each bites and with the properties that
would catch it, are listed in `PROJECT.json` under `hazards`.

## 2. The modules

| module | models | proofs |
|---|---|---|
| `MoonLedger` | the ledger end to end: server, bridge, TCP, worker loop, hooks, saves | `MoonLedger_proofs` |
| `ItemMirror` | the bridge's tasks, the link to the Switch, captures and abilities on it | `ItemMirror_proofs` |
| `SwitchRegistry` | `_handle_client` and `set_active` over several connections | `SwitchRegistry_proofs` |
| `CheckDelivery` | from a collected moon to the AP server, with the confirmation gate | `CheckDelivery_proofs` |
| `SeqTable`, `AtomicTable` | a seqlocked table of the Switch, and the atomic table it implements | `SeqTable_proofs` |
| `CoinGrant` | coin totals from the bridge to the purse | `Console_proofs` |
| `DeathLink` | deaths both ways | `DeathLink_proofs` |
| `SaveSession` | what a load sets off: re-HELLO, bubbles, snapshot gate | `Console_proofs` |
| `Talkatoo` | the order, the pushes of windows, naming and blocking | `Console_proofs` |
| `Entrances` | the bijection, its rows, the push in chunks, going in and out | `Console_proofs` |
| `DetourGate` | rolled gates and the way out of a detour | `Console_proofs` |
| `ScoutTables` | colours and shop labels from scouts | `Console_proofs` |
| `CutsceneLabel` | the label in a moon's cutscene | `Console_proofs` |
| `ShinePaint` | the colour of a moon's model | `Console_proofs` |
| `BundledTree` | unpack, build, deploy | `Setup_proofs` |
| `MapExtraction` | from a dump to the client's tables | `Setup_proofs` |
| `Toolchain` | detectors, installers and the page of prerequisites | `Setup_proofs` |
| `SetupWizard` | the pages with workers, and the command-line pipeline | `Setup_proofs` |
| `LineProtocol` | lines of JSON, from the encoder of one side to the handler of the other | `Console_proofs` |
| `BridgeDiscovery` | how a Switch finds the bridge | `Setup_proofs` |
| `ItemPool` | from `items.json` to what the fill is given | -- |
| `MoonRequirements` | what a location requires, as the script bakes it in and as the entrance shuffle compiles it again | `Setup_proofs` |
| `AccessLogic` | regions and doors, the rules on them, what can be reached with which items | `Setup_proofs` |
| `MC*` | model values and small sets for TLC | |

The first four overlap at the connection: each takes from the others only what its own
properties need.  `SwitchRegistry` keeps every await of a connection's coroutine and
no payload; the other three keep one console and one slot holder, with `reg` (or
`old`) for a connection the bridge has yet to see the end of.  The others each keep one
conversation between bridge and Switch, or no connection at all.  `MCConsole` and
`MCSetup` run several modules in one check: a variable `focus` says in the first state
which of them moves, and the rest stands still.  They share no state, so this is a set
of runs in one, not a composition.

### MoonLedger

`lifetime` and `brPay` are `moons_received_by_kingdom` and
`pay_shine_num_by_kingdom`; `balance` is `ap_moons_kingdom`; `pay` and `disk` are
`PayShineNum` in memory and in each save file.  `wpc` follows the order of
`threadMain`'s loop: take a re-HELLO request, connect, read, send the late snapshot,
pump.  `up`, `down` are the lines on the open connection and `old` those of
dead ones that their handlers still read: `_dispatch_from` compares device ids, so
they count.  A load is two steps, `InitializeData` (the original function) and
`SaveLoadTail` (the hook's side effects), since the worker runs between them.
`dirty` records the three ways a reading is dropped or overtaken.

### ItemMirror

A package becomes a task; `cur` is the one that runs, `waiting` those suspended in a
send because the writer is paused or others queue for `writer_lock`.  A task runs
without interruption between two sends, as the event loop does.  `net` is what the
server sent and the bridge has not read; `hist` is the truth the mirror is compared
with.  A slot is one of some AP server, and `SlotName` its name: two servers may have
slots of one name, which the reset of `Connected` cannot tell apart, so that the mirror of
one is kept for the other (`mistaken`).  `checkedTooLong` says that the list of checked
locations has outgrown a line: the replay of a HELLO begins with that list, `encode` raises,
and no item, capture or ability follows (`abandoned`).  The error ends the handler with the
connection registered; asyncio closes it from Python 3.12 on (`AbandonedCloses`, a step that
may never come).  Abstracted: a Multi-Moon's captures are one step, the HELLO replay runs
between tasks, the Switch's inbound ring is part of `wire`.

### SwitchRegistry

One handler per connection, `pc` at each await of `_handle_client`; `toggle` runs of
`set_active` by the user, `target` the promotion at the end of a handler.  Effective
ids are the announced one or one with the address added.  `owed`, `takeovers`,
`refused`, `cut` and `unsent` are history.  Sends of a connection whose far end is gone may
succeed or fail.  Any replay may raise while the far end is up, since the list of checked
locations may not fit a line (`ReplayOverflows`): from `_handle_client` (`ReplayRaises`, where
no finally clause runs and the connection stays registered), from the promotion
(`PromoteRaises`) and from `set_active` (`ActivatedRaises`).

### CheckDelivery

`reported` is the session's dedup set, `ring` the outbound ring, `up`/`old` the lines
under way, `pendingLive`/`pendingSnapshot` the buffers before AP is ready, `held` the
snapshot that waits for `/confirm_snapshot`, and `connectedTask` where the Connected
task is suspended.  `report` is `report_check` and `report_goal`: a send without a
websocket is dropped and counts as sent, as in `CommonContext.send_msgs`, which
resends `locations_checked` on the next Connected (`ApConnects`).  Abstracted: a
snapshot is one line; the worker's loop order is not kept (`MoonLedger` keeps it);
what a save holds is any of `SaveMoons`, so no file is modelled; captures in a snapshot
are left out because the gate and the dispatch both skip them; `checked_replay` is
left out because the hash of its entries never equals that of a raw check; with it the
replay that an oversized one ends, which the modules after `ItemMirror` and
`SwitchRegistry` leave out too: they assume the list of checked locations to fit a line.

### SeqTable and AtomicTable

`seq`, `words` are the memory; the writer is `idle`, `marking` (the odd number is stored
but not yet visible) or `writing`; the reader makes up to `Attempts` attempts.  A word
may reach memory before the odd number, and may be read after the second load: the code
has release stores and acquire loads but no fence.  `doubt` marks a lookup such a word
went into.  `AtomicTable` replaces a table and answers a lookup in one step each;
`Atomic == INSTANCE AtomicTable WITH` maps the last complete table, the tables seen since
the lookup began and, unless in doubt, the answer.

### CoinGrant

`due100` is `compute_total_coin_grant` in units of 100; `coinLines` the totals under way;
`offered` is `pending_coin_grant_total`, `coinsApplied` the mark.  `coinPurse` and
`coinSave` are the coins in the game and in its file; `given` and `most` are history.

### DeathLink

`unsent` is `death_pending_send`, `deaths` the queue, `popping` a send that has succeeded
and is yet to be taken off; `recent` stands for the 15 s of the debounce; `kill` is the
pending kill and whose death it is.  `bounces` are what the AP server sends back, one's
own included.

### SaveSession

`hook` is the order of the effects of `SaveLoadHook`; `clock` the debounce (`burst`), the
announcement (`wait`), the silence (`quiet`); `queue` is Cappy's, `latch` the dispatch
latch the snapshot gate waits for; `lines` the snapshots under way and whether each is of
the loaded save.

### Talkatoo, Entrances, DetourGate

`Orders` are the orders the generator may ship: any in which each moon comes after what
it needs (`SafeOrders`), projected onto kingdoms.  A kingdom's order and a window are `Part`s
of a sequence: its n-th entry is the one with n - 1 chosen entries before it.  A push computes its windows (`payload`), then sends one line per
kingdom; between two sends others run.  `named` and `taken` are the Switch's.
`Entrances` rolls any bijection of `build_entrance_pool`, derives the rows, splits them
in chunks with a reset in the first, and lets Mario use doors at any time; `WayOut` is what
the game and the hook make of leaving.  `DetourGate` has two
sibling kingdoms of the eleven the transfer walk passes through: the others take up or give
what these two do not, so each keeps its own bounds and their sum is free (`Rolls`); `gate` is the Switch's copy, `purse` and
`paid` are the two terms the gate adds.

### ScoutTables, CutsceneLabel, ShinePaint

A colour or a label is the slot whose item it shows, or the moon it belongs to.
`Painters` are coroutines that push; `asked` the scouts the server has yet to answer.
In `CutsceneLabel` the worker writes the text in two steps and the number last; the
frame thread is the second writer.  `ShinePaint` has one moon's model: `anim`, `tint`,
and vanilla driving it at any time, within the get window or not.  `build` is the parts it
has: none (no model), a model with or without an animation, with or without the body material.
Both paths look first (`isExistModel`, `isExistMaterial`), and a model without the
material is passed by every frame: it keeps what it got when it was made.

### LineProtocol

One direction per behaviour (`way`).  A message is its type, its fields, its number of rows and a
size in units of which `LineCap` are 8 KiB; a line on the wire is those units and a newline.
`stream` is what TCP has yet to deliver, `buf` is `read_buf_` or the handler's bytearray.
`Down` and `Up` list every message either side writes, with each set of fields it may
have; `Known` and `RowCap` are what the parsers of the Switch accept and have room for, `HeardOf`
what the handlers of the bridge read.  `itemSlot` is the `item` member of the static
`DecodedMsg`, which no message resets: which line each of its fields is from.
`leftover` is `leftover_msgs`, what came in one chunk with the HELLO.
A `checked_replay` that encodes to more than 8 KiB raises in `encode` before a byte is
written (`protocol.py:746`); what that does to the rest of the replay is in `ItemMirror` and
`SwitchRegistry`.  Met on the way, neither of them a violation: a body of exactly 8192 bytes passes `encode` and is given up by the Switch, whose buffer has
no room for its newline; `kick` and `activate` are not decoded by the Switch, though the
docstring of `KickMsg` (`protocol.py:485`) has the mod show an overlay.

### BridgeDiscovery

The machine of the bridge (`lan`, `phase`, `responder`, `advertised`), the datagrams under way
(`probes`, `answers`, by the Switch's socket they belong to) and the Switch's attempt.  Each step
of an attempt opens a socket; the machine has one address (`detect_lan_ip` picks one, and a
machine on several networks would advertise the one it picked); what comes for an older one bounces, and `deaf` is what a
bounce does to a responder on Windows whose resets are not suppressed.  `calm` is
history: the bridge has not stopped, nor the machine moved, since the attempt began.

### BundledTree, MapExtraction, Toolchain, SetupWizard

`BundledTree`: one action per file-system effect, with a crash, a failure or a new
apworld between any two; a file is the release it came from.  `MapExtraction`: the
extractor's two processes, its two caches and two tables; `stamps` is the sentinel's time,
`mark` the client's.  `Toolchain`: nine prerequisites are represented by four, one for each
way of being there; `check` is the worker of the detectors, `queue` the tools the
installation has left (a set: `InstallOrder` says which is next), `popup` its window;
`building` counts the workers of the build page, each of which may remove the toolchain at
its end (`Cleanup`), whatever page is shown by then, since Back is never disabled.
`SetupWizard`: workers numbered by start, events posted to the main
thread; what a worker's script does inside is in the other modules.  The pipeline deploys
into a folder or, by default, nowhere (`Targets`).

### ItemPool

Items are counted by kind and classification, locations by the rule they have; the
numbers in `MCSetup` are counted from `items.json`, `locations.json` and the tables of
`hooks/World.py`.  The stages are the hooks in the order `create_items` calls them.
`Fillable` is the condition for a complete matching of locations and items under the item
rules (the rules are nested: junk within calm within any); the fill itself is
Archipelago's.  All location toggles are one.

### MoonRequirements and AccessLogic

A requirement is the set of its alternatives, each a set of terms: an item and how many, the
moons of a kingdom, a region, a location.  `MoonRequirements` compiles the records of
`moon_requirements.json` twice, with the tables of the script (`Script`:
`compile_moon_logic.py`, which writes `locations.json`) and with those of the client
(`Client`: `entrance_logic.py`, which compiles the moves alone of the moons behind a
shuffled door).  `AccessLogic` makes the rules as `set_rules` and the passes of
`after_set_rules` do, in their order and with what each replaces (`SetInteriorRules`,
`FreeCap`) or adds to (`AddDoorRules`, `AddScenarioRules`): `exitRule`, `doorRule` and
`locationRule` are the sets of requirements asked for.  Then `Look` is a round of the sweep
and `Obtain` an item; `reached`, `entered`, `open` only grow.  The sweep is Archipelago's and
external: it looks in waves, which come to the same as its queue, since rules only ever become
true.  `Way` and `Home` state where the data puts a region and a subarea.

The two compilers do not have the same tables, although `entrance_logic.py:284` says it mirrors
the script exactly: the client's know neither the spin jump nor the free capture "Broode's
Chain Chomp".  `InteriorNotLooser` proves that the difference is on the safe side.

## 3. What TLC checks

| run | states | bounds | shows |
|---|---|---|---|
| `ledger` | 174 k | 1 kingdom, festival and not, 1 save, ring of 1, 1 moon, 2 deposits, 1 fault, 2 events, `FairSpec` | TypeOK, **QuiescentExact**, **CreditNeverInvented**, **EventuallyExact** (liveness) |
| `ledger_drift` | violation | 2 saves, ring of 3 | OutstandingTracksPay fails |
| `mirror` | 2.0 M | 3 slots, two of one name, one of these with bonus picks; 2 items; at most 3 connections to AP and 2 faults, together 4 | **MirrorExact**, **BonusExact**, **SwitchInSync** |
| `mirror_oversized` | violation | the same, 2 connections | HelloReapplies fails |
| `mirror_reapply` | violation | the same, 2 connections | CapturesReapplied fails |
| `registry` | 1.3 M | 3 connections, 1 id, 2 addresses, 2 versions, 2 calls of set_active, the list of checks too long or not, symmetry | **NoOrphan**, **SlotBound**, **ShownIsActive**, **ReplayedOnceActive**, **SamePeerTakeover** |
| `registry_replay` | violation | 1 version, 1 call | NeverActiveUnreplayed fails |
| `checks` | 1.8 M | 2 moons (one the goal), 1 capture, 1 save (it holds the other moon), ring of 1, 1 line in flight, 2 reports; reports + 2 x faults <= 4 | **NoUnconsentedCredit**, **Reconciled**, **LiveChecksDelivered** |
| `checks_goal` | violation | the same | GoalReportedMeansSent fails |
| `console` | 1.4 M | eleven parts; see below | **LinesExact**, **PoolsCurrent**, **NeverStuck**, **RoundTrip**, **GateHonest**, **SnapshotCurrent**, **StatusHonest**, **DeathsHonest**, **TablesCurrent**, **LabelOwn**, **PaintHolds**, **CoinsOnce**, **LookupsAreAtomic** (refinement) |
| `setup` | 1.9 M | seven parts; see below | **AnswerMeansListening**, **TreeTrusted**, **DeployedFromTree**, **SuccessSticks**, **WatermarkFresh**, **PrereqsCurrent**, **PagesHonest**, **PipelineHonest**, **PoolFillable**, **NoEarlyArrival**, **GatesSurvive**, **NothingLocked** |
| `logic_extra` | violation | the access logic of `setup`, shuffle on, each door its own | ExtraGatesHold fails |

*Why the bounds are enough to be of use.*  A ring of one entry is full as soon as two
things happen before the worker runs, which needs two deposits or two checks; in `mirror`
and `checks` two faults allow one during the recovery from another (a load after a lost
link, a link lost after the list of checks outgrew a line).  `ledger` has one fault, since TLC checks liveness there: its safety properties are
theorems for any number of faults.  Three AP connections (with one fault, or two connections with two) allow a slot change and
back, or a change to a slot of the same name and on to a third; three
connections of one id allow a replacement during a replacement while a third waits
for promotion.  Two of the runs' constants are real program parameters set to small
values (`RingCap`, 3 and 255 in the code; `Chunk`, 3 in the code); all other bounds
are marked `bound:` in the CONSTANTS.  `CHECK_DEADLOCK FALSE` is set because a
bounded history ends: every event has happened and everything has settled.

*The parts of `console`*: two kingdoms and three moons whose needs cross kingdoms, a
window of one (3 in the code), two pushers; five subareas, one excluded, one without a
stage, one without an exit, chunks of three; two sibling kingdoms, spread one (5 in the code), two moons in
each; tables of two words, two attempts (8 and 3 in the code), two writes; a bubble queue
of one (8 in the code) and one outside event; two deaths, two kills and one break; two
shines and two slots; three moons' cutscenes and one break; two frames and two tints;
three coins and two reboots, loads or slot changes; three lines up or two down, cut anywhere
into units of a third of the limit, and one lost connection.  Pushers are symmetric.
*The parts of `setup`*: three releases, one of them bundling nothing, two builds, two
updates; a good, a damaged and a foreign dump, two extractions, one cancelled; four
clicks, one failing operation; four workers, two attempts (5 in the code);
the real item pool with four sets of moon counts at their least and transfers of one or
five moons between any two gates; the nine regions up to Metro, four of the shuffled subareas
(one behind moon rocks, one with an extra gate, one with a subarea gate, one whose moons
wait for each other), the locations these wait for but not what those of the overworld wait
for themselves, one of each of twelve items, Cascade's gate rolled to one Multi-Moon and
one Power Moon, four sets of options, each door its own or all of them round by one; two addresses, one of them in the subnet the Switch
sweeps, three sockets (an attempt and half of the next), three starts or moves.  The smallest bound in each part lets the part's hazard
happen once while it recovers from, or overlaps, another operation; the mutants show
that each property can fail within it.

*Fairness* is assumed in `MoonLedger.FairSpec` only.  Weak fairness of each handler of
the bridge: the event loop serves every source.  Weak fairness of the worker's loop
as a whole, and strong fairness of `Connect`, `HandleLine` and `Disconnect`, which the
loop reaches again and again without being enabled throughout: a listening bridge is
found by some probe, and what `poll` reports is handled.  Weak fairness of the tail of
a load, of the scene starting and of the first Cappy balloon: the game finishes what
it began.  The last is an assumption, since a balloon refused for long is
dropped (`CappyMessenger.cpp:229`).  Nothing is assumed of the player, the network or
the AP server.

No fairness is assumed anywhere else.  `SnapshotCurrent` says instead what must hold in a
state in which nothing is left that goes on by itself (`AtRest`, an ENABLED of all such
steps): that state is reached under the fairness of the game's frames and the worker's
loop, but the model of the session is too large for TLC's liveness checking.

Every property of a passing run has a mutant in `PROJECT.json`: a change of one mapped
definition, as a bug would make it, under which the run fails.  The mutants stand next
to the definitions they change, marked `Mutant` or described as what they get wrong.

### Exceptions inside the properties

They are part of the result: each is a way in which the code falls short of the
unconditional statement.

* `QuiescentExact`: `dirty`, a reading dropped by a full ring, queued across a load or
  overtaken on a replaced connection, until the next complete snapshot.
* `MirrorExact`, `BonusExact`: `raced`, `overlapped`, `slotChanged`, a package handled
  while the task of another was suspended by a stalled link; `mistaken`, a slot of the
  same name on another server, for which the old mirror is kept and whose history is then
  skipped by position: the reset compares names (`context.py:907`), where its comment (889)
  and the docstring of `clear_received` (`state.py:182`) promise it for another server too;
  and `clear_received` keeps the capture counts and abilities of the slot before
  (`state.py:195`), against that docstring.
* `SwitchInSync`: a HELLO that takes over a registered connection is answered by no replay,
  and one that comes when the list of checked locations has outgrown a line by none that
  goes on (`mirror_oversized`).
* `SlotBound`, `ShownIsActive`, `ReplayedOnceActive`: `refused`, a connection of another
  version that replaced a registered one leaves `_active_device_id` naming nobody;
  `takeovers` and `cut`, a take-over and a failed kick send no replay; `unsent`, a replay
  that raised because the list of checked locations did not fit a line, on a
  connection that stays registered and active.
* `Reconciled`: `missing`, a check dropped by a full ring, or a snapshot rejected, since
  the last snapshot; `overtaken`, an older snapshot gated after a newer one.
* `LiveChecksDelivered`: a capture buffered before AP is ready, which the drain drops.

* `LookupsAreAtomic`: `doubt`, a word that overtook a mark, which the missing fences
  allow on ARM; `lookupShopLabel` returns a pointer its caller reads after the bracket.
  `abilityCount`'s last, contended answer may be too high, where the comment at
  `ApState.cpp:353` says it can only be low.
* `CoinsOnce`: `regranted`, after a reboot `coins_applied` is 0 and the whole total is added
  to a save that has it (`ApState.cpp:247`; `switch_server.py:618` calls the grant
  idempotent); a load takes coins back without the mark; `rejoined`, a slot with a lower
  total is granted nothing until it exceeds the old mark; without the `addCoin` symbol
  the mark moves and no coins do.
* `SnapshotCurrent`: `early`, a bubble left over from the old scene opens the gate before
  the save is read, and that snapshot is not sent again on that connection; `shed`, a
  bubble dropped after too many refusals leaves the gate shut until the next one.
* `StatusHonest`: `excused`, a change that falls into the silence after a re-HELLO (1500
  to 3000 ms after a load) is never announced; "Connected" may be announced from the
  state of the connection before.
* `DeathsHonest` holds of the echo only because of the source name: `report_death` sends its
  own Bounce and never sets `last_death_link`, so that the filter of CommonContext
  that the docstring at `context.py:472` names does not apply.  `hp` may be `stale`: the
  cached pointer is taken at a death and outlives the stage (`ApState.cpp:509`).
* `PoolsCurrent`, `NeverStuck`: `crossed`, overlapping pushes may leave older windows;
  `leaked`, a clear sent while no Switch is linked, or a bridge restart, leaves a
  finished kingdom's window for good.
* `RoundTrip`: `Pipeless`, an interior without an exit row is a one-way warp when its
  door leads elsewhere, which is the case of the six boss re-fights and contradicts
  `is_round_trippable` (`entrance_logic.py:370`); `mixed`, overlapping pushes of two maps.
* `GateHonest`: `hasty`, out before the deposit's reading has come back, since the
  balance is not lowered at the deposit and counts twice meanwhile
  (`KingdomOrderGate.cpp:139` calls it harmless).
* `TablesCurrent`: colours of moons the new slot lacks stay on the Switch; `tangled`, a push
  of the old slot that runs on repaints.
* `LabelOwn`: `tardy`, a label that comes after its cutscene is shown in a later one, since
  its number is not compared (`protocol.py:718` says it is what tells); `clashed`, both writers at
  once, or a check answered across a reboot.
* `PaintHolds`: a model without the body material, which nothing recolours after it was
  made (`ShineAppearanceHook.cpp:679`); `soiled`, a moon with a frame of its own that was tinted before does not
  heal, contrary to `ShineAppearanceHook.cpp:355`.
* `TreeTrusted`: `replaced`, the apworld is replaced between its stat and its opening;
  `reverted`, an older apworld comes back after an interrupted wipe.
* `SuccessSticks`, `WatermarkFresh`: `orphaned`, an extractor whose parent was ended runs
  on; `unread`, the watermark moves although a table could not be read.
* `PrereqsCurrent`: `unseen`, a check asked for while one runs is not made, so what an
  installation changed meanwhile is not seen; nor is the removal of the toolchain by the
  worker of an earlier visit to the build page, which leaves OK rows and an enabled Next
  without a compiler (`wizard.py:1598`) until the page is entered again.  A truncated
  `clang.exe` counts as installed for `install_llvm19`, though the detector rejects it.
* `PagesHonest`: `overlapped`, a page entered while its last worker runs; `died`, an
  exception in the worker leaves Next and Retry disabled.
* `PipelineHonest`: with `--deploy-target none`, the default, the deploy phase succeeds
  once there is a whole mod, and nothing is copied (`wizard_cli.py:663`).
* `NoEarlyArrival`, `GatesSurvive`: `no_logic` drops every rule.  `Toll`: with
  `start_at_cap_peace` Cap is free from the start.  A moon of the shuffle's own region pays
  for the way to the door it is behind, not for its own kingdom.  "Some member" in the last
  part of `GatesSurvive`: a door opens at the scenario of the first of its own moons.
* `LinesExact`: kinds the Switch does not know, and bodies of exactly 8 KiB, are not due; a
  `checked_replay` may lose rows beyond the 128 the Switch has room for.
* `AnswerMeansListening`: a bridge that stops, or a machine that moves, during the attempt;
  a machine that moved since the responder started, which goes on to advertise the
  address it read then (`discovery.py:98`).
* `PoolFillable`: `Unbalanced`.  Under the festival goal with `multi_moon_shuffle` (on by
  default) 14 Multi-Moon locations remain for 7 Multi-Moons: `FESTIVAL_REGIONS_TO_EMPTY`
  (`__init__.py:168`) has neither Mushroom Kingdom nor Dark Side, though
  `hooks/World.py:640` and `tests/test_multi_moon_shuffle.py:41` say those locations are
  gone.  With every moon count at its least no Multi-Moon is left to demote, so
  "Cascade: Multi Moon Atop the Falls" can hold none, though `hooks/World.py:811` says that
  several always are.  In both cases TLC finds no complete matching in any state.
  Beside this: demotion comes after `adjust_filler_items`, so it does not help to trim
  the pool, as comments in `hooks/World.py` have it; with toggles off more items than
  locations remain, and Archipelago is left with the rest.

### Findings

1. `ledger_drift`: the claim that outstanding cannot drift from `PayShineNum`
   (`context.py:513`) fails when a late line of a replaced connection is handled.
2. `mirror_oversized`: a HELLO is not always answered by the full history, as the docstring
   of `switch_server.py` has it: once the list of checked locations does not fit a line, the
   replay ends before its first item (`switch_server.py:1194`).
3. `mirror_reapply`: bonus captures are not replayed at a HELLO (`switch_server.py:1198`).
4. `registry_replay`: a same-id reconnect becomes active without a replay
   (`switch_server.py:1043`).
5. `checks_goal`: a goal reported while the AP server is away is never sent
   (`context.py:1725`).
6. `logic_extra`: with `entrance_shuffle`, "Sand: Employees Only" no longer requires Crouch,
   which `docs/capture-requirement-notes.md:12` says it does: the pass that replaces its rule
   by the moves inside (`hooks/World.py:1085`) drops the extra gate, and none restores it.

## 4. What is proved

The eight proof modules prove about the modules TLC runs, for every value of the constants
the named assumptions admit.  The bounds appear only as guards, so the proofs cover
histories of any length.  All but three of the invariants the passing runs check are
theorems, and so are all their action and temporal properties (`SamePeerTakeover`,
`SuccessSticks`, `DeployedFromTree`, the refinement `LookupsAreAtomic`) but the one that
needs fairness; the exceptions are named at the end of this section.

*Assumptions.*  Every module declares one: sets have the shape the names say, rings, chunks
and windows have at least one entry, bounds are naturals, and a value that stands for
"none" is none of the others.  These say more, and hold of the program for this reason:

| assumption | what it asks | why the program meets it |
|---|---|---|
| `LedgerAssumption` | the kingdoms a festival zeroes are kingdoms | `_FESTIVAL_ZEROED_KINGDOMS` (`context.py:62`) is a table of kingdom names |
| `DeliveryAssumption` | moons and captures have different names; the goal is a moon | location names are unique in `locations.json` |
| `MirrorAssumption` | captures, abilities and the Multi-Moon are different items; the bonus picks are captures | item names are unique in `items.json`; `mm_bonus_captures` is a sample of captures (`World.py:631`) |
| `BundledTreeAssumption` | what a release bundles are subtrees out of a fixed set | it is cut into scripts, mod sources and the rest |
| `ScoutTablesAssumption` | each slot has locations on shines | a slot of this game always has moons |
| `DetourAssumption` | the places "exit" and "away" are not kingdoms; no vanilla gate is 0 | so are the gates of `World.py`; the places are the model's names |
| `LineProtocolAssumption` | the limit is three units or more, where every message but a `checked_replay` has one or two | the others are cut to tables of at most 200 short rows (`switch_server.py`), well below 8 KiB |
| `BridgeDiscoveryAssumption` | 127.0.0.1 is not an address of an interface; the subnet's are | `detect_lan_ip` (`net_util.py:23`) falls back to it only without one |
| `EntrancesAssumption` | finitely many subareas, numbered | they are the rows of `subareas.json` |
| `AccessAssumption` | no location is in two subareas; `Way` of a region is that of any neighbour and itself; nothing lies beyond Cap | so are `subareas.json` and `regions.json`, a tree from Cascade in which Cap is a leaf |
| `OptionsAssumption` | a roll gives each pooled door another interior of the pool | the roll is a shuffle (`entrance_logic.py`) |
| `TalkatooAssumption` | finitely many pool moons, each of one kingdom | the pool is a slice of `locations.json` |

**`MoonLedger_proofs`**: `TypeCorrect`, `SettledBalance` (QuiescentExact),
`NoInventedCredit`, from `Invariance`.  QuiescentExact is not inductive: it speaks of
a moment at which every queue is empty.  `IndInv` follows the newest reading on its
way there.  `WireInv`: a HELLO is first on each connection and only readings follow
it, so a registered connection has its HELLO behind it.  `GateInv`: the gate is shut
from a load to the new scene, so no snapshot of the old save follows.  `FreshInv`: the
last reading in the ring, else the last on the wire, else the bridge's, is
`PayShineNum`.  `BalanceInv`: the last balance on its way down, else the one shown, is
what the bridge's inputs give.  `CreditInv`: no balance, shown or under way, exceeds
what was granted.  There is one lemma per part (`WireStep`, `GateStep`, `FreshStep`,
`BalanceStep`, `CreditStep`), with a step per action.

**`ItemMirror_proofs`**: `MirrorTypeCorrect`, `MirrorIsExact` (MirrorExact),
`BonusIsExact` (BonusExact), `SwitchComesInSync` (SwitchInSync), from `MirrorInvariance`.
All three speak of a client with no task under way, so the invariant says what the tasks
still owe.  `SessionInv`: the packages in the socket are those of one login, each beginning
where the one before it ended, and what each task looks like at each of its awaits.
`MirrorInv`: until a task met a login, or the mirror was kept for another server's slot, there is a length d of the slot's history such that
`received_items` counts each item as often as it stands in the first d positions, less
the positions the tasks under way have `Left`; these are disjoint from task to task
(`Apart`), and the next package goes on from d or starts over (`GoesOn`).  `BonusInv`:
while tasks did not overlap, the counts are those of the items and of the picks of each
Multi-Moon but the one whose bonus is still `Owed`.  `SyncInv`: if the HELLO's replay was sent,
each capture is unlocked or on the wire, and the last table on the wire, else the one in the game, is the
client's.  Counting is done by cardinalities of sets of positions (`Counted`, `OneMore`,
`CountFacts`, `SliceCount`).

**`SwitchRegistry_proofs`**: `RegistryTypeCorrect`, `NoSwitchLost`, `SlotStaysBound`,
`ShownAgrees`, `ActiveWasReplayed`, `TakeoverKeepsPeer`, from `RegistryInvariance`.  The
strengthening says what a handler's place implies (`HandlerInv`), that what is
registered under an id has that id and a handler that is not over (`RegInv`), that
the active id is registered when nothing was refused (`SlotInv`), and that an owed
replay is still on some coroutine's way, unless one raised (`OwedInv`).

**`CheckDelivery_proofs`**: `DeliveryTypeCorrect`, `OnlyConsentedCredit`
(NoUnconsentedCredit), `LiveChecksArrive` (LiveChecksDelivered), `SaveIsReconciled`
(Reconciled), from `DeliveryInvariance`.  `ConsentInv` carries consent through every place a
check passes: ring, lines of the present and of the old connection, buffers, record.
`DeliveryInv` says where a live check that was read is until the server has it.
`SnapshotInv` is what Reconciled rests on: unless the Switch is yet to send a
snapshot (`SnapshotDue`), each moon of the save in memory is missing from the slot, on the
live path (`OnTheWay`), or in the newest snapshot of the connection, on the wire,
buffered or held (`InSnapshot`).  It needs `ConnInv`: a connection carries one snapshot at
most, and a save being loaded waits for one of its own.

**`SeqTable_proofs`**: `SeqTypeCorrect`, and `SeqImplementsAtomic`: the seqlock implements
`AtomicTable`, for any words, values, attempts and number of writes.  `SeqInv` says what
the parity of the number tells of the words (`WriterInv`), that a lookup remembers the
table it began with (`ReaderInv`), that while the first number stands what was copied
is the last table's and nothing else can have changed (`CopiedInv`), and that after a
second, equal load what was copied is of one table that was current meanwhile
(`ClosingInv`).  Each step then maps to a Publish, an Ask, a Reply or a stutter.

**`DeathLink_proofs`**: `DeathTypeCorrect`, `DeathsAreHonest` from `DeathInvariance`: the queue
accounts for every death (`CountInv`), a dying Mario died within the debounce
(`KillInv`), and no line to the Switch carries one's own death (`EchoInv`).

**`Console_proofs`**: the parts of the `console` run, each about the specification of its
own module.

* `CoinsGrantedOnce` (CoinsOnce).  `CoinInv` bounds every total under way and the mark by
  the most that was ever due, ties what was given to the mark, and says that the
  newest total under way, else the one offered, is what is due.
* `SwitchTablesAreCurrent` (TablesCurrent).  What is not on the Switch is on its way: the
  cache has what the slot holds but for the scouts not yet answered (`CacheFilled`); the
  labels are those of the cache, unless a batch has yet to derive them (`ShopFollows`);
  every tint of the cache is on the Switch or with a painter, and none is of another
  slot (`TintsFollow`, `PaletteFollows`).  Nothing is asked for before the first Connected or
  while its handler runs (`ScoutOrder`).
* `CutscenesShowTheirLabel` (LabelOwn).  Until both threads wrote at once or a
  number was used again (`clashed`): the
  numbers under way are all different and none of them is published (`LabelLines`), what
  the worker has written is the label it is about to publish (`LabelText`), and what the
  pane shows, or would take, is of this cutscene or a tardy one (`LabelShown`, `LabelInTime`).
* `MoonsKeepTheirColour` (PaintHolds).  `PaintInv`: a moon that was not soiled has no tint
  but its own, and nothing was ever written to a part it lacks (`Looks`).
* `DetourIsHonest` (GateHonest).  On a connection that owes nothing, gates not being stored
  are the rolled ones (`GatesStored`), and the last reading is what was paid and the
  balance what it leaves of the moons received (`BalanceSent`); who stands at the exit has
  earned it (`OutEarned`).
* `PlayerIsToldTheTruth` (StatusHonest).  `ToldOrOwed`: the last status in the bubble
  queue, else the last one shown, is what the worker heard last, or an announcement is
  due; `LinesTell`: that is what the PC said last, or a line that says so is on its way.  The lemmas `Enqueued` and `HeadLeaves` say
  what the full queue keeps.
* `SnapshotIsOfThisSave` (`SnapshotOwn`, the part of SnapshotCurrent that speaks of every state).
  `LatchLive` and `SendLive`: the dispatch latch, and a snapshot being sent, are of the
  save in memory; `SentOrOwed`: a connection that owes neither has brought its snapshot.
* `DoorsLeadBack` (RoundTrip).  `ParcelsOwn` and `TableWhole`: every row of the map is in the
  table or in a chunk yet to be sent, and rows of another map only until a reset that is
  still to come; `InsideMapped`: who is inside came by the map.  The lemmas before it show
  that the chunks cover the rows and that no two rows have one key.
* `TalkatooHasTheWindows` (PoolsCurrent).  A push alone has the windows of the slot
  (`PushesApart`, `PayloadCurrent`), `shipped` knows each window on the Switch
  (`ShippedKnows`), and a window not there is to come (`PoolsFollow`).
* `LinesComeInOrder` (LinesExact), from two invariants.  `LineInv`: every unit in the stream
  and in the buffer is of a line this connection wrote, and everything taken or kept is of one
  of its lines, with all its rows and, of an item, every field that is read.  This rests on
  facts about all the messages there are: `DownFacts` (only a `checked_replay` exceeds its
  table), `DownReads` (whatever type the Switch knows, it knows all fields the bridge writes),
  `ItemsWhole` (whatever is read of an item is sent with it, so no older item shows through),
  `UpFacts` (the Switch writes every field a handler waits for).  `OrderInv`: each unit on the
  wire lies in its whole line (`InLine`), a newline ends a whole line, or stands alone at the
  front because the reader gave the line up (`EndsLine`); what was taken is ascending, was due
  and is before all that is on the wire, and a line that is due was taken or is on the wire
  (`Order`).  Saying of every unit where its line lies, and not of the wire that it is a
  concatenation, is what makes this inductive without an induction over it.
* `TalkatooNeverLocksOut` (NeverStuck), for any needs and pool: the first moon of the seed's
  order that is not checked has all its needs checked, and it is the first open one of
  its kingdom, so it is in a window.  `PartOrdered` is the lemma about kingdoms' parts of a
  sequence.

**`Setup_proofs`**: for `BundledTree`, `TreeIsTrustworthy` (TreeTrusted) and the action
property `DeployIsWhole` (DeployedFromTree) from `TreeInvariance`: what an unpacking has
taken so far is of one release (`UnpackInv`), a marker that names the installed apworld
stands in a whole tree of it (`TrustInv`), artifacts that exist are of one build
(`OutputInv`).  For `MapExtraction`, `WatermarkIsFresh` and `SuccessIsFinal` (the action
property SuccessSticks) from `MapInvariance`: who can be writing (`WriterInv`), that a
touch follows canonical tables (`MapGateInv`), and what the client has read since the
touch it noted (`ClientInv`).  For `Toolchain`, `PrereqsAreCurrent` from `ToolInvariance`: each
detector's finding agrees with the disk unless something changed behind the check, be it by the worker of a build
(`CheckInv`), and the installers left find what they need (`QueueInv`).  For `SetupWizard`,
`PagesAreHonest` and `PipelineIsHonest` from `WizInvariance`: one worker at a time on a
page that was not entered too early, whose buttons wait for it (`ButtonInv`, `WayOnInv`),
and what the phases behind the pipeline have made (`PipelineInv`).  For `BridgeDiscovery`,
`DiscTypeCorrect` and `AnswersAreOfAServer` (AnswerMeansListening) from `DiscInvariance`: no
datagram is of a socket yet to be opened (`DiscDataOK`), the responder is there only
while the server is (`ResponderInv`), and an answer the Switch would take has the address at which
the server listens now (`AnswersInv`).
For `AccessLogic`, `NoEarlyArrivalHolds` and `GatesSurviveHolds` from `AccessInvHolds`, for any
regions, subareas, records, gates, rolls and options.  Neither is inductive: they speak of
what is open now, and the rules asked for it when it was found.  `AccessInv` keeps how each
thing was reached: whatever region, one after the other (`OnFoot`), whatever interior, by a
door whose rule is met (`ByDoor`), whatever location, by its own rule (`ByRule`), with the
rules the passes made (`RulesMade`); `MetStays` shows that what is met stays met, since items
and places only come in.  What the rules then ask for is read off with the lemmas on
requirements: `AndMeansAll`, `OrMeansAny`, `MoonMeansAMethod`.  Two theorems about the
operators stand on their own: `InteriorNotLooser`, that whoever meets the client's
compilation of any record meets the script's, and `LeaveByCount`, that the list of mixes
`KingdomMoons` writes is met by exactly those with the moons, a Multi-Moon worth three.

*Only model-checked*:

* `EventuallyExact`: liveness under fairness is beyond the prover.
* `SnapshotCurrent` as a whole: its second part is about states in which no step that
  goes on by itself is ENABLED.  Its first part is `SnapshotOwn`, proved.
* `PoolFillable`: a statement about the numbers of `items.json`, true of them and not of any
  numbers.  `NothingLocked`: likewise about the records and gates of the data; with others a
  rule may wait for itself.

Of the type invariants only that of `ledger` is checked by a run.  Those of the mirror, the
registry, the check delivery, the seqlock, DeathLink, discovery and the access logic are
theorems (`MirrorTypeCorrect`, `RegistryTypeCorrect`, `DeliveryTypeCorrect`, `SeqTypeCorrect`,
`DeathTypeCorrect`, `DiscTypeCorrect`, `AccessTypesHold`); of the other parts, what the proofs
need is conjoined to the inductive invariants.

Nothing above is proved by induction over data.  Where a sequence is built by one, the
module says what results, by ranks (`Talkatoo.Part`, in place of a selection that
recurses) or by an order on a set (`SetupWizard.PhaseOrder`, `Toolchain.InstallOrder`,
where the code walks a list), and the proofs use least elements and cardinalities.

## 5. Not modelled

* Payloads and wording: JSON, names, text of labels, logs.
* Clocks as numbers: where a deadline matters (`SaveSession`, `DeathLink`, `ShinePaint`) it
  is armed and falls due; backoff and keepalive are left out.
* Two snapshots mixed in the shared accumulator (`state.py:102`), several slots in
  `CheckDelivery`, a full inbound ring (`ApClient.cpp:902`).
* Calls of `InitializeData` within the 500 ms of its debounce are taken to be of one save,
  and Mario to be up again within 15 s of a death: both are assumptions about the game.
* Talkatoo without an order, its progression exemption, moons outside the table.
* Two workers of the wizard on the bundled tree at once; `verify_hash` off; the RomFS
  cache's test of one file (`extract_shine_map.py:813`) only as far as `RomFiles` shows it.
* Of world generation: Archipelago's fill; the item rules are in `ItemPool`, the access rules in
  `AccessLogic`, and no model has both.  The passes that add scenario gates to doors and
  interiors are there; the scenario of a kingdom's own moons is part of their requirement.
  The roll of the Multi-Moon bonuses.
* The rows of the hooks that only call into the game (abilities, moon rocks, capture start,
  rescue, scenario overrides), the values of messages, their escapes and the cutting of texts to
  fixed fields, the compilers of data tables under
  `scripts/`, the PopTracker pack: external code, tables or plain I/O.

## 6. Plan

1. *Written*: all modules of section 2, in the order of what a player loses when they go
   wrong, then by the share of the code.
2. *Proved*: section 4, all properties of the passing runs but those named there.
3. *Next*: `CheckDelivery` refined: snapshots as begin, chunks and end through the shared
   accumulator, and an abstract ledger of credits that it implements.
4. `ItemPool`: a lemma that what stays progression opens each gate, for any capacities.
5. The client's commands (`context.py`).
