# Verification of the MapleStory game server

The repository is a private MapleStory server: about 71000 lines of Java (login, channels, maps,
trade, shops, parties, guilds, events) and 71000 lines of JavaScript content. This directory holds
TLA+ models of its protocols, the TLC runs that check them on small instances and proofs, checked
by TLAPS, that hold for every instance. Paths below are relative to the Java tree (`src/`).

## How the server runs

* **Sessions.** MINA's `NioSocketAcceptor` without an executor filter: the packets of one session
  are handled one after the other on the I/O processor that serves it, different sessions run
  concurrently when different processors serve them. `MapleServerHandler.messageReceived` catches
  what a handler throws, so a handler that fails half way leaves what it has done.
* **Timers.** `TimerManager` is a pool of four threads: drop expiry, reactors, respawn, event
  callbacks, idle tasks. They run beside the sessions.
* **Database.** Each thread writes with auto-commit; several statements of one operation are not
  one transaction.
* Shared objects (maps, drops, trades, parties, shops) are plain Java objects. Some have a lock, a
  monitor or two locks that exclude nothing between them, some have none.

## Inventory

| component | state | operations | with whom | what makes it correct |
|---|---|---|---|---|
| Trade window `server/MapleTrade` | partner, chr, items, meso, locked; `MapleCharacter.trade` | start, invite, decline, exit, setMeso, addItem, confirm, disconnect | two characters, inventories, purses | partners refer to each other; items are not duplicated, and lost only where `addFromDrop` refuses them; both sides settled; the second confirm ends it |
| Drops `server/maps/MapleMapItem`, `ItemPickupHandler`, `PetLootHandler` | pickedUp, monitor, itemLock; `mapobjects`; reactor's timerActive | drop, loot by hand or pet, explode, expire, feed a reactor, clear the map | sessions, timer threads, reactors | given once; leaves the map in the end; a reactor gets its offering |
| Map objects `server/maps/MapleMap` | mapobjects, runningOid, their locks | addMapObject, spawnAndAddRangedMapObject, removeMapObject, addPlayer, removePlayer | everything on a map | an id finds its object |
| Party `net/server/world` | members, leader; copies in each character | create, join, leave, expel, disband, change leader, log on and off | sessions through `World` | at most six; leader is a member; each member's copy agrees |
| Messenger `net/server/world/MapleMessenger` | members, positions | create, join, leave, invite | sessions through `World` | at most three; positions differ |
| Session and login `client/MapleClient` | `accounts.loggedin`, loggedIn, serverTransition, disconnecting, player storages | login, select character, enter channel, change channel, cash shop, disconnect | database, channels, idle task | one session plays an account; every session ends logged out |
| Hired merchant `server/maps/HiredMerchant`, player shop `server/MaplePlayerShop` | items with bundles, sold, visitors, open | buy, put, take back, ban, close, expire | buyers' and owner's sessions, database | bundles never negative; stock + sold constant; paid once |
| Guild, alliance `net/server/guild` | members and ranks, capacity, notification lists with a dirty flag | join, leave, expel, ranks, online, broadcast, disband | sessions, database | lists agree with members; capacity |
| Event instances `scripting/event` | players, monsters, kill counts, em | register, kill, disconnect, schedule, dispose | scripts, timers, maps | a script is told of the last monster once; nothing runs after dispose |
| Buddy list, squads, expeditions, mini games, carnival, pyramid | small lists and counters | requests, moves | sessions | capacities, turn order |
| Inventory, storage `MapleInventoryManipulator`, `MapleStorage` | slots, stacks, quantities | addById, addFromDrop, move, equip, drop, store, take out | everything | quantities conserved, slots within limits |
| Scheduled transport `scripts/event/Boats.js`, `Trains.js`, `Cabin.js`, `Subway.js`, `AirPlane.js`, `elevator.js`, `scripting/event/EventManager` | properties `docked`, `entry`, `haveBalrog`; scheduled calls; who is on which map | init, scheduleNew, stopEntry, takeoff, arrived; ticket readers, sellers, doors between decks | timer threads, travellers' sessions, maps | nobody is left waiting or aboard; the service goes on |
| Kerning party quest `scripts/event/KerningPQ.js`, `npc/.../9020000-2.js`, `portal/kpq*.js`, `scripting/event/EventInstanceManager` | `KPQOpen`; instances with their characters and cleared stages; the parties | start and registration, stages, portals, prize, exits, time out, disconnect | party operations, sessions, timers | stages in order; one party at a time; everybody gets out |
| NPC conversations `scripting/npc`, `scripts/npc/world0`, `world1` | `cms`, `scripts`; the variables of the script's engine; inventory and purse | start, answer, dispose | the player's other packets, `AbstractPlayerInteraction` | what is given was paid for; refusals change nothing; there is always a way out |
| Monsters, quests, skills, other scripts, cash shop, MTS, Duey, codec, data files, GM server | - | - | - | content, arithmetic on game data, SQL, encoding: not modelled |

The hard behaviours are those of `PROJECT.json` "hazards", each at its line: sequences of
invitations and cancels nobody tried, sessions and timers that race for a drop, two locks for one
flag, an id counter without a lock, int sums that wrap, results that are ignored, copies of a party
that have become stale, loops over a set that they change, a question asked on one page and acted upon on
the next, a login that times out while the channel connects.

## Modules

| module | what it is |
|---|---|
| `Trade` | the trade window, one action per operation |
| `Barter` | abstract specification: what a trade promises about items |
| `TradeRefinesBarter` | the refinement mapping from `Trade` to `Barter` |
| `MCTrade` | instances of `Trade` for TLC |
| `Trade_proofs` | types, partners, items and confirms for every instance |
| `TradeSteps_proofs` | the refinement of `Barter` and the action properties, for every instance; sums over finite sets, and that no step makes mesos |
| `Loot`, `MCLoot`, `Loot_proofs` | drops on a map and the threads that take them |
| `MapObjects`, `MCMapObjects`, `MapObjects_proofs` | the object table of a map and its id counter |
| `Routes` | what the functions of the transport scripts do, as programs |
| `Voyage`, `MCVoyage`, `Voyage_proofs` | the timer thread that runs them, and the travellers |
| `VoyageRides_proofs` | the service goes on, and fetches who waits or is aboard |
| `PartyQuest`, `MCPartyQuest`, `PartyQuest_proofs` | the Kerning party quest with the party that plays it |
| `Conversation` | windows, the effects a script may have, and how they are carried out |
| `Salons`, `Smiths`, `Gachapons`, `Journeys`, `Passages`, `Instructors`, `Vendors` | the conversations of world 0, by kind |
| `World1`, `World1Talks` | those of world 1 |
| `Npc`, `MCNpc` | one player and one NPC: start, answers, and the bag changing meanwhile |
| `Npc_proofs` | what a script gives was paid for, for every script and every bag |

### Trade

A `MapleTrade` is a Java object that lives while something refers to it; `Objs` are identities,
`chr`, `partner`, `items`, `meso`, `locked` its fields, `trade` the field of the character. A new
trade takes an identity that no current trade is and no current trade has as partner (`Fresh`);
with twice as many objects as needed nothing is ever short. `exchangeItems` and `exchangeMeso` are
copies that live only within one call of `completeTrade`, so they are no variables. An item is a
stack that fills a slot of its owner's bag, the inventory tab in question, unless he wears it; that stacks of
one item merge is abstracted. `addFromDrop` refuses a stack when no slot is free, and a stack of a kind of which the
player has one already, in the bag or worn (`Restricted`, `Double`: info/only in the item data). Its result is ignored, so what it refuses is
gone (`Stored`); `fitsInInventory` asks for slots only (`Fits`). How a player comes to hold a second stack of such a
kind, or to wear one, matters for that: a pickup refuses doubles (`PickUp`), `addById` does not (`Receive`),
and `Equip` and `Unequip` move stacks between bag and body. `Fee`, `Wrap` and `Credit` model the int arithmetic with an arbitrary largest value `MaxInt`.

One handler is one action. That is exact when both sessions are served by one I/O processor; with
two processors completeTrade and cancelTrade, which lock nothing, interleave. That finer model is
planned (see Hazards, `MapleTrade.java:232`). `InWindow`, `Alone` and `Paired` are the discipline of
the game client, which shows a confirm button only when a partner sits in the window and invites
only from an empty one; they are external. Without it the server dereferences null (a confirm
without a partner, `lock()`), which the handler's caller catches.

A player who leaves (disconnect, change of channel) has the trade cancelled by `removePlayer` and
the character object goes away; `mesosTraded` is in no table, so it starts at 0 when he returns.

### Barter

Players own goods, put some on a table, meet, agree, and swap all or part with their own. `own` is
mapped to the inventory plus what was taken into the trade (`Owned`), `offer` to the items in it
(`Tabled`), `with` to the character of the partner (`Dealing`), `agreed` to `locked` (`Agreed`). A swap
or a cancel may spill part of what was on the table: the stacks `addFromDrop` refuses. That every step of
`Trade` is a step of `Barter` says that items change hands only in a swap after both have
confirmed, in which each side gets what the other offered or it is spilled, whatever invitations,
declines and disconnects came before. What a swap may spill is said by `LostOnlyFullOrDouble`: doubles of a restricted kind.

### Loot

Each session is a small program counter `at` with the drop it is `on` and the way it goes for it
(`by` hand, pet or blast); each drop has three possible timer jobs. A step is one access to what
other threads see: the lookup in `mapobjects`, entering the monitor with the test of `pickedUp`
(the test and the entry are one step because only the pet without magnet, inside the monitor,
clears the flag), giving, marking, removing. Jobs take `itemLock`, sessions the monitor: the two do
not exclude each other, as in the code. Kinds stand for the branches of the handlers: `meso`;
`use` (consumed on pickup); `script` (243xxxx); `jewel` (4031868); `pet` (50000xx); `item`;
`offering` (what an item reactor of the map waits for). `gains` and `cleared` are history.

Left out: the Happyville maps (`ItemPickupHandler.java:61-84`), whose pickup takes no monitor, and
maps whose drops last for ever (`everlast`), where `EventuallyGone` is not meant to hold. An object id
stands for its drop: that lookups find the right object is what `MapObjects` is about.

`Loot` shows two more outcomes that no text in the repository forbids, so no property states them:
a drop that was fed to a reactor can also be looted by a session that waits for its monitor
(`MapleMap.java:2027` removes without marking), and a reactor whose offering was gone keeps
`timerActive` (`MapleMap.java:2014-2022`) and takes no other.

### MapObjects

Threads put objects into the table through `addMapObject` (under the write lock) or
`spawnAndAddRangedMapObject` (id read under the shared lock of the characters, key read again under
the write lock, counter incremented under none), one step per access to `runningOid`. Characters
enter and leave through `addPlayer` and `removePlayer` under the id they have in the database (`CharId`;
`setObjectId` of a character does nothing), whatever is in the table there. Three things put an entry under
the wrong id or over another: two threads that hand out ids at once, an id found in use ("Out of OIDs", thrown after the
object was entered), and a character who takes the id of an object or the next one.
`contested` is history: the ids over which one of these has happened. `FoundById` is not suspended by
them; it says that they do no damage to any other id.

### Voyage

A service is a record of `Lines`: the `code` of its script, one sequence of steps per function (`put`
a property, `carry` a map's characters to another, `arm` a function; `perhaps` is the Balrog's die),
the `stops`, the `doors` between decks and cabins, and Bell's `exits`. `Routes` holds the six: boat,
train, genie ("Cabin"), plane, subway and elevator. The timer thread executes one step at a time (`job`, `pc`), and
`due` holds the delays of scheduled functions in tens of seconds; time passes only when no function
is running (`Fire`), which is exact because a function's run is short beside the delays.

`MapleMap.getCharacters` returns a view of the map's `LinkedHashSet`, and `changeMap` removes from the
set it views. So `Carry` is a loop of three kinds of step (`hasNext`, `next`, `changeMap`) over an
iterator that becomes `stale` when anybody enters or leaves that map, and whose next access
then throws. The exception ends the function before the calls of `schedule` that follow: `broken`.
`order` is the insertion order that decides who comes next. With one traveller on a map `hasNext` is
false after the first, and nothing throws.

Conversations with readers (who look at the gate when they ask, not when they are answered),
sellers and Bell have a page before the action (`talk`). A traveller disconnects at any time and comes
back on the return map. `late` and `slipped` are history, so that the properties can name the two
ways to be left behind that the code has.

### PartyQuest

A step is one callback or one click, with two exceptions, where other sessions get in between. The
leader's talk with Lakelis tests the party and the door, then registers the members one by one, then
shuts the door (`start`). `registerParty` walks over the list of the party itself: when somebody joins or leaves
meanwhile the iterator throws; a member who is absent is a null in the list and a dereference of
it; an instance that has been disposed has lost its manager. Each of these leaves the door open
(`mishap`), with the members registered so far inside. Portals, and the prize, read the
player's instance, and move him afterwards (`via`).

Two of Cloto's pages wait for a click (`page`): the question to a member in the first stage, and the prize
in the last. The script keeps the stage of the first click in `curMap`, and on the next click reads the instance, what it has cleared and
the leader again (`ClickPage`). So the prize may lead to the bonus stage of another instance, and a member who
has become a leader meanwhile clears the stage of the page in the instance he is registered in now, wherever he stands. Her pages
that end with `dispose` are one step with the click (`Clear`).

`eim`, `chars`, `party`, `members`, `leader` are the copies the code keeps, which need not agree. Exits
are the script's callbacks: `disbandParty`, `leftParty`, `playerRevive`, `playerDisconnected`,
`timeOut`, each with its early returns and what throws in it. Free choices are what players do on
ropes and barrels, the coupons and passes they hand in, and the pages before the first question.
Party operations are those of `PartyOperationHandler` that meet a running quest; making a party and
inviting are left out, and `MaxChanges` bounds party changes, disconnects and walks. `late` names
players whom a portal took into an instance that had let go of them. `strayed` names those who came to the bonus stage
of another instance than the one whose page they had open; `StageOrder` is not claimed of them there. For an instance whose other stages are uncleared
that takes two players with old pages who are leader one after the other, four instances and five changes: beyond the
bounds of the run, covered by the theorem.

### Npc

`NPCScriptManager` gives each client one script engine; the script's global variables are the state of
the conversation (`t.g`), `cms` says that one is open. A script is modelled as data: for a state of its
variables and an answer, the sequence of calls it makes on `cm` (effects), in the script's order.
`RunScript` (in `Conversation`) carries them out: what lies behind a call that throws is skipped,
`gainItem` fails silently in a full inventory and throws when it takes more than there is, `gainMeso`
of more than there is takes nothing without a word, and a second `start` disposes of the first. An error of the script itself is caught and disposes; an exception
in Java code called by the script is no `ScriptException`, goes past `action`, and leaves the conversation
open. What may be answered to a window (`Menu`, `YesNo`, ...) is the client's matter and external.

Items are the parts they play (`Wares`): enough money for one purchase, the coupon, the ore. The constant
`Most` is how many of each a player may own; 2 lets an order be for more than the player has. Menus with dozens of equal entries (towns, recipes)
are cut to a representative of each branch of the script. Between two answers wares are dropped and
picked up, and slots fill and free (`DropWare`, `PickUp`, `Rearrange`), as the other handlers allow.

Both worlds are read from their own files. World 1's are byte for byte the text of world 0's where
`World1` and `World1Talks` refer to it; a world 1 script with a text of its own has a row of
its own, or is left out (below).

The properties name, script by script, those that do not keep them. These sets are the result of the
reading: they are as small as TLC lets them be. Among them: smiths tell a poor customer so and go on making
the item (`Unpaid`); Arwen (1032100) takes the wrong items in its loop; 9201021 takes keys and gives
nothing; readers and exits take "No" for a yes (`AnyAnswer`); the way back through
the instructors' pages changes the job again; sellers and guides whose `status` is declared nowhere
(2012000, 2020005, 2040000, 2081000, 2082000, 2010005, 2040048) throw on their first answer and sell
nothing; 9270037 fills a list until
the memory is full (`hung`), and its client can do nothing more.

## Runs

| run | instance | shows |
|---|---|---|
| `trade_items` | 3 players, 3 stacks, 2 of them of one restricted kind, 3 trade objects, 2 slots | `PartnersAgree`, `NothingStranded`, `NoDuplicate`, `NeverBothConfirmed`, `ImplementsBarter`, `LostOnlyFullOrDouble` |
| `trade_mesos` | 2 players, amounts -50000 and 600000, MaxInt 1499999 | `TypeOK`, `OfferOnlyGrows`, `MesoSettled`, `NoMesoFromNothing` |
| `trade_newbie` | the same | violates `NewbieLimitKept` (a finding) |
| `loot_once` | 2 players, 2 drops of 5 kinds, 1 slot | `LootedOnce`, `MissedOnlyIfTaken` |
| `loot_ends` | 2 players, 1 drop of 7 kinds, fairness | `TypeOK`, `EventuallyGone`, `HandlersReturn` |
| `map_ids` | 2 threads, 4 objects, ids 0..2, characters with ids 0 and 2 | `FoundById` |
| `map_race` | 2 threads, 4 objects, a character | violates `NoSameOid` (a finding) |
| `voyage` | 2 travellers, 6 services, fairness of the timer | `TypeOK`, `LoopEmpties`, `NobodyLeftAboard`, `NobodyLeftWaiting`, `NeverForgotten`, `Departs`, `Lands` |
| `voyage_stops` | 2 travellers, the services that tell a schedule | violates `TakesOffAgain` (a finding) |
| `partyquest` | 3 players in parties of 2 and 1, 2 instances, 3 stages, 2 changes | `TypeOK`, `StageOrder`, `InsideIsListed`, `OneParty`, `TimeWillBeUp`, `Onward` |
| `kpq_reopens` | the same with 1 instance and no change, fairness | violates `Reopens` (a finding) |
| `npc` | each script in both worlds, one player | `TypeOK`, `Answerable`, `PaidInFull`, `NotForNothing`, `Whole`, `AsShown`, `NoMeansNo`, `GivesOnce` |

Bounds and why they suffice:

* Three players are needed for a third who invites or is declined while two trade; a fourth only
  repeats the roles. Three trade objects suffice for three players: an object is free again once no
  current trade refers to it. Three stacks and two slots let a bag fill up while a stack is on the table, a
  double be refused with a slot free, and an exchange of two stacks for one or none be refused for want of room. The two
  stacks of the restricted kind can be worn. Players, objects, and stacks of the same kinds are symmetric (in
  `trade_mesos` the low-level player is not); 195259 states.
* `MaxInt` 1499999 makes two amounts of 600000 fit and a third wrap; one amount pays a fee and is
  below the limit of a low-level player, two are above. `WealthBound` stops earning. `Few` (a
  constraint) stops when more than two fees were paid or a sum has wrapped twice; what comes after
  repeats.
* Two drops let a session go for the second while a job of the first is at work, and arm one
  reactor twice. `item` and `jewel` are left to `loot_ends`: with two drops they would behave as
  `offering` and `script` do. One drop is enough for liveness, which is per drop.
* Ids 0..2 with wrap to 1 make the counter come round with objects still alive; one character has the first
  id, which is never handed out again, one an id the counter comes back to. 739085 states.

* Two travellers are the least with which a loop over a map throws; one more only throws earlier.
  All delays are those of the scripts.
* Two parties and two instances let registrations overlap; a party of two has a member who is not
  the leader, and `p3` may join it. `MinPlayers` 2, `ComboSize` 2 and `LastStage` 3 stand for 4, 3 and
  5: there are a first stage, one in the middle and the last. Two changes allow one to be undone or
  followed by another. Instances differ only by the order in which they are made and are symmetric
  (sound, as `Onward` looks at single steps); that leaves 2.06 million states.
* One conversation at a time is all a client has, and scripts share nothing between clients, so
  one player is enough for `npc`. `Most` is 2, and with it `UpTo` for the scripts that sell several at once; for the rest it is 1.

The trade runs and `voyage` check deadlock. The others do not: a map with all drops gone, or all
objects placed and removed, has nothing more to do; a quest that everyone has left with the bound on
changes used up neither; a script that does not return has no successor.

### Fairness

`Loot` assumes weak fairness of each session's handler once it was called (`Handle`) and of each
timer job: threads are scheduled by the JVM, the pool runs a job whose time has come, and no job of
the model blocks for ever. No fairness of monitors is assumed (Java gives none), none of `Request`
(nobody need send a packet), none of `Clear` and `Reset`.

`Voyage` assumes weak fairness of `TimerThread`: the pool runs what is due, and a function that runs goes
on. Nobody has to travel, answer or come back. `PartyQuest` needs fairness only for `Reopens`
(`FairSpec`): the time out of an instance comes, and a session that has begun a packet goes on with
it. That the door stays shut is then not for want of steps. `Npc` assumes none.

## Proofs

Assumptions: `ConstantsOK` and `FinitelyMany` (`Trade`), `LootConstants`, `OidConstants`,
`VoyageConstants`, `NullAssumption`, `WalkAssumption`, `LineupAssumption`, `StageAssumption`
(`PartyQuest`), `MostAssumption` (`Conversation`): finitely many stacks, players, trades and travellers, natural numbers, null different from everything
else, the data of a service well formed, parties disjoint and led by a member. Four more say what the six
transport scripts have in common, and are facts about the text of the scripts:

* `StopsAssumption`: docks, waiting rooms and the inside of a vehicle are different maps; doors lead from
  inside to inside, Bell's exits to docks, and no loop carries anybody into a waiting room or back to
  where it carries them from.
* `RoundAssumption`: some functions (`Lasting`, `init` among them) arm exactly one of their kind in each run,
  and none is armed twice in one run.
* `LandingAssumption`: a loop that carries to the inside of a vehicle is followed, in the same run, by arming a
  function that carries out of it; decks behind a door are emptied by `arrived`, and with them what is
  before the door.
* `GateAssumption`: a function that opens the gate arms afterwards the departures that empty the waiting
  rooms; a departure is a lasting function, and who arms one has armed a closing of the gate with a
  shorter delay before.

TLC evaluates all of them in the runs, the last four on the programs of `Routes`.

* **Trade.** The inductive invariant `IInv` is `TypeOK`, `PartnersAgree`, `NothingStranded`,
  `NoDuplicate`, `NeverBothConfirmed` and `LockedHasPartner`. None of the middle four is inductive
  alone: that a cancel hands back each stack once needs the partner's trade to be the one its
  character is in; that two windows are never both locked needs that a lone window is never locked,
  since an invitation joins two. `EndTrade` is the lemma behind cancel, decline and exchange.
  `TradeTypes`, `TradePartners`, `TradeStrandsNothing`, `TradeKeepsItems` and `TradeConfirms` follow.
* **Steps of a trade.** `TradeSteps_proofs` sorts the steps that keep `IInv` into those after which each
  trade goes on, with an offer that has only grown (`GoesOn`), those that cancel (`Cancelled`) and those
  that exchange (`Exchanged`): `StepEnds`. For the last two, `EndView` says what `Barter` sees. From this
  follow `TradeIsBarter` (the refinement: initial states to initial states, each step a step of
  `Barter` or a stutter), `TradeOfferGrows`, `TradeLosesFullOrDouble` (a stack `Stored` drops is a double, or the bag has been filled; `Fits`
  excludes the second in an exchange) and `TradeMesoSettled` (with `FeeBound` and `CreditSum`, the arithmetic of fee and purse).
  `Deliver` and the swap of `Barter` are written as functions of the player and not with two EXCEPTs, since
  the two players of a cancel may be one.
* **Mesos of all.** `NoMesoFromNothing` is about `SumFunction`, a fold defined by recursion over sets. `Induction`
  derives induction over the naturals, for sets, from the well-foundedness of their order; with it sums exist
  (`SumExists`), do not depend on the order in which the fold takes the elements (`SumAny`), and two
  functions that differ at two points have sums that differ as they do there (`SumChange`). A step of the
  window changes at most two purses and two trades (`WealthChange`), so it is enough that a cancel or an
  exchange pays out no more than was in the two trades (`EndWealth`, from the bounds on fee and purse), that
  a new trade is empty, and that offered mesos leave the purse. `TradeMakesNoMeso` follows from `IInv` and these.
* **Loot.** `OnceInv` adds to `LootedOnce` that a session inside owns the monitor (`Mutex`), that who
  is about to give or to clear the flag has a drop nobody was given (`Fresh`), and that a given drop
  is marked or will be by the session inside (`Marked`). `LootGivenOnce` holds although the jobs use
  another lock, because jobs only set the flag. `OfferInv` adds why an offering can be marked or off
  the map (`Reasons`), which kinds each branch is for (`Sorts`) and that a drop is armed once
  (`Spawners`); `LootOfferings` follows.
* **MapObjects.** `IdInv` is `TypeOK` with what each thread has in hand (`Hands`), that the ids threads have at once
  are contested (`Rivals`), that the next id is free or contested (`NextFree`), and which entries there are under an
  uncontested id (`Entries`). No step has to be excluded; `MapTypes` and `MapFoundById` follow.
* **Voyage.** `IInv` adds to `TypeOK` and `LoopEmpties` that places on one map differ (`PlacesOK`), that
  an iterator that is not stale points to the first traveller it has not yet returned (`LinkOK`) and that the one in hand is
  on the map of the loop (`HandOK`). `VoyageLoops`: a loop that ends without throwing has carried
  everybody who was there, for any number of travellers and any well-formed scripts.
* **Rides.** `RideInv` is `IInv` with a schedule (`Sched`) and those who ride by it (`Riding`). `Lasts`
  and `Alone`: unless a loop has thrown, one lasting function is scheduled, or the running one has
  still to arm it, and no second. `ArmedOK`: no time passes while a function runs, so what it armed is due in the
  delays it gave. From these `ClosingOK`: as long as the gate is open, each departure has a closing due before it; `GateOK`:
  and each waiting room a departure to come. `AboardOK` and `WaitOK` say that who is aboard or waits on a map has a function
  promised that carries from that map, or under way in the running one, unless he slipped past an arrival or was let in late;
  `CameAboard` and `CameWaiting` account for those who enter the map of a loop while it runs, whom the loop may miss.
  `VoyageNeverForgotten`, `VoyageAboard` and `VoyageWaiting` follow, for any services that satisfy the assumptions.
* **PartyQuest.** `IInv` adds to the four invariants that a registered player is on the list of his instance (`Registered`),
  that live instances have a time out to come (`Timed`), that who is in an instance, or about
  to come into it, has no other (`OneInstance`), that whom a portal or the prize is about to move, or whom a page is shown, has the way there cleared (`WayCleared`) and that unused instances are
  empty (`UnusedEmpty`). Most ways out of the quest take listed players out and leave the rest alone; `LeavesKeeps`
  is the lemma for all of them. `QuestTypes`, `QuestStages`, `QuestLists` and `QuestTimes` follow.
* **The door of the quest.** `OneParty` is a matter of lists and not of places: `Sole` says that as long as
  no registration has thrown or overlapped another, at most one talk registers a party, its instance is the only one with
  anybody on its list, an open door with nobody talking means that all lists are empty, and who
  is registered has a live instance. The last is what makes Nella's opening of the door safe: the
  instance she empties for the leader is the one that was in use. `ViaOnward` says that a portal
  somebody is walking through does not lead back. `QuestOneParty` and `QuestOnward` follow.

* **Scripts.** `NpcPaidInFull` says of every script of the two worlds in the model, and of every bound `Most`, that
  nothing is given that is not paid for, `Unpaid` excepted. A script is a sequence of calls, so the proof is about
  sequences: `RunCat` splits `RunScript` of two parts, by induction over a row of states (`RunIs`). `Settled(u, r, U)` says that from
  `u` to `r` nothing was run up that is not paid, but for `U`; `Fair(s, ops, U)` that running `ops` with the bag of `s` is so
  settled. Calls that give nothing, or at the expense of `U`, are (`TameKeeps`); so is a ware taken before it is paid out, because taking too
  much throws (`FairBuy`), and goods handed out first if the page has looked at the price (`FairSell`). Each script is
  put together from these (`JourneysFair`, `PassagesFair`, `InstructorsFair`, `VendorsFair`, `SalonsFair`, `SmithSells`), and
  `StartFair` and `PageFair` find it by its name in either world. Two kinds of script give at a
  price that an earlier page saw to, which is why the invariant says where a conversation stands as long as a window is open (`Ready`): a smith's
  variables name an entry of his menu and a recipe of it, and the window offers no others (`Laid`, `Offers`, kept by
  `SmithGoes`; that every smith's menu is of that form is `SmithRecords`); the quiz is at its first page or has taken its price (`QuizGoes`).
  `IInv` is `Ready`, `Debt` (`PaidInFull` without its condition) and the fields a conversation has (`Shaped`).

Every safety property of the runs outside `Npc` is a theorem. Only model-checked: liveness
(`EventuallyGone`, `HandlersReturn`, `Departs`, `Lands`), as liveness and ENABLED are beyond the prover, and the other
seven properties of `Npc`. They depend on the page every single script is on, where `PaidInFull` asks that only of two kinds; TLC's
run goes through every script and every bag up to `Most`.

## Findings

* `NewbieLimitKept`: the packet `sendMesoLimit` stands for "Players under level 15 can only trade 1m
  per day" (`tools/MaplePacketCreator.java:6384`); `completeTrade` tests only the player who confirms
  second, and the count is lost on relog.
* `NoSameOid`: `MapleMap.java:317` says that there are no monsters with the same oid; two concurrent
  spawns produce two objects with one id, because `spawnAndAddRangedMapObject` counts without a lock.
* `TakesOffAgain`: the subway's seller says that it takes off every 10 minutes
  (`scripts/npc/world0/9201057.js:30`); with two travellers on one map the loop of `takeoff` or `arrived` throws
  (`scripts/event/Subway.js:77`), the next ride is never scheduled, and the service stands still until
  the server is restarted. The other scripts loop in the same way.
* `Reopens`: Lakelis asks the next leader to wait (`scripts/npc/world0/9020000.js:84`), but after a quest that ended by its
  time out nothing sets `KPQOpen` back: the function that would (`KerningPQ.js:143`) is armed by a
  function `dispose` of the script that nobody calls.

## Plan

What would come next, in this order:

1. *Party* and *Messenger*: `World.updateParty` as steps of concurrent sessions, the copies in each
   character, log on and off; an abstract `Group` (at most N members, one leader among them).
2. *Session*: login state in the database, the 30 s transition, disconnect by session and idle task,
   late close of an old connection; liveness: an account is free again in the end.
3. *Merchant* and *PlayerShop*: buy against take back and close, stock conserved; crash between the
   writes of a sale.
4. *Trade* with a step per statement, for two I/O processors; `Loot` with parties sharing mesos.
5. *Guild*: cached lists and dirty flag. The other party quests, on the frame of `PartyQuest`.
6. *Inventory*, *Storage*: stacking and typed views as operators against reference definitions.

## Not modelled

* Java: messenger, sessions and login, merchants and shops, guilds, buddies, storage, monsters and the other parts
  that `PROJECT.json` lists as not modelled: each is a state machine of its own that the plan above
  names, or SQL and arithmetic on data files. Of the party only what meets a running quest, of event
  instances only what the modelled scripts use.
* NPC scripts that only pass a custom quest to Java or ask for one (ids from 100000 on: 1052001, 1072002,
  1072003, 1072006, 1072007, 2020009, 2020010, 2020011, 2030006, 2030008), those tied to other events or party
  quests (1061010, 2013002, 2040047, 2081010, 2091005, 2101014, 9040010, 2030013_old), and the world 1
  versions that differ from world 0's in text (1032007, 1101001, 1202000, 1209000, 2010009, 2103013, 9201127). Scripts that
  only talk change nothing and are not modelled.
* Quest, portal, reactor and map scripts, and event scripts other than transport and the Kerning quest.
* The codec, data files, administration.
