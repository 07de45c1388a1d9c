# Verification of the poker examples

TLA+ models of the C++ card room in this repository, checked with TLC and, for
the properties that matter most, proved with TLAPS for every value of the
constants. The modules are translated from the code as it is, not from what its
comments promise; where a comment and the code disagree, a run shows it (see
*Findings*).

Contents: [The system](#the-system) · [Modules](#modules-and-code) ·
[Runs](#what-tlc-checks) · [Findings](#findings) ·
[Proofs](#what-is-proved) · [Limits](#what-is-not-modelled) · [Plan](#plan)

## The system

A card room built by event sourcing: aggregates accept commands and store
events, sagas translate an aggregate's events into commands for another one, a
process manager conducts hands. The framework that stores and delivers (the
*coordinator*) is not in this repository: its sources are git submodules, absent
here. `src/CMakeLists.txt` lists what is built; the object-oriented variants are
disabled there.

| Part | State | Operations | Who calls it |
|---|---|---|---|
| player aggregate `src/player/agg` | bankroll, `reserved_funds`, reservation per table | register, deposit, withdraw, reserve, release, transfer; compensation of a rejected `JoinTable` | players, two sagas |
| table aggregate `src/table/agg` | seats, stacks, button, hand count, status | create, join, leave, start hand, end hand; facts sat out / sat in | players, two sagas |
| hand aggregate `src/hand/agg` | status, phase, stacks, bets of the round, folded, all-in, pot, cards | deal, post blind, fold/check/call/bet/raise/all-in, community cards, award | players, one saga, the process manager |
| process manager `src/hand-flow` | per hand: phase, whose turn, copies of stacks and bets, who folded or is all-in | seven event handlers, each returning commands | events of table and hand |
| saga table to hand `src/table/saga-hand` | none | HandStarted to DealCards | table |
| saga table to player `src/table/saga-player` | none | HandEnded to ReleaseFunds per player | table |
| saga hand to table `src/hand/saga-table` | none | HandComplete to EndHand | hand |
| saga hand to player `src/hand/saga-player` | none | PotAwarded to DepositFunds per winner | hand |
| saga player to table `src/player/saga-table` | a thread-local | sitting out and in, as facts for the table | player |
| upcaster `src/player/upc`, projectors `src/prj-*` | none | rewrite or print events | framework |

What is hard here:

- **Overlap and staleness.** A handler's answer holds absolute balances computed
  from the book of events the call came with. Between the answer and the moment
  it is stored other answers may be stored.
- **No turn order in the aggregate.** The hand aggregate does not know whose turn
  it is and takes actions, blinds and community cards at any time. Only the
  process manager keeps order, and it is always behind.
- **Two copies of a hand.** Aggregate and process manager each rebuild stacks,
  bets, folds and all-ins from the same events, with different rules.
- **Events that are not for me.** Most handlers of the process manager do not
  know which hand an event is from and apply it to the first process in a
  suitable phase.
- **A process manager that forgets.** Its processes live in memory. A restart
  loses them, and a HandStarted delivered again begins a hand anew that is half
  played.
- **Sagas that are handed the same event again.** They keep nothing, and their
  commands carry nothing to be recognised by; only the guards of the aggregates
  keep a second DealCards, EndHand or DepositFunds from doing harm, or do not.
- **A deck that is shuffled at every replay**: two handlings of one command deal
  different cards.
- **A chain over three services** to get a hand into its betting: one command not
  returned and the hand stands still.
- **Unchecked inputs**: transfers of any sign, compensation at any time, awards
  that do not add up, facts appended to the table without a handler.

`PROJECT.json` lists each hazard at its line, with the properties that would
notice it going wrong.

## Modules and code

Handlers are operators that return the *set* of events (or outcomes) of the
code: empty when it throws `CommandRejectedError`, one element when it does not,
several where the code depends on the order of an `unordered_map`. Names are
those of the source where there is one. `PROJECT.json` maps every definition to
its lines. Operators under the word *Fault* are deliberately wrong variants used
to show that a property can fail; no action uses them.

| Module | What it models |
|---|---|
| `Sums` | the sum of a function over 0..n-1, without recursion so that it can be proved about |
| `PlayerState` | `player_state.cpp` and all handlers of the player aggregate |
| `Player` | concurrent calls of it: `Answer` is the service rebuilding its state and running a handler, `Append` the coordinator storing the answer while the sequence number fits, `Discard` a conflict or a lost call |
| `Escrow` | abstract specification: an account with a balance and money held per purpose, no counter, no overlap, no absolute values |
| `HandState` | `hand_state.cpp` and the handlers of the hand aggregate |
| `Hand` | one hand under any order of accepted commands |
| `HandCards` | the cards of a hand under overlapping calls: deal, community cards, and the deck that every rebuild of the state makes up |
| `TableState` | `table_state.cpp` and the handlers of the table aggregate |
| `Table` | one table under commands, late or repeated `EndHand`, and facts at any time |
| `HandProcess` | the state and the handlers of the process manager (`hand_process.cpp`) and how `HandFlowService::Handle` chooses one (`main.cpp`) |
| `HandFlow` | the process manager composed with hand aggregates and the saga table/saga-hand: events pending per hand, commands under way |
| `HandPot` | abstract specification: what becomes of the chips of a hand, without events, commands, turns or a process manager |
| `HandCycle` | abstract specification: hands are played one after the other, each is paid, then the next may start |
| `Room` | players, a table and its hands joined by the four sagas; uses `PlayerState` and `TableState` as they are |
| `MC...` | values of constants for TLC |
| `SumLemmas`, `HandLemmas` | lemmas about sums, and about what each command does to a hand |
| `PlayerProofs`, `HandProofs`, `HandCardsProofs`, `TableProofs`, `HandFlowProofs`, `RoomProofs` | the theorems |

How state and actions correspond:

- **Player.** `player` is what the event book replays to; `version` its length;
  `inflight[c]` the event that call `c` was answered with and the length of the
  book it came from. `ledger` is history: the net of all amounts stored. Every
  command is one action; so is the compensation for a rejected join, which the
  class `Player` has although `main.cpp` does not route to it.
- **Hand.** `hand` is the record of `HandState`; `dealt` (history) the stacks at
  the deal; `final` what the last HandComplete announced; `version` a bound.
  PotAwarded and HandComplete, returned together, are one step.
- **HandCards.** `cards` is the record of `HandState` as far as cards go,
  `inflight` and `version` as in Player. The deck is a set: its order is drawn at
  each handling, so a handler returns one event for every way to deal. Blinds and
  awards are there because they make the event book longer.
- **Table.** `table` is the record of `TableState`; `dealt_in` and `ended` are
  history. A hand root, in the code a hash of table and number, is the number.
- **HandFlow.** HandStarted reaches the process manager (`Start`) and, by way of
  the saga, the aggregate (`Deal`) in either order. `pending[h]` are the events
  of `h` the process manager has yet to see: in order, each once, but as late as
  one likes (`See`). `commands` are on their way, and are accepted or refused in
  any order; the code never repeats a refused one. Seats are positions; who sits
  there is the root in HandStarted, and a player may be in several hands, at
  another position in each. The process manager gives a blind or an action to
  any process in the right phase, and there to the player of that root if it has
  one (`Finds`, `Read`): the hand the event is of is not compared. A HandStarted
  names seats of the table it comes from.
  Where `MayRestart` holds, `Restart` forgets all processes at any moment, and
  `Start` may come again and replace the process there is.
- **HandPot.** A hand's `chips` are the aggregate's stacks, before the deal those
  of HandStarted; its `pot` the aggregate's, until it is paid; `playing` who has
  not folded; `stage` is "awarded" once the process manager commanded an award.
  `Move` is a blind, a bet, an all-in or a call, also a call below zero; `GiveUp`
  a fold; `Award` the end of a betting round with one player left; `Pay` the
  acceptance of the award. Deals, community cards, restarts and everything the
  process manager only sees are no steps of it.
- **Room.** `started[h]` and `ended[h]` are what HandStarted and HandEnded of hand
  `h` say; what PotAwarded and HandComplete say is in `hands[h].awards`.
  `delivered[s][h]` counts how often saga `s` was handed its event of `h`;
  `commands` are the sagas' commands on their way, numbered by that count, so that
  two of the same content are two. `TableHandSaga`, `HandTableSaga`,
  `HandPlayerSaga` and `TablePlayerSaga` are the services' `Handle`; `DealCards`,
  `EndHand`, `DepositFunds` and `ReleaseFunds` the arrival of a command at its
  aggregate, accepted or refused. A hand is no more than who was dealt in, the
  table root it was told, and who was awarded what: its chips are in `Hand`.
  Aggregates take one command at a time here; overlap is in `Player` and
  `HandCards`. Players may not leave, sit out, or move their own money here:
  `Table` and `Player` have that.

Each of these sagas exists twice, in its `main.cpp`, which runs, and as a handler
for an event router, which nothing uses. Those of `table/saga-hand` disagree:
`main.cpp` puts the table's root into DealCards, `table_hand_saga.cpp` the hand's.
Each half of the system needs another one. The process manager finds its process
by the hand's root; with the deployed saga no hand ever leaves its dealing
(finding 3), so every run of `HandFlow` about what comes later sets the constant
`DealNamesHand` to TRUE: it checks the process manager as its own tests drive it.
The table is found by the table's root, which HandComplete and EndHand have from
DealCards; `Room` therefore has the deployed saga, and with the other one
`NeverStuck` fails (variant `DealTableRoot_hand`): EndHand goes to an aggregate
that was never created, and the table stays in its hand.

## What TLC checks

Bounds are constants named in the cfg; every property has a mutant of the code
in `PROJECT.json` that violates it under the same bounds, so the interesting
cases do occur.

| Run | Instance | Shows |
|---|---|---|
| `player` | 2 calls, 2 tables, amounts -1..2, transfers of either sign or none, 6 events; 231 thousand states | `ReservedIsSum`: counter and map of reservations agree. `LedgerAgrees`: no update is lost. `StorableIsCurrent`: an answer that can still be stored is one a handler would give now. `IdempotentReplay`: a stored event may be applied twice. `OnlyTransfersOverdraw`: only a transfer takes what is reserved. `ImplementsEscrow`: the aggregate refines `Escrow` |
| `hand` | 2 seats, stacks 1 and 3, amounts 0..4, 6 accepted commands of any kind, with and without community cards; 77 thousand states | `ChipsConserved`, `NoDebt`, `AllInIsBroke`, `FoldIsFinal`, `CompleteIsFinal`, for any order of commands |
| `cards` | a deck of 6, two players, one hole card and a board of 2+1+1, or a draw of two each; 2 calls, 6 events; 1.5 million states | `NoCardTwice`, `DeckWhole`, `CardsStay`: no card is dealt twice, lost or taken back, though overlapping calls deal from different decks. `NeverShort`: everybody gets his cards, and the board its own |
| `table` | 3 players, up to 4 seats, 2 hands; 177 thousand states | `SeatingSound`, `DealtInStay`, `HandsEndOnce`, `BlindsAreDealtIn` while players come, go, sit out and come back |
| `flow` | 3 seats, 1 hand, 4 actions of the players at any time, out of turn too, restarts and repeated HandStarted at any time; 312 thousand states | `NobodyLeftOut`: an award names all who are in (with one hand, so that nobody plays elsewhere). `AwardedOnce`. `ImplementsPot`: the composition refines `HandPot`, also when the last player bets again before he is paid |
| `flow_two_hands` | 2 hands of 2 seats with the same two players, or with one who has another seat in each, 3 actions together; 1.9 million states | `OutIsOut`: though events reach processes of other hands, a process counts out only who has folded or is all-in in its hand or in the other hand he plays |
| `flow_in_turn` | 3 seats, one short of chips, or 2 of 3 seats taken and one player unable to pay the big blind; any button, with and without community cards, players take turns, 7 actions; 5 thousand states; fairness | `SidesAgree`: both copies of a hand agree once the process manager has caught up. `TurnCanAct`: the turn is of one whose action is accepted. `CommandsAccepted`: no blind and no award is refused. `PaidExactly`: what is paid is the pot, to the chip. `BettingStarts`: both blinds get posted |
| `room` | 2 players, a table for two, 2 hands, awards of 1, one event handed twice to a saga; 506 thousand states; fairness | `OneHandAtATime`, `EndsAsPaid`: late and repeated sagas never mix two hands up. `NeverStuck`: a table in a hand waits for something that is to come. `MoneyAccounted`: bankrolls are the winnings, once per delivery. `ImplementsCycle`: refines `HandCycle`. `EveryHandSettles`: every hand that starts is dealt, and every paid hand leaves the table ready and its winners sent their winnings |

Why the bounds are enough: two calls are what an overlap takes, two tables what
it takes for a counter to be more than one entry; a hand of two players has
every command, and six commands reach blinds, a raise, a call below zero and an
award; a seat more than players lets the button land on an empty one; a hand of
three has a player left after the first fold, and four actions let two fold, the
third win and act once more; seven actions in turn are a raise, its calls and
the folds that leave one player; two hands are what cross-talk takes, one player
in both what it takes to be mistaken, and three actions let one hand end while
the other is half played. A deck just as large as
a full table and a board need is where it could run short, and two calls deal
two flops at once. In the room two hands are what it takes for a late EndHand or
DealCards to meet another hand, one repetition what it takes to repeat any of
the events, and players who have not registered are there to be refused. What
the bounds leave open, the proofs close for every property but `BettingStarts`
and `EveryHandSettles`, which are model-checked only. `flow_in_turn` has no
restarts, because a restart ends what `BettingStarts` promises; the theorems
about its other properties include them.

Deadlock is not checked: a counter reaches its bound, a hand is complete, or
players may simply stop.

**Fairness** is assumed in `flow_in_turn` and `room` (`FairSpec`), for their
liveness properties. In the first, HandStarted gets to the process manager and
to the saga, an event that waits is seen, a command that waits is tried. That is
the coordinator delivering what was stored. Nothing is assumed of players, who
owe nobody an action, nor that any command is accepted. In `room` the framework
owes every hand (`Owed`) that each saga is handed its event for the first time
and that the commands of that first time arrive; second times are owed nobody,
and neither clients nor whoever awards the pot need do anything, so the property
is about hands that started or were paid.

`TakeTurns` is an assumption on players, not on the code: with it the invariants
of `flow_in_turn` say that the code works for players who wait for their turn.
Without it `SidesAgree` and `TurnCanAct` fail at once, because an action that
arrives before the process manager is in its betting is dropped;
`CommandsAccepted`, because the player who has the small blind, or the last one
left, may fold while the command is on its way; `PaidExactly` only after a
longer play (see the end of *Findings*).

## Findings

Each has a run that TLC refutes.

1. `hand_raise_to`: the amount of a raise is a total for the handler and an
   increment for replay (`hand_state.cpp:172` against `action_handler.cpp:79`).
   The process manager adds it as well.
2. `table_stack_changes`: stack changes are keyed by raw root and looked up by
   hex (`table_state.cpp:97`); no stack ever changes when a hand ends.
3. `flow_deployed`: the process of a hand is stored under the hand's root and
   looked up under the table's (`table/saga-hand/src/main.cpp:41`,
   `hand_process.cpp:58`); no blind is ever commanded.
4. `flow_round_complete`: `betting_phase` is never set to PREFLOP, so the end of
   the first betting round commands nothing (`hand_process.cpp:318`). The same
   unset field makes the seat after the *button* the first to act before the
   flop.

Seen while modelling, without a run of their own: awards are not adjusted to a
pot that is empty or negative (`award_pot_handler.cpp:51`), so chips may appear.
With two players of 12 chips each who act out of turn, `PaidExactly` fails so:
the small blind bets 4 and raises to 10, which by finding 1 makes his bet 15;
the big blind, posted late, sets `current_bet` back to 2; the small blind
checks, the big blind folds, and 12 are awarded; before they are paid the winner
calls, which refunds him 13, and the pot of -1 leaves the award as it was: of 24
chips there are 37. The button moves over seats of players who sit out, so
heads-up the small blind may not be the dealer (`start_hand_handler.cpp:77`); a
blind or an action of one hand is entered in the process of another, where it
counts for the player of the same root (`hand_process.cpp:84`, `:119`; the
comment at line 76 calls this "simplified - would need hand_id in real impl"):
nothing keeps a player from two tables, and one who folds at the first may be
counted out at the second and left out of its award. With the deals of
`flow_two_hands` TLC refutes `NobodyLeftOut` once its `FoldedElsewhere` is taken
away; `OutIsOut` and `NobodyLeftOut` with that exception, which is empty for
hands without a common player, are what can be said; "CardsDealt" is found in "CommunityCardsDealt", so that event
never reaches its handler (`hand-flow/src/main.cpp:73`, modelled by `Branch`);
`start_betting` forgets the blinds, so after a raise the process manager wants
more from a blind than the aggregate does; when all but one have folded, the
award waits until that one has acted too (`hand_process.cpp:149-156`), while the
stand-in in `tests/process_manager_steps.cpp:525` awards at once; HandEnded keys
its changes by raw roots and the saga `table/saga-player` reads them as hex
(`main.cpp:44-45`), which throws or names a root nobody has, and it names the
hand's root as the table's (`main.cpp:50`), so that no reservation is ever
released, although `table_player_saga.cpp:10` says "produce ReleaseFunds
commands for each player"; a PotAwarded handed twice is deposited twice
(`MoneyAccounted` says exactly that and no more); a winner who never registered
is refused his winnings and nobody tries again; the output projector looks for
"CardsDealt" first and so prints community cards as a deal
(`prj-output/src/main.cpp:134`, `output_projector.cpp:77`).

## What is proved

All theorems hold for every number of seats, tables, calls, hands and players,
every set of amounts, and without the bounds on lengths (a bound is any natural
number). Their only assumptions are the `ASSUME`s of the modules, which say what
kind of thing a constant is, and for a few theorems a hypothesis named in them
and below (`OneHand` and `TakeTurns`; transfers that are not negative).

- `SumLemmas`: sums exist, are unique, and how they change with an update. The
  sum is defined by partial sums, so its lemmas rest on well-foundedness of the
  naturals and not on an induction theorem with an operator parameter.
- `PlayerProofs`: the inductive invariant adds to the properties that a player
  who is not registered has no money, and keeps `StorableIsCurrent` as its heart:
  an answer that still fits the sequence number is what a handler would answer
  *now*, so storing it is an atomic step and everything else follows as for a
  sequential program. From it `EscrowHolds` follows without a premise: for
  the escrow account a transfer is an adjustment. `SolventHolds` needs transfers
  that are not negative; `OnlyTransfersOverdrawHolds` shows that nothing else
  takes what is reserved.
- `HandLemmas`, `HandProofs`: `Sound(s, d)` says of a hand that was dealt `d` that
  stacks and pot add up, stacks are not negative and all-in players have nothing.
  One lemma per event says that applying it keeps `Sound`. The strengthening is
  that an undealt hand is empty and the big blind, the least bet, is not negative:
  without it a bet could be negative.
- `HandCardsProofs`: again, an answer that can still be stored is one that the
  handlers would give now, so a deal is stored only on an undealt hand and
  community cards come out of today's deck. `NeverShortHolds` is arithmetic over
  one assumption, `DeckSuffices`: the deck is enough for a full table and the
  board. The sizes of all hole cards together are bounded by a least
  counterexample, seat by seat.
- `TableProofs`: the invariant adds that a table without a status has no seats and
  that the running hand is the last one started; `SeatingSoundHolds` then is a
  counting argument: seats taken are within 0..max_players-1, so when there are
  fewer than max_players one is free.
- `HandFlowProofs`, for any hands, restarts and actions out of turn: `OutIsOut`,
  `NobodyLeftOut`, `AwardedOnce` and the refinement `PotHolds`. One lemma per
  handler bounds what it may do to *any* process (`SoundOutcome`): an event puts
  out only the player it is of, wherever he sits, and only by what he did; only
  its own CardsDealt takes a process out of dealing; an award comes from the
  betting and ends it. The invariant adds what
  is still under way: pending folds and all-ins are already in the aggregate,
  CardsDealt is the first event of a hand, a working process has seen it (so it
  never comes back), and awards under way name all players of HandStarted who
  have folded neither there nor in another hand they play. The lemmas of `HandLemmas` give the aggregate's side.
  With restarts a process may be missing or new: a new one waits for CardsDealt,
  and where an award was commanded CardsDealt has been seen and never comes back.
  `PotHolds` takes each step to one of `HandPot` or none: an accepted award is a
  `Pay` because an award under way has been counted and is refused when it names
  one who is not in the hand.
- `HandFlowProofs`, for one hand in turn (`OneHand`, `TakeTurns`), restarts
  included: `SidesAgree`, `TurnCanAct`, `PaidExactly` and `CommandsAccepted`,
  from the invariant `TurnInv`. It says that the two sides pass a token. While
  the process is in its blinds or its betting, either nothing is to be seen and
  its stacks, pot, folded and all-in players are the aggregate's (`Agree`), or
  one event is, which will make them so (`WillAgree`); at most one command is on
  its way, and none in the betting. `Owing` and `Quiet` bound the bets: nobody
  bet more than `current_bet`, but for the small blind, whose excess is in the
  pot, so that no refund makes it negative; so the pot is awarded whole or is
  empty, and then the award is of nothing. Both hypotheses are needed: with two
  hands an action or blind of one is entered in the process of the other, and TLC
  refutes `SidesAgree`; out of turn TLC refutes all four. `OneHand` is a
  hypothesis about the set of hands, `TakeTurns` the constant the run sets.
- `RoomProofs`: the invariant says that every command on its way carries what its
  event recorded and that the event still stands. A late or repeated command is
  then refused by the guard that looks at the hand (its status, or the table's
  `current_hand_root`), and the first one is accepted. `CycleHolds` maps each step
  to one of `HandCycle` or none. `MoneyHolds` rests on a second invariant,
  `MoneyInv`, in which a deposit on its way is counted as not yet arrived.

Out of the prover's reach and left to TLC: liveness under fairness
(`BettingStarts`, `EveryHandSettles`) and ENABLED; what a recursive definition
computes for every input, and RECURSIVE operators, neither of which these modules
have. The action properties of the violation runs are refuted, not proved.

## What is not modelled

- **int64.** Integers are unbounded; `bankroll + amount` near the limit of int64
  is listed as a hazard.
- **The race on `processes_`.** A gRPC server's threads share the map without a
  lock; handlers run one at a time in the model.
- **ShowdownStarted** and the timeouts of the process manager: nothing returns or
  reads them.
- **Names, currencies, timestamps, texts, and what cards are worth**: nothing
  decides by them. There is no hand evaluation in the code.
- **The upcaster**, which passes every event through, and **the projectors**, which
  print: no state that anything reads. `prj-cloudevents` is in no build target.
- **The object-oriented variants** (`hand-flow-oo`, `table/saga-hand-oo`,
  `prj-output-oo`, `pmg-hand-flow`), disabled in `CMakeLists.txt`, and
  `table/saga-hand/src/splitter_example.cpp`, an excerpt for the documentation.
- **The saga `player/saga-table`** is the facts it makes (`SitOut`, `SitIn` of
  `Table`), at any time. No handler of the player aggregate returns the events it
  listens to, so where they come from is not known here.
- **The client headers** under `client/`: the services use the framework's own
  library, a submodule.
- **The framework.** What is assumed of it: a sequence number per event book,
  events of a hand delivered to the process manager in order and once (HandStarted
  more often), to the sagas late, in any order and at least once, commands in any
  order and once.

## Plan

Done, in this order: PlayerState, Player, Escrow and their proofs; HandState,
Hand and proofs; TableState, Table and proofs; HandProcess, HandFlow and proofs;
restarts in HandFlow; HandCards and proofs; HandCycle, Room and proofs; HandPot
and the proofs about one hand in turn.

Left:

1. Bounded integers for the player aggregate, once it is decided what an account
   near the limit of int64 should do.
2. Several hands in turn: what two hands leave of `SidesAgree`, and whether each
   is paid exactly.
3. `Room` with overlapping calls of its aggregates, and with players who leave.
