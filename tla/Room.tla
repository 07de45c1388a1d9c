-------------------------------- MODULE Room --------------------------------
(***************************************************************************)
(* A card room: the player aggregates, one table aggregate and its hands,  *)
(* joined by the four sagas                                                *)
(*                                                                         *)
(*   table/saga-hand     HandStarted   -->  DealCards      to the hand     *)
(*   hand/saga-table     HandComplete  -->  EndHand        to the table    *)
(*   hand/saga-player    PotAwarded    -->  DepositFunds   to each winner  *)
(*   table/saga-player   HandEnded     -->  ReleaseFunds   to each winner  *)
(*                                                                         *)
(* A saga keeps nothing: it translates the event it is handed.  The        *)
(* framework hands it every event at least once, in any order and at any   *)
(* later time, and what it returns is commands on their way, which reach   *)
(* their aggregates in any order; a command that is refused is gone.  The  *)
(* state of a saga is therefore how often it was handed each event.        *)
(*                                                                         *)
(* Players and table are those of modules PlayerState and TableState, with *)
(* one command at a time (module Player has several); a hand is here no    *)
(* more than who was dealt in, for which table, and who was awarded what.  *)
(* As a table root that commands carry, 0 is the table's root and h the    *)
(* root of hand h.                                                         *)
(*                                                                         *)
(* A definition under the word Fault is a variant with a plausible bug in  *)
(* it, for showing that a property would notice; no action uses it.        *)
(***************************************************************************)
EXTENDS TableState, PlayerState

CONSTANTS
  Stranger,      \* a root that is no player's
  BuyIns,        \* amounts that buy-ins and buy-in limits may be
  Awards,        \* amounts that an award may be
  MaxHands,      \* bound: hands started
  MaxRepeats     \* bound: events that a saga is handed twice

ASSUME PlayersAssumption  == IsFiniteSet(Players)
ASSUME StrangerAssumption == Stranger \notin Players
ASSUME AmountsAssumption  ==
  BuyIns \subseteq Nat /\ Awards \subseteq Int
ASSUME BoundsAssumption   ==
  /\ MaxHands \in Nat /\ MaxRepeats \in Nat
  /\ NumTables = MaxHands + 1

Hands == 1 .. MaxHands
Sagas == {"table-hand", "hand-table", "hand-player", "table-player"}

\* Awards to some of the players, at most one to each.
AwardsType == UNION {[W -> Awards] : W \in SUBSET Players}
NoAwards   == [w \in {} |-> 0]

\* What HandEnded says of them: keyed by the winners' roots as they are.
ChangesType == UNION {[{Raw(w) : w \in W} -> Awards] : W \in SUBSET Players}
NoChanges   == [k \in {} |-> 0]

HandType ==
  [status     : {"undealt", "betting", "complete"},
   players    : SUBSET Players,
   table_root : Tables,
   awards     : AwardsType]

NewHand ==
  [status |-> "undealt", players |-> {}, table_root |-> 0, awards |-> NoAwards]

CommandType ==
  [type : {"DealCards"}, hand : Hands, nth : Nat, table_root : Tables,
   players : SUBSET Players]
  \cup [type : {"EndHand"}, hand : Hands, nth : Nat, table_root : Tables,
        results : AwardsType]
  \cup [type : {"DepositFunds"}, hand : Hands, nth : Nat, player : Players,
        amount : Awards]
  \cup [type : {"ReleaseFunds"}, hand : Hands, nth : Nat,
        player : Players \cup {Stranger}]

VARIABLES
  players,       \* the state of each player aggregate
  table,         \* the state of the table aggregate
  hands,         \* per root, the state of the hand aggregate
  started,       \* per hand, the players HandStarted names; {}: no such event
  ended,         \* per hand, the changes HandEnded names; none: no such event
  delivered,     \* per saga and hand, how often it was handed the event
  commands,      \* commands on their way from a saga
  refused        \* history: the winnings that a player was refused

vars == <<players, table, hands, started, ended, delivered, commands, refused>>

aggregates == <<players, table, hands, started, ended, refused>>

Init ==
  /\ players = [p \in Players |-> NewPlayer]
  /\ table = NewTable
  /\ hands = [h \in Hands |-> NewHand]
  /\ started = [h \in Hands |-> {}]
  /\ ended = [h \in Hands |-> NoChanges]
  /\ delivered = [s \in Sagas |-> [h \in Hands |-> 0]]
  /\ commands = {}
  /\ refused = [p \in Players |-> 0]

-----------------------------------------------------------------------------
(***************************************************************************)
(* Commands of clients, and AwardPot, which a client or the process        *)
(* manager sends: one action each, of the aggregate that accepts it.       *)
(***************************************************************************)
RegisterPlayer(p) ==
  \E e \in handle_register(players[p]) :
    /\ players' = [players EXCEPT ![p] = apply_event(@, e)]
    /\ UNCHANGED <<table, hands, started, ended, delivered, commands, refused>>

CreateTable(max_players, min_buy_in, max_buy_in) ==
  \E e \in handle_create(table, max_players, min_buy_in, max_buy_in) :
    /\ table' = apply_table_created(table, e)
    /\ UNCHANGED <<players, hands, started, ended, delivered, commands, refused>>

JoinTable(p, buy_in) ==
  \E e \in handle_join(table, p, buy_in, 0) :
    /\ table' = apply_player_joined(table, e)
    /\ UNCHANGED <<players, hands, started, ended, delivered, commands, refused>>

StartHand ==
  \E e \in handle_start_hand(table) :
    /\ e.hand_number <= MaxHands
    /\ table' = apply_hand_started(table, e)
    /\ started' = [started EXCEPT ![e.hand_root] = {table.seat[i] : i \in e.active}]
    /\ UNCHANGED <<players, hands, ended, delivered, commands, refused>>

\* Fault: the pot of a complete hand is awarded again.
AwardPot_again(h, awards) ==
  /\ hands[h].status # "undealt"
  /\ DOMAIN awards # {} /\ DOMAIN awards \subseteq hands[h].players
  /\ hands' = [hands EXCEPT ![h].status = "complete", ![h].awards = awards]
  /\ UNCHANGED <<players, table, started, ended, delivered, commands, refused>>

\* PotAwarded and HandComplete together.  Who may be awarded what within the
\* hand is in module Hand.
AwardPot(h, awards) ==
  /\ hands[h].status \notin {"undealt", "complete"}
  /\ DOMAIN awards # {} /\ DOMAIN awards \subseteq hands[h].players
  /\ hands' = [hands EXCEPT ![h].status = "complete", ![h].awards = awards]
  /\ UNCHANGED <<players, table, started, ended, delivered, commands, refused>>

-----------------------------------------------------------------------------
(***************************************************************************)
(* The sagas: the commands each makes of the event of hand h.  Each is     *)
(* written twice, in its main.cpp, which runs, and as a handler for an     *)
(* event router that nothing uses; they differ in DealTableRoot only.      *)
(***************************************************************************)
\* Fault: the root of the hand, as table_hand_saga.cpp has it.
DealTableRoot_hand(h) == h

\* The table_root that DealCards carries: the table's.
DealTableRoot(h) == 0

DealCommands(h, n) ==
  {[type |-> "DealCards", hand |-> h, nth |-> n,
    table_root |-> DealTableRoot(h), players |-> started[h]]}

EndCommands(h, n) ==
  {[type |-> "EndHand", hand |-> h, nth |-> n,
    table_root |-> hands[h].table_root, results |-> hands[h].awards]}

\* Fault: the first winner only.
DepositCommands_one(h, n) ==
  {[type |-> "DepositFunds", hand |-> h, nth |-> n, player |-> w,
    amount |-> hands[h].awards[w]] :
     w \in {CHOOSE w \in DOMAIN hands[h].awards : TRUE}}

DepositCommands(h, n) ==
  {[type |-> "DepositFunds", hand |-> h, nth |-> n, player |-> w,
    amount |-> hands[h].awards[w]] : w \in DOMAIN hands[h].awards}

\* Fault: the key is used undecoded.
Unhex_kept(k) == k

\* The key of a stack change read as hex digits: a raw root is none, and if
\* its bytes happen to be hex digits they are those of a root nobody has.
Unhex(k) == IF k[1] = "hex" THEN k[2] ELSE Stranger

ReleaseCommands(h, n) ==
  {[type |-> "ReleaseFunds", hand |-> h, nth |-> n, player |-> Unhex(k)] :
     k \in DOMAIN ended[h]}

-----------------------------------------------------------------------------
(***************************************************************************)
(* The framework hands a saga an event, for the first time or again.       *)
(***************************************************************************)
Repeated == {x \in Sagas \X Hands : delivered[x[1]][x[2]] > 1}

Handed(s, h) ==
  /\ \/ delivered[s][h] = 0
     \/ delivered[s][h] = 1 /\ Cardinality(Repeated) < MaxRepeats
  /\ delivered' = [delivered EXCEPT ![s][h] = @ + 1]
  /\ UNCHANGED aggregates

Nth(s, h) == delivered[s][h] + 1

TableHandSaga(h) ==
  /\ started[h] # {}
  /\ Handed("table-hand", h)
  /\ commands' = commands \cup DealCommands(h, Nth("table-hand", h))

HandTableSaga(h) ==
  /\ hands[h].status = "complete"
  /\ Handed("hand-table", h)
  /\ commands' = commands \cup EndCommands(h, Nth("hand-table", h))

HandPlayerSaga(h) ==
  /\ hands[h].status = "complete"
  /\ Handed("hand-player", h)
  /\ commands' = commands \cup DepositCommands(h, Nth("hand-player", h))

\* std::stoi throws at a key that is no hex, and nothing is sent at all.
TablePlayerSaga(h) ==
  /\ ended[h] # NoChanges
  /\ Handed("table-player", h)
  /\ \/ commands' = commands \cup ReleaseCommands(h, Nth("table-player", h))
     \/ /\ \E k \in DOMAIN ended[h] : Unhex(k) = Stranger
        /\ UNCHANGED commands

-----------------------------------------------------------------------------
(***************************************************************************)
(* A command reaches its aggregate, which accepts or refuses it.           *)
(***************************************************************************)
Arrives(type, c) ==
  /\ c.type = type
  /\ commands' = commands \ {c}

\* Fault: a hand is dealt although it was dealt before.
handle_deal_again(hand, c) ==
  {d \in {[status |-> "betting", players |-> c.players,
           table_root |-> c.table_root, awards |-> NoAwards]} :
     \E p, q \in c.players : p # q}

\* The hand that c deals, if it may.
handle_deal(hand, c) ==
  {d \in {[status |-> "betting", players |-> c.players,
           table_root |-> c.table_root, awards |-> NoAwards]} :
     /\ hand.status = "undealt"
     /\ \E p, q \in c.players : p # q}

DealCards(c) ==
  /\ Arrives("DealCards", c)
  /\ \/ \E d \in handle_deal(hands[c.hand], c) :
          hands' = [hands EXCEPT ![c.hand] = d]
     \/ handle_deal(hands[c.hand], c) = {} /\ UNCHANGED hands
  /\ UNCHANGED <<players, table, started, ended, delivered, refused>>

\* An aggregate with another root than the table's was never created.
EndHand(c) ==
  LET events == handle_end_hand(IF c.table_root = 0 THEN table ELSE NewTable,
                                c.hand, c.results)
  IN  /\ Arrives("EndHand", c)
      /\ \/ \E e \in events :
              /\ table' = apply_hand_ended(table, e)
              /\ ended' = [ended EXCEPT ![e.hand_root] = e.stack_changes]
         \/ events = {} /\ UNCHANGED <<table, ended>>
      /\ UNCHANGED <<players, hands, started, delivered, refused>>

DepositFunds(c) ==
  LET events == handle_deposit(players[c.player], c.amount)
  IN  /\ Arrives("DepositFunds", c)
      /\ \/ \E e \in events :
              /\ players' = [players EXCEPT ![c.player] = apply_event(@, e)]
              /\ UNCHANGED refused
         \/ /\ events = {}
            /\ refused' = [refused EXCEPT ![c.player] = @ + c.amount]
            /\ UNCHANGED players
      /\ UNCHANGED <<table, hands, started, ended, delivered>>

\* Nobody registered as the stranger, so that the release is always refused.
ReleaseFunds(c) ==
  /\ Arrives("ReleaseFunds", c)
  /\ handle_release(NewPlayer, c.hand) = {}
  /\ UNCHANGED <<players, table, hands, started, ended, delivered, refused>>

-----------------------------------------------------------------------------
Client ==
  \/ \E p \in Players :
       \/ RegisterPlayer(p)
       \/ \E buy_in \in BuyIns : JoinTable(p, buy_in)
  \/ \E max_players \in 0 .. MaxSeats + 1, min_buy_in, max_buy_in \in BuyIns :
       CreateTable(max_players, min_buy_in, max_buy_in)
  \/ StartHand
  \/ \E h \in Hands, awards \in AwardsType : AwardPot(h, awards)

Saga(h) ==
  TableHandSaga(h) \/ HandTableSaga(h) \/ HandPlayerSaga(h) \/ TablePlayerSaga(h)

Arrival(c) == DealCards(c) \/ EndHand(c) \/ DepositFunds(c) \/ ReleaseFunds(c)

Next ==
  \/ Client
  \/ \E h \in Hands : Saga(h)
  \/ \E c \in commands : Arrival(c)

\* What the framework owes hand h: to hand its events to the sagas for the
\* first time, and to carry the commands that they then send.
Owed(h) ==
  \/ delivered["table-hand"][h] = 0 /\ TableHandSaga(h)
  \/ delivered["hand-table"][h] = 0 /\ HandTableSaga(h)
  \/ delivered["hand-player"][h] = 0 /\ HandPlayerSaga(h)
  \/ delivered["table-player"][h] = 0 /\ TablePlayerSaga(h)
  \/ \E c \in commands : c.hand = h /\ c.nth = 1 /\ Arrival(c)

\* As long as it owes something it gets on with it; a hand owes so many things
\* and no more, so that each gets done.  Clients need do nothing.
Fairness == \A h \in Hands : WF_vars(Owed(h))

Spec == Init /\ [][Next]_vars

FairSpec == Spec /\ Fairness

-----------------------------------------------------------------------------
\* Every variable has its type.
TypeOK ==
  /\ players \in [Players -> PlayerType]
  /\ table \in TableType
  /\ hands \in [Hands -> HandType]
  /\ started \in [Hands -> SUBSET Players]
  /\ ended \in [Hands -> ChangesType]
  /\ delivered \in [Sagas -> [Hands -> Nat]]
  /\ commands \subseteq CommandType
  /\ refused \in [Players -> Int]

\* Of a table's hands one at most is not complete, the last one started and
\* only while the table is in it, although table and hand hear of each other
\* through sagas only, late and twice (end_hand_handler.cpp:20-25,
\* deal_handler.cpp:16, hand_table_saga.cpp, table/saga-hand main.cpp).
OneHandAtATime ==
  \A h \in Hands :
    hands[h].status # "complete" =>
      IF h <= table.hand_count
      THEN table.status = "in_hand" /\ h = table.current_hand_root
      ELSE hands[h].status = "undealt"

\* What the table records of a hand is what the hand paid, to whom it dealt,
\* and it deals to the players the table named (end_hand_handler.cpp:24-34,
\* hand_table_saga.cpp:22-27, table/saga-hand main.cpp:48-54).
EndsAsPaid ==
  \A h \in Hands :
    /\ hands[h].status # "undealt" => hands[h].players = started[h]
    /\ ended[h] # NoChanges =>
         ended[h] = [k \in {Raw(w) : w \in DOMAIN hands[h].awards}
                       |-> hands[h].awards[k[2]]]

\* EndHand for hand h is on its way to the table, or the saga that sends it
\* is still to be handed HandComplete.
EndToCome(h) ==
  \/ delivered["hand-table"][h] = 0
  \/ \E c \in commands : c.type = "EndHand" /\ c.hand = h /\ c.table_root = 0

DealToCome(h) ==
  \/ delivered["table-hand"][h] = 0
  \/ \E c \in commands : c.type = "DealCards" /\ c.hand = h

\* A table in a hand waits for something that is to come: the deal, the award,
\* or the end of the hand.  If it did not, nobody could leave it and no hand
\* start again (leave_handler.cpp:27, start_hand_handler.cpp:41).
NeverStuck ==
  table.status = "in_hand" =>
    LET h == table.current_hand_root
    IN  /\ hands[h].status = "undealt" => DealToCome(h)
        /\ hands[h].status # "undealt" => hands[h].table_root = 0
        /\ hands[h].status = "complete" => EndToCome(h)

AwardOf(h, p) == IF p \in DOMAIN hands[h].awards THEN hands[h].awards[p] ELSE 0

\* Deposits of what p won in hand h that are on their way, and how many arrived.
Coming(h, p) ==
  {c \in commands : c.type = "DepositFunds" /\ c.hand = h /\ c.player = p}
Arrived(h, p) == delivered["hand-player"][h] - Cardinality(Coming(h, p))

\* Every player's bankroll is what he won, as often as the saga was handed
\* PotAwarded: nothing else makes or loses money, save winnings refused because
\* the winner never registered or the award was not positive (hand/saga-player
\* main.cpp:33-54, deposit_handler.cpp:13-24).
MoneyAccounted ==
  \A p \in Players :
    players[p].bankroll + refused[p] =
      SumTo([i \in 0 .. MaxHands - 1 |-> AwardOf(i + 1, p) * Arrived(i + 1, p)],
            MaxHands)

\* Nothing is owed to hand h: if it started it was dealt, and if it is complete
\* the table moved on and every winner was sent what he won.
Settled(h) ==
  /\ started[h] # {} => hands[h].status # "undealt"
  /\ hands[h].status = "complete" =>
       /\ ended[h] # NoChanges
       /\ \A w \in DOMAIN hands[h].awards : Arrived(h, w) > 0

\* Again and again all hands are settled: every hand that starts is dealt and
\* every hand that is paid is settled in the end, whatever clients do.
EveryHandSettles == []<>(\A h \in Hands : Settled(h))

-----------------------------------------------------------------------------
(***************************************************************************)
(* The sagas join table and hands to one cycle.                            *)
(***************************************************************************)
Phase ==
  IF table.status # "in_hand" THEN "open"
  ELSE IF hands[table.current_hand_root].status = "complete" THEN "paid"
  ELSE "playing"

Cycle == INSTANCE HandCycle WITH hands <- table.hand_count, phase <- Phase

\* Table, hands and sagas together go through the cycle of module HandCycle.
ImplementsCycle == Cycle!Spec
=============================================================================
