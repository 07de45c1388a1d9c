----------------------------- MODULE RoomProofs -----------------------------
(***************************************************************************)
(* The safety of the card room, for any number of players, seats and       *)
(* hands, any awards, and any number of events handed twice.               *)
(*                                                                         *)
(* The inductive invariant says of every command on its way what the saga  *)
(* said of it: it carries what its event recorded, and the event still     *)
(* stands.  So a late or repeated command is refused by the guard that     *)
(* looks at the hand, and the first one is accepted.  Every step then is   *)
(* one of module HandCycle or none, and the money adds up: MoneyInv, which *)
(* counts the deposits on their way, is an invariant on top of IInv.       *)
(***************************************************************************)
EXTENDS Room, SumLemmas, FiniteSetTheorems

\* The hand that runs is the last one started, and nobody sits twice.
TableSound ==
  /\ table.hand_count <= MaxHands
  /\ table.status = "in_hand" => /\ table.current_hand_root = table.hand_count
                                 /\ table.hand_count >= 1
  /\ \A i, j \in Positions :
       table.seat[i] # Nobody /\ table.seat[i] = table.seat[j] => i = j

\* A hand that started names two players at least, and one that did not names
\* none and no saga was told of it.
StartedSound ==
  \A h \in Hands :
    /\ h <= table.hand_count => \E p, q \in started[h] : p # q
    /\ ~ h <= table.hand_count => started[h] = {} /\ delivered["table-hand"][h] = 0

\* A hand is what the table started and the saga dealt, and while it is not
\* complete nobody was told that it is.
HandsSound ==
  \A h \in Hands :
    /\ hands[h].status # "undealt" => /\ h <= table.hand_count
                                      /\ hands[h].players = started[h]
                                      /\ hands[h].table_root = 0
    /\ hands[h].status # "complete" => /\ delivered["hand-table"][h] = 0
                                       /\ delivered["hand-player"][h] = 0
                                       /\ ended[h] = NoChanges

ChangesOf(awards) == [k \in {Raw(w) : w \in DOMAIN awards} |-> awards[k[2]]]

EndedSound ==
  \A h \in Hands : ended[h] # NoChanges => ended[h] = ChangesOf(hands[h].awards)

\* Every command says what its event said.
DealsSound ==
  \A c \in commands : c.type = "DealCards" =>
    /\ c.hand \in Hands /\ c.hand <= table.hand_count
    /\ c.players = started[c.hand]
    /\ c.table_root = 0

EndsSound ==
  \A c \in commands : c.type = "EndHand" =>
    /\ c.hand \in Hands /\ hands[c.hand].status = "complete"
    /\ c.results = hands[c.hand].awards
    /\ c.table_root = 0

DepositsSound ==
  \A c \in commands : c.type = "DepositFunds" =>
    /\ c.hand \in Hands /\ hands[c.hand].status = "complete"
    /\ c.player \in DOMAIN hands[c.hand].awards
    /\ c.amount = hands[c.hand].awards[c.player]
    /\ c.nth <= delivered["hand-player"][c.hand]

IInv ==
  /\ TypeOK
  /\ TableSound
  /\ StartedSound
  /\ HandsSound
  /\ EndedSound
  /\ OneHandAtATime
  /\ NeverStuck
  /\ DealsSound
  /\ EndsSound
  /\ DepositsSound

-----------------------------------------------------------------------------
(***************************************************************************)
(* Facts about the operators of the room.                                  *)
(***************************************************************************)
\* Going round the table one stays at it.
LEMMA NextInIsMember ==
  ASSUME NEW S \in SUBSET Nat, NEW p \in S
  PROVE  NextIn(S, p) \in S /\ Least(S) \in S
<1>1. \A T \in SUBSET Nat : T # {} => Least(T) \in T
  BY LeastElement DEF Least
<1>2. {q \in S : q > p} \in SUBSET S /\ {q \in S : q > p} \in SUBSET Nat
  OBVIOUS
<1> QED BY <1>1, <1>2 DEF NextIn

\* A type of command has its type, and the fields that go with it.
LEMMA CommandFields ==
  ASSUME NEW c \in CommandType
  PROVE  /\ c.hand \in Hands /\ c.nth \in Nat
         /\ c.type \in {"DealCards", "EndHand", "DepositFunds", "ReleaseFunds"}
         /\ c.type = "DealCards" =>
              c.table_root \in Tables /\ c.players \in SUBSET Players
         /\ c.type = "EndHand" =>
              c.table_root \in Tables /\ c.results \in AwardsType
         /\ c.type = "DepositFunds" => c.player \in Players /\ c.amount \in Awards
BY DEF CommandType

LEMMA AwardsOfType ==
  ASSUME NEW a \in AwardsType
  PROVE  /\ DOMAIN a \in SUBSET Players
         /\ \A w \in DOMAIN a : a[w] \in Awards
         /\ ChangesOf(a) \in ChangesType
<1>1. PICK W \in SUBSET Players : a \in [W -> Awards]
  BY DEF AwardsType
<1>2. ChangesOf(a) \in [{Raw(w) : w \in W} -> Awards]
  BY <1>1 DEF ChangesOf, Raw
<1> QED BY <1>1, <1>2 DEF ChangesType

LEMMA NoAwardsType == NoAwards \in AwardsType /\ NoChanges \in ChangesType
<1>1. NoAwards \in [{} -> Awards] /\ {} \in SUBSET Players
  BY DEF NoAwards
<1>2. NoChanges \in [{Raw(w) : w \in {}} -> Awards]
  BY DEF NoChanges
<1> QED BY <1>1, <1>2 DEF AwardsType, ChangesType

\* A step that changes no more than players, and may take deposits and
\* releases away, keeps the invariant.
LEMMA Frame ==
  ASSUME IInv, TypeOK', UNCHANGED <<table, hands, started, ended, delivered>>,
         commands' \subseteq commands,
         \A c \in commands : c.type \in {"DealCards", "EndHand"} => c \in commands'
  PROVE  IInv'
<1>1. TableSound' /\ StartedSound' /\ HandsSound' /\ EndedSound' /\ OneHandAtATime'
  BY DEF IInv, TableSound, StartedSound, HandsSound, EndedSound, OneHandAtATime
<1>2. DealsSound' /\ EndsSound' /\ DepositsSound'
  BY DEF IInv, DealsSound, EndsSound, DepositsSound
<1>3. \A h : DealToCome(h) => DealToCome(h)'
  BY DEF DealToCome
<1>4. \A h : EndToCome(h) => EndToCome(h)'
  BY DEF EndToCome
<1>5. NeverStuck'
  BY <1>3, <1>4 DEF IInv, NeverStuck
<1> QED BY <1>1, <1>2, <1>5 DEF IInv

LEMMA InitIInv == Init => IInv
<1> SUFFICES ASSUME Init PROVE IInv
  OBVIOUS
<1> USE DEF Init
<1>1. table \in TableType
  <2>1. 0 \in 0 .. MaxSeats /\ 0 \in Positions
    BY MaxSeatsAssumption DEF Positions
  <2> QED BY <2>1 DEF NewTable, TableType
<1>2. NewPlayer \in PlayerType
  <2>1. [t \in Tables |-> 0] \in [Tables -> Nat]
    OBVIOUS
  <2> QED BY <2>1 DEF NewPlayer, PlayerType
<1>3. NewHand \in HandType
  <2>1. 0 \in Tables
    BY BoundsAssumption DEF Tables
  <2> QED BY <2>1, NoAwardsType DEF NewHand, HandType
<1>4. TypeOK
  BY <1>1, <1>2, <1>3, NoAwardsType DEF TypeOK
<1>5. /\ table.hand_count = 0 /\ table.status = "none"
      /\ \A i \in Positions : table.seat[i] = Nobody
  BY DEF NewTable
<1>6. TableSound
  BY <1>5, BoundsAssumption DEF TableSound
<1>7. \A h \in Hands : ~ h <= table.hand_count
  BY <1>5, BoundsAssumption DEF Hands
<1>8. StartedSound /\ HandsSound /\ OneHandAtATime
  BY <1>7 DEF StartedSound, HandsSound, OneHandAtATime, NewHand, Sagas
<1>9. EndedSound /\ NeverStuck
  BY <1>5 DEF EndedSound, NeverStuck
<1>10. DealsSound /\ EndsSound /\ DepositsSound
  BY DEF DealsSound, EndsSound, DepositsSound
<1> QED BY <1>4, <1>6, <1>8, <1>9, <1>10 DEF IInv

-----------------------------------------------------------------------------
(***************************************************************************)
(* The commands of clients.                                                *)
(***************************************************************************)
\* A registration or a deposit gives a well-typed player.
LEMMA PlayerAfter ==
  ASSUME NEW s \in PlayerType
  PROVE  /\ \A e \in handle_register(s) :
              apply_event(s, e) \in PlayerType
         /\ \A amount \in Int : \A e \in handle_deposit(s, amount) :
              /\ apply_event(s, e) \in PlayerType
              /\ apply_event(s, e).bankroll = s.bankroll + amount
<1>1. ASSUME NEW e \in handle_register(s)
      PROVE  apply_event(s, e) \in PlayerType
  <2>1. e = [type |-> "PlayerRegistered"]
    BY DEF handle_register
  <2>2. apply_event(s, e)
          = [s EXCEPT !.exists = TRUE, !.bankroll = 0, !.reserved_funds = 0]
    BY <2>1 DEF apply_event, BalanceEvents
  <2>3. apply_event(s, e) = [exists |-> TRUE, bankroll |-> 0, reserved_funds |-> 0,
                             table_reservations |-> s.table_reservations]
    BY <2>2 DEF PlayerType
  <2>4. TRUE \in BOOLEAN /\ 0 \in Int /\ s.table_reservations \in [Tables -> Nat]
    BY DEF PlayerType
  <2> QED BY <2>3, <2>4 DEF PlayerType
<1>2. ASSUME NEW amount \in Int, NEW e \in handle_deposit(s, amount)
      PROVE  /\ apply_event(s, e) \in PlayerType
             /\ apply_event(s, e).bankroll = s.bankroll + amount
  <2>1. e.type = "FundsDeposited" /\ e.new_balance = s.bankroll + amount
    BY DEF handle_deposit, BalanceEvent
  <2>2. apply_event(s, e) = [s EXCEPT !.bankroll = s.bankroll + amount]
    BY <2>1 DEF apply_event, BalanceEvents
  <2>3. apply_event(s, e)
          = [exists |-> s.exists, bankroll |-> s.bankroll + amount,
             reserved_funds |-> s.reserved_funds,
             table_reservations |-> s.table_reservations]
    BY <2>2 DEF PlayerType
  <2>4. /\ s.exists \in BOOLEAN /\ s.bankroll + amount \in Int
        /\ s.table_reservations \in [Tables -> Nat]
    BY DEF PlayerType
  <2> QED BY <2>3, <2>4 DEF PlayerType
<1> QED BY <1>1, <1>2

LEMMA RegisterIInv ==
  ASSUME IInv, NEW p \in Players, RegisterPlayer(p)
  PROVE  IInv'
<1>1. PICK e \in handle_register(players[p]) :
        players' = [players EXCEPT ![p] = apply_event(players[p], e)]
  BY DEF RegisterPlayer
<1>2. UNCHANGED <<table, hands, started, ended, delivered, commands, refused>>
  BY DEF RegisterPlayer
<1>3. apply_event(players[p], e) \in PlayerType
  BY <1>1, PlayerAfter DEF IInv, TypeOK
<1>4. TypeOK'
  BY <1>1, <1>2, <1>3 DEF IInv, TypeOK
<1> QED BY <1>2, <1>4, Frame

\* A step that changes no more than who sits where keeps the invariant as long
\* as nobody sits twice.
LEMMA TableFrame ==
  ASSUME IInv, table' \in TableType,
         table'.hand_count = table.hand_count,
         table'.current_hand_root = table.current_hand_root,
         table'.status = "in_hand" <=> table.status = "in_hand",
         \A i, j \in Positions :
           table'.seat[i] # Nobody /\ table'.seat[i] = table'.seat[j] => i = j,
         UNCHANGED <<players, hands, started, ended, delivered, commands, refused>>
  PROVE  IInv'
<1>1. TypeOK'
  BY DEF IInv, TypeOK
<1>2. TableSound' /\ StartedSound' /\ HandsSound' /\ EndedSound' /\ OneHandAtATime'
  BY DEF IInv, TableSound, StartedSound, HandsSound, EndedSound, OneHandAtATime
<1>3. DealsSound' /\ EndsSound' /\ DepositsSound'
  BY DEF IInv, DealsSound, EndsSound, DepositsSound
<1>4. NeverStuck'
  BY DEF IInv, NeverStuck, DealToCome, EndToCome
<1> QED BY <1>1, <1>2, <1>3, <1>4 DEF IInv

LEMMA CreateIInv ==
  ASSUME IInv, NEW max_players \in 0 .. MaxSeats + 1,
         NEW min_buy_in \in BuyIns, NEW max_buy_in \in BuyIns,
         CreateTable(max_players, min_buy_in, max_buy_in)
  PROVE  IInv'
<1>1. /\ table.status = "none" /\ max_players \in 2 .. MaxSeats
      /\ table' = [table EXCEPT !.status = "waiting", !.min_buy_in = min_buy_in,
                     !.max_buy_in = max_buy_in, !.max_players = max_players]
  <2>1. PICK e \in handle_create(table, max_players, min_buy_in, max_buy_in) :
          table' = apply_table_created(table, e)
    BY DEF CreateTable
  <2>2. /\ table.status = "none" /\ max_players \in 2 .. MaxSeats
        /\ e.max_players = max_players /\ e.min_buy_in = min_buy_in
        /\ e.max_buy_in = max_buy_in
    BY DEF handle_create
  <2> QED BY <2>1, <2>2 DEF apply_table_created
<1>2. UNCHANGED <<players, hands, started, ended, delivered, commands, refused>>
  BY DEF CreateTable
<1>3. table \in TableType /\ max_players \in 0 .. MaxSeats
      /\ min_buy_in \in Nat /\ max_buy_in \in Nat
  BY <1>1, AmountsAssumption, MaxSeatsAssumption DEF IInv, TypeOK
<1>4. table' \in TableType
  BY <1>1, <1>3 DEF TableType
<1>5. /\ table'.seat = table.seat /\ table'.status = "waiting"
      /\ table'.hand_count = table.hand_count
      /\ table'.current_hand_root = table.current_hand_root
  BY <1>1, <1>3 DEF TableType
<1>6. \A i, j \in Positions :
        table'.seat[i] # Nobody /\ table'.seat[i] = table'.seat[j] => i = j
  BY <1>5 DEF IInv, TableSound
<1> QED BY <1>1, <1>2, <1>4, <1>5, <1>6, TableFrame

LEMMA JoinIInv ==
  ASSUME IInv, NEW p \in Players, NEW buy_in \in BuyIns, JoinTable(p, buy_in)
  PROVE  IInv'
<1>1. PICK e \in handle_join(table, p, buy_in, 0) :
        table' = apply_player_joined(table, e)
  BY DEF JoinTable
<1>2. UNCHANGED <<players, hands, started, ended, delivered, commands, refused>>
  BY DEF JoinTable
<1>3. e.player = p /\ e.stack = buy_in /\ SeatsOf(table, p) = {}
  BY <1>1 DEF handle_join
<1> DEFINE i == e.position
<1>4. table' = [table EXCEPT !.seat[i] = p, !.stack[i] = buy_in,
                             !.sitting_out = @ \ {i}]
  BY <1>1, <1>3 DEF apply_player_joined
<1> HIDE DEF i
<1> DEFINE seat  == [table.seat EXCEPT ![i] = p]
           stack == [table.stack EXCEPT ![i] = buy_in]
           out   == table.sitting_out \ {i}
<1>5. table \in TableType
  BY DEF IInv, TypeOK
<1>6. /\ seat \in [Positions -> Players \cup {Nobody}]
      /\ stack \in [Positions -> Int]
      /\ out \in SUBSET Positions
  <2>1. /\ table.seat \in [Positions -> Players \cup {Nobody}]
        /\ table.stack \in [Positions -> Int]
        /\ table.sitting_out \in SUBSET Positions
    BY <1>5 DEF TableType
  <2>2. p \in Players \cup {Nobody} /\ buy_in \in Int
    BY AmountsAssumption
  <2>3. seat \in [Positions -> Players \cup {Nobody}]
    BY <2>1, <2>2
  <2>4. stack \in [Positions -> Int]
    BY <2>1, <2>2
  <2> QED BY <2>1, <2>3, <2>4
<1>7. table' = [table EXCEPT !.seat = seat, !.stack = stack, !.sitting_out = out]
  BY <1>4, <1>5 DEF TableType
<1>8. \A j, k \in Positions : seat[j] # Nobody /\ seat[j] = seat[k] => j = k
  <2>1. \A j \in Positions : table.seat[j] # p
    BY <1>3 DEF SeatsOf
  <2>2. \A j, k \in Positions : table.seat[j] # Nobody /\ table.seat[j] = table.seat[k] => j = k
    BY DEF IInv, TableSound
  <2> QED BY <2>1, <2>2, <1>5 DEF TableType
<1> HIDE DEF seat, stack, out
<1>9. table' \in TableType
  BY <1>5, <1>6, <1>7 DEF TableType
<1>10. /\ table'.seat = seat /\ table'.status = table.status
       /\ table'.hand_count = table.hand_count
       /\ table'.current_hand_root = table.current_hand_root
  BY <1>5, <1>7 DEF TableType
<1> QED BY <1>2, <1>8, <1>9, <1>10, TableFrame

\* A new hand starts: the one before is complete and the table not in it.
LEMMA StartIInv ==
  ASSUME IInv, StartHand
  PROVE  IInv'
<1>1. PICK e \in handle_start_hand(table) :
        /\ e.hand_number <= MaxHands
        /\ table' = apply_hand_started(table, e)
        /\ started' = [started EXCEPT ![e.hand_root] = {table.seat[i] : i \in e.active}]
  BY DEF StartHand
<1>2. UNCHANGED <<players, hands, ended, delivered, commands, refused>>
  BY DEF StartHand
<1>3. /\ table.status = "waiting"
      /\ \E p, q \in Active(table) : p # q
      /\ e.hand_number = table.hand_count + 1
      /\ e.hand_root = table.hand_count + 1
      /\ e.dealer = next_dealer_position(table)
      /\ e.active = Active(table)
  BY <1>1 DEF handle_start_hand
<1>4. /\ table \in TableType
      /\ Taken(table) \in SUBSET Nat /\ Taken(table) \in SUBSET Positions
  BY MaxSeatsAssumption DEF IInv, TypeOK, Taken, Positions
<1>5. e.dealer \in Positions
  <2>1. PICK q \in Taken(table) : TRUE
    BY <1>3 DEF Active
  <2>2. Least(Taken(table)) \in Taken(table)
    BY <1>4, <2>1, NextInIsMember
  <2>3. next_dealer_position(table) \in Taken(table)
    BY <1>4, <2>2, NextInIsMember DEF next_dealer_position
  <2> QED BY <1>3, <1>4, <2>3
<1> DEFINE n == table.hand_count + 1
           named == {table.seat[i] : i \in Active(table)}
<1>6. n \in Hands /\ n \in Nat /\ table.hand_count \in Nat
  BY <1>1, <1>3, <1>4 DEF TableType, Hands
<1>7. table' = [table EXCEPT !.status = "in_hand", !.hand_count = n,
                  !.current_hand_root = n, !.dealer_position = e.dealer]
  BY <1>1, <1>3 DEF apply_hand_started
<1>8. started' = [started EXCEPT ![n] = named]
  BY <1>1, <1>3
<1>9. named \in SUBSET Players /\ \E p, q \in named : p # q
  <2>1. \A i \in Active(table) : i \in Positions /\ table.seat[i] # Nobody
    BY DEF Active, Taken
  <2>2. \A i, j \in Active(table) : i # j => table.seat[i] # table.seat[j]
    BY <2>1 DEF IInv, TableSound
  <2>3. \A i \in Active(table) : table.seat[i] \in Players
    BY <2>1, <1>4 DEF TableType
  <2>4. PICK i, j \in Active(table) : i # j
    BY <1>3
  <2>5. table.seat[i] \in named /\ table.seat[j] \in named
    OBVIOUS
  <2>6. named \in SUBSET Players
    BY <2>3
  <2> HIDE DEF named
  <2> QED BY <2>2, <2>4, <2>5, <2>6
<1> HIDE DEF named
<1>10. table' \in TableType
  <2> HIDE DEF n
  <2> QED BY <1>4, <1>5, <1>6, <1>7 DEF TableType
<1>11. /\ table'.status = "in_hand" /\ table'.hand_count = n
       /\ table'.current_hand_root = n /\ table'.seat = table.seat
  <2> HIDE DEF n
  <2> QED BY <1>4, <1>7 DEF TableType
<1>12. TypeOK'
  BY <1>2, <1>6, <1>8, <1>9, <1>10 DEF IInv, TypeOK
<1>13. TableSound'
  BY <1>1, <1>3, <1>6, <1>11 DEF IInv, TableSound
<1>14. started \in [Hands -> SUBSET Players] /\ Hands \subseteq Nat
  BY DEF IInv, TypeOK, Hands
<1>15. \A h \in Hands : (h <= n <=> h <= table.hand_count \/ h = n)
  BY <1>6, <1>14
<1>16. /\ started'[n] = named /\ ~ n <= table.hand_count
       /\ \A h \in Hands : h # n => started'[h] = started[h]
  BY <1>6, <1>8, <1>14
<1>17. StartedSound'
  <2> HIDE DEF n
  <2> QED BY <1>2, <1>9, <1>11, <1>15, <1>16 DEF IInv, StartedSound
<1>18. HandsSound' /\ EndedSound'
  <2> HIDE DEF n
  <2> QED BY <1>2, <1>11, <1>15, <1>16 DEF IInv, HandsSound, EndedSound
<1>19. hands[n].status = "undealt" /\ DealToCome(n)
  <2>1. hands[n].status = "undealt"
    BY <1>6, <1>16 DEF IInv, HandsSound, TypeOK, HandType
  <2>2. delivered["table-hand"][n] = 0
    BY <1>6, <1>16 DEF IInv, StartedSound
  <2> QED BY <2>1, <2>2 DEF DealToCome
<1>20. OneHandAtATime'
  <2> HIDE DEF n
  <2> QED BY <1>2, <1>3, <1>11, <1>15, <1>19 DEF IInv, OneHandAtATime
<1>21. NeverStuck'
  BY <1>2, <1>11, <1>19 DEF NeverStuck, DealToCome
<1>22. DealsSound' /\ EndsSound' /\ DepositsSound'
  <2> HIDE DEF n
  <2> QED BY <1>2, <1>11, <1>15, <1>16 DEF IInv, DealsSound, EndsSound, DepositsSound
<1> QED BY <1>12, <1>13, <1>17, <1>18, <1>20, <1>21, <1>22 DEF IInv

\* The pot of a hand is awarded: no saga was told yet.
LEMMA AwardIInv ==
  ASSUME IInv, NEW h \in Hands, NEW awards \in AwardsType, AwardPot(h, awards)
  PROVE  IInv'
<1>1. /\ hands[h].status \notin {"undealt", "complete"}
      /\ hands' = [hands EXCEPT ![h].status = "complete", ![h].awards = awards]
      /\ UNCHANGED <<players, table, started, ended, delivered, commands, refused>>
  BY DEF AwardPot
<1>2. hands \in [Hands -> HandType] /\ hands[h].status = "betting"
  BY <1>1 DEF IInv, TypeOK, HandType
<1>3. /\ hands'[h].status = "complete" /\ hands'[h].awards = awards
      /\ hands'[h].players = hands[h].players
      /\ hands'[h].table_root = hands[h].table_root
      /\ \A i \in Hands : i # h => hands'[i] = hands[i]
  BY <1>1, <1>2 DEF HandType
<1>4. TypeOK'
  <2>1. hands'[h] = [status |-> "complete", players |-> hands[h].players,
                     table_root |-> hands[h].table_root, awards |-> awards]
    BY <1>1, <1>2 DEF HandType
  <2>2. hands'[h] \in HandType
    BY <1>2, <2>1 DEF HandType
  <2>3. hands' \in [Hands -> HandType]
    BY <1>1, <1>2, <1>3, <2>2
  <2> QED BY <1>1, <2>3 DEF IInv, TypeOK
<1>5. TableSound' /\ StartedSound'
  BY <1>1 DEF IInv, TableSound, StartedSound
<1>6. HandsSound' /\ EndedSound' /\ OneHandAtATime'
  BY <1>1, <1>2, <1>3 DEF IInv, HandsSound, EndedSound, OneHandAtATime
<1>7. DealsSound' /\ EndsSound' /\ DepositsSound'
  BY <1>1, <1>2, <1>3 DEF IInv, DealsSound, EndsSound, DepositsSound
<1>8. NeverStuck'
  <2>1. delivered["hand-table"][h] = 0 /\ hands[h].table_root = 0
    BY <1>2 DEF IInv, HandsSound
  <2>2. h <= table.hand_count
    BY <1>2 DEF IInv, HandsSound
  <2>3. table.status = "in_hand" /\ h = table.current_hand_root
    BY <1>2, <2>2 DEF IInv, OneHandAtATime
  <2> QED BY <1>1, <1>3, <2>1, <2>3 DEF NeverStuck, EndToCome
<1> QED BY <1>4, <1>5, <1>6, <1>7, <1>8 DEF IInv

-----------------------------------------------------------------------------
(***************************************************************************)
(* The sagas.                                                              *)
(***************************************************************************)
\* What a delivery changes, and that it can only bring commands.
LEMMA HandedStep ==
  ASSUME IInv, NEW s \in Sagas, NEW h \in Hands, Handed(s, h),
         NEW more \in SUBSET CommandType, commands' = commands \cup more
  PROVE  /\ UNCHANGED <<players, table, hands, started, ended, refused>>
         /\ TypeOK'
         /\ delivered'[s][h] = delivered[s][h] + 1
         /\ \A r \in Sagas, i \in Hands :
              r # s \/ i # h => delivered'[r][i] = delivered[r][i]
<1>1. /\ UNCHANGED <<players, table, hands, started, ended, refused>>
      /\ delivered' = [delivered EXCEPT ![s][h] = delivered[s][h] + 1]
  BY DEF Handed, aggregates
<1>2. delivered \in [Sagas -> [Hands -> Nat]]
  BY DEF IInv, TypeOK
<1>3. delivered' \in [Sagas -> [Hands -> Nat]]
  BY <1>1, <1>2
<1>4. TypeOK'
  BY <1>1, <1>3 DEF IInv, TypeOK
<1> QED BY <1>1, <1>2, <1>4

\* What a delivery keeps whatever it sends, as long as a saga that is told of a
\* hand's end is told so after the end.
LEMMA HandedKeeps ==
  ASSUME IInv, TypeOK', NEW s \in Sagas, NEW h \in Hands,
         UNCHANGED <<table, hands, started, ended>>,
         commands \subseteq commands',
         delivered'[s][h] = delivered[s][h] + 1,
         \A r \in Sagas, i \in Hands :
           r # s \/ i # h => delivered'[r][i] = delivered[r][i],
         s = "table-hand" => started[h] # {},
         s \in {"hand-table", "hand-player"} => hands[h].status = "complete"
  PROVE  /\ TableSound' /\ StartedSound' /\ HandsSound' /\ EndedSound'
         /\ OneHandAtATime'
<1>1. TableSound' /\ EndedSound' /\ OneHandAtATime'
  BY DEF IInv, TableSound, EndedSound, OneHandAtATime
<1>2. StartedSound'
  BY DEF IInv, StartedSound, Sagas
<1>3. HandsSound'
  BY DEF IInv, HandsSound, Sagas
<1> QED BY <1>1, <1>2, <1>3

\* What is to come still is, when a delivery brings commands and the event
\* that it delivers brings one that does it.
LEMMA StillToCome ==
  ASSUME IInv, NEW s \in Sagas, NEW h \in Hands,
         UNCHANGED <<table, hands>>, commands \subseteq commands',
         \A r \in Sagas, i \in Hands :
           r # s \/ i # h => delivered'[r][i] = delivered[r][i],
         s = "table-hand" => \E c \in commands' : c.type = "DealCards" /\ c.hand = h,
         s = "hand-table" =>
           \E c \in commands' : c.type = "EndHand" /\ c.hand = h /\ c.table_root = 0
  PROVE  NeverStuck'
<1> SUFFICES ASSUME table.status = "in_hand"
             PROVE  LET i == table.current_hand_root
                    IN  /\ hands[i].status = "undealt" => DealToCome(i)'
                        /\ hands[i].status # "undealt" => hands[i].table_root = 0
                        /\ hands[i].status = "complete" => EndToCome(i)'
  BY DEF NeverStuck, DealToCome, EndToCome
<1> DEFINE i == table.current_hand_root
<1>1. i \in Hands
  BY DEF IInv, TableSound, TypeOK, TableType, Hands
<1>2. DealToCome(i) => DealToCome(i)'
  <2>1. CASE s = "table-hand" /\ i = h
    BY <2>1 DEF DealToCome
  <2>2. CASE ~ (s = "table-hand" /\ i = h)
    <3>1. delivered'["table-hand"][i] = delivered["table-hand"][i]
      BY <1>1, <2>2 DEF Sagas
    <3> QED BY <3>1 DEF DealToCome
  <2> QED BY <2>1, <2>2
<1>3. EndToCome(i) => EndToCome(i)'
  <2>1. CASE s = "hand-table" /\ i = h
    BY <2>1 DEF EndToCome
  <2>2. CASE ~ (s = "hand-table" /\ i = h)
    <3>1. delivered'["hand-table"][i] = delivered["hand-table"][i]
      BY <1>1, <2>2 DEF Sagas
    <3> QED BY <3>1 DEF EndToCome
  <2> QED BY <2>1, <2>2
<1> HIDE DEF i
<1>4. /\ hands[i].status = "undealt" => DealToCome(i)
      /\ hands[i].status # "undealt" => hands[i].table_root = 0
      /\ hands[i].status = "complete" => EndToCome(i)
  BY DEF IInv, NeverStuck, i
<1> QED BY <1>2, <1>3, <1>4 DEF i

LEMMA TableHandIInv ==
  ASSUME IInv, NEW h \in Hands, TableHandSaga(h)
  PROVE  IInv'
<1> DEFINE c == [type |-> "DealCards", hand |-> h,
                 nth |-> delivered["table-hand"][h] + 1, table_root |-> 0,
                 players |-> started[h]]
<1>1. /\ started[h] # {} /\ Handed("table-hand", h)
      /\ commands' = commands \cup {c}
  BY DEF TableHandSaga, DealCommands, DealTableRoot, Nth
<1>2. "table-hand" \in Sagas /\ 0 \in Tables
  BY BoundsAssumption DEF Sagas, Tables
<1>3. c \in CommandType
  <2>1. delivered["table-hand"][h] + 1 \in Nat /\ started[h] \in SUBSET Players
    BY <1>2 DEF IInv, TypeOK
  <2> QED BY <1>2, <2>1 DEF CommandType
<1>4. /\ UNCHANGED <<players, table, hands, started, ended, refused>>
      /\ TypeOK'
      /\ delivered'["table-hand"][h] = delivered["table-hand"][h] + 1
      /\ \A r \in Sagas, i \in Hands :
           r # "table-hand" \/ i # h => delivered'[r][i] = delivered[r][i]
  <2> HIDE DEF c
  <2>1. {c} \in SUBSET CommandType
    BY <1>3
  <2> QED BY <1>1, <1>2, <2>1, HandedStep
<1>5. /\ TableSound' /\ StartedSound' /\ HandsSound' /\ EndedSound'
      /\ OneHandAtATime'
  BY <1>1, <1>2, <1>4, HandedKeeps
<1>6. NeverStuck'
  <2>1. c \in commands' /\ c.type = "DealCards" /\ c.hand = h
    BY <1>1
  <2> HIDE DEF c
  <2> QED BY <1>1, <1>2, <1>4, <2>1, StillToCome
<1>7. /\ c.hand = h /\ c.players = started[h] /\ c.table_root = 0
      /\ c.type = "DealCards"
  OBVIOUS
<1>8. h <= table.hand_count
  BY <1>1 DEF IInv, StartedSound
<1> HIDE DEF c
<1>9. DealsSound'
  BY <1>1, <1>4, <1>7, <1>8 DEF IInv, DealsSound
<1>10. EndsSound'
  BY <1>1, <1>4, <1>7 DEF IInv, EndsSound
<1>11. DepositsSound'
  <2>1. \A i \in Hands : delivered'["hand-player"][i] = delivered["hand-player"][i]
    BY <1>4 DEF Sagas
  <2> QED BY <1>1, <1>4, <1>7, <2>1 DEF IInv, DepositsSound
<1> QED BY <1>4, <1>5, <1>6, <1>9, <1>10, <1>11 DEF IInv

LEMMA HandTableIInv ==
  ASSUME IInv, NEW h \in Hands, HandTableSaga(h)
  PROVE  IInv'
<1> DEFINE c == [type |-> "EndHand", hand |-> h,
                 nth |-> delivered["hand-table"][h] + 1,
                 table_root |-> hands[h].table_root, results |-> hands[h].awards]
<1>1. /\ hands[h].status = "complete" /\ Handed("hand-table", h)
      /\ commands' = commands \cup {c}
  BY DEF HandTableSaga, EndCommands, Nth
<1>2. "hand-table" \in Sagas /\ hands[h].table_root = 0
  BY <1>1 DEF Sagas, IInv, HandsSound
<1>3. c \in CommandType
  <2>1. /\ delivered["hand-table"][h] + 1 \in Nat
        /\ hands[h].awards \in AwardsType /\ hands[h].table_root \in Tables
    BY <1>2 DEF IInv, TypeOK, HandType
  <2> QED BY <2>1 DEF CommandType
<1>4. /\ UNCHANGED <<players, table, hands, started, ended, refused>>
      /\ TypeOK'
      /\ delivered'["hand-table"][h] = delivered["hand-table"][h] + 1
      /\ \A r \in Sagas, i \in Hands :
           r # "hand-table" \/ i # h => delivered'[r][i] = delivered[r][i]
  <2> HIDE DEF c
  <2>1. {c} \in SUBSET CommandType
    BY <1>3
  <2> QED BY <1>1, <1>2, <2>1, HandedStep
<1>5. /\ TableSound' /\ StartedSound' /\ HandsSound' /\ EndedSound'
      /\ OneHandAtATime'
  BY <1>1, <1>2, <1>4, HandedKeeps
<1>6. NeverStuck'
  <2>1. c \in commands' /\ c.type = "EndHand" /\ c.hand = h /\ c.table_root = 0
    BY <1>1, <1>2
  <2> HIDE DEF c
  <2> QED BY <1>1, <1>2, <1>4, <2>1, StillToCome
<1>7. /\ c.hand = h /\ c.results = hands[h].awards /\ c.table_root = 0
      /\ c.type = "EndHand"
  BY <1>2
<1> HIDE DEF c
<1>8. DealsSound'
  BY <1>1, <1>4, <1>7 DEF IInv, DealsSound
<1>9. EndsSound'
  BY <1>1, <1>4, <1>7 DEF IInv, EndsSound
<1>10. DepositsSound'
  <2>1. \A i \in Hands : delivered'["hand-player"][i] = delivered["hand-player"][i]
    BY <1>4 DEF Sagas
  <2> QED BY <1>1, <1>4, <1>7, <2>1 DEF IInv, DepositsSound
<1> QED BY <1>4, <1>5, <1>6, <1>8, <1>9, <1>10 DEF IInv

LEMMA HandPlayerIInv ==
  ASSUME IInv, NEW h \in Hands, HandPlayerSaga(h)
  PROVE  IInv'
<1> DEFINE new == DepositCommands(h, delivered["hand-player"][h] + 1)
<1>1. /\ hands[h].status = "complete" /\ Handed("hand-player", h)
      /\ commands' = commands \cup new
  BY DEF HandPlayerSaga, Nth
<1>2. "hand-player" \in Sagas
  BY DEF Sagas
<1>3. delivered["hand-player"][h] + 1 \in Nat /\ hands[h].awards \in AwardsType
  BY <1>2 DEF IInv, TypeOK, HandType
<1>4. \A c \in new : /\ c.type = "DepositFunds" /\ c.hand = h
                     /\ c.nth = delivered["hand-player"][h] + 1
                     /\ c.player \in DOMAIN hands[h].awards
                     /\ c.amount = hands[h].awards[c.player]
  BY DEF DepositCommands
<1>5. new \in SUBSET CommandType
  <2>1. \A w \in DOMAIN hands[h].awards : w \in Players /\ hands[h].awards[w] \in Awards
    BY <1>3, AwardsOfType
  <2> QED BY <1>3, <2>1 DEF CommandType, DepositCommands
<1> HIDE DEF new
<1>6. /\ UNCHANGED <<players, table, hands, started, ended, refused>>
      /\ TypeOK'
      /\ delivered'["hand-player"][h] = delivered["hand-player"][h] + 1
      /\ \A r \in Sagas, i \in Hands :
           r # "hand-player" \/ i # h => delivered'[r][i] = delivered[r][i]
  BY <1>1, <1>2, <1>5, HandedStep
<1>7. /\ TableSound' /\ StartedSound' /\ HandsSound' /\ EndedSound'
      /\ OneHandAtATime'
  BY <1>1, <1>2, <1>6, HandedKeeps
<1>8. NeverStuck'
  BY <1>1, <1>2, <1>6, StillToCome
<1>9. DealsSound' /\ EndsSound'
  BY <1>1, <1>4, <1>6 DEF IInv, DealsSound, EndsSound
<1>10. DepositsSound'
  <2>1. \A i \in Hands : delivered["hand-player"][i] \in Nat
    BY <1>2 DEF IInv, TypeOK
  <2>2. \A i \in Hands : delivered["hand-player"][i] <= delivered'["hand-player"][i]
    BY <1>2, <1>6, <2>1
  <2>3. ASSUME NEW c \in commands', c.type = "DepositFunds"
        PROVE  /\ c.hand \in Hands /\ hands[c.hand].status = "complete"
               /\ c.player \in DOMAIN hands[c.hand].awards
               /\ c.amount = hands[c.hand].awards[c.player]
               /\ c.nth <= delivered'["hand-player"][c.hand]
    <3>1. CASE c \in new
      BY <1>1, <1>3, <1>4, <1>6, <3>1
    <3>2. CASE c \in commands
      <4>1. c.nth \in Nat
        BY <3>2, CommandFields DEF IInv, TypeOK
      <4>2. /\ c.hand \in Hands /\ hands[c.hand].status = "complete"
            /\ c.player \in DOMAIN hands[c.hand].awards
            /\ c.amount = hands[c.hand].awards[c.player]
            /\ c.nth <= delivered["hand-player"][c.hand]
        BY <2>3, <3>2 DEF IInv, DepositsSound
      <4>3. delivered'["hand-player"][c.hand] \in Nat
        BY <1>2, <1>6, <4>2 DEF TypeOK
      <4> QED BY <2>1, <2>2, <4>1, <4>2, <4>3
    <3> QED BY <1>1, <3>1, <3>2
  <2> QED BY <1>6, <2>3 DEF DepositsSound
<1> QED BY <1>6, <1>7, <1>8, <1>9, <1>10 DEF IInv

LEMMA TablePlayerIInv ==
  ASSUME IInv, NEW h \in Hands, TablePlayerSaga(h)
  PROVE  IInv'
<1>1. PICK new \in SUBSET CommandType :
        /\ Handed("table-player", h)
        /\ commands' = commands \cup new
        /\ \A c \in new : c.type = "ReleaseFunds"
  <2> DEFINE sent == ReleaseCommands(h, delivered["table-player"][h] + 1)
  <2>1. /\ Handed("table-player", h)
        /\ commands' = commands \cup sent \/ commands' = commands
        /\ ended[h] # NoChanges
    BY DEF TablePlayerSaga, Nth
  <2>2. \A k \in DOMAIN ended[h] : Unhex(k) = Stranger
    <3>1. DOMAIN ended[h] = {Raw(w) : w \in DOMAIN hands[h].awards}
      BY <2>1 DEF IInv, EndedSound, ChangesOf
    <3> QED BY <3>1 DEF Raw, Unhex
  <2>3. delivered["table-player"][h] + 1 \in Nat
    BY DEF IInv, TypeOK, Sagas
  <2>4. sent \in SUBSET CommandType /\ \A c \in sent : c.type = "ReleaseFunds"
    BY <2>2, <2>3 DEF ReleaseCommands, CommandType
  <2> HIDE DEF sent
  <2>5. {} \in SUBSET CommandType /\ commands = commands \cup {}
    OBVIOUS
  <2> QED BY <2>1, <2>4, <2>5
<1>2. "table-player" \in Sagas
  BY DEF Sagas
<1>3. /\ UNCHANGED <<players, table, hands, started, ended, refused>>
      /\ TypeOK'
      /\ delivered'["table-player"][h] = delivered["table-player"][h] + 1
      /\ \A r \in Sagas, i \in Hands :
           r # "table-player" \/ i # h => delivered'[r][i] = delivered[r][i]
  BY <1>1, <1>2, HandedStep
<1>4. /\ TableSound' /\ StartedSound' /\ HandsSound' /\ EndedSound'
      /\ OneHandAtATime'
  BY <1>1, <1>2, <1>3, HandedKeeps
<1>5. NeverStuck'
  BY <1>1, <1>2, <1>3, StillToCome
<1>6. DealsSound' /\ EndsSound'
  BY <1>1, <1>3 DEF IInv, DealsSound, EndsSound
<1>7. DepositsSound'
  <2>1. \A i \in Hands : delivered'["hand-player"][i] = delivered["hand-player"][i]
    BY <1>3 DEF Sagas
  <2> QED BY <1>1, <1>3, <2>1 DEF IInv, DepositsSound
<1> QED BY <1>3, <1>4, <1>5, <1>6, <1>7 DEF IInv

-----------------------------------------------------------------------------
(***************************************************************************)
(* The commands that arrive.                                               *)
(***************************************************************************)
\* A command that arrives is gone, and commands keep their type.
LEMMA ArrivesStep ==
  ASSUME IInv, NEW c \in commands, NEW type, Arrives(type, c)
  PROVE  /\ c \in CommandType /\ c.type = type
         /\ commands' = commands \ {c} /\ commands' \subseteq CommandType
BY DEF IInv, TypeOK, Arrives

\* A deal is accepted if and only if its hand was not dealt yet.
LEMMA DealIInv ==
  ASSUME IInv, NEW c \in commands, DealCards(c)
  PROVE  IInv'
<1> DEFINE h == c.hand
           d == [status |-> "betting", players |-> c.players,
                 table_root |-> c.table_root, awards |-> NoAwards]
<1>1. /\ c \in CommandType /\ c.type = "DealCards"
      /\ commands' = commands \ {c} /\ commands' \subseteq CommandType
  <2>1. Arrives("DealCards", c)
    BY DEF DealCards
  <2> QED BY <2>1, ArrivesStep
<1>2. UNCHANGED <<players, table, started, ended, delivered, refused>>
  BY DEF DealCards
<1>3. /\ h \in Hands /\ h <= table.hand_count /\ c.players = started[h]
      /\ c.table_root = 0 /\ c.players \in SUBSET Players
      /\ \E p, q \in c.players : p # q
  BY <1>1, CommandFields DEF IInv, DealsSound, StartedSound
<1>4. \/ hands[h].status = "undealt" /\ hands' = [hands EXCEPT ![h] = d]
      \/ hands[h].status # "undealt" /\ UNCHANGED hands
  BY <1>3 DEF DealCards, handle_deal
<1>5. d \in HandType /\ hands \in [Hands -> HandType]
  <2>1. 0 \in Tables
    BY BoundsAssumption DEF Tables
  <2> QED BY <1>3, <2>1, NoAwardsType DEF HandType, IInv, TypeOK
<1>6. d.status = "betting" /\ d.players = started[h] /\ d.table_root = 0
  BY <1>3
<1> HIDE DEF d, h
<1>7. /\ \A i \in Hands : i # h => hands'[i] = hands[i]
      /\ \/ hands[h].status = "undealt" /\ hands'[h] = d
         \/ hands[h].status # "undealt" /\ hands'[h] = hands[h]
      /\ hands'[h].status # "undealt"
      /\ \A i \in Hands : hands[i].status = "complete" <=> hands'[i].status = "complete"
      /\ \A i \in Hands : hands[i].status = "complete" => hands'[i] = hands[i]
  BY <1>3, <1>4, <1>5, <1>6
<1>8. TypeOK'
  BY <1>1, <1>2, <1>4, <1>5 DEF IInv, TypeOK
<1>9. TableSound' /\ StartedSound'
  BY <1>2 DEF IInv, TableSound, StartedSound
<1>10. HandsSound'
  BY <1>2, <1>3, <1>6, <1>7 DEF IInv, HandsSound, h
<1>11. EndedSound'
  BY <1>2, <1>7 DEF IInv, EndedSound, HandsSound
<1>12. OneHandAtATime'
  BY <1>2, <1>3, <1>6, <1>7 DEF IInv, OneHandAtATime
<1>13. DealsSound' /\ EndsSound' /\ DepositsSound'
  BY <1>1, <1>2, <1>7 DEF IInv, DealsSound, EndsSound, DepositsSound
<1>14. NeverStuck'
  <2> SUFFICES ASSUME table.status = "in_hand"
               PROVE  LET i == table.current_hand_root
                      IN  /\ hands'[i].status = "undealt" => DealToCome(i)'
                          /\ hands'[i].status # "undealt" => hands'[i].table_root = 0
                          /\ hands'[i].status = "complete" => EndToCome(i)'
    BY <1>2 DEF NeverStuck
  <2> DEFINE i == table.current_hand_root
  <2>1. i \in Hands
    BY DEF IInv, TableSound, TypeOK, TableType, Hands
  <2>2. DealToCome(i) /\ i # h => DealToCome(i)'
    BY <1>1, <1>2 DEF DealToCome, h
  <2>3. EndToCome(i) => EndToCome(i)'
    BY <1>1, <1>2 DEF EndToCome
  <2> HIDE DEF i
  <2>4. /\ hands[i].status = "undealt" => DealToCome(i)
        /\ hands[i].status # "undealt" => hands[i].table_root = 0
        /\ hands[i].status = "complete" => EndToCome(i)
    BY DEF IInv, NeverStuck, i
  <2>5. /\ hands'[i].status = "undealt" => DealToCome(i)'
        /\ hands'[i].status # "undealt" => hands'[i].table_root = 0
        /\ hands'[i].status = "complete" => EndToCome(i)'
    BY <1>3, <1>6, <1>7, <2>1, <2>2, <2>3, <2>4
  <2> QED BY <2>5 DEF i
<1> QED BY <1>8, <1>9, <1>10, <1>11, <1>12, <1>13, <1>14 DEF IInv

\* The end of a hand is accepted if and only if the table is in that hand.
LEMMA EndIInv ==
  ASSUME IInv, NEW c \in commands, EndHand(c)
  PROVE  IInv'
<1> DEFINE h == c.hand
<1>1. /\ c \in CommandType /\ c.type = "EndHand"
      /\ commands' = commands \ {c} /\ commands' \subseteq CommandType
  <2>1. Arrives("EndHand", c)
    BY DEF EndHand
  <2> QED BY <2>1, ArrivesStep
<1>2. UNCHANGED <<players, hands, started, delivered, refused>>
  BY DEF EndHand
<1>3. /\ h \in Hands /\ hands[h].status = "complete"
      /\ c.results = hands[h].awards /\ c.table_root = 0
      /\ c.results \in AwardsType
  BY <1>1, CommandFields DEF IInv, EndsSound
<1>4. DealsSound' /\ EndsSound' /\ DepositsSound'
  <2>1. table'.hand_count = table.hand_count
    <3>1. table \in TableType
      BY DEF IInv, TypeOK
    <3> QED BY <3>1 DEF EndHand, apply_hand_ended, TableType
  <2> QED BY <1>1, <1>2, <2>1 DEF IInv, DealsSound, EndsSound, DepositsSound
<1>5. CASE ~ (table.status = "in_hand" /\ h = table.current_hand_root)
  <2>1. UNCHANGED <<table, ended>>
    <3>1. handle_end_hand(table, c.hand, c.results) = {}
      BY <1>5 DEF handle_end_hand
    <3> QED BY <1>3, <3>1 DEF EndHand
  <2>2. TypeOK'
    BY <1>1, <1>2, <2>1 DEF IInv, TypeOK
  <2>3. TableSound' /\ StartedSound' /\ HandsSound' /\ EndedSound' /\ OneHandAtATime'
    BY <1>2, <2>1 DEF IInv, TableSound, StartedSound, HandsSound, EndedSound,
                      OneHandAtATime
  <2>4. NeverStuck'
    <3>1. \A i : DealToCome(i) => DealToCome(i)'
      BY <1>1, <1>2 DEF DealToCome
    <3>2. \A i : i # h /\ EndToCome(i) => EndToCome(i)'
      BY <1>1, <1>2 DEF EndToCome
    <3> QED BY <1>2, <1>5, <2>1, <3>1, <3>2 DEF IInv, NeverStuck
  <2> QED BY <1>4, <2>2, <2>3, <2>4 DEF IInv
<1>6. CASE table.status = "in_hand" /\ h = table.current_hand_root
  <2>1. PICK e \in handle_end_hand(table, h, c.results) :
          /\ table' = apply_hand_ended(table, e)
          /\ ended' = [ended EXCEPT ![e.hand_root] = e.stack_changes]
    <3>1. handle_end_hand(table, c.hand, c.results) # {}
      BY <1>6 DEF handle_end_hand
    <3> QED BY <1>3, <3>1 DEF EndHand
  <2>2. e.hand_root = h /\ e.stack_changes = ChangesOf(hands[h].awards)
    BY <1>3, <2>1 DEF handle_end_hand, ChangesOf
  <2>3. DOMAIN e.stack_changes = {Raw(w) : w \in DOMAIN hands[h].awards}
    BY <2>2 DEF ChangesOf
  <2>4. table \in TableType
    BY DEF IInv, TypeOK
  <2> DEFINE Change(p) ==
               IF table.seat[p] # Nobody /\ Hex(table.seat[p]) \in DOMAIN e.stack_changes
               THEN e.stack_changes[Hex(table.seat[p])] ELSE 0
             stacks == [p \in Positions |-> table.stack[p] + Change(p)]
  <2>5. table' = [table EXCEPT !.status = "waiting", !.current_hand_root = 0,
                               !.stack = stacks]
    BY <2>1 DEF apply_hand_ended
  <2>6. stacks \in [Positions -> Int]
    <3>1. \A p \in Positions : Change(p) = 0
      BY <2>3 DEF Hex, Raw
    <3>2. \A p \in Positions : table.stack[p] + Change(p) \in Int
      <4> HIDE DEF Change
      <4> QED BY <2>4, <3>1 DEF TableType
    <3> QED BY <3>2
  <2> HIDE DEF stacks
  <2>7. /\ table'.status = "waiting" /\ table'.hand_count = table.hand_count
        /\ table'.seat = table.seat
    BY <2>4, <2>5 DEF TableType
  <2>8. TypeOK'
    <3>1. table' \in TableType
      BY <2>4, <2>5, <2>6 DEF TableType
    <3>2. ended' \in [Hands -> ChangesType]
      BY <1>3, <2>1, <2>2, AwardsOfType DEF IInv, TypeOK
    <3> QED BY <1>1, <1>2, <3>1, <3>2 DEF IInv, TypeOK
  <2>9. \A i \in Hands : ended'[i] = IF i = h THEN ChangesOf(hands[h].awards)
                                     ELSE ended[i]
    BY <1>3, <2>1, <2>2 DEF IInv, TypeOK
  <2>10. TableSound' /\ StartedSound' /\ NeverStuck'
    BY <1>2, <2>7 DEF IInv, TableSound, StartedSound, NeverStuck
  <2>11. HandsSound' /\ EndedSound'
    BY <1>2, <1>3, <2>7, <2>9 DEF IInv, HandsSound, EndedSound
  <2>12. OneHandAtATime'
    BY <1>2, <1>3, <1>6, <2>7 DEF IInv, OneHandAtATime
  <2> QED BY <1>4, <2>8, <2>10, <2>11, <2>12 DEF IInv
<1> QED BY <1>5, <1>6

\* Winnings arrive at the player, who takes them or refuses them.
LEMMA DepositIInv ==
  ASSUME IInv, NEW c \in commands, DepositFunds(c)
  PROVE  IInv'
<1>1. /\ c \in CommandType /\ c.type = "DepositFunds"
      /\ commands' = commands \ {c} /\ commands' \subseteq CommandType
  <2>1. Arrives("DepositFunds", c)
    BY DEF DepositFunds
  <2> QED BY <2>1, ArrivesStep
<1>2. UNCHANGED <<table, hands, started, ended, delivered>>
  BY DEF DepositFunds
<1>3. c.player \in Players /\ c.amount \in Int
  BY <1>1, CommandFields, AmountsAssumption
<1>4. /\ players' \in [Players -> PlayerType]
      /\ refused' \in [Players -> Int]
  <2>1. players \in [Players -> PlayerType] /\ refused \in [Players -> Int]
    BY DEF IInv, TypeOK
  <2>2. \A e \in handle_deposit(players[c.player], c.amount) :
          apply_event(players[c.player], e) \in PlayerType
    BY <1>3, <2>1, PlayerAfter
  <2>3. \/ /\ \E e \in handle_deposit(players[c.player], c.amount) :
                players' = [players EXCEPT ![c.player]
                                      = apply_event(players[c.player], e)]
           /\ refused' = refused
        \/ /\ refused' = [refused EXCEPT ![c.player]
                                     = refused[c.player] + c.amount]
           /\ players' = players
    BY DEF DepositFunds
  <2> QED BY <1>3, <2>1, <2>2, <2>3
<1>5. TypeOK'
  BY <1>1, <1>2, <1>4 DEF IInv, TypeOK
<1> QED BY <1>1, <1>2, <1>5, Frame

LEMMA ReleaseIInv ==
  ASSUME IInv, NEW c \in commands, ReleaseFunds(c)
  PROVE  IInv'
<1>1. /\ c.type = "ReleaseFunds"
      /\ commands' = commands \ {c} /\ commands' \subseteq CommandType
  <2>1. Arrives("ReleaseFunds", c)
    BY DEF ReleaseFunds
  <2> QED BY <2>1, ArrivesStep
<1>2. UNCHANGED <<players, table, hands, started, ended, delivered, refused>>
  BY DEF ReleaseFunds
<1>3. TypeOK'
  BY <1>1, <1>2 DEF IInv, TypeOK
<1> QED BY <1>1, <1>2, <1>3, Frame

-----------------------------------------------------------------------------
LEMMA NextIInv == IInv /\ [Next]_vars => IInv'
<1> SUFFICES ASSUME IInv, [Next]_vars PROVE IInv'
  OBVIOUS
<1>1. ASSUME Client PROVE IInv'
  BY <1>1, RegisterIInv, CreateIInv, JoinIInv, StartIInv, AwardIInv DEF Client
<1>2. ASSUME NEW h \in Hands, Saga(h) PROVE IInv'
  BY <1>2, TableHandIInv, HandTableIInv, HandPlayerIInv, TablePlayerIInv DEF Saga
<1>3. ASSUME NEW c \in commands, Arrival(c) PROVE IInv'
  BY <1>3, DealIInv, EndIInv, DepositIInv, ReleaseIInv DEF Arrival
<1>4. CASE UNCHANGED vars
  <2>1. UNCHANGED <<table, hands, started, ended, delivered, commands, players, refused>>
    BY <1>4 DEF vars
  <2>2. TypeOK'
    BY <2>1 DEF IInv, TypeOK
  <2> QED BY <2>1, <2>2, Frame
<1> QED BY <1>1, <1>2, <1>3, <1>4 DEF Next

LEMMA InvariantHolds == Spec => []IInv
<1> QED BY InitIInv, NextIInv, PTL DEF Spec

\* Every variable has its type.
THEOREM TypeCorrect == Spec => []TypeOK
<1>1. IInv => TypeOK
  BY DEF IInv
<1> QED BY <1>1, InvariantHolds, PTL

\* Of a table's hands one at most runs, the last one started and only while
\* the table is in it (end_hand_handler.cpp:20-25, deal_handler.cpp:16).
THEOREM OneHandHolds == Spec => []OneHandAtATime
<1>1. IInv => OneHandAtATime
  BY DEF IInv
<1> QED BY <1>1, InvariantHolds, PTL

\* The table records of a hand what the hand paid, and the hand dealt to those
\* whom the table named (hand_table_saga.cpp:22-27, table/saga-hand
\* main.cpp:48-54).
THEOREM EndsAsPaidHolds == Spec => []EndsAsPaid
<1>1. IInv => EndsAsPaid
  BY DEF IInv, EndsAsPaid, HandsSound, EndedSound, ChangesOf
<1> QED BY <1>1, InvariantHolds, PTL

\* A table in a hand always waits for something that is to come
\* (leave_handler.cpp:27, start_hand_handler.cpp:41).
THEOREM NeverStuckHolds == Spec => []NeverStuck
<1>1. IInv => NeverStuck
  BY DEF IInv
<1> QED BY <1>1, InvariantHolds, PTL

-----------------------------------------------------------------------------
(***************************************************************************)
(* Table, hands and sagas implement the cycle of module HandCycle.         *)
(***************************************************************************)
\* A step that neither starts, pays nor ends a hand goes nowhere in the cycle.
LEMMA CycleStutters ==
  ASSUME table'.hand_count = table.hand_count,
         table'.status = "in_hand" <=> table.status = "in_hand",
         table'.current_hand_root = table.current_hand_root,
         table.status = "in_hand" =>
           (hands'[table.current_hand_root].status = "complete"
              <=> hands[table.current_hand_root].status = "complete")
  PROVE  UNCHANGED <<table.hand_count, Phase>>
BY DEF Phase

LEMMA CycleStarts ==
  ASSUME IInv, IInv', StartHand
  PROVE  Cycle!Start
<1>1. /\ table.status = "waiting" /\ hands' = hands
      /\ table' = [table EXCEPT !.status = "in_hand",
                     !.hand_count = table.hand_count + 1,
                     !.current_hand_root = table.hand_count + 1,
                     !.dealer_position = next_dealer_position(table)]
  <2>1. PICK e \in handle_start_hand(table) : table' = apply_hand_started(table, e)
    BY DEF StartHand
  <2>2. /\ table.status = "waiting"
        /\ e.hand_number = table.hand_count + 1 /\ e.hand_root = table.hand_count + 1
        /\ e.dealer = next_dealer_position(table)
    BY <2>1 DEF handle_start_hand
  <2> QED BY <2>1, <2>2 DEF StartHand, apply_hand_started
<1>2. table \in TableType
  BY DEF IInv, TypeOK
<1> DEFINE n == table.hand_count + 1
<1>3. /\ table'.status = "in_hand" /\ table'.hand_count = n
      /\ table'.current_hand_root = n
  BY <1>1, <1>2 DEF TableType
<1>4. n \in Hands /\ ~ n <= table.hand_count
  BY <1>2, <1>3 DEF TableType, IInv, TableSound, Hands
<1> HIDE DEF n
<1>5. hands[n].status # "complete"
  BY <1>4 DEF IInv, HandsSound
<1>6. Phase = "open" /\ Phase' = "playing"
  BY <1>1, <1>3, <1>5 DEF Phase
<1> QED BY <1>3, <1>6 DEF Cycle!Start, n

LEMMA CyclePays ==
  ASSUME IInv, IInv', NEW h \in Hands, NEW awards \in AwardsType,
         AwardPot(h, awards)
  PROVE  Cycle!Pay
<1>1. /\ hands[h].status \notin {"undealt", "complete"} /\ table' = table
      /\ hands' = [hands EXCEPT ![h].status = "complete", ![h].awards = awards]
  BY DEF AwardPot
<1>2. hands'[h].status = "complete"
  BY <1>1 DEF IInv, TypeOK, HandType
<1>3. h <= table.hand_count
  BY <1>1 DEF IInv, HandsSound
<1>4. table.status = "in_hand" /\ h = table.current_hand_root
  BY <1>1, <1>3 DEF IInv, OneHandAtATime
<1>5. Phase = "playing" /\ Phase' = "paid"
  BY <1>1, <1>2, <1>4 DEF Phase
<1> QED BY <1>1, <1>5 DEF Cycle!Pay

LEMMA CycleCloses ==
  ASSUME IInv, IInv', NEW c \in commands, EndHand(c)
  PROVE  Cycle!Close \/ UNCHANGED <<table.hand_count, Phase>>
<1>1. c.type = "EndHand" /\ hands' = hands
  BY DEF EndHand, Arrives
<1>2. c.table_root = 0 /\ hands[c.hand].status = "complete"
  BY <1>1 DEF IInv, EndsSound
<1>3. CASE handle_end_hand(table, c.hand, c.results) = {}
  <2>1. table' = table
    BY <1>2, <1>3 DEF EndHand
  <2> QED BY <1>1, <2>1 DEF Phase
<1>4. CASE handle_end_hand(table, c.hand, c.results) # {}
  <2>1. table.status = "in_hand" /\ c.hand = table.current_hand_root
    BY <1>4 DEF handle_end_hand
  <2>2. table'.status = "waiting" /\ table'.hand_count = table.hand_count
    BY <1>2, <1>4 DEF EndHand, apply_hand_ended, IInv, TypeOK, TableType
  <2>3. Phase = "paid" /\ Phase' = "open"
    BY <1>2, <2>1, <2>2 DEF Phase
  <2> QED BY <2>2, <2>3 DEF Cycle!Close
<1> QED BY <1>3, <1>4

\* A deal leaves complete hands complete, and completes none.
LEMMA DealStutters ==
  ASSUME IInv, NEW c \in commands, DealCards(c)
  PROVE  UNCHANGED <<table.hand_count, Phase>>
<1>1. c.type = "DealCards" /\ table' = table
  BY DEF DealCards, Arrives
<1>2. c.hand \in Hands
  BY <1>1 DEF IInv, DealsSound
<1>3. \/ hands' = hands
      \/ /\ hands[c.hand].status = "undealt"
         /\ \E d : d.status = "betting" /\ hands' = [hands EXCEPT ![c.hand] = d]
  BY DEF DealCards, handle_deal
<1>4. hands \in [Hands -> HandType]
  BY DEF IInv, TypeOK
<1>5. \A h \in Hands : hands'[h].status = "complete" <=> hands[h].status = "complete"
  BY <1>2, <1>3, <1>4
<1>6. table.status = "in_hand" => table.current_hand_root \in Hands
  BY DEF IInv, TableSound, TypeOK, TableType, Hands
<1> QED BY <1>1, <1>5, <1>6, CycleStutters

\* A table that is created or joined keeps its hand.
LEMMA SeatsStutter ==
  ASSUME IInv,
         \/ \E p \in Players, buy_in \in BuyIns : JoinTable(p, buy_in)
         \/ \E n, lo, hi : CreateTable(n, lo, hi)
  PROVE  UNCHANGED <<table.hand_count, Phase>>
<1>1. table \in TableType /\ hands' = hands
  BY DEF IInv, TypeOK, JoinTable, CreateTable
<1>2. /\ table'.hand_count = table.hand_count
      /\ table'.status = "in_hand" <=> table.status = "in_hand"
      /\ table'.current_hand_root = table.current_hand_root
  BY <1>1 DEF TableType, JoinTable, apply_player_joined, CreateTable,
              apply_table_created, handle_create
<1> QED BY <1>1, <1>2, CycleStutters

LEMMA CycleStep ==
  ASSUME IInv, IInv', [Next]_vars
  PROVE  [Cycle!Next]_(Cycle!vars)
<1> DEFINE Stutter == UNCHANGED <<table.hand_count, Phase>>
<1>1. Stutter => UNCHANGED Cycle!vars
  BY DEF Cycle!vars
<1>2. UNCHANGED <<table, hands>> => Stutter
  BY DEF Phase
<1> HIDE DEF Stutter
<1>3. ASSUME Client PROVE Cycle!Next \/ Stutter
  <2>1. ASSUME NEW p \in Players, RegisterPlayer(p) PROVE Stutter
    BY <1>2, <2>1 DEF RegisterPlayer
  <2>2. ASSUME NEW p \in Players, NEW buy_in \in BuyIns, JoinTable(p, buy_in)
        PROVE  Stutter
    BY <2>2, SeatsStutter DEF Stutter
  <2>3. ASSUME NEW n, NEW lo, NEW hi, CreateTable(n, lo, hi)
        PROVE  Stutter
    BY <2>3, SeatsStutter DEF Stutter
  <2>4. ASSUME StartHand PROVE Cycle!Next
    BY <2>4, CycleStarts DEF Cycle!Next
  <2>5. ASSUME NEW h \in Hands, NEW awards \in AwardsType, AwardPot(h, awards)
        PROVE  Cycle!Next
    BY <2>5, CyclePays DEF Cycle!Next
  <2> QED BY <1>3, <2>1, <2>2, <2>3, <2>4, <2>5 DEF Client
<1>4. ASSUME NEW h \in Hands, Saga(h) PROVE Stutter
  <2>1. UNCHANGED aggregates
    BY <1>4 DEF Saga, TableHandSaga, HandTableSaga, HandPlayerSaga, TablePlayerSaga,
                Handed
  <2> QED BY <1>2, <2>1 DEF aggregates
<1>5. ASSUME NEW c \in commands, Arrival(c) PROVE Cycle!Next \/ Stutter
  <2>1. ASSUME DealCards(c) PROVE Stutter
    BY <2>1, DealStutters DEF Stutter
  <2>2. ASSUME EndHand(c) PROVE Cycle!Next \/ Stutter
    BY <2>2, CycleCloses DEF Cycle!Next, Stutter
  <2>3. ASSUME DepositFunds(c) \/ ReleaseFunds(c) PROVE Stutter
    BY <1>2, <2>3 DEF DepositFunds, ReleaseFunds
  <2> QED BY <1>5, <2>1, <2>2, <2>3 DEF Arrival
<1>6. CASE UNCHANGED vars
  BY <1>1, <1>2, <1>6 DEF vars
<1> QED BY <1>1, <1>3, <1>4, <1>5, <1>6 DEF Next

\* Table, hands and sagas together go through the cycle: a hand starts, is
\* paid, and only then the table takes leave of it and may start another.
THEOREM CycleHolds == Spec => ImplementsCycle
<1>1. Init => Cycle!Init
  BY DEF Init, NewTable, Cycle!Init, Phase
<1>2. IInv /\ IInv' /\ [Next]_vars => [Cycle!Next]_(Cycle!vars)
  BY CycleStep
<1> QED BY <1>1, <1>2, InvariantHolds, PTL DEF Spec, ImplementsCycle, Cycle!Spec

-----------------------------------------------------------------------------
(***************************************************************************)
(* The money: the bankroll of a player is the sum of what arrived.         *)
(***************************************************************************)
Won(p) == [i \in 0 .. MaxHands - 1 |-> AwardOf(i + 1, p) * Arrived(i + 1, p)]

\* Beside the sum: commands are finitely many, so that they can be counted,
\* and a player who does not exist has nothing, so that registering him, which
\* sets his bankroll to 0, takes nothing away.
MoneyInv ==
  /\ IsFiniteSet(commands)
  /\ \A p \in Players : ~ players[p].exists => players[p].bankroll = 0
  /\ MoneyAccounted

\* Shares and sums are integers.
WonTyped ==
  \A p \in Players :
    /\ \A h \in Hands : /\ AwardOf(h, p) \in Int /\ Arrived(h, p) \in Int
                        /\ AwardOf(h, p) * Arrived(h, p) \in Int
    /\ Won(p) \in [0 .. MaxHands - 1 -> Int]
    /\ \A i \in 0 .. MaxHands - 1 : i + 1 \in Hands

LEMMA WonType == IInv /\ IsFiniteSet(commands) => WonTyped
<1> SUFFICES ASSUME IInv, IsFiniteSet(commands), NEW p \in Players
    PROVE  /\ \A h \in Hands : /\ AwardOf(h, p) \in Int /\ Arrived(h, p) \in Int
                               /\ AwardOf(h, p) * Arrived(h, p) \in Int
           /\ Won(p) \in [0 .. MaxHands - 1 -> Int]
           /\ \A i \in 0 .. MaxHands - 1 : i + 1 \in Hands
  BY DEF WonTyped
<1>1. ASSUME NEW h \in Hands
      PROVE  AwardOf(h, p) \in Int /\ Arrived(h, p) \in Int
  <2>1. hands[h].awards \in AwardsType
    BY DEF IInv, TypeOK, HandType
  <2>2. AwardOf(h, p) \in Int
    <3>1. \A w \in DOMAIN hands[h].awards : hands[h].awards[w] \in Int
      BY <2>1, AwardsOfType, AmountsAssumption
    <3> QED BY <3>1 DEF AwardOf
  <2>3. IsFiniteSet(Coming(h, p))
    <3>1. Coming(h, p) \subseteq commands
      BY DEF Coming
    <3> QED BY <3>1, FS_Subset
  <2>4. Cardinality(Coming(h, p)) \in Nat
    BY <2>3, FS_CardinalityType
  <2>5. delivered["hand-player"][h] \in Nat
    BY DEF IInv, TypeOK, Sagas
  <2> QED BY <2>2, <2>4, <2>5 DEF Arrived
<1>2. \A i \in 0 .. MaxHands - 1 : i + 1 \in Hands
  BY BoundsAssumption DEF Hands
<1>3. \A h \in Hands : AwardOf(h, p) * Arrived(h, p) \in Int
  BY <1>1
<1>4. Won(p) \in [0 .. MaxHands - 1 -> Int]
  BY <1>2, <1>3 DEF Won
<1> QED BY <1>1, <1>2, <1>3, <1>4

LEMMA WonTypeNext == IInv' /\ IsFiniteSet(commands)' => WonTyped'
BY WonType, PTL

\* As long as a hand is not complete no deposit of it was sent.
LEMMA NothingArrived ==
  ASSUME IInv, NEW h \in Hands, NEW p, hands[h].status # "complete"
  PROVE  Arrived(h, p) = 0
<1>1. delivered["hand-player"][h] = 0
  BY DEF IInv, HandsSound
<1>2. Coming(h, p) = {}
  BY DEF IInv, DepositsSound, Coming
<1> QED BY <1>1, <1>2, FS_EmptySet DEF Arrived

\* Steps that bring no money and change no sum keep the account.
LEMMA MoneyFrame ==
  ASSUME MoneyInv, IsFiniteSet(commands'),
         \A p \in Players :
           /\ ~ players'[p].exists => players'[p].bankroll = 0
           /\ players'[p].bankroll = players[p].bankroll
           /\ refused'[p] = refused[p]
           /\ Won(p)' = Won(p)
  PROVE  MoneyInv'
BY DEF MoneyInv, MoneyAccounted, Won

\* Commands of other types do not count.
LEMMA OtherCommands ==
  ASSUME IInv, IInv', MoneyInv, IsFiniteSet(commands'),
         UNCHANGED <<players, refused>>,
         \A h \in Hands : delivered'["hand-player"][h] = delivered["hand-player"][h],
         \A c : c.type = "DepositFunds" => (c \in commands' <=> c \in commands),
         \A h \in Hands, p \in Players :
           AwardOf(h, p)' = AwardOf(h, p) \/ Arrived(h, p) = 0
  PROVE  MoneyInv'
<1>1. ASSUME NEW p \in Players PROVE Won(p)' = Won(p)
  <2>1. ASSUME NEW h \in Hands
        PROVE  (AwardOf(h, p) * Arrived(h, p))' = AwardOf(h, p) * Arrived(h, p)
    <3>1. Coming(h, p)' = Coming(h, p)
      BY DEF Coming
    <3>2. Arrived(h, p)' = Arrived(h, p)
      BY <3>1 DEF Arrived
    <3>3. CASE AwardOf(h, p)' = AwardOf(h, p)
      BY <3>2, <3>3
    <3>4. CASE Arrived(h, p) = 0
      <4>1. AwardOf(h, p) \in Int /\ AwardOf(h, p)' \in Int
        BY WonType, WonTypeNext DEF MoneyInv, WonTyped
      <4> QED BY <3>2, <3>4, <4>1
    <3> QED BY <3>3, <3>4
  <2>2. \A i \in 0 .. MaxHands - 1 : i + 1 \in Hands
    BY WonType, WonTypeNext DEF MoneyInv, WonTyped
  <2> QED BY <2>1, <2>2 DEF Won
<1> QED BY <1>1, MoneyFrame DEF MoneyInv

LEMMA InitMoney == Init => MoneyInv
<1> SUFFICES ASSUME Init PROVE MoneyInv
  OBVIOUS
<1>1. IInv
  BY InitIInv
<1>2. IsFiniteSet(commands)
  BY FS_EmptySet DEF Init
<1>3. \A p \in Players : /\ ~ players[p].exists /\ players[p].bankroll = 0
                         /\ refused[p] = 0
  BY DEF Init, NewPlayer
<1>4. ASSUME NEW p \in Players
      PROVE  players[p].bankroll + refused[p] = SumTo(Won(p), MaxHands)
  <2>1. ASSUME NEW h \in Hands PROVE AwardOf(h, p) * Arrived(h, p) = 0
    <3>1. Arrived(h, p) = 0
      BY <1>1, NothingArrived DEF Init, NewHand
    <3>2. AwardOf(h, p) \in Int
      BY <1>1, <1>2, WonType DEF WonTyped
    <3> QED BY <3>1, <3>2
  <2>2. Won(p) \in [0 .. MaxHands - 1 -> Int]
    BY <1>1, <1>2, WonType DEF WonTyped
  <2>3. \A i \in 0 .. MaxHands - 1 : Won(p)[i] = 0
    BY <1>1, <1>2, <2>1, WonType DEF Won, WonTyped
  <2>4. SumTo(Won(p), MaxHands) = 0
    BY <2>2, <2>3, BoundsAssumption, SumToZero
  <2> QED BY <1>3, <2>4
<1> QED BY <1>2, <1>3, <1>4 DEF MoneyInv, MoneyAccounted, Won

\* Registering sets to 0 what is 0.
LEMMA RegisterMoney ==
  ASSUME IInv, MoneyInv, NEW p \in Players, RegisterPlayer(p)
  PROVE  MoneyInv'
<1>1. PICK e \in handle_register(players[p]) :
        players' = [players EXCEPT ![p] = apply_event(players[p], e)]
  BY DEF RegisterPlayer
<1>2. UNCHANGED <<table, hands, started, ended, delivered, commands, refused>>
  BY DEF RegisterPlayer
<1>3. e.type = "PlayerRegistered" /\ ~ players[p].exists
  BY <1>1 DEF handle_register
<1>4. players[p] \in PlayerType
  BY DEF IInv, TypeOK
<1>5. apply_event(players[p], e).exists /\ apply_event(players[p], e).bankroll = 0
  BY <1>3, <1>4 DEF apply_event, BalanceEvents, PlayerType
<1>6. \A q \in Players : /\ players'[q].bankroll = players[q].bankroll
                         /\ ~ players'[q].exists => players'[q].bankroll = 0
  BY <1>1, <1>3, <1>5 DEF MoneyInv, IInv, TypeOK
<1>7. \A q : Won(q)' = Won(q)
  BY <1>2 DEF Won, AwardOf, Arrived, Coming
<1> QED BY <1>2, <1>6, <1>7, MoneyFrame DEF MoneyInv

\* An award or a deal comes before the first deposit of the hand.
LEMMA AwardMoney ==
  ASSUME IInv, IInv', MoneyInv, NEW h \in Hands, NEW awards \in AwardsType,
         AwardPot(h, awards)
  PROVE  MoneyInv'
<1>1. /\ hands[h].status # "complete"
      /\ \A i \in Hands : i # h => hands'[i] = hands[i]
      /\ UNCHANGED <<players, refused, delivered, commands>>
  BY DEF AwardPot, IInv, TypeOK
<1>2. \A p : Arrived(h, p) = 0
  BY <1>1, NothingArrived
<1>3. \A i \in Hands, p \in Players : AwardOf(i, p)' = AwardOf(i, p) \/ Arrived(i, p) = 0
  BY <1>1, <1>2 DEF AwardOf
<1> QED BY <1>1, <1>3, OtherCommands DEF MoneyInv

LEMMA DealMoney ==
  ASSUME IInv, IInv', MoneyInv, NEW c \in commands, DealCards(c)
  PROVE  MoneyInv'
<1>1. /\ c.type = "DealCards" /\ commands' = commands \ {c}
      /\ UNCHANGED <<players, refused, delivered>>
  BY DEF DealCards, Arrives
<1>2. c.hand \in Hands
  BY <1>1 DEF IInv, DealsSound
<1>3. /\ \A i \in Hands : i # c.hand => hands'[i] = hands[i]
      /\ hands[c.hand].status = "complete" => hands' = hands
  BY <1>2 DEF DealCards, handle_deal, IInv, TypeOK
<1>4. hands[c.hand].status # "complete" => \A p : Arrived(c.hand, p) = 0
  BY <1>2, NothingArrived
<1>5. \A i \in Hands, p \in Players : AwardOf(i, p)' = AwardOf(i, p) \/ Arrived(i, p) = 0
  BY <1>3, <1>4 DEF AwardOf
<1>6. IsFiniteSet(commands')
  BY <1>1, FS_RemoveElement DEF MoneyInv
<1> QED BY <1>1, <1>5, <1>6, OtherCommands

\* What arrives at the table or at nobody's brings no money.
LEMMA OtherArrivalMoney ==
  ASSUME IInv, IInv', MoneyInv, NEW c \in commands, EndHand(c) \/ ReleaseFunds(c)
  PROVE  MoneyInv'
<1>1. /\ c.type # "DepositFunds" /\ commands' = commands \ {c}
      /\ UNCHANGED <<players, refused, delivered, hands>>
  BY DEF EndHand, ReleaseFunds, Arrives
<1>2. IsFiniteSet(commands')
  BY <1>1, FS_RemoveElement DEF MoneyInv
<1>3. \A i \in Hands, p \in Players : AwardOf(i, p)' = AwardOf(i, p)
  BY <1>1 DEF AwardOf
<1> QED BY <1>1, <1>2, <1>3, OtherCommands

\* What another saga sends brings no money.
LEMMA OtherSagaMoney ==
  ASSUME IInv, IInv', MoneyInv, NEW h \in Hands,
         TableHandSaga(h) \/ HandTableSaga(h) \/ TablePlayerSaga(h)
  PROVE  MoneyInv'
<1>1. PICK new : /\ commands' = commands \cup new /\ IsFiniteSet(new)
                 /\ \A c \in new : c.type # "DepositFunds"
  <2>1. CASE TableHandSaga(h)
    <3> DEFINE c == [type |-> "DealCards", hand |-> h,
                     nth |-> delivered["table-hand"][h] + 1,
                     table_root |-> 0, players |-> started[h]]
    <3>1. commands' = commands \cup {c} /\ c.type # "DepositFunds"
      BY <2>1 DEF TableHandSaga, DealCommands, DealTableRoot, Nth
    <3> HIDE DEF c
    <3>2. IsFiniteSet({c}) /\ \A x \in {c} : x.type # "DepositFunds"
      BY <3>1, FS_Singleton
    <3> QED BY <3>1, <3>2
  <2>2. CASE HandTableSaga(h)
    <3> DEFINE c == [type |-> "EndHand", hand |-> h,
                     nth |-> delivered["hand-table"][h] + 1,
                     table_root |-> hands[h].table_root, results |-> hands[h].awards]
    <3>1. commands' = commands \cup {c} /\ c.type # "DepositFunds"
      BY <2>2 DEF HandTableSaga, EndCommands, Nth
    <3> HIDE DEF c
    <3>2. IsFiniteSet({c}) /\ \A x \in {c} : x.type # "DepositFunds"
      BY <3>1, FS_Singleton
    <3> QED BY <3>1, <3>2
  <2>3. CASE TablePlayerSaga(h)
    <3> DEFINE c == [type |-> "ReleaseFunds", hand |-> h,
                     nth |-> delivered["table-player"][h] + 1, player |-> Stranger]
    <3>1. c.type # "DepositFunds"
      OBVIOUS
    <3>2. \A k \in DOMAIN ended[h] : Unhex(k) = Stranger
      <4>1. ended[h] # NoChanges
        BY <2>3 DEF TablePlayerSaga
      <4>2. DOMAIN ended[h] = {Raw(w) : w \in DOMAIN hands[h].awards}
        BY <4>1 DEF IInv, EndedSound, ChangesOf
      <4> QED BY <4>2 DEF Raw, Unhex
    <3>3. ReleaseCommands(h, delivered["table-player"][h] + 1) \subseteq {c}
      BY <3>2 DEF ReleaseCommands
    <3> HIDE DEF c
    <3>4. commands' = commands \cup ReleaseCommands(h, delivered["table-player"][h] + 1)
          \/ commands' = commands \cup {}
      BY <2>3 DEF TablePlayerSaga, Nth
    <3>5. /\ IsFiniteSet({}) /\ IsFiniteSet({c})
          /\ IsFiniteSet(ReleaseCommands(h, delivered["table-player"][h] + 1))
      BY <3>3, FS_EmptySet, FS_Singleton, FS_Subset
    <3> QED BY <3>1, <3>3, <3>4, <3>5
  <2> QED BY <2>1, <2>2, <2>3
<1>2. PICK s \in Sagas : s # "hand-player" /\ Handed(s, h)
  BY DEF TableHandSaga, HandTableSaga, TablePlayerSaga, Sagas
<1>3. UNCHANGED <<players, refused, hands>>
  BY <1>2 DEF Handed, aggregates
<1>4. delivered'["hand-player"] = delivered["hand-player"]
  BY <1>2 DEF Handed, IInv, TypeOK, Sagas
<1>5. IsFiniteSet(commands')
  BY <1>1, FS_Union DEF MoneyInv
<1>6. \A i \in Hands, p \in Players : AwardOf(i, p)' = AwardOf(i, p)
  BY <1>3 DEF AwardOf
<1> QED BY <1>1, <1>3, <1>4, <1>5, <1>6, OtherCommands

\* The saga sends every winner one more deposit, and none has arrived of it.
LEMMA HandPlayerMoney ==
  ASSUME IInv, IInv', MoneyInv, NEW h \in Hands, HandPlayerSaga(h)
  PROVE  MoneyInv'
<1> DEFINE n == delivered["hand-player"][h] + 1
           winners == DOMAIN hands[h].awards
           deposit == [w \in winners |->
                         [type |-> "DepositFunds", hand |-> h, nth |-> n, player |-> w,
                          amount |-> hands[h].awards[w]]]
           new == {deposit[w] : w \in winners}
<1>1. /\ commands' = commands \cup new
      /\ Handed("hand-player", h)
  BY DEF HandPlayerSaga, DepositCommands, Nth
<1>2. /\ UNCHANGED <<players, refused, hands>>
      /\ delivered'["hand-player"][h] = n
      /\ \A i \in Hands : i # h =>
           delivered'["hand-player"][i] = delivered["hand-player"][i]
  BY <1>1 DEF Handed, aggregates, IInv, TypeOK, Sagas
<1>3. \A w \in winners : /\ deposit[w].type = "DepositFunds" /\ deposit[w].hand = h
                         /\ deposit[w].nth = n /\ deposit[w].player = w
  OBVIOUS
<1>4. winners \in SUBSET Players /\ n \in Nat /\ delivered["hand-player"][h] \in Nat
      /\ n = delivered["hand-player"][h] + 1
  BY AwardsOfType DEF IInv, TypeOK, HandType, Sagas
<1>5. deposit \in [winners -> new]
  OBVIOUS
<1> HIDE DEF deposit, n
<1>6. IsFiniteSet(commands')
  <2>1. IsFiniteSet(winners)
    BY <1>4, PlayersAssumption, FS_Subset
  <2>2. deposit \in Surjection(winners, new)
    BY <1>5 DEF Surjection
  <2>3. IsFiniteSet(new)
    <3> HIDE DEF new, winners
    <3> QED BY <2>1, <2>2, FS_Surjection
  <2> HIDE DEF new, winners
  <2> QED BY <1>1, <2>3, FS_Union DEF MoneyInv
<1>7. ASSUME NEW i \in Hands, NEW p \in Players
      PROVE  (AwardOf(i, p) * Arrived(i, p))' = AwardOf(i, p) * Arrived(i, p)
  <2>1. AwardOf(i, p)' = AwardOf(i, p)
    BY <1>2 DEF AwardOf
  <2>2. CASE i # h
    <3>1. Coming(i, p)' = Coming(i, p)
      BY <1>1, <1>3, <2>2 DEF Coming
    <3> QED BY <1>2, <2>1, <2>2, <3>1 DEF Arrived
  <2>3. CASE i = h /\ p \notin winners
    <3>1. AwardOf(i, p) = 0
      BY <2>3 DEF AwardOf
    <3>2. Arrived(i, p) \in Int /\ Arrived(i, p)' \in Int
      BY <1>6, WonType, WonTypeNext DEF MoneyInv, WonTyped
    <3> QED BY <2>1, <3>1, <3>2
  <2>4. CASE i = h /\ p \in winners
    <3>1. Coming(h, p)' = Coming(h, p) \cup {deposit[p]}
      BY <1>1, <1>3, <2>4 DEF Coming
    <3>2. deposit[p] \notin Coming(h, p)
      <4>1. \A c \in Coming(h, p) : c.nth <= delivered["hand-player"][h]
        BY DEF IInv, DepositsSound, Coming
      <4>2. deposit[p].nth = delivered["hand-player"][h] + 1
        BY <1>3, <1>4, <2>4
      <4>3. ~ deposit[p].nth <= delivered["hand-player"][h]
        BY <1>4, <4>2
      <4> QED BY <4>1, <4>3
    <3>3. IsFiniteSet(Coming(h, p))
      <4>1. Coming(h, p) \subseteq commands
        BY DEF Coming
      <4> QED BY <4>1, FS_Subset DEF MoneyInv
    <3>4. Cardinality(Coming(h, p)') = Cardinality(Coming(h, p)) + 1
      BY <3>1, <3>2, <3>3, FS_AddElement
    <3>5. Cardinality(Coming(h, p)) \in Nat
      BY <3>3, FS_CardinalityType
    <3>6. Arrived(h, p)' = Arrived(h, p)
      BY <1>2, <1>4, <3>4, <3>5 DEF Arrived
    <3> QED BY <2>1, <2>4, <3>6
  <2> QED BY <2>2, <2>3, <2>4
<1>8. ASSUME NEW p \in Players PROVE Won(p)' = Won(p)
  <2>1. \A i \in 0 .. MaxHands - 1 : i + 1 \in Hands
    BY WonType, WonTypeNext DEF MoneyInv, WonTyped
  <2> QED BY <1>7, <2>1 DEF Won
<1> QED BY <1>2, <1>6, <1>8, MoneyFrame DEF MoneyInv

\* A deposit that arrives is one more share for its player, banked or refused.
LEMMA DepositMoney ==
  ASSUME IInv, IInv', MoneyInv, NEW c \in commands, DepositFunds(c)
  PROVE  MoneyInv'
<1> DEFINE h == c.hand
           q == c.player
<1>1. /\ c.type = "DepositFunds" /\ commands' = commands \ {c}
      /\ UNCHANGED <<hands, delivered>>
  BY DEF DepositFunds, Arrives
<1>2. /\ h \in Hands /\ q \in DOMAIN hands[h].awards
      /\ c.amount = hands[h].awards[q]
  BY <1>1 DEF IInv, DepositsSound
<1>3. q \in Players /\ c.amount \in Int /\ c \in CommandType
  BY <1>1, CommandFields, AmountsAssumption DEF IInv, TypeOK
<1>4. IsFiniteSet(commands')
  BY <1>1, FS_RemoveElement DEF MoneyInv
<1>5. \A i, p : AwardOf(i, p)' = AwardOf(i, p)
  BY <1>1 DEF AwardOf
<1>6. /\ \A p \in Players : ~ players'[p].exists => players'[p].bankroll = 0
      /\ \A p \in Players : p # q => /\ players'[p].bankroll = players[p].bankroll
                                     /\ refused'[p] = refused[p]
      /\ players'[q].bankroll + refused'[q]
           = players[q].bankroll + refused[q] + c.amount
  <2>1. players \in [Players -> PlayerType] /\ refused \in [Players -> Int]
    BY DEF IInv, TypeOK
  <2>2. players[q].bankroll \in Int /\ refused[q] \in Int /\ players[q] \in PlayerType
    BY <1>3, <2>1 DEF PlayerType
  <2>3. CASE handle_deposit(players[q], c.amount) = {}
    <3>1. players' = players /\ refused' = [refused EXCEPT ![q] = refused[q] + c.amount]
      BY <2>3 DEF DepositFunds
    <3>2. refused'[q] = refused[q] + c.amount
          /\ \A p \in Players : p # q => refused'[p] = refused[p]
      BY <1>3, <2>1, <3>1
    <3> QED BY <1>3, <2>2, <3>1, <3>2 DEF MoneyInv
  <2>4. CASE handle_deposit(players[q], c.amount) # {}
    <3>1. PICK e \in handle_deposit(players[q], c.amount) :
            /\ players' = [players EXCEPT ![q] = apply_event(players[q], e)]
            /\ refused' = refused
      BY <2>4 DEF DepositFunds
    <3>2. apply_event(players[q], e).bankroll = players[q].bankroll + c.amount
      BY <1>3, <2>2, <3>1, PlayerAfter
    <3>3. apply_event(players[q], e).exists
      <4>1. players[q].exists /\ e.type = "FundsDeposited"
        BY <3>1 DEF handle_deposit, BalanceEvent
      <4> QED BY <2>2, <4>1 DEF apply_event, BalanceEvents, PlayerType
    <3>4. /\ players'[q] = apply_event(players[q], e)
          /\ \A p \in Players : p # q => players'[p] = players[p]
      BY <1>3, <2>1, <3>1
    <3> QED BY <1>3, <2>2, <3>1, <3>2, <3>3, <3>4 DEF MoneyInv
  <2> QED BY <2>3, <2>4
<1> HIDE DEF h, q
<1>7. ASSUME NEW i \in Hands, NEW p \in Players
      PROVE  Arrived(i, p)' = IF i = h /\ p = q THEN Arrived(i, p) + 1 ELSE Arrived(i, p)
  <2>1. CASE ~ (i = h /\ p = q)
    <3>1. Coming(i, p)' = Coming(i, p)
      BY <1>1, <2>1 DEF Coming, h, q
    <3> QED BY <1>1, <2>1, <3>1 DEF Arrived
  <2>2. CASE i = h /\ p = q
    <3>1. Coming(i, p)' = Coming(i, p) \ {c} /\ c \in Coming(i, p)
      BY <1>1, <2>2 DEF Coming, h, q
    <3>2. IsFiniteSet(Coming(i, p))
      <4>1. Coming(i, p) \subseteq commands
        BY DEF Coming
      <4> QED BY <4>1, FS_Subset DEF MoneyInv
    <3>3. Cardinality(Coming(i, p)') = Cardinality(Coming(i, p)) - 1
      BY <3>1, <3>2, FS_RemoveElement
    <3>4. Cardinality(Coming(i, p)) \in Nat /\ delivered["hand-player"][i] \in Nat
      BY <3>2, FS_CardinalityType DEF IInv, TypeOK, Sagas
    <3> QED BY <1>1, <2>2, <3>3, <3>4 DEF Arrived
  <2> QED BY <2>1, <2>2
<1>8. \A i \in 0 .. MaxHands - 1 : i + 1 \in Hands
  BY <1>3, WonType, WonTypeNext DEF MoneyInv, WonTyped
<1>9. ASSUME NEW p \in Players, p # q
      PROVE  players'[p].bankroll + refused'[p] = SumTo(Won(p)', MaxHands)
  <2>1. Won(p)' = Won(p)
    BY <1>5, <1>7, <1>8, <1>9 DEF Won
  <2>2. players[p].bankroll + refused[p] = SumTo(Won(p), MaxHands)
    BY DEF MoneyInv, MoneyAccounted, Won
  <2> QED BY <1>6, <1>9, <2>1, <2>2
<1>10. players'[q].bankroll + refused'[q] = SumTo(Won(q)', MaxHands)
  <2>1. h - 1 \in 0 .. MaxHands - 1 /\ (h - 1) + 1 = h
    BY <1>2, BoundsAssumption DEF Hands, h
  <2>2. Won(q) \in [0 .. MaxHands - 1 -> Int] /\ Won(q)' \in [0 .. MaxHands - 1 -> Int]
    BY <1>3, <1>4, WonType, WonTypeNext DEF MoneyInv, WonTyped, q
  <2>3. AwardOf(h, q) = c.amount
    BY <1>2 DEF AwardOf, h, q
  <2>4. Arrived(h, q) \in Int
    BY <1>2, <1>3, WonType, WonTypeNext DEF MoneyInv, WonTyped, h, q
  <2>5. h \in Hands /\ q \in Players
    BY <1>2, <1>3 DEF h, q
  <2>6. Won(q)[h - 1] = c.amount * Arrived(h, q)
    BY <2>1, <2>3 DEF Won
  <2>7. Won(q)'[h - 1] = c.amount * (Arrived(h, q) + 1)
    BY <1>5, <1>7, <2>1, <2>3, <2>5 DEF Won
  <2>8. \A i \in 0 .. MaxHands - 1 : i # h - 1 => Won(q)'[i] = Won(q)[i]
    <3>1. \A i \in 0 .. MaxHands - 1 : i # h - 1 => i + 1 # h
      BY <2>1
    <3> QED BY <1>5, <1>7, <1>8, <2>5, <3>1 DEF Won
  <2> DEFINE x == c.amount * (Arrived(h, q) + 1)
             f == Won(q)
  <2>9. x \in Int /\ x = f[h - 1] + c.amount /\ f[h - 1] \in Int
    BY <1>3, <2>1, <2>2, <2>4, <2>6
  <2>10. Won(q)' = [f EXCEPT ![h - 1] = x]
    BY <2>1, <2>2, <2>7, <2>8
  <2>11. players[q].bankroll + refused[q] = SumTo(f, MaxHands)
    BY <2>5 DEF MoneyInv, MoneyAccounted, Won
  <2>12. f \in [0 .. MaxHands - 1 -> Int] /\ MaxHands \in Nat
    BY <2>2, BoundsAssumption
  <2> HIDE DEF x, f
  <2>13. SumTo([f EXCEPT ![h - 1] = x], MaxHands) = SumTo(f, MaxHands) + x - f[h - 1]
    BY <2>1, <2>9, <2>12, SumToUpdate
  <2>14. SumTo(f, MaxHands) \in Int
    BY <2>12, SumToType
  <2> QED BY <1>3, <1>6, <2>9, <2>10, <2>11, <2>13, <2>14
<1>11. \A p \in Players : players'[p].bankroll + refused'[p] = SumTo(Won(p)', MaxHands)
  BY <1>9, <1>10
<1> QED BY <1>4, <1>6, <1>11 DEF MoneyInv, MoneyAccounted, Won

LEMMA NextMoney == IInv /\ IInv' /\ MoneyInv /\ [Next]_vars => MoneyInv'
<1> SUFFICES ASSUME IInv, IInv', MoneyInv, [Next]_vars PROVE MoneyInv'
  OBVIOUS
<1>1. ASSUME UNCHANGED <<players, hands, delivered, commands, refused>>
      PROVE  MoneyInv'
  <2>1. \A p : Won(p)' = Won(p)
    BY <1>1 DEF Won, AwardOf, Arrived, Coming
  <2> QED BY <1>1, <2>1, MoneyFrame DEF MoneyInv
<1>2. ASSUME Client PROVE MoneyInv'
  <2>1. ASSUME NEW n, NEW lo, NEW hi, CreateTable(n, lo, hi) PROVE MoneyInv'
    BY <1>1, <2>1 DEF CreateTable
  <2>2. ASSUME NEW p \in Players, NEW buy_in, JoinTable(p, buy_in) PROVE MoneyInv'
    BY <1>1, <2>2 DEF JoinTable
  <2>3. ASSUME StartHand PROVE MoneyInv'
    BY <1>1, <2>3 DEF StartHand
  <2> QED BY <1>2, <2>1, <2>2, <2>3, RegisterMoney, AwardMoney DEF Client
<1>3. ASSUME NEW h \in Hands, Saga(h) PROVE MoneyInv'
  BY <1>3, OtherSagaMoney, HandPlayerMoney DEF Saga
<1>4. ASSUME NEW c \in commands, Arrival(c) PROVE MoneyInv'
  BY <1>4, DealMoney, OtherArrivalMoney, DepositMoney DEF Arrival
<1>5. CASE UNCHANGED vars
  BY <1>1, <1>5 DEF vars
<1> QED BY <1>2, <1>3, <1>4, <1>5 DEF Next

\* Every player's bankroll, with the winnings he was refused, is the sum of
\* what he won, each as often as its deposit arrived (hand/saga-player
\* main.cpp:33-54).
THEOREM MoneyHolds == Spec => []MoneyAccounted
<1>1. Init => MoneyInv
  BY InitMoney
<1>2. IInv /\ IInv' /\ MoneyInv /\ [Next]_vars => MoneyInv'
  BY NextMoney
<1>3. MoneyInv => MoneyAccounted
  BY DEF MoneyInv
<1> QED BY <1>1, <1>2, <1>3, InvariantHolds, PTL DEF Spec
=============================================================================
