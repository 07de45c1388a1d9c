---------------------------- MODULE TableProofs ----------------------------
(***************************************************************************)
(* The safety properties of module Table, for every number of seats and    *)
(* every set of players and amounts.                                       *)
(***************************************************************************)
EXTENDS Table, SumLemmas, FiniteSetTheorems, TLAPS

\* A table that was never created has no seats, and the hand that runs is the
\* last one started.
HandsCounted ==
  /\ table.status = "none" => table.max_players = 0
  /\ table.status = "in_hand" => /\ table.current_hand_root = table.hand_count
                                 /\ table.hand_count >= 1

\* Where the players sit.
SeatsSound ==
  /\ Taken(table) \subseteq 0 .. table.max_players - 1
  /\ \A player \in Players : \A p, q \in SeatsOf(table, player) : p = q

IInv == TypeOK /\ HandsCounted /\ SeatsSound /\ DealtInStay /\ HandsEndOnce

-----------------------------------------------------------------------------
(***************************************************************************)
(* Walking round the table.                                                *)
(***************************************************************************)
\* A nonempty set of positions has a least element, which Least finds.
LEMMA LeastIsMember ==
  ASSUME NEW S \in SUBSET Nat, S # {}
  PROVE  Least(S) \in S
BY LeastElement DEF Least

\* NextIn stays in the set, and leaves p when there is anywhere else to go.
LEMMA NextInIsAnother ==
  ASSUME NEW S \in SUBSET Nat, NEW p \in S
  PROVE  /\ NextIn(S, p) \in S
         /\ (\E q \in S : q # p) => NextIn(S, p) # p
<1>1. CASE \E q \in S : q > p
  <2>1. {q \in S : q > p} \in SUBSET Nat /\ {q \in S : q > p} # {}
    BY <1>1
  <2>2. Least({q \in S : q > p}) \in {q \in S : q > p}
    BY <2>1, LeastIsMember
  <2> QED BY <1>1, <2>2 DEF NextIn
<1>2. CASE ~ \E q \in S : q > p
  <2>1. Least(S) \in S /\ \A q \in S : Least(S) <= q
    BY LeastElement DEF Least
  <2>2. ASSUME NEW q \in S, q # p
        PROVE  Least(S) # p
    <3>1. q < p
      BY <1>2, <2>2
    <3> QED BY <2>1, <3>1
  <2> QED BY <1>2, <2>1, <2>2 DEF NextIn
<1> QED BY <1>1, <1>2

\* The positions are natural numbers.
LEMMA PositionsAreNat == Positions \subseteq Nat
BY MaxSeatsAssumption DEF Positions

-----------------------------------------------------------------------------
\* A table that is not full has a free seat: counting the seats and looking
\* for one agree as long as nobody sits outside.
LEMMA NotFullHasSeat ==
  ASSUME NEW s \in TableType,
         Taken(s) \subseteq 0 .. s.max_players - 1,
         ~ is_full(s)
  PROVE  (0 .. s.max_players - 1) \ Taken(s) # {}
<1> DEFINE m == s.max_players
           T == Taken(s)
<1>1. m \in 0 .. MaxSeats /\ m \in Nat
  BY MaxSeatsAssumption DEF TableType
<1>2. IsFiniteSet(0 .. m - 1) /\ Cardinality(0 .. m - 1) = m
  <2>1. 0 \in Int /\ m - 1 \in Int
    BY <1>1
  <2>2. /\ IsFiniteSet(0 .. m - 1)
        /\ Cardinality(0 .. m - 1) = IF 0 > m - 1 THEN 0 ELSE (m - 1) - 0 + 1
    <3> HIDE DEF m
    <3> QED BY <2>1, FS_Interval
  <2> QED BY <1>1, <2>2
<1>3. Cardinality(T) < m
  <2>1. IsFiniteSet(T)
    BY <1>2, FS_Subset
  <2>2. Cardinality(T) \in Nat
    BY <2>1, FS_CardinalityType
  <2> QED BY <1>1, <2>2 DEF is_full
<1>4. T # 0 .. m - 1
  BY <1>1, <1>2, <1>3
<1> QED BY <1>4

\* Whoever joins gets a free seat of the table.
LEMMA JoinFindsSeat ==
  ASSUME TypeOK, SeatsSound,
         NEW player, NEW buy_in, NEW preferred \in Int,
         NEW e \in handle_join(table, player, buy_in, preferred)
  PROVE  /\ e.position \in (0 .. table.max_players - 1) \ Taken(table)
         /\ e.player = player
         /\ e.stack = buy_in
         /\ SeatsOf(table, player) = {}
<1> DEFINE free == (0 .. table.max_players - 1) \ Taken(table)
<1>1. table \in TableType /\ Taken(table) \subseteq 0 .. table.max_players - 1
  BY DEF TypeOK, SeatsSound
<1>2. /\ ~ is_full(table)
      /\ SeatsOf(table, player) = {}
      /\ e = [type |-> "PlayerJoined", player |-> player, stack |-> buy_in,
              position |-> find_available_seat(table, preferred)]
  BY DEF handle_join
<1>3. free # {}
  BY <1>1, <1>2, NotFullHasSeat
<1>4. free \in SUBSET Nat
  BY <1>1, MaxSeatsAssumption DEF TableType
<1>5. Least(free) \in free
  BY <1>3, <1>4, LeastIsMember
<1>6. find_available_seat(table, preferred) \in free
  <2> HIDE DEF free
  <2>1. find_available_seat(table, preferred)
          = IF preferred > 0 /\ preferred \in free THEN preferred
            ELSE IF free # {} THEN Least(free) ELSE -1
    BY DEF find_available_seat, free
  <2> QED BY <2>1, <1>3, <1>5
<1> QED BY <1>2, <1>6

-----------------------------------------------------------------------------
(***************************************************************************)
(* The inductive invariant, one lemma per command or fact.                 *)
(***************************************************************************)
\* A new table is in the invariant.
LEMMA InitIInv == Init => IInv
<1> SUFFICES ASSUME Init PROVE IInv
  OBVIOUS
<1>1. 0 \in 0 .. MaxSeats /\ 0 \in Positions
  BY MaxSeatsAssumption DEF Positions
<1>2. TypeOK
  BY <1>1 DEF Init, TypeOK, NewTable, TableType
<1>3. Taken(table) = {}
  BY DEF Init, NewTable, Taken
<1>4. \A player \in Players : SeatsOf(table, player) = {}
  BY NobodyAssumption DEF Init, NewTable, SeatsOf
<1>5. SeatsSound
  BY <1>3, <1>4 DEF SeatsSound
<1>6. HandsCounted /\ DealtInStay
  BY DEF Init, NewTable, HandsCounted, DealtInStay
<1>7. HandsEndOnce
  BY DEF Init, NewTable, HandsEndOnce
<1> QED BY <1>2, <1>5, <1>6, <1>7 DEF IInv

\* A step that leaves the seats, the phase and the hands alone, as sitting out
\* does, keeps what the invariant says of them.
LEMMA SameSeats ==
  ASSUME IInv,
         table'.seat = table.seat, table'.max_players = table.max_players
  PROVE  SeatsSound'
BY DEF IInv, SeatsSound, Taken, SeatsOf

\* Creating the table.
LEMMA CreateIInv ==
  ASSUME IInv, NEW max_players \in 0 .. MaxSeats + 1,
         NEW min_buy_in \in BuyIns, NEW max_buy_in \in BuyIns,
         CreateTable(max_players, min_buy_in, max_buy_in)
  PROVE  IInv'
<1>1. /\ table.status = "none" /\ max_players \in 2 .. MaxSeats
      /\ table' = [table EXCEPT !.status = "waiting", !.min_buy_in = min_buy_in,
                     !.max_buy_in = max_buy_in, !.max_players = max_players]
      /\ UNCHANGED <<dealt_in, ended>>
  <2>1. PICK e \in handle_create(table, max_players, min_buy_in, max_buy_in) :
          /\ table' = apply_table_created(table, e)
          /\ UNCHANGED <<dealt_in, ended>>
    BY DEF CreateTable
  <2>2. /\ table.status = "none" /\ max_players \in 2 .. MaxSeats
        /\ e = [type |-> "TableCreated", max_players |-> max_players,
                min_buy_in |-> min_buy_in, max_buy_in |-> max_buy_in]
    BY DEF handle_create
  <2>3. /\ e.max_players = max_players /\ e.min_buy_in = min_buy_in
        /\ e.max_buy_in = max_buy_in
    BY <2>2
  <2> QED BY <2>1, <2>2, <2>3 DEF apply_table_created
<1>2. table \in TableType /\ max_players \in 0 .. MaxSeats
      /\ min_buy_in \in Nat /\ max_buy_in \in Nat
  BY <1>1, BuyInsAssumption, MaxSeatsAssumption DEF IInv, TypeOK
<1>3. TypeOK'
  BY <1>1, <1>2 DEF IInv, TypeOK, TableType
<1>4. /\ table'.seat = table.seat /\ table'.status = "waiting"
      /\ table'.hand_count = table.hand_count
      /\ table'.max_players = max_players
  BY <1>1, <1>2 DEF TableType
<1>5. Taken(table') = {}
  <2>1. Taken(table) \subseteq 0 .. 0 - 1
    BY <1>1 DEF IInv, HandsCounted, SeatsSound
  <2> QED BY <2>1, <1>4 DEF Taken
<1>6. SeatsSound'
  BY <1>4, <1>5 DEF IInv, SeatsSound, SeatsOf
<1>7. HandsCounted' /\ DealtInStay'
  BY <1>4 DEF HandsCounted, DealtInStay
<1>8. HandsEndOnce'
  BY <1>1, <1>4 DEF IInv, HandsEndOnce
<1> QED BY <1>3, <1>6, <1>7, <1>8 DEF IInv

\* Sitting down: at a free seat, so that nobody who is dealt in is displaced.
LEMMA JoinIInv ==
  ASSUME IInv, NEW player \in Players, NEW buy_in \in BuyIns,
         NEW preferred \in 0 .. MaxSeats,
         JoinTable(player, buy_in, preferred)
  PROVE  IInv'
<1>1. PICK e \in handle_join(table, player, buy_in, preferred) :
        /\ table' = apply_player_joined(table, e)
        /\ UNCHANGED <<dealt_in, ended>>
  BY DEF JoinTable
<1> DEFINE p == e.position
<1>2. /\ p \in (0 .. table.max_players - 1) \ Taken(table)
      /\ e.player = player /\ e.stack = buy_in
      /\ SeatsOf(table, player) = {}
  BY JoinFindsSeat DEF IInv
<1>3. table \in TableType /\ buy_in \in Int
  BY BuyInsAssumption DEF IInv, TypeOK
<1>4. p \in Positions
  BY <1>2, <1>3, MaxSeatsAssumption DEF TableType, Positions
<1>5. table' = [table EXCEPT !.seat[p] = player, !.stack[p] = buy_in,
                             !.sitting_out = @ \ {p}]
  BY <1>1, <1>2 DEF apply_player_joined
<1> HIDE DEF p
<1>6. /\ table'.seat = [table.seat EXCEPT ![p] = player]
      /\ table'.status = table.status
      /\ table'.hand_count = table.hand_count
      /\ table'.current_hand_root = table.current_hand_root
      /\ table'.max_players = table.max_players
  BY <1>3, <1>5 DEF TableType
<1>7. TypeOK'
  <2>1. table' \in TableType
    BY <1>3, <1>4, <1>5 DEF TableType
  <2> QED BY <2>1, <1>1 DEF IInv, TypeOK
<1>8. table.seat \in [Positions -> Players \cup {Nobody}] /\ player # Nobody
  BY <1>3, NobodyAssumption DEF TableType
<1>9. Taken(table') = Taken(table) \cup {p}
  BY <1>4, <1>6, <1>8 DEF Taken
<1>10. SeatsOf(table', player) = {p}
  BY <1>2, <1>4, <1>6, <1>8 DEF SeatsOf
<1>11. \A other \in Players \ {player} : SeatsOf(table', other) \subseteq SeatsOf(table, other)
  BY <1>4, <1>6, <1>8 DEF SeatsOf
<1>12. SeatsSound'
  <2>1. Taken(table') \subseteq 0 .. table'.max_players - 1
    BY <1>2, <1>6, <1>9 DEF IInv, SeatsSound
  <2>2. \A other \in Players : \A q, r \in SeatsOf(table', other) : q = r
    BY <1>10, <1>11 DEF IInv, SeatsSound
  <2> QED BY <2>1, <2>2 DEF SeatsSound
<1>13. DealtInStay'
  <2>1. dealt_in' = dealt_in
    BY <1>1
  <2>2. table.status = "in_hand" =>
          \A q \in Positions : dealt_in[q] # Nobody => q # p /\ table.seat[q] = dealt_in[q]
    BY <1>2 DEF IInv, DealtInStay, Taken
  <2> QED BY <2>1, <2>2, <1>6, <1>8 DEF DealtInStay
<1>14. HandsCounted'
  BY <1>6 DEF IInv, HandsCounted
<1>15. HandsEndOnce'
  BY <1>1, <1>6 DEF IInv, HandsEndOnce
<1> QED BY <1>7, <1>12, <1>13, <1>14, <1>15 DEF IInv

\* Leaving: never during a hand.
LEMMA LeaveIInv ==
  ASSUME IInv, NEW player \in Players, LeaveTable(player)
  PROVE  IInv'
<1>1. PICK p \in SeatsOf(table, player) :
        /\ table.status \notin {"none", "in_hand"}
        /\ table' = [table EXCEPT !.seat[p] = Nobody, !.stack[p] = 0,
                                  !.sitting_out = @ \ {p}]
        /\ UNCHANGED <<dealt_in, ended>>
  <2>1. PICK e \in handle_leave(table, player) :
          /\ table' = apply_player_left(table, e)
          /\ UNCHANGED <<dealt_in, ended>>
    BY DEF LeaveTable
  <2>2. /\ e.position \in SeatsOf(table, player)
        /\ table.status \notin {"none", "in_hand"}
    BY DEF handle_leave
  <2> QED BY <2>1, <2>2 DEF apply_player_left
<1>2. table \in TableType /\ p \in Positions
  BY DEF IInv, TypeOK, SeatsOf
<1>3. /\ table'.seat = [table.seat EXCEPT ![p] = Nobody]
      /\ table'.status = table.status
      /\ table'.hand_count = table.hand_count
      /\ table'.current_hand_root = table.current_hand_root
      /\ table'.max_players = table.max_players
  BY <1>1, <1>2 DEF TableType
<1>4. TypeOK'
  <2> DEFINE seats  == [table.seat EXCEPT ![p] = Nobody]
             stacks == [table.stack EXCEPT ![p] = 0]
             out    == table.sitting_out \ {p}
  <2>1. table' = [table EXCEPT !.seat = seats, !.stack = stacks,
                               !.sitting_out = out]
    BY <1>1, <1>2 DEF TableType
  <2>2. /\ seats \in [Positions -> Players \cup {Nobody}]
        /\ stacks \in [Positions -> Int]
        /\ out \in SUBSET Positions
    BY <1>2 DEF TableType
  <2>3. table' \in TableType
    <3> HIDE DEF seats, stacks, out
    <3> QED BY <1>2, <2>1, <2>2 DEF TableType
  <2> QED BY <2>3, <1>1 DEF IInv, TypeOK
<1>5. table.seat \in [Positions -> Players \cup {Nobody}]
  BY <1>2 DEF TableType
<1>6. Taken(table') \subseteq Taken(table)
  BY <1>3, <1>5 DEF Taken
<1>7. \A other \in Players : SeatsOf(table', other) \subseteq SeatsOf(table, other)
  BY <1>3, <1>5, NobodyAssumption DEF SeatsOf
<1>8. SeatsSound'
  BY <1>3, <1>6, <1>7 DEF IInv, SeatsSound
<1>9. DealtInStay' /\ HandsCounted'
  BY <1>1, <1>3 DEF IInv, DealtInStay, HandsCounted
<1>10. HandsEndOnce'
  BY <1>1, <1>3 DEF IInv, HandsEndOnce
<1> QED BY <1>4, <1>8, <1>9, <1>10 DEF IInv

\* Starting a hand: its number, and so its root, is a new one.
LEMMA StartIInv ==
  ASSUME IInv, StartHand
  PROVE  IInv'
<1>1. PICK e \in handle_start_hand(table) :
        /\ table' = apply_hand_started(table, e)
        /\ dealt_in' = [p \in Positions |->
                          IF p \in e.active THEN table.seat[p] ELSE Nobody]
        /\ UNCHANGED ended
  BY DEF StartHand
<1>2. /\ table.status = "waiting"
      /\ \E p, q \in Active(table) : p # q
      /\ e.hand_number = table.hand_count + 1
      /\ e.hand_root = table.hand_count + 1
      /\ e.dealer = next_dealer_position(table)
      /\ e.active = Active(table)
  BY DEF handle_start_hand
<1>3. table \in TableType /\ Taken(table) \in SUBSET Nat /\ Taken(table) \subseteq Positions
  BY PositionsAreNat DEF IInv, TypeOK, Taken
<1>4. e.dealer \in Positions
  <2>1. Taken(table) # {}
    BY <1>2 DEF Active
  <2>2. Least(Taken(table)) \in Taken(table)
    BY <1>3, <2>1, LeastIsMember
  <2>3. next_dealer_position(table) \in Taken(table)
    BY <1>3, <2>2, NextInIsAnother DEF next_dealer_position
  <2> QED BY <1>2, <1>3, <2>3
<1>5. table' = [table EXCEPT !.status = "in_hand", !.hand_count = e.hand_number,
                  !.current_hand_root = e.hand_root, !.dealer_position = e.dealer]
  BY <1>1 DEF apply_hand_started
<1>6. table.hand_count \in Nat /\ e.hand_number \in Nat /\ e.hand_root \in Nat
  BY <1>2, <1>3 DEF TableType
<1>7. /\ table'.status = "in_hand" /\ table'.hand_count = table.hand_count + 1
      /\ table'.current_hand_root = table.hand_count + 1
      /\ table'.seat = table.seat /\ table'.max_players = table.max_players
  BY <1>2, <1>3, <1>5 DEF TableType
<1>8. TypeOK'
  <2>1. table' \in TableType
    BY <1>3, <1>4, <1>5, <1>6 DEF TableType
  <2>2. dealt_in' \in [Positions -> Players \cup {Nobody}]
    BY <1>1, <1>3 DEF TableType
  <2> QED BY <2>1, <2>2, <1>1 DEF IInv, TypeOK
<1>9. SeatsSound'
  BY <1>7, SameSeats
<1>10. DealtInStay'
  BY <1>1, <1>7 DEF DealtInStay
<1>11. HandsCounted'
  BY <1>6, <1>7 DEF HandsCounted
<1>12. HandsEndOnce'
  <2>1. ended = 1 .. table.hand_count
    BY <1>2 DEF IInv, HandsEndOnce
  <2>2. ended' = (1 .. table.hand_count + 1) \ {table.hand_count + 1}
    BY <1>1, <1>6, <2>1
  <2> QED BY <1>7, <2>2 DEF HandsEndOnce
<1> QED BY <1>8, <1>9, <1>10, <1>11, <1>12 DEF IInv

\* Ending a hand: only the one that runs, which is the last one.
LEMMA EndIInv ==
  ASSUME IInv, NEW hand_root, NEW winners \in SUBSET Players,
         NEW results \in [winners -> Winnings],
         EndHand(hand_root, results)
  PROVE  IInv'
<1>1. PICK e \in handle_end_hand(table, hand_root, results) :
        /\ table' = apply_hand_ended(table, e)
        /\ ended' = ended \cup {e.hand_root}
        /\ UNCHANGED dealt_in
  BY DEF EndHand
<1>2. /\ table.status = "in_hand" /\ e.hand_root = table.current_hand_root
      /\ e.stack_changes = [k \in {Raw(w) : w \in DOMAIN results} |-> results[k[2]]]
  BY DEF handle_end_hand
<1>3. table \in TableType
  BY DEF IInv, TypeOK
<1> DEFINE Change(p) ==
             IF table.seat[p] # Nobody /\ Hex(table.seat[p]) \in DOMAIN e.stack_changes
             THEN e.stack_changes[Hex(table.seat[p])] ELSE 0
           stacks == [p \in Positions |-> table.stack[p] + Change(p)]
<1>4. table' = [table EXCEPT !.status = "waiting", !.current_hand_root = 0,
                             !.stack = stacks]
  BY <1>1 DEF apply_hand_ended
<1>5. \A p \in Positions : Change(p) = 0
  BY <1>2 DEF Hex, Raw
<1>6. stacks \in [Positions -> Int]
  <2>1. \A p \in Positions : table.stack[p] + Change(p) \in Int
    <3> HIDE DEF Change
    <3> QED BY <1>3, <1>5 DEF TableType
  <2> QED BY <2>1
<1> HIDE DEF stacks
<1>7. /\ table'.status = "waiting" /\ table'.hand_count = table.hand_count
      /\ table'.seat = table.seat /\ table'.max_players = table.max_players
  BY <1>3, <1>4 DEF TableType
<1>8. /\ table.hand_count \in Nat /\ table.hand_count >= 1
      /\ e.hand_root = table.hand_count
  BY <1>2, <1>3 DEF IInv, HandsCounted, TableType
<1>9. TypeOK'
  <2>1. table' \in TableType
    BY <1>3, <1>4, <1>6 DEF TableType
  <2>2. ended' \subseteq Nat
    BY <1>1, <1>8 DEF IInv, TypeOK
  <2> QED BY <2>1, <2>2, <1>1 DEF IInv, TypeOK
<1>10. SeatsSound'
  BY <1>7, SameSeats
<1>11. DealtInStay' /\ HandsCounted'
  BY <1>2, <1>7 DEF IInv, DealtInStay, HandsCounted
<1>12. HandsEndOnce'
  <2>1. ended = (1 .. table.hand_count) \ {table.hand_count}
    BY <1>2, <1>8 DEF IInv, HandsEndOnce
  <2>2. ended' = 1 .. table.hand_count
    BY <1>1, <1>8, <2>1
  <2> QED BY <1>7, <2>2 DEF HandsEndOnce
<1> QED BY <1>9, <1>10, <1>11, <1>12 DEF IInv

\* Sitting out and coming back.
LEMMA SitIInv ==
  ASSUME IInv, NEW player \in Players, SitOut(player) \/ SitIn(player)
  PROVE  IInv'
<1>1. PICK S \in SUBSET Positions : table' = [table EXCEPT !.sitting_out = S]
  <2>1. /\ table.sitting_out \cup SeatsOf(table, player) \in SUBSET Positions
        /\ table.sitting_out \ SeatsOf(table, player) \in SUBSET Positions
    BY DEF IInv, TypeOK, TableType, SeatsOf
  <2>2. \/ table' = [table EXCEPT !.sitting_out = table.sitting_out \cup SeatsOf(table, player)]
        \/ table' = [table EXCEPT !.sitting_out = table.sitting_out \ SeatsOf(table, player)]
    BY DEF SitOut, SitIn, apply_player_sat_out, apply_player_sat_in
  <2> QED BY <2>1, <2>2
<1>2. UNCHANGED <<dealt_in, ended>>
  BY DEF SitOut, SitIn
<1>3. table \in TableType
  BY DEF IInv, TypeOK
<1>4. /\ table'.seat = table.seat /\ table'.status = table.status
      /\ table'.hand_count = table.hand_count
      /\ table'.current_hand_root = table.current_hand_root
      /\ table'.max_players = table.max_players
  BY <1>1, <1>3 DEF TableType
<1>5. TypeOK'
  <2>1. table' \in TableType
    BY <1>1, <1>3 DEF TableType
  <2> QED BY <2>1, <1>2 DEF IInv, TypeOK
<1>6. SeatsSound'
  BY <1>4, SameSeats
<1>7. DealtInStay' /\ HandsCounted'
  BY <1>2, <1>4 DEF IInv, DealtInStay, HandsCounted
<1>8. HandsEndOnce'
  BY <1>2, <1>4 DEF IInv, HandsEndOnce
<1> QED BY <1>5, <1>6, <1>7, <1>8 DEF IInv

\* Every step keeps the invariant.
LEMMA NextIInv == IInv /\ [Next]_vars => IInv'
<1> SUFFICES ASSUME IInv, [Next]_vars PROVE IInv'
  OBVIOUS
<1>1. CASE UNCHANGED vars
  BY <1>1 DEF vars, IInv, TypeOK, HandsCounted, SeatsSound, Taken, SeatsOf,
              DealtInStay, HandsEndOnce
<1>2. CASE \E max_players \in 0 .. MaxSeats + 1, min_buy_in, max_buy_in \in BuyIns :
             CreateTable(max_players, min_buy_in, max_buy_in)
  BY <1>2, CreateIInv
<1>3. CASE \E player \in Players, buy_in \in BuyIns, preferred \in 0 .. MaxSeats :
             JoinTable(player, buy_in, preferred)
  BY <1>3, JoinIInv
<1>4. CASE \E player \in Players : LeaveTable(player)
  BY <1>4, LeaveIInv
<1>5. CASE StartHand
  BY <1>5, StartIInv
<1>6. CASE \E hand_root \in 1 .. MaxHands, winners \in SUBSET Players :
             \E results \in [winners -> Winnings] : EndHand(hand_root, results)
  BY <1>6, EndIInv
<1>7. CASE \E player \in Players : SitOut(player) \/ SitIn(player)
  BY <1>7, SitIInv
<1> QED BY <1>1, <1>2, <1>3, <1>4, <1>5, <1>6, <1>7 DEF Next

\* The invariant holds throughout.
THEOREM Invariance == Spec => []IInv
BY InitIInv, NextIInv, PTL DEF Spec

-----------------------------------------------------------------------------
\* Every variable keeps its type (table_state.cpp, all handlers).
THEOREM TableTypeCorrect == Spec => []TypeOK
<1>1. IInv => TypeOK
  BY DEF IInv
<1> QED BY <1>1, Invariance, PTL

\* No one sits twice or outside, and every accepted join finds a free seat
\* (join_handler.cpp:22-42, table_state.cpp:131-144).
THEOREM SeatingSoundHolds == Spec => []SeatingSound
<1>1. IInv => SeatingSound
  <2> SUFFICES ASSUME IInv PROVE SeatingSound
    OBVIOUS
  <2>1. TypeOK /\ SeatsSound
    BY DEF IInv
  <2>2. ASSUME NEW player \in Players, NEW buy_in \in BuyIns,
               NEW preferred \in 0 .. MaxSeats,
               NEW e \in handle_join(table, player, buy_in, preferred)
        PROVE  e.position \in (0 .. table.max_players - 1) \ Taken(table)
    BY <2>1, JoinFindsSeat
  <2> QED BY <2>1, <2>2 DEF SeatingSound, SeatsSound
<1> QED BY <1>1, Invariance, PTL

\* Who is dealt in stays at his seat until the hand ends
\* (leave_handler.cpp:27, join_handler.cpp).
THEOREM DealtInStayHolds == Spec => []DealtInStay
<1>1. IInv => DealtInStay
  BY DEF IInv
<1> QED BY <1>1, Invariance, PTL

\* Hands are ended exactly once and in order (end_hand_handler.cpp:17-22).
THEOREM HandsEndOnceHolds == Spec => []HandsEndOnce
<1>1. IInv => HandsEndOnce
  BY DEF IInv
<1> QED BY <1>1, Invariance, PTL

\* The two blinds are different players dealt in
\* (start_hand_handler.cpp:53-82).
THEOREM BlindsAreDealtInHolds == Spec => []BlindsAreDealtIn
<1>1. IInv => BlindsAreDealtIn
  <2> SUFFICES ASSUME IInv, NEW e \in handle_start_hand(table)
               PROVE  /\ e.blinds.small # e.blinds.big
                      /\ {e.blinds.small, e.blinds.big} \subseteq e.active
    BY DEF BlindsAreDealtIn
  <2> DEFINE A == Active(table)
             from == IF e.dealer \in A THEN e.dealer ELSE Least(A)
             next == NextIn(A, from)
  <2>1. /\ \E p, q \in A : p # q
        /\ e.active = A
        /\ e.blinds = Blinds(table, e.dealer)
    BY DEF handle_start_hand
  <2>2. A \in SUBSET Nat /\ A # {}
    BY <2>1, PositionsAreNat DEF Active, Taken
  <2>3. from \in A
    BY <2>2, LeastIsMember
  <2>4. \A p \in A : NextIn(A, p) \in A /\ NextIn(A, p) # p
    BY <2>1, <2>2, NextInIsAnother
  <2>5. \/ e.blinds = [small |-> from, big |-> next]
        \/ e.blinds = [small |-> next, big |-> NextIn(A, next)]
    BY <2>1 DEF Blinds
  <2> HIDE DEF from, A
  <2>6. next \in A /\ next # from /\ NextIn(A, next) \in A /\ NextIn(A, next) # next
    BY <2>3, <2>4
  <2> HIDE DEF next
  <2> QED BY <2>1, <2>3, <2>5, <2>6
<1> QED BY <1>1, Invariance, PTL
=============================================================================
