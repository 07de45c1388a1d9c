----------------------------- MODULE TableState -----------------------------
(***************************************************************************)
(* The table aggregate as the code has it: the state rebuilt from events   *)
(* (table/agg/src/table_state.cpp) and the command handlers                *)
(* (table/agg/handlers), each the set of events it returns: empty when it  *)
(* throws CommandRejectedError.                                            *)
(*                                                                         *)
(* seats, a map from positions, is here one function per field of a seat,  *)
(* Nobody standing for "no entry".  A hand root, which the code computes   *)
(* by hashing the table's id and the hand number, is the hand number (no   *)
(* two hand numbers of a table hash alike); 0 is the empty root.  The      *)
(* name, the variant, the size of the blinds and the timeout are left out, *)
(* and ChipsAdded, which no handler returns.                               *)
(*                                                                         *)
(* A definition under the word Fault is a variant with a plausible bug in  *)
(* it, for showing that a property would notice; no action uses it.        *)
(***************************************************************************)
EXTENDS Integers, FiniteSets

CONSTANTS
  Players,       \* roots of players
  Nobody,        \* an empty seat
  MaxSeats       \* what max_players may be at most: 10 in the code

ASSUME MaxSeatsAssumption == MaxSeats \in Nat /\ MaxSeats >= 2
ASSUME NobodyAssumption   == Nobody \notin Players

Positions == 0 .. MaxSeats - 1

TableType ==
  [status            : {"none", "waiting", "in_hand"},   \* none: empty
   min_buy_in        : Nat,
   max_buy_in        : Nat,
   max_players       : 0 .. MaxSeats,
   seat              : [Positions -> Players \cup {Nobody}],
   stack             : [Positions -> Int],
   sitting_out       : SUBSET Positions,
   dealer_position   : Positions,
   hand_count        : Nat,
   current_hand_root : Nat]

NewTable ==
  [status |-> "none", min_buy_in |-> 0, max_buy_in |-> 0, max_players |-> 0,
   seat |-> [p \in Positions |-> Nobody], stack |-> [p \in Positions |-> 0],
   sitting_out |-> {}, dealer_position |-> 0, hand_count |-> 0,
   current_hand_root |-> 0]

Taken(s)  == {p \in Positions : s.seat[p] # Nobody}
Active(s) == Taken(s) \ s.sitting_out

\* find_player_seat: the seats of a player, of which there should be one.
SeatsOf(s, player) == {p \in Positions : s.seat[p] = player}

Least(S) == CHOOSE p \in S : \A q \in S : p <= q

\* The next position of S going round the table from p, which is in S.
NextIn(S, p) == IF \E q \in S : q > p THEN Least({q \in S : q > p}) ELSE Least(S)

-----------------------------------------------------------------------------
(***************************************************************************)
(* TableState::apply_event, one operator per event.                        *)
(***************************************************************************)
apply_table_created(s, e) ==
  [s EXCEPT !.status = "waiting", !.min_buy_in = e.min_buy_in,
            !.max_buy_in = e.max_buy_in, !.max_players = e.max_players]

apply_player_joined(s, e) ==
  [s EXCEPT !.seat[e.position] = e.player, !.stack[e.position] = e.stack,
            !.sitting_out = @ \ {e.position}]

apply_player_left(s, e) ==
  [s EXCEPT !.seat[e.position] = Nobody, !.stack[e.position] = 0,
            !.sitting_out = @ \ {e.position}]

apply_player_sat_out(s, player) ==
  [s EXCEPT !.sitting_out = @ \cup SeatsOf(s, player)]

apply_player_sat_in(s, player) ==
  [s EXCEPT !.sitting_out = @ \ SeatsOf(s, player)]

apply_hand_started(s, e) ==
  [s EXCEPT !.status = "in_hand", !.hand_count = e.hand_number,
            !.current_hand_root = e.hand_root, !.dealer_position = e.dealer]

\* A change is applied to the seat whose player's root, IN HEX, is the
\* change's key.
Hex(player) == <<"hex", player>>

apply_hand_ended(s, e) ==
  LET Change(p) == IF s.seat[p] # Nobody /\ Hex(s.seat[p]) \in DOMAIN e.stack_changes
                   THEN e.stack_changes[Hex(s.seat[p])] ELSE 0
  IN  [s EXCEPT !.status = "waiting", !.current_hand_root = 0,
                !.stack = [p \in Positions |-> s.stack[p] + Change(p)]]

-----------------------------------------------------------------------------
(***************************************************************************)
(* Command handlers: the set of events returned.                           *)
(***************************************************************************)
\* Fault: no upper bound on the seats.
handle_create_any_size(s, max_players, min_buy_in, max_buy_in) ==
  {e \in {[type |-> "TableCreated", max_players |-> max_players,
           min_buy_in |-> min_buy_in, max_buy_in |-> max_buy_in]} :
     /\ s.status = "none"
     /\ max_players >= 2}

\* The buy-in limits are those of the event: the command's, or a multiple of
\* the big blind where the command has none.
handle_create(s, max_players, min_buy_in, max_buy_in) ==
  {e \in {[type |-> "TableCreated", max_players |-> max_players,
           min_buy_in |-> min_buy_in, max_buy_in |-> max_buy_in]} :
     /\ s.status = "none"
     /\ max_players \in 2 .. MaxSeats}

\* Fault: off by one.
is_full_late(s) == Cardinality(Taken(s)) > s.max_players

is_full(s) == Cardinality(Taken(s)) >= s.max_players

\* The preferred seat if it is a free one of the table (0 is no preference),
\* the first free one otherwise, or -1.
find_available_seat(s, preferred) ==
  LET free == (0 .. s.max_players - 1) \ Taken(s)
  IN  IF preferred > 0 /\ preferred \in free THEN preferred
      ELSE IF free # {} THEN Least(free) ELSE -1

handle_join(s, player, buy_in, preferred) ==
  LET accepted ==
        /\ s.status # "none"
        /\ SeatsOf(s, player) = {}
        /\ ~ is_full(s)
        /\ buy_in >= s.min_buy_in
        /\ buy_in <= s.max_buy_in
        /\ ~ (preferred > 0 /\ preferred \in Taken(s))
  IN  IF ~ accepted THEN {}
      ELSE {[type |-> "PlayerJoined", player |-> player, stack |-> buy_in,
             position |-> find_available_seat(s, preferred)]}

\* Fault: no check that no hand runs.
handle_leave_any_time(s, player) ==
  {[type |-> "PlayerLeft", position |-> p, chips_cashed_out |-> s.stack[p]] :
     p \in {q \in SeatsOf(s, player) : s.status # "none"}}

handle_leave(s, player) ==
  {[type |-> "PlayerLeft", position |-> p, chips_cashed_out |-> s.stack[p]] :
     p \in {q \in SeatsOf(s, player) : s.status \notin {"none", "in_hand"}}}

\* The button goes to the next SEAT, also when its player sits out; when the
\* old dealer left, it goes on from the first seat.
next_dealer_position(s) ==
  NextIn(Taken(s), IF s.dealer_position \in Taken(s)
                   THEN s.dealer_position ELSE Least(Taken(s)))

\* Fault: the blinds are counted over the seats, those sitting out included.
Blinds_over_seats(s, dealer) ==
  LET next == NextIn(Taken(s), dealer)
  IN  IF \A p \in Active(s) : p \in {dealer, next}
      THEN [small |-> dealer, big |-> next]
      ELSE [small |-> next, big |-> NextIn(Taken(s), next)]

\* The small and the big blind, counted from the dealer among the active
\* players, or from the first of them when the dealer is not active.
Blinds(s, dealer) ==
  LET from == IF dealer \in Active(s) THEN dealer ELSE Least(Active(s))
      next == NextIn(Active(s), from)
  IN  IF \A p \in Active(s) : p \in {from, next}
      THEN [small |-> from, big |-> next]
      ELSE [small |-> next, big |-> NextIn(Active(s), next)]

handle_start_hand(s) ==
  IF s.status # "waiting" \/ ~ \E p, q \in Active(s) : p # q THEN {}
  ELSE LET dealer == next_dealer_position(s)
       IN  {[type |-> "HandStarted", hand_number |-> s.hand_count + 1,
             hand_root |-> s.hand_count + 1, dealer |-> dealer,
             blinds |-> Blinds(s, dealer), active |-> Active(s)]}

\* The changes are keyed by the roots of the winners as they come.
Raw(player) == <<"raw", player>>

\* Fault: no check that the hand is the one that runs.
handle_end_hand_any(s, hand_root, results) ==
  {e \in {[type |-> "HandEnded", hand_root |-> hand_root,
           stack_changes |-> [k \in {Raw(w) : w \in DOMAIN results}
                                |-> results[k[2]]]]} :
     s.status = "in_hand"}

handle_end_hand(s, hand_root, results) ==
  {e \in {[type |-> "HandEnded", hand_root |-> hand_root,
           stack_changes |-> [k \in {Raw(w) : w \in DOMAIN results}
                                |-> results[k[2]]]]} :
     /\ s.status = "in_hand"
     /\ hand_root = s.current_hand_root}
=============================================================================
