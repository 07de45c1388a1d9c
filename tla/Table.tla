------------------------------- MODULE Table -------------------------------
(***************************************************************************)
(* One table aggregate.  As in module Hand a step is an accepted command.  *)
(* Besides commands the table receives facts, events that the saga         *)
(* player/saga-table emits when a player sits out or comes back: they are  *)
(* appended without asking a handler, at any time, also during a hand.     *)
(* EndHand comes from the saga hand/saga-table and may be late or repeated,*)
(* so it may name any hand.                                                *)
(***************************************************************************)
EXTENDS TableState

CONSTANTS
  BuyIns,        \* amounts that buy-ins and buy-in limits may be
  Winnings,      \* amounts that EndHand may say a player won
  MaxHands       \* bound: hands started

ASSUME BuyInsAssumption   == BuyIns \subseteq Nat
ASSUME WinningsAssumption == Winnings \subseteq Int
ASSUME MaxHandsAssumption == MaxHands \in Nat

VARIABLES
  table,         \* the state the event book replays to
  dealt_in,      \* history: who sat where when the last hand started
  ended          \* history: the roots of the hands that were ended

vars == <<table, dealt_in, ended>>

Init ==
  /\ table = NewTable
  /\ dealt_in = [p \in Positions |-> Nobody]
  /\ ended = {}

-----------------------------------------------------------------------------
CreateTable(max_players, min_buy_in, max_buy_in) ==
  \E e \in handle_create(table, max_players, min_buy_in, max_buy_in) :
    /\ table' = apply_table_created(table, e)
    /\ UNCHANGED <<dealt_in, ended>>

JoinTable(player, buy_in, preferred) ==
  \E e \in handle_join(table, player, buy_in, preferred) :
    /\ table' = apply_player_joined(table, e)
    /\ UNCHANGED <<dealt_in, ended>>

LeaveTable(player) ==
  \E e \in handle_leave(table, player) :
    /\ table' = apply_player_left(table, e)
    /\ UNCHANGED <<dealt_in, ended>>

StartHand ==
  \E e \in handle_start_hand(table) :
    /\ e.hand_number <= MaxHands
    /\ table' = apply_hand_started(table, e)
    /\ dealt_in' = [p \in Positions |->
                      IF p \in e.active THEN table.seat[p] ELSE Nobody]
    /\ UNCHANGED ended

EndHand(hand_root, results) ==
  \E e \in handle_end_hand(table, hand_root, results) :
    /\ table' = apply_hand_ended(table, e)
    /\ ended' = ended \cup {e.hand_root}
    /\ UNCHANGED dealt_in

\* The facts PlayerSatOut and PlayerSatIn.
SitOut(player) ==
  /\ table' = apply_player_sat_out(table, player)
  /\ UNCHANGED <<dealt_in, ended>>

SitIn(player) ==
  /\ table' = apply_player_sat_in(table, player)
  /\ UNCHANGED <<dealt_in, ended>>

Next ==
  \/ \E max_players \in 0 .. MaxSeats + 1, min_buy_in, max_buy_in \in BuyIns :
       CreateTable(max_players, min_buy_in, max_buy_in)
  \/ \E player \in Players, buy_in \in BuyIns, preferred \in 0 .. MaxSeats :
       JoinTable(player, buy_in, preferred)
  \/ \E player \in Players : LeaveTable(player)
  \/ StartHand
  \/ \E hand_root \in 1 .. MaxHands, winners \in SUBSET Players :
       \E results \in [winners -> Winnings] : EndHand(hand_root, results)
  \/ \E player \in Players : SitOut(player) \/ SitIn(player)

Spec == Init /\ [][Next]_vars

-----------------------------------------------------------------------------
\* Every variable has its type.
TypeOK ==
  /\ table \in TableType
  /\ dealt_in \in [Positions -> Players \cup {Nobody}]
  /\ ended \subseteq Nat

\* No one sits twice, every seat taken is one of the table's, and a join that
\* is accepted finds a free seat: is_full counts the seats, find_available_seat
\* looks for one, -1 when it finds none, and nothing checks for the -1
\* (join_handler.cpp:22-42, table_state.cpp:131-144).
SeatingSound ==
  /\ Taken(table) \subseteq 0 .. table.max_players - 1
  /\ \A player \in Players : \A p, q \in SeatsOf(table, player) : p = q
  /\ \A player \in Players, buy_in \in BuyIns, preferred \in 0 .. MaxSeats :
       \A e \in handle_join(table, player, buy_in, preferred) :
         e.position \in (0 .. table.max_players - 1) \ Taken(table)

\* While a hand runs, everybody dealt in keeps his seat, and no late joiner is
\* taken for a player of the hand (leave_handler.cpp:27, join_handler.cpp).
DealtInStay ==
  table.status = "in_hand" =>
    \A p \in Positions : dealt_in[p] # Nobody => table.seat[p] = dealt_in[p]

\* Every hand started is ended exactly once and in order, whatever EndHand
\* comes late or twice; a hand root never comes back (start_hand_handler.cpp
\* :50-51, end_hand_handler.cpp:20-25, table_state.cpp:78-87).
HandsEndOnce ==
  ended = 1 .. table.hand_count
            \ (IF table.status = "in_hand" THEN {table.current_hand_root} ELSE {})

\* A hand that starts has two different blinds, both of players dealt in,
\* however the button, the seats and who sits out have changed
\* (start_hand_handler.cpp:53-82).
BlindsAreDealtIn ==
  \A e \in handle_start_hand(table) :
    /\ e.blinds.small # e.blinds.big
    /\ {e.blinds.small, e.blinds.big} \subseteq e.active

-----------------------------------------------------------------------------
(***************************************************************************)
(* What comments in the code say and the code does not do.                 *)
(***************************************************************************)
\* "Apply stack changes" (table_state.cpp:88): when a hand ends the stack of
\* every seated winner grows by what he won.
StackChangesApplied ==
  [][\A hand_root \in 1 .. MaxHands, player \in Players, won \in Winnings :
       EndHand(hand_root, [w \in {player} |-> won]) =>
         \A p \in SeatsOf(table, player) :
           table'.stack[p] = table.stack[p] + won]_vars
=============================================================================
