----------------------------- MODULE PlayerState -----------------------------
(***************************************************************************)
(* The player aggregate as the code has it: the state rebuilt from events  *)
(* (player/agg/src/player_state.cpp) and the command handlers              *)
(* (player/agg/handlers).  A handler is a pure function of the rebuilt     *)
(* state and the command; here it is the set of events it returns: empty   *)
(* when it throws CommandRejectedError, a singleton otherwise.             *)
(*                                                                         *)
(* Names, e-mail addresses, timestamps and currency codes are left out.  A *)
(* table key (the hex of a table root) is a number below NumTables.  The   *)
(* map table_reservations is total here, 0 standing for "no entry": the    *)
(* code never stores an entry of 0, because handle_reserve rejects it.     *)
(*                                                                         *)
(* A definition under the word Fault is a variant with a plausible bug in  *)
(* it, for showing that a property would notice; no action uses it.        *)
(***************************************************************************)
EXTENDS Sums

CONSTANT NumTables          \* how many tables funds may be reserved for

ASSUME NumTablesAssumption == NumTables \in Nat

Tables == 0 .. NumTables - 1

PlayerType ==
  [exists             : BOOLEAN,      \* player_id is not empty
   bankroll           : Int,
   reserved_funds     : Int,
   table_reservations : [Tables -> Nat]]

\* The state before any event.
NewPlayer ==
  [exists             |-> FALSE,
   bankroll           |-> 0,
   reserved_funds     |-> 0,
   table_reservations |-> [t \in Tables |-> 0]]

available_balance(s) == s.bankroll - s.reserved_funds

-----------------------------------------------------------------------------
(***************************************************************************)
(* Events.  They carry results (new_balance, new_reserved_balance), not    *)
(* only the amount.                                                        *)
(***************************************************************************)
BalanceEvents     == {"FundsDeposited", "FundsWithdrawn", "FundsTransferred"}
ReservationEvents == {"FundsReserved", "FundsReleased"}

EventType ==
  [type : {"PlayerRegistered"}]
    \cup [type : BalanceEvents, amount : Int, new_balance : Int]
    \cup [type : ReservationEvents, table_root : Tables, amount : Nat,
          new_reserved_balance : Int]

\* Fault: a reservation adds its amount instead of setting the new total.
apply_event_delta(s, e) ==
  CASE e.type = "PlayerRegistered" ->
         [s EXCEPT !.exists = TRUE, !.bankroll = 0, !.reserved_funds = 0]
    [] e.type \in BalanceEvents ->
         [s EXCEPT !.bankroll = e.new_balance]
    [] e.type = "FundsReserved" ->
         [s EXCEPT !.reserved_funds = @ + e.amount,
                   !.table_reservations[e.table_root] = e.amount]
    [] e.type = "FundsReleased" ->
         [s EXCEPT !.reserved_funds = e.new_reserved_balance,
                   !.table_reservations[e.table_root] = 0]

\* PlayerState::apply_event
apply_event(s, e) ==
  CASE e.type = "PlayerRegistered" ->
         [s EXCEPT !.exists = TRUE, !.bankroll = 0, !.reserved_funds = 0]
    [] e.type \in BalanceEvents ->
         [s EXCEPT !.bankroll = e.new_balance]
    [] e.type = "FundsReserved" ->
         [s EXCEPT !.reserved_funds = e.new_reserved_balance,
                   !.table_reservations[e.table_root] = e.amount]
    [] e.type = "FundsReleased" ->
         [s EXCEPT !.reserved_funds = e.new_reserved_balance,
                   !.table_reservations[e.table_root] = 0]

-----------------------------------------------------------------------------
(***************************************************************************)
(* Command handlers: the set of events returned.                           *)
(***************************************************************************)
BalanceEvent(type, amount, new_balance) ==
  [type |-> type, amount |-> amount, new_balance |-> new_balance]

ReservationEvent(type, t, amount, new_reserved) ==
  [type |-> type, table_root |-> t, amount |-> amount,
   new_reserved_balance |-> new_reserved]

handle_register(s) ==
  {e \in {[type |-> "PlayerRegistered"]} : ~ s.exists}

handle_deposit(s, amount) ==
  {e \in {BalanceEvent("FundsDeposited", amount, s.bankroll + amount)} :
     /\ s.exists
     /\ amount > 0}

\* Fault: the amount is checked against the bankroll, reserved or not.
handle_withdraw_reserved(s, amount) ==
  {e \in {BalanceEvent("FundsWithdrawn", amount, s.bankroll - amount)} :
     /\ s.exists
     /\ amount > 0
     /\ amount <= s.bankroll}

handle_withdraw(s, amount) ==
  {e \in {BalanceEvent("FundsWithdrawn", amount, s.bankroll - amount)} :
     /\ s.exists
     /\ amount > 0
     /\ amount <= available_balance(s)}

\* Faults: no check that the amount is positive, none that the table has no
\* reservation yet, none of what other tables have reserved.
handle_reserve_any_amount(s, t, amount) ==
  {e \in {ReservationEvent("FundsReserved", t, amount,
                           s.reserved_funds + amount)} :
     /\ s.exists
     /\ s.table_reservations[t] = 0
     /\ amount <= available_balance(s)}

handle_reserve_twice(s, t, amount) ==
  {e \in {ReservationEvent("FundsReserved", t, amount,
                           s.reserved_funds + amount)} :
     /\ s.exists
     /\ amount > 0
     /\ amount <= available_balance(s)}

handle_reserve_from_bankroll(s, t, amount) ==
  {e \in {ReservationEvent("FundsReserved", t, amount,
                           s.reserved_funds + amount)} :
     /\ s.exists
     /\ amount > 0
     /\ s.table_reservations[t] = 0
     /\ amount <= s.bankroll}

handle_reserve(s, t, amount) ==
  {e \in {ReservationEvent("FundsReserved", t, amount,
                           s.reserved_funds + amount)} :
     /\ s.exists
     /\ amount > 0
     /\ s.table_reservations[t] = 0
     /\ amount <= available_balance(s)}

handle_release(s, t) ==
  {e \in {ReservationEvent("FundsReleased", t, s.table_reservations[t],
                           s.reserved_funds - s.table_reservations[t])} :
     /\ s.exists
     /\ s.table_reservations[t] # 0}

\* No check of the amount: it may be zero or negative.
handle_transfer(s, amount) ==
  {e \in {BalanceEvent("FundsTransferred", amount, s.bankroll + amount)} :
     s.exists}

\* The compensation for a rejected JoinTable: it checks neither that the
\* player exists nor that anything is reserved, and then releases 0.  Class
\* Player has it as its compensation; main.cpp does not route to it yet.
handle_join_rejected(s, t) ==
  {ReservationEvent("FundsReleased", t, s.table_reservations[t],
                    s.reserved_funds - s.table_reservations[t])}
=============================================================================
