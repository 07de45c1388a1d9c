----------------------------- MODULE HandState -----------------------------
(***************************************************************************)
(* The hand aggregate as the code has it: the state rebuilt from events    *)
(* (hand/agg/src/hand_state.cpp) and the command handlers                  *)
(* (hand/agg/handlers), each the set of events it returns: empty when it   *)
(* throws CommandRejectedError.                                            *)
(*                                                                         *)
(* A player is its position at the table.  Left out: cards (no bet depends *)
(* on them), has_acted, total_invested, action_on_position and the blind   *)
(* positions (no handler reads them), and the status "showdown" (no        *)
(* handler returns ShowdownStarted).  There is one pot, as in the code.    *)
(*                                                                         *)
(* A definition under the word Fault is a variant with a plausible bug in  *)
(* it, for showing that a property would notice; no action uses it.        *)
(***************************************************************************)
EXTENDS Sums

CONSTANT NumSeats           \* positions at the table

ASSUME NumSeatsAssumption == NumSeats \in Nat

Seats == 0 .. NumSeats - 1

Phases == {"UNSPECIFIED", "PREFLOP", "FLOP", "TURN", "RIVER"}

HandType ==
  [status         : {"undealt", "betting", "complete"},   \* undealt: empty
   draw           : BOOLEAN,           \* game_variant is FIVE_CARD_DRAW
   phase          : Phases,
   players        : SUBSET Seats,
   stack          : [Seats -> Int],
   bet_this_round : [Seats -> Int],
   folded         : SUBSET Seats,      \* has_folded
   all_in         : SUBSET Seats,      \* is_all_in
   current_bet    : Int,
   min_raise      : Int,
   big_blind      : Int,
   pot            : Int]               \* pots[0].amount, 0 before the deal

NoChips == [p \in Seats |-> 0]

NewHand ==
  [status |-> "undealt", draw |-> FALSE, phase |-> "UNSPECIFIED",
   players |-> {}, stack |-> NoChips, bet_this_round |-> NoChips,
   folded |-> {}, all_in |-> {}, current_bet |-> 0, min_raise |-> 0,
   big_blind |-> 0, pot |-> 0]

\* The chips of all players together.
Total(stack) == SumTo(stack, NumSeats)

Smaller(a, b) == IF a < b THEN a ELSE b
Larger(a, b)  == IF a < b THEN b ELSE a

-----------------------------------------------------------------------------
(***************************************************************************)
(* HandState::apply_event, one operator per event.                         *)
(***************************************************************************)
apply_cards_dealt(s, e) ==
  [s EXCEPT !.status = "betting", !.phase = "PREFLOP", !.draw = e.draw,
            !.players = e.players, !.stack = e.stack, !.pot = 0]

apply_blind_posted(s, e) ==
  LET big(new, old) == IF e.blind_type = "big" THEN new ELSE old
  IN  [s EXCEPT !.status = "betting",
                !.stack[e.player] = e.player_stack,
                !.bet_this_round[e.player] = e.amount,
                !.big_blind   = big(e.amount, @),
                !.current_bet = big(e.amount, @),
                !.min_raise   = big(e.amount, @),
                !.pot = e.pot_total]

\* A raise's amount is ADDED to bet_this_round, as a call's and a bet's.
apply_action_taken(s, e) ==
  LET bet     == s.bet_this_round[e.player] + e.amount
      raised  == /\ e.action \in {"BET", "RAISE", "ALL_IN"}
                 /\ bet > s.current_bet
  IN  [s EXCEPT
        !.stack[e.player] = e.player_stack,
        !.bet_this_round[e.player] = bet,
        !.folded = IF e.action = "FOLD"   THEN @ \cup {e.player} ELSE @,
        !.all_in = IF e.action = "ALL_IN" THEN @ \cup {e.player} ELSE @,
        !.current_bet = IF raised THEN bet ELSE @,
        !.min_raise = IF raised THEN Larger(@, bet - s.current_bet) ELSE @,
        !.pot = e.pot_total]

apply_community_dealt(s, e) ==
  [s EXCEPT !.status = "betting", !.phase = e.phase,
            !.bet_this_round = NoChips, !.current_bet = 0]

\* The pot itself keeps its amount.
apply_pot_awarded(s, e) ==
  [s EXCEPT !.stack = [p \in Seats |-> s.stack[p] + e.winnings[p]]]

\* Fault: the status, a string in the code, is misspelt.
apply_hand_complete_misspelt(s) == [s EXCEPT !.status = "completed"]

apply_hand_complete(s) == [s EXCEPT !.status = "complete"]

-----------------------------------------------------------------------------
(***************************************************************************)
(* Command handlers: the set of events returned.                           *)
(***************************************************************************)
\* stack is a function from the positions that play to the chips they bring.
handle_deal(s, draw, stack) ==
  {e \in {[type |-> "CardsDealt", draw |-> draw, players |-> DOMAIN stack,
           stack |-> [p \in Seats |-> IF p \in DOMAIN stack THEN stack[p] ELSE 0]]} :
     /\ s.status = "undealt"
     /\ \E p, q \in DOMAIN stack : p # q}

BlindEvent(s, p, blind_type, amount) ==
  [type |-> "BlindPosted", player |-> p, blind_type |-> blind_type,
   amount |-> amount, player_stack |-> s.stack[p] - amount,
   pot_total |-> s.pot + amount]

\* Fault: no check that the hand is not complete.
handle_post_blind_any_time(s, p, blind_type, amount) ==
  {e \in {BlindEvent(s, p, blind_type, Smaller(amount, s.stack[p]))} :
     /\ s.status # "undealt"
     /\ p \in s.players \ s.folded
     /\ amount > 0}

handle_post_blind(s, p, blind_type, amount) ==
  {e \in {BlindEvent(s, p, blind_type, Smaller(amount, s.stack[p]))} :
     /\ s.status \notin {"undealt", "complete"}
     /\ p \in s.players \ s.folded
     /\ amount > 0}

Actions == {"FOLD", "CHECK", "CALL", "BET", "RAISE", "ALL_IN"}

\* Fault: the pot is reckoned from what the event says.
ActionEvent_pot_by_amount(s, p, action, amount, chips_used) ==
  [type |-> "ActionTaken", player |-> p, action |-> action, amount |-> amount,
   player_stack |-> s.stack[p] - chips_used, pot_total |-> s.pot + amount]

\* What the event says is amount; what moves is chips_used.
ActionEvent(s, p, action, amount, chips_used) ==
  [type |-> "ActionTaken", player |-> p, action |-> action, amount |-> amount,
   player_stack |-> s.stack[p] - chips_used, pot_total |-> s.pot + chips_used]

\* An action that takes the whole stack becomes an all-in.
OrAllIn(s, p, action, chips) ==
  IF s.stack[p] - chips = 0 THEN "ALL_IN" ELSE action

call_amount(s, p) == s.current_bet - s.bet_this_round[p]

\* Fault: no check that the player is not all-in.
MayAct_all_in(s, p) ==
  /\ s.status = "betting"
  /\ p \in s.players \ s.folded

MayAct(s, p) ==
  /\ s.status = "betting"
  /\ p \in s.players \ (s.folded \cup s.all_in)

fold_action(s, p) ==
  {e \in {ActionEvent(s, p, "FOLD", 0, 0)} : MayAct(s, p)}

check_action(s, p) ==
  {e \in {ActionEvent(s, p, "CHECK", 0, 0)} :
     /\ MayAct(s, p)
     /\ call_amount(s, p) <= 0}

\* A call_amount below zero, of one who bet more than current_bet, is taken
\* back from the pot.
call_action(s, p) ==
  LET chips == Smaller(call_amount(s, p), s.stack[p])
  IN  {e \in {ActionEvent(s, p, OrAllIn(s, p, "CALL", chips), chips, chips)} :
         /\ MayAct(s, p)
         /\ call_amount(s, p) # 0}

bet_action(s, p, amount) ==
  {e \in {ActionEvent(s, p, OrAllIn(s, p, "BET", amount), amount, amount)} :
     /\ MayAct(s, p)
     /\ s.current_bet <= 0
     /\ s.big_blind <= amount
     /\ amount <= s.stack[p]}

\* Fault: no check that the player has the chips.
raise_action_unchecked(s, p, amount) ==
  LET chips_needed == amount - s.bet_this_round[p]
  IN  {e \in {ActionEvent(s, p, OrAllIn(s, p, "RAISE", chips_needed),
                          amount, chips_needed)} :
         /\ MayAct(s, p)
         /\ s.current_bet # 0
         /\ \/ s.min_raise <= amount - s.current_bet
            \/ s.stack[p] <= chips_needed}

\* The amount is what the player's bet is raised to.
raise_action(s, p, amount) ==
  LET chips_needed == amount - s.bet_this_round[p]
  IN  {e \in {ActionEvent(s, p, OrAllIn(s, p, "RAISE", chips_needed),
                          amount, chips_needed)} :
         /\ MayAct(s, p)
         /\ s.current_bet # 0
         /\ \/ s.min_raise <= amount - s.current_bet
            \/ s.stack[p] <= chips_needed
         /\ chips_needed <= s.stack[p]}

all_in_action(s, p) ==
  {e \in {ActionEvent(s, p, "ALL_IN", s.stack[p], s.stack[p])} : MayAct(s, p)}

\* get_next_phase and the number of cards it wants
next_phase == [PREFLOP |-> "FLOP", FLOP |-> "TURN", TURN |-> "RIVER"]
next_cards == [PREFLOP |-> 3, FLOP |-> 1, TURN |-> 1]

\* The deck never runs out here: a table seats at most ten.
handle_deal_community(s, count) ==
  IF s.phase \notin DOMAIN next_phase THEN {}
  ELSE {e \in {[type |-> "CommunityCardsDealt", phase |-> next_phase[s.phase]]} :
          /\ s.status \notin {"undealt", "complete"}
          /\ ~ s.draw
          /\ count = next_cards[s.phase]}

\* The awards of the command, summed by player: one award of amount to first,
\* then others (a function from players to amounts).
TotalOf(others) ==
  SumTo([p \in Seats |-> IF p \in DOMAIN others THEN others[p] ELSE 0], NumSeats)

Winnings(first, amount, others) ==
  [p \in Seats |-> (IF p = first THEN amount ELSE 0)
                     + (IF p \in DOMAIN others THEN others[p] ELSE 0)]

\* Fault: no adjustment.
AdjustedAward_as_named(s, amount, others) == amount

\* The first award is adjusted so that all together are the pot, if there is
\* a pot.
AdjustedAward(s, amount, others) ==
  IF s.pot > 0 THEN s.pot - TotalOf(others) ELSE amount

\* Fault: no check that the winners have not folded.
handle_award_pot_folded(s, first, amount, others) ==
  {e \in {[type |-> "PotAwarded",
           winnings |-> Winnings(first, AdjustedAward(s, amount, others), others)]} :
     /\ s.status \notin {"undealt", "complete"}
     /\ {first} \cup DOMAIN others \subseteq s.players}

handle_award_pot(s, first, amount, others) ==
  {e \in {[type |-> "PotAwarded",
           winnings |-> Winnings(first, AdjustedAward(s, amount, others), others)]} :
     /\ s.status \notin {"undealt", "complete"}
     /\ {first} \cup DOMAIN others \subseteq s.players \ s.folded}

\* Fault: the winnings are forgotten.
final_stacks_before(s, e) == s.stack

\* The final stacks in the HandComplete that goes with PotAwarded event e.
final_stacks(s, e) == [p \in Seats |-> s.stack[p] + e.winnings[p]]
=============================================================================
