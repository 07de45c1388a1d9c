-------------------------------- MODULE Hand --------------------------------
(***************************************************************************)
(* One hand aggregate.  A step is a command that is accepted: the service  *)
(* (hand/agg/src/main.cpp) rebuilds the state, a handler answers, and the  *)
(* answer is appended to the event book.  The three are one step here,     *)
(* because an answer computed from an older book is never appended: module *)
(* Player has them apart.  Commands come in any order, from the process    *)
(* manager and from clients alike; the aggregate does not know whose turn  *)
(* it is.                                                                  *)
(***************************************************************************)
EXTENDS HandState

CONSTANTS
  Stacks,        \* chips a player may bring to the hand
  Amounts,       \* amounts that blinds, bets and raises may name
  Awards,        \* amounts that awards may name
  DrawGames,     \* may the game be five card draw: a subset of BOOLEAN
  MaxVersion     \* bound: accepted commands

ASSUME StacksAssumption     == Stacks \subseteq Nat
ASSUME AmountsAssumption    == Amounts \subseteq Int /\ Awards \subseteq Int
ASSUME DrawGamesAssumption  == DrawGames \subseteq BOOLEAN
ASSUME MaxVersionAssumption == MaxVersion \in Nat

VARIABLES
  hand,          \* the state the event book replays to
  version,       \* accepted commands so far
  dealt,         \* history: the stacks the hand was dealt with
  final          \* the final_stacks of HandComplete, all 0 before it

vars == <<hand, version, dealt, final>>

Init ==
  /\ hand = NewHand
  /\ version = 0
  /\ dealt = NoChips
  /\ final = NoChips

-----------------------------------------------------------------------------
Accept == version < MaxVersion /\ version' = version + 1

DealCards(draw, stack) ==
  \E e \in handle_deal(hand, draw, stack) :
    /\ Accept
    /\ hand' = apply_cards_dealt(hand, e)
    /\ dealt' = e.stack
    /\ UNCHANGED final

PostBlind(p, blind_type, amount) ==
  \E e \in handle_post_blind(hand, p, blind_type, amount) :
    /\ Accept
    /\ hand' = apply_blind_posted(hand, e)
    /\ UNCHANGED <<dealt, final>>

\* One of the betting handlers answers with one of events.
Act(events) ==
  \E e \in events :
    /\ Accept
    /\ hand' = apply_action_taken(hand, e)
    /\ UNCHANGED <<dealt, final>>

Fold(p)          == Act(fold_action(hand, p))
Check(p)         == Act(check_action(hand, p))
Call(p)          == Act(call_action(hand, p))
Bet(p, amount)   == Act(bet_action(hand, p, amount))
Raise(p, amount) == Act(raise_action(hand, p, amount))
AllIn(p)         == Act(all_in_action(hand, p))

DealCommunityCards(count) ==
  \E e \in handle_deal_community(hand, count) :
    /\ Accept
    /\ hand' = apply_community_dealt(hand, e)
    /\ UNCHANGED <<dealt, final>>

\* Two events at once, PotAwarded and HandComplete.
AwardPot(first, amount, others) ==
  \E e \in handle_award_pot(hand, first, amount, others) :
    /\ Accept
    /\ hand' = apply_hand_complete(apply_pot_awarded(hand, e))
    /\ final' = final_stacks(hand, e)
    /\ UNCHANGED dealt

Next ==
  \/ \E draw \in DrawGames, players \in SUBSET Seats :
       \E stack \in [players -> Stacks] : DealCards(draw, stack)
  \/ \E p \in Seats, amount \in Amounts, blind_type \in {"small", "big"} :
       PostBlind(p, blind_type, amount)
  \/ \E p \in Seats : Fold(p) \/ Check(p) \/ Call(p) \/ AllIn(p)
  \/ \E p \in Seats, amount \in Amounts : Bet(p, amount) \/ Raise(p, amount)
  \/ \E count \in 0 .. 3 : DealCommunityCards(count)
  \/ \E first \in Seats, amount \in Awards, named \in SUBSET Seats :
       \E others \in [named -> Awards] : AwardPot(first, amount, others)

Spec == Init /\ [][Next]_vars

-----------------------------------------------------------------------------
\* Every variable has its type.
TypeOK ==
  /\ hand \in HandType
  /\ version \in Nat
  /\ dealt \in [Seats -> Int]
  /\ final \in [Seats -> Int]

\* No chips appear or disappear: until the hand is complete the stacks and
\* the pot are what was dealt, and a pot that holds chips is paid out exactly,
\* whatever the awards named (action_handler.cpp:99-106, post_blind_handler
\* .cpp:38-40, award_pot_handler.cpp:43-57, each against hand_state.cpp).
ChipsConserved ==
  /\ hand.status # "complete" => Total(hand.stack) + hand.pot = Total(dealt)
  /\ hand.status = "complete" /\ hand.pot > 0 => Total(hand.stack) = Total(dealt)

\* Nobody bets chips he does not have, in any order of blinds, calls that
\* give chips back, raises and all-ins (action_handler.cpp:50-94).
NoDebt ==
  hand.status # "complete" => \A p \in Seats : hand.stack[p] >= 0

\* Who is all-in stays without chips until the pot is paid: a blind or a
\* refunding call must not give him chips he can no longer play.
AllInIsBroke ==
  hand.status # "complete" => \A p \in hand.all_in : hand.stack[p] = 0

\* A folded hand is out: it neither pays nor receives any more, and no order
\* of later commands brings it back (post_blind_handler.cpp:30,
\* action_handler.cpp:30, award_pot_handler.cpp:32, hand_state.cpp:138-192).
FoldIsFinal ==
  [][\A p \in hand.folded : /\ p \in hand'.folded
                            /\ hand'.stack[p] = hand.stack[p]]_vars

\* What a step may do to a hand that is complete, or completes it.
StaysComplete ==
  /\ hand'.status = "complete" => final' = hand'.stack
  /\ hand.status = "complete" => UNCHANGED hand

\* A hand is completed with the stacks that HandComplete announces, which are
\* computed beside the awards (award_pot_handler.cpp:80-94) and not from their
\* replay (hand_state.cpp:216-224), and never changes again, although the
\* events of blinds and community cards set the status back to "betting"
\* (hand_state.cpp:159, 206).
CompleteIsFinal == [][StaysComplete]_vars

-----------------------------------------------------------------------------
(***************************************************************************)
(* What comments in the code say and the code does not do.                 *)
(***************************************************************************)
\* "For RAISE, amount is the total bet (raise TO), not additional chips"
\* (action_handler.cpp:79): after a raise the player's bet of this round is
\* the amount.
RaiseIsTotal ==
  [][\A p \in Seats, amount \in Amounts :
       Raise(p, amount) => hand'.bet_this_round[p] = amount]_vars
=============================================================================
