---------------------------- MODULE HandProcess ----------------------------
(***************************************************************************)
(* The process manager that conducts hands (hand-flow/src): what it keeps  *)
(* of each hand and what its handlers do with an event.                    *)
(*                                                                         *)
(* processes_, a map from "<hand root>_<hand number>", is the function     *)
(* processes from hands, Unstarted standing for "no entry".  A player is   *)
(* its position in a hand, and has a root, by which the process manager    *)
(* looks for him; he may play in several hands, at different positions.    *)
(* A handler takes all processes, since those of the code look for one to  *)
(* apply the event to, and returns the set of its outcomes: the processes  *)
(* as it leaves them and the commands it returns.  There are several       *)
(* outcomes where it depends on the order in which an unordered_map is     *)
(* walked.                                                                 *)
(*                                                                         *)
(* Left out, because nothing reads them: total_invested, min_raise,        *)
(* last_aggressor, the timeout, and the command sender.  ShowdownStarted   *)
(* is left out because no aggregate returns it.                            *)
(*                                                                         *)
(* A definition under the word Fault is a variant with a plausible bug in  *)
(* it, for showing that a property would notice; no action uses it.        *)
(***************************************************************************)
EXTENDS HandState, FiniteSets

CONSTANTS
  Hands,          \* hands, of different tables or of one
  Players,        \* the roots of players
  Unstarted,      \* "no process"
  Deals,          \* HandStarted events, see DealType
  DealNamesHand   \* does CardsDealt carry the HAND's root as its table_root

\* HandStarted: who plays with what, the button, the blinds and their sizes,
\* which no table has below 1 (table/agg/handlers/create_handler.cpp:22-27).
\* Nobody sits at a table twice (table/agg/handlers/join_handler.cpp:22-24).
DealType ==
  {d \in [players : SUBSET Seats, root : [Seats -> Players],
          stack : [Seats -> Nat], draw : BOOLEAN,
          dealer : Seats, small : Seats, big : Seats,
          small_blind : Nat \ {0}, big_blind : Nat \ {0}] :
     /\ {d.small, d.big} \subseteq d.players
     /\ \A p, q \in d.players : d.root[p] = d.root[q] => p = q}

ProcessPhases ==
  {"DEALING", "POSTING_BLINDS", "BETTING", "DEALING_COMMUNITY", "SHOWDOWN",
   "COMPLETE"}

ProcessType ==
  [phase : ProcessPhases, betting_phase : Phases,
   deal : DealType,                      \* the HandStarted it was made from
   stack : [Seats -> Int], bet_this_round : [Seats -> Int],
   has_acted : SUBSET Seats, has_folded : SUBSET Seats,
   is_all_in : SUBSET Seats, action_on : Seats \cup {-1},
   current_bet : Int, pot_total : Int, posted : SUBSET {"small", "big"}]

\* The events of a hand that the process manager sees.
HandEvents ==
  [type : {"CardsDealt"}, draw : BOOLEAN, players : SUBSET Seats,
   stack : [Seats -> Int]]
  \cup [type : {"BlindPosted"}, player : Seats, blind_type : {"small", "big"},
        amount : Int, player_stack : Int, pot_total : Int]
  \cup [type : {"ActionTaken"}, player : Seats, action : Actions,
        amount : Int, player_stack : Int, pot_total : Int]
  \cup [type : {"CommunityCardsDealt"}, phase : Phases]
  \cup [type : {"PotAwarded"}, winnings : [Seats -> Int]]

\* The commands it gives to a hand.
Commands ==
  [type : {"PostBlind"}, hand : Hands, player : Seats,
   blind_type : {"small", "big"}, amount : Nat]
  \cup [type : {"DealCommunityCards"}, hand : Hands, count : Nat]
  \cup [type : {"AwardPot"}, hand : Hands, winners : SUBSET Seats,
        awards : [Seats -> Int]]

Outcome(ps, commands) == [processes |-> ps, commands |-> commands]

\* The event is dropped.
Ignored(ps) == {Outcome(ps, {})}

\* Those who can still act.
ToAct(pr) == pr.deal.players \ (pr.has_folded \cup pr.is_all_in)

\* Fault: who is all-in is not counted.
InHand_can_act(pr) == pr.deal.players \ (pr.has_folded \cup pr.is_all_in)

\* Those who can still win.
InHand(pr) == pr.deal.players \ pr.has_folded

-----------------------------------------------------------------------------
(***************************************************************************)
(* Commands to the hand that a process is for.                             *)
(***************************************************************************)
PostBlindCommand(h, player, blind_type, amount) ==
  [type |-> "PostBlind", hand |-> h, player |-> player,
   blind_type |-> blind_type, amount |-> amount]

\* Fault: the big blind is looked at only before the small one is posted.
post_next_blind_small_only(h, pr) ==
  IF pr.posted = {}
  THEN {PostBlindCommand(h, pr.deal.small, "small", pr.deal.small_blind)}
  ELSE {}

post_next_blind(h, pr) ==
  IF "small" \notin pr.posted
  THEN {PostBlindCommand(h, pr.deal.small, "small", pr.deal.small_blind)}
  ELSE IF "big" \notin pr.posted
  THEN {PostBlindCommand(h, pr.deal.big, "big", pr.deal.big_blind)}
  ELSE {}

\* Division as it is in C++, towards 0.
Quotient(a, n) == IF a >= 0 THEN a \div n ELSE -((-a) \div n)

\* Fault: who has folded is named too, to receive nothing.
build_award_pot_cmd_all(h, pr) ==
  {[type |-> "AwardPot", hand |-> h, winners |-> pr.deal.players,
    awards |-> [p \in Seats |-> IF p = q THEN pr.pot_total ELSE 0]] : q \in InHand(pr)}

\* The pot is split evenly among those who have not folded; who gets a chip
\* of the remainder depends on the order of the map.
build_award_pot_cmd(h, pr) ==
  LET n     == Larger(1, Cardinality(InHand(pr)))
      split == Quotient(pr.pot_total, n)
      left  == Larger(0, pr.pot_total - split * n)
      lucky == {S \in SUBSET InHand(pr) : Cardinality(S) = left}
      award(p, S) == IF p \in InHand(pr)
                     THEN split + (IF p \in S THEN 1 ELSE 0) ELSE 0
  IN  {[type |-> "AwardPot", hand |-> h, winners |-> InHand(pr),
        awards |-> [p \in Seats |-> award(p, S)]] : S \in lucky}

DealCommunityCommand(h, count) ==
  [type |-> "DealCommunityCards", hand |-> h, count |-> count]

-----------------------------------------------------------------------------
(***************************************************************************)
(* Walking through a betting round.                                        *)
(***************************************************************************)
LeastOf(S) == CHOOSE p \in S : \A q \in S : p <= q

\* Fault: who is all-in is asked to act.
find_next_active_all_in(pr, after) ==
  LET later == {p \in InHand(pr) : p > after}
  IN  IF later # {} THEN LeastOf(later)
      ELSE IF InHand(pr) # {} THEN LeastOf(InHand(pr)) ELSE -1

\* The next who can act after a position, going round; -1 if nobody can.
find_next_active(pr, after) ==
  LET later == {p \in ToAct(pr) : p > after}
  IN  IF later # {} THEN LeastOf(later)
      ELSE IF ToAct(pr) # {} THEN LeastOf(ToAct(pr)) ELSE -1

\* The blinds are forgotten: every bet starts at 0.
start_betting(pr) ==
  [pr EXCEPT !.phase = "BETTING", !.bet_this_round = NoChips,
             !.has_acted = {}, !.current_bet = 0,
             !.action_on = find_next_active(pr, IF pr.betting_phase = "PREFLOP"
                                                THEN pr.deal.big
                                                ELSE pr.deal.dealer)]

is_betting_complete(pr) ==
  \A p \in ToAct(pr) : /\ p \in pr.has_acted
                       /\ pr.bet_this_round[p] >= pr.current_bet

community_cards == [PREFLOP |-> 3, FLOP |-> 1, TURN |-> 1]

\* Fault: the award is commanded, but the process goes on.
end_betting_round_open(ps, h, pr) ==
  IF Cardinality(InHand(pr)) = 1
  THEN {Outcome([ps EXCEPT ![h] = pr], {c}) : c \in build_award_pot_cmd(h, pr)}
  ELSE {Outcome([ps EXCEPT ![h] = pr], {})}

\* The end of the betting round of hand h, whose process is to be pr: awards
\* when one player is left, else what betting_phase says.
end_betting_round(ps, h, pr) ==
  LET becomes(phase, commands) ==
        Outcome([ps EXCEPT ![h] = [pr EXCEPT !.phase = phase]], commands)
      awarded(phase) == {becomes(phase, {c}) : c \in build_award_pot_cmd(h, pr)}
      one_left  == Cardinality(InHand(pr)) = 1
      community == ~ one_left /\ ~ pr.deal.draw
  IN  CASE one_left -> awarded("COMPLETE")
        [] community /\ pr.betting_phase \in DOMAIN community_cards ->
             {becomes("DEALING_COMMUNITY",
                {DealCommunityCommand(h, community_cards[pr.betting_phase])})}
        [] community /\ pr.betting_phase = "RIVER" -> awarded("SHOWDOWN")
        [] OTHER -> {becomes(pr.phase, {})}

-----------------------------------------------------------------------------
(***************************************************************************)
(* The handlers.  h is the hand the event comes from; all but the first    *)
(* two do not know it and take the first process in the right phase, of    *)
(* which there may be several.  root is the player_root of the event.      *)
(***************************************************************************)
InPhase(ps, phase) == {h \in Hands : ps[h] # Unstarted /\ ps[h].phase = phase}

start_hand(ps, h, deal) ==
  {Outcome([ps EXCEPT ![h] =
      [phase |-> "DEALING", betting_phase |-> "UNSPECIFIED", deal |-> deal,
       stack |-> deal.stack, bet_this_round |-> NoChips, has_acted |-> {},
       has_folded |-> {}, is_all_in |-> {}, action_on |-> -1,
       current_bet |-> 0, pot_total |-> 0, posted |-> {}]], {})}

\* The process is looked up under the table_root of CardsDealt.
handle_cards_dealt(ps, h) ==
  IF ~ DealNamesHand \/ ps[h] = Unstarted THEN Ignored(ps)
  ELSE {Outcome([ps EXCEPT ![h].phase = "POSTING_BLINDS"],
                post_next_blind(h, ps[h]))}

\* Does process pr find a player of this root?  Nothing else is compared, not
\* the hand that the event is of.
Finds(pr, root) == \E p \in pr.deal.players : pr.deal.root[p] = root

\* Fault: the player is taken to sit where he does in the event's own hand.
Read_by_position(pr, root, e) == e

\* Event e as process pr reads it, which finds the player of this root: it is
\* about the position that he has in the hand of pr.
Read(pr, root, e) ==
  [e EXCEPT !.player = CHOOSE p \in pr.deal.players : pr.deal.root[p] = root]

\* What process pr makes of blind e, whose player it finds or not.
BlindSeen(pr, found, e) ==
  [pr EXCEPT !.stack = IF found THEN [@ EXCEPT ![e.player] = e.player_stack] ELSE @,
             !.bet_this_round = IF found THEN [@ EXCEPT ![e.player] = e.amount] ELSE @,
             !.pot_total = e.pot_total, !.current_bet = e.amount,
             !.posted = @ \cup {e.blind_type}]

handle_blind_posted(ps, root, e) ==
  LET seen(h) == IF Finds(ps[h], root) THEN BlindSeen(ps[h], TRUE, Read(ps[h], root, e))
                 ELSE BlindSeen(ps[h], FALSE, e)
      outcome(h) == IF e.blind_type = "small"
                    THEN Outcome([ps EXCEPT ![h] = seen(h)], post_next_blind(h, seen(h)))
                    ELSE Outcome([ps EXCEPT ![h] = start_betting(seen(h))], {})
  IN  IF InPhase(ps, "POSTING_BLINDS") = {} THEN Ignored(ps)
      ELSE {outcome(h) : h \in InPhase(ps, "POSTING_BLINDS")}

\* Fault: the stack is reckoned from the amount of the action.
ActionSeen_by_amount(pr, e) ==
  [pr EXCEPT !.stack[e.player] = @ - e.amount,
             !.bet_this_round[e.player] = @ + e.amount,
             !.has_folded = @ \cup (IF e.action = "FOLD" THEN {e.player} ELSE {}),
             !.is_all_in = @ \cup (IF e.action = "ALL_IN" THEN {e.player} ELSE {}),
             !.has_acted = @ \cup {e.player}]

\* What ActionTaken says of its player, when the process finds him.
ActionSeen(pr, e) ==
  LET bet    == pr.bet_this_round[e.player]
                  + IF e.action \in {"ALL_IN", "CALL", "BET", "RAISE"} THEN e.amount ELSE 0
      raised == e.action \in {"BET", "RAISE", "ALL_IN"} /\ bet > pr.current_bet
      folded == pr.has_folded \cup (IF e.action = "FOLD" THEN {e.player} ELSE {})
      all_in == pr.is_all_in \cup (IF e.action = "ALL_IN" THEN {e.player} ELSE {})
  IN  [pr EXCEPT !.stack[e.player] = e.player_stack,
                 !.bet_this_round[e.player] = bet,
                 !.has_folded = folded, !.is_all_in = all_in,
                 !.current_bet = IF raised THEN bet ELSE @,
                 !.has_acted = {e.player} \cup
                    (IF raised THEN @ \cap (folded \cup all_in) ELSE @)]

handle_action_taken(ps, root, e) ==
  LET seen(h) == [IF Finds(ps[h], root) THEN ActionSeen(ps[h], Read(ps[h], root, e))
                  ELSE ps[h] EXCEPT !.pot_total = e.pot_total]
      next(h) == [seen(h) EXCEPT !.action_on =
                                   find_next_active(seen(h), seen(h).action_on)]
      outcomes(h) == IF is_betting_complete(seen(h))
                     THEN end_betting_round(ps, h, seen(h))
                     ELSE {Outcome([ps EXCEPT ![h] = next(h)], {})}
  IN  IF InPhase(ps, "BETTING") = {} THEN Ignored(ps)
      ELSE UNION {outcomes(h) : h \in InPhase(ps, "BETTING")}

handle_community_cards_dealt(ps, e) ==
  IF InPhase(ps, "DEALING_COMMUNITY") = {} THEN Ignored(ps)
  ELSE {Outcome([ps EXCEPT ![h] = start_betting([ps[h] EXCEPT !.betting_phase = e.phase])],
                {}) : h \in InPhase(ps, "DEALING_COMMUNITY")}

\* Fault: the phase is set to one that is not its own.
handle_pot_awarded_paid(ps) ==
  {Outcome([h \in Hands |-> IF ps[h] = Unstarted THEN Unstarted
                            ELSE [ps[h] EXCEPT !.phase = "PAID"]], {})}

\* All processes are complete, whichever hand the pot was of.
handle_pot_awarded(ps) ==
  {Outcome([h \in Hands |-> IF ps[h] = Unstarted THEN Unstarted
                            ELSE [ps[h] EXCEPT !.phase = "COMPLETE"]], {})}

\* HandFlowService::Handle takes the first branch whose name occurs in the
\* type of the event.  "CardsDealt" occurs in "CommunityCardsDealt", which is
\* then not a CardsDealt after all, and is dropped.
Branch ==
  [CardsDealt |-> "CardsDealt", BlindPosted |-> "BlindPosted",
   ActionTaken |-> "ActionTaken", CommunityCardsDealt |-> "CardsDealt",
   PotAwarded |-> "PotAwarded"]

\* The event e is of hand h, whose positions the players of these roots have.
Handle(ps, h, roots, e) ==
  IF Branch[e.type] # e.type THEN Ignored(ps)
  ELSE CASE e.type = "CardsDealt"  -> handle_cards_dealt(ps, h)
         [] e.type = "BlindPosted" -> handle_blind_posted(ps, roots[e.player], e)
         [] e.type = "ActionTaken" -> handle_action_taken(ps, roots[e.player], e)
         [] e.type = "PotAwarded"  -> handle_pot_awarded(ps)
         [] e.type = "CommunityCardsDealt" -> handle_community_cards_dealt(ps, e)
=============================================================================
