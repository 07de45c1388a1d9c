------------------------------ MODULE HandFlow ------------------------------
(***************************************************************************)
(* Hands conducted by the process manager: for each hand its aggregate,    *)
(* its process, the events the process manager has not seen yet, and the   *)
(* commands that are on their way.                                         *)
(*                                                                         *)
(* HandStarted, an event of the table, goes to the process manager (Start) *)
(* and, through the saga table/saga-hand, to the hand aggregate (Deal), in *)
(* either order.  The events of a hand reach the process manager in their  *)
(* order and once.  Its commands reach the aggregate in any order and are  *)
(* accepted or refused: a refused one is not repeated.  Players may act at *)
(* any time, since the aggregate does not know whose turn it is; or, where *)
(* TakeTurns holds, only when the process manager waits for them.          *)
(*                                                                         *)
(* The processes live in memory that the threads of the service share      *)
(* without a lock; here a handler runs alone.  Where MayRestart holds the  *)
(* service may go down and come up again without any process, and the      *)
(* coordinator may deliver HandStarted again, to a service that restarted  *)
(* or did not get to acknowledge it.                                       *)
(***************************************************************************)
EXTENDS HandProcess, Sequences

CONSTANTS
  Amounts,       \* amounts that bets and raises may name
  TakeTurns,     \* do players wait for their turn
  MayRestart,    \* may the service restart, and HandStarted come again
  MaxActions     \* bound: actions players take in all hands together

ASSUME DealsAssumption   == Deals \subseteq DealType
ASSUME AmountsAssumption == Amounts \subseteq Int
ASSUME HandsAssumption   == Unstarted \notin ProcessType
ASSUME BooleanAssumption == /\ DealNamesHand \in BOOLEAN /\ TakeTurns \in BOOLEAN
                            /\ MayRestart \in BOOLEAN
ASSUME BoundAssumption   == MaxActions \in Nat

VARIABLES
  started,       \* per hand, its HandStarted event
  hand,          \* per hand, the state of its aggregate
  processes,     \* per hand, its process, or Unstarted
  pending,       \* per hand, the events the process manager has yet to see
  commands,      \* what the process manager commanded and was not tried yet
  awards,        \* history: per hand, how many awards were commanded
  actions        \* how many actions were taken

vars == <<started, hand, processes, pending, commands, awards, actions>>

Init ==
  /\ started \in [Hands -> Deals]
  /\ hand = [h \in Hands |-> NewHand]
  /\ processes = [h \in Hands |-> Unstarted]
  /\ pending = [h \in Hands |-> <<>>]
  /\ commands = {}
  /\ awards = [h \in Hands |-> 0]
  /\ actions = 0

-----------------------------------------------------------------------------
\* The process manager sees HandStarted, for the first time or again: a
\* process that there was is replaced.
Start(h) ==
  /\ processes[h] = Unstarted \/ MayRestart
  /\ \E o \in start_hand(processes, h, started[h]) : processes' = o.processes
  /\ UNCHANGED <<started, hand, pending, commands, awards, actions>>

\* The service goes down and comes up: nothing brings its processes back.
Restart ==
  /\ MayRestart
  /\ processes' = [h \in Hands |-> Unstarted]
  /\ UNCHANGED <<started, hand, pending, commands, awards, actions>>

\* The aggregate of h stores event e, which makes its state s.
Store(h, s, e) ==
  /\ hand' = [hand EXCEPT ![h] = s]
  /\ pending' = [pending EXCEPT ![h] = Append(@, e)]

\* The saga's DealCards: the players, stacks and game of HandStarted.
Deal(h) ==
  /\ \E e \in handle_deal(hand[h], started[h].draw,
                          [p \in started[h].players |-> started[h].stack[p]]) :
       Store(h, apply_cards_dealt(hand[h], e), e)
  /\ UNCHANGED <<started, processes, commands, awards, actions>>

\* May player p of h act now?
MayTakeTurn(h, p) ==
  \/ ~ TakeTurns
  \/ /\ processes[h] # Unstarted
     /\ processes[h].phase = "BETTING"
     /\ processes[h].action_on = p
     /\ pending[h] = <<>>

\* Player p of h acts, and the aggregate answers with one of events.
PlayerActs(h, p, events) ==
  /\ MayTakeTurn(h, p)
  /\ actions < MaxActions
  /\ \E e \in events : Store(h, apply_action_taken(hand[h], e), e)
  /\ actions' = actions + 1
  /\ UNCHANGED <<started, processes, commands, awards>>

Fold(h, p)          == PlayerActs(h, p, fold_action(hand[h], p))
Check(h, p)         == PlayerActs(h, p, check_action(hand[h], p))
Call(h, p)          == PlayerActs(h, p, call_action(hand[h], p))
Bet(h, p, amount)   == PlayerActs(h, p, bet_action(hand[h], p, amount))
Raise(h, p, amount) == PlayerActs(h, p, raise_action(hand[h], p, amount))
AllIn(h, p)         == PlayerActs(h, p, all_in_action(hand[h], p))

\* The process manager sees the next event of h.
See(h) ==
  /\ pending[h] # <<>>
  /\ \E o \in Handle(processes, h, started[h].root, Head(pending[h])) :
       /\ processes' = o.processes
       /\ commands' = commands \cup o.commands
       /\ awards' = [k \in Hands |-> awards[k]
             + Cardinality({c \in o.commands : c.type = "AwardPot" /\ c.hand = k})]
  /\ pending' = [pending EXCEPT ![h] = Tail(@)]
  /\ UNCHANGED <<started, hand, actions>>

\* What the aggregate s answers to a command of the process manager.
Answers(s, c) ==
  CASE c.type = "PostBlind" -> handle_post_blind(s, c.player, c.blind_type, c.amount)
    [] c.type = "DealCommunityCards" -> handle_deal_community(s, c.count)
    [] c.type = "AwardPot" ->
         UNION {handle_award_pot(s, first, c.awards[first],
                  [p \in c.winners \ {first} |-> c.awards[p]]) :
                first \in c.winners}

Applied(s, e) ==
  CASE e.type = "BlindPosted"         -> apply_blind_posted(s, e)
    [] e.type = "CommunityCardsDealt" -> apply_community_dealt(s, e)
    [] e.type = "PotAwarded" -> apply_hand_complete(apply_pot_awarded(s, e))

\* A command is accepted ...
Accept(c) ==
  /\ \E e \in Answers(hand[c.hand], c) :
       Store(c.hand, Applied(hand[c.hand], e), e)
  /\ commands' = commands \ {c}
  /\ UNCHANGED <<started, processes, awards, actions>>

\* ... or refused, and then gone.
Refuse(c) ==
  /\ Answers(hand[c.hand], c) = {}
  /\ commands' = commands \ {c}
  /\ UNCHANGED <<started, hand, processes, pending, awards, actions>>

PlayerMoves(h) ==
  \E p \in Seats :
    \/ Fold(h, p) \/ Check(h, p) \/ Call(h, p) \/ AllIn(h, p)
    \/ \E amount \in Amounts : Bet(h, p, amount) \/ Raise(h, p, amount)

Next ==
  \/ \E h \in Hands : Start(h) \/ Deal(h) \/ See(h) \/ PlayerMoves(h)
  \/ Restart
  \/ \E c \in commands : Accept(c) \/ Refuse(c)

Spec == Init /\ [][Next]_vars

(***************************************************************************)
(* The coordinator delivers events and commands, each in the end; players  *)
(* owe nobody an action.                                                   *)
(***************************************************************************)
FairSpec ==
  /\ Spec
  /\ \A h \in Hands :
       /\ WF_vars(Start(h)) /\ WF_vars(Deal(h)) /\ WF_vars(See(h))
       /\ WF_vars(\E c \in commands : c.hand = h /\ (Accept(c) \/ Refuse(c)))

-----------------------------------------------------------------------------
\* Every variable has its type.
TypeOK ==
  /\ started \in [Hands -> Deals]
  /\ hand \in [Hands -> HandType]
  /\ processes \in [Hands -> ProcessType \cup {Unstarted}]
  /\ pending \in [Hands -> Seq(HandEvents)]
  /\ commands \subseteq Commands
  /\ awards \in [Hands -> Nat]
  /\ actions \in Nat

Started(h) == processes[h] # Unstarted
Betting(h) == Started(h) /\ processes[h].phase = "BETTING"

\* Those who play in h of the players at positions S of k.
PlayingToo(h, k, S) ==
  {p \in started[h].players : \E q \in S : started[h].root[p] = started[k].root[q]}

\* Those of h who have folded, or are all-in, in another hand they play.
FoldedElsewhere(h) == UNION {PlayingToo(h, k, hand[k].folded) : k \in Hands \ {h}}
AllInElsewhere(h)  == UNION {PlayingToo(h, k, hand[k].all_in) : k \in Hands \ {h}}

\* The process manager counts out nobody who is in wherever he plays.  Events
\* are applied to whatever process is in the right phase, and there to the
\* player of the same root, if it has him (hand_process.cpp:77, 84, 112, 119).
\* So whom a process has as folded has folded, in its hand or in another one
\* that he plays, and whom it has as all-in is all-in in one of them: no event
\* counts out a third, and who plays one hand is out only of what he left.
OutIsOut ==
  \A h \in Hands : Started(h) =>
    /\ processes[h].has_folded \subseteq hand[h].folded \cup FoldedElsewhere(h)
    /\ processes[h].is_all_in \subseteq hand[h].all_in \cup AllInElsewhere(h)

\* No pot is commanded away from a player who is still in the hand, whatever
\* players do out of turn while events and commands are on their way, and
\* whatever a restart has lost (hand_process.cpp:301-334, 354-388,
\* hand_process.hpp:126); only a fold of his own in another hand may take him
\* out of it (hand_process.cpp:119-124).
NobodyLeftOut ==
  \A c \in commands : c.type = "AwardPot" =>
    hand[c.hand].players \ hand[c.hand].folded
      \subseteq c.winners \cup FoldedElsewhere(c.hand)

\* The pot of a hand is commanded to be paid at most once, although the last
\* player may go on acting before it is paid (hand_process.cpp:310-313), and a
\* process that a restart has lost may be begun anew (hand_process.hpp:126).
AwardedOnce == \A h \in Hands : awards[h] <= 1

\* The chips that the players of HandStarted bring.
Brought(h) ==
  [p \in Seats |-> IF p \in started[h].players THEN started[h].stack[p] ELSE 0]

\* A pot that the process manager has paid is paid exactly: the stacks are
\* together what HandStarted said.  The awards come from the process, which
\* computes them from the pot it has seen, and the aggregate adjusts them only
\* to a pot that is not empty (award_pot_handler.cpp:43-57, hand_process.cpp:
\* 363-376); so it takes that both have the same pot, and that no refund to a
\* player who bet too much (action_handler.cpp:54-66) makes the pot negative.
PaidExactly ==
  \A h \in Hands :
    hand[h].status = "complete" => Total(hand[h].stack) = Total(Brought(h))

\* Once the process manager has seen all events of a hand in its betting, it
\* and the aggregate have the same stacks and pot, the same players folded
\* and all-in (hand_process.cpp:74-165 against hand_state.cpp:138-192).
SidesAgree ==
  \A h \in Hands : Betting(h) /\ pending[h] = <<>> =>
    /\ \A p \in started[h].players : processes[h].stack[p] = hand[h].stack[p]
    /\ processes[h].pot_total = hand[h].pot
    /\ processes[h].has_folded = hand[h].folded
    /\ processes[h].is_all_in = hand[h].all_in

\* While the round is not complete it is the turn of one whose action the
\* aggregate accepts, so that the hand does not wait for someone who folded
\* or has no more to say (hand_process.cpp:253-283, action_handler.cpp:30-35).
TurnCanAct ==
  \A h \in Hands :
    Betting(h) /\ pending[h] = <<>> /\ ~ is_betting_complete(processes[h])
      => MayAct(hand[h], processes[h].action_on)

\* No command is given in vain: the aggregate would accept each one that is on
\* its way.  The process manager does not repeat one that is refused, so that
\* the hand would stand still, its blind not posted or its pot not paid
\* (hand_process.cpp:213-233, 354-388, post_blind_handler.cpp:14-34,
\* award_pot_handler.cpp:15-36).
CommandsAccepted == \A c \in commands : Answers(hand[c.hand], c) # {}

\* A hand that is dealt after its process started comes to its betting, both
\* blinds posted by the process manager (hand_process.cpp:55-107, 198-211).
BettingStarts ==
  \A h \in Hands :
    (Started(h) /\ hand[h].status = "undealt") ~>
      (Betting(h) /\ processes[h].posted = {"small", "big"})

-----------------------------------------------------------------------------
(***************************************************************************)
(* Whatever players, restarts and late or misdirected events do, aggregate *)
(* and process manager together treat the chips of a hand as HandPot says. *)
(***************************************************************************)
Dealt(h) == hand[h].status # "undealt"

\* What a hand is for HandPot.
ChipsOf(h)   == IF Dealt(h) THEN hand[h].stack ELSE Brought(h)
PotOf(h)     == IF hand[h].status = "complete" THEN 0 ELSE hand[h].pot
PlayingOf(h) == started[h].players \ hand[h].folded
StageOf(h)   == IF hand[h].status = "complete" THEN "paid"
                ELSE IF awards[h] > 0 THEN "awarded" ELSE "open"

AllChips   == [h \in Hands |-> ChipsOf(h)]
AllPots    == [h \in Hands |-> PotOf(h)]
AllPlaying == [h \in Hands |-> PlayingOf(h)]
AllStages  == [h \in Hands |-> StageOf(h)]

Pot == INSTANCE HandPot WITH
  chips <- AllChips, pot <- AllPots, playing <- AllPlaying, stage <- AllStages

\* Every step moves chips of one player who is in, or lets one give up, or
\* awards the pot for the first time, or pays it after that to those who are
\* in; all else leaves stacks, pot and players alone (hand_process.cpp:55-196,
\* hand_state.cpp:70-240).
ImplementsPot == Pot!Spec

-----------------------------------------------------------------------------
(***************************************************************************)
(* What comments and tests say and the code does not do.                   *)
(***************************************************************************)
SeesFirst(h, type) == pending[h] # <<>> /\ Head(pending[h]).type = type /\ See(h)

\* "No command issued yet - wait for CardsDealt" (hand_process.cpp:51): when
\* the process manager sees it, it commands the first blind.
CardsDealtStartsBlinds ==
  [][\A h \in Hands :
       SeesFirst(h, "CardsDealt") /\ Started(h)
         => \E c \in commands' : c.hand = h]_vars

\* "Advance to next phase" (hand_process.cpp:316): a hold'em or Omaha hand
\* whose betting round is complete leaves the betting.
CompleteRoundAdvances ==
  [][\A h \in Hands :
       (/\ SeesFirst(h, "ActionTaken") /\ Betting(h)
        /\ ~ started[h].draw
        /\ is_betting_complete(processes'[h]))
         => processes'[h].phase # "BETTING"]_vars
=============================================================================
