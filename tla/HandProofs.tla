----------------------------- MODULE HandProofs -----------------------------
(***************************************************************************)
(* What holds of a hand for any number of seats, any stacks and amounts,   *)
(* and commands in any order.  The inductive invariant adds to the         *)
(* properties that an undealt hand is empty and that the big blind, the    *)
(* least bet, is not negative.                                             *)
(***************************************************************************)
EXTENDS Hand, HandLemmas

\* The stacks announced in HandComplete are those the event book replays to.
FinalStacksAgree ==
  hand.status = "complete" => final = hand.stack

IInv ==
  /\ Sound(hand, dealt)
  /\ dealt \in [Seats -> Int]
  /\ final \in [Seats -> Int]
  /\ version \in Nat
  /\ FinalStacksAgree

-----------------------------------------------------------------------------
(***************************************************************************)
(* The steps of the aggregate.                                             *)
(***************************************************************************)

\* What a step may do to a hand, as far as the properties are concerned.
Kept ==
  /\ Sound(hand, dealt)'
  /\ dealt' \in [Seats -> Int]
  /\ hand.status # "complete"
  /\ \A p \in hand.folded : p \in hand'.folded /\ hand'.stack[p] = hand.stack[p]

LEMMA NextKept ==
  ASSUME IInv, Next
  PROVE  /\ Kept
         /\ version' \in Nat
         /\ final' \in [Seats -> Int]
         /\ FinalStacksAgree'
<1> USE StacksAssumption, AmountsAssumption, DrawGamesAssumption
<1>0. /\ Sound(hand, dealt) /\ dealt \in [Seats -> Int]
      /\ final \in [Seats -> Int] /\ version \in Nat
      /\ hand.folded \subseteq Seats
  BY HandFields DEF IInv, Sound
<1> DEFINE Goal == /\ Kept
                   /\ version' \in Nat
                   /\ final' \in [Seats -> Int]
                   /\ FinalStacksAgree'
<1>1. ASSUME NEW draw \in DrawGames, NEW players \in SUBSET Seats,
             NEW stack \in [players -> Stacks], DealCards(draw, stack)
      PROVE  Goal
  <2>1. PICK e \in handle_deal(hand, draw, stack) :
          /\ Accept
          /\ hand' = apply_cards_dealt(hand, e)
          /\ dealt' = e.stack
          /\ UNCHANGED final
    BY <1>1 DEF DealCards
  <2>2. draw \in BOOLEAN /\ stack \in [players -> Nat]
    BY <1>1
  <2>3. /\ Sound(hand', dealt') /\ dealt' \in [Seats -> Int]
        /\ hand.status = "undealt" /\ hand.folded = {}
    BY <1>0, <2>1, <2>2, DealApplied
  <2>4. hand'.status # "complete"
    BY <2>1 DEF apply_cards_dealt, IInv, Sound, HandType
  <2> QED BY <1>0, <2>1, <2>3, <2>4 DEF Kept, Accept, FinalStacksAgree
<1>2. ASSUME NEW p \in Seats, NEW amount \in Amounts, NEW blind_type,
             PostBlind(p, blind_type, amount)
      PROVE  Goal
  <2>1. PICK e \in handle_post_blind(hand, p, blind_type, amount) :
          /\ Accept
          /\ hand' = apply_blind_posted(hand, e)
          /\ UNCHANGED <<dealt, final>>
    BY <1>2 DEF PostBlind
  <2>2. amount \in Int /\ hand.status # "complete"
    BY <1>2 DEF handle_post_blind
  <2>3. /\ Sound(hand', dealt) /\ hand'.folded = hand.folded
        /\ hand'.status = "betting" /\ p \notin hand.folded
        /\ \A q \in Seats : q # p => hand'.stack[q] = hand.stack[q]
    BY <1>0, <2>1, <2>2, BlindApplied
  <2> QED BY <1>0, <2>1, <2>2, <2>3 DEF Kept, Accept, FinalStacksAgree
<1>3. ASSUME NEW p \in Seats, NEW events,
             \A e \in events : ActionAnswer(hand, p, e), Act(events)
      PROVE  Goal
  <2>1. PICK e \in events :
          /\ Accept
          /\ hand' = apply_action_taken(hand, e)
          /\ UNCHANGED <<dealt, final>>
    BY <1>3 DEF Act
  <2>2. ActionAnswer(hand, p, e)
    BY <1>3, <2>1
  <2>3. /\ Sound(hand', dealt) /\ hand.folded \subseteq hand'.folded
        /\ hand'.status = "betting" /\ hand.status = "betting"
        /\ p \notin hand.folded
        /\ \A q \in Seats : q # p => hand'.stack[q] = hand.stack[q]
    BY <1>0, <2>1, <2>2, ActionApplied
  <2> QED BY <1>0, <2>1, <2>3 DEF Kept, Accept, FinalStacksAgree
<1>4. ASSUME NEW p \in Seats, Fold(p) \/ Check(p) \/ Call(p) \/ AllIn(p)
      PROVE  Goal
  <2>1. /\ \A e \in fold_action(hand, p) : ActionAnswer(hand, p, e)
        /\ \A e \in check_action(hand, p) : ActionAnswer(hand, p, e)
        /\ \A e \in call_action(hand, p) : ActionAnswer(hand, p, e)
        /\ \A e \in all_in_action(hand, p) : ActionAnswer(hand, p, e)
    BY DEF ActionAnswer
  <2> QED BY <1>3, <1>4, <2>1 DEF Fold, Check, Call, AllIn
<1>5. ASSUME NEW p \in Seats, NEW amount \in Amounts,
             Bet(p, amount) \/ Raise(p, amount)
      PROVE  Goal
  <2>1. /\ \A e \in bet_action(hand, p, amount) : ActionAnswer(hand, p, e)
        /\ \A e \in raise_action(hand, p, amount) : ActionAnswer(hand, p, e)
    BY DEF ActionAnswer
  <2> QED BY <1>3, <1>5, <2>1 DEF Bet, Raise
<1>6. ASSUME NEW count, DealCommunityCards(count)
      PROVE  Goal
  <2>1. PICK e \in handle_deal_community(hand, count) :
          /\ Accept
          /\ hand' = apply_community_dealt(hand, e)
          /\ UNCHANGED <<dealt, final>>
    BY <1>6 DEF DealCommunityCards
  <2>2. /\ Sound(hand', dealt) /\ hand'.folded = hand.folded
        /\ hand'.stack = hand.stack /\ hand'.status = "betting"
        /\ hand.status # "complete"
    BY <1>0, <2>1, CommunityApplied
  <2> QED BY <1>0, <2>1, <2>2 DEF Kept, Accept, FinalStacksAgree
<1>7. ASSUME NEW first \in Seats, NEW amount \in Awards, NEW named \in SUBSET Seats,
             NEW others \in [named -> Awards], AwardPot(first, amount, others)
      PROVE  Goal
  <2>1. PICK e \in handle_award_pot(hand, first, amount, others) :
          /\ Accept
          /\ hand' = apply_hand_complete(apply_pot_awarded(hand, e))
          /\ final' = final_stacks(hand, e)
          /\ UNCHANGED dealt
    BY <1>7 DEF AwardPot
  <2>2. amount \in Int /\ others \in [named -> Int]
    BY <1>7
  <2>3. /\ Sound(hand', dealt) /\ hand'.folded = hand.folded
        /\ hand'.stack = final' /\ final' \in [Seats -> Int]
        /\ hand.status # "complete"
        /\ \A p \in hand.folded : final'[p] = hand.stack[p]
    <3> DEFINE n == apply_hand_complete(apply_pot_awarded(hand, e))
    <3>1. /\ Sound(n, dealt) /\ n.folded = hand.folded
          /\ n.stack = final_stacks(hand, e)
          /\ final_stacks(hand, e) \in [Seats -> Int]
          /\ hand.status # "complete"
          /\ \A p \in hand.folded : final_stacks(hand, e)[p] = hand.stack[p]
      BY <1>0, <2>1, <2>2, AwardApplied
    <3> HIDE DEF n
    <3>2. hand' = n /\ final' = final_stacks(hand, e)
      BY <2>1 DEF n
    <3> QED BY <3>1, <3>2
  <2> QED BY <1>0, <2>1, <2>3 DEF Kept, Accept, FinalStacksAgree
<1> HIDE DEF Goal
<1>8. Goal
  BY <1>1, <1>2, <1>4, <1>5, <1>6, <1>7 DEF Next
<1> QED BY <1>8 DEF Goal

LEMMA InitIInv == Init => IInv
<1> SUFFICES ASSUME Init PROVE IInv
  OBVIOUS
<1>1. NoChips \in [Seats -> Int]
  BY DEF NoChips
<1> QED BY <1>1, NewHandSound DEF Init, IInv, FinalStacksAgree, NewHand

LEMMA NextIInv == IInv /\ [Next]_vars => IInv'
<1>1. ASSUME IInv, Next PROVE IInv'
  BY <1>1, NextKept DEF IInv, Kept
<1>2. ASSUME IInv, UNCHANGED vars PROVE IInv'
  BY <1>2 DEF IInv, vars, FinalStacksAgree
<1> QED BY <1>1, <1>2

THEOREM Invariance == Spec => []IInv
  BY InitIInv, NextIInv, PTL DEF Spec

\* The types of hand, version, dealt and final.
THEOREM HandTypeCorrect == Spec => []TypeOK
<1>1. IInv => TypeOK
  BY DEF IInv, Sound, TypeOK
<1> QED BY <1>1, Invariance, PTL

\* Chips are conserved by any order of any commands.
THEOREM ChipsConservedHolds == Spec => []ChipsConserved
<1>1. IInv => ChipsConserved
  BY DEF IInv, Sound, ChipsConserved
<1> QED BY <1>1, Invariance, PTL

\* Nobody bets chips he does not have.
THEOREM NoDebtHolds == Spec => []NoDebt
<1>1. IInv => NoDebt
  BY DEF IInv, Sound, NoDebt
<1> QED BY <1>1, Invariance, PTL

\* All-in means no chips left until the pot is paid.
THEOREM AllInIsBrokeHolds == Spec => []AllInIsBroke
<1>1. IInv => AllInIsBroke
  BY DEF IInv, Sound, AllInIsBroke
<1> QED BY <1>1, Invariance, PTL

\* A folded player neither pays nor receives any more.
THEOREM FoldIsFinalHolds == Spec => FoldIsFinal
<1>1. IInv /\ [Next]_vars =>
        [\A p \in hand.folded : /\ p \in hand'.folded
                                /\ hand'.stack[p] = hand.stack[p]]_vars
  BY NextKept DEF Kept
<1> QED BY <1>1, Invariance, PTL DEF Spec, FoldIsFinal

\* A hand is completed with the stacks announced, and never changes again.
THEOREM CompleteIsFinalHolds == Spec => CompleteIsFinal
<1>1. IInv /\ [Next]_vars => [StaysComplete]_vars
  BY NextKept DEF Kept, FinalStacksAgree, StaysComplete
<1> QED BY <1>1, Invariance, PTL DEF Spec, CompleteIsFinal
=============================================================================
