----------------------------- MODULE HandLemmas -----------------------------
(***************************************************************************)
(* What a command and its events do to the state of a hand, for any number *)
(* of seats, any stacks and amounts: the lemmas that the proofs about      *)
(* modules Hand and HandFlow share.                                        *)
(***************************************************************************)
EXTENDS HandState, SumLemmas

\* What the invariant says of the hand s that was dealt the stacks d.
Sound(s, d) ==
  /\ s \in HandType
  /\ s.status = "undealt" => s = NewHand
  /\ s.big_blind >= 0
  /\ s.status # "complete" =>
       /\ Total(s.stack) + s.pot = Total(d)
       /\ \A p \in Seats : s.stack[p] >= 0
       /\ \A p \in s.all_in : s.stack[p] = 0
  /\ s.status = "complete" /\ s.pot > 0 => Total(s.stack) = Total(d)

\* From s to n nobody gets in or out, and the hand stays dealt.
SamePlayers(s, n) ==
  /\ n.status # "undealt"
  /\ n.players = s.players /\ n.folded = s.folded /\ n.all_in = s.all_in

\* The types of the fields of a hand.
LEMMA HandFields ==
  ASSUME NEW s \in HandType
  PROVE  /\ s.stack \in [Seats -> Int] /\ s.bet_this_round \in [Seats -> Int]
         /\ s.current_bet \in Int /\ s.min_raise \in Int /\ s.big_blind \in Int
         /\ s.pot \in Int /\ s.draw \in BOOLEAN
         /\ s.players \subseteq Seats /\ s.folded \subseteq Seats
         /\ s.all_in \subseteq Seats
         /\ s.phase \in Phases /\ s.status \in {"undealt", "betting", "complete"}
  BY DEF HandType

-----------------------------------------------------------------------------
(***************************************************************************)
(* Sums of stacks.                                                         *)
(***************************************************************************)

\* Paying chips into the pot keeps what stacks and pot hold together.
LEMMA TotalPay ==
  ASSUME NEW stack \in [Seats -> Int], NEW p \in Seats, NEW chips \in Int
  PROVE  /\ Total(stack) \in Int
         /\ Total([stack EXCEPT ![p] = stack[p] - chips]) = Total(stack) - chips
<1> USE NumSeatsAssumption DEF Seats, Total
<1>1. Total(stack) \in Int
  BY SumToType
<1>2. /\ stack[p] \in Int /\ stack[p] - chips \in Int
  OBVIOUS
<1>3. Total([stack EXCEPT ![p] = stack[p] - chips])
        = Total(stack) + (stack[p] - chips) - stack[p]
  <2> HIDE DEF Total
  <2>1. SumTo([stack EXCEPT ![p] = stack[p] - chips], NumSeats)
          = SumTo(stack, NumSeats) + (stack[p] - chips) - stack[p]
    BY <1>2, SumToUpdate
  <2> QED BY <2>1 DEF Total
<1> HIDE DEF Total
<1> QED BY <1>1, <1>2, <1>3

LEMMA TotalZero == Total(NoChips) = 0
<1>1. NoChips \in [0 .. NumSeats - 1 -> Int]
      /\ \A p \in 0 .. NumSeats - 1 : NoChips[p] = 0
  BY DEF NoChips, Seats
<1> QED BY <1>1, NumSeatsAssumption, SumToZero DEF Total

\* The adjusted awards together are the pot.
LEMMA TotalWinnings ==
  ASSUME NEW first \in Seats, NEW amount \in Int,
         NEW named \in SUBSET Seats, NEW others \in [named -> Int]
  PROVE  /\ Winnings(first, amount, others) \in [Seats -> Int]
         /\ TotalOf(others) \in Int
         /\ Total(Winnings(first, amount, others)) = amount + TotalOf(others)
<1> USE NumSeatsAssumption
<1> DEFINE one == [p \in Seats |-> IF p = first THEN amount ELSE 0]
           rest == [p \in Seats |-> IF p \in DOMAIN others THEN others[p] ELSE 0]
           all == Winnings(first, amount, others)
<1>1. one \in [Seats -> Int] /\ rest \in [Seats -> Int] /\ all \in [Seats -> Int]
  BY DEF Winnings
<1>2. \A p \in Seats : all[p] = one[p] + rest[p]
  BY DEF Winnings
<1>3. one[first] = amount /\ \A p \in Seats : p # first => one[p] = 0
  OBVIOUS
<1> HIDE DEF one, all
<1>4. SumTo(one, NumSeats) = amount
  <2> HIDE DEF rest
  <2>1. /\ first \in 0 .. NumSeats - 1 /\ one \in [0 .. NumSeats - 1 -> Int]
        /\ \A p \in 0 .. NumSeats - 1 : p # first => one[p] = 0
    BY <1>1, <1>3 DEF Seats
  <2> QED BY <1>3, <2>1, SumToSingle
<1>5. rest \in [0 .. NumSeats - 1 -> Int] /\ TotalOf(others) = SumTo(rest, NumSeats)
  BY <1>1 DEF TotalOf, Seats
<1> HIDE DEF rest
<1>6. SumTo(all, NumSeats) = SumTo(one, NumSeats) + SumTo(rest, NumSeats)
  BY <1>1, <1>2, SumToAdd DEF Seats
<1>7. SumTo(rest, NumSeats) \in Int
  BY <1>5, SumToType
<1> QED BY <1>1, <1>4, <1>5, <1>6, <1>7 DEF all, Total

\* A hand that was not dealt is sound: it has nothing.
LEMMA NewHandSound == NewHand \in HandType /\ Sound(NewHand, NoChips)
<1>1. NoChips \in [Seats -> Int] /\ \A p \in Seats : NoChips[p] = 0
  BY DEF NoChips
<1>2. NewHand \in HandType
  BY <1>1 DEF NewHand, HandType, Phases
<1> QED BY <1>1, <1>2, TotalZero DEF Sound, NewHand

-----------------------------------------------------------------------------
(***************************************************************************)
(* Events and what applying them does.                                     *)
(***************************************************************************)

\* A player pays chips he has into the pot; who is all-in then has none.
LEMMA PaySound ==
  ASSUME NEW s, NEW d, Sound(s, d), s.status \notin {"undealt", "complete"},
         NEW p \in Seats, NEW chips \in Int, chips <= s.stack[p],
         NEW n \in HandType, n.status = "betting",
         n.stack = [s.stack EXCEPT ![p] = s.stack[p] - chips],
         n.pot = s.pot + chips,
         n.all_in \subseteq s.all_in \cup {p},
         p \in n.all_in => chips = s.stack[p],
         n.big_blind >= 0
  PROVE  Sound(n, d)
<1> DEFINE old == s.stack
           new == n.stack
<1>1. /\ s \in HandType /\ old \in [Seats -> Int] /\ s.pot \in Int
      /\ new = [old EXCEPT ![p] = old[p] - chips]
      /\ chips <= old[p] /\ (p \in n.all_in => chips = old[p])
  BY HandFields DEF Sound
<1>2. /\ Total(old) + s.pot = Total(d)
      /\ \A q \in Seats : old[q] >= 0
      /\ \A q \in s.all_in : old[q] = 0
      /\ n.all_in \subseteq Seats
  BY HandFields DEF Sound
<1> HIDE DEF old, new
<1>3. /\ Total(old) \in Int
      /\ Total([old EXCEPT ![p] = old[p] - chips]) = Total(old) - chips
  BY <1>1, TotalPay, Zenon
<1>4. Total(new) + n.pot = Total(d)
  BY <1>1, <1>2, <1>3
<1>5. \A q \in Seats : new[q] >= 0
  BY <1>1, <1>2
<1>6. \A q \in n.all_in : new[q] = 0
  BY <1>1, <1>2
<1> QED BY <1>4, <1>5, <1>6 DEF Sound, new

\* What a blind event of the handler says.
LEMMA BlindCases ==
  ASSUME NEW s, NEW d, Sound(s, d), NEW p \in Seats, NEW blind_type,
         NEW amount \in Int, NEW e \in handle_post_blind(s, p, blind_type, amount)
  PROVE  /\ s.status \notin {"undealt", "complete"}
         /\ p \notin s.folded
         /\ \E chips \in Nat :
              /\ chips <= s.stack[p]
              /\ p \in s.all_in => chips = s.stack[p]
              /\ e = BlindEvent(s, p, blind_type, chips)
<1>1. s \in HandType /\ s.stack \in [Seats -> Int]
  BY HandFields DEF Sound
<1>2. s.status \notin {"undealt", "complete"} /\ amount > 0 /\ p \notin s.folded
  BY DEF handle_post_blind
<1>3. s.stack[p] >= 0 /\ (p \in s.all_in => s.stack[p] = 0)
  BY <1>2 DEF Sound
<1> DEFINE chips == Smaller(amount, s.stack[p])
<1>4. /\ chips \in Nat /\ chips <= s.stack[p]
      /\ p \in s.all_in => chips = s.stack[p]
  BY <1>1, <1>2, <1>3 DEF Smaller
<1>5. e = BlindEvent(s, p, blind_type, chips)
  BY DEF handle_post_blind
<1> HIDE DEF chips
<1> QED BY <1>2, <1>4, <1>5

\* What the state becomes with a blind event, field by field.
LEMMA BlindEffect ==
  ASSUME NEW s \in HandType, NEW p \in Seats, NEW blind_type, NEW chips,
         NEW n, n = apply_blind_posted(s, BlindEvent(s, p, blind_type, chips))
  PROVE  n = [status |-> "betting", draw |-> s.draw, phase |-> s.phase,
              players |-> s.players,
              stack |-> [s.stack EXCEPT ![p] = s.stack[p] - chips],
              bet_this_round |-> [s.bet_this_round EXCEPT ![p] = chips],
              folded |-> s.folded, all_in |-> s.all_in,
              current_bet |-> IF blind_type = "big" THEN chips ELSE s.current_bet,
              min_raise |-> IF blind_type = "big" THEN chips ELSE s.min_raise,
              big_blind |-> IF blind_type = "big" THEN chips ELSE s.big_blind,
              pot |-> s.pot + chips]
<1> DEFINE e == BlindEvent(s, p, blind_type, chips)
           big(old) == IF blind_type = "big" THEN chips ELSE old
<1>1. /\ e.player = p /\ e.blind_type = blind_type /\ e.amount = chips
      /\ e.player_stack = s.stack[p] - chips /\ e.pot_total = s.pot + chips
  BY DEF BlindEvent
<1>2. n = apply_blind_posted(s, e)
  OBVIOUS
<1> HIDE DEF e
<1>3. n = [s EXCEPT !.status = "betting",
                    !.stack[p] = s.stack[p] - chips, !.bet_this_round[p] = chips,
                    !.big_blind = big(s.big_blind), !.current_bet = big(s.current_bet),
                    !.min_raise = big(s.min_raise), !.pot = s.pot + chips]
  BY <1>1, <1>2 DEF apply_blind_posted
<1> QED BY <1>3 DEF HandType

LEMMA BlindApplied ==
  ASSUME NEW s, NEW d, Sound(s, d), NEW p \in Seats, NEW blind_type,
         NEW amount \in Int, NEW e \in handle_post_blind(s, p, blind_type, amount)
  PROVE  /\ Sound(apply_blind_posted(s, e), d)
         /\ apply_blind_posted(s, e).folded = s.folded
         /\ SamePlayers(s, apply_blind_posted(s, e))
         /\ apply_blind_posted(s, e).status = "betting"
         /\ p \notin s.folded
         /\ \A q \in Seats : q # p => apply_blind_posted(s, e).stack[q] = s.stack[q]
<1>1. PICK chips \in Nat :
        /\ chips <= s.stack[p]
        /\ p \in s.all_in => chips = s.stack[p]
        /\ e = BlindEvent(s, p, blind_type, chips)
  BY BlindCases
<1>2. s.status \notin {"undealt", "complete"} /\ p \notin s.folded
  BY BlindCases
<1>3. s \in HandType /\ s.big_blind >= 0
  BY DEF Sound
<1> DEFINE n == apply_blind_posted(s, e)
<1>4. /\ n = [status |-> "betting", draw |-> s.draw, phase |-> s.phase,
               players |-> s.players, stack |-> n.stack,
               bet_this_round |-> n.bet_this_round, folded |-> s.folded,
               all_in |-> s.all_in, current_bet |-> n.current_bet,
               min_raise |-> n.min_raise, big_blind |-> n.big_blind, pot |-> n.pot]
      /\ n.stack = [s.stack EXCEPT ![p] = s.stack[p] - chips]
      /\ n.bet_this_round = [s.bet_this_round EXCEPT ![p] = chips]
      /\ n.pot = s.pot + chips
      /\ n.big_blind \in {s.big_blind, chips}
      /\ n.current_bet \in {s.current_bet, chips}
      /\ n.min_raise \in {s.min_raise, chips}
  <2>1. n = apply_blind_posted(s, BlindEvent(s, p, blind_type, chips))
    BY <1>1
  <2> HIDE DEF n
  <2>2. n = [status |-> "betting", draw |-> s.draw, phase |-> s.phase,
             players |-> s.players,
             stack |-> [s.stack EXCEPT ![p] = s.stack[p] - chips],
             bet_this_round |-> [s.bet_this_round EXCEPT ![p] = chips],
             folded |-> s.folded, all_in |-> s.all_in,
             current_bet |-> IF blind_type = "big" THEN chips ELSE s.current_bet,
             min_raise |-> IF blind_type = "big" THEN chips ELSE s.min_raise,
             big_blind |-> IF blind_type = "big" THEN chips ELSE s.big_blind,
             pot |-> s.pot + chips]
    BY <1>3, <2>1, BlindEffect
  <2> QED BY <2>2
<1> HIDE DEF n
<1>a. /\ s.stack \in [Seats -> Int] /\ s.bet_this_round \in [Seats -> Int]
      /\ s.current_bet \in Int /\ s.min_raise \in Int /\ s.big_blind \in Int
      /\ s.pot \in Int
  BY <1>3, HandFields
<1>5. /\ n.stack \in [Seats -> Int] /\ n.bet_this_round \in [Seats -> Int]
      /\ n.pot \in Int /\ n.big_blind \in Int /\ n.big_blind >= 0
      /\ n.current_bet \in Int /\ n.min_raise \in Int
  BY <1>1, <1>3, <1>4, <1>a
<1>6. /\ n \in HandType /\ n.status = "betting" /\ n.folded = s.folded
      /\ n.all_in = s.all_in /\ n.players = s.players
  <2>2. /\ n.status = "betting" /\ n.folded = s.folded
        /\ n.all_in = s.all_in /\ n.players = s.players
    BY <1>4
  <2>3. /\ s.draw \in BOOLEAN /\ s.phase \in Phases /\ s.players \in SUBSET Seats
        /\ s.folded \in SUBSET Seats /\ s.all_in \in SUBSET Seats
        /\ "betting" \in {"undealt", "betting", "complete"}
    BY <1>3, HandFields
  <2>4. n \in HandType
    BY <1>4, <1>5, <2>3 DEF HandType
  <2> QED BY <2>2, <2>4
<1>7. Sound(n, d)
  <2>1. /\ chips \in Int /\ n.all_in \subseteq s.all_in \cup {p}
        /\ p \in n.all_in => chips = s.stack[p]
    BY <1>1, <1>6
  <2> QED BY <1>1, <1>2, <1>4, <1>5, <1>6, <2>1, PaySound
<1>8. \A q \in Seats : q # p => n.stack[q] = s.stack[q]
  BY <1>3, <1>4, HandFields
<1> QED BY <1>2, <1>6, <1>7, <1>8 DEF n, SamePlayers

\* Some betting handler answers p with e.
ActionAnswer(s, p, e) ==
  \/ e \in fold_action(s, p)
  \/ e \in check_action(s, p)
  \/ e \in call_action(s, p)
  \/ e \in all_in_action(s, p)
  \/ \E amount \in Int : e \in bet_action(s, p, amount)
  \/ \E amount \in Int : e \in raise_action(s, p, amount)

\* What an action event says: chips the player has, all of them if all-in.
LEMMA ActionCases ==
  ASSUME NEW s, NEW d, Sound(s, d), NEW p \in Seats, NEW e, ActionAnswer(s, p, e)
  PROVE  /\ MayAct(s, p)
         /\ \E chips \in Int, amount \in Int, action \in Actions :
              /\ chips <= s.stack[p]
              /\ action = "ALL_IN" => chips = s.stack[p]
              /\ e = ActionEvent(s, p, action, amount, chips)
<1>1. /\ s.stack[p] \in Int /\ s.bet_this_round[p] \in Int /\ s.current_bet \in Int
      /\ call_amount(s, p) \in Int
  <2>1. s.stack \in [Seats -> Int] /\ s.bet_this_round \in [Seats -> Int]
        /\ s.current_bet \in Int
    BY HandFields DEF Sound
  <2> QED BY <2>1 DEF call_amount
<1>2. MayAct(s, p)
  BY DEF ActionAnswer, fold_action, check_action, call_action, all_in_action,
         bet_action, raise_action
<1>3. s.stack[p] >= 0
  BY <1>2 DEF MayAct, Sound
<1>4. ASSUME NEW action \in Actions, NEW chips \in Int, chips <= s.stack[p],
             NEW amount \in Int, action # "ALL_IN",
             e = ActionEvent(s, p, OrAllIn(s, p, action, chips), amount, chips)
      PROVE  \E c \in Int, a \in Int, act \in Actions :
               /\ c <= s.stack[p]
               /\ act = "ALL_IN" => c = s.stack[p]
               /\ e = ActionEvent(s, p, act, a, c)
  <2> DEFINE act == OrAllIn(s, p, action, chips)
  <2>1. act \in Actions /\ (act = "ALL_IN" => chips = s.stack[p])
    BY <1>1, <1>4 DEF OrAllIn, Actions
  <2> HIDE DEF act
  <2> QED BY <1>4, <2>1 DEF act
<1>5. CASE e \in fold_action(s, p) \cup check_action(s, p)
  <2>1. /\ e = ActionEvent(s, p, "FOLD", 0, 0) \/ e = ActionEvent(s, p, "CHECK", 0, 0)
        /\ 0 <= s.stack[p] /\ {"FOLD", "CHECK"} \subseteq Actions
    BY <1>1, <1>3, <1>5 DEF fold_action, check_action, Actions
  <2> QED BY <1>2, <2>1
<1>6. CASE e \in call_action(s, p)
  <2> DEFINE chips == Smaller(call_amount(s, p), s.stack[p])
  <2>1. chips \in Int /\ chips <= s.stack[p] /\ "CALL" \in Actions
    BY <1>1 DEF Smaller, Actions
  <2>2. e = ActionEvent(s, p, OrAllIn(s, p, "CALL", chips), chips, chips)
    BY <1>6 DEF call_action
  <2> HIDE DEF chips
  <2> QED BY <1>2, <1>4, <2>1, <2>2
<1>7. CASE e \in all_in_action(s, p)
  <2>1. e = ActionEvent(s, p, "ALL_IN", s.stack[p], s.stack[p]) /\ "ALL_IN" \in Actions
    BY <1>7 DEF all_in_action, Actions
  <2> QED BY <1>1, <1>2, <2>1
<1>8. ASSUME NEW amount \in Int, e \in bet_action(s, p, amount)
      PROVE  \E chips \in Int, a \in Int, action \in Actions :
              /\ chips <= s.stack[p]
              /\ action = "ALL_IN" => chips = s.stack[p]
              /\ e = ActionEvent(s, p, action, a, chips)
  <2>1. /\ amount \in Int /\ amount <= s.stack[p] /\ "BET" \in Actions
        /\ e = ActionEvent(s, p, OrAllIn(s, p, "BET", amount), amount, amount)
    BY <1>8 DEF bet_action, Actions
  <2> QED BY <1>4, <2>1
<1>9. ASSUME NEW amount \in Int, e \in raise_action(s, p, amount)
      PROVE  \E chips \in Int, a \in Int, action \in Actions :
              /\ chips <= s.stack[p]
              /\ action = "ALL_IN" => chips = s.stack[p]
              /\ e = ActionEvent(s, p, action, a, chips)
  <2> DEFINE chips == amount - s.bet_this_round[p]
  <2>1. /\ amount \in Int /\ chips \in Int /\ chips <= s.stack[p]
        /\ "RAISE" \in Actions
        /\ e = ActionEvent(s, p, OrAllIn(s, p, "RAISE", chips), amount, chips)
    BY <1>1, <1>9 DEF raise_action, Actions
  <2> HIDE DEF chips
  <2> QED BY <1>4, <2>1
<1> QED BY <1>2, <1>5, <1>6, <1>7, <1>8, <1>9 DEF ActionAnswer

\* What each answer says: what it names and what it moves, which differ for a
\* raise.
LEMMA ActionKinds ==
  ASSUME NEW s, NEW d, Sound(s, d), NEW p \in Seats, NEW e, ActionAnswer(s, p, e)
  PROVE  \E action \in Actions, amount \in Int, chips \in Int :
           /\ e = ActionEvent(s, p, action, amount, chips)
           /\ chips <= s.stack[p]
           /\ \/ action \in {"FOLD", "CHECK"} /\ amount = 0 /\ chips = 0
              \/ /\ action \in {"CALL", "ALL_IN"} /\ amount = chips
                 /\ chips = Smaller(call_amount(s, p), s.stack[p])
              \/ /\ action \in {"BET", "ALL_IN"} /\ amount = chips /\ chips >= 0
              \/ /\ action \in {"RAISE", "ALL_IN"}
                 /\ chips = amount - s.bet_this_round[p]
                 /\ s.min_raise <= amount - s.current_bet \/ s.stack[p] <= chips
<1> DEFINE Goal(action, amount, chips) ==
      /\ e = ActionEvent(s, p, action, amount, chips)
      /\ chips <= s.stack[p]
      /\ \/ action \in {"FOLD", "CHECK"} /\ amount = 0 /\ chips = 0
         \/ /\ action \in {"CALL", "ALL_IN"} /\ amount = chips
            /\ chips = Smaller(call_amount(s, p), s.stack[p])
         \/ /\ action \in {"BET", "ALL_IN"} /\ amount = chips /\ chips >= 0
         \/ /\ action \in {"RAISE", "ALL_IN"}
            /\ chips = amount - s.bet_this_round[p]
            /\ s.min_raise <= amount - s.current_bet \/ s.stack[p] <= chips
<1> SUFFICES \E action \in Actions, amount \in Int, chips \in Int :
               Goal(action, amount, chips)
  OBVIOUS
<1>1. /\ s.stack[p] \in Int /\ s.bet_this_round[p] \in Int /\ call_amount(s, p) \in Int
      /\ s.big_blind \in Int /\ s.big_blind >= 0
  <2>1. /\ s.stack \in [Seats -> Int] /\ s.bet_this_round \in [Seats -> Int]
        /\ s.current_bet \in Int /\ s.big_blind \in Int /\ s.big_blind >= 0
    BY HandFields DEF Sound
  <2> QED BY <2>1 DEF call_amount
<1>2. s.stack[p] >= 0
  BY ActionCases DEF MayAct, Sound
<1>3. \A chips : /\ OrAllIn(s, p, "CALL", chips) \in {"CALL", "ALL_IN"}
                 /\ OrAllIn(s, p, "BET", chips) \in {"BET", "ALL_IN"}
                 /\ OrAllIn(s, p, "RAISE", chips) \in {"RAISE", "ALL_IN"}
  BY DEF OrAllIn
<1>4. {"FOLD", "CHECK", "CALL", "BET", "RAISE", "ALL_IN"} = Actions
  BY DEF Actions
<1>5. CASE e \in fold_action(s, p) \cup check_action(s, p)
  <2>1. \E action \in {"FOLD", "CHECK"} : e = ActionEvent(s, p, action, 0, 0)
    BY <1>5 DEF fold_action, check_action
  <2> QED BY <1>2, <1>4, <2>1
<1>6. CASE e \in call_action(s, p)
  <2> DEFINE chips == Smaller(call_amount(s, p), s.stack[p])
  <2>1. /\ e = ActionEvent(s, p, OrAllIn(s, p, "CALL", chips), chips, chips)
        /\ chips \in Int /\ chips <= s.stack[p]
    BY <1>1, <1>6 DEF call_action, Smaller
  <2>2. Goal(OrAllIn(s, p, "CALL", chips), chips, chips)
    BY <1>3, <2>1
  <2> HIDE DEF Goal, chips
  <2> QED BY <1>3, <1>4, <2>1, <2>2
<1>7. CASE e \in all_in_action(s, p)
  <2>1. Goal("ALL_IN", s.stack[p], s.stack[p])
    BY <1>1, <1>2, <1>7 DEF all_in_action
  <2> HIDE DEF Goal
  <2> QED BY <1>1, <1>4, <2>1
<1>8. ASSUME NEW amount \in Int, e \in bet_action(s, p, amount)
      PROVE  \E action \in Actions, a \in Int, chips \in Int : Goal(action, a, chips)
  <2>1. /\ e = ActionEvent(s, p, OrAllIn(s, p, "BET", amount), amount, amount)
        /\ amount >= 0 /\ amount <= s.stack[p]
    BY <1>1, <1>8 DEF bet_action
  <2>2. Goal(OrAllIn(s, p, "BET", amount), amount, amount)
    BY <1>3, <2>1
  <2> HIDE DEF Goal
  <2> QED BY <1>3, <1>4, <2>2
<1>9. ASSUME NEW amount \in Int, e \in raise_action(s, p, amount)
      PROVE  \E action \in Actions, a \in Int, chips \in Int : Goal(action, a, chips)
  <2> DEFINE chips == amount - s.bet_this_round[p]
  <2>1. /\ e = ActionEvent(s, p, OrAllIn(s, p, "RAISE", chips), amount, chips)
        /\ s.min_raise <= amount - s.current_bet \/ s.stack[p] <= chips
        /\ chips <= s.stack[p] /\ chips \in Int
    BY <1>1, <1>9 DEF raise_action
  <2>2. Goal(OrAllIn(s, p, "RAISE", chips), amount, chips)
    BY <1>3, <2>1
  <2> HIDE DEF Goal, chips
  <2> QED BY <1>3, <1>4, <2>1, <2>2
<1> HIDE DEF Goal
<1> QED BY <1>5, <1>6, <1>7, <1>8, <1>9 DEF ActionAnswer

\* What the state becomes with an action event, field by field.
Acted(s, p, action, amount, chips) ==
  LET bet    == s.bet_this_round[p] + amount
      raised == action \in {"BET", "RAISE", "ALL_IN"} /\ bet > s.current_bet
  IN  [status |-> s.status, draw |-> s.draw, phase |-> s.phase,
       players |-> s.players,
       stack |-> [s.stack EXCEPT ![p] = s.stack[p] - chips],
       bet_this_round |-> [s.bet_this_round EXCEPT ![p] = bet],
       folded |-> IF action = "FOLD" THEN s.folded \cup {p} ELSE s.folded,
       all_in |-> IF action = "ALL_IN" THEN s.all_in \cup {p} ELSE s.all_in,
       current_bet |-> IF raised THEN bet ELSE s.current_bet,
       min_raise |-> IF raised THEN Larger(s.min_raise, bet - s.current_bet)
                               ELSE s.min_raise,
       big_blind |-> s.big_blind, pot |-> s.pot + chips]

LEMMA ActionEffect ==
  ASSUME NEW s \in HandType, NEW p \in Seats, NEW action, NEW amount, NEW chips
  PROVE  apply_action_taken(s, ActionEvent(s, p, action, amount, chips))
           = Acted(s, p, action, amount, chips)
<1> DEFINE e == ActionEvent(s, p, action, amount, chips)
           n == apply_action_taken(s, e)
           bet == s.bet_this_round[p] + amount
           raised == action \in {"BET", "RAISE", "ALL_IN"} /\ bet > s.current_bet
           folded == IF action = "FOLD" THEN s.folded \cup {p} ELSE s.folded
           all_in == IF action = "ALL_IN" THEN s.all_in \cup {p} ELSE s.all_in
           cb == IF raised THEN bet ELSE s.current_bet
           mr == IF raised THEN Larger(s.min_raise, bet - s.current_bet)
                           ELSE s.min_raise
<1>1. /\ e.player = p /\ e.action = action /\ e.amount = amount
      /\ e.player_stack = s.stack[p] - chips /\ e.pot_total = s.pot + chips
  BY DEF ActionEvent
<1> HIDE DEF e
<1>2. n = [s EXCEPT !.stack[p] = s.stack[p] - chips,
                    !.bet_this_round[p] = bet,
                    !.folded = folded, !.all_in = all_in,
                    !.current_bet = cb, !.min_raise = mr,
                    !.pot = s.pot + chips]
  BY <1>1 DEF apply_action_taken
<1> HIDE DEF bet, folded, all_in, cb, mr, n
<1>3. n = [status |-> s.status, draw |-> s.draw, phase |-> s.phase,
           players |-> s.players,
           stack |-> [s.stack EXCEPT ![p] = s.stack[p] - chips],
           bet_this_round |-> [s.bet_this_round EXCEPT ![p] = bet],
           folded |-> folded, all_in |-> all_in, current_bet |-> cb,
           min_raise |-> mr, big_blind |-> s.big_blind, pot |-> s.pot + chips]
  BY <1>2 DEF HandType
<1> QED BY <1>3 DEF Acted, bet, folded, all_in, cb, mr, n, e

LEMMA ActionApplied ==
  ASSUME NEW s, NEW d, Sound(s, d), NEW p \in Seats, NEW e, ActionAnswer(s, p, e)
  PROVE  /\ Sound(apply_action_taken(s, e), d)
         /\ s.folded \subseteq apply_action_taken(s, e).folded
         /\ s.all_in \subseteq apply_action_taken(s, e).all_in
         /\ e.action = "FOLD" => p \in apply_action_taken(s, e).folded
         /\ e.action = "ALL_IN" => p \in apply_action_taken(s, e).all_in
         /\ apply_action_taken(s, e).players = s.players
         /\ apply_action_taken(s, e).status = "betting"
         /\ s.status = "betting"
         /\ p \notin s.folded
         /\ \A q \in Seats : q # p => apply_action_taken(s, e).stack[q] = s.stack[q]
<1>1. PICK chips \in Int, amount \in Int, action \in Actions :
        /\ chips <= s.stack[p]
        /\ action = "ALL_IN" => chips = s.stack[p]
        /\ e = ActionEvent(s, p, action, amount, chips)
  BY ActionCases
<1>2. s.status = "betting" /\ p \notin s.folded /\ p \notin s.all_in
  BY ActionCases DEF MayAct
<1>3. s \in HandType /\ s.big_blind >= 0
  BY DEF Sound
<1>4. /\ s.stack \in [Seats -> Int] /\ s.bet_this_round \in [Seats -> Int]
      /\ s.current_bet \in Int /\ s.min_raise \in Int /\ s.big_blind \in Int
      /\ s.pot \in Int
      /\ s.draw \in BOOLEAN /\ s.phase \in Phases /\ s.players \in SUBSET Seats
      /\ s.folded \in SUBSET Seats /\ s.all_in \in SUBSET Seats
      /\ "betting" \in {"undealt", "betting", "complete"}
  BY <1>3, HandFields
<1> DEFINE n == apply_action_taken(s, e)
           bet == s.bet_this_round[p] + amount
<1>5. /\ n = [status |-> "betting", draw |-> s.draw, phase |-> s.phase,
               players |-> s.players, stack |-> n.stack,
               bet_this_round |-> n.bet_this_round, folded |-> n.folded,
               all_in |-> n.all_in, current_bet |-> n.current_bet,
               min_raise |-> n.min_raise, big_blind |-> s.big_blind, pot |-> n.pot]
      /\ n.stack = [s.stack EXCEPT ![p] = s.stack[p] - chips]
      /\ n.bet_this_round = [s.bet_this_round EXCEPT ![p] = bet]
      /\ n.pot = s.pot + chips
      /\ n.folded \in {s.folded, s.folded \cup {p}}
      /\ n.all_in \in {s.all_in, s.all_in \cup {p}}
      /\ action # "ALL_IN" => n.all_in = s.all_in
      /\ e.action = "FOLD" => p \in n.folded
      /\ e.action = "ALL_IN" => p \in n.all_in
      /\ n.current_bet \in {s.current_bet, bet}
      /\ n.min_raise \in {s.min_raise, Larger(s.min_raise, bet - s.current_bet)}
  <2>1. e.action = action
    BY <1>1 DEF ActionEvent
  <2>2. n = Acted(s, p, action, amount, chips)
    BY <1>1, <1>3, ActionEffect
  <2> HIDE DEF n
  <2> QED BY <1>2, <2>1, <2>2 DEF Acted
<1>6. bet \in Int /\ Larger(s.min_raise, bet - s.current_bet) \in Int
  BY <1>1, <1>4 DEF Larger
<1> HIDE DEF n, bet
<1>7. /\ n.stack \in [Seats -> Int] /\ n.bet_this_round \in [Seats -> Int]
      /\ n.pot \in Int /\ n.current_bet \in Int /\ n.min_raise \in Int
      /\ n.folded \in SUBSET Seats /\ n.all_in \in SUBSET Seats
      /\ n.status = "betting" /\ n.big_blind = s.big_blind
      /\ n.players = s.players
  BY <1>1, <1>4, <1>5, <1>6
<1>8. n \in HandType
  BY <1>4, <1>5, <1>7 DEF HandType
<1>9. Sound(n, d)
  <2>1. /\ n.all_in \subseteq s.all_in \cup {p}
        /\ p \in n.all_in => chips = s.stack[p]
    BY <1>1, <1>2, <1>5
  <2> QED BY <1>1, <1>2, <1>3, <1>5, <1>7, <1>8, <2>1, PaySound
<1>10. \A q \in Seats : q # p => n.stack[q] = s.stack[q]
  BY <1>4, <1>5
<1> QED BY <1>2, <1>5, <1>7, <1>9, <1>10 DEF n

\* A dealt hand has what the players brought, and an empty pot.
LEMMA DealApplied ==
  ASSUME NEW s, NEW d, Sound(s, d), NEW draw \in BOOLEAN,
         NEW players \in SUBSET Seats, NEW stack \in [players -> Nat],
         NEW e \in handle_deal(s, draw, stack)
  PROVE  /\ Sound(apply_cards_dealt(s, e), e.stack)
         /\ e.stack \in [Seats -> Int]
         /\ s.status = "undealt" /\ s.folded = {} /\ s.all_in = {}
         /\ apply_cards_dealt(s, e).players = players
         /\ apply_cards_dealt(s, e).status = "betting"
<1>1. s.status = "undealt" /\ s = NewHand
  BY DEF handle_deal, Sound
<1> DEFINE all == [p \in Seats |-> IF p \in players THEN stack[p] ELSE 0]
           n == apply_cards_dealt(s, e)
<1>2. e.stack = all /\ e.draw = draw /\ e.players = players
  BY DEF handle_deal
<1>3. all \in [Seats -> Int] /\ \A p \in Seats : all[p] >= 0
  OBVIOUS
<1> HIDE DEF all
<1>4. n = [status |-> "betting", draw |-> draw, phase |-> "PREFLOP",
           players |-> players, stack |-> all,
           bet_this_round |-> NoChips, folded |-> {}, all_in |-> {},
           current_bet |-> 0, min_raise |-> 0, big_blind |-> 0, pot |-> 0]
  <2>1. n = [s EXCEPT !.status = "betting", !.phase = "PREFLOP", !.draw = draw,
                      !.players = players, !.stack = all, !.pot = 0]
    BY <1>2 DEF apply_cards_dealt
  <2> HIDE DEF n
  <2>2. /\ s \in HandType /\ s.bet_this_round = NoChips /\ s.folded = {}
        /\ s.all_in = {} /\ s.current_bet = 0 /\ s.min_raise = 0
        /\ s.big_blind = 0
    BY <1>1 DEF Sound, NewHand
  <2> QED BY <2>1, <2>2 DEF HandType
<1> HIDE DEF n
<1>5. /\ n.status = "betting" /\ n.stack = all /\ n.pot = 0 /\ n.all_in = {}
      /\ n.big_blind = 0 /\ n.players = players
  BY <1>4
<1>6. n \in HandType
  <2>1. /\ NoChips \in [Seats -> Int] /\ {} \in SUBSET Seats
        /\ "PREFLOP" \in Phases /\ "betting" \in {"undealt", "betting", "complete"}
    BY DEF Phases, NoChips
  <2> QED BY <1>3, <1>4, <2>1 DEF HandType
<1>7. Total(all) \in Int
  BY <1>3, NumSeatsAssumption, SumToType DEF Seats, Total
<1> HIDE DEF n
<1>8. Sound(n, e.stack)
  BY <1>2, <1>3, <1>5, <1>6, <1>7 DEF Sound
<1> QED BY <1>1, <1>2, <1>3, <1>5, <1>8 DEF n, NewHand

\* Community cards move no chips.
LEMMA CommunityApplied ==
  ASSUME NEW s, NEW d, Sound(s, d), NEW count,
         NEW e \in handle_deal_community(s, count)
  PROVE  /\ Sound(apply_community_dealt(s, e), d)
         /\ apply_community_dealt(s, e).folded = s.folded
         /\ SamePlayers(s, apply_community_dealt(s, e))
         /\ apply_community_dealt(s, e).stack = s.stack
         /\ apply_community_dealt(s, e).status = "betting"
         /\ s.status # "complete"
<1>1. s \in HandType
  BY DEF Sound
<1>2. s.status \notin {"undealt", "complete"} /\ s.phase \in DOMAIN next_phase
      /\ e.phase = next_phase[s.phase]
  BY DEF handle_deal_community
<1>3. e.phase \in Phases
  BY <1>2 DEF next_phase, Phases
<1> DEFINE n == apply_community_dealt(s, e)
<1>4. n = [status |-> "betting", draw |-> s.draw, phase |-> e.phase,
           players |-> s.players, stack |-> s.stack,
           bet_this_round |-> NoChips, folded |-> s.folded,
           all_in |-> s.all_in, current_bet |-> 0, min_raise |-> s.min_raise,
           big_blind |-> s.big_blind, pot |-> s.pot]
  <2>1. n = [s EXCEPT !.status = "betting", !.phase = e.phase,
                      !.bet_this_round = NoChips, !.current_bet = 0]
    BY DEF apply_community_dealt
  <2> HIDE DEF n
  <2> QED BY <1>1, <2>1 DEF HandType
<1> HIDE DEF n
<1>5. /\ n.status = "betting" /\ n.stack = s.stack /\ n.pot = s.pot
      /\ n.all_in = s.all_in /\ n.folded = s.folded /\ n.big_blind = s.big_blind
      /\ n.players = s.players
  BY <1>4
<1>6. n \in HandType
  <2>1. /\ NoChips \in [Seats -> Int]
        /\ s.folded \in SUBSET Seats /\ s.all_in \in SUBSET Seats
        /\ s.players \in SUBSET Seats
        /\ "betting" \in {"undealt", "betting", "complete"}
    BY <1>1, HandFields DEF NoChips
  <2> QED BY <1>1, <1>3, <1>4, <2>1, HandFields DEF HandType
<1>7. Sound(n, d)
  BY <1>2, <1>5, <1>6 DEF Sound
<1> QED BY <1>2, <1>5, <1>7 DEF n, SamePlayers

\* An award completes the hand and pays out the pot, to players not folded.
LEMMA AwardApplied ==
  ASSUME NEW s, NEW d, Sound(s, d), NEW first \in Seats, NEW amount \in Int,
         NEW named \in SUBSET Seats, NEW others \in [named -> Int],
         NEW e \in handle_award_pot(s, first, amount, others)
  PROVE  /\ Sound(apply_hand_complete(apply_pot_awarded(s, e)), d)
         /\ apply_hand_complete(apply_pot_awarded(s, e)).folded = s.folded
         /\ SamePlayers(s, apply_hand_complete(apply_pot_awarded(s, e)))
         /\ apply_hand_complete(apply_pot_awarded(s, e)).stack = final_stacks(s, e)
         /\ final_stacks(s, e) \in [Seats -> Int]
         /\ s.status # "complete" /\ first \in s.players \ s.folded
         /\ \A p \in Seats \ (s.players \ s.folded) : final_stacks(s, e)[p] = s.stack[p]
         /\ \A p \in s.folded : final_stacks(s, e)[p] = s.stack[p]
<1>1. s \in HandType
  BY DEF Sound
<1>2. /\ s.stack \in [Seats -> Int] /\ s.pot \in Int
      /\ s.folded \in SUBSET Seats /\ s.all_in \in SUBSET Seats
      /\ s.players \in SUBSET Seats /\ s.bet_this_round \in [Seats -> Int]
      /\ "complete" \in {"undealt", "betting", "complete"}
  BY <1>1, HandFields
<1>3. /\ s.status \notin {"undealt", "complete"}
      /\ {first} \cup named \subseteq s.players \ s.folded
  BY DEF handle_award_pot
<1> DEFINE a == AdjustedAward(s, amount, others)
           w == Winnings(first, a, others)
           f == final_stacks(s, e)
           n == apply_hand_complete(apply_pot_awarded(s, e))
<1>4. e.winnings = w
  BY DEF handle_award_pot
<1>5. a \in Int /\ (s.pot > 0 => a + TotalOf(others) = s.pot)
  <2>1. TotalOf(others) \in Int
    BY TotalWinnings
  <2> QED BY <1>2, <2>1 DEF AdjustedAward
<1> HIDE DEF a
<1>6. /\ w \in [Seats -> Int] /\ TotalOf(others) \in Int
      /\ Total(w) = a + TotalOf(others)
  BY <1>5, TotalWinnings
<1>7. \A p \in Seats \ (s.players \ s.folded) : w[p] = 0
  BY <1>2, <1>3 DEF Winnings
<1> HIDE DEF w
<1>8. /\ f \in [Seats -> Int] /\ \A p \in Seats : f[p] = s.stack[p] + w[p]
  BY <1>2, <1>4, <1>6 DEF final_stacks
<1>9. n = [status |-> "complete", draw |-> s.draw, phase |-> s.phase,
           players |-> s.players, stack |-> f,
           bet_this_round |-> s.bet_this_round, folded |-> s.folded,
           all_in |-> s.all_in, current_bet |-> s.current_bet,
           min_raise |-> s.min_raise, big_blind |-> s.big_blind, pot |-> s.pot]
  <2>1. apply_pot_awarded(s, e) = [s EXCEPT !.stack = f]
    BY DEF apply_pot_awarded, final_stacks
  <2> HIDE DEF f
  <2>2. n = [s EXCEPT !.stack = f, !.status = "complete"]
    BY <1>1, <2>1 DEF apply_hand_complete, HandType
  <2> HIDE DEF n
  <2> QED BY <1>1, <2>2 DEF HandType
<1> HIDE DEF f, n
<1>10. /\ n.status = "complete" /\ n.stack = f /\ n.pot = s.pot
       /\ n.folded = s.folded /\ n.big_blind = s.big_blind
       /\ n.all_in = s.all_in /\ n.players = s.players
  BY <1>9
<1>11. n \in HandType
  BY <1>1, <1>2, <1>8, <1>9, HandFields DEF HandType
<1>12. s.pot > 0 => Total(f) = Total(d)
  <2>1. Total(s.stack) \in Int /\ Total(s.stack) + s.pot = Total(d)
    <3>1. Total(s.stack) \in Int
      BY <1>2, NumSeatsAssumption, SumToType DEF Seats, Total
    <3> QED BY <1>3, <3>1 DEF Sound
  <2>2. Total(f) = Total(s.stack) + Total(w)
    BY <1>2, <1>6, <1>8, NumSeatsAssumption, SumToAdd DEF Seats, Total
  <2> QED BY <1>2, <1>5, <1>6, <2>1, <2>2
<1>13. Sound(n, d)
  BY <1>10, <1>11, <1>12 DEF Sound
<1>14. \A p \in Seats \ (s.players \ s.folded) : f[p] = s.stack[p]
  BY <1>2, <1>7, <1>8
<1> QED BY <1>2, <1>3, <1>8, <1>10, <1>13, <1>14 DEF n, f, SamePlayers

-----------------------------------------------------------------------------
(***************************************************************************)
(* Bets and the pot.  A call of one who bet more than current_bet takes    *)
(* chips back from the pot; while at most one player b is such a one, and  *)
(* the pot could pay him, it never gets negative.                          *)
(***************************************************************************)

\* No bet but b's is above current_bet, and the pot could pay b back.
Owing(s, b) ==
  /\ s.pot >= 0 /\ s.min_raise >= 0
  /\ \A p \in Seats \ {b} : s.bet_this_round[p] <= s.current_bet
  /\ s.bet_this_round[b] - s.current_bet <= s.pot

\* Nobody but b has bet.
Quiet(s, b) ==
  /\ s.current_bet = 0
  /\ \A p \in Seats \ {b} : s.bet_this_round[p] = 0

LEMMA NewHandOwing ==
  ASSUME NEW b \in Seats
  PROVE  Owing(NewHand, b) /\ Quiet(NewHand, b)
  BY DEF NewHand, NoChips, Owing, Quiet

\* It stays so whatever any player does, in turn or not.
LEMMA ActionOwing ==
  ASSUME NEW s, NEW d, Sound(s, d), NEW b \in Seats, Owing(s, b),
         NEW p \in Seats, NEW e, ActionAnswer(s, p, e)
  PROVE  Owing(apply_action_taken(s, e), b)
<1>1. PICK action \in Actions, amount \in Int, chips \in Int :
        /\ e = ActionEvent(s, p, action, amount, chips)
        /\ chips <= s.stack[p]
        /\ \/ action \in {"FOLD", "CHECK"} /\ amount = 0 /\ chips = 0
           \/ /\ action \in {"CALL", "ALL_IN"} /\ amount = chips
              /\ chips = Smaller(call_amount(s, p), s.stack[p])
           \/ /\ action \in {"BET", "ALL_IN"} /\ amount = chips /\ chips >= 0
           \/ /\ action \in {"RAISE", "ALL_IN"}
              /\ chips = amount - s.bet_this_round[p]
              /\ s.min_raise <= amount - s.current_bet \/ s.stack[p] <= chips
  BY ActionKinds
<1> DEFINE n == apply_action_taken(s, e)
           old == s.bet_this_round
           top == s.current_bet
           bet == old[p] + amount
<1>2. /\ s \in HandType /\ s.stack[p] >= 0
  BY ActionCases DEF MayAct, Sound
<1>3. /\ old \in [Seats -> Int] /\ top \in Int /\ s.min_raise \in Int /\ s.pot \in Int
      /\ s.stack[p] \in Int
  BY <1>2, HandFields
<1>4. n = Acted(s, p, action, amount, chips)
  BY <1>1, <1>2, ActionEffect
<1> HIDE DEF n
<1>5. /\ n.pot = s.pot + chips
      /\ n.bet_this_round = [old EXCEPT ![p] = bet]
      /\ \/ /\ action \in {"BET", "RAISE", "ALL_IN"} /\ bet > top
            /\ n.current_bet = bet /\ n.min_raise = Larger(s.min_raise, bet - top)
         \/ /\ ~ (action \in {"BET", "RAISE", "ALL_IN"} /\ bet > top)
            /\ n.current_bet = top /\ n.min_raise = s.min_raise
  BY <1>4 DEF Acted
<1>6. /\ s.pot >= 0 /\ s.min_raise >= 0
      /\ \A q \in Seats \ {b} : old[q] <= top
      /\ old[b] - top <= s.pot
  BY DEF Owing
<1>7. bet \in Int /\ old[p] \in Int /\ old[b] \in Int
  BY <1>1, <1>3
\* Only b gets chips back, and then no more than he bet above the others.
<1>8. /\ chips >= 0 \/ (p = b /\ chips >= top - old[b])
      /\ action \in {"FOLD", "CHECK", "CALL"} =>
           bet <= top \/ (bet = old[p] /\ chips = 0)
  <2> DEFINE x == old[p]
             stack == s.stack[p]
  <2>1. /\ x \in Int /\ top \in Int /\ stack \in Int /\ stack >= 0
        /\ s.min_raise \in Int /\ s.min_raise >= 0
        /\ p # b => x <= top
        /\ p = b => x = old[b]
        /\ call_amount(s, p) = top - x /\ bet = x + amount
    BY <1>2, <1>3, <1>6, <1>7 DEF call_amount
  <2>2. CASE action \in {"FOLD", "CHECK"} /\ amount = 0 /\ chips = 0
    BY <1>7, <2>1, <2>2
  <2>3. CASE /\ action \in {"CALL", "ALL_IN"} /\ amount = chips
             /\ chips = Smaller(call_amount(s, p), stack)
    <3> HIDE DEF x, stack, top, bet
    <3>1. /\ chips <= top - x
          /\ chips >= 0 \/ chips = top - x
      BY <2>1, <2>3 DEF Smaller
    <3> QED BY <2>1, <2>3, <3>1
  <2>4. CASE action \in {"BET", "ALL_IN"} /\ amount = chips /\ chips >= 0
    BY <2>4
  <2>5. CASE /\ action \in {"RAISE", "ALL_IN"} /\ chips = amount - x
             /\ s.min_raise <= amount - top \/ stack <= chips
    <3>1. action \notin {"FOLD", "CHECK", "CALL"}
      BY <2>5
    <3> HIDE DEF x, stack, top, bet
    <3>2. chips >= 0 \/ chips >= top - x
      BY <2>1, <2>5
    <3> QED BY <2>1, <3>1, <3>2
  <2> QED BY <1>1, <2>2, <2>3, <2>4, <2>5
<1>9. /\ n.current_bet >= top /\ n.min_raise >= 0 /\ n.current_bet \in Int
  BY <1>3, <1>5, <1>6, <1>7 DEF Larger
<1>10. /\ n.pot >= 0 /\ n.pot \in Int
       /\ p # b => n.pot >= s.pot
       /\ p = b => n.pot >= s.pot \/ n.pot >= s.pot + top - old[b]
  BY <1>1, <1>3, <1>5, <1>6, <1>7, <1>8
<1>11. /\ n.bet_this_round[p] = bet
       /\ \A q \in Seats : q # p => n.bet_this_round[q] = old[q]
  BY <1>3, <1>5
<1>12. bet <= n.current_bet \/ (bet = old[p] /\ chips = 0)
  BY <1>1, <1>5, <1>7, <1>3, <1>8
<1> HIDE DEF bet, old, top
<1>13. ASSUME NEW q \in Seats \ {b} PROVE n.bet_this_round[q] <= n.current_bet
  <2>1. old[q] <= top /\ old[q] \in Int /\ top \in Int
    BY <1>3, <1>6
  <2> QED BY <1>7, <1>9, <1>11, <1>12, <2>1
<1>14. n.bet_this_round[b] - n.current_bet <= n.pot
  <2>1. CASE p # b
    BY <1>3, <1>6, <1>7, <1>9, <1>10, <1>11, <2>1
  <2>2. CASE p = b
    BY <1>1, <1>3, <1>5, <1>6, <1>7, <1>8, <1>9, <1>10, <1>11, <1>12, <2>2
  <2> QED BY <2>1, <2>2
<1> QED BY <1>9, <1>10, <1>13, <1>14 DEF Owing, n

\* The first of the blinds is b's small one, or there is only a big one.
LEMMA BlindOwing ==
  ASSUME NEW s, NEW d, Sound(s, d), NEW b \in Seats, Owing(s, b), Quiet(s, b),
         NEW p \in Seats, NEW blind_type, NEW amount \in Int,
         NEW e \in handle_post_blind(s, p, blind_type, amount),
         blind_type = "big" \/ p = b
  PROVE  /\ Owing(apply_blind_posted(s, e), b)
         /\ blind_type # "big" => Quiet(apply_blind_posted(s, e), b)
<1> DEFINE n == apply_blind_posted(s, e)
<1>1. PICK chips \in Nat : e = BlindEvent(s, p, blind_type, chips)
  BY BlindCases
<1>2. s \in HandType
  BY DEF Sound
<1>3. /\ s.bet_this_round \in [Seats -> Int] /\ s.current_bet = 0
      /\ s.min_raise \in Int /\ s.pot \in Int
  BY <1>2, HandFields DEF Quiet
<1>4. n = apply_blind_posted(s, BlindEvent(s, p, blind_type, chips))
  BY <1>1
<1> HIDE DEF n
<1>5. /\ n.pot = s.pot + chips
      /\ n.bet_this_round = [s.bet_this_round EXCEPT ![p] = chips]
      /\ n.current_bet = IF blind_type = "big" THEN chips ELSE s.current_bet
      /\ n.min_raise = IF blind_type = "big" THEN chips ELSE s.min_raise
  BY <1>2, <1>4, BlindEffect
<1> QED BY <1>3, <1>5 DEF Owing, Quiet, n
=============================================================================
