--------------------------- MODULE HandFlowProofs ---------------------------
(***************************************************************************)
(* What holds of hands conducted by the process manager, for any number of *)
(* hands and seats, any stacks, and any interleaving of players, events    *)
(* and commands.                                                           *)
(***************************************************************************)
EXTENDS HandFlow, HandLemmas, SequenceTheorems, FiniteSetTheorems

Processes == [Hands -> ProcessType \cup {Unstarted}]

-----------------------------------------------------------------------------
(***************************************************************************)
(* The handlers of the process manager.                                    *)
(***************************************************************************)

\* The types of the fields of a process.
LEMMA ProcessFields ==
  ASSUME NEW pr \in ProcessType
  PROVE  /\ pr.phase \in ProcessPhases /\ pr.betting_phase \in Phases
         /\ pr.deal \in DealType
         /\ pr.stack \in [Seats -> Int] /\ pr.bet_this_round \in [Seats -> Int]
         /\ pr.has_acted \subseteq Seats /\ pr.has_folded \subseteq Seats
         /\ pr.is_all_in \subseteq Seats /\ pr.action_on \in Seats \cup {-1}
         /\ pr.current_bet \in Int /\ pr.pot_total \in Int
         /\ pr.posted \subseteq {"small", "big"}
         /\ pr # Unstarted
  BY HandsAssumption DEF ProcessType

LEMMA DealFields ==
  ASSUME NEW d \in DealType
  PROVE  /\ d.players \subseteq Seats /\ d.stack \in [Seats -> Nat]
         /\ d.root \in [Seats -> Players]
         /\ \A p, q \in d.players : d.root[p] = d.root[q] => p = q
         /\ d.draw \in BOOLEAN /\ d.dealer \in Seats
         /\ d.small \in Seats /\ d.big \in Seats
         /\ d.small_blind \in Nat /\ d.big_blind \in Nat
         /\ d.small_blind > 0 /\ d.big_blind > 0
         /\ d.small \in d.players /\ d.big \in d.players
  BY DEF DealType

\* The turn goes to one who can act, or to nobody if nobody can.
LEMMA TurnType ==
  ASSUME NEW pr \in ProcessType, NEW after \in Int
  PROVE  /\ find_next_active(pr, after) \in Seats \cup {-1}
         /\ ToAct(pr) # {} => find_next_active(pr, after) \in ToAct(pr)
<1>1. ToAct(pr) \subseteq Seats /\ Seats \subseteq Nat
  BY ProcessFields, DealFields, NumSeatsAssumption DEF ToAct, Seats
<1>2. ASSUME NEW S \in SUBSET ToAct(pr), S # {} PROVE LeastOf(S) \in S
  <2>1. \E p \in S : \A q \in S : p <= q
    BY <1>1, <1>2, LeastElement
  <2> QED BY <2>1 DEF LeastOf
<1> DEFINE later == {p \in ToAct(pr) : p > after}
<1>3. later \in SUBSET ToAct(pr)
  OBVIOUS
<1>4. find_next_active(pr, after)
        = IF later # {} THEN LeastOf(later)
          ELSE IF ToAct(pr) # {} THEN LeastOf(ToAct(pr)) ELSE -1
  BY DEF find_next_active
<1> HIDE DEF later
<1> QED BY <1>1, <1>2, <1>3, <1>4

\* A betting round starts with the process otherwise as it was.
LEMMA StartBetting ==
  ASSUME NEW pr \in ProcessType
  PROVE  /\ start_betting(pr) \in ProcessType
         /\ start_betting(pr).phase = "BETTING"
         /\ start_betting(pr).betting_phase = pr.betting_phase
         /\ start_betting(pr).deal = pr.deal
         /\ start_betting(pr).stack = pr.stack
         /\ start_betting(pr).pot_total = pr.pot_total
         /\ start_betting(pr).has_folded = pr.has_folded
         /\ start_betting(pr).is_all_in = pr.is_all_in
         /\ ToAct(pr) # {} => start_betting(pr).action_on \in ToAct(pr)
<1> DEFINE turn == find_next_active(pr, IF pr.betting_phase = "PREFLOP"
                                        THEN pr.deal.big ELSE pr.deal.dealer)
           q == start_betting(pr)
<1>1. /\ pr.deal \in DealType /\ pr.deal.big \in Int /\ pr.deal.dealer \in Int
  BY ProcessFields, DealFields, NumSeatsAssumption DEF Seats
<1>2. turn \in Seats \cup {-1} /\ (ToAct(pr) # {} => turn \in ToAct(pr))
  BY <1>1, TurnType
<1>3. q = [pr EXCEPT !.phase = "BETTING", !.bet_this_round = NoChips,
                     !.has_acted = {}, !.current_bet = 0, !.action_on = turn]
  BY DEF start_betting
<1> HIDE DEF turn, q
<1>4. q = [phase |-> "BETTING", betting_phase |-> pr.betting_phase,
           deal |-> pr.deal, stack |-> pr.stack, bet_this_round |-> NoChips,
           has_acted |-> {}, has_folded |-> pr.has_folded,
           is_all_in |-> pr.is_all_in, action_on |-> turn,
           current_bet |-> 0, pot_total |-> pr.pot_total, posted |-> pr.posted]
  BY <1>3 DEF ProcessType
<1>5. /\ NoChips \in [Seats -> Int] /\ "BETTING" \in ProcessPhases
      /\ {} \in SUBSET Seats /\ 0 \in Int
      /\ pr.has_folded \in SUBSET Seats /\ pr.is_all_in \in SUBSET Seats
      /\ pr.posted \in SUBSET {"small", "big"}
  BY ProcessFields DEF NoChips, ProcessPhases
<1>6. q \in ProcessType
  BY <1>2, <1>4, <1>5, ProcessFields DEF ProcessType
<1> QED BY <1>2, <1>4, <1>6 DEF q

\* A process asks for one blind or for none.
LEMMA PostNextBlind ==
  ASSUME NEW h \in Hands, NEW pr \in ProcessType
  PROVE  \/ post_next_blind(h, pr) = {}
         \/ \E c \in Commands : /\ post_next_blind(h, pr) = {c}
                                /\ c.type = "PostBlind"
<1>1. ASSUME NEW p \in Seats, NEW blind_type \in {"small", "big"}, NEW amount \in Nat
      PROVE  /\ PostBlindCommand(h, p, blind_type, amount) \in Commands
             /\ PostBlindCommand(h, p, blind_type, amount).type = "PostBlind"
  BY DEF PostBlindCommand, Commands
<1>2. /\ pr.deal.small \in Seats /\ pr.deal.big \in Seats
      /\ pr.deal.small_blind \in Nat /\ pr.deal.big_blind \in Nat
  BY ProcessFields, DealFields
<1> QED BY <1>1, <1>2 DEF post_next_blind

\* An award names everybody who has not folded.
LEMMA AwardCommand ==
  ASSUME NEW h \in Hands, NEW pr \in ProcessType,
         NEW c \in build_award_pot_cmd(h, pr)
  PROVE  /\ c \in Commands /\ c.type = "AwardPot" /\ c.hand = h
         /\ c.winners = pr.deal.players \ pr.has_folded
<1> DEFINE n == Larger(1, Cardinality(InHand(pr)))
           split == Quotient(pr.pot_total, n)
           shares(S) == [p \in Seats |-> IF p \in InHand(pr)
                          THEN split + (IF p \in S THEN 1 ELSE 0) ELSE 0]
<1>1. InHand(pr) \in SUBSET Seats
  BY ProcessFields, DealFields DEF InHand
<1>2. Cardinality(InHand(pr)) \in Nat
  <2>1. IsFiniteSet(Seats)
    BY NumSeatsAssumption, FS_Interval DEF Seats
  <2> QED BY <1>1, <2>1, FS_Subset, FS_CardinalityType
<1>3. n \in Nat /\ n >= 1
  BY <1>2 DEF Larger
<1>4. split \in Int
  <2> HIDE DEF n
  <2> QED BY <1>3, ProcessFields DEF Quotient
<1>5. PICK S \in SUBSET InHand(pr) :
        c = [type |-> "AwardPot", hand |-> h, winners |-> InHand(pr),
             awards |-> shares(S)]
  BY DEF build_award_pot_cmd
<1> HIDE DEF split
<1>6. shares(S) \in [Seats -> Int]
  BY <1>4
<1> HIDE DEF shares
<1> QED BY <1>1, <1>5, <1>6 DEF Commands, InHand

\* The position whose player event e reports as having done action.
Did(e, action) ==
  IF e.type = "ActionTaken" THEN {p \in {e.player} : e.action = action} ELSE {}

\* The position at which process pr takes this from event e, of a hand whose
\* positions the players of these roots have.
Told(pr, roots, e, action) ==
  {p \in pr.deal.players : \E q \in Did(e, action) : pr.deal.root[p] = roots[q]}

\* What a handler may make of process pr with such an event e, of the hand of
\* pr or of another.
Advances(pr, q, own, roots, e) ==
  /\ q \in ProcessType
  /\ q.deal = pr.deal
  /\ q.has_folded \subseteq pr.has_folded \cup Told(pr, roots, e, "FOLD")
  /\ q.is_all_in \subseteq pr.is_all_in \cup Told(pr, roots, e, "ALL_IN")
  /\ \/ q.phase \in {pr.phase, "COMPLETE"}
     \/ pr.phase \notin {"DEALING", "COMPLETE", "SHOWDOWN"}
     \/ own /\ e.type = "CardsDealt"

\* What a handler may return as commands: an award only for a process that
\* was in its betting and no longer is, to all who have not folded.
Commanded(ps, o) ==
  \/ o.commands = {}
  \/ \E c \in Commands :
       /\ o.commands = {c}
       /\ c.type = "AwardPot" =>
            /\ ps[c.hand] # Unstarted /\ ps[c.hand].phase = "BETTING"
            /\ o.processes[c.hand].phase \in {"COMPLETE", "SHOWDOWN"}
            /\ c.winners = ps[c.hand].deal.players \ o.processes[c.hand].has_folded

\* A sound outcome of handling event e of hand from, whose players have these
\* roots.
SoundOutcome(ps, from, roots, e, o) ==
  /\ o.processes \in Processes
  /\ \A h \in Hands : IF ps[h] = Unstarted THEN o.processes[h] = Unstarted
                      ELSE Advances(ps[h], o.processes[h], h = from, roots, e)
  /\ Commanded(ps, o)

\* It is enough that the one process that changes advances.
LEMMA OneAdvances ==
  ASSUME NEW ps \in Processes, NEW from, NEW roots, NEW e, NEW o,
         NEW k \in Hands, NEW q,
         ps[k] # Unstarted, Advances(ps[k], q, k = from, roots, e),
         o.processes = [ps EXCEPT ![k] = q], Commanded(ps, o)
  PROVE  SoundOutcome(ps, from, roots, e, o)
<1>1. q \in ProcessType
  BY DEF Advances
<1>2. o.processes \in Processes
  BY <1>1 DEF Processes
<1>3. \A h \in Hands : h # k => o.processes[h] = ps[h]
  BY DEF Processes
<1>4. o.processes[k] = q
  BY DEF Processes
<1>5. ASSUME NEW h \in Hands, ps[h] # Unstarted
      PROVE  Advances(ps[h], ps[h], h = from, roots, e)
  BY <1>5 DEF Advances, Processes
<1> QED BY <1>2, <1>3, <1>4, <1>5 DEF SoundOutcome

LEMMA IgnoredSound ==
  ASSUME NEW ps \in Processes, NEW from, NEW roots, NEW e, NEW o \in Ignored(ps)
  PROVE  SoundOutcome(ps, from, roots, e, o)
<1>1. o.processes = ps /\ o.commands = {}
  BY DEF Ignored, Outcome
<1>2. ASSUME NEW h \in Hands, ps[h] # Unstarted
      PROVE  Advances(ps[h], ps[h], h = from, roots, e)
  BY <1>2 DEF Advances, Processes
<1> QED BY <1>1, <1>2 DEF SoundOutcome, Commanded

LEMMA CardsDealtSound ==
  ASSUME NEW ps \in Processes, NEW h \in Hands, NEW roots, NEW e,
         e.type = "CardsDealt", NEW o \in handle_cards_dealt(ps, h)
  PROVE  SoundOutcome(ps, h, roots, e, o)
<1>1. CASE o \in Ignored(ps)
  BY <1>1, IgnoredSound
<1>2. CASE ps[h] # Unstarted /\ o = Outcome([ps EXCEPT ![h].phase = "POSTING_BLINDS"],
                                            post_next_blind(h, ps[h]))
  <2> DEFINE pr == ps[h]
             q == [pr EXCEPT !.phase = "POSTING_BLINDS"]
  <2>1. pr \in ProcessType
    BY <1>2 DEF Processes
  <2>2. /\ o.processes = [ps EXCEPT ![h] = q]
        /\ o.commands = post_next_blind(h, pr)
    BY <1>2 DEF Outcome
  <2> HIDE DEF pr
  <2>3. /\ q \in ProcessType /\ q.deal = pr.deal
        /\ q.has_folded = pr.has_folded /\ q.is_all_in = pr.is_all_in
    BY <2>1 DEF ProcessType, ProcessPhases
  <2> HIDE DEF q
  <2>4. Advances(pr, q, TRUE, roots, e)
    BY <2>3 DEF Advances
  <2>5. Commanded(ps, o)
    BY <2>1, <2>2, PostNextBlind DEF Commanded
  <2> QED BY <1>2, <2>2, <2>4, <2>5, OneAdvances DEF pr
<1> QED BY <1>1, <1>2 DEF handle_cards_dealt

\* What a process reads is the event itself, about one who plays in its hand
\* and has the root that was looked for.
LEMMA ReadEvent ==
  ASSUME NEW pr \in ProcessType, NEW root, Finds(pr, root), NEW e \in HandEvents,
         e.type \in {"BlindPosted", "ActionTaken"}
  PROVE  /\ Read(pr, root, e) \in HandEvents
         /\ Read(pr, root, e).type = e.type
         /\ Read(pr, root, e).player \in pr.deal.players
         /\ pr.deal.root[Read(pr, root, e).player] = root
         /\ e.type = "ActionTaken" => Read(pr, root, e).action = e.action
<1> DEFINE q == CHOOSE p \in pr.deal.players : pr.deal.root[p] = root
           d == [e EXCEPT !.player = q]
<1>1. q \in pr.deal.players /\ pr.deal.root[q] = root
  BY DEF Finds
<1>2. q \in Seats
  BY <1>1, ProcessFields, DealFields
<1>3. d = Read(pr, root, e)
  BY DEF Read
<1> HIDE DEF q
<1>4. CASE e.type = "BlindPosted"
  <2>1. d \in [type : {"BlindPosted"}, player : Seats, blind_type : {"small", "big"},
               amount : Int, player_stack : Int, pot_total : Int]
        /\ d.player = q /\ d.type = e.type
    BY <1>2, <1>4 DEF HandEvents
  <2> HIDE DEF d
  <2> QED BY <1>1, <1>3, <1>4, <2>1 DEF HandEvents
<1>5. CASE e.type = "ActionTaken"
  <2>1. d \in [type : {"ActionTaken"}, player : Seats, action : Actions,
               amount : Int, player_stack : Int, pot_total : Int]
        /\ d.player = q /\ d.type = e.type /\ d.action = e.action
    BY <1>2, <1>5 DEF HandEvents
  <2> HIDE DEF d
  <2> QED BY <1>1, <1>3, <1>5, <2>1 DEF HandEvents
<1> QED BY <1>4, <1>5

\* An event of its own hand is read as it is.
LEMMA ReadsOwn ==
  ASSUME NEW pr \in ProcessType, NEW e \in HandEvents,
         e.type \in {"BlindPosted", "ActionTaken"}, e.player \in pr.deal.players
  PROVE  /\ Finds(pr, pr.deal.root[e.player])
         /\ Read(pr, pr.deal.root[e.player], e) = e
<1> DEFINE q == CHOOSE p \in pr.deal.players : pr.deal.root[p] = pr.deal.root[e.player]
<1>1. q = e.player
  BY ProcessFields, DealFields
<1>2. Read(pr, pr.deal.root[e.player], e) = [e EXCEPT !.player = q]
  BY DEF Read
<1> HIDE DEF q
<1>3. [e EXCEPT !.player = e.player] = e
  BY DEF HandEvents
<1> QED BY <1>1, <1>2, <1>3 DEF Finds

\* A blind moves chips, and nobody in or out.
LEMMA BlindSeenType ==
  ASSUME NEW pr \in ProcessType, NEW found \in BOOLEAN,
         NEW e \in HandEvents, e.type = "BlindPosted"
  PROVE  /\ BlindSeen(pr, found, e) \in ProcessType
         /\ BlindSeen(pr, found, e).deal = pr.deal
         /\ BlindSeen(pr, found, e).has_folded = pr.has_folded
         /\ BlindSeen(pr, found, e).is_all_in = pr.is_all_in
         /\ BlindSeen(pr, found, e).phase = pr.phase
         /\ BlindSeen(pr, found, e).betting_phase = pr.betting_phase
         /\ BlindSeen(pr, found, e).pot_total = e.pot_total
         /\ found => BlindSeen(pr, found, e).stack
                       = [pr.stack EXCEPT ![e.player] = e.player_stack]
<1>1. /\ e.player \in Seats /\ e.blind_type \in {"small", "big"}
      /\ e.amount \in Int /\ e.player_stack \in Int /\ e.pot_total \in Int
  BY DEF HandEvents
<1> DEFINE stack == IF found THEN [pr.stack EXCEPT ![e.player] = e.player_stack]
                    ELSE pr.stack
           bets == IF found THEN [pr.bet_this_round EXCEPT ![e.player] = e.amount]
                   ELSE pr.bet_this_round
           posted == pr.posted \cup {e.blind_type}
           q == BlindSeen(pr, found, e)
<1>2. q = [pr EXCEPT !.stack = stack, !.bet_this_round = bets,
                     !.pot_total = e.pot_total, !.current_bet = e.amount,
                     !.posted = posted]
  BY DEF BlindSeen
<1>3. /\ stack \in [Seats -> Int] /\ bets \in [Seats -> Int]
      /\ posted \in SUBSET {"small", "big"}
  BY <1>1, ProcessFields
<1> HIDE DEF stack, bets, posted, q
<1>4. q = [phase |-> pr.phase, betting_phase |-> pr.betting_phase,
           deal |-> pr.deal, stack |-> stack, bet_this_round |-> bets,
           has_acted |-> pr.has_acted, has_folded |-> pr.has_folded,
           is_all_in |-> pr.is_all_in, action_on |-> pr.action_on,
           current_bet |-> e.amount, pot_total |-> e.pot_total, posted |-> posted]
  BY <1>2 DEF ProcessType
<1>5. /\ pr.has_acted \in SUBSET Seats /\ pr.has_folded \in SUBSET Seats
      /\ pr.is_all_in \in SUBSET Seats
  BY ProcessFields
<1>6. q \in ProcessType
  BY <1>1, <1>3, <1>4, <1>5, ProcessFields DEF ProcessType
<1> QED BY <1>4, <1>6 DEF q, stack

LEMMA BlindPostedSound ==
  ASSUME NEW ps \in Processes, NEW from, NEW roots, NEW e \in HandEvents,
         e.type = "BlindPosted", NEW o \in handle_blind_posted(ps, roots[e.player], e)
  PROVE  SoundOutcome(ps, from, roots, e, o)
<1> DEFINE root == roots[e.player]
<1>1. CASE o \in Ignored(ps)
  BY <1>1, IgnoredSound
<1>2. ASSUME NEW k \in InPhase(ps, "POSTING_BLINDS"), NEW q, Advances(ps[k], q, k = from, roots, e),
             o.processes = [ps EXCEPT ![k] = q], Commanded(ps, o)
      PROVE  SoundOutcome(ps, from, roots, e, o)
  BY <1>2, OneAdvances DEF InPhase
<1>3. ASSUME NEW k \in InPhase(ps, "POSTING_BLINDS"),
             NEW pr, pr = IF Finds(ps[k], root) THEN BlindSeen(ps[k], TRUE, Read(ps[k], root, e))
                          ELSE BlindSeen(ps[k], FALSE, e),
             o = IF e.blind_type = "small"
                 THEN Outcome([ps EXCEPT ![k] = pr], post_next_blind(k, pr))
                 ELSE Outcome([ps EXCEPT ![k] = start_betting(pr)], {})
      PROVE  SoundOutcome(ps, from, roots, e, o)
  <2>1. ps[k] \in ProcessType /\ k \in Hands /\ ps[k].phase = "POSTING_BLINDS"
    BY DEF Processes, InPhase
  <2>2. Finds(ps[k], root) => /\ Read(ps[k], root, e) \in HandEvents
                              /\ Read(ps[k], root, e).type = "BlindPosted"
    BY <2>1, ReadEvent
  <2>3. \/ o = Outcome([ps EXCEPT ![k] = pr], post_next_blind(k, pr))
        \/ o = Outcome([ps EXCEPT ![k] = start_betting(pr)], {})
    BY <1>3
  <2>4. /\ pr \in ProcessType /\ pr.deal = ps[k].deal
        /\ pr.has_folded = ps[k].has_folded /\ pr.is_all_in = ps[k].is_all_in
        /\ pr.phase = ps[k].phase
    BY <1>3, <2>1, <2>2, BlindSeenType
  <2>5. Advances(ps[k], pr, k = from, roots, e)
    BY <2>4 DEF Advances
  <2>6. Advances(ps[k], start_betting(pr), k = from, roots, e)
    BY <2>1, <2>4, StartBetting DEF Advances
  <2>7. CASE o = Outcome([ps EXCEPT ![k] = pr], post_next_blind(k, pr))
    <3>1. Commanded(ps, o)
      BY <2>1, <2>4, <2>7, PostNextBlind DEF Commanded, Outcome
    <3> QED BY <1>2, <2>5, <2>7, <3>1 DEF Outcome
  <2>8. CASE o = Outcome([ps EXCEPT ![k] = start_betting(pr)], {})
    BY <1>2, <2>6, <2>8 DEF Outcome, Commanded
  <2> QED BY <2>3, <2>7, <2>8
<1> QED BY <1>1, <1>3 DEF handle_blind_posted

\* An action takes out its player, if it is a fold or an all-in, and no other.
LEMMA ActionSeenType ==
  ASSUME NEW pr \in ProcessType, NEW e \in HandEvents, e.type = "ActionTaken"
  PROVE  /\ ActionSeen(pr, e) \in ProcessType
         /\ ActionSeen(pr, e).deal = pr.deal
         /\ ActionSeen(pr, e).has_folded = pr.has_folded \cup Did(e, "FOLD")
         /\ ActionSeen(pr, e).is_all_in = pr.is_all_in \cup Did(e, "ALL_IN")
         /\ ActionSeen(pr, e).phase = pr.phase
         /\ ActionSeen(pr, e).betting_phase = pr.betting_phase
         /\ ActionSeen(pr, e).stack = [pr.stack EXCEPT ![e.player] = e.player_stack]
<1>1. /\ e.player \in Seats /\ e.amount \in Int /\ e.player_stack \in Int
  BY DEF HandEvents
<1> DEFINE bet == pr.bet_this_round[e.player]
                    + IF e.action \in {"ALL_IN", "CALL", "BET", "RAISE"} THEN e.amount ELSE 0
           raised == e.action \in {"BET", "RAISE", "ALL_IN"} /\ bet > pr.current_bet
           folded == pr.has_folded \cup (IF e.action = "FOLD" THEN {e.player} ELSE {})
           all_in == pr.is_all_in \cup (IF e.action = "ALL_IN" THEN {e.player} ELSE {})
           top == IF raised THEN bet ELSE pr.current_bet
           acted == {e.player} \cup (IF raised THEN pr.has_acted \cap (folded \cup all_in)
                                               ELSE pr.has_acted)
           stack == [pr.stack EXCEPT ![e.player] = e.player_stack]
           bets == [pr.bet_this_round EXCEPT ![e.player] = bet]
           q == ActionSeen(pr, e)
<1>2. q = [pr EXCEPT !.stack[e.player] = e.player_stack,
                     !.bet_this_round[e.player] = bet,
                     !.has_folded = folded, !.is_all_in = all_in,
                     !.current_bet = top, !.has_acted = acted]
  BY DEF ActionSeen
<1>3. /\ folded = pr.has_folded \cup Did(e, "FOLD")
      /\ all_in = pr.is_all_in \cup Did(e, "ALL_IN")
  BY DEF Did
<1>4. bet \in Int /\ pr.current_bet \in Int
  BY <1>1, ProcessFields
<1>5. folded \in SUBSET Seats /\ all_in \in SUBSET Seats /\ acted \in SUBSET Seats
  BY <1>1, ProcessFields
<1> HIDE DEF bet, folded, all_in, acted, q
<1>6. top \in Int
  BY <1>4
<1>7. stack \in [Seats -> Int] /\ bets \in [Seats -> Int]
  BY <1>1, <1>4, ProcessFields
<1> HIDE DEF top
<1>8. q = [phase |-> pr.phase, betting_phase |-> pr.betting_phase,
           deal |-> pr.deal, stack |-> stack, bet_this_round |-> bets,
           has_acted |-> acted, has_folded |-> folded, is_all_in |-> all_in,
           action_on |-> pr.action_on, current_bet |-> top,
           pot_total |-> pr.pot_total, posted |-> pr.posted]
  BY <1>2 DEF ProcessType
<1> HIDE DEF stack, bets
<1>9. pr.posted \in SUBSET {"small", "big"}
  BY ProcessFields
<1>10. q \in ProcessType
  BY <1>5, <1>6, <1>7, <1>8, <1>9, ProcessFields DEF ProcessType
<1> QED BY <1>3, <1>8, <1>10 DEF q, stack

\* The end of a betting round: an award, community cards, or nothing.
LEMMA EndBettingRound ==
  ASSUME NEW ps \in Processes, NEW h \in Hands, NEW pr \in ProcessType,
         NEW o \in end_betting_round(ps, h, pr)
  PROVE  \E phase \in ProcessPhases :
           /\ o.processes = [ps EXCEPT ![h] = [pr EXCEPT !.phase = phase]]
           /\ \/ o.commands = {}
              \/ \E c \in Commands : o.commands = {c} /\ c.type = "DealCommunityCards"
              \/ \E c \in build_award_pot_cmd(h, pr) :
                   o.commands = {c} /\ phase \in {"COMPLETE", "SHOWDOWN"}
<1> DEFINE becomes(phase, cs) ==
             Outcome([ps EXCEPT ![h] = [pr EXCEPT !.phase = phase]], cs)
           awarded(phase) == {becomes(phase, {c}) : c \in build_award_pot_cmd(h, pr)}
           one_left  == Cardinality(InHand(pr)) = 1
           community == ~ one_left /\ ~ pr.deal.draw
           deals == DealCommunityCommand(h, community_cards[pr.betting_phase])
           Goal == \E phase \in ProcessPhases :
             /\ o.processes = [ps EXCEPT ![h] = [pr EXCEPT !.phase = phase]]
             /\ \/ o.commands = {}
                \/ \E c \in Commands : o.commands = {c} /\ c.type = "DealCommunityCards"
                \/ \E c \in build_award_pot_cmd(h, pr) :
                     o.commands = {c} /\ phase \in {"COMPLETE", "SHOWDOWN"}
<1>1. \/ o \in awarded("COMPLETE")
      \/ o \in awarded("SHOWDOWN")
      \/ /\ pr.betting_phase \in DOMAIN community_cards
         /\ o = becomes("DEALING_COMMUNITY", {deals})
      \/ o = becomes(pr.phase, {})
  BY DEF end_betting_round
<1>2. /\ {"COMPLETE", "SHOWDOWN", "DEALING_COMMUNITY"} \subseteq ProcessPhases
      /\ pr.phase \in ProcessPhases
  BY ProcessFields DEF ProcessPhases
<1>3. ASSUME NEW phase \in {"COMPLETE", "SHOWDOWN"}, o \in awarded(phase) PROVE Goal
  <2>1. PICK c \in build_award_pot_cmd(h, pr) : o = becomes(phase, {c})
    BY <1>3
  <2>2. /\ o.processes = [ps EXCEPT ![h] = [pr EXCEPT !.phase = phase]]
        /\ o.commands = {c}
    BY <2>1 DEF Outcome
  <2> QED BY <1>2, <2>2
<1>4. CASE /\ pr.betting_phase \in DOMAIN community_cards
           /\ o = becomes("DEALING_COMMUNITY", {deals})
  <2>1. deals \in Commands /\ deals.type = "DealCommunityCards"
    BY <1>4 DEF DealCommunityCommand, Commands, community_cards
  <2>2. /\ o.processes = [ps EXCEPT ![h] = [pr EXCEPT !.phase = "DEALING_COMMUNITY"]]
        /\ o.commands = {deals}
    BY <1>4 DEF Outcome
  <2> QED BY <1>2, <2>1, <2>2
<1>5. CASE o = becomes(pr.phase, {})
  BY <1>2, <1>5 DEF Outcome
<1> QED BY <1>1, <1>3, <1>4, <1>5

LEMMA ActionTakenSound ==
  ASSUME NEW ps \in Processes, NEW from, NEW roots, NEW e \in HandEvents,
         e.type = "ActionTaken", NEW o \in handle_action_taken(ps, roots[e.player], e)
  PROVE  SoundOutcome(ps, from, roots, e, o)
<1> DEFINE root == roots[e.player]
           seen(h) == [IF Finds(ps[h], root) THEN ActionSeen(ps[h], Read(ps[h], root, e))
                       ELSE ps[h] EXCEPT !.pot_total = e.pot_total]
           next(h) == [seen(h) EXCEPT !.action_on =
                                        find_next_active(seen(h), seen(h).action_on)]
<1>1. CASE o \in Ignored(ps)
  BY <1>1, IgnoredSound
<1>2. ASSUME NEW k \in InPhase(ps, "BETTING"),
             \/ o \in end_betting_round(ps, k, seen(k))
             \/ o = Outcome([ps EXCEPT ![k] = next(k)], {})
      PROVE  SoundOutcome(ps, from, roots, e, o)
  <2> DEFINE old == ps[k]
             d == Read(old, root, e)
             pr == IF Finds(old, root) THEN ActionSeen(old, d) ELSE old
             s == [pr EXCEPT !.pot_total = e.pot_total]
  <2>1. old \in ProcessType /\ k \in Hands /\ old.phase = "BETTING" /\ old # Unstarted
    BY DEF Processes, InPhase
  <2>2. /\ pr \in ProcessType /\ pr.deal = old.deal /\ pr.phase = old.phase
        /\ pr.has_folded \subseteq old.has_folded \cup Told(old, roots, e, "FOLD")
        /\ pr.is_all_in \subseteq old.is_all_in \cup Told(old, roots, e, "ALL_IN")
    <3>1. CASE Finds(old, root)
      <4>1. pr = ActionSeen(old, d)
        BY <3>1
      <4>2. /\ d \in HandEvents /\ d.type = "ActionTaken" /\ d.action = e.action
            /\ d.player \in old.deal.players /\ old.deal.root[d.player] = root
        BY <2>1, <3>1, ReadEvent
      <4> HIDE DEF pr, old, d
      <4>3. /\ pr \in ProcessType /\ pr.deal = old.deal /\ pr.phase = old.phase
            /\ pr.has_folded = old.has_folded \cup Did(d, "FOLD")
            /\ pr.is_all_in = old.is_all_in \cup Did(d, "ALL_IN")
        BY <2>1, <4>1, <4>2, ActionSeenType
      <4>4. ASSUME NEW action PROVE Did(d, action) \subseteq Told(old, roots, e, action)
        BY <4>2 DEF Did, Told
      <4> QED BY <4>3, <4>4
    <3>2. CASE ~ Finds(old, root)
      BY <2>1, <3>2
    <3> QED BY <3>1, <3>2
  <2>3. e.pot_total \in Int
    BY DEF HandEvents
  <2>4. s = seen(k)
    OBVIOUS
  <2> HIDE DEF pr
  <2>5. /\ s \in ProcessType /\ s.deal = pr.deal /\ s.phase = pr.phase
        /\ s.has_folded = pr.has_folded /\ s.is_all_in = pr.is_all_in
    BY <2>2, <2>3 DEF ProcessType
  <2> HIDE DEF s, old, seen
  <2>6. ASSUME o \in end_betting_round(ps, k, s)
        PROVE  SoundOutcome(ps, from, roots, e, o)
    <3>1. PICK phase \in ProcessPhases :
            /\ o.processes = [ps EXCEPT ![k] = [s EXCEPT !.phase = phase]]
            /\ \/ o.commands = {}
               \/ \E c \in Commands : o.commands = {c} /\ c.type = "DealCommunityCards"
               \/ \E c \in build_award_pot_cmd(k, s) :
                    o.commands = {c} /\ phase \in {"COMPLETE", "SHOWDOWN"}
      BY <2>1, <2>5, <2>6, EndBettingRound
    <3> DEFINE q == [s EXCEPT !.phase = phase]
    <3>2. /\ q \in ProcessType /\ q.deal = s.deal /\ q.phase = phase
          /\ q.has_folded = s.has_folded /\ q.is_all_in = s.is_all_in
      BY <2>5 DEF ProcessType
    <3>3. o.processes = [ps EXCEPT ![k] = q]
      BY <3>1
    <3> HIDE DEF q
    <3>4. Advances(old, q, k = from, roots, e)
      BY <2>1, <2>2, <2>5, <3>2 DEF Advances
    <3>5. o.processes[k] = q
      BY <2>1, <3>3 DEF Processes
    <3>6. ASSUME NEW c \in build_award_pot_cmd(k, s), o.commands = {c},
                 phase \in {"COMPLETE", "SHOWDOWN"}
          PROVE  Commanded(ps, o)
      <4>1. /\ c \in Commands /\ c.hand = k
            /\ c.winners = s.deal.players \ s.has_folded
        BY <2>1, <2>5, AwardCommand
      <4>2. /\ s.deal = old.deal /\ q.has_folded = s.has_folded /\ q.phase = phase
        BY <2>2, <2>5, <3>2
      <4> QED BY <2>1, <3>5, <3>6, <4>1, <4>2 DEF Commanded, old
    <3>7. Commanded(ps, o)
      BY <3>1, <3>6 DEF Commanded
    <3> QED BY <2>1, <3>3, <3>4, <3>7, OneAdvances DEF old
  <2>7. ASSUME o = Outcome([ps EXCEPT ![k] = next(k)], {})
        PROVE  SoundOutcome(ps, from, roots, e, o)
    <3> DEFINE turn == find_next_active(s, s.action_on)
               q == [s EXCEPT !.action_on = turn]
    <3>1. turn \in Seats \cup {-1}
      <4>1. s.action_on \in Int
        BY <2>5, ProcessFields, NumSeatsAssumption DEF Seats
      <4> QED BY <2>5, <4>1, TurnType
    <3>2. o.processes = [ps EXCEPT ![k] = q] /\ o.commands = {}
      BY <2>4, <2>7 DEF Outcome
    <3> HIDE DEF turn
    <3>3. /\ q \in ProcessType /\ q.deal = s.deal /\ q.phase = s.phase
          /\ q.has_folded = s.has_folded /\ q.is_all_in = s.is_all_in
      BY <2>5, <3>1 DEF ProcessType
    <3> HIDE DEF q
    <3>4. Advances(old, q, k = from, roots, e)
      BY <2>1, <2>2, <2>5, <3>3 DEF Advances
    <3> QED BY <2>1, <3>2, <3>4, OneAdvances DEF old, Commanded
  <2> QED BY <1>2, <2>4, <2>6, <2>7
<1> HIDE DEF seen, next
<1>3. \/ o \in Ignored(ps)
      \/ \E k \in InPhase(ps, "BETTING") :
           \/ o \in end_betting_round(ps, k, seen(k))
           \/ o = Outcome([ps EXCEPT ![k] = next(k)], {})
  BY DEF handle_action_taken, seen, next
<1> QED BY <1>1, <1>2, <1>3

LEMMA PotAwardedSound ==
  ASSUME NEW ps \in Processes, NEW from, NEW roots, NEW e, NEW o \in handle_pot_awarded(ps)
  PROVE  SoundOutcome(ps, from, roots, e, o)
<1>1. /\ o.processes = [h \in Hands |-> IF ps[h] = Unstarted THEN Unstarted
                                        ELSE [ps[h] EXCEPT !.phase = "COMPLETE"]]
      /\ o.commands = {}
  BY DEF handle_pot_awarded, Outcome
<1>2. ASSUME NEW h \in Hands, ps[h] # Unstarted
      PROVE  Advances(ps[h], o.processes[h], h = from, roots, e)
  <2> DEFINE pr == ps[h]
             q == [pr EXCEPT !.phase = "COMPLETE"]
  <2>1. pr \in ProcessType
    BY <1>2 DEF Processes
  <2>2. o.processes[h] = q
    BY <1>1, <1>2
  <2> HIDE DEF pr
  <2>3. /\ q \in ProcessType /\ q.deal = pr.deal /\ q.phase = "COMPLETE"
        /\ q.has_folded = pr.has_folded /\ q.is_all_in = pr.is_all_in
    BY <2>1 DEF ProcessType, ProcessPhases
  <2> HIDE DEF q
  <2> QED BY <2>2, <2>3 DEF Advances, pr
<1>3. o.processes \in Processes
  <2>1. \A h \in Hands : ps[h] # Unstarted => o.processes[h] \in ProcessType
    BY <1>2 DEF Advances
  <2> QED BY <1>1, <2>1 DEF Processes
<1> QED BY <1>1, <1>2, <1>3 DEF SoundOutcome, Commanded

\* Whatever the process manager makes of an event is sound.
LEMMA HandleSound ==
  ASSUME NEW ps \in Processes, NEW h \in Hands, NEW roots, NEW e \in HandEvents,
         NEW o \in Handle(ps, h, roots, e)
  PROVE  SoundOutcome(ps, h, roots, e, o)
<1>1. e.type \in {"CardsDealt", "BlindPosted", "ActionTaken",
                  "CommunityCardsDealt", "PotAwarded"}
  BY DEF HandEvents
<1>2. CASE e.type = "CommunityCardsDealt"
  <2>1. o \in Ignored(ps)
    BY <1>2 DEF Handle, Branch
  <2> QED BY <2>1, IgnoredSound
<1>3. CASE e.type = "CardsDealt"
  BY <1>3, CardsDealtSound DEF Handle, Branch
<1>4. CASE e.type = "BlindPosted"
  BY <1>4, BlindPostedSound DEF Handle, Branch
<1>5. CASE e.type = "ActionTaken"
  BY <1>5, ActionTakenSound DEF Handle, Branch
<1>6. CASE e.type = "PotAwarded"
  BY <1>6, PotAwardedSound DEF Handle, Branch
<1> QED BY <1>1, <1>2, <1>3, <1>4, <1>5, <1>6

-----------------------------------------------------------------------------
(***************************************************************************)
(* The inductive invariant.                                                *)
(***************************************************************************)
\* The aggregate is sound, and has the players of HandStarted once dealt.
HandSound(h) ==
  IF Dealt(h)
  THEN Sound(hand[h], Brought(h)) /\ hand[h].players = started[h].players
  ELSE hand[h] = NewHand

\* The process was made from HandStarted, and counts nobody out who is in
\* wherever he plays.
ProcessSound(h) ==
  Started(h) =>
    /\ processes[h].deal = started[h]
    /\ processes[h].has_folded \subseteq hand[h].folded \cup FoldedElsewhere(h)
    /\ processes[h].is_all_in \subseteq hand[h].all_in \cup AllInElsewhere(h)

\* What the hand s has of the fold or the all-in that event e reports.
Reported(s, e) ==
  /\ Did(e, "FOLD") \subseteq s.folded
  /\ Did(e, "ALL_IN") \subseteq s.all_in

\* An action is of one who plays.
OfAPlayer(h, e) == e.type = "ActionTaken" => e.player \in started[h].players

\* Pending events say what the aggregate already has, and CardsDealt is the
\* first of all.
PendingSound(h) ==
  /\ ~ Dealt(h) => pending[h] = <<>>
  /\ \A i \in 1 .. Len(pending[h]) :
       /\ Reported(hand[h], pending[h][i]) /\ OfAPlayer(h, pending[h][i])
       /\ pending[h][i].type = "CardsDealt" => i = 1

\* CardsDealt was stored and seen, and never comes again.
DealSeen(h) ==
  /\ Dealt(h)
  /\ \A i \in 1 .. Len(pending[h]) : pending[h][i].type # "CardsDealt"

\* A process that works knows its cards were dealt.  One that has awarded the
\* pot is done, and so is one that has lost or replaced it, because no
\* CardsDealt comes any more to take it out of its dealing.  No hand is complete
\* before.
AwardSound(h) ==
  /\ Started(h) /\ processes[h].phase \notin {"DEALING", "COMPLETE"} => DealSeen(h)
  /\ awards[h] \in {0, 1}
  /\ awards[h] = 1 =>
       /\ DealSeen(h)
       /\ Started(h) => processes[h].phase \in {"DEALING", "COMPLETE", "SHOWDOWN"}
  /\ hand[h].status = "complete" => awards[h] = 1

\* Every award on its way is the one of its hand, and names all who are in and
\* have not folded in another hand.
AwardNamesAll(c) ==
  c.type = "AwardPot" =>
    /\ awards[c.hand] = 1
    /\ started[c.hand].players \ hand[c.hand].folded
         \subseteq c.winners \cup FoldedElsewhere(c.hand)

IInv ==
  /\ TypeOK
  /\ \A h \in Hands : HandSound(h) /\ ProcessSound(h) /\ PendingSound(h) /\ AwardSound(h)
  /\ \A c \in commands : AwardNamesAll(c)

LEMMA InitIInv == Init => IInv
<1> SUFFICES ASSUME Init PROVE IInv
  OBVIOUS
<1>1. NewHand \in HandType /\ NewHand.status = "undealt"
  BY NewHandSound DEF NewHand
<1>2. <<>> \in Seq(HandEvents) /\ Len(<<>>) = 0
  BY EmptySeq
<1>3. TypeOK
  BY <1>1, <1>2 DEF Init, TypeOK
<1> QED BY <1>1, <1>2, <1>3
      DEF Init, IInv, HandSound, ProcessSound, PendingSound, AwardSound, Started, Dealt

-----------------------------------------------------------------------------
(***************************************************************************)
(* The aggregate's steps.                                                  *)
(***************************************************************************)

\* The state s and event e that the aggregate of h may have next.
Fits(h, s, e) ==
  /\ Sound(s, Brought(h))
  /\ s.status # "undealt"
  /\ s.players = started[h].players
  /\ hand[h].folded \subseteq s.folded
  /\ hand[h].all_in \subseteq s.all_in
  /\ e \in HandEvents
  /\ Reported(s, e) /\ OfAPlayer(h, e)
  /\ e.type = "CardsDealt" => ~ Dealt(h)
  /\ s.status = "complete" => awards[h] = 1

\* Who has folded in another hand, or is all-in there, remains so.
LEMMA ElsewhereGrows ==
  ASSUME UNCHANGED started, NEW h \in Hands,
         \A k \in Hands : /\ hand[k].folded \subseteq hand'[k].folded
                          /\ hand[k].all_in \subseteq hand'[k].all_in
  PROVE  /\ FoldedElsewhere(h) \subseteq FoldedElsewhere(h)'
         /\ AllInElsewhere(h) \subseteq AllInElsewhere(h)'
<1>1. ASSUME NEW k \in Hands
      PROVE  /\ PlayingToo(h, k, hand[k].folded) \subseteq PlayingToo(h, k, hand[k].folded)'
             /\ PlayingToo(h, k, hand[k].all_in) \subseteq PlayingToo(h, k, hand[k].all_in)'
  BY DEF PlayingToo
<1> QED BY <1>1 DEF FoldedElsewhere, AllInElsewhere

\* Storing an event that fits keeps what the invariant says of every hand.
LEMMA StoreKeeps ==
  ASSUME IInv, NEW h \in Hands, NEW s, NEW e, Fits(h, s, e), Store(h, s, e),
         UNCHANGED <<started, processes, awards>>,
         commands' \subseteq commands, actions' \in Nat
  PROVE  IInv'
<1>1. /\ hand \in [Hands -> HandType] /\ pending \in [Hands -> Seq(HandEvents)]
      /\ s \in HandType /\ e \in HandEvents
  BY DEF IInv, TypeOK, Fits, Sound
<1>2. /\ hand' = [hand EXCEPT ![h] = s]
      /\ pending' = [pending EXCEPT ![h] = Append(pending[h], e)]
  BY DEF Store
<1>3. /\ Append(pending[h], e) \in Seq(HandEvents)
      /\ Len(Append(pending[h], e)) = Len(pending[h]) + 1
      /\ Len(pending[h]) \in Nat
      /\ \A i \in 1 .. Len(pending[h]) : Append(pending[h], e)[i] = pending[h][i]
      /\ Append(pending[h], e)[Len(pending[h]) + 1] = e
  BY <1>1, AppendProperties, LenProperties
<1>4. /\ hand'[h] = s /\ pending'[h] = Append(pending[h], e)
      /\ \A k \in Hands : k # h => hand'[k] = hand[k] /\ pending'[k] = pending[k]
  BY <1>1, <1>2
<1>5. TypeOK'
  BY <1>1, <1>2, <1>3 DEF IInv, TypeOK
<1>6. \A k \in Hands : hand[k].folded \subseteq hand'[k].folded
                       /\ hand[k].all_in \subseteq hand'[k].all_in
  BY <1>4 DEF Fits
<1>6a. \A k \in Hands : /\ FoldedElsewhere(k) \subseteq FoldedElsewhere(k)'
                       /\ AllInElsewhere(k) \subseteq AllInElsewhere(k)'
  BY <1>6, ElsewhereGrows
<1>6b. ASSUME NEW k \in Hands PROVE ProcessSound(k)'
  BY <1>6, <1>6a DEF IInv, ProcessSound, Started
<1>7. ASSUME NEW k \in Hands, k # h
      PROVE  (HandSound(k) /\ ProcessSound(k) /\ PendingSound(k) /\ AwardSound(k))'
  <2>1. hand'[k] = hand[k] /\ pending'[k] = pending[k]
    BY <1>4, <1>7
  <2>2. HandSound(k)'
    BY <2>1 DEF IInv, HandSound, Dealt, Brought
  <2>3. PendingSound(k)'
    BY <2>1 DEF IInv, PendingSound, Dealt, OfAPlayer
  <2>4. AwardSound(k)'
    BY <2>1 DEF IInv, AwardSound, Dealt, DealSeen, Started
  <2> QED BY <1>6b, <2>2, <2>3, <2>4
<1>8. (HandSound(h) /\ ProcessSound(h) /\ PendingSound(h) /\ AwardSound(h))'
  <2>1. HandSound(h)' /\ Dealt(h)'
    BY <1>4 DEF Fits, HandSound, Dealt, Brought
  <2>2. ProcessSound(h)'
    BY <1>6b
  <2>3. PendingSound(h)'
    <3>1. ASSUME NEW i \in 1 .. Len(pending[h])
          PROVE  /\ Reported(s, pending[h][i]) /\ OfAPlayer(h, pending[h][i])
                 /\ pending[h][i].type = "CardsDealt" => i = 1
      <4>1. /\ Reported(hand[h], pending[h][i]) /\ OfAPlayer(h, pending[h][i])
            /\ pending[h][i].type = "CardsDealt" => i = 1
        BY <3>1 DEF IInv, PendingSound
      <4> QED BY <4>1 DEF Reported, Fits
    <3>2. /\ Reported(s, e) /\ OfAPlayer(h, e)
          /\ e.type = "CardsDealt" => Len(pending[h]) = 0
      BY EmptySeq DEF Fits, IInv, PendingSound
    <3>3. ASSUME NEW i \in 1 .. Len(pending'[h])
          PROVE  /\ Reported(s, pending'[h][i]) /\ OfAPlayer(h, pending'[h][i])
                 /\ pending'[h][i].type = "CardsDealt" => i = 1
      <4>1. i \in 1 .. Len(pending[h]) \/ i = Len(pending[h]) + 1
        BY <1>3, <1>4, <3>3
      <4> QED BY <1>3, <1>4, <3>1, <3>2, <4>1
    <3> QED BY <1>4, <2>1, <3>3 DEF PendingSound, OfAPlayer
  <2>4. AwardSound(h)'
    <3>1. DealSeen(h) => DealSeen(h)'
      <4>1. ASSUME DealSeen(h), NEW i \in 1 .. Len(pending'[h])
            PROVE  pending'[h][i].type # "CardsDealt"
        <5>1. i \in 1 .. Len(pending[h]) \/ i = Len(pending[h]) + 1
          BY <1>3, <1>4, <4>1
        <5>2. e.type # "CardsDealt"
          BY <4>1 DEF Fits, DealSeen
        <5> QED BY <1>3, <1>4, <4>1, <5>1, <5>2 DEF DealSeen
      <4> QED BY <2>1, <4>1 DEF DealSeen
    <3> QED BY <1>4, <3>1 DEF IInv, AwardSound, Started, Fits
  <2> QED BY <2>1, <2>2, <2>3, <2>4
<1>9. ASSUME NEW c \in commands' PROVE AwardNamesAll(c)'
  <2>1. c \in commands /\ (c.type = "AwardPot" => c.hand \in Hands)
    BY <1>9 DEF IInv, TypeOK, Commands
  <2> QED BY <1>6, <1>6a, <2>1 DEF IInv, AwardNamesAll
<1> QED BY <1>5, <1>7, <1>8, <1>9 DEF IInv

\* The hand is sound for the lemmas about the aggregate, dealt or not.
LEMMA HandIsSound ==
  ASSUME IInv, NEW h \in Hands
  PROVE  /\ Sound(hand[h], IF Dealt(h) THEN Brought(h) ELSE NoChips)
         /\ hand[h] \in HandType
         /\ started[h] \in DealType
  BY NewHandSound, DealsAssumption DEF IInv, HandSound, TypeOK

LEMMA DealFits ==
  ASSUME IInv, NEW h \in Hands,
         NEW e \in handle_deal(hand[h], started[h].draw,
                               [p \in started[h].players |-> started[h].stack[p]])
  PROVE  Fits(h, apply_cards_dealt(hand[h], e), e)
<1> DEFINE stack == [p \in started[h].players |-> started[h].stack[p]]
<1>1. /\ started[h].players \in SUBSET Seats /\ started[h].draw \in BOOLEAN
      /\ stack \in [started[h].players -> Nat]
  BY HandIsSound, DealFields
<1>2. e = [type |-> "CardsDealt", draw |-> started[h].draw,
           players |-> started[h].players, stack |-> Brought(h)]
  BY DEF handle_deal, Brought
<1>3. hand[h].status = "undealt"
  BY DEF handle_deal
<1>4. e \in handle_deal(hand[h], started[h].draw, stack)
  OBVIOUS
<1> HIDE DEF stack
<1>5. /\ Sound(apply_cards_dealt(hand[h], e), e.stack)
      /\ e.stack \in [Seats -> Int]
      /\ hand[h].folded = {} /\ hand[h].all_in = {}
      /\ apply_cards_dealt(hand[h], e).players = started[h].players
      /\ apply_cards_dealt(hand[h], e).status = "betting"
  BY <1>1, <1>4, HandIsSound, DealApplied
<1>6. e \in HandEvents
  BY <1>1, <1>2, <1>5 DEF HandEvents
<1>7. Reported(apply_cards_dealt(hand[h], e), e) /\ OfAPlayer(h, e)
  BY <1>2 DEF Reported, Did, OfAPlayer
<1> QED BY <1>2, <1>3, <1>5, <1>6, <1>7 DEF Fits, Dealt

LEMMA ActionFits ==
  ASSUME IInv, NEW h \in Hands, NEW p \in Seats, NEW e,
         ActionAnswer(hand[h], p, e)
  PROVE  Fits(h, apply_action_taken(hand[h], e), e)
<1> DEFINE s == hand[h]
           n == apply_action_taken(s, e)
<1>1. s.status = "betting"
  BY DEF ActionAnswer, fold_action, check_action, call_action, all_in_action,
         bet_action, raise_action, MayAct
<1>2. Dealt(h) /\ Sound(s, Brought(h)) /\ s.players = started[h].players
  BY <1>1 DEF Dealt, IInv, HandSound
<1>3. PICK chips \in Int, amount \in Int, action \in Actions :
        e = ActionEvent(s, p, action, amount, chips)
  BY <1>2, ActionCases
<1>4. /\ e.type = "ActionTaken" /\ e.player = p
  BY <1>3 DEF ActionEvent
<1>5. s.stack[p] \in Int /\ s.pot \in Int
  BY HandIsSound, HandFields
<1>6. e \in HandEvents
  BY <1>3, <1>5 DEF ActionEvent, HandEvents
<1> HIDE DEF s, n
<1>7. /\ Sound(n, Brought(h)) /\ s.folded \subseteq n.folded
      /\ s.all_in \subseteq n.all_in /\ n.players = s.players
      /\ e.action = "FOLD" => p \in n.folded
      /\ e.action = "ALL_IN" => p \in n.all_in
      /\ n.status = "betting"
  BY <1>2, ActionApplied DEF s, n
<1>8. Reported(n, e) /\ OfAPlayer(h, e)
  <2>1. p \in s.players
    BY DEF ActionAnswer, fold_action, check_action, call_action, all_in_action,
           bet_action, raise_action, MayAct, s
  <2> QED BY <1>2, <1>4, <1>7, <2>1 DEF Reported, Did, OfAPlayer
<1> QED BY <1>2, <1>4, <1>6, <1>7, <1>8 DEF Fits, s, n

LEMMA CommandFits ==
  ASSUME IInv, NEW c \in commands, NEW e \in Answers(hand[c.hand], c)
  PROVE  Fits(c.hand, Applied(hand[c.hand], e), e)
<1> DEFINE h == c.hand
           s == hand[h]
           n == Applied(s, e)
<1>1. c \in Commands /\ h \in Hands
  BY DEF IInv, TypeOK, Commands
<1>2. /\ s \in HandType /\ s.stack \in [Seats -> Int] /\ s.pot \in Int
  BY <1>1, HandIsSound, HandFields
<1>3. ASSUME s.status # "undealt"
      PROVE  /\ Sound(s, Brought(h)) /\ s.players = started[h].players /\ Dealt(h)
  BY <1>1, <1>3 DEF IInv, HandSound, Dealt
<1>4. ASSUME s.status # "undealt", e \in HandEvents,
             e.type \in {"BlindPosted", "CommunityCardsDealt", "PotAwarded"},
             Sound(n, Brought(h)), SamePlayers(s, n),
             n.status = "complete" => awards[h] = 1
      PROVE  Fits(h, n, e)
  <2>1. Reported(n, e) /\ OfAPlayer(h, e)
    BY <1>4 DEF Reported, Did, OfAPlayer
  <2> QED BY <1>3, <1>4, <2>1 DEF Fits, SamePlayers
<1>5. CASE c.type = "PostBlind"
  <2>1. /\ c.player \in Seats /\ c.amount \in Int /\ c.blind_type \in {"small", "big"}
    BY <1>1, <1>5 DEF Commands
  <2>2. e \in handle_post_blind(s, c.player, c.blind_type, c.amount)
    BY <1>5 DEF Answers
  <2>3. s.status # "undealt"
    BY <2>2 DEF handle_post_blind
  <2>4. PICK chips \in Nat : e = BlindEvent(s, c.player, c.blind_type, chips)
    BY <1>3, <2>1, <2>2, <2>3, BlindCases
  <2>5. e.type = "BlindPosted" /\ e \in HandEvents
    BY <1>2, <2>1, <2>4 DEF BlindEvent, HandEvents
  <2>6. n = apply_blind_posted(s, e)
    BY <2>5 DEF Applied
  <2> HIDE DEF s, n
  <2>7. Sound(n, Brought(h)) /\ SamePlayers(s, n) /\ n.status = "betting"
    BY <1>3, <2>1, <2>2, <2>3, <2>6, BlindApplied
  <2> QED BY <1>4, <2>3, <2>5, <2>7 DEF s, n
<1>6. CASE c.type = "DealCommunityCards"
  <2>1. e \in handle_deal_community(s, c.count)
    BY <1>6 DEF Answers
  <2>2. /\ s.status # "undealt" /\ e.type = "CommunityCardsDealt"
        /\ s.phase \in DOMAIN next_phase
        /\ e = [type |-> "CommunityCardsDealt", phase |-> next_phase[s.phase]]
    BY <2>1 DEF handle_deal_community
  <2>3. e \in HandEvents
    BY <2>2 DEF HandEvents, next_phase, Phases
  <2>4. n = apply_community_dealt(s, e)
    BY <2>2 DEF Applied
  <2> HIDE DEF s, n
  <2>5. Sound(n, Brought(h)) /\ SamePlayers(s, n) /\ n.status = "betting"
    BY <1>3, <2>1, <2>2, <2>4, CommunityApplied
  <2> QED BY <1>4, <2>2, <2>3, <2>5 DEF s, n
<1>7. CASE c.type = "AwardPot"
  <2>1. c.winners \in SUBSET Seats /\ c.awards \in [Seats -> Int]
    BY <1>1, <1>7 DEF Commands
  <2>2. PICK first \in c.winners :
          e \in handle_award_pot(s, first, c.awards[first],
                                 [p \in c.winners \ {first} |-> c.awards[p]])
    BY <1>7 DEF Answers
  <2> DEFINE named == c.winners \ {first}
             others == [p \in named |-> c.awards[p]]
             amount == c.awards[first]
  <2>3. /\ first \in Seats /\ amount \in Int /\ named \in SUBSET Seats
        /\ others \in [named -> Int]
    BY <2>1
  <2>4. e \in handle_award_pot(s, first, amount, others)
    BY <2>2
  <2> HIDE DEF named, others, amount
  <2>5. s.status # "undealt" /\ e.type = "PotAwarded"
    BY <2>4 DEF handle_award_pot
  <2>6. e \in HandEvents
    <3>1. AdjustedAward(s, amount, others) \in Int
      <4>1. TotalOf(others) \in Int
        BY <2>3, TotalWinnings
      <4> QED BY <1>2, <2>3, <4>1 DEF AdjustedAward
    <3>2. Winnings(first, AdjustedAward(s, amount, others), others) \in [Seats -> Int]
      BY <2>3, <3>1, TotalWinnings
    <3>3. e = [type |-> "PotAwarded",
               winnings |-> Winnings(first, AdjustedAward(s, amount, others), others)]
      BY <2>4 DEF handle_award_pot
    <3> QED BY <3>2, <3>3 DEF HandEvents
  <2>7. n = apply_hand_complete(apply_pot_awarded(s, e))
    BY <2>5 DEF Applied
  <2> HIDE DEF s, n
  <2>8. Sound(n, Brought(h)) /\ SamePlayers(s, n)
    <3>1. Sound(s, Brought(h))
      BY <1>3, <2>5 DEF s
    <3> QED BY <2>3, <2>4, <2>7, <3>1, AwardApplied
  <2>9. awards[h] = 1
    BY <1>7 DEF IInv, AwardNamesAll
  <2> QED BY <1>4, <2>5, <2>6, <2>8, <2>9 DEF s, n
<1>8. c.type \in {"PostBlind", "DealCommunityCards", "AwardPot"}
  BY <1>1 DEF Commands
<1> QED BY <1>5, <1>6, <1>7, <1>8

-----------------------------------------------------------------------------
(***************************************************************************)
(* The process manager's steps.                                            *)
(***************************************************************************)
LEMMA StartKeeps ==
  ASSUME IInv, NEW h \in Hands, Start(h)
  PROVE  IInv'
<1> DEFINE q == [phase |-> "DEALING", betting_phase |-> "UNSPECIFIED",
                 deal |-> started[h], stack |-> started[h].stack,
                 bet_this_round |-> NoChips, has_acted |-> {}, has_folded |-> {},
                 is_all_in |-> {}, action_on |-> -1, current_bet |-> 0,
                 pot_total |-> 0, posted |-> {}]
<1>1. /\ processes' = [processes EXCEPT ![h] = q]
      /\ UNCHANGED <<started, hand, pending, commands, awards, actions>>
  BY DEF Start, start_hand, Outcome
<1>2. q \in ProcessType
  <2>1. started[h] \in DealType /\ started[h].stack \in [Seats -> Nat]
    BY HandIsSound, DealFields
  <2>2. /\ started[h].stack \in [Seats -> Int] /\ NoChips \in [Seats -> Int]
        /\ "DEALING" \in ProcessPhases /\ "UNSPECIFIED" \in Phases
    BY <2>1 DEF NoChips, ProcessPhases, Phases
  <2> QED BY <2>1, <2>2 DEF ProcessType
<1>3. /\ q.phase = "DEALING" /\ q.deal = started[h]
      /\ q.has_folded = {} /\ q.is_all_in = {}
  OBVIOUS
<1> HIDE DEF q
<1>4. processes \in [Hands -> ProcessType \cup {Unstarted}]
  BY DEF IInv, TypeOK
<1>5. /\ processes'[h] = q
      /\ \A k \in Hands : k # h => processes'[k] = processes[k]
      /\ processes' \in [Hands -> ProcessType \cup {Unstarted}]
  BY <1>1, <1>2, <1>4
<1>6. TypeOK'
  BY <1>1, <1>5 DEF IInv, TypeOK
<1>7. \A k \in Hands : (HandSound(k) /\ PendingSound(k))'
  BY <1>1 DEF IInv, HandSound, PendingSound, Dealt, Brought, OfAPlayer
<1>7a. \A k : /\ FoldedElsewhere(k)' = FoldedElsewhere(k)
            /\ AllInElsewhere(k)' = AllInElsewhere(k)
  BY <1>1 DEF FoldedElsewhere, AllInElsewhere, PlayingToo
<1>8. \A k \in Hands : ProcessSound(k)'
  BY <1>1, <1>3, <1>5, <1>7a DEF IInv, ProcessSound, Started
<1>9. \A k \in Hands : AwardSound(k)'
  BY <1>1, <1>3, <1>5 DEF IInv, AwardSound, Started, DealSeen, Dealt
<1>10. \A c \in commands' : AwardNamesAll(c)'
  BY <1>1 DEF IInv, AwardNamesAll, FoldedElsewhere, PlayingToo
<1> QED BY <1>6, <1>7, <1>8, <1>9, <1>10 DEF IInv

\* A restart loses what the processes knew, and with it nothing that the
\* invariant needs.
LEMMA RestartKeeps ==
  ASSUME IInv, Restart
  PROVE  IInv'
<1>1. /\ processes' = [h \in Hands |-> Unstarted]
      /\ UNCHANGED <<started, hand, pending, commands, awards, actions>>
  BY DEF Restart
<1>2. \A h \in Hands : ~ Started(h)'
  BY <1>1 DEF Started
<1>3. TypeOK'
  BY <1>1 DEF IInv, TypeOK
<1>4. \A h \in Hands : (HandSound(h) /\ PendingSound(h))'
  BY <1>1 DEF IInv, HandSound, PendingSound, Dealt, Brought, OfAPlayer
<1>5. \A h \in Hands : (ProcessSound(h) /\ AwardSound(h))'
  BY <1>1, <1>2 DEF IInv, ProcessSound, AwardSound, DealSeen, Dealt
<1>6. \A c \in commands' : AwardNamesAll(c)'
  BY <1>1 DEF IInv, AwardNamesAll, FoldedElsewhere, PlayingToo
<1> QED BY <1>3, <1>4, <1>5, <1>6 DEF IInv

LEMMA SeeKeeps ==
  ASSUME IInv, NEW h \in Hands, See(h)
  PROVE  IInv'
<1> DEFINE e == Head(pending[h])
           roots == started[h].root
           rest == Tail(pending[h])
           counted(o, k) == {c \in o.commands : c.type = "AwardPot" /\ c.hand = k}
<1>1. PICK o \in Handle(processes, h, roots, e) :
        /\ processes' = o.processes
        /\ commands' = commands \cup o.commands
        /\ awards' = [k \in Hands |-> awards[k] + Cardinality(counted(o, k))]
  BY DEF See
<1>2. /\ pending[h] # <<>> /\ pending' = [pending EXCEPT ![h] = rest]
      /\ UNCHANGED <<started, hand, actions>>
  BY DEF See
<1>3. /\ processes \in Processes /\ pending \in [Hands -> Seq(HandEvents)]
      /\ commands \subseteq Commands /\ awards \in [Hands -> Nat]
  BY DEF IInv, TypeOK, Processes
<1>4. /\ e \in HandEvents /\ rest \in Seq(HandEvents)
      /\ Len(pending[h]) \in Nat /\ Len(rest) = Len(pending[h]) - 1
      /\ Len(pending[h]) >= 1 /\ e = pending[h][1]
      /\ \A i \in 1 .. Len(rest) : rest[i] = pending[h][i + 1]
  BY <1>2, <1>3, HeadTailProperties, EmptySeq, LenProperties
<1> HIDE DEF e, rest
<1>5. SoundOutcome(processes, h, roots, e, o)
  BY <1>1, <1>3, <1>4, HandleSound
<1>6. /\ pending'[h] = rest
      /\ \A k \in Hands : k # h => pending'[k] = pending[k]
  BY <1>2, <1>3
<1>7. /\ processes' \in Processes
      /\ \A k \in Hands : IF processes[k] = Unstarted THEN processes'[k] = Unstarted
                          ELSE Advances(processes[k], processes'[k], k = h, roots, e)
  BY <1>1, <1>5 DEF SoundOutcome
<1>8. /\ Dealt(h) /\ Reported(hand[h], e) /\ OfAPlayer(h, e)
      /\ \A i \in 1 .. Len(rest) : /\ Reported(hand[h], rest[i]) /\ OfAPlayer(h, rest[i])
                                   /\ rest[i].type # "CardsDealt"
  <2>1. PendingSound(h)
    BY DEF IInv
  <2>2. Dealt(h) /\ Reported(hand[h], e) /\ OfAPlayer(h, e)
    BY <1>2, <1>4, <2>1 DEF PendingSound
  <2>3. ASSUME NEW i \in 1 .. Len(rest)
        PROVE  /\ Reported(hand[h], rest[i]) /\ OfAPlayer(h, rest[i])
               /\ rest[i].type # "CardsDealt"
    <3>1. i + 1 \in 1 .. Len(pending[h]) /\ i + 1 # 1 /\ rest[i] = pending[h][i + 1]
      BY <1>4, <2>3
    <3> QED BY <2>1, <3>1 DEF PendingSound
  <2> QED BY <2>2, <2>3
<1>9. \A k \in Hands : (HandSound(k) /\ PendingSound(k))'
  BY <1>2, <1>6, <1>8 DEF IInv, HandSound, PendingSound, Dealt, Brought, OfAPlayer
<1>9a. \A k : /\ FoldedElsewhere(k)' = FoldedElsewhere(k)
            /\ AllInElsewhere(k)' = AllInElsewhere(k)
  BY <1>2 DEF FoldedElsewhere, AllInElsewhere, PlayingToo
<1>10. \A k \in Hands : ProcessSound(k)'
  <2> SUFFICES ASSUME NEW k \in Hands, processes'[k] # Unstarted
               PROVE  /\ processes'[k].deal = started[k]
                      /\ processes'[k].has_folded
                           \subseteq hand[k].folded \cup FoldedElsewhere(k)
                      /\ processes'[k].is_all_in
                           \subseteq hand[k].all_in \cup AllInElsewhere(k)
    BY <1>2, <1>9a DEF ProcessSound, Started
  <2>1. processes[k] # Unstarted /\ Advances(processes[k], processes'[k], k = h, roots, e)
    BY <1>7
  <2>2. /\ processes[k].deal = started[k]
        /\ processes[k].has_folded \subseteq hand[k].folded \cup FoldedElsewhere(k)
        /\ processes[k].is_all_in \subseteq hand[k].all_in \cup AllInElsewhere(k)
    BY <2>1 DEF IInv, ProcessSound, Started
  <2>3. ASSUME NEW action, NEW S, Did(e, action) \subseteq S
        PROVE  Told(processes[k], roots, e, action)
                 \subseteq IF k = h THEN S ELSE PlayingToo(k, h, S)
    <3>1. \A q \in Did(e, action) : q \in started[h].players
      BY <1>8 DEF Did, OfAPlayer
    <3>2. CASE k = h
      <4>1. started[h] \in DealType
        BY HandIsSound
      <4> QED BY <2>2, <2>3, <3>1, <3>2, <4>1, DealFields DEF Told
    <3>3. CASE k # h
      BY <2>2, <2>3, <3>3 DEF Told, PlayingToo
    <3> QED BY <3>2, <3>3
  <2>4. /\ Told(processes[k], roots, e, "FOLD") \subseteq hand[k].folded \cup FoldedElsewhere(k)
        /\ Told(processes[k], roots, e, "ALL_IN") \subseteq hand[k].all_in \cup AllInElsewhere(k)
    <3>1. Did(e, "FOLD") \subseteq hand[h].folded /\ Did(e, "ALL_IN") \subseteq hand[h].all_in
      BY <1>8 DEF Reported
    <3>2. k # h => /\ PlayingToo(k, h, hand[h].folded) \subseteq FoldedElsewhere(k)
                   /\ PlayingToo(k, h, hand[h].all_in) \subseteq AllInElsewhere(k)
      BY DEF FoldedElsewhere, AllInElsewhere
    <3> QED BY <2>3, <3>1, <3>2
  <2> QED BY <2>1, <2>2, <2>4 DEF Advances
<1>11. \A k \in Hands : DealSeen(k) => DealSeen(k)' /\ ~ (k = h /\ e.type = "CardsDealt")
  BY <1>2, <1>4, <1>6, <1>8 DEF DealSeen, Dealt
<1>12. e.type = "CardsDealt" => DealSeen(h)'
  BY <1>2, <1>6, <1>8 DEF DealSeen, Dealt
<1>13. \A k \in Hands :
         /\ counted(o, k) = {} \/ \E c : counted(o, k) = {c}
         /\ counted(o, k) # {} =>
              /\ Started(k) /\ processes[k].phase = "BETTING"
              /\ Started(k)' /\ processes'[k].phase \in {"COMPLETE", "SHOWDOWN"}
  <2> SUFFICES ASSUME NEW k \in Hands
               PROVE  /\ counted(o, k) = {} \/ \E c : counted(o, k) = {c}
                      /\ counted(o, k) # {} =>
                           /\ Started(k) /\ processes[k].phase = "BETTING"
                           /\ Started(k)'
                           /\ processes'[k].phase \in {"COMPLETE", "SHOWDOWN"}
    OBVIOUS
  <2>1. CASE o.commands = {}
    BY <2>1
  <2>2. ASSUME NEW c \in Commands, o.commands = {c},
               c.type = "AwardPot" =>
                 /\ processes[c.hand] # Unstarted /\ processes[c.hand].phase = "BETTING"
                 /\ o.processes[c.hand].phase \in {"COMPLETE", "SHOWDOWN"}
        PROVE  /\ counted(o, k) = {} \/ \E d : counted(o, k) = {d}
               /\ counted(o, k) # {} =>
                    /\ Started(k) /\ processes[k].phase = "BETTING"
                    /\ Started(k)'
                    /\ processes'[k].phase \in {"COMPLETE", "SHOWDOWN"}
    <3>1. counted(o, k) = {} \/ (counted(o, k) = {c} /\ c.type = "AwardPot" /\ c.hand = k)
      BY <2>2
    <3>2. processes[k] # Unstarted => processes'[k] # Unstarted
      BY <1>7, ProcessFields DEF Advances
    <3> QED BY <1>1, <2>2, <3>1, <3>2 DEF Started
  <2> QED BY <1>5, <2>1, <2>2 DEF SoundOutcome, Commanded
<1>14. \A k \in Hands :
         awards'[k] = IF counted(o, k) = {} THEN awards[k] ELSE awards[k] + 1
  <2> SUFFICES ASSUME NEW k \in Hands
               PROVE  awards'[k] = IF counted(o, k) = {} THEN awards[k] ELSE awards[k] + 1
    OBVIOUS
  <2>1. awards'[k] = awards[k] + Cardinality(counted(o, k)) /\ awards[k] \in Nat
    BY <1>1, <1>3
  <2>2. counted(o, k) = {} \/ \E c : counted(o, k) = {c}
    BY <1>13
  <2> HIDE DEF counted
  <2>3. Cardinality(counted(o, k)) = IF counted(o, k) = {} THEN 0 ELSE 1
    BY <2>2, FS_EmptySet, FS_Singleton
  <2> QED BY <2>1, <2>3
<1>15. commands' \subseteq Commands
  BY <1>1, <1>3, <1>5 DEF SoundOutcome, Commanded
<1>16. TypeOK'
  <2>1. awards' \in [Hands -> Nat]
    <3> DEFINE sum(k) == awards[k] + Cardinality(counted(o, k))
    <3>1. awards' = [k \in Hands |-> sum(k)]
      BY <1>1
    <3> HIDE DEF sum
    <3>2. \A k \in Hands : awards'[k] \in Nat
      BY <1>3, <1>14
    <3> QED BY <3>1, <3>2
  <2>2. pending' \in [Hands -> Seq(HandEvents)]
    BY <1>2, <1>3, <1>4
  <2> QED BY <1>2, <1>7, <1>15, <2>1, <2>2 DEF IInv, TypeOK, Processes
<1>17. \A k \in Hands : AwardSound(k)'
  <2> SUFFICES ASSUME NEW k \in Hands PROVE AwardSound(k)'
    OBVIOUS
  <2> HIDE DEF counted
  <2>1. AwardSound(k)
    BY DEF IInv
  <2>2. CASE ~ Started(k)
    <3>1. ~ Started(k)' /\ counted(o, k) = {}
      BY <1>7, <1>13, <2>2 DEF Started
    <3> QED BY <1>2, <1>11, <1>14, <2>1, <3>1 DEF AwardSound
  <2>3. CASE Started(k)
    <3>1. Advances(processes[k], processes'[k], k = h, roots, e) /\ Started(k)'
      BY <1>7, <2>3, ProcessFields DEF Started, Advances
    <3>2. processes'[k].phase \notin {"DEALING", "COMPLETE"} => DealSeen(k)'
      BY <1>11, <1>12, <2>1, <2>3, <3>1 DEF Advances, AwardSound
    <3>3. CASE counted(o, k) # {}
      <4>1. DealSeen(k)'
        BY <1>11, <1>13, <2>1, <3>3 DEF AwardSound
      <4>2. awards[k] = 0
        BY <1>13, <2>1, <3>3 DEF AwardSound
      <4> QED BY <1>13, <1>14, <3>1, <3>2, <3>3, <4>1, <4>2 DEF AwardSound
    <3>4. CASE counted(o, k) = {}
      <4>1. awards'[k] = awards[k]
        BY <1>14, <3>4
      <4>2. awards[k] = 1 =>
              /\ DealSeen(k)'
              /\ processes'[k].phase \in {"DEALING", "COMPLETE", "SHOWDOWN"}
        BY <1>11, <2>1, <2>3, <3>1 DEF AwardSound, Advances
      <4> QED BY <1>2, <2>1, <3>1, <3>2, <4>1, <4>2 DEF AwardSound
    <3> QED BY <3>3, <3>4
  <2> QED BY <2>2, <2>3
<1>18. \A c \in commands' : AwardNamesAll(c)'
  <2>1. ASSUME NEW c \in commands PROVE AwardNamesAll(c)'
    <3> SUFFICES ASSUME c.type = "AwardPot" PROVE AwardNamesAll(c)'
      BY DEF AwardNamesAll
    <3>1. c.hand \in Hands /\ awards[c.hand] = 1
      BY <1>3 DEF Commands, IInv, AwardNamesAll
    <3>2. counted(o, c.hand) = {}
      <4> HIDE DEF counted
      <4> QED BY <1>13, <3>1 DEF IInv, AwardSound
    <3>3. awards'[c.hand] = 1
      <4> HIDE DEF counted
      <4> QED BY <1>14, <3>1, <3>2
    <3> QED BY <1>2, <1>9a, <3>3 DEF IInv, AwardNamesAll
  <2>2. ASSUME NEW c \in o.commands PROVE AwardNamesAll(c)'
    <3> SUFFICES ASSUME c.type = "AwardPot"
                 PROVE  /\ awards'[c.hand] = 1
                        /\ started[c.hand].players \ hand[c.hand].folded
                             \subseteq c.winners \cup FoldedElsewhere(c.hand)
      BY <1>2, <1>9a DEF AwardNamesAll
    <3>1. /\ c \in Commands /\ processes[c.hand] # Unstarted
          /\ c.winners = processes[c.hand].deal.players \ processes'[c.hand].has_folded
      BY <1>1, <1>5, <2>2 DEF SoundOutcome, Commanded
    <3>2. c.hand \in Hands
      BY <3>1 DEF Commands
    <3>3. /\ processes'[c.hand].has_folded
               \subseteq hand[c.hand].folded \cup FoldedElsewhere(c.hand)
          /\ processes[c.hand].deal = started[c.hand]
      <4>1. processes'[c.hand] # Unstarted
        BY <1>7, <3>1, <3>2, ProcessFields DEF Advances
      <4> QED BY <1>2, <1>9a, <1>10, <3>1, <3>2, <4>1 DEF ProcessSound, Started, IInv
    <3>4. c \in counted(o, c.hand)
      OBVIOUS
    <3>5. awards'[c.hand] = 1
      <4> HIDE DEF counted
      <4>1. awards[c.hand] = 0
        BY <1>13, <3>2, <3>4 DEF IInv, AwardSound
      <4> QED BY <1>14, <3>2, <3>4, <4>1
    <3> QED BY <3>1, <3>3, <3>5
  <2> QED BY <1>1, <2>1, <2>2
<1> QED BY <1>9, <1>10, <1>16, <1>17, <1>18 DEF IInv

-----------------------------------------------------------------------------
(***************************************************************************)
(* The theorems.                                                           *)
(***************************************************************************)
\* A player's move is an answer of one of the betting handlers.
LEMMA MovesAnswer ==
  ASSUME NEW h \in Hands, PlayerMoves(h)
  PROVE  \E p \in Seats : \E events :
           PlayerActs(h, p, events) /\ \A e \in events : ActionAnswer(hand[h], p, e)
<1>1. PICK p \in Seats :
        \/ Fold(h, p) \/ Check(h, p) \/ Call(h, p) \/ AllIn(h, p)
        \/ \E amount \in Amounts : Bet(h, p, amount) \/ Raise(h, p, amount)
  BY DEF PlayerMoves
<1>2. CASE Fold(h, p) \/ Check(h, p) \/ Call(h, p) \/ AllIn(h, p)
  <2>1. /\ \A e \in fold_action(hand[h], p) : ActionAnswer(hand[h], p, e)
        /\ \A e \in check_action(hand[h], p) : ActionAnswer(hand[h], p, e)
        /\ \A e \in call_action(hand[h], p) : ActionAnswer(hand[h], p, e)
        /\ \A e \in all_in_action(hand[h], p) : ActionAnswer(hand[h], p, e)
    BY DEF ActionAnswer
  <2> QED BY <1>2, <2>1 DEF Fold, Check, Call, AllIn
<1>3. ASSUME NEW amount \in Amounts, Bet(h, p, amount) \/ Raise(h, p, amount)
      PROVE  \E events :
               PlayerActs(h, p, events) /\ \A e \in events : ActionAnswer(hand[h], p, e)
  <2>1. /\ \A e \in bet_action(hand[h], p, amount) : ActionAnswer(hand[h], p, e)
        /\ \A e \in raise_action(hand[h], p, amount) : ActionAnswer(hand[h], p, e)
    BY AmountsAssumption DEF ActionAnswer
  <2> QED BY <1>3, <2>1 DEF Bet, Raise
<1> QED BY <1>1, <1>2, <1>3

LEMMA NextIInv == IInv /\ [Next]_vars => IInv'
<1> SUFFICES ASSUME IInv, [Next]_vars PROVE IInv'
  OBVIOUS
<1>0. actions \in Nat
  BY DEF IInv, TypeOK
<1>1. ASSUME NEW h \in Hands, Deal(h) PROVE IInv'
  <2>1. PICK e \in handle_deal(hand[h], started[h].draw,
                               [p \in started[h].players |-> started[h].stack[p]]) :
          Store(h, apply_cards_dealt(hand[h], e), e)
    BY <1>1 DEF Deal
  <2>2. UNCHANGED <<started, processes, commands, awards, actions>>
    BY <1>1 DEF Deal
  <2>3. Fits(h, apply_cards_dealt(hand[h], e), e)
    BY DealFits
  <2> QED BY <1>0, <2>1, <2>2, <2>3, StoreKeeps
<1>2. ASSUME NEW h \in Hands, NEW p \in Seats, NEW events,
             PlayerActs(h, p, events), \A e \in events : ActionAnswer(hand[h], p, e)
      PROVE  IInv'
  <2>1. PICK e \in events : Store(h, apply_action_taken(hand[h], e), e)
    BY <1>2 DEF PlayerActs
  <2>2. /\ UNCHANGED <<started, processes, commands, awards>>
        /\ actions' = actions + 1
    BY <1>2 DEF PlayerActs
  <2>3. actions' \in Nat
    BY <1>0, <2>2
  <2>4. Fits(h, apply_action_taken(hand[h], e), e)
    BY <1>2, ActionFits
  <2> QED BY <2>1, <2>2, <2>3, <2>4, StoreKeeps
<1>3. ASSUME NEW h \in Hands, PlayerMoves(h) PROVE IInv'
  BY <1>2, <1>3, MovesAnswer, Zenon
<1>4. ASSUME NEW c \in commands, Accept(c) PROVE IInv'
  <2>1. PICK e \in Answers(hand[c.hand], c) :
          Store(c.hand, Applied(hand[c.hand], e), e)
    BY <1>4 DEF Accept
  <2>2. /\ UNCHANGED <<started, processes, awards, actions>>
        /\ commands' \subseteq commands
    BY <1>4 DEF Accept
  <2>3. Fits(c.hand, Applied(hand[c.hand], e), e)
    BY CommandFits
  <2>4. c.hand \in Hands
    BY DEF IInv, TypeOK, Commands
  <2> QED BY <1>0, <2>1, <2>2, <2>3, <2>4, StoreKeeps
<1>5. ASSUME UNCHANGED <<started, hand, processes, pending, awards, actions>>,
             commands' \subseteq commands
      PROVE  IInv'
  <2>1. TypeOK'
    BY <1>5 DEF IInv, TypeOK
  <2>2. \A h : /\ FoldedElsewhere(h)' = FoldedElsewhere(h)
              /\ AllInElsewhere(h)' = AllInElsewhere(h)
    BY <1>5 DEF FoldedElsewhere, AllInElsewhere, PlayingToo
  <2>3. \A h \in Hands :
          (HandSound(h) /\ ProcessSound(h) /\ PendingSound(h) /\ AwardSound(h))'
    BY <1>5, <2>2 DEF IInv, HandSound, ProcessSound, PendingSound, AwardSound,
                      Dealt, DealSeen, Started, Brought, OfAPlayer
  <2>4. \A c \in commands' : AwardNamesAll(c)'
    BY <1>5, <2>2 DEF IInv, AwardNamesAll
  <2> QED BY <2>1, <2>3, <2>4 DEF IInv
<1>6. ASSUME NEW c \in commands, Refuse(c) PROVE IInv'
  BY <1>5, <1>6 DEF Refuse
<1>7. ASSUME UNCHANGED vars PROVE IInv'
  BY <1>5, <1>7 DEF vars
<1> QED BY <1>1, <1>3, <1>4, <1>6, <1>7, StartKeeps, RestartKeeps, SeeKeeps DEF Next

THEOREM Invariance == Spec => []IInv
  BY InitIInv, NextIInv, PTL DEF Spec

\* The types of all variables, of every event and command on its way too.
THEOREM FlowTypeCorrect == Spec => []TypeOK
<1>1. IInv => TypeOK
  BY DEF IInv
<1> QED BY <1>1, Invariance, PTL

\* The process manager counts nobody out who is in wherever he plays, with any
\* number of hands and players in several of them.
THEOREM OutIsOutHolds == Spec => []OutIsOut
<1>1. IInv => OutIsOut
  BY DEF IInv, ProcessSound, OutIsOut
<1> QED BY <1>1, Invariance, PTL

\* Every award on its way names all who are still in the hand, save those who
\* have folded in another hand they play.
THEOREM NobodyLeftOutHolds == Spec => []NobodyLeftOut
<1>1. IInv => NobodyLeftOut
  <2> SUFFICES ASSUME IInv, NEW c \in commands, c.type = "AwardPot"
               PROVE  hand[c.hand].players \ hand[c.hand].folded
                        \subseteq c.winners \cup FoldedElsewhere(c.hand)
    BY DEF NobodyLeftOut
  <2>1. c.hand \in Hands /\ AwardNamesAll(c)
    BY DEF IInv, TypeOK, Commands
  <2>2. hand[c.hand].players \subseteq started[c.hand].players
    BY <2>1 DEF IInv, HandSound, NewHand
  <2> QED BY <2>1, <2>2 DEF AwardNamesAll
<1> QED BY <1>1, Invariance, PTL

\* The process manager commands the pot of a hand to be paid at most once.
THEOREM AwardedOnceHolds == Spec => []AwardedOnce
<1>1. IInv => AwardedOnce
  BY DEF IInv, AwardSound, AwardedOnce
<1> QED BY <1>1, Invariance, PTL
-----------------------------------------------------------------------------
(***************************************************************************)
(* The refinement of HandPot.                                              *)
(***************************************************************************)

SameForPot(h) ==
  ChipsOf(h)' = ChipsOf(h) /\ PotOf(h)' = PotOf(h)
  /\ PlayingOf(h)' = PlayingOf(h) /\ StageOf(h)' = StageOf(h)

LEMMA PotStutters ==
  ASSUME \A h \in Hands : SameForPot(h)
  PROVE  UNCHANGED Pot!vars
<1>1. /\ AllChips' = AllChips /\ AllPots' = AllPots
      /\ AllPlaying' = AllPlaying /\ AllStages' = AllStages
  BY DEF SameForPot, AllChips, AllPots, AllPlaying, AllStages
<1> QED BY <1>1 DEF Pot!vars

\* The aggregate of one hand stores what fits.
LEMMA OneStores ==
  ASSUME IInv, NEW h \in Hands, NEW s, NEW e, Fits(h, s, e), Store(h, s, e),
         UNCHANGED <<started, awards>>
  PROVE  /\ \A k \in Hands : k # h => SameForPot(k)
         /\ ChipsOf(h)' = s.stack
         /\ PotOf(h)' = IF s.status = "complete" THEN 0 ELSE s.pot
         /\ PlayingOf(h)' = started[h].players \ s.folded
         /\ StageOf(h)' = IF s.status = "complete" THEN "paid"
                          ELSE IF awards[h] > 0 THEN "awarded" ELSE "open"
<1>1. hand' = [hand EXCEPT ![h] = s] /\ hand \in [Hands -> HandType]
  BY DEF Store, IInv, TypeOK
<1>2. hand'[h] = s /\ \A k \in Hands : k # h => hand'[k] = hand[k]
  BY <1>1
<1>3. s.status # "undealt"
  BY DEF Fits
<1> QED BY <1>2, <1>3 DEF SameForPot, ChipsOf, PotOf, PlayingOf, StageOf, Dealt, Brought

\* A player who is in moves chips between his stack and the pot.
LEMMA PotMoves ==
  ASSUME IInv, NEW h \in Hands, NEW s, NEW e, Fits(h, s, e), Store(h, s, e),
         UNCHANGED <<started, awards>>,
         hand[h].status = "betting", s.status = "betting",
         NEW p \in started[h].players \ hand[h].folded, NEW c \in Int,
         c <= hand[h].stack[p],
         s.stack = [hand[h].stack EXCEPT ![p] = hand[h].stack[p] - c],
         s.pot = hand[h].pot + c, s.folded = hand[h].folded
  PROVE  Pot!Next
<1>1. /\ hand[h].stack \in [Seats -> Int] /\ hand[h].pot \in Int /\ p \in Seats
  BY HandIsSound, HandFields, DealFields
<1>2. /\ \A k \in Hands : k # h => SameForPot(k)
      /\ ChipsOf(h)' = s.stack /\ PotOf(h)' = s.pot
      /\ PlayingOf(h)' = PlayingOf(h) /\ StageOf(h)' = StageOf(h)
      /\ ChipsOf(h) = hand[h].stack /\ PotOf(h) = hand[h].pot
      /\ p \in PlayingOf(h) /\ StageOf(h) # "paid"
  BY OneStores DEF ChipsOf, PotOf, PlayingOf, StageOf, Dealt
<1> DEFINE left == hand[h].stack[p] - c
<1>3. /\ ChipsOf(h)' = [ChipsOf(h) EXCEPT ![p] = left]
      /\ ChipsOf(h)'[p] = left /\ left >= 0
      /\ PotOf(h)' = PotOf(h) + ChipsOf(h)[p] - left
  BY <1>1, <1>2
<1> HIDE DEF left
<1>4. /\ AllChips' = [AllChips EXCEPT ![h][p] = left]
      /\ AllPots' = [AllPots EXCEPT ![h] = @ + AllChips[h][p] - left]
      /\ AllPlaying' = AllPlaying /\ AllStages' = AllStages
      /\ AllChips'[h][p] = left
      /\ AllStages[h] # "paid" /\ p \in AllPlaying[h]
  BY <1>2, <1>3 DEF AllChips, AllPots, AllPlaying, AllStages, SameForPot
<1>5. Pot!Move(h, p)
  BY <1>3, <1>4 DEF Pot!Move
<1>6. p \in Pot!Seats
  BY <1>1 DEF Pot!Seats, Seats
<1> QED BY <1>5, <1>6 DEF Pot!Next

\* A player gives up.
LEMMA PotGivenUp ==
  ASSUME IInv, NEW h \in Hands, NEW s, NEW e, Fits(h, s, e), Store(h, s, e),
         UNCHANGED <<started, awards>>,
         hand[h].status = "betting", s.status = "betting",
         NEW p \in started[h].players \ hand[h].folded,
         s.stack = hand[h].stack, s.pot = hand[h].pot,
         s.folded = hand[h].folded \cup {p}
  PROVE  Pot!Next
<1>1. p \in Seats
  BY HandIsSound, DealFields
<1>2. /\ \A k \in Hands : k # h => SameForPot(k)
      /\ ChipsOf(h)' = ChipsOf(h) /\ PotOf(h)' = PotOf(h)
      /\ PlayingOf(h)' = PlayingOf(h) \ {p} /\ StageOf(h)' = StageOf(h)
      /\ p \in PlayingOf(h) /\ StageOf(h) # "paid"
  BY OneStores DEF ChipsOf, PotOf, PlayingOf, StageOf, Dealt
<1>3. /\ AllChips' = AllChips /\ AllPots' = AllPots /\ AllStages' = AllStages
      /\ AllPlaying' = [AllPlaying EXCEPT ![h] = @ \ {p}]
      /\ AllStages[h] # "paid" /\ p \in AllPlaying[h]
  BY <1>2 DEF AllChips, AllPots, AllPlaying, AllStages, SameForPot
<1>4. Pot!GiveUp(h, p)
  BY <1>3 DEF Pot!GiveUp
<1>5. p \in Pot!Seats
  BY <1>1 DEF Pot!Seats, Seats
<1> QED BY <1>4, <1>5 DEF Pot!Next

\* The pot is paid, after it was awarded, to those who are in.
LEMMA PotPaid ==
  ASSUME IInv, NEW h \in Hands, NEW s, NEW e, Fits(h, s, e), Store(h, s, e),
         UNCHANGED <<started, awards>>,
         hand[h].status = "betting", s.status = "complete", awards[h] = 1,
         started[h].players \ hand[h].folded # {},
         \A p \in Seats \ (started[h].players \ hand[h].folded) :
           s.stack[p] = hand[h].stack[p],
         s.folded = hand[h].folded, s.pot = hand[h].pot
  PROVE  Pot!Next
<1>1. /\ \A k \in Hands : k # h => SameForPot(k)
      /\ ChipsOf(h)' = s.stack /\ PotOf(h)' = 0
      /\ PlayingOf(h)' = PlayingOf(h) /\ StageOf(h)' = "paid"
      /\ ChipsOf(h) = hand[h].stack /\ PotOf(h) = hand[h].pot
      /\ PlayingOf(h) # {} /\ StageOf(h) = "awarded"
      /\ \A p \in Seats \ PlayingOf(h) : s.stack[p] = hand[h].stack[p]
  BY OneStores DEF ChipsOf, PotOf, PlayingOf, StageOf, Dealt
<1>2. /\ hand[h].stack \in [Seats -> Int] /\ hand[h].pot \in Int
  BY HandIsSound, HandFields
<1>3. PotOf(h) > 0 => Total(s.stack) = Total(ChipsOf(h)) + PotOf(h)
  <2>1. Dealt(h) /\ Sound(hand[h], Brought(h)) /\ Sound(s, Brought(h))
    BY DEF Dealt, IInv, HandSound, Fits
  <2>2. Total(hand[h].stack) \in Int
    BY <1>2, TotalPay, SumToType, NumSeatsAssumption DEF Total, Seats
  <2> QED BY <1>1, <1>2, <2>1, <2>2 DEF Sound
<1>4. /\ AllChips' = [AllChips EXCEPT ![h] = s.stack]
      /\ AllPots' = [AllPots EXCEPT ![h] = 0]
      /\ AllPlaying' = AllPlaying /\ AllStages' = [AllStages EXCEPT ![h] = "paid"]
      /\ AllChips'[h] = s.stack
      /\ AllStages[h] = "awarded" /\ AllPlaying[h] # {}
      /\ \A p \in Pot!Seats \ AllPlaying[h] : s.stack[p] = AllChips[h][p]
      /\ AllPots[h] > 0 =>
           Pot!SumTo(s.stack, NumSeats) = Pot!SumTo(AllChips[h], NumSeats) + AllPots[h]
  <2>1. /\ Pot!Seats = Seats
        /\ Pot!SumTo(s.stack, NumSeats) = Total(s.stack)
        /\ Pot!SumTo(AllChips[h], NumSeats) = Total(AllChips[h])
    BY DEF Pot!Seats, Seats, Total, SumTo, PartialSums, Pot!SumTo, Pot!PartialSums
  <2> QED BY <1>1, <1>3, <2>1 DEF AllChips, AllPots, AllPlaying, AllStages, SameForPot
<1>5. Pot!Pay(h)
  BY <1>4 DEF Pot!Pay
<1> QED BY <1>5 DEF Pot!Next

\* Cards are dealt without a chip moving.
LEMMA DealForPot ==
  ASSUME IInv, NEW h \in Hands, Deal(h)
  PROVE  UNCHANGED Pot!vars
<1> DEFINE n(e) == apply_cards_dealt(hand[h], e)
<1>1. PICK e \in handle_deal(hand[h], started[h].draw,
                             [p \in started[h].players |-> started[h].stack[p]]) :
        Store(h, n(e), e)
  BY DEF Deal
<1>2. Fits(h, n(e), e) /\ UNCHANGED <<started, awards>>
  BY DealFits DEF Deal
<1>3. /\ hand[h] = NewHand /\ e.stack = Brought(h)
  <2>1. e = [type |-> "CardsDealt", draw |-> started[h].draw,
             players |-> started[h].players, stack |-> Brought(h)]
    BY DEF handle_deal, Brought
  <2>2. hand[h].status = "undealt"
    BY DEF handle_deal
  <2> QED BY <2>1, <2>2 DEF IInv, HandSound, Dealt
<1>4. /\ n(e).stack = Brought(h) /\ n(e).status = "betting"
      /\ n(e).pot = hand[h].pot /\ n(e).folded = hand[h].folded
      /\ hand[h].status = "undealt"
  BY <1>3 DEF apply_cards_dealt, NewHand
<1> HIDE DEF n
<1>5. SameForPot(h)
  BY <1>1, <1>2, <1>4, OneStores DEF SameForPot, ChipsOf, PotOf, PlayingOf, StageOf, Dealt
<1> QED BY <1>1, <1>2, <1>5, OneStores, PotStutters

\* A fold gives up; every other action moves chips.
LEMMA ActionForPot ==
  ASSUME IInv, NEW h \in Hands, NEW p \in Seats, NEW e,
         ActionAnswer(hand[h], p, e),
         Store(h, apply_action_taken(hand[h], e), e),
         UNCHANGED <<started, awards>>
  PROVE  Pot!Next
<1> DEFINE s == hand[h]
           n == apply_action_taken(s, e)
<1>1. Fits(h, n, e)
  BY ActionFits
<1>2. MayAct(s, p)
  BY HandIsSound, ActionCases
<1>3. /\ Sound(s, Brought(h)) /\ s.players = started[h].players
  BY <1>2 DEF MayAct, IInv, HandSound, Dealt
<1>4. PICK action \in Actions, amount \in Int, c \in Int :
        /\ e = ActionEvent(s, p, action, amount, c)
        /\ c <= s.stack[p]
        /\ action = "FOLD" => c = 0
  BY <1>3, ActionKinds
<1>5. s \in HandType /\ s.status = "betting" /\ p \in started[h].players \ s.folded
  BY <1>2, <1>3 DEF MayAct, Sound
<1>6. /\ n.stack = [s.stack EXCEPT ![p] = s.stack[p] - c] /\ n.pot = s.pot + c
      /\ n.folded = IF action = "FOLD" THEN s.folded \cup {p} ELSE s.folded
      /\ n.status = "betting"
  <2>1. n = Acted(s, p, action, amount, c)
    BY <1>4, <1>5, ActionEffect
  <2> HIDE DEF n
  <2> QED BY <1>5, <2>1 DEF Acted
<1>7. s.stack \in [Seats -> Int] /\ s.pot \in Int
  BY <1>5, HandFields
<1>8. CASE action = "FOLD"
  <2>1. n.stack = s.stack /\ n.pot = s.pot /\ n.folded = s.folded \cup {p}
    <3> HIDE DEF s, n
    <3> QED BY <1>4, <1>6, <1>7, <1>8
  <2> HIDE DEF n
  <2> QED BY <1>1, <1>5, <1>6, <2>1, PotGivenUp DEF n
<1>9. CASE action # "FOLD"
  <2>1. n.folded = s.folded
    BY <1>6, <1>9
  <2> QED BY <1>1, <1>4, <1>5, <1>6, <2>1, PotMoves
<1> QED BY <1>8, <1>9

\* A blind moves chips, community cards move none, and an award pays the pot.
LEMMA AcceptForPot ==
  ASSUME IInv, NEW c \in commands, Accept(c)
  PROVE  [Pot!Next]_(Pot!vars)
<1> DEFINE h == c.hand
           s == hand[h]
           n(e) == Applied(s, e)
<1>1. c \in Commands /\ h \in Hands
  BY DEF IInv, TypeOK, Commands
<1>2. PICK e \in Answers(s, c) : Store(h, n(e), e)
  BY DEF Accept
<1>3. Fits(h, n(e), e) /\ UNCHANGED <<started, awards>>
  BY CommandFits DEF Accept
<1>4. /\ s \in HandType /\ s.stack \in [Seats -> Int] /\ s.pot \in Int
  BY <1>1, HandIsSound, HandFields
<1>5. ASSUME s.status \notin {"undealt", "complete"}
      PROVE  /\ Sound(s, Brought(h)) /\ s.players = started[h].players
             /\ s.status = "betting"
  BY <1>1, <1>4, <1>5, HandFields DEF IInv, HandSound, Dealt
<1>6. CASE c.type = "PostBlind"
  <2>1. /\ c.player \in Seats /\ c.amount \in Int
    BY <1>1, <1>6 DEF Commands
  <2>2. /\ e \in handle_post_blind(s, c.player, c.blind_type, c.amount)
    BY <1>6 DEF Answers
  <2>3. /\ s.status \notin {"undealt", "complete"} /\ e.type = "BlindPosted"
        /\ c.player \in s.players \ s.folded
    BY <2>2 DEF handle_post_blind, BlindEvent
  <2>4. PICK x \in Nat : /\ x <= s.stack[c.player]
                         /\ e = BlindEvent(s, c.player, c.blind_type, x)
    BY <1>5, <2>1, <2>2, <2>3, BlindCases
  <2>5. n(e) = apply_blind_posted(s, BlindEvent(s, c.player, c.blind_type, x))
    BY <2>3, <2>4 DEF Applied
  <2> HIDE DEF n
  <2>6. /\ n(e).stack = [s.stack EXCEPT ![c.player] = s.stack[c.player] - x]
        /\ n(e).pot = s.pot + x /\ n(e).folded = s.folded /\ n(e).status = "betting"
    BY <1>4, <2>1, <2>5, BlindEffect
  <2>7. x \in Int /\ c.player \in started[h].players \ s.folded /\ s.status = "betting"
    BY <1>5, <2>3
  <2> QED BY <1>1, <1>2, <1>3, <2>4, <2>6, <2>7, PotMoves
<1>7. CASE c.type = "DealCommunityCards"
  <2>1. e \in handle_deal_community(s, c.count)
    BY <1>7 DEF Answers
  <2>2. e.type = "CommunityCardsDealt" /\ s.status \notin {"undealt", "complete"}
    BY <2>1 DEF handle_deal_community
  <2>3. n(e) = apply_community_dealt(s, e)
    BY <2>2 DEF Applied
  <2>4. /\ n(e).stack = s.stack /\ n(e).pot = s.pot /\ n(e).folded = s.folded
        /\ n(e).status = "betting" /\ s.status = "betting"
    BY <1>4, <1>5, <2>2, <2>3 DEF apply_community_dealt, HandType
  <2> HIDE DEF n
  <2>5. SameForPot(h)
    BY <1>1, <1>2, <1>3, <2>4, OneStores
       DEF SameForPot, ChipsOf, PotOf, PlayingOf, StageOf, Dealt
  <2>6. UNCHANGED Pot!vars
    BY <1>1, <1>2, <1>3, <2>5, OneStores, PotStutters
  <2> QED BY <2>6
<1>8. CASE c.type = "AwardPot"
  <2>1. c.winners \in SUBSET Seats /\ c.awards \in [Seats -> Int]
    BY <1>1, <1>8 DEF Commands
  <2>2. PICK first \in c.winners :
          e \in handle_award_pot(s, first, c.awards[first],
                                 [p \in c.winners \ {first} |-> c.awards[p]])
    BY <1>8 DEF Answers
  <2> DEFINE named == c.winners \ {first}
             others == [p \in named |-> c.awards[p]]
             amount == c.awards[first]
  <2>3. /\ first \in Seats /\ amount \in Int /\ named \in SUBSET Seats
        /\ others \in [named -> Int]
    BY <2>1
  <2>4. e \in handle_award_pot(s, first, amount, others)
    BY <2>2
  <2> HIDE DEF named, others, amount
  <2>5. s.status \notin {"undealt", "complete"} /\ e.type = "PotAwarded"
    BY <2>4 DEF handle_award_pot
  <2>6. n(e) = apply_hand_complete(apply_pot_awarded(s, e))
    BY <2>5 DEF Applied
  <2>7. awards[h] = 1 /\ s.status = "betting" /\ s.players = started[h].players
    BY <1>5, <1>8, <2>5 DEF IInv, AwardNamesAll
  <2>8. /\ n(e).folded = s.folded /\ n(e).stack = final_stacks(s, e)
        /\ first \in s.players \ s.folded
        /\ \A p \in Seats \ (s.players \ s.folded) : final_stacks(s, e)[p] = s.stack[p]
    <3>1. Sound(s, Brought(h))
      BY <1>5, <2>5
    <3> HIDE DEF s, n
    <3> QED BY <2>3, <2>4, <2>6, <3>1, AwardApplied
  <2>9. n(e).status = "complete" /\ n(e).pot = s.pot
    BY <1>4, <2>6 DEF apply_pot_awarded, apply_hand_complete, HandType
  <2> HIDE DEF n
  <2> QED BY <1>1, <1>2, <1>3, <2>7, <2>8, <2>9, PotPaid
<1> QED BY <1>1, <1>6, <1>7, <1>8 DEF Commands

\* At most one pot is awarded by what the process manager sees, and for the
\* first time.
LEMMA SeeForPot ==
  ASSUME IInv, IInv', NEW h \in Hands, See(h)
  PROVE  [Pot!Next]_(Pot!vars)
<1> DEFINE e == Head(pending[h])
           roots == started[h].root
           counted(o, k) == {c \in o.commands : c.type = "AwardPot" /\ c.hand = k}
<1>1. PICK o \in Handle(processes, h, roots, e) :
        awards' = [k \in Hands |-> awards[k] + Cardinality(counted(o, k))]
  BY DEF See
<1>2. UNCHANGED <<started, hand>> /\ pending[h] # <<>>
  BY DEF See
<1>3. SoundOutcome(processes, h, roots, e, o)
  <2>1. e \in HandEvents /\ processes \in Processes
    BY <1>2, HeadTailProperties DEF IInv, TypeOK, Processes
  <2> QED BY <1>1, <2>1, HandleSound
<1>4. /\ awards \in [Hands -> Nat] /\ awards' \in [Hands -> Nat]
      /\ \A k \in Hands : awards[k] \in {0, 1} /\ awards'[k] \in {0, 1}
  BY DEF IInv, TypeOK, AwardSound
<1>5. \A k \in Hands : awards'[k] = awards[k] + Cardinality(counted(o, k))
  BY <1>1
<1>6. ASSUME NEW k \in Hands, counted(o, k) = {} PROVE awards'[k] = awards[k]
  BY <1>4, <1>5, <1>6, FS_EmptySet
<1>7. CASE \A k \in Hands : awards'[k] = awards[k]
  <2>1. \A k \in Hands : SameForPot(k)
    BY <1>2, <1>7 DEF SameForPot, ChipsOf, PotOf, PlayingOf, StageOf, Dealt, Brought
  <2> QED BY <2>1, PotStutters
<1>8. ASSUME NEW k \in Hands, awards'[k] # awards[k] PROVE Pot!Next
  <2>1. \A j \in Hands : j # k => awards'[j] = awards[j]
    <3>1. \A j \in Hands : j # k => counted(o, j) = {}
      BY <1>3, <1>6, <1>8 DEF SoundOutcome, Commanded
    <3> QED BY <1>6, <3>1
  <2>2. awards[k] = 0 /\ awards'[k] = 1
    <3>1. Cardinality(counted(o, k)) \in Nat
      <4>1. IsFiniteSet(counted(o, k))
        <5>1. counted(o, k) = {} \/ \E c : counted(o, k) = {c}
          <6>1. o.commands = {} \/ \E c : o.commands = {c}
            BY <1>3 DEF SoundOutcome, Commanded
          <6> QED BY <6>1
        <5> HIDE DEF counted
        <5> QED BY <5>1, FS_EmptySet, FS_Singleton
      <4> QED BY <4>1, FS_CardinalityType
    <3> HIDE DEF counted
    <3> QED BY <1>4, <1>5, <1>8, <3>1
  <2>3. hand[k].status # "complete"
    BY <2>2 DEF IInv, AwardSound
  <2>4. /\ StageOf(k) = "open" /\ StageOf(k)' = "awarded"
    BY <1>2, <2>2, <2>3 DEF StageOf
  <2>5. /\ \A j \in Hands : j # k => SameForPot(j)
        /\ ChipsOf(k)' = ChipsOf(k) /\ PotOf(k)' = PotOf(k)
        /\ PlayingOf(k)' = PlayingOf(k)
    BY <1>2, <2>1 DEF SameForPot, ChipsOf, PotOf, PlayingOf, StageOf, Dealt, Brought
  <2>6. /\ AllChips' = AllChips /\ AllPots' = AllPots /\ AllPlaying' = AllPlaying
        /\ AllStages[k] = "open" /\ AllStages' = [AllStages EXCEPT ![k] = "awarded"]
    BY <2>4, <2>5 DEF AllChips, AllPots, AllPlaying, AllStages, SameForPot
  <2> QED BY <2>6 DEF Pot!Next, Pot!Award
<1> QED BY <1>7, <1>8

LEMMA PotInit == Init => Pot!Init
<1> SUFFICES ASSUME Init PROVE Pot!Init
  OBVIOUS
<1>1. \A h \in Hands : started[h] \in DealType
  BY DealsAssumption DEF Init
<1>2. \A h \in Hands : hand[h] = NewHand /\ awards[h] = 0
  BY DEF Init
<1>3. ASSUME NEW h \in Hands
      PROVE  /\ ChipsOf(h) \in [Seats -> Nat] /\ PlayingOf(h) \in SUBSET Seats
             /\ PotOf(h) = 0 /\ StageOf(h) = "open"
  <2>1. /\ started[h].stack \in [Seats -> Nat] /\ started[h].players \in SUBSET Seats
    BY <1>1, DealFields
  <2> QED BY <1>2, <2>1 DEF ChipsOf, PotOf, PlayingOf, StageOf, NewHand, Dealt, Brought
<1>4. /\ AllChips \in [Hands -> [Seats -> Nat]] /\ AllPlaying \in [Hands -> SUBSET Seats]
      /\ AllPots = [h \in Hands |-> 0] /\ AllStages = [h \in Hands |-> "open"]
  BY <1>3 DEF AllChips, AllPots, AllPlaying, AllStages
<1> QED BY <1>4 DEF Pot!Init, Pot!Seats, Seats

\* Every step is a step of HandPot, or nothing for it.
LEMMA PotNext == IInv /\ IInv' /\ [Next]_vars => [Pot!Next]_(Pot!vars)
<1> SUFFICES ASSUME IInv, IInv', [Next]_vars PROVE [Pot!Next]_(Pot!vars)
  OBVIOUS
<1>1. ASSUME UNCHANGED <<started, hand, awards>> PROVE UNCHANGED Pot!vars
  <2>1. \A h \in Hands : SameForPot(h)
    BY <1>1 DEF SameForPot, ChipsOf, PotOf, PlayingOf, StageOf, Dealt, Brought
  <2> QED BY <2>1, PotStutters
<1>2. ASSUME NEW h \in Hands, NEW p \in Seats, NEW events,
             PlayerActs(h, p, events), \A e \in events : ActionAnswer(hand[h], p, e)
      PROVE  Pot!Next
  BY <1>2, ActionForPot DEF PlayerActs
<1>3. ASSUME NEW h \in Hands, PlayerMoves(h) PROVE Pot!Next
  BY <1>2, <1>3, MovesAnswer, Zenon
<1>4. ASSUME NEW h \in Hands, Start(h) PROVE UNCHANGED Pot!vars
  BY <1>1, <1>4 DEF Start
<1>5. Restart => UNCHANGED Pot!vars
  BY <1>1 DEF Restart
<1>6. ASSUME NEW c \in commands, Refuse(c) PROVE UNCHANGED Pot!vars
  BY <1>1, <1>6 DEF Refuse
<1>7. UNCHANGED vars => UNCHANGED Pot!vars
  BY <1>1 DEF vars
<1> QED BY <1>3, <1>4, <1>5, <1>6, <1>7, DealForPot, SeeForPot, AcceptForPot DEF Next

\* Aggregate and process manager together implement HandPot, with any number
\* of hands, in and out of turn, with restarts or without.
THEOREM PotHolds == Spec => ImplementsPot
<1>1. IInv /\ IInv' /\ [Next]_vars => [Pot!Next]_(Pot!vars)
  BY PotNext
<1> QED BY <1>1, PotInit, Invariance, PTL DEF Spec, ImplementsPot, Pot!Spec


-----------------------------------------------------------------------------
(***************************************************************************)
(* One hand, played in turn.                                               *)
(*                                                                         *)
(* With several hands the blinds and actions of one are applied to the     *)
(* process of another, so that the two sides need not agree.  Out of turn  *)
(* an action may be taken while blinds are still to be posted, and the pot *)
(* need not be paid exactly.  What follows is about one hand whose players *)
(* wait for their turn, with restarts or without.                          *)
(***************************************************************************)
OneHand == \A h, k \in Hands : h = k

\* The process has what the aggregate has.
Agree(pr, s) ==
  /\ \A p \in s.players : pr.stack[p] = s.stack[p]
  /\ pr.pot_total = s.pot
  /\ pr.has_folded = s.folded /\ pr.is_all_in = s.all_in

\* It will, once it has seen event e.
WillAgree(pr, s, e) ==
  /\ e.player \in s.players
  /\ \A p \in s.players : s.stack[p] = IF p = e.player THEN e.player_stack ELSE pr.stack[p]
  /\ s.pot = e.pot_total
  /\ s.folded = pr.has_folded \cup Did(e, "FOLD")
  /\ s.all_in = pr.is_all_in \cup Did(e, "ALL_IN")

\* Nothing is to be seen, or only one event of a type.
Follows(h, type) ==
  \/ pending[h] = <<>> /\ Agree(processes[h], hand[h])
  \/ /\ Len(pending[h]) = 1 /\ pending[h][1].type = type
     /\ WillAgree(processes[h], hand[h], pending[h][1])

\* Until the process manager sees the cards dealt, nothing else happens.
DealTurn(h) ==
  ~ DealSeen(h) =>
    /\ commands = {}
    /\ Started(h) => processes[h].phase = "DEALING"
    /\ Dealt(h) => /\ Len(pending[h]) = 1
                   /\ hand[h].stack = Brought(h) /\ hand[h].pot = 0
                   /\ hand[h].folded = {} /\ hand[h].all_in = {}
                   /\ Quiet(hand[h], started[h].small)

\* A process is fresh until then, and never gets to community cards.
DealingTurn(h) ==
  Started(h) =>
    /\ processes[h].betting_phase = "UNSPECIFIED"
    /\ processes[h].phase \in {"DEALING", "POSTING_BLINDS", "BETTING", "COMPLETE"}
    /\ processes[h].phase = "DEALING" =>
         /\ processes[h].stack = started[h].stack /\ processes[h].pot_total = 0
         /\ processes[h].has_folded = {} /\ processes[h].is_all_in = {}

\* In the blinds a blind is commanded, or posted and not yet seen, and nobody
\* has folded.
BlindsTurn(h) ==
  Started(h) /\ processes[h].phase = "POSTING_BLINDS" =>
    /\ hand[h].status = "betting" /\ hand[h].folded = {}
    /\ Follows(h, "BlindPosted")
    /\ pending[h] # <<>> =>
         /\ commands = {}
         /\ pending[h][1].blind_type # "big" => Quiet(hand[h], started[h].small)

\* In the betting nothing is commanded, and it is somebody's turn who can act.
BettingTurn(h) ==
  Betting(h) =>
    /\ hand[h].status = "betting" /\ commands = {}
    /\ Follows(h, "ActionTaken")
    /\ is_betting_complete(processes[h]) \/ processes[h].action_on \in ToAct(processes[h])

\* One command at a time is on its way: a blind of who has it, or an award to
\* some who are in, of nothing if nothing is in the pot.
CommandTurn(c) ==
  /\ commands = {c} /\ hand[c.hand].status = "betting"
  /\ c.type = "PostBlind" =>
       /\ Quiet(hand[c.hand], started[c.hand].small)
       /\ hand[c.hand].folded = {} /\ c.amount > 0
       /\ c.player = IF c.blind_type = "big" THEN started[c.hand].big
                                             ELSE started[c.hand].small
  /\ c.type = "AwardPot" =>
       /\ c.winners # {} /\ c.winners \subseteq hand[c.hand].players \ hand[c.hand].folded
       /\ hand[c.hand].pot = 0 => \A p \in Seats : c.awards[p] = 0
  /\ c.type # "DealCommunityCards"

TurnOf(h) ==
  /\ Owing(hand[h], started[h].small)
  /\ DealTurn(h) /\ DealingTurn(h) /\ BlindsTurn(h) /\ BettingTurn(h)
  /\ hand[h].status = "complete" => Total(hand[h].stack) = Total(Brought(h))

TurnInv ==
  /\ \A h \in Hands : TurnOf(h)
  /\ \A c \in commands : CommandTurn(c)

LEMMA TurnInit == Init => TurnInv
<1> SUFFICES ASSUME Init, NEW h \in Hands PROVE TurnOf(h)
  BY DEF Init, TurnInv
<1>1. /\ hand[h] = NewHand /\ processes[h] = Unstarted /\ commands = {}
      /\ started[h] \in DealType
  BY DealsAssumption DEF Init
<1>2. Owing(hand[h], started[h].small)
  BY <1>1, DealFields, NewHandOwing
<1>3. hand[h].status = "undealt"
  BY <1>1 DEF NewHand
<1> QED BY <1>1, <1>2, <1>3
      DEF TurnOf, DealTurn, DealingTurn, BlindsTurn, BettingTurn, Betting, Started, Dealt

-----------------------------------------------------------------------------
(***************************************************************************)
(* What the process makes of the next event.                               *)
(***************************************************************************)

\* A blind that is seen makes the process agree.
LEMMA BlindAgrees ==
  ASSUME NEW pr \in ProcessType, NEW s \in HandType, NEW e \in HandEvents,
         e.type = "BlindPosted", WillAgree(pr, s, e)
  PROVE  Agree(BlindSeen(pr, TRUE, e), s)
<1> DEFINE q == BlindSeen(pr, TRUE, e)
<1>1. /\ q.has_folded = pr.has_folded /\ q.is_all_in = pr.is_all_in
      /\ q.pot_total = e.pot_total
      /\ q.stack = [pr.stack EXCEPT ![e.player] = e.player_stack]
  BY BlindSeenType
<1>2. pr.stack \in [Seats -> Int] /\ s.players \subseteq Seats
  BY ProcessFields, HandFields
<1> HIDE DEF q
<1>3. s.folded = pr.has_folded /\ s.all_in = pr.is_all_in
  BY DEF WillAgree, Did
<1> QED BY <1>1, <1>2, <1>3 DEF WillAgree, Agree, q

\* What an action that is seen makes of its process, before the turn goes on.
AfterAction(pr, e) == [ActionSeen(pr, e) EXCEPT !.pot_total = e.pot_total]

\* So does an action.
LEMMA ActionAgrees ==
  ASSUME NEW pr \in ProcessType, NEW s \in HandType, NEW e \in HandEvents,
         e.type = "ActionTaken", WillAgree(pr, s, e)
  PROVE  /\ AfterAction(pr, e) \in ProcessType /\ AfterAction(pr, e).deal = pr.deal
         /\ AfterAction(pr, e).phase = pr.phase
         /\ AfterAction(pr, e).betting_phase = pr.betting_phase
         /\ Agree(AfterAction(pr, e), s)
<1> DEFINE a == ActionSeen(pr, e)
           q == AfterAction(pr, e)
<1>1. /\ a \in ProcessType /\ a.deal = pr.deal /\ a.phase = pr.phase
      /\ a.betting_phase = pr.betting_phase
      /\ a.has_folded = pr.has_folded \cup Did(e, "FOLD")
      /\ a.is_all_in = pr.is_all_in \cup Did(e, "ALL_IN")
      /\ a.stack = [pr.stack EXCEPT ![e.player] = e.player_stack]
  BY ActionSeenType
<1>2. q = [a EXCEPT !.pot_total = e.pot_total] /\ e.pot_total \in Int
  BY DEF HandEvents, AfterAction
<1> HIDE DEF a, q
<1>3. /\ q \in ProcessType /\ q.deal = a.deal /\ q.phase = a.phase
      /\ q.betting_phase = a.betting_phase /\ q.pot_total = e.pot_total
      /\ q.has_folded = a.has_folded /\ q.is_all_in = a.is_all_in /\ q.stack = a.stack
  BY <1>1, <1>2 DEF ProcessType
<1>4. pr.stack \in [Seats -> Int] /\ s.players \subseteq Seats
  BY ProcessFields, HandFields
<1>5. Agree(q, s)
  BY <1>1, <1>3, <1>4 DEF WillAgree, Agree
<1> QED BY <1>1, <1>3, <1>5 DEF q

\* Nothing is awarded from an empty pot.
LEMMA AwardOfNothing ==
  ASSUME NEW h \in Hands, NEW pr \in ProcessType, pr.pot_total = 0,
         NEW c \in build_award_pot_cmd(h, pr), NEW p \in Seats
  PROVE  c.awards[p] = 0
<1> DEFINE n == Larger(1, Cardinality(InHand(pr)))
           split == Quotient(pr.pot_total, n)
           left == Larger(0, pr.pot_total - split * n)
<1>1. IsFiniteSet(InHand(pr)) /\ Cardinality(InHand(pr)) \in Nat
  <2>1. InHand(pr) \in SUBSET Seats
    BY ProcessFields, DealFields DEF InHand
  <2>2. IsFiniteSet(Seats)
    BY NumSeatsAssumption, FS_Interval DEF Seats
  <2> QED BY <2>1, <2>2, FS_Subset, FS_CardinalityType
<1>2. n \in Nat /\ n >= 1
  BY <1>1 DEF Larger
<1>3. split = 0
  <2> HIDE DEF n
  <2>1. 0 \div n = 0
    BY <1>2
  <2> QED BY <2>1 DEF Quotient
<1>4. left = 0
  <2> HIDE DEF split, n
  <2> QED BY <1>2, <1>3 DEF Larger
<1>5. PICK S \in SUBSET InHand(pr) :
        /\ Cardinality(S) = left
        /\ c.awards = [q \in Seats |-> IF q \in InHand(pr)
                          THEN split + (IF q \in S THEN 1 ELSE 0) ELSE 0]
  BY DEF build_award_pot_cmd
<1>6. S = {}
  <2>1. IsFiniteSet(S)
    BY <1>1, FS_Subset
  <2> HIDE DEF left
  <2> QED BY <1>4, <1>5, <2>1, FS_EmptySet
<1> HIDE DEF split, left
<1> QED BY <1>3, <1>5, <1>6

\* A round ends with an award, or with nothing: betting_phase is unset.
LEMMA EndTurn ==
  ASSUME NEW ps, NEW h, NEW pr \in ProcessType,
         pr.betting_phase = "UNSPECIFIED", NEW o \in end_betting_round(ps, h, pr)
  PROVE  \/ /\ o.processes = [ps EXCEPT ![h] = [pr EXCEPT !.phase = "COMPLETE"]]
            /\ \E c \in build_award_pot_cmd(h, pr) : o.commands = {c}
            /\ InHand(pr) # {}
         \/ o.processes = [ps EXCEPT ![h] = pr] /\ o.commands = {}
<1> DEFINE q(phase) == [pr EXCEPT !.phase = phase]
           becomes(phase, cs) == Outcome([ps EXCEPT ![h] = q(phase)], cs)
<1>1. \/ /\ \E c \in build_award_pot_cmd(h, pr) : o = becomes("COMPLETE", {c})
         /\ Cardinality(InHand(pr)) = 1
      \/ o = becomes(pr.phase, {})
  BY DEF end_betting_round, community_cards
<1>2. q(pr.phase) = pr
  BY DEF ProcessType
<1>3. \A phase, cs :
        /\ becomes(phase, cs).processes = [ps EXCEPT ![h] = q(phase)]
        /\ becomes(phase, cs).commands = cs
  BY DEF Outcome
<1>4. q("COMPLETE") = [pr EXCEPT !.phase = "COMPLETE"]
  OBVIOUS
<1> HIDE DEF q
<1>5. ASSUME NEW phase, NEW cs, o = becomes(phase, cs)
      PROVE  o.processes = [ps EXCEPT ![h] = q(phase)] /\ o.commands = cs
  BY <1>3, <1>5
<1> HIDE DEF becomes
<1>6. CASE /\ \E c \in build_award_pot_cmd(h, pr) : o = becomes("COMPLETE", {c})
           /\ Cardinality(InHand(pr)) = 1
  <2>1. InHand(pr) # {}
    BY <1>6, FS_EmptySet
  <2>2. PICK c \in build_award_pot_cmd(h, pr) : o = becomes("COMPLETE", {c})
    BY <1>6
  <2>3. o.processes = [ps EXCEPT ![h] = q("COMPLETE")] /\ o.commands = {c}
    BY <1>5, <2>2
  <2> QED BY <1>4, <2>1, <2>2, <2>3
<1>7. CASE o = becomes(pr.phase, {})
  <2>1. o.processes = [ps EXCEPT ![h] = q(pr.phase)] /\ o.commands = {}
    BY <1>5, <1>7
  <2> QED BY <1>2, <2>1
<1> QED BY <1>1, <1>6, <1>7

-----------------------------------------------------------------------------
(***************************************************************************)
(* Each step of a hand in turn.                                            *)
(***************************************************************************)

\* What storing an event leaves to be seen.
LEMMA Stored ==
  ASSUME IInv, NEW h \in Hands, NEW s \in HandType, NEW e \in HandEvents, Store(h, s, e)
  PROVE  /\ hand'[h] = s
         /\ pending'[h] # <<>>
         /\ pending[h] = <<>> => Len(pending'[h]) = 1 /\ pending'[h][1] = e
         /\ DealSeen(h) /\ s.status # "undealt" /\ e.type # "CardsDealt" => DealSeen(h)'
<1>1. /\ hand \in [Hands -> HandType] /\ pending \in [Hands -> Seq(HandEvents)]
  BY DEF IInv, TypeOK
<1>2. hand'[h] = s /\ pending'[h] = Append(pending[h], e)
  BY <1>1 DEF Store
<1>3. /\ Append(pending[h], e) \in Seq(HandEvents)
      /\ Len(Append(pending[h], e)) = Len(pending[h]) + 1
      /\ Len(pending[h]) \in Nat
      /\ \A i \in 1 .. Len(pending[h]) : Append(pending[h], e)[i] = pending[h][i]
      /\ Append(pending[h], e)[Len(pending[h]) + 1] = e
  BY <1>1, AppendProperties, LenProperties
<1>4. pending'[h] # <<>>
  BY <1>2, <1>3, EmptySeq
<1>5. pending[h] = <<>> => Len(pending'[h]) = 1 /\ pending'[h][1] = e
  BY <1>2, <1>3, EmptySeq
<1>6. ASSUME DealSeen(h), s.status # "undealt", e.type # "CardsDealt"
      PROVE  DealSeen(h)'
  <2>1. ASSUME NEW i \in 1 .. Len(pending'[h]) PROVE pending'[h][i].type # "CardsDealt"
    <3>1. i \in 1 .. Len(pending[h]) \/ i = Len(pending[h]) + 1
      BY <1>2, <1>3, <2>1
    <3> QED BY <1>2, <1>3, <1>6, <3>1 DEF DealSeen
  <2> QED BY <1>2, <1>6, <2>1 DEF DealSeen, Dealt
<1> QED BY <1>2, <1>4, <1>5, <1>6

\* The next event is the only one there is, wherever an invariant says there
\* is one; CardsDealt is seen first.
LEMMA Seen ==
  ASSUME IInv, TurnInv, NEW h \in Hands, See(h)
  PROVE  /\ Head(pending[h]) = pending[h][1] /\ pending[h] # <<>>
         /\ Head(pending[h]) \in HandEvents
         /\ Len(pending[h]) = 1 => pending'[h] = <<>>
         /\ DealSeen(h)'
         /\ Head(pending[h]).type = "CardsDealt" <=> ~ DealSeen(h)
<1> DEFINE e == Head(pending[h])
           rest == Tail(pending[h])
<1>1. /\ pending \in [Hands -> Seq(HandEvents)] /\ pending[h] # <<>>
      /\ pending'[h] = rest /\ hand' = hand
  BY DEF IInv, TypeOK, See
<1>2. /\ e \in HandEvents /\ rest \in Seq(HandEvents)
      /\ Len(pending[h]) \in Nat /\ Len(rest) = Len(pending[h]) - 1
      /\ Len(pending[h]) >= 1 /\ e = pending[h][1]
      /\ \A i \in 1 .. Len(rest) : rest[i] = pending[h][i + 1]
  BY <1>1, HeadTailProperties, EmptySeq, LenProperties
<1> HIDE DEF e, rest
<1>3. Len(pending[h]) = 1 => pending'[h] = <<>>
  BY <1>1, <1>2, EmptySeq
<1>4. PendingSound(h) /\ Dealt(h)
  BY <1>1 DEF IInv, PendingSound
<1>5. DealSeen(h)'
  <2>1. ASSUME NEW i \in 1 .. Len(rest) PROVE rest[i].type # "CardsDealt"
    <3>1. i + 1 \in 1 .. Len(pending[h]) /\ i + 1 # 1 /\ rest[i] = pending[h][i + 1]
      BY <1>2, <2>1
    <3> QED BY <1>4, <3>1 DEF PendingSound
  <2> QED BY <1>1, <1>4, <2>1 DEF DealSeen, Dealt
<1>6. e.type = "CardsDealt" <=> ~ DealSeen(h)
  <2>1. e.type = "CardsDealt" => ~ DealSeen(h)
    BY <1>2 DEF DealSeen
  <2>2. ASSUME ~ DealSeen(h) PROVE e.type = "CardsDealt"
    <3>1. PICK i \in 1 .. Len(pending[h]) : pending[h][i].type = "CardsDealt"
      BY <1>4, <2>2 DEF DealSeen
    <3> QED BY <1>2, <1>4, <3>1 DEF PendingSound
  <2> QED BY <2>1, <2>2
<1> QED BY <1>1, <1>2, <1>3, <1>5, <1>6 DEF e

\* Where no blinds and no betting go on, only what was dealt matters.
LEMMA IdleTurn ==
  ASSUME TurnInv, OneHand, NEW h \in Hands,
         UNCHANGED <<started, hand, commands>>,
         DealTurn(h)', DealingTurn(h)',
         Started(h)' => processes'[h].phase \in {"DEALING", "COMPLETE"}
  PROVE  TurnInv'
<1>1. BlindsTurn(h)' /\ BettingTurn(h)'
  BY DEF BlindsTurn, BettingTurn, Betting, Started
<1>2. TurnOf(h)'
  BY <1>1 DEF TurnInv, TurnOf, Brought
<1>3. \A c \in commands' : CommandTurn(c)'
  BY DEF TurnInv, CommandTurn
<1> QED BY <1>2, <1>3 DEF OneHand, TurnInv

LEMMA StartTurn ==
  ASSUME IInv, TurnInv, OneHand, NEW h \in Hands, Start(h)
  PROVE  TurnInv'
<1> DEFINE q == [phase |-> "DEALING", betting_phase |-> "UNSPECIFIED",
                 deal |-> started[h], stack |-> started[h].stack,
                 bet_this_round |-> NoChips, has_acted |-> {}, has_folded |-> {},
                 is_all_in |-> {}, action_on |-> -1, current_bet |-> 0,
                 pot_total |-> 0, posted |-> {}]
<1>1. /\ processes' = [processes EXCEPT ![h] = q]
      /\ UNCHANGED <<started, hand, pending, commands, awards, actions>>
  BY DEF Start, start_hand, Outcome
<1>2. processes'[h] = q
  BY <1>1 DEF IInv, TypeOK
<1>3. /\ q.phase = "DEALING" /\ q.betting_phase = "UNSPECIFIED"
      /\ q.stack = started[h].stack /\ q.pot_total = 0
      /\ q.has_folded = {} /\ q.is_all_in = {}
  OBVIOUS
<1> HIDE DEF q
<1>4. DealingTurn(h)'
  BY <1>1, <1>2, <1>3 DEF DealingTurn
<1>5. DealTurn(h)'
  BY <1>1, <1>2, <1>3 DEF TurnInv, TurnOf, DealTurn, DealSeen, Dealt, Brought
<1> QED BY <1>1, <1>2, <1>3, <1>4, <1>5, IdleTurn

LEMMA RestartTurn ==
  ASSUME TurnInv, OneHand, Restart
  PROVE  TurnInv'
<1>1. /\ processes' = [h \in Hands |-> Unstarted]
      /\ UNCHANGED <<started, hand, pending, commands>>
  BY DEF Restart
<1>2. ASSUME NEW h \in Hands PROVE TurnInv'
  <2>1. ~ Started(h)'
    BY <1>1 DEF Started
  <2>2. DealingTurn(h)' /\ DealTurn(h)'
    BY <1>1, <2>1 DEF DealingTurn, TurnInv, TurnOf, DealTurn, DealSeen, Dealt, Brought
  <2> QED BY <1>1, <2>1, <2>2, IdleTurn
<1>3. CASE Hands = {}
  <2>1. \A c \in commands' : CommandTurn(c)'
    BY <1>1 DEF TurnInv, CommandTurn
  <2> QED BY <1>3, <2>1 DEF TurnInv
<1> QED BY <1>2, <1>3

LEMMA DealHandTurn ==
  ASSUME IInv, TurnInv, OneHand, NEW h \in Hands, Deal(h)
  PROVE  TurnInv'
<1>1. PICK e \in handle_deal(hand[h], started[h].draw,
                             [p \in started[h].players |-> started[h].stack[p]]) :
        Store(h, apply_cards_dealt(hand[h], e), e)
  BY DEF Deal
<1>2. UNCHANGED <<started, processes, commands, awards, actions>>
  BY DEF Deal
<1> DEFINE n == apply_cards_dealt(hand[h], e)
<1>3. Fits(h, n, e)
  BY DealFits
<1>4. e.type = "CardsDealt" /\ e.stack = Brought(h) /\ hand[h].status = "undealt"
  <2>1. e = [type |-> "CardsDealt", draw |-> started[h].draw,
             players |-> started[h].players, stack |-> Brought(h)]
    BY DEF handle_deal, Brought
  <2>2. hand[h].status = "undealt"
    BY DEF handle_deal
  <2> QED BY <2>1, <2>2
<1>5. hand[h] = NewHand /\ ~ Dealt(h) /\ pending[h] = <<>>
  BY <1>4 DEF IInv, HandSound, PendingSound, Dealt
<1>6. n = [NewHand EXCEPT !.status = "betting", !.phase = "PREFLOP", !.draw = e.draw,
                          !.players = e.players, !.stack = e.stack, !.pot = 0]
  BY <1>5 DEF apply_cards_dealt
<1>7. n \in HandType /\ e \in HandEvents
  BY <1>3 DEF Fits, Sound
<1>8. /\ n.status = "betting" /\ n.stack = Brought(h) /\ n.pot = 0
      /\ n.folded = {} /\ n.all_in = {} /\ n.current_bet = 0 /\ n.min_raise = 0
      /\ n.bet_this_round = NoChips
  BY <1>4, <1>6 DEF NewHand
<1> HIDE DEF n
<1>9. /\ hand'[h] = n /\ Len(pending'[h]) = 1 /\ pending'[h][1] = e
  BY <1>1, <1>5, <1>7, Stored DEF n
<1>10. Owing(n, started[h].small) /\ Quiet(n, started[h].small)
  <2>1. started[h].small \in Seats
    BY HandIsSound, DealFields
  <2> QED BY <1>8, <2>1 DEF Owing, Quiet, NoChips
<1>11. ~ DealSeen(h) /\ TurnOf(h)
  BY <1>5 DEF DealSeen, TurnInv
<1>12. commands = {} /\ (Started(h) => processes[h].phase = "DEALING")
  BY <1>11 DEF TurnOf, DealTurn
<1>13. DealTurn(h)'
  BY <1>2, <1>8, <1>9, <1>10, <1>12 DEF DealTurn, Started, Dealt, Brought
<1>14. (DealingTurn(h) /\ BlindsTurn(h) /\ BettingTurn(h))'
  BY <1>2, <1>11, <1>12 DEF TurnOf, DealingTurn, BlindsTurn, BettingTurn, Betting, Started
<1>15. TurnOf(h)'
  BY <1>2, <1>8, <1>9, <1>10, <1>13, <1>14 DEF TurnOf
<1> QED BY <1>2, <1>12, <1>15 DEF OneHand, TurnInv

LEMMA RefuseTurn ==
  ASSUME TurnInv, NEW c \in commands, Refuse(c)
  PROVE  TurnInv'
<1>1. UNCHANGED <<started, hand, processes, pending>> /\ commands' = commands \ {c}
  BY DEF Refuse
<1>2. commands' = {}
  BY <1>1 DEF TurnInv, CommandTurn
<1>3. ASSUME NEW h \in Hands PROVE TurnOf(h)'
  <2>1. TurnOf(h)
    BY DEF TurnInv
  <2> QED BY <1>1, <1>2, <2>1
          DEF TurnOf, DealTurn, DealingTurn, BlindsTurn, BettingTurn, Betting, Started,
              Dealt, DealSeen, Brought, Follows
<1> QED BY <1>2, <1>3 DEF TurnInv

\* Once the process has seen what a player in turn did, it has what the
\* aggregate has.
LEMMA ActionWillAgree ==
  ASSUME NEW s, NEW d, Sound(s, d), NEW p \in Seats, NEW e, ActionAnswer(s, p, e),
         NEW pr, Agree(pr, s)
  PROVE  /\ WillAgree(pr, apply_action_taken(s, e), e)
         /\ e.type = "ActionTaken"
<1>1. PICK action \in Actions, amount \in Int, chips \in Int :
        e = ActionEvent(s, p, action, amount, chips)
  BY ActionKinds
<1>2. p \in s.players /\ s \in HandType
  BY ActionCases DEF MayAct, Sound
<1> DEFINE n == apply_action_taken(s, e)
<1>3. n = Acted(s, p, action, amount, chips)
  BY <1>1, <1>2, ActionEffect
<1> HIDE DEF n
<1>4. /\ n.players = s.players /\ n.pot = s.pot + chips
      /\ n.stack = [s.stack EXCEPT ![p] = s.stack[p] - chips]
      /\ n.folded = IF action = "FOLD" THEN s.folded \cup {p} ELSE s.folded
      /\ n.all_in = IF action = "ALL_IN" THEN s.all_in \cup {p} ELSE s.all_in
  BY <1>3 DEF Acted
<1>5. /\ e.type = "ActionTaken" /\ e.player = p /\ e.action = action
      /\ e.player_stack = s.stack[p] - chips /\ e.pot_total = s.pot + chips
  BY <1>1 DEF ActionEvent
<1>6. /\ n.folded = pr.has_folded \cup Did(e, "FOLD")
      /\ n.all_in = pr.is_all_in \cup Did(e, "ALL_IN")
  BY <1>4, <1>5 DEF Agree, Did
<1>7. \A q \in n.players : n.stack[q] = IF q = e.player THEN e.player_stack ELSE pr.stack[q]
  <2>1. s.stack \in [Seats -> Int] /\ s.players \subseteq Seats
    BY <1>2, HandFields
  <2> QED BY <1>4, <1>5, <2>1 DEF Agree
<1> QED BY <1>2, <1>4, <1>5, <1>6, <1>7 DEF WillAgree, n

\* So does a blind.
LEMMA BlindWillAgree ==
  ASSUME NEW s, NEW d, Sound(s, d), NEW p \in Seats, NEW blind_type,
         NEW amount \in Int, NEW e \in handle_post_blind(s, p, blind_type, amount),
         NEW pr, Agree(pr, s)
  PROVE  WillAgree(pr, apply_blind_posted(s, e), e)
<1>1. PICK chips \in Nat : e = BlindEvent(s, p, blind_type, chips)
  BY BlindCases
<1>2. p \in s.players /\ s \in HandType
  BY DEF handle_post_blind, Sound
<1> DEFINE n == apply_blind_posted(s, e)
<1>3. n = apply_blind_posted(s, BlindEvent(s, p, blind_type, chips))
  BY <1>1
<1> HIDE DEF n
<1>4. /\ n.players = s.players /\ n.pot = s.pot + chips
      /\ n.stack = [s.stack EXCEPT ![p] = s.stack[p] - chips]
      /\ n.folded = s.folded /\ n.all_in = s.all_in
  BY <1>2, <1>3, BlindEffect
<1>5. /\ e.type = "BlindPosted" /\ e.player = p
      /\ e.player_stack = s.stack[p] - chips /\ e.pot_total = s.pot + chips
  BY <1>1 DEF BlindEvent
<1>6. \A q \in n.players : n.stack[q] = IF q = e.player THEN e.player_stack ELSE pr.stack[q]
  <2>1. s.stack \in [Seats -> Int] /\ s.players \subseteq Seats
    BY <1>2, HandFields
  <2> QED BY <1>4, <1>5, <2>1 DEF Agree
<1> QED BY <1>2, <1>4, <1>5, <1>6 DEF WillAgree, Agree, Did, n

LEMMA ActTurn ==
  ASSUME IInv, TurnInv, OneHand, TakeTurns, NEW h \in Hands, NEW p \in Seats,
         NEW events, PlayerActs(h, p, events),
         \A e \in events : ActionAnswer(hand[h], p, e)
  PROVE  TurnInv'
<1> DEFINE s == hand[h]
           pr == processes[h]
<1>1. PICK e \in events : Store(h, apply_action_taken(s, e), e)
  BY DEF PlayerActs
<1>2. UNCHANGED <<started, processes, commands>>
  BY DEF PlayerActs
<1>3. ActionAnswer(s, p, e)
  OBVIOUS
<1>4. Betting(h) /\ Started(h) /\ pr.phase = "BETTING" /\ pending[h] = <<>>
  BY DEF PlayerActs, MayTakeTurn, Betting, Started
<1>5. DealSeen(h) /\ Sound(s, Brought(h))
  BY <1>4 DEF IInv, AwardSound, HandSound, DealSeen
<1>6. TurnOf(h) /\ started[h].small \in Seats
  BY HandIsSound, DealFields DEF TurnInv
<1>7. /\ commands = {} /\ Agree(pr, s)
      /\ is_betting_complete(pr) \/ pr.action_on \in ToAct(pr)
  <2>1. Len(pending[h]) # 1
    BY <1>4, EmptySeq
  <2> QED BY <1>4, <1>6, <2>1 DEF TurnOf, BettingTurn, Follows
<1> DEFINE n == apply_action_taken(s, e)
<1>8. /\ WillAgree(pr, n, e) /\ e.type = "ActionTaken"
  BY <1>3, <1>5, <1>7, ActionWillAgree
<1>9. n.status = "betting"
  BY <1>3, <1>5, ActionApplied
<1>10. Owing(n, started[h].small)
  BY <1>3, <1>5, <1>6, ActionOwing DEF TurnOf
<1>11. n \in HandType /\ e \in HandEvents
  BY <1>3, ActionFits DEF Fits, Sound
<1> HIDE DEF n
<1>12. /\ hand'[h] = n /\ Len(pending'[h]) = 1 /\ pending'[h][1] = e /\ DealSeen(h)'
  BY <1>1, <1>4, <1>5, <1>8, <1>9, <1>11, Stored DEF n
<1>13. DealTurn(h)' /\ DealingTurn(h)' /\ BlindsTurn(h)'
  BY <1>2, <1>4, <1>6, <1>12 DEF TurnOf, DealTurn, DealingTurn, BlindsTurn, Started
<1>14. Follows(h, "ActionTaken")'
  BY <1>2, <1>8, <1>12 DEF Follows
<1>15. BettingTurn(h)'
  BY <1>2, <1>7, <1>9, <1>12, <1>14 DEF BettingTurn
<1>16. TurnOf(h)'
  BY <1>2, <1>9, <1>10, <1>12, <1>13, <1>15 DEF TurnOf
<1> QED BY <1>2, <1>7, <1>16 DEF OneHand, TurnInv

LEMMA BlindTurn ==
  ASSUME IInv, TurnInv, OneHand, NEW c \in commands, c.type = "PostBlind",
         NEW e \in Answers(hand[c.hand], c),
         Store(c.hand, Applied(hand[c.hand], e), e), commands' = commands \ {c},
         UNCHANGED <<started, processes, awards, actions>>
  PROVE  TurnInv'
<1> DEFINE h == c.hand
           s == hand[h]
           pr == processes[h]
           b == started[h].small
<1>1. c \in Commands /\ h \in Hands
  BY DEF IInv, TypeOK, Commands
<1>2. /\ c.player \in Seats /\ c.amount \in Int /\ c.blind_type \in {"small", "big"}
  BY <1>1 DEF Commands
<1>3. e \in handle_post_blind(s, c.player, c.blind_type, c.amount)
  BY DEF Answers
<1>4. TurnOf(h) /\ commands = {c} /\ Quiet(s, b)
      /\ (c.blind_type = "big" \/ c.player = b)
  BY <1>1, <1>2 DEF TurnInv, CommandTurn
<1>5. commands' = {} /\ DealSeen(h)
  BY <1>1, <1>4 DEF TurnOf, DealTurn
<1>6. Sound(s, Brought(h)) /\ b \in Seats
  BY <1>1, <1>5, HandIsSound, DealFields DEF IInv, HandSound, DealSeen
<1>7. e.type = "BlindPosted" /\ e.blind_type = c.blind_type
  BY <1>3 DEF handle_post_blind, BlindEvent
<1> DEFINE n == apply_blind_posted(s, e)
<1>8. n = Applied(s, e)
  BY <1>7 DEF Applied
<1>9. n \in HandType /\ e \in HandEvents
  BY <1>8, CommandFits DEF Fits, Sound
<1>10. n.status = "betting" /\ n.folded = s.folded /\ s.folded = {}
  <2>1. s.folded = {}
    BY <1>1 DEF TurnInv, CommandTurn
  <2> QED BY <1>2, <1>3, <1>6, <2>1, BlindApplied
<1>11. Owing(n, b) /\ (c.blind_type # "big" => Quiet(n, b))
  <2>1. Owing(s, b)
    BY <1>4 DEF TurnOf
  <2> QED BY <1>2, <1>3, <1>4, <1>6, <2>1, BlindOwing
<1>12. Agree(pr, s) => WillAgree(pr, n, e)
  BY <1>2, <1>3, <1>6, BlindWillAgree
<1> HIDE DEF n
<1>13. /\ hand'[h] = n /\ DealSeen(h)'
       /\ pending[h] = <<>> => Len(pending'[h]) = 1 /\ pending'[h][1] = e
  BY <1>1, <1>5, <1>7, <1>8, <1>9, <1>10, Stored
<1>14. DealTurn(h)' /\ DealingTurn(h)'
  BY <1>4, <1>13 DEF TurnOf, DealTurn, DealingTurn, Started
<1>15. BettingTurn(h)'
  <2>1. ~ Betting(h)
    BY <1>4 DEF TurnOf, BettingTurn
  <2> QED BY <2>1 DEF BettingTurn, Betting, Started
<1>16. ASSUME Started(h), pr.phase = "POSTING_BLINDS"
       PROVE  /\ Follows(h, "BlindPosted")'
              /\ pending'[h][1].blind_type # "big" => Quiet(n, b)
  <2>1. pending[h] = <<>> /\ Follows(h, "BlindPosted")
    BY <1>4, <1>16 DEF TurnOf, BlindsTurn
  <2>2. Agree(pr, s)
    <3>1. Len(pending[h]) # 1
      BY <2>1, EmptySeq
    <3> QED BY <2>1, <3>1 DEF Follows
  <2> QED BY <1>7, <1>11, <1>12, <1>13, <2>1, <2>2 DEF Follows
<1>17. BlindsTurn(h)'
  BY <1>5, <1>10, <1>13, <1>16 DEF BlindsTurn, Started
<1>18. TurnOf(h)'
  BY <1>10, <1>11, <1>13, <1>14, <1>15, <1>17 DEF TurnOf
<1> QED BY <1>1, <1>5, <1>18 DEF OneHand, TurnInv

\* An award leaves bets and pot as they are.
LEMMA AwardKeepsBets ==
  ASSUME NEW s \in HandType, NEW e, NEW b, Owing(s, b),
         NEW n, n = apply_hand_complete(apply_pot_awarded(s, e))
  PROVE  /\ Owing(n, b) /\ n.pot = s.pot /\ n.status = "complete"
         /\ n.stack = final_stacks(s, e)
<1> DEFINE stack == final_stacks(s, e)
<1>1. n = [[s EXCEPT !.stack = stack] EXCEPT !.status = "complete"]
  BY DEF apply_hand_complete, apply_pot_awarded, final_stacks
<1> HIDE DEF stack
<1>2. /\ n.status = "complete" /\ n.stack = stack /\ n.pot = s.pot
      /\ n.bet_this_round = s.bet_this_round /\ n.current_bet = s.current_bet
      /\ n.min_raise = s.min_raise
  BY <1>1 DEF HandType
<1> QED BY <1>2 DEF Owing, stack

LEMMA AwardTurn ==
  ASSUME IInv, TurnInv, OneHand, NEW c \in commands, c.type = "AwardPot",
         NEW e \in Answers(hand[c.hand], c),
         Store(c.hand, Applied(hand[c.hand], e), e), commands' = commands \ {c},
         UNCHANGED <<started, processes, awards, actions>>
  PROVE  TurnInv'
<1> DEFINE h == c.hand
           s == hand[h]
           n == Applied(s, e)
<1>1. c \in Commands /\ h \in Hands
  BY DEF IInv, TypeOK, Commands
<1>2. c.winners \in SUBSET Seats /\ c.awards \in [Seats -> Int]
  BY <1>1 DEF Commands
<1>3. PICK first \in c.winners :
        e \in handle_award_pot(s, first, c.awards[first],
                               [p \in c.winners \ {first} |-> c.awards[p]])
  BY DEF Answers
<1>4. /\ TurnOf(h) /\ commands = {c}
      /\ s.pot = 0 => \A p \in Seats : c.awards[p] = 0
  BY <1>1 DEF TurnInv, CommandTurn
<1>5. commands' = {} /\ DealSeen(h)
  BY <1>1, <1>4 DEF TurnOf, DealTurn
<1>6. Sound(s, Brought(h)) /\ s \in HandType /\ s.status \notin {"undealt", "complete"}
  BY <1>1, <1>3, <1>5 DEF IInv, HandSound, DealSeen, Sound, handle_award_pot
<1>7. e.type = "PotAwarded"
  BY <1>3 DEF handle_award_pot
<1>8. Sound(n, Brought(h)) /\ n \in HandType /\ e \in HandEvents
  BY CommandFits DEF Fits, Sound
<1>9. n = apply_hand_complete(apply_pot_awarded(s, e))
  BY <1>7 DEF Applied
<1>10. /\ Owing(n, started[h].small) /\ n.pot = s.pot /\ n.status = "complete"
       /\ n.stack = final_stacks(s, e)
  BY <1>4, <1>6, <1>9, AwardKeepsBets DEF TurnOf
<1> HIDE DEF n
<1>11. s.pot \in Int /\ s.pot >= 0 /\ s.stack \in [Seats -> Int]
  BY <1>4, <1>6, HandFields DEF TurnOf, Owing
<1>12. Total(n.stack) = Total(Brought(h))
  <2>1. CASE s.pot > 0
    BY <1>8, <1>10, <2>1 DEF Sound
  <2>2. CASE s.pot = 0
    <3>1. \A p \in Seats : c.awards[p] = 0
      BY <1>4, <2>2
    <3>2. \A p \in Seats : e.winnings[p] = 0
      <4> DEFINE others == [p \in c.winners \ {first} |-> c.awards[p]]
                 amount == c.awards[first]
                 all == Winnings(first, AdjustedAward(s, amount, others), others)
      <4>1. e.winnings = all
        BY <1>3 DEF handle_award_pot
      <4>2. AdjustedAward(s, amount, others) = 0
        BY <1>2, <2>2, <3>1 DEF AdjustedAward
      <4>3. \A p \in DOMAIN others : others[p] = 0
        BY <1>2, <3>1
      <4> HIDE DEF others, amount
      <4>4. \A p \in Seats : all[p] = 0
        BY <4>2, <4>3 DEF Winnings
      <4> QED BY <4>1, <4>4
    <3>3. n.stack = s.stack
      BY <1>10, <1>11, <3>2 DEF final_stacks
    <3>4. Total(s.stack) \in Int
      BY <1>11, NumSeatsAssumption, SumToType DEF Seats, Total
    <3> QED BY <1>6, <2>2, <3>3, <3>4 DEF Sound
  <2> QED BY <1>11, <2>1, <2>2
<1>13. hand'[h] = n /\ DealSeen(h)'
  BY <1>1, <1>5, <1>7, <1>8, <1>10, Stored DEF n
<1>14. Started(h) => processes[h].phase \in {"DEALING", "COMPLETE"}
  <2>1. awards[h] = 1
    BY <1>1 DEF IInv, AwardNamesAll
  <2>2. Started(h) => processes[h].phase \in {"DEALING", "COMPLETE", "SHOWDOWN"}
    BY <1>1, <2>1 DEF IInv, AwardSound
  <2> QED BY <1>4, <2>2 DEF TurnOf, DealingTurn
<1>15. (DealTurn(h) /\ DealingTurn(h) /\ BlindsTurn(h) /\ BettingTurn(h))'
  BY <1>4, <1>13, <1>14
     DEF TurnOf, DealTurn, DealingTurn, BlindsTurn, BettingTurn, Betting, Started
<1>16. TurnOf(h)'
  BY <1>10, <1>12, <1>13, <1>15 DEF TurnOf, Brought
<1> QED BY <1>1, <1>5, <1>16 DEF OneHand, TurnInv

LEMMA AcceptTurn ==
  ASSUME IInv, TurnInv, OneHand, NEW c \in commands, Accept(c)
  PROVE  TurnInv'
<1>1. PICK e \in Answers(hand[c.hand], c) :
        Store(c.hand, Applied(hand[c.hand], e), e)
  BY DEF Accept
<1>2. commands' = commands \ {c} /\ UNCHANGED <<started, processes, awards, actions>>
  BY DEF Accept
<1>3. c.type \in {"PostBlind", "AwardPot"}
  BY DEF TurnInv, CommandTurn, IInv, TypeOK, Commands
<1> QED BY <1>1, <1>2, <1>3, BlindTurn, AwardTurn

-----------------------------------------------------------------------------
(***************************************************************************)
(* The process manager sees an event of the hand.                          *)
(***************************************************************************)

\* A blind that is commanded is that of who has it, and more than nothing.
LEMMA NextBlind ==
  ASSUME NEW h \in Hands, NEW pr, pr.deal \in DealType
  PROVE  \/ post_next_blind(h, pr) = {}
         \/ \E c : /\ post_next_blind(h, pr) = {c}
                   /\ c.type = "PostBlind" /\ c.hand = h /\ c.amount > 0
                   /\ c.player = IF c.blind_type = "big" THEN pr.deal.big
                                                         ELSE pr.deal.small
  BY DealFields DEF post_next_blind, PostBlindCommand

\* It is enough to say what becomes of the process and the commands.
LEMMA SeeTurn ==
  ASSUME IInv, TurnInv, OneHand, NEW h \in Hands, See(h),
         Started(h)', processes[h].betting_phase = "UNSPECIFIED",
         processes'[h].betting_phase = processes[h].betting_phase,
         \/ /\ processes'[h].phase = "COMPLETE"
         \/ /\ processes'[h].phase = "POSTING_BLINDS"
            /\ hand[h].status = "betting" /\ hand[h].folded = {} /\ pending'[h] = <<>>
            /\ Agree(processes'[h], hand[h])
         \/ /\ processes'[h].phase = "BETTING"
            /\ hand[h].status = "betting" /\ pending'[h] = <<>>
            /\ Agree(processes'[h], hand[h]) /\ commands' = {}
            /\ \/ is_betting_complete(processes'[h])
               \/ processes'[h].action_on \in ToAct(processes'[h]),
         \A c \in commands' : CommandTurn(c)'
  PROVE  TurnInv'
<1>1. UNCHANGED <<started, hand>>
  BY DEF See
<1>2. DealSeen(h)' /\ TurnOf(h)
  BY Seen DEF TurnInv
<1>3. (DealTurn(h) /\ DealingTurn(h))'
  BY <1>2 DEF DealTurn, DealingTurn
<1>4. ASSUME processes'[h].phase = "POSTING_BLINDS" PROVE BlindsTurn(h)'
  BY <1>1, <1>4 DEF BlindsTurn, Follows
<1>5. ASSUME processes'[h].phase = "BETTING" PROVE BettingTurn(h)'
  BY <1>1, <1>5 DEF BettingTurn, Follows
<1>6. (BlindsTurn(h) /\ BettingTurn(h))'
  BY <1>4, <1>5 DEF BlindsTurn, BettingTurn, Betting
<1>7. TurnOf(h)'
  BY <1>1, <1>2, <1>3, <1>6 DEF TurnOf, Brought
<1> QED BY <1>7 DEF OneHand, TurnInv

\* An event that changes nothing, or comes where nothing goes on.
LEMMA IgnoreTurn ==
  ASSUME IInv, TurnInv, OneHand, NEW h \in Hands, See(h),
         UNCHANGED <<processes, commands>>,
         Started(h) => processes[h].phase \in {"DEALING", "COMPLETE"}
  PROVE  TurnInv'
<1>1. UNCHANGED <<started, hand>>
  BY DEF See
<1>2. DealSeen(h)' /\ TurnOf(h)
  BY Seen DEF TurnInv
<1>3. (DealTurn(h) /\ DealingTurn(h))'
  BY <1>1, <1>2 DEF DealTurn, DealingTurn, TurnOf, Started
<1> QED BY <1>1, <1>3, IdleTurn DEF Started

LEMMA SeeCardsDealt ==
  ASSUME IInv, TurnInv, OneHand, NEW h \in Hands, See(h),
         Head(pending[h]).type = "CardsDealt",
         NEW o \in handle_cards_dealt(processes, h),
         processes' = o.processes, commands' = commands \cup o.commands
  PROVE  TurnInv'
<1> DEFINE pr == processes[h]
<1>1. ~ DealSeen(h) /\ TurnOf(h) /\ pending[h] # <<>>
  BY Seen DEF TurnInv
<1>2. Dealt(h) /\ PendingSound(h) /\ HandSound(h) /\ ProcessSound(h) /\ AwardSound(h)
  BY <1>1 DEF IInv, PendingSound
<1>3. /\ commands = {} /\ (Started(h) => pr.phase = "DEALING")
      /\ Len(pending[h]) = 1 /\ hand[h].stack = Brought(h) /\ hand[h].pot = 0
      /\ hand[h].folded = {} /\ hand[h].all_in = {}
      /\ Quiet(hand[h], started[h].small)
  BY <1>1, <1>2 DEF TurnOf, DealTurn
<1>4. CASE o \in Ignored(processes)
  <2>1. UNCHANGED <<processes, commands>>
    BY <1>4 DEF Ignored, Outcome
  <2> QED BY <1>3, <2>1, IgnoreTurn
<1>5. CASE /\ Started(h)
           /\ o = Outcome([processes EXCEPT ![h].phase = "POSTING_BLINDS"],
                          post_next_blind(h, pr))
  <2> DEFINE q == [pr EXCEPT !.phase = "POSTING_BLINDS"]
  <2>1. pr \in ProcessType /\ processes \in Processes
    BY <1>5 DEF IInv, TypeOK, Started, Processes
  <2>2. processes'[h] = q /\ commands' = post_next_blind(h, pr)
    BY <1>3, <1>5, <2>1 DEF Outcome, Processes
  <2> HIDE DEF pr
  <2>3. /\ q \in ProcessType /\ q.phase = "POSTING_BLINDS"
        /\ q.stack = pr.stack /\ q.pot_total = pr.pot_total
        /\ q.has_folded = pr.has_folded /\ q.is_all_in = pr.is_all_in
        /\ q.betting_phase = pr.betting_phase
    BY <2>1 DEF ProcessType, ProcessPhases
  <2> HIDE DEF q
  <2>4. /\ pr.betting_phase = "UNSPECIFIED"
        /\ pr.stack = started[h].stack /\ pr.pot_total = 0
        /\ pr.has_folded = {} /\ pr.is_all_in = {}
    BY <1>1, <1>3, <1>5 DEF TurnOf, DealingTurn, pr
  <2>5. hand[h].players = started[h].players /\ hand[h].players \subseteq Seats
    <3>1. hand[h].players = started[h].players
      BY <1>2 DEF HandSound
    <3> QED BY <3>1, HandIsSound, HandFields
  <2>6. Agree(q, hand[h])
    BY <1>3, <2>3, <2>4, <2>5 DEF Agree, Brought
  <2>7. hand[h].status = "betting"
    <3>1. hand[h].status \notin {"undealt", "complete"}
      BY <1>1, <1>2 DEF AwardSound, Dealt
    <3> QED BY <3>1, HandIsSound, HandFields
  <2>8. pending'[h] = <<>>
    BY <1>3, Seen
  <2>9. Started(h)'
    BY <2>2, <2>3, ProcessFields DEF Started
  <2>10. \A c \in commands' : CommandTurn(c)'
    <3>1. pr.deal = started[h]
      BY <1>2, <1>5 DEF ProcessSound, pr
    <3>2. UNCHANGED <<started, hand>>
      BY DEF See
    <3>3. CASE commands' = {}
      BY <3>3
    <3>4. ASSUME NEW c, commands' = {c}, c.type = "PostBlind", c.hand = h, c.amount > 0,
                 c.player = IF c.blind_type = "big" THEN pr.deal.big ELSE pr.deal.small
          PROVE  CommandTurn(c)'
      BY <1>3, <2>7, <3>1, <3>2, <3>4 DEF CommandTurn
    <3>5. pr.deal \in DealType
      BY <3>1, HandIsSound
    <3> QED BY <2>2, <3>3, <3>4, <3>5, NextBlind
  <2> QED BY <1>3, <2>2, <2>3, <2>4, <2>6, <2>7, <2>8, <2>9, <2>10, SeeTurn DEF pr
<1> QED BY <1>4, <1>5 DEF handle_cards_dealt, Started

\* An event of a type that the process does not wait for is ignored.
LEMMA NotAwaited ==
  ASSUME IInv, TurnInv, NEW h \in Hands, See(h), Started(h)
  PROVE  /\ processes[h].phase = "POSTING_BLINDS" => Head(pending[h]).type = "BlindPosted"
         /\ processes[h].phase = "BETTING" => Head(pending[h]).type = "ActionTaken"
<1>1. TurnOf(h) /\ pending[h] # <<>> /\ Head(pending[h]) = pending[h][1]
  BY Seen DEF TurnInv
<1> QED BY <1>1 DEF TurnOf, BlindsTurn, BettingTurn, Betting, Follows

LEMMA SeeBlindPosted ==
  ASSUME IInv, TurnInv, OneHand, NEW h \in Hands, See(h),
         NEW e, e = Head(pending[h]), e.type = "BlindPosted",
         NEW o \in handle_blind_posted(processes, started[h].root[e.player], e),
         processes' = o.processes, commands' = commands \cup o.commands
  PROVE  TurnInv'
<1> DEFINE pr == processes[h]
           root == started[h].root[e.player]
           q == BlindSeen(pr, TRUE, e)
<1>1. TurnOf(h) /\ pending[h] # <<>> /\ e = pending[h][1] /\ e \in HandEvents
  BY Seen DEF TurnInv
<1>2. processes \in Processes
  BY DEF IInv, TypeOK, Processes
<1>3. CASE InPhase(processes, "POSTING_BLINDS") = {}
  <2>1. o \in Ignored(processes)
    BY <1>3 DEF handle_blind_posted
  <2>2. UNCHANGED <<processes, commands>>
    BY <2>1 DEF Ignored, Outcome
  <2>3. Started(h) => pr.phase \in {"DEALING", "COMPLETE"}
    BY <1>1, <1>3, NotAwaited DEF InPhase, Started, TurnOf, DealingTurn
  <2> QED BY <2>2, <2>3, IgnoreTurn
<1>4. CASE InPhase(processes, "POSTING_BLINDS") # {}
  <2>1. /\ Started(h) /\ pr.phase = "POSTING_BLINDS"
        /\ InPhase(processes, "POSTING_BLINDS") = {h}
    BY <1>4 DEF InPhase, OneHand, Started
  <2>2. /\ hand[h].status = "betting" /\ hand[h].folded = {} /\ commands = {}
        /\ Len(pending[h]) = 1 /\ WillAgree(pr, hand[h], e)
        /\ e.blind_type # "big" => Quiet(hand[h], started[h].small)
    BY <1>1, <2>1 DEF TurnOf, BlindsTurn, Follows
  <2>3. pr \in ProcessType /\ pr.deal = started[h] /\ pr.betting_phase = "UNSPECIFIED"
    BY <1>1, <1>2, <2>1
       DEF IInv, ProcessSound, Processes, Started, TurnOf, DealingTurn
  <2>4. Finds(pr, root) /\ Read(pr, root, e) = e
    <3>1. hand[h].players = started[h].players
      BY <2>2 DEF IInv, HandSound, Dealt
    <3>2. e.player \in pr.deal.players
      BY <2>2, <2>3, <3>1 DEF WillAgree
    <3> HIDE DEF pr
    <3> QED BY <1>1, <2>3, <3>2, ReadsOwn
  <2>5. \/ /\ e.blind_type = "small"
           /\ o = Outcome([processes EXCEPT ![h] = q], post_next_blind(h, q))
        \/ o = Outcome([processes EXCEPT ![h] = start_betting(q)], {})
    BY <1>4, <2>1, <2>4 DEF handle_blind_posted
  <2>6. hand[h] \in HandType
    BY HandIsSound
  <2> HIDE DEF pr
  <2>7. /\ q \in ProcessType /\ q.deal = pr.deal /\ q.phase = pr.phase
        /\ q.betting_phase = pr.betting_phase /\ Agree(q, hand[h])
    BY <1>1, <2>2, <2>3, <2>6, BlindSeenType, BlindAgrees
  <2> HIDE DEF q
  <2>8. pending'[h] = <<>> /\ UNCHANGED <<started, hand>>
    BY <2>2, Seen DEF See
  <2>9. CASE /\ e.blind_type = "small"
             /\ o = Outcome([processes EXCEPT ![h] = q], post_next_blind(h, q))
    <3>1. processes'[h] = q /\ commands' = post_next_blind(h, q)
      BY <1>2, <2>2, <2>9 DEF Outcome, Processes
    <3>2. Started(h)'
      BY <2>7, <3>1, ProcessFields DEF Started
    <3>3. \A c \in commands' : CommandTurn(c)'
      <4>1. ASSUME NEW c, commands' = {c}, c.type = "PostBlind", c.hand = h, c.amount > 0,
                   c.player = IF c.blind_type = "big" THEN q.deal.big ELSE q.deal.small
            PROVE  CommandTurn(c)'
        BY <2>2, <2>3, <2>7, <2>8, <2>9, <4>1 DEF CommandTurn
      <4>2. q.deal \in DealType
        BY <2>3, <2>7, HandIsSound
      <4> QED BY <3>1, <4>1, <4>2, NextBlind
    <3> QED BY <2>1, <2>2, <2>3, <2>7, <2>8, <3>1, <3>2, <3>3, SeeTurn DEF pr
  <2>10. CASE o = Outcome([processes EXCEPT ![h] = start_betting(q)], {})
    <3> DEFINE r == start_betting(q)
    <3>1. processes'[h] = r /\ commands' = {}
      BY <1>2, <2>2, <2>10 DEF Outcome, Processes
    <3>2. /\ r \in ProcessType /\ r.phase = "BETTING" /\ r.betting_phase = q.betting_phase
          /\ r.deal = q.deal /\ r.stack = q.stack /\ r.pot_total = q.pot_total
          /\ r.has_folded = q.has_folded /\ r.is_all_in = q.is_all_in
          /\ ToAct(q) # {} => r.action_on \in ToAct(q)
      BY <2>7, StartBetting
    <3> HIDE DEF r
    <3>3. Started(h)'
      BY <3>1, <3>2, ProcessFields DEF Started
    <3>4. Agree(r, hand[h])
      BY <2>7, <3>2 DEF Agree
    <3>5. is_betting_complete(r) \/ r.action_on \in ToAct(r)
      BY <3>2 DEF is_betting_complete, ToAct
    <3> QED BY <2>1, <2>2, <2>3, <2>7, <2>8, <3>1, <3>2, <3>3, <3>4, <3>5, SeeTurn DEF pr
  <2> QED BY <2>5, <2>9, <2>10
<1> QED BY <1>3, <1>4

\* The end of a betting round awards the pot to the one who is left, nothing
\* from an empty one, or goes nowhere.
LEMMA EndSeen ==
  ASSUME IInv, TurnInv, OneHand, NEW h \in Hands, See(h), Started(h),
         processes[h].phase = "BETTING", processes[h].betting_phase = "UNSPECIFIED",
         hand[h].status = "betting", commands = {}, pending'[h] = <<>>,
         NEW q \in ProcessType, q.phase = "BETTING", q.betting_phase = "UNSPECIFIED",
         q.deal = started[h], Agree(q, hand[h]), is_betting_complete(q),
         NEW o \in end_betting_round(processes, h, q),
         processes' = o.processes, commands' = commands \cup o.commands
  PROVE  TurnInv'
<1>1. processes \in Processes /\ UNCHANGED <<started, hand>>
  BY DEF IInv, TypeOK, Processes, See
<1>2. CASE o.processes = [processes EXCEPT ![h] = q] /\ o.commands = {}
  <2>1. processes'[h] = q /\ commands' = {}
    BY <1>1, <1>2 DEF Processes
  <2>2. Started(h)'
    BY <2>1, ProcessFields DEF Started
  <2> QED BY <2>1, <2>2, SeeTurn
<1>3. ASSUME o.processes = [processes EXCEPT ![h] = [q EXCEPT !.phase = "COMPLETE"]],
             NEW c \in build_award_pot_cmd(h, q), o.commands = {c}, InHand(q) # {}
      PROVE  TurnInv'
  <2> DEFINE r == [q EXCEPT !.phase = "COMPLETE"]
  <2>1. processes'[h] = r /\ commands' = {c}
    BY <1>1, <1>3 DEF Processes
  <2>2. /\ r \in ProcessType /\ r.phase = "COMPLETE"
        /\ r.betting_phase = q.betting_phase
    BY DEF ProcessType, ProcessPhases
  <2> HIDE DEF r
  <2>3. Started(h)'
    BY <2>1, <2>2, ProcessFields DEF Started
  <2>4. c.type = "AwardPot" /\ c.hand = h
    BY AwardCommand
  <2>5. hand[h].pot = 0 => \A p \in Seats : c.awards[p] = 0
    BY AwardOfNothing DEF Agree
  <2>6. c.winners # {} /\ c.winners \subseteq hand[h].players \ hand[h].folded
    <3>1. c.winners = InHand(q)
      BY AwardCommand DEF InHand
    <3>2. hand[h].players = started[h].players
      BY DEF IInv, HandSound, Dealt
    <3> QED BY <1>3, <3>1, <3>2 DEF Agree, InHand
  <2>7. CommandTurn(c)'
    BY <1>1, <2>1, <2>4, <2>5, <2>6 DEF CommandTurn
  <2> QED BY <2>1, <2>2, <2>3, <2>7, SeeTurn
<1>4. \/ /\ o.processes = [processes EXCEPT ![h] = [q EXCEPT !.phase = "COMPLETE"]]
         /\ \E c \in build_award_pot_cmd(h, q) : o.commands = {c}
         /\ InHand(q) # {}
      \/ o.processes = [processes EXCEPT ![h] = q] /\ o.commands = {}
  BY EndTurn
<1> QED BY <1>2, <1>3, <1>4

LEMMA SeeActionTaken ==
  ASSUME IInv, TurnInv, OneHand, NEW h \in Hands, See(h),
         NEW e, e = Head(pending[h]), e.type = "ActionTaken",
         NEW o \in handle_action_taken(processes, started[h].root[e.player], e),
         processes' = o.processes, commands' = commands \cup o.commands
  PROVE  TurnInv'
<1> DEFINE pr == processes[h]
           root == started[h].root[e.player]
           q == AfterAction(pr, e)
           r == [q EXCEPT !.action_on = find_next_active(q, q.action_on)]
<1>1. TurnOf(h) /\ pending[h] # <<>> /\ e = pending[h][1] /\ e \in HandEvents
  BY Seen DEF TurnInv
<1>2. processes \in Processes
  BY DEF IInv, TypeOK, Processes
<1>3. CASE InPhase(processes, "BETTING") = {}
  <2>1. o \in Ignored(processes)
    BY <1>3 DEF handle_action_taken
  <2>2. UNCHANGED <<processes, commands>>
    BY <2>1 DEF Ignored, Outcome
  <2>3. Started(h) => pr.phase \in {"DEALING", "COMPLETE"}
    BY <1>1, <1>3, NotAwaited DEF InPhase, Started, TurnOf, DealingTurn
  <2> QED BY <2>2, <2>3, IgnoreTurn
<1>4. CASE InPhase(processes, "BETTING") # {}
  <2>1. Started(h) /\ pr.phase = "BETTING" /\ InPhase(processes, "BETTING") = {h}
    BY <1>4 DEF InPhase, OneHand, Started
  <2>2. /\ hand[h].status = "betting" /\ commands = {}
        /\ Len(pending[h]) = 1 /\ WillAgree(pr, hand[h], e)
    BY <1>1, <2>1 DEF TurnOf, BettingTurn, Betting, Follows
  <2>3. pr \in ProcessType /\ pr.deal = started[h] /\ pr.betting_phase = "UNSPECIFIED"
    BY <1>1, <1>2, <2>1
       DEF IInv, ProcessSound, Processes, Started, TurnOf, DealingTurn
  <2>4. Finds(pr, root) /\ Read(pr, root, e) = e
    <3>1. hand[h].players = started[h].players
      BY <2>2 DEF IInv, HandSound, Dealt
    <3>2. e.player \in pr.deal.players
      BY <2>2, <2>3, <3>1 DEF WillAgree
    <3> HIDE DEF pr
    <3> QED BY <1>1, <2>3, <3>2, ReadsOwn
  <2>5. IF is_betting_complete(q) THEN o \in end_betting_round(processes, h, q)
        ELSE o = Outcome([processes EXCEPT ![h] = r], {})
    <3> DEFINE seen(k) == [IF Finds(processes[k], root)
                           THEN ActionSeen(processes[k], Read(processes[k], root, e))
                           ELSE processes[k] EXCEPT !.pot_total = e.pot_total]
               next(k) == [seen(k) EXCEPT !.action_on =
                                            find_next_active(seen(k), seen(k).action_on)]
    <3>1. \E k \in InPhase(processes, "BETTING") :
            \/ /\ is_betting_complete(seen(k))
               /\ o \in end_betting_round(processes, k, seen(k))
            \/ /\ ~ is_betting_complete(seen(k))
               /\ o = Outcome([processes EXCEPT ![k] = next(k)], {})
      BY <1>4 DEF handle_action_taken
    <3> HIDE DEF seen, next
    <3>2. \/ /\ is_betting_complete(seen(h))
             /\ o \in end_betting_round(processes, h, seen(h))
          \/ /\ ~ is_betting_complete(seen(h))
             /\ o = Outcome([processes EXCEPT ![h] = next(h)], {})
      BY <2>1, <3>1
    <3>3. seen(h) = q
      BY <2>4 DEF AfterAction, seen
    <3> HIDE DEF q
    <3>4. next(h) = r
      BY <3>3 DEF next
    <3> HIDE DEF r
    <3> QED BY <3>2, <3>3, <3>4
  <2>6. hand[h] \in HandType
    BY HandIsSound
  <2> HIDE DEF q, pr
  <2>7. /\ q \in ProcessType /\ q.phase = "BETTING"
        /\ q.betting_phase = "UNSPECIFIED" /\ Agree(q, hand[h])
        /\ q.deal = started[h]
    <3>1. /\ q \in ProcessType /\ q.phase = pr.phase /\ q.deal = pr.deal
          /\ q.betting_phase = pr.betting_phase /\ Agree(q, hand[h])
      BY <1>1, <2>2, <2>3, <2>6, ActionAgrees DEF q
    <3> QED BY <2>1, <2>3, <3>1 DEF pr
  <2>8. pending'[h] = <<>>
    BY <2>2, Seen
  <2>9. CASE is_betting_complete(q)
    BY <2>1, <2>2, <2>3, <2>5, <2>7, <2>8, <2>9, EndSeen DEF pr
  <2>10. CASE ~ is_betting_complete(q)
    <3> DEFINE turn == find_next_active(q, q.action_on)
    <3>1. turn \in Seats \cup {-1} /\ turn \in ToAct(q)
      <4>1. q.action_on \in Int
        BY <2>7, ProcessFields, NumSeatsAssumption DEF Seats
      <4>2. ToAct(q) # {}
        BY <2>10 DEF is_betting_complete
      <4> QED BY <2>7, <4>1, <4>2, TurnType
    <3>2. r = [q EXCEPT !.action_on = turn]
      OBVIOUS
    <3>3. processes'[h] = r /\ commands' = {}
      BY <1>2, <2>2, <2>5, <2>10 DEF Outcome, Processes
    <3> HIDE DEF turn, r
    <3>4. /\ r \in ProcessType /\ r.phase = q.phase /\ r.betting_phase = q.betting_phase
          /\ r.deal = q.deal /\ r.stack = q.stack /\ r.pot_total = q.pot_total
          /\ r.has_folded = q.has_folded /\ r.is_all_in = q.is_all_in
          /\ r.action_on = turn
      BY <2>7, <3>1, <3>2 DEF ProcessType
    <3>5. Agree(r, hand[h]) /\ r.action_on \in ToAct(r)
      BY <2>7, <3>1, <3>4 DEF Agree, ToAct
    <3>6. Started(h)'
      BY <3>3, <3>4, ProcessFields DEF Started
    <3> QED BY <2>1, <2>2, <2>3, <2>7, <2>8, <3>3, <3>4, <3>5, <3>6, SeeTurn DEF pr
  <2> QED BY <2>9, <2>10
<1> QED BY <1>3, <1>4

LEMMA SeePotAwarded ==
  ASSUME IInv, TurnInv, OneHand, NEW h \in Hands, See(h),
         NEW o \in handle_pot_awarded(processes),
         processes' = o.processes, commands' = commands \cup o.commands
  PROVE  TurnInv'
<1> DEFINE pr == processes[h]
           q == [pr EXCEPT !.phase = "COMPLETE"]
<1>1. /\ processes' = [k \in Hands |-> IF processes[k] = Unstarted THEN Unstarted
                                       ELSE [processes[k] EXCEPT !.phase = "COMPLETE"]]
      /\ commands' = commands /\ UNCHANGED <<started, hand>>
  BY DEF handle_pot_awarded, Outcome, See
<1>2. DealSeen(h)' /\ TurnOf(h)
  BY Seen DEF TurnInv
<1>3. CASE ~ Started(h)
  <2>1. ~ Started(h)'
    BY <1>1, <1>3 DEF Started
  <2> QED BY <1>1, <1>2, <2>1, IdleTurn DEF DealTurn, DealingTurn
<1>4. CASE Started(h)
  <2>1. pr \in ProcessType
    BY <1>4 DEF IInv, TypeOK, Started
  <2>2. processes'[h] = q
    BY <1>1, <1>4 DEF Started
  <2>3. pr.betting_phase = "UNSPECIFIED"
    BY <1>2, <1>4 DEF TurnOf, DealingTurn
  <2> HIDE DEF pr
  <2>4. q.phase = "COMPLETE" /\ q.betting_phase = "UNSPECIFIED"
    BY <2>1, <2>3 DEF ProcessType
  <2> HIDE DEF q
  <2> QED BY <1>1, <1>2, <2>2, <2>4, IdleTurn DEF DealTurn, DealingTurn
<1> QED BY <1>3, <1>4

LEMMA SeeAnyTurn ==
  ASSUME IInv, TurnInv, OneHand, NEW h \in Hands, See(h)
  PROVE  TurnInv'
<1> DEFINE e == Head(pending[h])
<1>1. PICK o \in Handle(processes, h, started[h].root, e) :
        processes' = o.processes /\ commands' = commands \cup o.commands
  BY DEF See
<1>2. e.type \in {"CardsDealt", "BlindPosted", "ActionTaken",
                  "CommunityCardsDealt", "PotAwarded"}
  <2>1. e \in HandEvents
    BY Seen
  <2> QED BY <2>1 DEF HandEvents
<1>3. CASE e.type = "CommunityCardsDealt"
  <2>1. o \in Ignored(processes)
    BY <1>3 DEF Handle, Branch
  <2>2. UNCHANGED <<processes, commands>>
    BY <1>1, <2>1 DEF Ignored, Outcome
  <2>3. Started(h) => processes[h].phase \in {"DEALING", "COMPLETE"}
    BY <1>3, NotAwaited DEF TurnInv, TurnOf, DealingTurn
  <2> QED BY <2>2, <2>3, IgnoreTurn
<1>4. CASE e.type = "CardsDealt"
  <2>1. o \in handle_cards_dealt(processes, h)
    BY <1>4 DEF Handle, Branch
  <2> QED BY <1>1, <1>4, <2>1, SeeCardsDealt
<1>5. CASE e.type = "BlindPosted"
  <2>1. o \in handle_blind_posted(processes, started[h].root[e.player], e)
    BY <1>5 DEF Handle, Branch
  <2> QED BY <1>1, <1>5, <2>1, SeeBlindPosted
<1>6. CASE e.type = "ActionTaken"
  <2>1. o \in handle_action_taken(processes, started[h].root[e.player], e)
    BY <1>6 DEF Handle, Branch
  <2> QED BY <1>1, <1>6, <2>1, SeeActionTaken
<1>7. CASE e.type = "PotAwarded"
  <2>1. o \in handle_pot_awarded(processes)
    BY <1>7 DEF Handle, Branch
  <2> QED BY <1>1, <2>1, SeePotAwarded
<1> QED BY <1>2, <1>3, <1>4, <1>5, <1>6, <1>7

LEMMA NextTurn == IInv /\ TurnInv /\ OneHand /\ TakeTurns /\ [Next]_vars => TurnInv'
<1> SUFFICES ASSUME IInv, TurnInv, OneHand, TakeTurns, [Next]_vars PROVE TurnInv'
  OBVIOUS
<1>1. ASSUME NEW h \in Hands, PlayerMoves(h) PROVE TurnInv'
  <2>1. PICK p \in Seats : \E events :
          PlayerActs(h, p, events) /\ \A e \in events : ActionAnswer(hand[h], p, e)
    BY <1>1, MovesAnswer
  <2>2. PICK events :
          PlayerActs(h, p, events) /\ \A e \in events : ActionAnswer(hand[h], p, e)
    BY <2>1
  <2> QED BY <2>2, ActTurn
<1>2. ASSUME UNCHANGED vars PROVE TurnInv'
  <2>1. ASSUME NEW h \in Hands PROVE TurnOf(h)'
    <3>1. TurnOf(h)
      BY DEF TurnInv
    <3> QED BY <1>2, <3>1
            DEF vars, TurnOf, DealTurn, DealingTurn, BlindsTurn, BettingTurn, Betting,
                Started, Dealt, DealSeen, Brought, Follows
  <2>2. \A c \in commands' : CommandTurn(c)'
    BY <1>2 DEF vars, TurnInv, CommandTurn
  <2> QED BY <2>1, <2>2 DEF TurnInv
<1> QED BY <1>1, <1>2, StartTurn, DealHandTurn, SeeAnyTurn, RestartTurn, AcceptTurn,
           RefuseTurn DEF Next

\* The inductive invariant of a hand that is played in turn.
LEMMA TurnHolds ==
  ASSUME OneHand, TakeTurns
  PROVE  Spec => [](IInv /\ TurnInv)
<1>1. IInv /\ TurnInv /\ [Next]_vars => TurnInv'
  BY NextTurn
<1> QED BY <1>1, InitIInv, TurnInit, NextIInv, PTL DEF Spec

\* The process manager and the aggregate of a hand that is played in turn have
\* the same stacks, pot and players whenever all its events are seen, for any
\* number of players, also when the service restarts and begins anew.
THEOREM SidesAgreeHolds ==
  ASSUME OneHand, TakeTurns
  PROVE  Spec => []SidesAgree
<1>1. ASSUME IInv, TurnInv PROVE SidesAgree
  <2> SUFFICES ASSUME NEW h \in Hands, Betting(h), pending[h] = <<>>
               PROVE  /\ \A p \in started[h].players :
                           processes[h].stack[p] = hand[h].stack[p]
                      /\ processes[h].pot_total = hand[h].pot
                      /\ processes[h].has_folded = hand[h].folded
                      /\ processes[h].is_all_in = hand[h].all_in
    BY DEF SidesAgree
  <2>1. BettingTurn(h) /\ Len(pending[h]) # 1
    BY <1>1, EmptySeq DEF TurnInv, TurnOf
  <2>2. Agree(processes[h], hand[h]) /\ hand[h].status = "betting"
    BY <2>1 DEF BettingTurn, Follows
  <2>3. hand[h].players = started[h].players
    BY <1>1, <2>2 DEF IInv, HandSound, Dealt
  <2> QED BY <2>2, <2>3 DEF Agree
<1>2. Spec => [](IInv /\ TurnInv)
  BY TurnHolds
<1> QED BY <1>1, <1>2, PTL

\* It is then the turn of one whom the aggregate lets act, until the betting
\* is complete.
THEOREM TurnCanActHolds ==
  ASSUME OneHand, TakeTurns
  PROVE  Spec => []TurnCanAct
<1>1. ASSUME IInv, TurnInv PROVE TurnCanAct
  <2> SUFFICES ASSUME NEW h \in Hands, Betting(h), pending[h] = <<>>,
                      ~ is_betting_complete(processes[h])
               PROVE  MayAct(hand[h], processes[h].action_on)
    BY DEF TurnCanAct
  <2>1. BettingTurn(h) /\ Len(pending[h]) # 1
    BY <1>1, EmptySeq DEF TurnInv, TurnOf
  <2>2. /\ Agree(processes[h], hand[h]) /\ hand[h].status = "betting"
        /\ processes[h].action_on \in ToAct(processes[h])
    BY <2>1 DEF BettingTurn, Follows
  <2>3. /\ hand[h].players = started[h].players
        /\ processes[h].deal = started[h]
    BY <1>1, <2>2 DEF IInv, HandSound, ProcessSound, Dealt, Betting
  <2> QED BY <2>2, <2>3 DEF Agree, ToAct, MayAct
<1>2. Spec => [](IInv /\ TurnInv)
  BY TurnHolds
<1> QED BY <1>1, <1>2, PTL

\* A pot that is paid is paid exactly, to the chip, when the players of the one
\* hand wait for their turn: no refund makes the pot negative, and an empty pot
\* is awarded as nothing.
THEOREM PaidExactlyHolds ==
  ASSUME OneHand, TakeTurns
  PROVE  Spec => []PaidExactly
<1>1. TurnInv => PaidExactly
  BY DEF TurnInv, TurnOf, PaidExactly
<1>2. Spec => [](IInv /\ TurnInv)
  BY TurnHolds
<1> QED BY <1>1, <1>2, PTL

\* Every command of the process manager is then one that the aggregate would
\* accept at once: a blind of one who is in, or the pot for the one who is left.
THEOREM CommandsAcceptedHolds ==
  ASSUME OneHand, TakeTurns
  PROVE  Spec => []CommandsAccepted
<1>1. ASSUME IInv, TurnInv PROVE CommandsAccepted
  <2> SUFFICES ASSUME NEW c \in commands PROVE Answers(hand[c.hand], c) # {}
    BY DEF CommandsAccepted
  <2> DEFINE s == hand[c.hand]
  <2>1. c \in Commands /\ c.hand \in Hands /\ CommandTurn(c)
    BY <1>1 DEF IInv, TypeOK, Commands, TurnInv
  <2>2. c.type \in {"PostBlind", "AwardPot"} /\ s.status = "betting"
    BY <2>1 DEF Commands, CommandTurn
  <2>3. CASE c.type = "PostBlind"
    <3>1. s.players = started[c.hand].players
      BY <1>1, <2>1, <2>2 DEF IInv, HandSound, Dealt
    <3>2. started[c.hand].small \in s.players /\ started[c.hand].big \in s.players
      BY <1>1, <2>1, <3>1, HandIsSound, DealFields
    <3>3. c.player \in s.players \ s.folded /\ c.amount > 0
      BY <2>1, <2>3, <3>2 DEF CommandTurn
    <3>4. handle_post_blind(s, c.player, c.blind_type, c.amount) # {}
      BY <2>2, <3>3 DEF handle_post_blind
    <3> QED BY <2>3, <3>4 DEF Answers
  <2>4. CASE c.type = "AwardPot"
    <3>1. PICK first \in c.winners : TRUE
      BY <2>1, <2>4 DEF CommandTurn
    <3> DEFINE others == [p \in c.winners \ {first} |-> c.awards[p]]
    <3>2. {first} \cup DOMAIN others \subseteq s.players \ s.folded
      BY <2>1, <2>4 DEF CommandTurn
    <3>3. handle_award_pot(s, first, c.awards[first], others) # {}
      <4> HIDE DEF others
      <4> QED BY <2>2, <3>2 DEF handle_award_pot
    <3> QED BY <2>4, <3>1, <3>3 DEF Answers
  <2> QED BY <2>2, <2>3, <2>4
<1>2. Spec => [](IInv /\ TurnInv)
  BY TurnHolds
<1> QED BY <1>1, <1>2, PTL

=============================================================================
