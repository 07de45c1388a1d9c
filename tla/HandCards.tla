------------------------------ MODULE HandCards ------------------------------
(***************************************************************************)
(* The cards of one hand aggregate under concurrent commands.  Modules     *)
(* HandState and Hand have its chips; no bet depends on a card and no card *)
(* on a bet.                                                               *)
(*                                                                         *)
(* The hand keeps no deck: CardsDealt says who got what, and every rebuild *)
(* of the state takes the deck to be all other cards, SHUFFLED ANEW, less  *)
(* the community cards since (hand_state.cpp:100-127, 193-213).  Two       *)
(* handlings of the same command therefore deal different cards, and, as   *)
(* in module Player, several answers may be open at a time: one is stored  *)
(* only while the event book is as long as when it was computed.           *)
(*                                                                         *)
(* The order of the deck is drawn at each handling, so the deck is a set   *)
(* and the cards dealt are any of it.                                      *)
(*                                                                         *)
(* A definition under the word Fault is a variant with a plausible bug in  *)
(* it, for showing that a property would notice; no action uses it.        *)
(***************************************************************************)
EXTENDS Integers, FiniteSets

CONSTANTS
  Deck,          \* the cards: 52 in the code
  MaxPlayers,    \* players dealt in: a table seats 10 at most
  HoleCards,     \* per game variant, cards per player
  BoardCards,    \* per phase that is dealt, community cards
  Draw,          \* the variant without community cards
  Calls,         \* calls of the aggregate that may be open at a time
  MaxVersion,    \* bound: events in the book
  None           \* "no open call"

Variants == DOMAIN HoleCards
Dealable == {"FLOP", "TURN", "RIVER"}
Phases   == {"UNSPECIFIED", "PREFLOP"} \cup Dealable

Positions == 0 .. MaxPlayers - 1

CardsType ==
  [status    : {"undealt", "betting", "complete"},
   variant   : Variants,
   phase     : Phases,
   players   : 0 .. MaxPlayers,               \* at positions 0 .. players-1
   hole      : [Positions -> SUBSET Deck],    \* hole_cards of each
   community : SUBSET Deck,
   remaining : SUBSET Deck]

EventType ==
  [type : {"CardsDealt"}, variant : Variants, players : 0 .. MaxPlayers,
   hole : [Positions -> SUBSET Deck]]
  \cup [type : {"CommunityCardsDealt"}, phase : Dealable, cards : SUBSET Deck]
  \cup [type : {"HandComplete", "BlindPosted"}]

ASSUME DeckAssumption   == IsFiniteSet(Deck)
ASSUME GameAssumption   ==
  /\ MaxPlayers \in Nat
  /\ Variants # {} /\ \A v \in Variants : HoleCards[v] \in Nat
  /\ DOMAIN BoardCards = Dealable /\ \A f \in Dealable : BoardCards[f] \in Nat
ASSUME BookAssumption   == MaxVersion \in Nat /\ None \notin [seq : Nat, event : EventType]

\* A full table can be dealt, board and all: with 52 cards and ten players
\* 10 * 4 + 5 cards in Omaha, and 10 * 5 in five card draw.
ASSUME DeckSuffices ==
  \A v \in Variants :
    MaxPlayers * HoleCards[v]
      + (IF v = Draw THEN 0
         ELSE BoardCards["FLOP"] + BoardCards["TURN"] + BoardCards["RIVER"])
      <= Cardinality(Deck)

AllHole(hole) == UNION {hole[p] : p \in Positions}

-----------------------------------------------------------------------------
(***************************************************************************)
(* HandState::apply_event, as far as cards go.                             *)
(***************************************************************************)
apply_cards_dealt(s, e) ==
  [s EXCEPT !.status = "betting", !.phase = "PREFLOP", !.variant = e.variant,
            !.players = e.players, !.hole = e.hole,
            !.remaining = Deck \ AllHole(e.hole)]

\* Fault: the cards are not taken out of the deck.
apply_community_dealt_from_full(s, e) ==
  [s EXCEPT !.status = "betting", !.phase = e.phase,
            !.community = @ \cup e.cards]

apply_community_dealt(s, e) ==
  [s EXCEPT !.status = "betting", !.phase = e.phase,
            !.community = @ \cup e.cards,
            !.remaining = @ \ e.cards]

\* Fault: a status that no handler knows.
apply_hand_complete_misspelt(s) == [s EXCEPT !.status = "completed"]

apply_hand_complete(s) == [s EXCEPT !.status = "complete"]

\* BlindPosted stands for the events that touch no card.
apply_event(s, e) ==
  CASE e.type = "CardsDealt"          -> apply_cards_dealt(s, e)
    [] e.type = "CommunityCardsDealt" -> apply_community_dealt(s, e)
    [] e.type = "HandComplete"        -> apply_hand_complete(s)
    [] e.type = "BlindPosted"         -> s

-----------------------------------------------------------------------------
(***************************************************************************)
(* Command handlers: the set of events they may return.                    *)
(***************************************************************************)
Smaller(a, b) == IF a < b THEN a ELSE b
Larger(a, b)  == IF a < b THEN b ELSE a

\* Fault: one card too many.
HoleSize_plus_one(variant, players, p) ==
  IF p < players THEN HoleCards[variant] + 1 ELSE 0

\* The cards that the player at p gets: all he should get, or what the
\* players before him have left of the deck.
HoleSize(variant, players, p) ==
  IF p < players
  THEN Smaller(HoleCards[variant],
               Larger(0, Cardinality(Deck) - p * HoleCards[variant]))
  ELSE 0

\* The ways to deal: everybody's share, no card twice.
Hands(variant, players) ==
  {hole \in [Positions -> SUBSET Deck] :
     /\ \A p \in Positions : Cardinality(hole[p]) = HoleSize(variant, players, p)
     /\ \A p, q \in Positions : p # q => hole[p] \cap hole[q] = {}}

\* Fault: no check that the hand was not dealt yet.
handle_deal_again(s, variant, players) ==
  IF players < 2 THEN {}
  ELSE {[type |-> "CardsDealt", variant |-> variant, players |-> players,
         hole |-> hole] : hole \in Hands(variant, players)}

handle_deal(s, variant, players) ==
  IF s.status # "undealt" \/ players < 2 THEN {}
  ELSE {[type |-> "CardsDealt", variant |-> variant, players |-> players,
         hole |-> hole] : hole \in Hands(variant, players)}

next_phase == [PREFLOP |-> "FLOP", FLOP |-> "TURN", TURN |-> "RIVER"]

\* get_next_phase: is there a phase to deal for?
HasNext(s) == s.variant # Draw /\ s.phase \in DOMAIN next_phase

handle_deal_community(s, count) ==
  IF ~ HasNext(s) THEN {}
  ELSE {[type |-> "CommunityCardsDealt", phase |-> next_phase[s.phase],
         cards |-> cards] :
          cards \in {C \in SUBSET s.remaining :
                       /\ s.status \notin {"undealt", "complete"}
                       /\ 0 < count
                       /\ count = BoardCards[next_phase[s.phase]]
                       /\ count <= Cardinality(s.remaining)
                       /\ Cardinality(C) = count}}

\* Of the pair of events of handle_award_pot the second matters here.
handle_award_pot(s) ==
  {e \in {[type |-> "HandComplete"]} : s.status \notin {"undealt", "complete"}}

\* Any command that touches no card.
handle_post_blind(s) ==
  {e \in {[type |-> "BlindPosted"]} : s.status \notin {"undealt", "complete"}}

-----------------------------------------------------------------------------
VARIABLES
  cards,         \* the state the event book replays to
  version,       \* the length of the event book
  inflight       \* per call, the event the service answered and the length of
                 \* the book it was computed from

vars == <<cards, version, inflight>>

NewCards(v) ==
  [status |-> "undealt", variant |-> v, phase |-> "UNSPECIFIED", players |-> 0,
   hole |-> [p \in Positions |-> {}], community |-> {}, remaining |-> {}]

Init ==
  /\ cards = NewCards(CHOOSE v \in Variants : TRUE)
  /\ version = 0
  /\ inflight = [c \in Calls |-> None]

\* Fault: the length of the book is read after the handler ran, when one more
\* event may have been stored.
Answer_numbered_late(c, events) ==
  /\ inflight[c] = None
  /\ version < MaxVersion
  /\ \E e \in events, late \in {0, 1} :
       inflight' = [inflight EXCEPT ![c] = [seq |-> version + late, event |-> e]]
  /\ UNCHANGED <<cards, version>>

\* The service answers call c with one of events, computed from today's book.
Answer(c, events) ==
  /\ inflight[c] = None
  /\ version < MaxVersion
  /\ \E e \in events :
       inflight' = [inflight EXCEPT ![c] = [seq |-> version, event |-> e]]
  /\ UNCHANGED <<cards, version>>

DealCards(c, variant, players) == Answer(c, handle_deal(cards, variant, players))
DealCommunityCards(c, count)   == Answer(c, handle_deal_community(cards, count))
AwardPot(c)                    == Answer(c, handle_award_pot(cards))
PostBlind(c)                   == Answer(c, handle_post_blind(cards))

Fresh(c) == inflight[c] # None /\ inflight[c].seq = version

\* The coordinator stores the answer: the sequence number still fits.
Append(c) ==
  /\ Fresh(c)
  /\ cards' = apply_event(cards, inflight[c].event)
  /\ version' = version + 1
  /\ inflight' = [inflight EXCEPT ![c] = None]

\* The answer is never stored: a sequence conflict, or the call is lost.
Discard(c) ==
  /\ inflight[c] # None
  /\ inflight' = [inflight EXCEPT ![c] = None]
  /\ UNCHANGED <<cards, version>>

Next ==
  \E c \in Calls :
    \/ \E variant \in Variants, players \in 0 .. MaxPlayers :
         DealCards(c, variant, players)
    \/ \E count \in 0 .. Cardinality(Deck) : DealCommunityCards(c, count)
    \/ AwardPot(c)
    \/ PostBlind(c)
    \/ Append(c)
    \/ Discard(c)

Spec == Init /\ [][Next]_vars

-----------------------------------------------------------------------------
\* Every variable has its type.
TypeOK ==
  /\ cards \in CardsType
  /\ version \in Nat
  /\ inflight \in [Calls -> {None} \cup [seq : Nat, event : EventType]]

\* How many cards the board has.
BoardSize ==
  [UNSPECIFIED |-> 0, PREFLOP |-> 0, FLOP |-> BoardCards["FLOP"],
   TURN  |-> BoardCards["FLOP"] + BoardCards["TURN"],
   RIVER |-> BoardCards["FLOP"] + BoardCards["TURN"] + BoardCards["RIVER"]]

\* No card is dealt twice, to two players, to a player and the board, or to
\* the board again, although every handling of a command shuffles another
\* deck and two of them may answer at once (hand_state.cpp:113-127, 200-203,
\* deal_community_handler.cpp:76-84).  A card on the board twice would show
\* in the size of the board.
NoCardTwice ==
  /\ \A p, q \in Positions : p # q => cards.hole[p] \cap cards.hole[q] = {}
  /\ \A p \in Positions : cards.hole[p] \cap cards.community = {}
  /\ Cardinality(cards.community) = BoardSize[cards.phase]

\* No card is lost: the deck that every rebuild makes up is exactly what
\* neither a player nor the board has, whatever community cards came since
\* the deal (hand_state.cpp:100-127, 193-204).
DeckWhole ==
  cards.status # "undealt" =>
    cards.remaining = Deck \ (AllHole(cards.hole) \cup cards.community)

\* Cards stay where they were dealt: of two deals, or two flops, answered at
\* once the second is not stored over the first (deal_handler.cpp:16).
CardsStay ==
  [][cards.status # "undealt" =>
       /\ cards'.hole = cards.hole
       /\ cards.community \subseteq cards'.community]_vars

\* The deck never runs short: everybody at a full table has all his cards,
\* and the next board can always be dealt, so that "Not enough cards in deck"
\* (deal_community_handler.cpp:69) is never the answer to the right count.
NeverShort ==
  cards.status # "undealt" =>
    /\ \A p \in 0 .. cards.players - 1 :
         Cardinality(cards.hole[p]) = HoleCards[cards.variant]
    /\ HasNext(cards) =>
         BoardCards[next_phase[cards.phase]] <= Cardinality(cards.remaining)
=============================================================================
