--------------------------- MODULE HandCardsProofs ---------------------------
(***************************************************************************)
(* The cards of a hand, for any deck, any number of players and calls, and *)
(* any game variants that the deck suffices for.                           *)
(*                                                                         *)
(* The inductive invariant is that an answer that can still be stored is   *)
(* one that the handlers would give now: whatever was stored since it was  *)
(* computed has made the book longer, and the answer is stale.             *)
(***************************************************************************)
EXTENDS HandCards, SumLemmas, FiniteSetTheorems

\* An event that the handlers would return in state s for some command.
Answerable(s, e) ==
  /\ e.type = "CardsDealt" =>
       /\ s.status = "undealt"
       /\ e.hole \in Hands(e.variant, e.players)
  /\ e.type = "CommunityCardsDealt" =>
       /\ s.status = "betting"
       /\ HasNext(s) /\ e.phase = next_phase[s.phase]
       /\ e.cards \subseteq s.remaining
       /\ Cardinality(e.cards) = BoardCards[e.phase]
  /\ e.type \in {"HandComplete", "BlindPosted"} => s.status = "betting"

AnswersSound ==
  \A c \in Calls : inflight[c] # None =>
    /\ inflight[c].seq <= version
    /\ inflight[c].seq = version => Answerable(cards, inflight[c].event)

\* Before the deal nobody has a card and no phase has come.
UndealtSound ==
  /\ cards.status = "undealt" => cards.phase = "UNSPECIFIED"
  /\ cards.phase = "UNSPECIFIED" =>
       /\ cards.community = {}
       /\ \A p \in Positions : cards.hole[p] = {}

\* Who was dealt in has all his cards, and nobody else has any.
SharesSound ==
  cards.status # "undealt" =>
    \A p \in Positions :
      Cardinality(cards.hole[p]) =
        IF p < cards.players THEN HoleCards[cards.variant] ELSE 0

IInv ==
  /\ TypeOK
  /\ AnswersSound
  /\ UndealtSound
  /\ NoCardTwice
  /\ DeckWhole
  /\ SharesSound

-----------------------------------------------------------------------------
(***************************************************************************)
(* Sizes.                                                                  *)
(***************************************************************************)
LEMMA MultiplyMonotone ==
  ASSUME NEW a \in Nat, NEW b \in Nat, NEW n \in Nat, a <= b
  PROVE  a * n \in Nat /\ b * n \in Nat /\ a * n <= b * n
<1>1. PICK d \in Nat : b = a + d
  <2>1. b - a \in Nat /\ b = a + (b - a)
    OBVIOUS
  <2> QED BY <2>1
<1>2. a * n \in Nat /\ d * n \in Nat
  OBVIOUS
<1>3. b * n = a * n + d * n
  BY <1>1
<1> QED BY <1>2, <1>3

LEMMA PartsOfDeck ==
  ASSUME NEW S \in SUBSET Deck
  PROVE  IsFiniteSet(S) /\ Cardinality(S) \in Nat
BY DeckAssumption, FS_Subset, FS_CardinalityType

LEMMA BoardCardsType ==
  /\ BoardCards["FLOP"] \in Nat /\ BoardCards["TURN"] \in Nat
  /\ BoardCards["RIVER"] \in Nat
  /\ BoardSize["UNSPECIFIED"] = 0 /\ BoardSize["PREFLOP"] = 0
  /\ BoardSize["FLOP"] = BoardCards["FLOP"]
  /\ BoardSize["TURN"] = BoardCards["FLOP"] + BoardCards["TURN"]
  /\ BoardSize["RIVER"] = BoardCards["FLOP"] + BoardCards["TURN"] + BoardCards["RIVER"]
BY GameAssumption DEF Dealable, BoardSize

\* A full table gets all its cards: nobody's share is cut short.
LEMMA SharesAreFull ==
  ASSUME NEW variant \in Variants, NEW players \in 0 .. MaxPlayers, NEW p \in Positions
  PROVE  HoleSize(variant, players, p) = IF p < players THEN HoleCards[variant] ELSE 0
<1> DEFINE n == HoleCards[variant]
<1>1. n \in Nat /\ p + 1 \in Nat /\ p \in Nat /\ MaxPlayers \in Nat /\ p + 1 <= MaxPlayers
  BY GameAssumption DEF Positions
<1>2. Cardinality(Deck) \in Nat
  BY DeckAssumption, FS_CardinalityType
<1>3. MaxPlayers * n <= Cardinality(Deck)
  <2>1. MaxPlayers * n + (IF variant = Draw THEN 0
          ELSE BoardCards["FLOP"] + BoardCards["TURN"] + BoardCards["RIVER"])
            <= Cardinality(Deck)
    BY DeckSuffices
  <2>2. MaxPlayers * n \in Nat
    BY <1>1
  <2> HIDE DEF n
  <2> QED BY <1>2, <2>1, <2>2, BoardCardsType
<1> HIDE DEF n
<1>4. (p + 1) * n \in Nat /\ MaxPlayers * n \in Nat /\ (p + 1) * n <= MaxPlayers * n
  BY <1>1, MultiplyMonotone
<1>5. (p + 1) * n = p * n + n /\ p * n \in Nat
  BY <1>1
<1>6. n <= Cardinality(Deck) - p * n /\ Cardinality(Deck) - p * n \in Nat
  BY <1>1, <1>2, <1>3, <1>4, <1>5
<1>7. Smaller(n, Larger(0, Cardinality(Deck) - p * n)) = n
  <2> DEFINE left == Cardinality(Deck) - p * n
  <2>1. n <= left /\ left \in Nat
    BY <1>6
  <2> HIDE DEF left
  <2>2. Smaller(n, Larger(0, left)) = n
    BY <1>1, <2>1 DEF Smaller, Larger
  <2> QED BY <2>2 DEF left
<1> QED BY <1>7 DEF HoleSize, n

\* The players together have no more than their number times a share.
LEMMA HoleBound ==
  ASSUME NEW hole \in [Positions -> SUBSET Deck], NEW players \in 0 .. MaxPlayers,
         NEW n \in Nat,
         \A p \in Positions : Cardinality(hole[p]) = IF p < players THEN n ELSE 0
  PROVE  Cardinality(AllHole(hole)) <= players * n
<1> DEFINE First(k) == UNION {hole[p] : p \in {q \in Positions : q < k}}
           Ok(k)    == Cardinality(First(k)) <= k * n
           Bad      == {k \in 0 .. players : ~ Ok(k)}
<1>1. \A k : First(k) \in SUBSET Deck
  OBVIOUS
<1>2. \A k : IsFiniteSet(First(k)) /\ Cardinality(First(k)) \in Nat
  <2> HIDE DEF First
  <2> QED BY <1>1, PartsOfDeck
<1>3. Ok(0)
  <2>1. \A q \in Positions : ~ q < 0
    BY DEF Positions
  <2>2. First(0) = {}
    BY <2>1
  <2>3. Cardinality(First(0)) = 0
    BY <2>2, FS_EmptySet
  <2>4. 0 * n = 0
    OBVIOUS
  <2> HIDE DEF First
  <2> QED BY <2>3, <2>4
<1>4. Bad = {}
  <2> SUFFICES ASSUME Bad # {} PROVE FALSE
    OBVIOUS
  <2>1. PICK k \in Bad : \A j \in Bad : k <= j
    <3>1. Bad \in SUBSET Nat
      OBVIOUS
    <3> HIDE DEF Bad
    <3> QED BY <3>1, LeastElement
  <2>2. k \in Nat /\ k # 0 /\ k <= players /\ ~ Ok(k) /\ players <= MaxPlayers
    <3>1. k \in 0 .. players /\ ~ Ok(k)
      OBVIOUS
    <3> HIDE DEF Ok
    <3>2. k # 0
      BY <1>3, <3>1
    <3> QED BY <3>1, <3>2, GameAssumption
  <2> DEFINE j == k - 1
  <2>3. j \in Nat /\ k = j + 1 /\ j \in 0 .. players /\ ~ k <= j
    BY <2>2
  <2>4. Ok(j)
    <3> HIDE DEF Ok, j
    <3> QED BY <2>1, <2>3
  <2>5. j \in Positions
    BY <2>2, GameAssumption DEF Positions
  <2> HIDE DEF j
  <2>6. First(k) = First(j) \cup hole[j]
    <3>1. \A q \in Positions : q < k <=> q < j \/ q = j
      BY <2>3 DEF Positions
    <3> QED BY <2>5, <3>1
  <2> HIDE DEF First
  <2>7. IsFiniteSet(hole[j]) /\ Cardinality(hole[j]) = n
    <3>1. j < players
      BY <2>2, <2>3
    <3> QED BY <2>5, <3>1, PartsOfDeck
  <2>8. Cardinality(First(j) \cap hole[j]) \in Nat
    BY <1>1, PartsOfDeck
  <2>9. Cardinality(First(k)) <= Cardinality(First(j)) + n
    <3>1. Cardinality(First(k)) = Cardinality(First(j)) + n - Cardinality(First(j) \cap hole[j])
      BY <1>2, <2>6, <2>7, FS_Union
    <3> QED BY <1>2, <2>8, <3>1
  <2>10. k * n = j * n + n /\ j * n \in Nat /\ k * n \in Nat
    BY <2>2, <2>3
  <2>11. Cardinality(First(k)) <= k * n
    BY <1>2, <2>4, <2>9, <2>10
  <2> QED BY <2>2, <2>11
<1>5. Ok(players)
  <2>1. players \in 0 .. players
    BY GameAssumption
  <2> HIDE DEF Ok
  <2> QED BY <1>4, <2>1
<1>6. AllHole(hole) = First(players)
  <2>1. \A p \in Positions : ~ p < players => hole[p] = {}
    <3>1. ASSUME NEW p \in Positions, ~ p < players PROVE hole[p] = {}
      <4>1. IsFiniteSet(hole[p]) /\ Cardinality(hole[p]) = 0
        BY <3>1, PartsOfDeck
      <4> QED BY <4>1, FS_EmptySet
    <3> QED BY <3>1
  <2> QED BY <2>1 DEF AllHole
<1> QED BY <1>5, <1>6

-----------------------------------------------------------------------------
LEMMA InitIInv == Init => IInv
<1> SUFFICES ASSUME Init PROVE IInv
  OBVIOUS
<1> DEFINE v == CHOOSE v \in Variants : TRUE
<1>1. v \in Variants
  BY GameAssumption
<1>2. cards = NewCards(v) /\ version = 0 /\ \A c \in Calls : inflight[c] = None
  BY DEF Init
<1> HIDE DEF v
<1>3. /\ cards.status = "undealt" /\ cards.phase = "UNSPECIFIED"
      /\ cards.community = {} /\ \A p \in Positions : cards.hole[p] = {}
  BY <1>2 DEF NewCards
<1>4. cards \in CardsType
  <2>1. [p \in Positions |-> {}] \in [Positions -> SUBSET Deck] /\ 0 \in 0 .. MaxPlayers
    BY GameAssumption
  <2> QED BY <1>1, <1>2, <2>1 DEF NewCards, CardsType, Phases
<1>5. TypeOK
  BY <1>2, <1>4 DEF TypeOK, Init
<1>6. NoCardTwice
  BY <1>3, FS_EmptySet, BoardCardsType DEF NoCardTwice
<1> QED BY <1>2, <1>3, <1>5, <1>6
        DEF IInv, AnswersSound, UndealtSound, DeckWhole, SharesSound

\* What a handler returns in a sound state has its type and can be stored.
LEMMA AnswersAreAnswerable ==
  ASSUME IInv
  PROVE  /\ \A variant \in Variants, players \in 0 .. MaxPlayers :
              \A e \in handle_deal(cards, variant, players) :
                e \in EventType /\ Answerable(cards, e)
         /\ \A count \in Nat : \A e \in handle_deal_community(cards, count) :
              e \in EventType /\ Answerable(cards, e)
         /\ \A e \in handle_award_pot(cards) : e \in EventType /\ Answerable(cards, e)
         /\ \A e \in handle_post_blind(cards) : e \in EventType /\ Answerable(cards, e)
<1>1. cards \in CardsType
  BY DEF IInv, TypeOK
<1>2. cards.status \in {"undealt", "betting", "complete"}
      /\ cards.remaining \in SUBSET Deck
  BY <1>1 DEF CardsType
<1>3. ASSUME NEW variant \in Variants, NEW players \in 0 .. MaxPlayers,
             NEW e \in handle_deal(cards, variant, players)
      PROVE  e \in EventType /\ Answerable(cards, e)
  <2>1. PICK hole \in Hands(variant, players) :
          e = [type |-> "CardsDealt", variant |-> variant, players |-> players,
               hole |-> hole]
    BY <1>3 DEF handle_deal
  <2>2. cards.status = "undealt"
    BY <1>3 DEF handle_deal
  <2>3. hole \in [Positions -> SUBSET Deck]
    BY DEF Hands
  <2>4. e \in EventType
    BY <2>1, <2>3 DEF EventType
  <2>5. Answerable(cards, e)
    BY <2>1, <2>2 DEF Answerable
  <2> QED BY <2>4, <2>5
<1>4. ASSUME NEW count \in Nat, NEW e \in handle_deal_community(cards, count)
      PROVE  e \in EventType /\ Answerable(cards, e)
  <2>1. HasNext(cards)
    BY <1>4 DEF handle_deal_community
  <2>2. PICK C \in SUBSET cards.remaining :
          /\ e = [type |-> "CommunityCardsDealt", phase |-> next_phase[cards.phase],
                  cards |-> C]
          /\ cards.status \notin {"undealt", "complete"}
          /\ count = BoardCards[next_phase[cards.phase]]
          /\ Cardinality(C) = count
    BY <1>4, <2>1 DEF handle_deal_community
  <2>3. next_phase[cards.phase] \in Dealable
    BY <2>1 DEF HasNext, next_phase, Dealable
  <2>4. e \in EventType
    BY <1>2, <2>2, <2>3 DEF EventType
  <2>5. e.type = "CommunityCardsDealt" /\ e.phase = next_phase[cards.phase] /\ e.cards = C
    BY <2>2
  <2>6. Answerable(cards, e)
    BY <1>2, <2>1, <2>2, <2>5 DEF Answerable
  <2> QED BY <2>4, <2>6
<1>5. ASSUME NEW e \in handle_award_pot(cards)
      PROVE  e \in EventType /\ Answerable(cards, e)
  BY <1>2, <1>5 DEF handle_award_pot, EventType, Answerable
<1>6. ASSUME NEW e \in handle_post_blind(cards)
      PROVE  e \in EventType /\ Answerable(cards, e)
  BY <1>2, <1>6 DEF handle_post_blind, EventType, Answerable
<1> QED BY <1>3, <1>4, <1>5, <1>6

\* A new answer keeps the invariant.
LEMMA AnswerIInv ==
  ASSUME IInv, NEW c \in Calls, NEW events, Answer(c, events),
         \A e \in events : e \in EventType /\ Answerable(cards, e)
  PROVE  IInv'
<1>1. PICK e \in events :
        inflight' = [inflight EXCEPT ![c] = [seq |-> version, event |-> e]]
  BY DEF Answer
<1>2. UNCHANGED <<cards, version>>
  BY DEF Answer
<1>3. version \in Nat
      /\ inflight \in [Calls -> {None} \cup [seq : Nat, event : EventType]]
  BY DEF IInv, TypeOK
<1> DEFINE a == [seq |-> version, event |-> e]
<1>4. /\ a \in [seq : Nat, event : EventType]
      /\ a.seq = version /\ a.event = e
  BY <1>3
<1>5. inflight' = [inflight EXCEPT ![c] = a]
  BY <1>1
<1> HIDE DEF a
<1>6. TypeOK'
  BY <1>2, <1>3, <1>4, <1>5 DEF IInv, TypeOK
<1>7. AnswersSound'
  <2> SUFFICES ASSUME NEW d \in Calls, inflight'[d] # None
               PROVE  /\ inflight'[d].seq <= version
                      /\ inflight'[d].seq = version => Answerable(cards, inflight'[d].event)
    BY <1>2 DEF AnswersSound, Answerable, HasNext
  <2>1. CASE d = c
    <3>1. inflight'[d] = a
      BY <1>3, <1>5, <2>1
    <3> QED BY <1>3, <1>4, <3>1
  <2>2. CASE d # c
    <3>1. inflight'[d] = inflight[d]
      BY <1>3, <1>5, <2>2
    <3> QED BY <3>1 DEF IInv, AnswersSound
  <2> QED BY <2>1, <2>2
<1> QED BY <1>2, <1>6, <1>7 DEF IInv, UndealtSound, NoCardTwice, DeckWhole, SharesSound

\* A discarded answer is gone.
LEMMA DiscardIInv ==
  ASSUME IInv, NEW c \in Calls, Discard(c)
  PROVE  IInv'
<1>1. /\ UNCHANGED <<cards, version>>
      /\ inflight' = [inflight EXCEPT ![c] = None]
  BY DEF Discard
<1>2. inflight \in [Calls -> {None} \cup [seq : Nat, event : EventType]]
  BY DEF IInv, TypeOK
<1>3. TypeOK'
  BY <1>1, <1>2 DEF IInv, TypeOK
<1>4. \A d \in Calls : inflight'[d] # None => inflight'[d] = inflight[d]
  BY <1>1, <1>2
<1>5. AnswersSound'
  BY <1>1, <1>4 DEF IInv, AnswersSound, Answerable, HasNext
<1> QED BY <1>1, <1>3, <1>5 DEF IInv, UndealtSound, NoCardTwice, DeckWhole, SharesSound

-----------------------------------------------------------------------------
(***************************************************************************)
(* Storing an answer, one lemma per event.                                 *)
(***************************************************************************)
\* What storing changes beside the cards: the book is longer than it was when
\* any answer was computed.
LEMMA AppendStep ==
  ASSUME IInv, NEW c \in Calls, Append(c)
  PROVE  /\ inflight[c] # None /\ inflight[c].event \in EventType
         /\ Answerable(cards, inflight[c].event)
         /\ cards' = apply_event(cards, inflight[c].event)
         /\ AnswersSound'
         /\ version' \in Nat
         /\ inflight' \in [Calls -> {None} \cup [seq : Nat, event : EventType]]
<1>1. /\ inflight[c] # None /\ inflight[c].seq = version
      /\ cards' = apply_event(cards, inflight[c].event)
      /\ version' = version + 1
      /\ inflight' = [inflight EXCEPT ![c] = None]
  BY DEF Append, Fresh
<1>2. version \in Nat
      /\ inflight \in [Calls -> {None} \cup [seq : Nat, event : EventType]]
  BY DEF IInv, TypeOK
<1>3. \A d \in Calls : inflight'[d] # None =>
        /\ inflight'[d] = inflight[d] /\ inflight'[d].seq \in Nat
        /\ inflight'[d].seq <= version
  <2> SUFFICES ASSUME NEW d \in Calls, inflight'[d] # None
               PROVE  /\ inflight'[d] = inflight[d] /\ inflight'[d].seq \in Nat
                      /\ inflight'[d].seq <= version
    OBVIOUS
  <2>1. inflight'[d] = inflight[d]
    BY <1>1, <1>2
  <2>2. inflight[d] \in [seq : Nat, event : EventType]
    BY <1>2, <2>1
  <2>3. inflight[d].seq \in Nat
    BY <2>2
  <2> QED BY <2>1, <2>3 DEF IInv, AnswersSound
<1>4. AnswersSound'
  <2>1. \A d \in Calls : inflight'[d] # None =>
          inflight'[d].seq <= version' /\ inflight'[d].seq # version'
    BY <1>1, <1>2, <1>3
  <2> QED BY <2>1 DEF AnswersSound
<1>5. inflight[c].event \in EventType
  <2>1. inflight[c] \in [seq : Nat, event : EventType]
    BY <1>1, <1>2
  <2> QED BY <2>1
<1>6. Answerable(cards, inflight[c].event)
  BY <1>1 DEF IInv, AnswersSound
<1> QED BY <1>1, <1>2, <1>4, <1>5, <1>6

LEMMA EventFields ==
  ASSUME NEW e \in EventType
  PROVE  /\ e.type \in {"CardsDealt", "CommunityCardsDealt", "HandComplete", "BlindPosted"}
         /\ e.type = "CardsDealt" =>
              /\ e.variant \in Variants /\ e.players \in 0 .. MaxPlayers
              /\ e.hole \in [Positions -> SUBSET Deck]
         /\ e.type = "CommunityCardsDealt" =>
              e.phase \in Dealable /\ e.cards \in SUBSET Deck
BY DEF EventType

\* The parts of the invariant that speak of the cards alone.
CardsSound == cards \in CardsType /\ UndealtSound /\ NoCardTwice /\ DeckWhole /\ SharesSound

LEMMA StoreDeal ==
  ASSUME IInv, NEW e \in EventType, e.type = "CardsDealt", Answerable(cards, e),
         cards' = apply_event(cards, e)
  PROVE  CardsSound'
<1>1. cards.status = "undealt" /\ e.hole \in Hands(e.variant, e.players)
  BY DEF Answerable
<1>2. /\ e.variant \in Variants /\ e.players \in 0 .. MaxPlayers
      /\ e.hole \in [Positions -> SUBSET Deck]
  BY EventFields
<1>3. cards \in CardsType /\ cards.community = {}
  BY <1>1 DEF IInv, TypeOK, UndealtSound
<1> DEFINE left == Deck \ AllHole(e.hole)
<1>4. cards' = [cards EXCEPT !.status = "betting", !.phase = "PREFLOP",
                  !.variant = e.variant, !.players = e.players, !.hole = e.hole,
                  !.remaining = left]
  BY DEF apply_event, apply_cards_dealt
<1>5. left \in SUBSET Deck /\ left = Deck \ (AllHole(e.hole) \cup {})
  OBVIOUS
<1> HIDE DEF left
<1>6. cards' = [status |-> "betting", variant |-> e.variant, phase |-> "PREFLOP",
                players |-> e.players, hole |-> e.hole,
                community |-> {}, remaining |-> left]
  BY <1>3, <1>4 DEF CardsType
<1>7. cards' \in CardsType
  BY <1>2, <1>5, <1>6 DEF CardsType, Phases
<1>8. /\ cards'.status = "betting" /\ cards'.phase = "PREFLOP"
      /\ cards'.variant = e.variant /\ cards'.players = e.players
      /\ cards'.hole = e.hole /\ cards'.community = {} /\ cards'.remaining = left
  BY <1>6
<1>9. UndealtSound'
  BY <1>8 DEF UndealtSound
<1>10. NoCardTwice'
  <2>1. \A p, q \in Positions : p # q => e.hole[p] \cap e.hole[q] = {}
    BY <1>1 DEF Hands
  <2> QED BY <1>8, <2>1, FS_EmptySet, BoardCardsType DEF NoCardTwice
<1>11. DeckWhole'
  BY <1>5, <1>8 DEF DeckWhole
<1>12. SharesSound'
  <2>1. \A p \in Positions : Cardinality(e.hole[p]) = HoleSize(e.variant, e.players, p)
    BY <1>1 DEF Hands
  <2>2. \A p \in Positions : Cardinality(e.hole[p]) =
          IF p < e.players THEN HoleCards[e.variant] ELSE 0
    BY <1>2, <2>1, SharesAreFull
  <2> QED BY <1>8, <2>2 DEF SharesSound
<1> QED BY <1>7, <1>9, <1>10, <1>11, <1>12 DEF CardsSound

LEMMA StoreCommunity ==
  ASSUME IInv, NEW e \in EventType, e.type = "CommunityCardsDealt",
         Answerable(cards, e), cards' = apply_event(cards, e)
  PROVE  CardsSound'
<1>1. /\ cards.status = "betting" /\ HasNext(cards)
      /\ e.phase = next_phase[cards.phase] /\ e.cards \subseteq cards.remaining
      /\ Cardinality(e.cards) = BoardCards[e.phase]
  BY DEF Answerable
<1>2. e.phase \in Dealable /\ e.cards \in SUBSET Deck
  BY EventFields
<1>3. cards \in CardsType
  BY DEF IInv, TypeOK
<1>4. cards.remaining = Deck \ (AllHole(cards.hole) \cup cards.community)
  BY <1>1 DEF IInv, DeckWhole
<1> DEFINE board == cards.community \cup e.cards
           left  == cards.remaining \ e.cards
<1>5. cards' = [cards EXCEPT !.status = "betting", !.phase = e.phase,
                             !.community = board, !.remaining = left]
  BY DEF apply_event, apply_community_dealt
<1>6. board \in SUBSET Deck /\ left \in SUBSET Deck
  BY <1>2, <1>3 DEF CardsType
<1>7. left = Deck \ (AllHole(cards.hole) \cup board)
  BY <1>4
<1>8. \A p \in Positions : cards.hole[p] \cap board = {}
  <2>1. \A p \in Positions : cards.hole[p] \cap cards.community = {}
    BY DEF IInv, NoCardTwice
  <2>2. \A p \in Positions : cards.hole[p] \subseteq AllHole(cards.hole)
    BY DEF AllHole
  <2>3. e.cards \cap AllHole(cards.hole) = {}
    BY <1>1, <1>4
  <2> QED BY <2>1, <2>2, <2>3
<1>9. Cardinality(board) = BoardSize[e.phase]
  <2>1. cards.community \cap e.cards = {}
    BY <1>1, <1>4
  <2>2. /\ IsFiniteSet(cards.community) /\ Cardinality(cards.community) \in Nat
        /\ IsFiniteSet(e.cards)
    BY <1>2, <1>3, PartsOfDeck DEF CardsType
  <2>3. Cardinality(board) = Cardinality(cards.community) + Cardinality(e.cards)
                               - Cardinality(cards.community \cap e.cards)
    BY <2>2, FS_Union
  <2>4. Cardinality(cards.community \cap e.cards) = 0
    BY <2>1, FS_EmptySet
  <2>5. Cardinality(cards.community) = BoardSize[cards.phase]
    BY DEF IInv, NoCardTwice
  <2>6. \/ cards.phase = "PREFLOP" /\ e.phase = "FLOP"
        \/ cards.phase = "FLOP" /\ e.phase = "TURN"
        \/ cards.phase = "TURN" /\ e.phase = "RIVER"
    BY <1>1 DEF HasNext, next_phase
  <2> HIDE DEF board
  <2>7. BoardSize[cards.phase] + BoardCards[e.phase] = BoardSize[e.phase]
    BY <2>6, BoardCardsType
  <2>8. BoardCards[e.phase] \in Nat /\ BoardSize[cards.phase] \in Nat
    BY <2>6, BoardCardsType
  <2> QED BY <1>1, <2>3, <2>4, <2>5, <2>7, <2>8
<1> HIDE DEF board, left
<1>10. cards' = [status |-> "betting", variant |-> cards.variant, phase |-> e.phase,
                 players |-> cards.players, hole |-> cards.hole,
                 community |-> board, remaining |-> left]
  BY <1>3, <1>5 DEF CardsType
<1>11. cards' \in CardsType
  BY <1>2, <1>3, <1>6, <1>10 DEF CardsType, Phases
<1>12. /\ cards'.status = "betting" /\ cards'.phase = e.phase
       /\ cards'.variant = cards.variant /\ cards'.players = cards.players
       /\ cards'.hole = cards.hole /\ cards'.community = board /\ cards'.remaining = left
  BY <1>10
<1>13. UndealtSound'
  BY <1>2, <1>12 DEF UndealtSound, Dealable
<1>14. NoCardTwice' /\ DeckWhole' /\ SharesSound'
  BY <1>1, <1>7, <1>8, <1>9, <1>12 DEF IInv, NoCardTwice, DeckWhole, SharesSound
<1> QED BY <1>11, <1>13, <1>14 DEF CardsSound

LEMMA StoreOther ==
  ASSUME IInv, NEW e \in EventType, e.type \in {"HandComplete", "BlindPosted"},
         Answerable(cards, e), cards' = apply_event(cards, e)
  PROVE  CardsSound'
<1>1. cards.status = "betting" /\ cards \in CardsType
  BY DEF Answerable, IInv, TypeOK
<1>2. cards' = cards \/ cards' = [cards EXCEPT !.status = "complete"]
  BY DEF apply_event, apply_hand_complete
<1>3. cards' \in CardsType
  BY <1>1, <1>2 DEF CardsType
<1>4. /\ cards'.status # "undealt" /\ cards'.phase = cards.phase
      /\ cards'.variant = cards.variant /\ cards'.players = cards.players
      /\ cards'.hole = cards.hole /\ cards'.community = cards.community
      /\ cards'.remaining = cards.remaining
  BY <1>1, <1>2 DEF CardsType
<1>5. UndealtSound' /\ NoCardTwice' /\ DeckWhole' /\ SharesSound'
  BY <1>1, <1>4 DEF IInv, UndealtSound, NoCardTwice, DeckWhole, SharesSound
<1> QED BY <1>3, <1>5 DEF CardsSound

LEMMA AppendIInv ==
  ASSUME IInv, NEW c \in Calls, Append(c)
  PROVE  IInv'
<1> DEFINE e == inflight[c].event
<1>1. /\ e \in EventType /\ Answerable(cards, e) /\ cards' = apply_event(cards, e)
      /\ AnswersSound' /\ version' \in Nat
      /\ inflight' \in [Calls -> {None} \cup [seq : Nat, event : EventType]]
  BY AppendStep
<1> HIDE DEF e
<1>2. CardsSound'
  BY <1>1, EventFields, StoreDeal, StoreCommunity, StoreOther
<1> QED BY <1>1, <1>2 DEF CardsSound, IInv, TypeOK

LEMMA NextIInv == IInv /\ [Next]_vars => IInv'
<1> SUFFICES ASSUME IInv, [Next]_vars PROVE IInv'
  OBVIOUS
<1>1. ASSUME NEW c \in Calls, NEW variant \in Variants, NEW players \in 0 .. MaxPlayers,
             DealCards(c, variant, players)
      PROVE  IInv'
  BY <1>1, AnswersAreAnswerable, AnswerIInv DEF DealCards
<1>2. ASSUME NEW c \in Calls, NEW count \in 0 .. Cardinality(Deck),
             DealCommunityCards(c, count)
      PROVE  IInv'
  <2>1. count \in Nat
    BY DeckAssumption, FS_CardinalityType
  <2> QED BY <1>2, <2>1, AnswersAreAnswerable, AnswerIInv DEF DealCommunityCards
<1>3. ASSUME NEW c \in Calls, AwardPot(c) \/ PostBlind(c) PROVE IInv'
  BY <1>3, AnswersAreAnswerable, AnswerIInv DEF AwardPot, PostBlind
<1>4. ASSUME NEW c \in Calls, Append(c) \/ Discard(c) PROVE IInv'
  BY <1>4, AppendIInv, DiscardIInv
<1>5. CASE UNCHANGED vars
  <2>1. UNCHANGED <<cards, version, inflight>>
    BY <1>5 DEF vars
  <2> QED BY <2>1 DEF IInv, TypeOK, AnswersSound, Answerable, HasNext, UndealtSound,
                      NoCardTwice, DeckWhole, SharesSound
<1> QED BY <1>1, <1>2, <1>3, <1>4, <1>5 DEF Next

LEMMA InvariantHolds == Spec => []IInv
<1> QED BY InitIInv, NextIInv, PTL DEF Spec

-----------------------------------------------------------------------------
\* Every variable has its type.
THEOREM TypeCorrect == Spec => []TypeOK
<1>1. IInv => TypeOK
  BY DEF IInv
<1> QED BY <1>1, InvariantHolds, PTL

\* No card is dealt twice, although every handling shuffles another deck and
\* answers may be open at once (hand_state.cpp:113-127, 200-203).
THEOREM NoCardTwiceHolds == Spec => []NoCardTwice
<1>1. IInv => NoCardTwice
  BY DEF IInv
<1> QED BY <1>1, InvariantHolds, PTL

\* The deck that a rebuild makes up is what nobody has (hand_state.cpp:100-127,
\* 193-204).
THEOREM DeckWholeHolds == Spec => []DeckWhole
<1>1. IInv => DeckWhole
  BY DEF IInv
<1> QED BY <1>1, InvariantHolds, PTL

\* Cards stay where they were dealt (deal_handler.cpp:16).
THEOREM CardsStayHolds == Spec => CardsStay
<1> DEFINE Stay == cards.status # "undealt" =>
                     /\ cards'.hole = cards.hole
                     /\ cards.community \subseteq cards'.community
<1>1. IInv /\ [Next]_vars => [Stay]_vars
  <2> SUFFICES ASSUME IInv, Next, cards.status # "undealt"
               PROVE  /\ cards'.hole = cards.hole
                      /\ cards.community \subseteq cards'.community
    OBVIOUS
  <2>1. cards' = cards \/ \E c \in Calls : Append(c)
    BY DEF Next, DealCards, DealCommunityCards, AwardPot, PostBlind, Answer, Discard
  <2>2. ASSUME NEW c \in Calls, Append(c)
        PROVE  /\ cards'.hole = cards.hole
               /\ cards.community \subseteq cards'.community
    <3> DEFINE e == inflight[c].event
    <3>1. e \in EventType /\ Answerable(cards, e) /\ cards' = apply_event(cards, e)
      BY <2>2, AppendStep
    <3> HIDE DEF e
    <3>2. e.type \in {"CommunityCardsDealt", "HandComplete", "BlindPosted"}
      BY <3>1, EventFields DEF Answerable
    <3>3. cards \in CardsType
      BY DEF IInv, TypeOK
    <3> QED BY <3>1, <3>2, <3>3
            DEF apply_event, apply_community_dealt, apply_hand_complete, CardsType
  <2> QED BY <2>1, <2>2
<1> QED BY <1>1, InvariantHolds, PTL DEF Spec, CardsStay

\* The deck never runs short at a table that it suffices for
\* (deal_community_handler.cpp:65).
THEOREM NeverShortHolds == Spec => []NeverShort
<1>1. IInv => NeverShort
  <2> SUFFICES ASSUME IInv, cards.status # "undealt" PROVE
         /\ \A p \in 0 .. cards.players - 1 :
              Cardinality(cards.hole[p]) = HoleCards[cards.variant]
         /\ HasNext(cards) =>
              BoardCards[next_phase[cards.phase]] <= Cardinality(cards.remaining)
    BY DEF NeverShort
  <2>1. cards \in CardsType
    BY DEF IInv, TypeOK
  <2> DEFINE v == cards.variant
             n == HoleCards[v]
             held == AllHole(cards.hole)
  <2>2. /\ cards.players \in 0 .. MaxPlayers /\ v \in Variants /\ n \in Nat
        /\ cards.players \in Nat /\ MaxPlayers \in Nat /\ cards.players <= MaxPlayers
        /\ cards.hole \in [Positions -> SUBSET Deck]
        /\ cards.community \in SUBSET Deck
    BY <2>1, GameAssumption DEF CardsType
  <2>3. \A p \in Positions :
          Cardinality(cards.hole[p]) = IF p < cards.players THEN n ELSE 0
    BY DEF IInv, SharesSound
  <2>4. ASSUME NEW p \in 0 .. cards.players - 1 PROVE Cardinality(cards.hole[p]) = n
    <3>1. p \in Positions /\ p < cards.players
      BY <2>2 DEF Positions
    <3> HIDE DEF n
    <3> QED BY <2>3, <3>1
  <2>5. ASSUME HasNext(cards)
        PROVE  BoardCards[next_phase[cards.phase]] <= Cardinality(cards.remaining)
    <3>1. held \in SUBSET Deck
      BY <2>2 DEF AllHole
    <3>2. Cardinality(held) <= cards.players * n /\ Cardinality(held) \in Nat
      <4>1. Cardinality(held) \in Nat
        BY <3>1, PartsOfDeck
      <4> HIDE DEF n
      <4> QED BY <2>2, <2>3, <4>1, HoleBound
    <3>3. /\ cards.players * n <= MaxPlayers * n
          /\ cards.players * n \in Nat /\ MaxPlayers * n \in Nat
      <4> HIDE DEF n
      <4> QED BY <2>2, MultiplyMonotone
    <3>4. v # Draw
      BY <2>5 DEF HasNext
    <3> DEFINE boards == BoardCards["FLOP"] + BoardCards["TURN"] + BoardCards["RIVER"]
    <3>5. MaxPlayers * n + boards <= Cardinality(Deck)
      BY <2>2, <3>4, DeckSuffices
    <3> HIDE DEF held, n
    <3>6. held \cap cards.community = {}
      BY DEF held, AllHole, IInv, NoCardTwice
    <3>7. cards.remaining = Deck \ (held \cup cards.community)
      BY DEF IInv, DeckWhole, held
    <3>8. Cardinality(cards.remaining)
            = Cardinality(Deck) - Cardinality(held) - Cardinality(cards.community)
      <4>1. /\ IsFiniteSet(held) /\ IsFiniteSet(cards.community)
            /\ Cardinality(cards.community) \in Nat
            /\ IsFiniteSet(cards.remaining) /\ Cardinality(cards.remaining) \in Nat
        BY <2>2, <3>1, <3>7, PartsOfDeck
      <4> DEFINE out == held \cup cards.community
      <4>2. /\ IsFiniteSet(out)
            /\ Cardinality(out) = Cardinality(held) + Cardinality(cards.community)
                                    - Cardinality(held \cap cards.community)
        BY <4>1, FS_Union
      <4>3. Cardinality(held \cap cards.community) = 0
        BY <3>6, FS_EmptySet
      <4>4. cards.remaining \cap out = {} /\ cards.remaining \cup out = Deck
        BY <2>2, <3>1, <3>7
      <4> HIDE DEF out
      <4>5. Cardinality(Deck) = Cardinality(cards.remaining) + Cardinality(out)
                                  - Cardinality(cards.remaining \cap out)
        BY <4>1, <4>2, <4>4, FS_Union
      <4>6. Cardinality(cards.remaining \cap out) = 0
        BY <4>4, FS_EmptySet
      <4> QED BY <3>2, <4>1, <4>2, <4>3, <4>5, <4>6
    <3>9. Cardinality(cards.community) = BoardSize[cards.phase]
      BY DEF IInv, NoCardTwice
    <3>10. \/ cards.phase = "PREFLOP" /\ next_phase[cards.phase] = "FLOP"
           \/ cards.phase = "FLOP" /\ next_phase[cards.phase] = "TURN"
           \/ cards.phase = "TURN" /\ next_phase[cards.phase] = "RIVER"
      BY <2>5 DEF HasNext, next_phase
    <3>11. /\ BoardSize[cards.phase] + BoardCards[next_phase[cards.phase]] <= boards
           /\ BoardSize[cards.phase] \in Nat /\ boards \in Nat
           /\ BoardCards[next_phase[cards.phase]] \in Nat
      BY <3>10, BoardCardsType
    <3>12. Cardinality(Deck) \in Nat
      BY DeckAssumption, FS_CardinalityType
    <3> HIDE DEF boards
    <3> QED BY <3>2, <3>3, <3>5, <3>8, <3>9, <3>11, <3>12
  <2> QED BY <2>4, <2>5
<1> QED BY <1>1, InvariantHolds, PTL
=============================================================================
