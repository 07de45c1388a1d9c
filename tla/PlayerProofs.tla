---------------------------- MODULE PlayerProofs ----------------------------
(***************************************************************************)
(* What holds of the player aggregate for any number of tables, any set of *)
(* overlapping calls and any amounts.  The inductive invariant adds to the *)
(* properties two facts they rest on: a storable answer is a current one,  *)
(* and an unregistered player has no money.                                *)
(***************************************************************************)
EXTENDS Player, SumLemmas

IInv ==
  /\ TypeOK
  /\ UnregisteredIsEmpty
  /\ ReservedIsSum
  /\ LedgerAgrees
  /\ StorableIsCurrent

\* A well-typed state whose counter and map agree and that has no money
\* before it exists: what IInv says of the player alone.
Sound(s) ==
  /\ s \in PlayerType
  /\ s.reserved_funds = SumTo(s.table_reservations, NumTables)
  /\ ~ s.exists => /\ s.bankroll = 0
                   /\ \A t \in Tables : s.table_reservations[t] = 0

-----------------------------------------------------------------------------
(***************************************************************************)
(* What a handler answers, per kind of event.                              *)
(***************************************************************************)

\* An answer is an event, and what it says about the state it came from.
LEMMA AnswerCases ==
  ASSUME NEW s \in PlayerType, NEW e, Answers(s, e)
  PROVE  /\ e \in EventType
         /\ \/ /\ e = [type |-> "PlayerRegistered"]
               /\ ~ s.exists
            \/ /\ s.exists
               /\ e.type \in {"FundsDeposited", "FundsTransferred"}
               /\ e.amount \in Int
               /\ e.new_balance = s.bankroll + e.amount
               /\ e.type = "FundsDeposited" => e.amount > 0
               /\ e.type = "FundsTransferred" => e.amount \in TransferAmounts
            \/ /\ s.exists
               /\ e.type = "FundsWithdrawn"
               /\ e.amount \in Int /\ e.amount > 0
               /\ e.amount <= available_balance(s)
               /\ e.new_balance = s.bankroll - e.amount
            \/ /\ s.exists
               /\ e.type = "FundsReserved"
               /\ e.table_root \in Tables
               /\ s.table_reservations[e.table_root] = 0
               /\ e.amount \in Nat /\ e.amount > 0
               /\ e.amount <= available_balance(s)
               /\ e.new_reserved_balance = s.reserved_funds + e.amount
            \/ /\ e.type = "FundsReleased"
               /\ e.table_root \in Tables
               /\ e.amount = s.table_reservations[e.table_root]
               /\ e.new_reserved_balance = s.reserved_funds - e.amount
<1> USE AmountsAssumption
<1>1. CASE e \in handle_register(s)
  BY <1>1 DEF handle_register, EventType
<1>2. CASE \E amount \in Amounts : e \in handle_deposit(s, amount)
  BY <1>2 DEF handle_deposit, BalanceEvent, PlayerType, EventType, BalanceEvents
<1>3. CASE \E amount \in Amounts : e \in handle_withdraw(s, amount)
  BY <1>3 DEF handle_withdraw, BalanceEvent, PlayerType, EventType, BalanceEvents
<1>4. CASE \E t \in Tables, amount \in Amounts : e \in handle_reserve(s, t, amount)
  BY <1>4 DEF handle_reserve, ReservationEvent, PlayerType, EventType, ReservationEvents
<1>5. CASE \E t \in Tables : e \in handle_release(s, t)
  BY <1>5 DEF handle_release, ReservationEvent, PlayerType, EventType, ReservationEvents
<1>6. CASE \E amount \in TransferAmounts : e \in handle_transfer(s, amount)
  BY <1>6 DEF handle_transfer, BalanceEvent, PlayerType, EventType, BalanceEvents
<1>7. CASE \E t \in Tables : e \in handle_join_rejected(s, t)
  BY <1>7 DEF handle_join_rejected, ReservationEvent, PlayerType, EventType, ReservationEvents
<1> QED BY <1>1, <1>2, <1>3, <1>4, <1>5, <1>6, <1>7 DEF Answers

\* Applying an answer keeps the state sound, and changes the bankroll by the
\* event's net amount.
LEMMA ApplyAnswer ==
  ASSUME NEW s, Sound(s), NEW e, Answers(s, e)
  PROVE  /\ Sound(apply_event(s, e))
         /\ NetAmount(e) \in Int
         /\ apply_event(s, e).bankroll = s.bankroll + NetAmount(e)
<1> USE NumTablesAssumption DEF Tables, BalanceEvents
<1>0. s \in PlayerType
  BY DEF Sound
<1>a. /\ s.bankroll \in Int /\ s.reserved_funds \in Int
      /\ s.table_reservations \in [0 .. NumTables - 1 -> Nat]
      /\ s.table_reservations \in [0 .. NumTables - 1 -> Int]
  BY <1>0 DEF PlayerType
<1> DEFINE n == apply_event(s, e)
<1>b. SUFFICES /\ Sound(n)
               /\ NetAmount(e) \in Int
               /\ n.bankroll = s.bankroll + NetAmount(e)
  OBVIOUS
<1> HIDE DEF n
<1>1. CASE e = [type |-> "PlayerRegistered"] /\ ~ s.exists
  <2>1. n = [s EXCEPT !.exists = TRUE, !.bankroll = 0, !.reserved_funds = 0]
    BY <1>1 DEF n, apply_event
  <2>2. SumTo(s.table_reservations, NumTables) = 0
    BY <1>1, <1>a, SumToZero DEF Sound
  <2>3. n \in PlayerType /\ n.exists
    <3>1. n = [exists |-> TRUE, bankroll |-> 0, reserved_funds |-> 0,
               table_reservations |-> s.table_reservations]
      BY <1>0, <2>1 DEF PlayerType
    <3>2. /\ TRUE \in BOOLEAN /\ 0 \in Int
          /\ s.table_reservations \in [Tables -> Nat]
      BY <1>0 DEF PlayerType
    <3> QED BY <3>1, <3>2 DEF PlayerType
  <2>4. /\ n.reserved_funds = 0 /\ n.bankroll = 0
        /\ n.table_reservations = s.table_reservations
    BY <1>0, <2>1 DEF PlayerType
  <2>5. NetAmount(e) = 0 /\ s.bankroll = 0
    BY <1>1 DEF NetAmount, Sound
  <2> QED BY <2>2, <2>3, <2>4, <2>5 DEF Sound
<1>2. CASE /\ s.exists
           /\ e.type \in {"FundsDeposited", "FundsTransferred", "FundsWithdrawn"}
           /\ e.amount \in Int
           /\ e.new_balance = s.bankroll + NetAmount(e)
  <2>1. n = [s EXCEPT !.bankroll = e.new_balance]
    BY <1>2 DEF n, apply_event
  <2>2. NetAmount(e) \in Int
    BY <1>2 DEF NetAmount
  <2>3. e.new_balance \in Int
    BY <1>2, <1>a, <2>2
  <2>4. n \in PlayerType /\ n.exists
    <3>1. n = [exists |-> s.exists, bankroll |-> e.new_balance,
               reserved_funds |-> s.reserved_funds,
               table_reservations |-> s.table_reservations]
      BY <1>0, <2>1 DEF PlayerType
    <3>2. s.exists \in BOOLEAN /\ s.table_reservations \in [Tables -> Nat]
      BY <1>0 DEF PlayerType
    <3> QED BY <1>2, <1>a, <2>3, <3>1, <3>2 DEF PlayerType
  <2>5. /\ n.bankroll = s.bankroll + NetAmount(e)
        /\ n.reserved_funds = s.reserved_funds
        /\ n.table_reservations = s.table_reservations
    BY <1>0, <1>2, <2>1 DEF PlayerType
  <2> QED BY <2>2, <2>4, <2>5 DEF Sound
<1>3. CASE /\ s.exists
           /\ e.type = "FundsReserved"
           /\ e.table_root \in Tables
           /\ s.table_reservations[e.table_root] = 0
           /\ e.amount \in Nat
           /\ e.new_reserved_balance = s.reserved_funds + e.amount
  <2> DEFINE m == [s.table_reservations EXCEPT ![e.table_root] = e.amount]
  <2>1. n = [s EXCEPT !.reserved_funds = e.new_reserved_balance,
                      !.table_reservations = m]
    BY <1>3 DEF n, apply_event
  <2>2. SumTo(m, NumTables)
          = SumTo(s.table_reservations, NumTables) + e.amount - 0
    <3>1. e.amount \in Int
      BY <1>3
    <3>2. SumTo(m, NumTables)
            = SumTo(s.table_reservations, NumTables) + e.amount
                - s.table_reservations[e.table_root]
      BY <1>3, <1>a, <3>1, SumToUpdate
    <3> HIDE DEF m
    <3> QED BY <1>3, <3>2
  <2>3. m \in [Tables -> Nat]
    BY <1>3, <1>a
  <2>4. n \in PlayerType /\ n.exists
    <3>1. n = [exists |-> s.exists, bankroll |-> s.bankroll,
               reserved_funds |-> e.new_reserved_balance,
               table_reservations |-> m]
      BY <1>0, <2>1 DEF PlayerType
    <3>2. e.new_reserved_balance \in Int /\ s.exists \in BOOLEAN
      BY <1>0, <1>3, <1>a DEF PlayerType
    <3> HIDE DEF m
    <3> QED BY <1>3, <1>a, <2>3, <3>1, <3>2 DEF PlayerType
  <2>5. /\ n.bankroll = s.bankroll
        /\ n.reserved_funds = s.reserved_funds + e.amount
        /\ n.table_reservations = m
    BY <1>0, <1>3, <2>1 DEF PlayerType
  <2>6. NetAmount(e) = 0
    BY <1>3 DEF NetAmount
  <2>7. n.reserved_funds = SumTo(n.table_reservations, NumTables)
    <3>1. s.reserved_funds = SumTo(s.table_reservations, NumTables)
      BY DEF Sound
    <3> HIDE DEF m
    <3> QED BY <2>2, <2>5, <3>1, <1>a, <1>3
  <2> HIDE DEF m
  <2> QED BY <1>a, <2>4, <2>5, <2>6, <2>7 DEF Sound
<1>4. CASE /\ e.type = "FundsReleased"
           /\ e.table_root \in Tables
           /\ e.amount = s.table_reservations[e.table_root]
           /\ e.new_reserved_balance = s.reserved_funds - e.amount
  <2> DEFINE m == [s.table_reservations EXCEPT ![e.table_root] = 0]
  <2>1. n = [s EXCEPT !.reserved_funds = e.new_reserved_balance,
                      !.table_reservations = m]
    BY <1>4 DEF n, apply_event
  <2>2. SumTo(m, NumTables)
          = SumTo(s.table_reservations, NumTables) + 0 - e.amount
    <3>1. SumTo(m, NumTables)
            = SumTo(s.table_reservations, NumTables) + 0
                - s.table_reservations[e.table_root]
      BY <1>4, <1>a, 0 \in Int, SumToUpdate
    <3> HIDE DEF m
    <3> QED BY <1>4, <3>1
  <2>3. m \in [Tables -> Nat] /\ e.amount \in Nat
    BY <1>4, <1>a
  <2>4. n \in PlayerType /\ n.exists = s.exists
    <3>1. n = [exists |-> s.exists, bankroll |-> s.bankroll,
               reserved_funds |-> e.new_reserved_balance,
               table_reservations |-> m]
      BY <1>0, <2>1 DEF PlayerType
    <3>2. e.new_reserved_balance \in Int /\ s.exists \in BOOLEAN
      BY <1>0, <1>4, <1>a, <2>3 DEF PlayerType
    <3> HIDE DEF m
    <3> QED BY <1>a, <2>3, <3>1, <3>2 DEF PlayerType
  <2>5. /\ n.bankroll = s.bankroll
        /\ n.reserved_funds = s.reserved_funds - e.amount
        /\ n.table_reservations = m
    BY <1>0, <1>4, <2>1 DEF PlayerType
  <2>6. NetAmount(e) = 0
    BY <1>4 DEF NetAmount
  <2>7. ~ s.exists => \A t \in Tables : m[t] = 0
    BY <1>a DEF Sound
  <2>8. n.reserved_funds = SumTo(n.table_reservations, NumTables)
    <3>1. s.reserved_funds = SumTo(s.table_reservations, NumTables)
      BY DEF Sound
    <3> HIDE DEF m
    <3> QED BY <2>2, <2>3, <2>5, <3>1, <1>a
  <2>9. ~ s.exists => s.bankroll = 0
    BY DEF Sound
  <2> HIDE DEF m
  <2> QED BY <1>a, <2>4, <2>5, <2>6, <2>7, <2>8, <2>9 DEF Sound
<1> QED
  <2>1. e.type = "FundsWithdrawn" /\ e.amount \in Int => NetAmount(e) = - e.amount
    BY DEF NetAmount
  <2>2. e.type \in {"FundsDeposited", "FundsTransferred"} => NetAmount(e) = e.amount
    BY DEF NetAmount
  <2> QED BY <1>0, <1>a, <1>1, <1>2, <1>3, <1>4, <2>1, <2>2, AnswerCases

-----------------------------------------------------------------------------
(***************************************************************************)
(* The inductive invariant.                                                *)
(***************************************************************************)

\* The seven commands have one shape: a current answer becomes open.
LEMMA CommandStep ==
  ASSUME NEW c \in Calls,
         \/ RegisterPlayer(c)
         \/ \E amount \in Amounts : DepositFunds(c, amount)
         \/ \E amount \in Amounts : WithdrawFunds(c, amount)
         \/ \E t \in Tables, amount \in Amounts : ReserveFunds(c, t, amount)
         \/ \E t \in Tables : ReleaseFunds(c, t)
         \/ \E amount \in TransferAmounts : TransferFunds(c, amount)
         \/ \E t \in Tables : JoinRejected(c, t)
  PROVE  /\ \E e : /\ Answers(player, e)
                  /\ inflight' = [inflight EXCEPT ![c] = [seq |-> version, event |-> e]]
         /\ UNCHANGED <<player, version, ledger, transferred>>
  BY Zenon DEF RegisterPlayer, DepositFunds, WithdrawFunds, ReserveFunds,
        ReleaseFunds, TransferFunds, JoinRejected, Answer, Answers

\* IInv in terms of Sound.
LEMMA IInvSound ==
  IInv <=> /\ TypeOK
           /\ Sound(player)
           /\ LedgerAgrees
           /\ StorableIsCurrent
  BY DEF IInv, Sound, TypeOK, UnregisteredIsEmpty, ReservedIsSum

LEMMA InitIInv == Init => IInv
<1> SUFFICES ASSUME Init PROVE IInv
  OBVIOUS
<1> USE NumTablesAssumption, AmountsAssumption DEF Init
<1>1. player \in PlayerType
  <2>1. /\ FALSE \in BOOLEAN /\ 0 \in Int
        /\ [t \in Tables |-> 0] \in [Tables -> Nat]
    OBVIOUS
  <2> QED BY <2>1 DEF NewPlayer, PlayerType
<1>2. TypeOK
  BY <1>1 DEF TypeOK
<1>3. SumTo([t \in Tables |-> 0], NumTables) = 0
  <2>1. /\ [t \in Tables |-> 0] \in [0 .. NumTables - 1 -> Int]
        /\ \A i \in 0 .. NumTables - 1 : [t \in Tables |-> 0][i] = 0
    BY DEF Tables
  <2> QED BY <2>1, SumToZero
<1>4. Sound(player)
  BY <1>1, <1>3 DEF NewPlayer, Sound
<1>5. LedgerAgrees /\ StorableIsCurrent
  BY DEF LedgerAgrees, NewPlayer, StorableIsCurrent, Fresh
<1> QED BY <1>2, <1>4, <1>5, IInvSound

LEMMA NextIInv == IInv /\ [Next]_vars => IInv'
<1> SUFFICES ASSUME TypeOK, Sound(player), LedgerAgrees, StorableIsCurrent,
                    [Next]_vars
             PROVE  TypeOK' /\ Sound(player)' /\ LedgerAgrees' /\ StorableIsCurrent'
  BY IInvSound, Zenon DEF IInv, TypeOK, UnregisteredIsEmpty, ReservedIsSum, Sound
<1> USE AmountsAssumption
<1>1. ASSUME NEW c \in Calls, NEW e, Answers(player, e),
             inflight' = [inflight EXCEPT ![c] = [seq |-> version, event |-> e]],
             UNCHANGED <<player, version, ledger, transferred>>
      PROVE  TypeOK' /\ Sound(player)' /\ LedgerAgrees' /\ StorableIsCurrent'
  <2>1. e \in EventType
    BY <1>1, AnswerCases DEF Sound
  <2>2. TypeOK'
    BY <1>1, <2>1 DEF TypeOK
  <2>3. StorableIsCurrent'
    BY <1>1 DEF StorableIsCurrent, Fresh, TypeOK
  <2> QED BY <1>1, <2>2, <2>3 DEF LedgerAgrees
<1>2. ASSUME NEW c \in Calls, Append(c)
      PROVE  TypeOK' /\ Sound(player)' /\ LedgerAgrees' /\ StorableIsCurrent'
  <2> DEFINE e == inflight[c].event
  <2>1. Answers(player, e)
    BY <1>2 DEF Append, StorableIsCurrent, Fresh
  <2>2. /\ Sound(apply_event(player, e))
        /\ NetAmount(e) \in Int
        /\ apply_event(player, e).bankroll = player.bankroll + NetAmount(e)
    <3> HIDE DEF e
    <3> QED BY <2>1, ApplyAnswer
  <2>3. /\ player' = apply_event(player, e)
        /\ version' = version + 1
        /\ ledger' = ledger + NetAmount(e)
        /\ transferred' = transferred + TransferOf(e)
        /\ inflight' = [inflight EXCEPT ![c] = None]
    BY <1>2 DEF Append
  <2> HIDE DEF e
  <2>4. Sound(player)' /\ LedgerAgrees'
    BY <2>2, <2>3 DEF LedgerAgrees, Sound
  <2>5. TypeOK'
    <3>1. TransferOf(e) \in Int
      BY <2>2 DEF TransferOf, NetAmount
    <3> QED BY <2>2, <2>3, <3>1 DEF TypeOK, Sound
  <2>6. StorableIsCurrent'
    BY <2>3 DEF StorableIsCurrent, Fresh, TypeOK
  <2> QED BY <2>4, <2>5, <2>6
<1>3. ASSUME NEW c \in Calls, Discard(c)
      PROVE  TypeOK' /\ Sound(player)' /\ LedgerAgrees' /\ StorableIsCurrent'
  BY <1>3 DEF Discard, TypeOK, LedgerAgrees, StorableIsCurrent, Fresh
<1>4. CASE UNCHANGED vars
  BY <1>4 DEF vars, TypeOK, LedgerAgrees, StorableIsCurrent, Fresh
<1> QED BY <1>1, <1>2, <1>3, <1>4, CommandStep, Zenon DEF Next

\* IInv holds in every reachable state.
THEOREM Invariance == Spec => []IInv
  BY InitIInv, NextIInv, PTL DEF Spec

-----------------------------------------------------------------------------
(***************************************************************************)
(* The theorems.                                                           *)
(***************************************************************************)

\* The state of the aggregate, the open answers and the history are well
\* typed in every reachable state: what the handlers compute stays within
\* the types of PlayerState.
THEOREM PlayerTypeCorrect == Spec => []TypeOK
  BY Invariance, PTL DEF IInv

\* The counter of reserved funds is the sum of the reservations, whatever
\* calls overlap and however often a release or a compensation is repeated.
THEOREM ReservedIsSumHolds == Spec => []ReservedIsSum
  BY Invariance, PTL DEF IInv

\* Absolute balances in events lose no update: the bankroll is the net of
\* all stored amounts.
THEOREM LedgerAgreesHolds == Spec => []LedgerAgrees
  BY Invariance, PTL DEF IInv

\* Replaying the event being stored a second time changes nothing.
THEOREM IdempotentReplayHolds == Spec => []IdempotentReplay
<1>1. IInv => IdempotentReplay
  <2> SUFFICES ASSUME TypeOK, NEW c \in Calls, Fresh(c)
               PROVE  LET once == apply_event(player, inflight[c].event)
                      IN  apply_event(once, inflight[c].event) = once
    BY DEF IInv, IdempotentReplay
  <2> DEFINE e == inflight[c].event
  <2>1. e \in EventType /\ player \in PlayerType
    BY DEF TypeOK, Fresh
  <2> HIDE DEF e
  <2>2. apply_event(apply_event(player, e), e) = apply_event(player, e)
    <3>1. CASE e.type = "PlayerRegistered"
      BY <2>1, <3>1 DEF apply_event, PlayerType, BalanceEvents
    <3>2. CASE e.type \in BalanceEvents
      BY <2>1, <3>2 DEF apply_event, PlayerType, BalanceEvents
    <3>3. CASE e.type = "FundsReserved"
      BY <2>1, <3>3 DEF apply_event, PlayerType, BalanceEvents
    <3>4. CASE e.type = "FundsReleased"
      BY <2>1, <3>4 DEF apply_event, PlayerType, BalanceEvents
    <3> QED BY <2>1, <3>1, <3>2, <3>3, <3>4 DEF EventType, BalanceEvents, ReservationEvents
  <2> QED BY <2>2 DEF e
<1> QED BY <1>1, Invariance, PTL

\* What storing an answer does to the player, by the kind of event.
Registers ==
  /\ transferred' = transferred
  /\ ~ player.exists /\ player'.exists
  /\ player'.bankroll = player.bankroll
  /\ player'.reserved_funds = player.reserved_funds
  /\ player'.table_reservations = player.table_reservations

\* ... an event that moves the balance from what it was; a transfer by what
\* is counted as transferred
Moves(type) ==
  /\ player.exists /\ player'.exists
  /\ type # "FundsTransferred" => transferred' = transferred
  /\ \/ type = "FundsDeposited" /\ player'.bankroll > player.bankroll
     \/ /\ type = "FundsWithdrawn"
        /\ player'.bankroll < player.bankroll
        /\ player.reserved_funds <= player'.bankroll
     \/ /\ type = "FundsTransferred"
        /\ player'.bankroll - player.bankroll \in TransferAmounts
        /\ player'.bankroll - player.bankroll = transferred' - transferred
  /\ player'.reserved_funds = player.reserved_funds
  /\ player'.table_reservations = player.table_reservations

Reserves(t, amount) ==
  /\ transferred' = transferred
  /\ player.exists /\ player'.exists
  /\ player'.bankroll = player.bankroll
  /\ player.table_reservations[t] = 0
  /\ player'.reserved_funds = player.reserved_funds + amount
  /\ player'.table_reservations = [player.table_reservations EXCEPT ![t] = amount]

Releases(t) ==
  /\ transferred' = transferred
  /\ player'.exists = player.exists
  /\ player'.bankroll = player.bankroll
  /\ player'.reserved_funds = player.reserved_funds - player.table_reservations[t]
  /\ player'.table_reservations = [player.table_reservations EXCEPT ![t] = 0]

LEMMA RegisterEffect ==
  ASSUME NEW s, NEW e, e.type = "PlayerRegistered"
  PROVE  apply_event(s, e)
           = [s EXCEPT !.exists = TRUE, !.bankroll = 0, !.reserved_funds = 0]
  BY DEF apply_event, BalanceEvents

LEMMA AppendCases ==
  ASSUME IInv, NEW c \in Calls, Append(c)
  PROVE  \/ Registers
         \/ Moves(inflight[c].event.type)
         \/ \E t \in Tables, amount \in 1 .. available_balance(player) :
              Reserves(t, amount)
         \/ \E t \in Tables : Releases(t)
<1> DEFINE e == inflight[c].event
<1>0. /\ transferred \in Int
      /\ transferred' = transferred + TransferOf(e)
  BY DEF IInv, TypeOK, Append
<1>1. /\ player \in PlayerType
      /\ Answers(player, e)
      /\ player' = apply_event(player, e)
      /\ ~ player.exists => player.bankroll = 0 /\ player.reserved_funds = 0
  <2>1. ~ player.exists => player.reserved_funds = 0
    <3>1. ASSUME ~ player.exists PROVE SumTo(player.table_reservations, NumTables) = 0
      BY <3>1, NumTablesAssumption, SumToZero
         DEF IInv, TypeOK, PlayerType, Tables, UnregisteredIsEmpty
    <3> QED BY <3>1 DEF IInv, ReservedIsSum
  <2> QED BY <2>1 DEF IInv, TypeOK, Append, StorableIsCurrent, Fresh, UnregisteredIsEmpty
<1>2. /\ player.bankroll \in Int /\ player.reserved_funds \in Int
      /\ player.table_reservations \in [Tables -> Nat]
  BY <1>1 DEF PlayerType
<1> HIDE DEF e
<1>n. e.type # "FundsTransferred" => transferred' = transferred
  BY <1>0 DEF TransferOf
<1>3. CASE e = [type |-> "PlayerRegistered"] /\ ~ player.exists
  <2>1. player' = [player EXCEPT !.exists = TRUE, !.bankroll = 0, !.reserved_funds = 0]
    <3>1. player' = apply_event(player, e) /\ e.type = "PlayerRegistered"
      BY <1>1, <1>3
    <3> QED BY <3>1, RegisterEffect, Zenon
  <2>2. /\ player'.exists /\ player'.bankroll = 0 /\ player'.reserved_funds = 0
        /\ player'.table_reservations = player.table_reservations
    BY <1>1, <2>1 DEF PlayerType
  <2> QED BY <1>1, <1>3, <1>n, <2>2 DEF Registers
<1>4. CASE e.type \in BalanceEvents
  <2>1. player' = [player EXCEPT !.bankroll = e.new_balance]
    BY <1>1, <1>4 DEF apply_event, BalanceEvents
  <2>2. /\ player'.exists = player.exists /\ player'.bankroll = e.new_balance
        /\ player'.reserved_funds = player.reserved_funds
        /\ player'.table_reservations = player.table_reservations
    BY <1>1, <2>1 DEF PlayerType
  <2>3. /\ player.exists
        /\ e.type = "FundsDeposited" => e.new_balance > player.bankroll
        /\ e.type = "FundsWithdrawn" =>
             /\ e.new_balance < player.bankroll
             /\ player.reserved_funds <= e.new_balance
        /\ e.type = "FundsTransferred" =>
             /\ e.new_balance - player.bankroll \in TransferAmounts
             /\ e.amount \in TransferAmounts
             /\ e.new_balance = player.bankroll + e.amount
    BY <1>1, <1>2, <1>4, AnswerCases DEF BalanceEvents, available_balance
  <2>4. ASSUME e.type = "FundsTransferred"
        PROVE  e.new_balance - player.bankroll = transferred' - transferred
    <3>1. transferred' = transferred + e.amount
      BY <1>0, <2>4 DEF TransferOf
    <3>2. e.amount \in Int /\ e.new_balance = player.bankroll + e.amount
      BY <2>3, <2>4, AmountsAssumption
    <3> QED BY <1>0, <1>2, <3>1, <3>2
  <2>6. Moves(e.type)
    BY <1>4, <1>n, <2>2, <2>3, <2>4 DEF Moves, BalanceEvents
  <2> QED BY <2>6 DEF e
<1>5. CASE e.type = "FundsReserved"
  <2>1. player' = [player EXCEPT !.reserved_funds = e.new_reserved_balance,
                                 !.table_reservations[e.table_root] = e.amount]
    BY <1>1, <1>5 DEF apply_event, BalanceEvents
  <2>2. /\ player'.exists = player.exists /\ player'.bankroll = player.bankroll
        /\ player'.reserved_funds = e.new_reserved_balance
        /\ player'.table_reservations
             = [player.table_reservations EXCEPT ![e.table_root] = e.amount]
    BY <1>1, <2>1 DEF PlayerType
  <2>3. /\ player.exists /\ e.table_root \in Tables
        /\ player.table_reservations[e.table_root] = 0
        /\ e.amount \in 1 .. available_balance(player)
        /\ e.new_reserved_balance = player.reserved_funds + e.amount
    BY <1>1, <1>2, <1>5, AnswerCases DEF available_balance
  <2> QED BY <1>5, <1>n, <2>2, <2>3 DEF Reserves
<1>6. CASE e.type = "FundsReleased"
  <2>1. player' = [player EXCEPT !.reserved_funds = e.new_reserved_balance,
                                 !.table_reservations[e.table_root] = 0]
    BY <1>1, <1>6 DEF apply_event, BalanceEvents
  <2>2. /\ player'.exists = player.exists /\ player'.bankroll = player.bankroll
        /\ player'.reserved_funds = e.new_reserved_balance
        /\ player'.table_reservations
             = [player.table_reservations EXCEPT ![e.table_root] = 0]
    BY <1>1, <2>1 DEF PlayerType
  <2>3. /\ e.table_root \in Tables
        /\ e.new_reserved_balance
             = player.reserved_funds - player.table_reservations[e.table_root]
    BY <1>1, <1>2, <1>6, AnswerCases
  <2> QED BY <1>6, <1>n, <2>2, <2>3 DEF Releases
<1> QED BY <1>1, <1>3, <1>4, <1>5, <1>6, AnswerCases DEF BalanceEvents

\* Whatever can still be stored is what a handler would answer now.
THEOREM StorableIsCurrentHolds == Spec => []StorableIsCurrent
  BY Invariance, PTL DEF IInv

\* Only a stored transfer takes the available money below zero: the checks of
\* withdraw and reserve hold although the events are stored later.
THEOREM OnlyTransfersOverdrawHolds == Spec => OnlyTransfersOverdraw
<1>1. IInv /\ [Next]_vars =>
        [available_balance(player) >= 0 /\ available_balance(player)' < 0
           => \E c \in Calls : /\ Fresh(c)
                               /\ inflight'[c] = None
                               /\ inflight[c].event.type = "FundsTransferred"]_vars
  <2> SUFFICES ASSUME IInv, Next,
                      available_balance(player) >= 0, available_balance(player)' < 0
               PROVE  \E c \in Calls : /\ Fresh(c)
                                      /\ inflight'[c] = None
                                      /\ inflight[c].event.type = "FundsTransferred"
    OBVIOUS
  <2>1. PICK c \in Calls : Append(c)
    <3>1. ASSUME UNCHANGED player PROVE FALSE
      BY <3>1 DEF IInv, TypeOK, PlayerType, available_balance
    <3>2. \A c \in Calls : Discard(c) => UNCHANGED player
      BY DEF Discard
    <3> QED BY <3>1, <3>2, CommandStep, Zenon DEF Next
  <2>2. Fresh(c) /\ inflight'[c] = None
    BY <2>1 DEF Append, Fresh, IInv, TypeOK
  <2>3. player \in PlayerType /\ player' \in PlayerType
    BY NextIInv DEF IInv, TypeOK
  <2>4. \A t \in Tables : player.table_reservations[t] >= 0
    BY <2>3 DEF PlayerType
  <2>5. inflight[c].event.type = "FundsTransferred"
    <3> USE <2>3, <2>4 DEF available_balance, PlayerType
    <3>1. CASE Registers
      BY <3>1 DEF Registers
    <3>2. CASE Moves(inflight[c].event.type)
      BY <3>2 DEF Moves
    <3>3. ASSUME NEW t \in Tables, NEW amount \in 1 .. available_balance(player),
                 Reserves(t, amount)
          PROVE  FALSE
      BY <3>3 DEF Reserves
    <3>4. ASSUME NEW t \in Tables, Releases(t) PROVE FALSE
      BY <3>4 DEF Releases
    <3> QED BY <2>1, <3>1, <3>2, <3>3, <3>4, AppendCases
  <2> QED BY <2>2, <2>5
<1> QED BY <1>1, Invariance, PTL DEF Spec, OnlyTransfersOverdraw

\* If transfers only bring money, reservations are always covered.
THEOREM SolventHolds ==
  ASSUME TransferAmounts \subseteq Nat
  PROVE  Spec => []Solvent
<1>1. Init => Solvent
  BY DEF Init, NewPlayer, Solvent, available_balance
<1>2. IInv /\ Solvent /\ [Next]_vars => Solvent'
  <2> SUFFICES ASSUME IInv, Solvent, [Next]_vars PROVE Solvent'
    OBVIOUS
  <2>0. /\ player \in PlayerType /\ player' \in PlayerType
        /\ \A t \in Tables : player.table_reservations[t] >= 0
    BY NextIInv DEF IInv, TypeOK, PlayerType
  <2>1. ASSUME NEW c \in Calls, Append(c) PROVE Solvent'
    <3> USE <2>0 DEF Solvent, available_balance, PlayerType
    <3>1. CASE Registers
      BY <3>1 DEF Registers
    <3>2. CASE Moves(inflight[c].event.type)
      BY <3>2 DEF Moves
    <3>3. ASSUME NEW t \in Tables, NEW amount \in 1 .. available_balance(player),
                 Reserves(t, amount)
          PROVE  Solvent'
      BY <3>3 DEF Reserves
    <3>4. ASSUME NEW t \in Tables, Releases(t) PROVE Solvent'
      BY <3>4 DEF Releases
    <3> QED BY <2>1, <3>1, <3>2, <3>3, <3>4, AppendCases
  <2>2. ASSUME UNCHANGED player PROVE Solvent'
    BY <2>2 DEF Solvent, available_balance
  <2>3. \A c \in Calls : Discard(c) => UNCHANGED player
    BY DEF Discard
  <2> QED BY <2>1, <2>2, <2>3, CommandStep, Zenon DEF Next, vars
<1> QED BY <1>1, <1>2, Invariance, PTL DEF Spec

\* The aggregate implements the escrow account, whatever calls overlap and
\* whatever transfers bring or take.
THEOREM EscrowHolds == Spec => ImplementsEscrow
<1>1. Init => Account!Init
  BY DEF Init, NewPlayer, Account!Init, Account!Holds, Tables
<1>2. IInv /\ [Next]_vars => [Account!Next]_(Account!vars)
  <2> SUFFICES ASSUME IInv, [Next]_vars PROVE [Account!Next]_(Account!vars)
    OBVIOUS
  <2>0. /\ player \in PlayerType /\ player' \in PlayerType
        /\ player.reserved_funds = SumTo(player.table_reservations, NumTables)
    BY NextIInv DEF IInv, TypeOK, ReservedIsSum
  <2>1. ASSUME NEW c \in Calls, Append(c) PROVE [Account!Next]_(Account!vars)
    <3> DEFINE reserved == player.reserved_funds
    <3>0. /\ player.bankroll \in Int /\ reserved \in Int /\ player'.bankroll \in Int
          /\ reserved = Account!SumTo(player.table_reservations, NumTables)
      BY <2>0 DEF PlayerType, SumTo, PartialSums, Account!SumTo, Account!PartialSums
    <3>1. CASE Registers
      BY <3>1 DEF Registers, Account!Next, Account!Open, Account!vars
    <3>2. CASE Moves(inflight[c].event.type)
      <4> DEFINE type == inflight[c].event.type
      <4>1. CASE type = "FundsDeposited"
        BY <3>2, <4>1 DEF Moves, Account!Next, Account!Credit
      <4>2. CASE type = "FundsWithdrawn"
        BY <3>0, <3>2, <4>2 DEF Moves, Account!Next, Account!Debit
      <4>3. CASE type = "FundsTransferred"
        BY <3>2, <4>3 DEF Moves, Account!Next, Account!Adjust
      <4> QED BY <3>2, <4>1, <4>2, <4>3 DEF Moves
    <3>3. ASSUME NEW t \in Tables, NEW amount \in 1 .. available_balance(player),
                 Reserves(t, amount)
          PROVE  Account!Next
      <4>1. amount \in 1 .. Account!Free
        BY <3>0 DEF available_balance, Account!Free
      <4> QED BY <3>3, <4>1 DEF Reserves, Account!Next, Account!Hold, Account!Holds, Tables
    <3>4. ASSUME NEW t \in Tables, Releases(t) PROVE Account!Next
      BY <3>4 DEF Releases, Account!Next, Account!Unhold, Account!Holds, Tables
    <3> QED BY <2>1, <3>1, <3>2, <3>3, <3>4, AppendCases
  <2>2. ASSUME UNCHANGED <<player, transferred>> PROVE [Account!Next]_(Account!vars)
    BY <2>2 DEF Account!vars
  <2>3. \A c \in Calls : Discard(c) => UNCHANGED <<player, transferred>>
    BY DEF Discard
  <2> QED BY <2>1, <2>2, <2>3, CommandStep, Zenon DEF Next, vars
<1> QED BY <1>1, <1>2, Invariance, PTL DEF Spec, ImplementsEscrow, Account!Spec
=============================================================================
