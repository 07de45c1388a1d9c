------------------------------- MODULE Player -------------------------------
(***************************************************************************)
(* One player aggregate under concurrent commands.                         *)
(*                                                                         *)
(* The service (player/agg/src/main.cpp) keeps no state: the framework's   *)
(* coordinator, which is not part of this repository, sends it the command *)
(* together with the aggregate's event book, the service rebuilds the      *)
(* state, runs the handler and returns the event, and the coordinator      *)
(* appends it.  Several calls may be between these two moments, each with  *)
(* an event that holds ABSOLUTE balances computed from the book it saw.    *)
(* What keeps one from overwriting the other is the sequence number: a     *)
(* response is stored only while the book is as long as it was when sent.  *)
(*                                                                         *)
(* A definition under the word Fault is a variant with a plausible bug in  *)
(* it, for showing that a property would notice; no action uses it.        *)
(***************************************************************************)
EXTENDS PlayerState

CONSTANTS
  Calls,            \* calls of the aggregate that may be open at a time
  Amounts,          \* amounts that deposit, withdraw and reserve may name
  TransferAmounts,  \* amounts that TransferFunds may name
  MaxVersion,       \* bound: events in the book
  None              \* "no open call"

ASSUME AmountsAssumption ==
  /\ Amounts \subseteq Int
  /\ TransferAmounts \subseteq Int
  /\ MaxVersion \in Nat
  /\ None \notin [seq : Nat, event : EventType]

VARIABLES
  player,     \* the state the event book replays to
  version,    \* the length of the event book
  inflight,   \* per call, the event the service answered and the length of
              \* the book it was computed from
  ledger,     \* history: the net of all amounts in stored balance events
  transferred \* history: the net of those in transfers alone

vars == <<player, version, inflight, ledger, transferred>>

Init ==
  /\ player = NewPlayer
  /\ version = 0
  /\ inflight = [c \in Calls |-> None]
  /\ ledger = 0
  /\ transferred = 0

-----------------------------------------------------------------------------
\* Fault: the length of the book is read after the handler ran, when one more
\* event may have been stored.
Answer_numbered_late(c, events) ==
  /\ inflight[c] = None
  /\ version < MaxVersion
  /\ \E e \in events, late \in {0, 1} :
       inflight' = [inflight EXCEPT ![c] = [seq |-> version + late, event |-> e]]
  /\ UNCHANGED <<player, version, ledger, transferred>>

\* The service answers call c with one of events, computed from today's book.
Answer(c, events) ==
  /\ inflight[c] = None
  /\ version < MaxVersion
  /\ \E e \in events :
       inflight' = [inflight EXCEPT ![c] = [seq |-> version, event |-> e]]
  /\ UNCHANGED <<player, version, ledger, transferred>>

RegisterPlayer(c)          == Answer(c, handle_register(player))
DepositFunds(c, amount)    == Answer(c, handle_deposit(player, amount))
WithdrawFunds(c, amount)   == Answer(c, handle_withdraw(player, amount))
ReserveFunds(c, t, amount) == Answer(c, handle_reserve(player, t, amount))
ReleaseFunds(c, t)         == Answer(c, handle_release(player, t))
TransferFunds(c, amount)   == Answer(c, handle_transfer(player, amount))
JoinRejected(c, t)         == Answer(c, handle_join_rejected(player, t))

\* What an event adds to the player's money.
NetAmount(e) ==
  CASE e.type \in {"FundsDeposited", "FundsTransferred"} -> e.amount
    [] e.type = "FundsWithdrawn" -> -e.amount
    [] OTHER -> 0

TransferOf(e) == IF e.type = "FundsTransferred" THEN e.amount ELSE 0

\* The coordinator stores the answer: the sequence number still fits.
Append(c) ==
  /\ inflight[c] # None
  /\ inflight[c].seq = version
  /\ player' = apply_event(player, inflight[c].event)
  /\ version' = version + 1
  /\ ledger' = ledger + NetAmount(inflight[c].event)
  /\ transferred' = transferred + TransferOf(inflight[c].event)
  /\ inflight' = [inflight EXCEPT ![c] = None]

\* The answer is never stored: a sequence conflict, or the call is lost.
Discard(c) ==
  /\ inflight[c] # None
  /\ inflight' = [inflight EXCEPT ![c] = None]
  /\ UNCHANGED <<player, version, ledger, transferred>>

Next ==
  \E c \in Calls :
    \/ RegisterPlayer(c)
    \/ \E amount \in Amounts : DepositFunds(c, amount)
    \/ \E amount \in Amounts : WithdrawFunds(c, amount)
    \/ \E t \in Tables, amount \in Amounts : ReserveFunds(c, t, amount)
    \/ \E t \in Tables : ReleaseFunds(c, t)
    \/ \E amount \in TransferAmounts : TransferFunds(c, amount)
    \/ \E t \in Tables : JoinRejected(c, t)
    \/ Append(c)
    \/ Discard(c)

Spec == Init /\ [][Next]_vars

-----------------------------------------------------------------------------
\* Every variable has its type; the reserved total is never negative.
TypeOK ==
  /\ player \in PlayerType
  /\ version \in Nat
  /\ inflight \in [Calls -> {None} \cup [seq : Nat, event : EventType]]
  /\ ledger \in Int
  /\ transferred \in Int

\* The answer of call c was computed from the book as it is now.
Fresh(c) == inflight[c] # None /\ inflight[c].seq = version

\* Some handler answers e to some command when the state is s.
Answers(s, e) ==
  \/ e \in handle_register(s)
  \/ \E amount \in Amounts : e \in handle_deposit(s, amount)
  \/ \E amount \in Amounts : e \in handle_withdraw(s, amount)
  \/ \E t \in Tables, amount \in Amounts : e \in handle_reserve(s, t, amount)
  \/ \E t \in Tables : e \in handle_release(s, t)
  \/ \E amount \in TransferAmounts : e \in handle_transfer(s, amount)
  \/ \E t \in Tables : e \in handle_join_rejected(s, t)

\* No stale answer can be stored: an answer whose sequence number still fits
\* is one that a handler would give for the book as it is now, although the
\* book may have grown, and calls been answered, in between (main.cpp:58-76
\* reads the book once, before the handler runs).
StorableIsCurrent ==
  \A c \in Calls : inflight[c] # None =>
    /\ inflight[c].seq <= version
    /\ Fresh(c) => Answers(player, inflight[c].event)

\* Before registration there is no money (part of the inductive invariant).
UnregisteredIsEmpty ==
  ~ player.exists => /\ player.bankroll = 0
                     /\ \A t \in Tables : player.table_reservations[t] = 0

\* The counter reserved_funds and the map table_reservations, which every
\* handler and apply_event update separately, say the same: the counter is
\* the sum of the map (player_state.cpp:70-89, handlers/release, reserve and
\* rejected).  Duplicate releases and compensations must not break it.
ReservedIsSum ==
  player.reserved_funds = SumTo(player.table_reservations, NumTables)

\* No update is lost or counted twice although events carry absolute
\* balances and calls overlap: the bankroll is the net of the amounts of all
\* stored events (handlers/deposit, withdraw, transfer; main.cpp:58-132).
LedgerAgrees == player.bankroll = ledger

\* Replaying the event that was stored last once more changes nothing: the
\* "idempotent replay" of player_state.hpp:16-18, for each event about to be
\* stored.
IdempotentReplay ==
  \A c \in Calls : Fresh(c) =>
    LET once == apply_event(player, inflight[c].event)
    IN  apply_event(once, inflight[c].event) = once

\* Withdrawals and reservations never promise money twice: the only stored
\* event that takes the available balance below zero is a transfer, the one
\* command whose amount no handler checks (transfer_handler.cpp:17-19).
OnlyTransfersOverdraw ==
  [][available_balance(player) >= 0 /\ available_balance(player)' < 0
       => \E c \in Calls : /\ Fresh(c)
                           /\ inflight'[c] = None
                           /\ inflight[c].event.type = "FundsTransferred"]_vars

\* When transfers only bring money, reservations are always covered by the
\* bankroll, whatever calls overlap.
Solvent == available_balance(player) >= 0

-----------------------------------------------------------------------------
(***************************************************************************)
(* The overlapping, counter-keeping, absolute-valued aggregate implements  *)
(* the escrow account: balance and holds change atomically, and only       *)
(* transfers, whose amounts nobody checks, may take what is held.          *)
(***************************************************************************)
Account == INSTANCE Escrow WITH
  NumHolds <- NumTables,
  open     <- player.exists,
  balance  <- player.bankroll,
  adjusted <- transferred,
  holds    <- player.table_reservations

\* Every step of the aggregate is a step of the escrow account or leaves it
\* alone.
ImplementsEscrow == Account!Spec
=============================================================================
