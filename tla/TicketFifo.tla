------------------------------- MODULE TicketFifo -------------------------------
(***************************************************************************)
(* What mpmc_bounded_queue promises its callers.                           *)
(*                                                                         *)
(* A bounded FIFO in which every accepted item gets a ticket: its place in *)
(* the order in which enqueues take effect.  An enqueue has two visible    *)
(* moments, the one that fixes the place (Reserve) and the one that makes  *)
(* the item available (Publish); a dequeue too (Take, Release).  A slot is *)
(* in use from the Reserve of its ticket to the Release of that ticket.    *)
(* Tickets are taken strictly in order, so a reserved but unpublished      *)
(* ticket makes the queue look empty to every consumer.                    *)
(***************************************************************************)
EXTENDS Integers, Sequences

CONSTANTS
  Producers,  \* threads that enqueue
  Consumers,  \* threads that dequeue
  Item,       \* what can be enqueued
  NoItem,     \* a moved-from or never assigned item
  Capacity,   \* number of slots
  Spurious    \* TRUE: an operation may be refused for no reason

Thread == Producers \cup Consumers

VARIABLES
  sent,       \* the items in ticket order: ticket k carried sent[k + 1]
  head,       \* the next ticket a consumer takes
  op,         \* where each thread is in its current operation
  ticket,     \* the ticket a thread works on while op = "holding"
  item        \* a producer's argument, a consumer's result

fifoVars == <<sent, head, op, ticket, item>>

NoTicket == -1
tail == Len(sent)

Resting == {"idle", "done", "refused"}

Init ==
  /\ sent = <<>>
  /\ head = 0
  /\ op = [t \in Thread |-> "idle"]
  /\ ticket = [t \in Thread |-> NoTicket]
  /\ item = [t \in Thread |-> NoItem]

\* The slot of the next ticket is still in use by the ticket one lap behind it.
Full == \/ tail = head + Capacity
        \/ \E c \in Consumers : ticket[c] # NoTicket /\ ticket[c] + Capacity = tail

\* No published ticket is next in line.
Empty == \/ head = tail
         \/ \E p \in Producers : ticket[p] = head

-----------------------------------------------------------------------------

CallEnqueue(p, m) ==
  /\ op[p] \in Resting
  /\ op' = [op EXCEPT ![p] = "calling"]
  /\ item' = [item EXCEPT ![p] = m]
  /\ UNCHANGED <<sent, head, ticket>>

Reserve(p) ==
  /\ op[p] = "calling"
  /\ ~Full
  /\ sent' = Append(sent, item[p])
  /\ op' = [op EXCEPT ![p] = "holding"]
  /\ ticket' = [ticket EXCEPT ![p] = tail]
  /\ item' = [item EXCEPT ![p] = NoItem]
  /\ UNCHANGED head

Publish(p) ==
  /\ op[p] = "holding"
  /\ op' = [op EXCEPT ![p] = "done"]
  /\ ticket' = [ticket EXCEPT ![p] = NoTicket]
  /\ UNCHANGED <<sent, head, item>>

\* A refused enqueue leaves the caller's item where it was.
RefuseEnqueue(p) ==
  /\ op[p] = "calling"
  /\ Spurious \/ Full
  /\ op' = [op EXCEPT ![p] = "refused"]
  /\ UNCHANGED <<sent, head, ticket, item>>

CallDequeue(c) ==
  /\ op[c] \in Resting
  /\ op' = [op EXCEPT ![c] = "calling"]
  /\ item' = [item EXCEPT ![c] = NoItem]
  /\ UNCHANGED <<sent, head, ticket>>

Take(c) ==
  /\ op[c] = "calling"
  /\ ~Empty
  /\ head' = head + 1
  /\ op' = [op EXCEPT ![c] = "holding"]
  /\ ticket' = [ticket EXCEPT ![c] = head]
  /\ item' = [item EXCEPT ![c] = sent[head + 1]]
  /\ UNCHANGED sent

Release(c) ==
  /\ op[c] = "holding"
  /\ op' = [op EXCEPT ![c] = "done"]
  /\ ticket' = [ticket EXCEPT ![c] = NoTicket]
  /\ UNCHANGED <<sent, head, item>>

RefuseDequeue(c) ==
  /\ op[c] = "calling"
  /\ Spurious \/ Empty
  /\ op' = [op EXCEPT ![c] = "refused"]
  /\ UNCHANGED <<sent, head, ticket, item>>

Next ==
  \/ \E p \in Producers : \/ \E m \in Item : CallEnqueue(p, m)
                          \/ Reserve(p) \/ Publish(p) \/ RefuseEnqueue(p)
  \/ \E c \in Consumers : \/ CallDequeue(c)
                          \/ Take(c) \/ Release(c) \/ RefuseDequeue(c)

Spec == Init /\ [][Next]_fifoVars

-----------------------------------------------------------------------------

\* Every variable has its type.
TypeOK ==
  /\ sent \in Seq(Item)
  /\ head \in Nat
  /\ op \in [Thread -> Resting \cup {"calling", "holding"}]
  /\ ticket \in [Thread -> Nat \cup {NoTicket}]
  /\ item \in [Thread -> Item \cup {NoItem}]

=============================================================================
