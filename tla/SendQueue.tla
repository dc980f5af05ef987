------------------------------ MODULE SendQueue ------------------------------
(***************************************************************************)
(* struct SEND_QUEUE (msg.h): the bounded queue between the threads of a   *)
(* room process that produce messages and those that send them.            *)
(*                                                                         *)
(* One mutex and ONE condition variable serve both kinds of sleeper: a     *)
(* producer that found the queue full and a consumer that found it empty   *)
(* wait in the same place, pthread_cond_signal wakes one of them without   *)
(* looking at its kind, and it is called after the mutex was released.     *)
(* clear() empties the queue and signals nobody.                           *)
(*                                                                         *)
(* A critical section is one step; what runs outside the mutex (the call,  *)
(* the signal) is a step of its own.                                       *)
(***************************************************************************)
EXTENDS Naturals, Sequences, FiniteSets

CONSTANTS Producers,  \* threads that call push_msg
          Consumers,  \* threads that call pop_msg, again and again
          Clearers,   \* the producers that also call clear
          Msgs,       \* what is pushed
          MaxSize     \* MAXSIZE

ASSUME QueueAssumption ==
  /\ IsFiniteSet(Producers) /\ IsFiniteSet(Consumers) /\ Consumers # {}
  /\ Producers \cap Consumers = {}
  /\ Clearers \subseteq Producers
  /\ MaxSize \in Nat \ {0}

Threads == Producers \cup Consumers

VARIABLES send_queue,  \* std::queue<MSG>
          at,          \* where each thread is with regard to the queue
          arg,         \* the argument of each producer's push_msg
          cleared      \* history: has clear been called?

vars == <<send_queue, at, arg, cleared>>

\* "out"    not in a method of the queue
\* "enter"  about to take the mutex and to test the loop's condition
\* "wait"   asleep in pthread_cond_wait
\* "signal" has released the mutex and not yet signalled
Places == {"out", "enter", "wait", "signal"}

In(S, place) == {t \in S : at[t] = place}

FullOneMore == Len(send_queue) > MaxSize    \* faulty: off by one

Full == Len(send_queue) >= MaxSize

Empty == send_queue = << >>

Init ==
  /\ send_queue = << >>
  /\ at = [t \in Threads |-> "out"]
  /\ arg \in [Producers -> Msgs]
  /\ cleared = FALSE

----------------------------------------------------------------------------
Move(t, from, to) == at[t] = from /\ at' = [at EXCEPT ![t] = to]

CallPush(p, m) ==
  /\ Move(p, "out", "enter")
  /\ arg' = [arg EXCEPT ![p] = m]
  /\ UNCHANGED <<send_queue, cleared>>

\* faulty: signals nobody
PushSilently(p) ==
  /\ ~Full
  /\ Move(p, "enter", "out")
  /\ send_queue' = Append(send_queue, arg[p])
  /\ UNCHANGED <<arg, cleared>>

Push(p) ==
  /\ ~Full
  /\ Move(p, "enter", "signal")
  /\ send_queue' = Append(send_queue, arg[p])
  /\ UNCHANGED <<arg, cleared>>

PushWait(p) ==
  /\ Full
  /\ Move(p, "enter", "wait")
  /\ UNCHANGED <<send_queue, arg, cleared>>

CallPop(c) ==
  /\ Move(c, "out", "enter")
  /\ UNCHANGED <<send_queue, arg, cleared>>

\* faulty: signals nobody
PopSilently(c) ==
  /\ ~Empty
  /\ Move(c, "enter", "out")
  /\ send_queue' = Tail(send_queue)
  /\ UNCHANGED <<arg, cleared>>

Pop(c) ==
  /\ ~Empty
  /\ Move(c, "enter", "signal")
  /\ send_queue' = Tail(send_queue)
  /\ UNCHANGED <<arg, cleared>>

PopWait(c) ==
  /\ Empty
  /\ Move(c, "enter", "wait")
  /\ UNCHANGED <<send_queue, arg, cleared>>

\* faulty: the signal may be lost
SignalLost(t) ==
  /\ Move(t, "signal", "out")
  /\ UNCHANGED <<send_queue, arg, cleared>>

\* pthread_cond_signal wakes one sleeper of either kind, or nobody at all.
SignalOne(t, w) ==
  /\ at[t] = "signal" /\ at[w] = "wait"
  /\ at' = [at EXCEPT ![t] = "out", ![w] = "enter"]
  /\ UNCHANGED <<send_queue, arg, cleared>>

SignalNobody(t) ==
  /\ In(Threads, "wait") = {}
  /\ Move(t, "signal", "out")
  /\ UNCHANGED <<send_queue, arg, cleared>>

Signal(t) == SignalNobody(t) \/ \E w \in Threads : SignalOne(t, w)

\* pthread_cond_wait may return without a signal.
Spurious(t) ==
  /\ Move(t, "wait", "enter")
  /\ UNCHANGED <<send_queue, arg, cleared>>

\* clear() of a thread that is in no other method.
Clear(t) ==
  /\ at[t] = "out"
  /\ send_queue' = << >> /\ cleared' = TRUE
  /\ UNCHANGED <<at, arg>>

----------------------------------------------------------------------------
Next ==
  \/ \E p \in Producers : Push(p) \/ PushWait(p) \/ \E m \in Msgs : CallPush(p, m)
  \/ \E c \in Consumers : CallPop(c) \/ Pop(c) \/ PopWait(c)
  \/ \E t \in Threads : Signal(t) \/ Spurious(t)
  \/ \E t \in Clearers : Clear(t)

\* The scheduler runs every thread that can run, and send_func always comes
\* back for the next message.  Nobody is bound to push, to clear, or to wake
\* without a signal.
Fairness ==
  /\ \A p \in Producers : WF_vars(Push(p) \/ PushWait(p))
  /\ \A c \in Consumers : WF_vars(CallPop(c) \/ Pop(c) \/ PopWait(c))
  /\ \A t \in Threads : WF_vars(Signal(t))

Spec == Init /\ [][Next]_vars

LiveSpec == Spec /\ Fairness

----------------------------------------------------------------------------
\* The queue never outgrows MAXSIZE and every thread is at a known place.
TypeInv ==
  /\ send_queue \in Seq(Msgs)
  /\ Len(send_queue) <= MaxSize
  /\ at \in [Threads -> Places]
  /\ arg \in [Producers -> Msgs]
  /\ cleared \in BOOLEAN

\* Push and pop share one condition variable, so a signal may go to a thread
\* that cannot use it.  No consumer sleeps over a backlog while every other
\* thread has left the queue or sleeps too: somebody is awake in the queue
\* and will get to the message, or will signal.
NoSleepOverBacklog ==
  In(Consumers, "wait") # {} /\ ~Empty
    => In(Threads, "enter") \cup In(Threads, "signal") # {}

\* A producer never sleeps on a queue that has run empty: it sleeps only while
\* there are messages whose pop will signal it.  This ends with the first
\* clear(), which empties a full queue and wakes nobody.
ProducerSleepsOnBacklog == In(Producers, "wait") # {} => ~Empty \/ cleared

\* Until then producers and consumers are never asleep at the same time, so
\* that a signal meant for the one kind cannot go to the other.
OneKindSleeps ==
  In(Producers, "wait") = {} \/ In(Consumers, "wait") = {} \/ cleared

\* Every backlog is served: some consumer takes a message off (or it was
\* cleared), however the signals were distributed.
BacklogIsServed ==
  ~Empty ~> (Empty \/ In(Consumers, "signal") # {})

\* A sleeping producer is woken, unless somebody clears the queue.
ProducerIsWoken ==
  \A p \in Producers : at[p] = "wait" ~> (at[p] # "wait" \/ cleared)

----------------------------------------------------------------------------
\* What makes the invariants inductive.

\* While a consumer sleeps the backlog is bounded by the signals under way,
\* the consumers already awake, and one signal that each producer not asleep
\* may still swallow.
BacklogBounded ==
  In(Consumers, "wait") # {} =>
    Len(send_queue) + Cardinality(In(Producers, "wait"))
      <= Cardinality(In(Threads, "signal")) + Cardinality(In(Consumers, "enter"))
         + Cardinality(Producers)

\* While a producer sleeps the messages left and the signals under way
\* outnumber the sleepers by as much as the number of threads.
WakeupsCovered ==
  In(Producers, "wait") # {} /\ ~cleared =>
    Len(send_queue) + Cardinality(In(Threads, "signal"))
      >= Cardinality(In(Threads, "wait")) + Cardinality(Threads)
=============================================================================
