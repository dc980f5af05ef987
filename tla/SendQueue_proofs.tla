--------------------------- MODULE SendQueue_proofs ---------------------------
(***************************************************************************)
(* Theorems about SEND_QUEUE for any number of threads and any MAXSIZE     *)
(* that is large enough against that number.  A room has two producers and *)
(* SENDTHREADSIZE = 5 consumers and MAXSIZE is 10000, so both hypotheses   *)
(* hold of it.                                                             *)
(***************************************************************************)
EXTENDS SendQueue, FiniteSetTheorems, SequenceTheorems, TLAPS

\* There are finitely many threads: the producers and, apart, the consumers.
LEMMA ThreadsFinite ==
  /\ IsFiniteSet(Threads)
  /\ Cardinality(Threads) \in Nat
  /\ Cardinality(Threads) = Cardinality(Producers) + Cardinality(Consumers)
  /\ Cardinality(Producers) \in Nat
  /\ Cardinality(Consumers) \in Nat
<1>1. /\ IsFiniteSet(Producers \cup Consumers)
      /\ Cardinality(Producers \cup Consumers) =
           Cardinality(Producers) + Cardinality(Consumers)
             - Cardinality(Producers \cap Consumers)
  BY FS_Union, QueueAssumption
<1>2. Cardinality(Producers \cap Consumers) = 0
  BY FS_EmptySet, QueueAssumption
<1>3. Cardinality(Producers) \in Nat /\ Cardinality(Consumers) \in Nat
  BY FS_CardinalityType, QueueAssumption
<1> QED
  BY <1>1, <1>2, <1>3, FS_CardinalityType DEF Threads

\* A subset of a finite set counts no more.
LEMMA SubsetCounts ==
  ASSUME NEW S, IsFiniteSet(S), NEW A \in SUBSET S
  PROVE  /\ IsFiniteSet(A)
         /\ Cardinality(A) \in Nat
         /\ Cardinality(A) <= Cardinality(S)
         /\ A # {} => Cardinality(A) > 0
<1>1. IsFiniteSet(A) /\ Cardinality(A) <= Cardinality(S)
  BY FS_Subset
<1>2. Cardinality(A) \in Nat /\ (Cardinality(A) = 0 <=> A = {})
  BY <1>1, FS_CardinalityType, FS_EmptySet
<1> QED
  BY <1>1, <1>2

----------------------------------------------------------------------------
\* The queue starts empty and every thread outside.
LEMMA InitTyped == Init => TypeInv
<1> SUFFICES ASSUME Init PROVE TypeInv
  OBVIOUS
<1>1. send_queue \in Seq(Msgs) /\ Len(send_queue) <= MaxSize
  BY EmptySeq, QueueAssumption DEF Init
<1>2. at \in [Threads -> Places] /\ arg \in [Producers -> Msgs]
  BY DEF Init, Places
<1>3. cleared \in BOOLEAN
  BY Zenon DEF Init
<1> QED
  BY <1>1, <1>2, <1>3 DEF TypeInv

\* The queue stays within MAXSIZE and every thread at a known place, whatever
\* the threads do (push_msg's test of the size, msg.h:58).
THEOREM TypeCorrect == Spec => []TypeInv
<1>1. Init => TypeInv
  BY InitTyped
<1>2. TypeInv /\ [Next]_vars => TypeInv'
  <2> SUFFICES ASSUME TypeInv, [Next]_vars PROVE TypeInv'
    OBVIOUS
  <2> USE DEF TypeInv, Places, Move
  <2>1. ASSUME NEW p \in Producers, NEW m \in Msgs, CallPush(p, m) PROVE TypeInv'
    BY <2>1 DEF CallPush
  <2>2. ASSUME NEW p \in Producers, Push(p) PROVE TypeInv'
    <3>1. /\ Append(send_queue, arg[p]) \in Seq(Msgs)
          /\ Len(Append(send_queue, arg[p])) = Len(send_queue) + 1
      BY AppendProperties
    <3>2. Len(send_queue) \in Nat
      BY LenProperties
    <3>3. send_queue' \in Seq(Msgs) /\ Len(send_queue') <= MaxSize
      BY <2>2, <3>1, <3>2, QueueAssumption DEF Push, Full
    <3>4. at' \in [Threads -> Places] /\ UNCHANGED <<arg, cleared>>
      BY <2>2 DEF Push
    <3> QED
      BY <3>3, <3>4
  <2>3. ASSUME NEW p \in Producers, PushWait(p) PROVE TypeInv'
    BY <2>3 DEF PushWait
  <2>4. ASSUME NEW c \in Consumers, CallPop(c) PROVE TypeInv'
    BY <2>4 DEF CallPop
  <2>5. ASSUME NEW c \in Consumers, Pop(c) PROVE TypeInv'
    <3>1. /\ Tail(send_queue) \in Seq(Msgs)
          /\ Len(Tail(send_queue)) = Len(send_queue) - 1
      BY <2>5, HeadTailProperties DEF Pop, Empty
    <3>2. Len(send_queue) \in Nat
      BY LenProperties
    <3>3. send_queue' \in Seq(Msgs) /\ Len(send_queue') <= MaxSize
      BY <2>5, <3>1, <3>2, QueueAssumption DEF Pop
    <3>4. at' \in [Threads -> Places] /\ UNCHANGED <<arg, cleared>>
      BY <2>5 DEF Pop
    <3> QED
      BY <3>3, <3>4
  <2>6. ASSUME NEW c \in Consumers, PopWait(c) PROVE TypeInv'
    BY <2>6 DEF PopWait
  <2>7. ASSUME NEW t \in Threads, Signal(t) PROVE TypeInv'
    BY <2>7 DEF Signal, SignalNobody, SignalOne
  <2>8. ASSUME NEW t \in Threads, Spurious(t) PROVE TypeInv'
    BY <2>8 DEF Spurious
  <2>9. ASSUME NEW t \in Clearers, Clear(t) PROVE TypeInv'
    BY <2>9, EmptySeq, QueueAssumption DEF Clear
  <2>10. CASE UNCHANGED vars
    BY <2>10 DEF vars
  <2> QED
    BY <2>1, <2>2, <2>3, <2>4, <2>5, <2>6, <2>7, <2>8, <2>9, <2>10 DEF Next
<1> QED
  BY <1>1, <1>2, PTL DEF Spec

----------------------------------------------------------------------------
\* The counts of a state, for each of the three sets of threads.
LEMMA Counts ==
  ASSUME NEW S \in {Producers, Consumers, Threads}, NEW x
  PROVE  /\ S \subseteq Threads /\ IsFiniteSet(S)
         /\ IsFiniteSet(In(S, x))
         /\ Cardinality(In(S, x)) \in Nat
         /\ Cardinality(In(S, x)) <= Cardinality(S)
         /\ In(S, x) # {} => Cardinality(In(S, x)) > 0
<1>1. S \subseteq Threads /\ IsFiniteSet(S)
  BY ThreadsFinite, QueueAssumption DEF Threads
<1>2. In(S, x) \in SUBSET S
  BY DEF In
<1> QED
  BY <1>1, <1>2, SubsetCounts

\* The same counts in the next state.
LEMMA CountsNext ==
  ASSUME NEW S \in {Producers, Consumers, Threads}, NEW x
  PROVE  /\ Cardinality(In(S, x)') \in Nat
         /\ Cardinality(In(S, x)') <= Cardinality(S)
         /\ In(S, x)' # {} => Cardinality(In(S, x)') > 0
<1>1. IsFiniteSet(S)
  BY ThreadsFinite, QueueAssumption DEF Threads
<1>2. In(S, x)' \in SUBSET S
  BY DEF In
<1> QED
  BY <1>1, <1>2, SubsetCounts

\* No thread both signals and waits to pop.
LEMMA AwakeBound ==
  Cardinality(In(Threads, "signal")) + Cardinality(In(Consumers, "enter"))
    <= Cardinality(Threads)
<1> DEFINE A == In(Threads, "signal")
           B == In(Consumers, "enter")
<1>1. A \subseteq Threads /\ B \subseteq Threads /\ A \cap B = {}
  BY DEF In, Threads
<1>2. IsFiniteSet(A) /\ IsFiniteSet(B) /\ IsFiniteSet(A \cup B)
      /\ Cardinality(A \cup B) <= Cardinality(Threads)
  BY <1>1, ThreadsFinite, FS_Subset
<1>3. Cardinality(A \cup B) = Cardinality(A) + Cardinality(B) - Cardinality(A \cap B)
  BY <1>2, FS_Union
<1>4. Cardinality(A \cap B) = 0
  BY <1>1, FS_EmptySet
<1>5. Cardinality(A) \in Nat /\ Cardinality(B) \in Nat
  BY <1>2, FS_CardinalityType
<1> QED
  BY <1>2, <1>3, <1>4, <1>5

\* What a thread's move does to the counts of S.
LEMMA Moved ==
  ASSUME TypeInv, NEW S \in SUBSET Threads, IsFiniteSet(S),
         NEW t \in Threads, NEW from \in Places, NEW to \in Places, from # to,
         Move(t, from, to)
  PROVE  /\ t \in S =>
              /\ Cardinality(In(S, from)') = Cardinality(In(S, from)) - 1
              /\ Cardinality(In(S, to)') = Cardinality(In(S, to)) + 1
              /\ \A x \in Places \ {from, to} : In(S, x)' = In(S, x)
         /\ t \notin S => \A x \in Places : In(S, x)' = In(S, x)
         /\ \A x \in Places \ {to} : In(S, x)' \subseteq In(S, x)
         /\ t \in In(Threads, to)'
<1>1. at \in [Threads -> Places] /\ at[t] = from /\ at' = [at EXCEPT ![t] = to]
  BY DEF TypeInv, Move
<1>2. \A x : IsFiniteSet(In(S, x))
  BY FS_Subset DEF In
<1>3. ASSUME t \in S
      PROVE  Cardinality(In(S, from)') = Cardinality(In(S, from)) - 1
  <2>1. In(S, from)' = In(S, from) \ {t} /\ t \in In(S, from)
    BY <1>1, <1>3 DEF In
  <2>2. Cardinality(In(S, from) \ {t}) = Cardinality(In(S, from)) - 1
    BY <1>2, <2>1, FS_RemoveElement, Zenon
  <2> QED
    BY <2>1, <2>2
<1>4. ASSUME t \in S
      PROVE  Cardinality(In(S, to)') = Cardinality(In(S, to)) + 1
  <2>1. In(S, to)' = In(S, to) \cup {t} /\ t \notin In(S, to)
    BY <1>1, <1>4 DEF In
  <2>2. Cardinality(In(S, to) \cup {t}) = Cardinality(In(S, to)) + 1
    BY <1>2, <2>1, FS_AddElement, Zenon
  <2> QED
    BY <2>1, <2>2
<1>5. \A x \in Places \ {from, to} : In(S, x)' = In(S, x)
  BY <1>1 DEF In
<1>6. t \notin S => \A x \in Places : In(S, x)' = In(S, x)
  BY <1>1 DEF In
<1>7. \A x \in Places \ {to} : In(S, x)' \subseteq In(S, x)
  BY <1>1 DEF In
<1>8. t \in In(Threads, to)'
  BY <1>1 DEF In
<1> QED
  BY <1>3, <1>4, <1>5, <1>6, <1>7, <1>8

\* What a signal that wakes w does to the counts of S.
LEMMA Woken ==
  ASSUME TypeInv, NEW S \in SUBSET Threads, IsFiniteSet(S),
         NEW t \in Threads, NEW w \in Threads, SignalOne(t, w)
  PROVE  /\ t \in S => Cardinality(In(S, "signal")') = Cardinality(In(S, "signal")) - 1
         /\ w \in S =>
              /\ Cardinality(In(S, "wait")') = Cardinality(In(S, "wait")) - 1
              /\ Cardinality(In(S, "enter")') = Cardinality(In(S, "enter")) + 1
         /\ w \notin S =>
              /\ In(S, "wait")' = In(S, "wait")
              /\ In(S, "enter")' = In(S, "enter")
         /\ In(S, "wait")' \subseteq In(S, "wait")
         /\ w \in In(Threads, "enter")'
<1>1. /\ at \in [Threads -> Places] /\ at[t] = "signal" /\ at[w] = "wait" /\ t # w
      /\ at' = [at EXCEPT ![t] = "out", ![w] = "enter"]
  BY DEF TypeInv, SignalOne
<1>2. \A x : IsFiniteSet(In(S, x))
  BY FS_Subset DEF In
<1>3. ASSUME t \in S
      PROVE  Cardinality(In(S, "signal")') = Cardinality(In(S, "signal")) - 1
  <2>1. In(S, "signal")' = In(S, "signal") \ {t} /\ t \in In(S, "signal")
    BY <1>1, <1>3 DEF In
  <2>2. Cardinality(In(S, "signal") \ {t}) = Cardinality(In(S, "signal")) - 1
    BY <1>2, <2>1, FS_RemoveElement, Zenon
  <2> QED
    BY <2>1, <2>2
<1>4. ASSUME w \in S
      PROVE  Cardinality(In(S, "wait")') = Cardinality(In(S, "wait")) - 1
  <2>1. In(S, "wait")' = In(S, "wait") \ {w} /\ w \in In(S, "wait")
    BY <1>1, <1>4 DEF In
  <2>2. Cardinality(In(S, "wait") \ {w}) = Cardinality(In(S, "wait")) - 1
    BY <1>2, <2>1, FS_RemoveElement, Zenon
  <2> QED
    BY <2>1, <2>2
<1>5. ASSUME w \in S
      PROVE  Cardinality(In(S, "enter")') = Cardinality(In(S, "enter")) + 1
  <2>1. In(S, "enter")' = In(S, "enter") \cup {w} /\ w \notin In(S, "enter")
    BY <1>1, <1>5 DEF In
  <2>2. Cardinality(In(S, "enter") \cup {w}) = Cardinality(In(S, "enter")) + 1
    BY <1>2, <2>1, FS_AddElement, Zenon
  <2> QED
    BY <2>1, <2>2
<1>6. w \notin S => In(S, "wait")' = In(S, "wait") /\ In(S, "enter")' = In(S, "enter")
  BY <1>1 DEF In
<1>7. In(S, "wait")' \subseteq In(S, "wait") /\ w \in In(Threads, "enter")'
  BY <1>1 DEF In
<1> QED
  BY <1>3, <1>4, <1>5, <1>6, <1>7

----------------------------------------------------------------------------
\* Room for more messages than there are threads to lose a signal on.
Roomy == MaxSize > 2 * Cardinality(Producers) + Cardinality(Consumers)

Inv1 == TypeInv /\ BacklogBounded /\ NoSleepOverBacklog

\* A producer cannot go to sleep beside a sleeping consumer.
LEMMA NoPushWait ==
  ASSUME Roomy, TypeInv, BacklogBounded, In(Consumers, "wait") # {}
  PROVE  ~Full
<1> DEFINE wp == Cardinality(In(Producers, "wait"))
           sg == Cardinality(In(Threads, "signal"))
           ec == Cardinality(In(Consumers, "enter"))
<1>1. wp \in Nat /\ sg \in Nat /\ ec \in Nat
  BY Counts
<1>2. Len(send_queue) + wp <= sg + ec + Cardinality(Producers)
  BY DEF BacklogBounded
<1>3. sg + ec <= Cardinality(Threads)
  BY AwakeBound
<1>4. Len(send_queue) \in Nat
  BY LenProperties DEF TypeInv
<1> QED
  BY <1>1, <1>2, <1>3, <1>4, ThreadsFinite, QueueAssumption DEF Full, Roomy

\* The bound is trivial of an empty queue.
LEMMA SumBound ==
  \A n, w, s, e, q \in Nat : n = 0 /\ w <= q => n + w <= s + e + q
OBVIOUS

\* The step of the induction for the bound on the backlog.
LEMMA BacklogBoundedStep ==
  ASSUME Roomy, TypeInv, BacklogBounded, [Next]_vars
  PROVE  BacklogBounded'
<1> DEFINE n  == Len(send_queue)
           P  == Cardinality(Producers)
           wp == Cardinality(In(Producers, "wait"))
           sg == Cardinality(In(Threads, "signal"))
           ec == Cardinality(In(Consumers, "enter"))
<1> SUFFICES ASSUME In(Consumers, "wait")' # {}
             PROVE  n' + wp' <= sg' + ec' + P
  BY DEF BacklogBounded
<1>1. /\ n \in Nat /\ P \in Nat /\ wp \in Nat /\ sg \in Nat /\ ec \in Nat
      /\ wp' \in Nat /\ sg' \in Nat /\ ec' \in Nat /\ wp' <= P
  BY Counts, CountsNext, LenProperties, ThreadsFinite DEF TypeInv
<1>2. In(Consumers, "wait") # {} => n + wp <= sg + ec + P
  BY DEF BacklogBounded
<1>3. /\ Producers \subseteq Threads /\ IsFiniteSet(Producers)
      /\ Consumers \subseteq Threads /\ IsFiniteSet(Consumers)
      /\ Threads \subseteq Threads /\ IsFiniteSet(Threads)
      /\ Producers \cap Consumers = {}
  BY Counts, QueueAssumption
<1>4. /\ "out" \in Places /\ "enter" \in Places
      /\ "wait" \in Places /\ "signal" \in Places
  BY DEF Places
<1> HIDE DEF n, P, wp, sg, ec
<1>5. ASSUME NEW p \in Producers, NEW m \in Msgs, CallPush(p, m)
      PROVE  n' + wp' <= sg' + ec' + P
  <2>1. Move(p, "out", "enter") /\ n' = n
    BY <1>5 DEF CallPush, n
  <2>2. In(Consumers, "wait")' = In(Consumers, "wait") /\ wp' = wp /\ sg' = sg /\ ec' = ec
    BY <1>3, <1>4, <2>1, Moved DEF wp, sg, ec
  <2> QED
    BY <1>1, <1>2, <2>1, <2>2
<1>6. ASSUME NEW p \in Producers, Push(p)
      PROVE  n' + wp' <= sg' + ec' + P
  <2>1. Move(p, "enter", "signal") /\ n' = n + 1
    BY <1>6, AppendProperties DEF Push, n, TypeInv
  <2>2. In(Consumers, "wait")' = In(Consumers, "wait") /\ wp' = wp /\ sg' = sg + 1 /\ ec' = ec
    BY <1>3, <1>4, <2>1, Moved DEF wp, sg, ec
  <2> QED
    BY <1>1, <1>2, <2>1, <2>2
<1>7. ASSUME NEW p \in Producers, PushWait(p)
      PROVE  n' + wp' <= sg' + ec' + P
  <2>1. Move(p, "enter", "wait") /\ Full
    BY <1>7 DEF PushWait
  <2>2. In(Consumers, "wait")' = In(Consumers, "wait")
    BY <1>3, <1>4, <2>1, Moved
  <2> QED
    BY <2>1, <2>2, NoPushWait
<1>8. ASSUME NEW c \in Consumers, CallPop(c)
      PROVE  n' + wp' <= sg' + ec' + P
  <2>1. Move(c, "out", "enter") /\ n' = n
    BY <1>8 DEF CallPop, n
  <2>2. In(Consumers, "wait")' = In(Consumers, "wait") /\ wp' = wp /\ sg' = sg /\ ec' = ec + 1
    BY <1>3, <1>4, <2>1, Moved DEF wp, sg, ec
  <2> QED
    BY <1>1, <1>2, <2>1, <2>2
<1>9. ASSUME NEW c \in Consumers, Pop(c)
      PROVE  n' + wp' <= sg' + ec' + P
  <2>1. Move(c, "enter", "signal") /\ n' = n - 1
    BY <1>9, HeadTailProperties DEF Pop, Empty, n, TypeInv
  <2>2. In(Consumers, "wait")' = In(Consumers, "wait") /\ wp' = wp /\ sg' = sg + 1 /\ ec' = ec - 1
    BY <1>3, <1>4, <2>1, Moved DEF wp, sg, ec
  <2> QED
    BY <1>1, <1>2, <2>1, <2>2
<1>10. ASSUME NEW c \in Consumers, PopWait(c)
       PROVE  n' + wp' <= sg' + ec' + P
  <2>1. n' = 0
    BY <1>10, EmptySeq DEF PopWait, Empty, n
  <2> QED
    BY <1>1, <2>1, SumBound, Zenon
<1>11. ASSUME NEW t \in Threads, SignalNobody(t)
       PROVE  n' + wp' <= sg' + ec' + P
  <2>1. Move(t, "signal", "out") /\ In(Consumers, "wait") = {}
    BY <1>3, <1>11 DEF SignalNobody, In
  <2>2. In(Consumers, "wait")' \subseteq In(Consumers, "wait")
    BY <1>3, <1>4, <2>1, Moved
  <2> QED
    BY <2>1, <2>2
<1>12. ASSUME NEW t \in Threads, NEW w \in Threads, SignalOne(t, w)
       PROVE  n' + wp' <= sg' + ec' + P
  <2>1. n' = n /\ sg' = sg - 1 /\ In(Consumers, "wait")' \subseteq In(Consumers, "wait")
    BY <1>3, <1>12, Woken DEF SignalOne, n, sg
  <2>2. CASE w \in Consumers
    <3>1. w \notin Producers
      BY <1>3, <2>2
    <3>2. wp' = wp /\ ec' = ec + 1
      BY <1>3, <1>12, <2>2, <3>1, Woken DEF wp, ec
    <3> QED
      BY <1>1, <1>2, <2>1, <3>2
  <2>3. CASE w \in Producers
    <3>1. w \notin Consumers
      BY <1>3, <2>3
    <3>2. wp' = wp - 1 /\ ec' = ec
      BY <1>3, <1>12, <2>3, <3>1, Woken DEF wp, ec
    <3> QED
      BY <1>1, <1>2, <2>1, <3>2
  <2> QED
    BY <2>2, <2>3 DEF Threads
<1>13. ASSUME NEW t \in Threads, Spurious(t)
       PROVE  n' + wp' <= sg' + ec' + P
  <2>1. Move(t, "wait", "enter") /\ n' = n
    BY <1>13 DEF Spurious, n
  <2>2. sg' = sg /\ In(Consumers, "wait")' \subseteq In(Consumers, "wait")
    BY <1>3, <1>4, <2>1, Moved DEF sg
  <2>3. CASE t \in Consumers
    <3>1. t \notin Producers
      BY <1>3, <2>3
    <3>2. wp' = wp /\ ec' = ec + 1
      BY <1>3, <1>4, <2>1, <2>3, <3>1, Moved DEF wp, ec
    <3> QED
      BY <1>1, <1>2, <2>1, <2>2, <3>2
  <2>4. CASE t \in Producers
    <3>1. t \notin Consumers
      BY <1>3, <2>4
    <3>2. wp' = wp - 1 /\ ec' = ec
      BY <1>3, <1>4, <2>1, <2>4, <3>1, Moved DEF wp, ec
    <3> QED
      BY <1>1, <1>2, <2>1, <2>2, <3>2
  <2> QED
    BY <2>3, <2>4 DEF Threads
<1>14. ASSUME NEW t \in Clearers, Clear(t)
       PROVE  n' + wp' <= sg' + ec' + P
  <2>1. n' = 0
    BY <1>14, EmptySeq DEF Clear, n
  <2> QED
    BY <1>1, <2>1, SumBound, Zenon
<1>15. CASE UNCHANGED vars
  <2>1. /\ n' = n /\ wp' = wp /\ sg' = sg /\ ec' = ec
        /\ In(Consumers, "wait")' = In(Consumers, "wait")
    BY <1>15 DEF vars, n, wp, sg, ec, In
  <2> QED
    BY <1>1, <1>2, <2>1
<1> QED
  BY <1>5, <1>6, <1>7, <1>8, <1>9, <1>10, <1>11, <1>12, <1>13, <1>14, <1>15
  DEF Next, Signal

\* The inductive step of NoSleepOverBacklog, from the bound on the backlog.
LEMMA NoSleepOverBacklogStep ==
  ASSUME Roomy, Inv1, [Next]_vars
  PROVE  NoSleepOverBacklog'
<1> DEFINE Awake == In(Threads, "enter") \cup In(Threads, "signal")
<1> SUFFICES ASSUME In(Consumers, "wait")' # {}, ~Empty'
             PROVE  Awake' # {}
  BY DEF NoSleepOverBacklog
<1> USE DEF Inv1
<1>1. /\ Consumers \subseteq Threads /\ IsFiniteSet(Consumers)
      /\ Producers \subseteq Threads /\ Producers \cap Consumers = {}
      /\ Clearers \subseteq Threads
      /\ Threads \subseteq Threads /\ IsFiniteSet(Threads)
  BY Counts, QueueAssumption
<1>2. /\ "out" \in Places /\ "enter" \in Places
      /\ "wait" \in Places /\ "signal" \in Places
  BY DEF Places
<1>3. ASSUME NEW p \in Producers, NEW m \in Msgs, CallPush(p, m)
      PROVE  Awake' # {}
  BY <1>1, <1>2, <1>3, Moved DEF CallPush
<1>4. ASSUME NEW p \in Producers, Push(p)
      PROVE  Awake' # {}
  BY <1>1, <1>2, <1>4, Moved DEF Push
<1>5. ASSUME NEW p \in Producers, PushWait(p)
      PROVE  Awake' # {}
  <2>1. Move(p, "enter", "wait") /\ Full /\ p \notin Consumers
    BY <1>1, <1>5 DEF PushWait
  <2>2. In(Consumers, "wait")' = In(Consumers, "wait")
    BY <1>1, <1>2, <2>1, Moved
  <2> QED
    BY <2>1, <2>2, NoPushWait
<1>6. ASSUME NEW c \in Consumers, CallPop(c)
      PROVE  Awake' # {}
  BY <1>1, <1>2, <1>6, Moved DEF CallPop
<1>7. ASSUME NEW c \in Consumers, Pop(c)
      PROVE  Awake' # {}
  BY <1>1, <1>2, <1>7, Moved DEF Pop
<1>8. ASSUME NEW c \in Consumers, PopWait(c)
      PROVE  Awake' # {}
  BY <1>8 DEF PopWait, Empty
<1>9. ASSUME NEW t \in Threads, SignalNobody(t)
      PROVE  Awake' # {}
  <2>1. In(Consumers, "wait")' = {}
    BY <1>1, <1>9 DEF SignalNobody, In, Move
  <2> QED
    BY <2>1
<1>10. ASSUME NEW t \in Threads, NEW w \in Threads, SignalOne(t, w)
       PROVE  Awake' # {}
  BY <1>1, <1>10, Woken
<1>11. ASSUME NEW t \in Threads, Spurious(t)
       PROVE  Awake' # {}
  BY <1>1, <1>2, <1>11, Moved DEF Spurious
<1>12. ASSUME NEW t \in Clearers, Clear(t)
       PROVE  Awake' # {}
  BY <1>12 DEF Clear, Empty
<1>13. CASE UNCHANGED vars
  BY <1>13 DEF vars, NoSleepOverBacklog, In, Empty
<1> QED
  BY <1>3, <1>4, <1>5, <1>6, <1>7, <1>8, <1>9, <1>10, <1>11, <1>12, <1>13
  DEF Next, Signal

\* If MAXSIZE leaves room for the signals that can go to the wrong thread, no
\* consumer ever sleeps over a backlog that nobody awake will look at, however
\* often the queue is cleared (push_msg, pop_msg and clear, msg.h:55-88).
THEOREM BacklogSafe ==
  ASSUME Roomy
  PROVE  Spec => [](BacklogBounded /\ NoSleepOverBacklog)
<1>1. Init => Inv1
  <2> SUFFICES ASSUME Init PROVE Inv1
    OBVIOUS
  <2>1. TypeInv
    BY InitTyped
  <2>2. In(Consumers, "wait") = {}
    BY DEF Init, In, Threads
  <2> QED
    BY <2>1, <2>2 DEF Inv1, BacklogBounded, NoSleepOverBacklog
<1>2. TypeInv /\ TypeInv' /\ Inv1 /\ [Next]_vars => Inv1'
  BY BacklogBoundedStep, NoSleepOverBacklogStep DEF Inv1
<1> QED
  BY <1>1, <1>2, TypeCorrect, PTL DEF Spec, Inv1

----------------------------------------------------------------------------
\* Twice as many messages as threads.
Ample == MaxSize >= 2 * Cardinality(Threads)

Inv2 == WakeupsCovered /\ BacklogBounded /\ OneKindSleeps

\* The second hypothesis on MaxSize implies the first.
LEMMA AmpleIsRoomy == ASSUME Ample PROVE Roomy
<1>1. Cardinality(Consumers) # 0
  BY FS_EmptySet, QueueAssumption
<1> QED
  BY <1>1, ThreadsFinite, QueueAssumption DEF Ample, Roomy

\* What WakeupsCovered says of a sleeping producer.
LEMMA CoveredMeansBacklog ==
  ASSUME TypeInv, WakeupsCovered, In(Producers, "wait") # {}, ~cleared
  PROVE  ~Empty
<1> DEFINE wt == Cardinality(In(Threads, "wait"))
           sg == Cardinality(In(Threads, "signal"))
<1>1. In(Threads, "wait") # {}
  BY DEF In, Threads
<1>2. wt \in Nat /\ wt > 0 /\ sg \in Nat /\ sg <= Cardinality(Threads)
  BY <1>1, Counts
<1>3. Len(send_queue) + sg >= wt + Cardinality(Threads)
  BY DEF WakeupsCovered
<1>4. Empty => Len(send_queue) = 0
  BY EmptySeq DEF Empty
<1> QED
  BY <1>2, <1>3, <1>4, ThreadsFinite

\* Before the first clear() only the other methods have been called.
LEMMA NotCleared ==
  ASSUME [Next]_vars, ~cleared'
  PROVE  ~cleared /\ \A t \in Clearers : ~Clear(t)
BY DEF Next, vars, CallPush, Push, PushWait, CallPop, Pop, PopWait, Signal, SignalOne,
       SignalNobody, Spurious, Clear

\* The inductive step of WakeupsCovered.
LEMMA WakeupsCoveredStep ==
  ASSUME Ample, TypeInv, WakeupsCovered, [Next]_vars
  PROVE  WakeupsCovered'
<1> DEFINE n  == Len(send_queue)
           T  == Cardinality(Threads)
           wt == Cardinality(In(Threads, "wait"))
           sg == Cardinality(In(Threads, "signal"))
<1> SUFFICES ASSUME In(Producers, "wait")' # {}, ~cleared'
             PROVE  n' + sg' >= wt' + T
  BY DEF WakeupsCovered
<1>0. ~cleared /\ \A t \in Clearers : ~Clear(t)
  BY NotCleared
<1>1. n \in Nat /\ T \in Nat /\ wt \in Nat /\ sg \in Nat /\ wt <= T
  BY Counts, LenProperties, ThreadsFinite DEF TypeInv
<1>2. In(Producers, "wait") # {} => n + sg >= wt + T
  BY <1>0 DEF WakeupsCovered
<1>3. /\ Producers \subseteq Threads /\ IsFiniteSet(Producers)
      /\ Consumers \subseteq Threads /\ IsFiniteSet(Consumers)
      /\ Threads \subseteq Threads /\ IsFiniteSet(Threads)
      /\ Producers \cap Consumers = {}
  BY Counts, QueueAssumption
<1>4. /\ "out" \in Places /\ "enter" \in Places
      /\ "wait" \in Places /\ "signal" \in Places
  BY DEF Places
<1> HIDE DEF n, T, wt, sg
<1>5. ASSUME NEW p \in Producers, NEW m \in Msgs, CallPush(p, m)
      PROVE  n' + sg' >= wt' + T
  <2>1. Move(p, "out", "enter") /\ n' = n
    BY <1>5 DEF CallPush, n
  <2>2. In(Producers, "wait")' \subseteq In(Producers, "wait") /\ wt' = wt /\ sg' = sg
    BY <1>3, <1>4, <2>1, Moved DEF wt, sg
  <2> QED
    BY <1>1, <1>2, <2>1, <2>2
<1>6. ASSUME NEW p \in Producers, Push(p)
      PROVE  n' + sg' >= wt' + T
  <2>1. Move(p, "enter", "signal") /\ n' = n + 1
    BY <1>6, AppendProperties DEF Push, n, TypeInv
  <2>2. In(Producers, "wait")' \subseteq In(Producers, "wait") /\ wt' = wt /\ sg' = sg + 1
    BY <1>3, <1>4, <2>1, Moved DEF wt, sg
  <2> QED
    BY <1>1, <1>2, <2>1, <2>2
<1>7. ASSUME NEW p \in Producers, PushWait(p)
      PROVE  n' + sg' >= wt' + T
  <2>1. Move(p, "enter", "wait") /\ n' = n /\ n >= 2 * T
    BY <1>7, <1>1, QueueAssumption DEF PushWait, Full, n, T, Ample
  <2>2. sg' = sg /\ wt' = wt + 1
    BY <1>3, <1>4, <2>1, Moved DEF wt, sg
  <2>3. wt + 1 <= T
    <3>1. In(Threads, "wait") \subseteq Threads \ {p}
      BY <2>1 DEF In, Move
    <3>2. IsFiniteSet(Threads \ {p}) /\ Cardinality(Threads \ {p}) = T - 1
      BY <1>3, FS_RemoveElement DEF T
    <3>3. wt <= T - 1
      BY <3>1, <3>2, FS_Subset DEF wt
    <3> QED
      BY <1>1, <3>3
  <2> QED
    BY <1>1, <2>1, <2>2, <2>3
<1>8. ASSUME NEW c \in Consumers, CallPop(c)
      PROVE  n' + sg' >= wt' + T
  <2>1. Move(c, "out", "enter") /\ n' = n
    BY <1>8 DEF CallPop, n
  <2>2. In(Producers, "wait")' \subseteq In(Producers, "wait") /\ wt' = wt /\ sg' = sg
    BY <1>3, <1>4, <2>1, Moved DEF wt, sg
  <2> QED
    BY <1>1, <1>2, <2>1, <2>2
<1>9. ASSUME NEW c \in Consumers, Pop(c)
      PROVE  n' + sg' >= wt' + T
  <2>1. Move(c, "enter", "signal") /\ n' = n - 1
    BY <1>9, HeadTailProperties DEF Pop, Empty, n, TypeInv
  <2>2. In(Producers, "wait")' \subseteq In(Producers, "wait") /\ wt' = wt /\ sg' = sg + 1
    BY <1>3, <1>4, <2>1, Moved DEF wt, sg
  <2> QED
    BY <1>1, <1>2, <2>1, <2>2
<1>10. ASSUME NEW c \in Consumers, PopWait(c)
       PROVE  n' + sg' >= wt' + T
  <2>1. In(Producers, "wait")' = In(Producers, "wait")
    BY <1>3, <1>4, <1>10, Moved DEF PopWait
  <2> QED
    BY <1>0, <1>10, <2>1, CoveredMeansBacklog DEF PopWait
<1>11. ASSUME NEW t \in Threads, SignalNobody(t)
       PROVE  n' + sg' >= wt' + T
  <2>1. In(Producers, "wait")' = {}
    BY <1>3, <1>11 DEF SignalNobody, In, Move
  <2> QED
    BY <2>1
<1>12. ASSUME NEW t \in Threads, NEW w \in Threads, SignalOne(t, w)
       PROVE  n' + sg' >= wt' + T
  <2>1. /\ n' = n /\ sg' = sg - 1 /\ wt' = wt - 1
        /\ In(Producers, "wait")' \subseteq In(Producers, "wait")
    BY <1>3, <1>12, Woken DEF SignalOne, n, sg, wt
  <2> QED
    BY <1>1, <1>2, <2>1
<1>13. ASSUME NEW t \in Threads, Spurious(t)
       PROVE  n' + sg' >= wt' + T
  <2>1. Move(t, "wait", "enter") /\ n' = n
    BY <1>13 DEF Spurious, n
  <2>2. sg' = sg /\ wt' = wt - 1 /\ In(Producers, "wait")' \subseteq In(Producers, "wait")
    BY <1>3, <1>4, <2>1, Moved DEF sg, wt
  <2> QED
    BY <1>1, <1>2, <2>1, <2>2
<1>14. CASE UNCHANGED vars
  <2>1. n' = n /\ wt' = wt /\ sg' = sg /\ In(Producers, "wait")' = In(Producers, "wait")
    BY <1>14 DEF vars, n, wt, sg, In
  <2> QED
    BY <1>1, <1>2, <2>1
<1> QED
  BY <1>0, <1>5, <1>6, <1>7, <1>8, <1>9, <1>10, <1>11, <1>12, <1>13, <1>14
  DEF Next, Signal

\* The inductive step of OneKindSleeps: who is about to sleep finds the other kind awake.
LEMMA OneKindSleepsStep ==
  ASSUME Ample, TypeInv, Inv2, [Next]_vars
  PROVE  OneKindSleeps'
<1> SUFFICES ASSUME ~cleared' PROVE OneKindSleeps'
  BY DEF OneKindSleeps
<1> USE DEF Inv2
<1>0. ~cleared /\ \A t \in Clearers : ~Clear(t)
  BY NotCleared
<1>1. /\ Producers \subseteq Threads /\ IsFiniteSet(Producers)
      /\ Consumers \subseteq Threads /\ IsFiniteSet(Consumers)
      /\ Producers \cap Consumers = {}
  BY Counts, QueueAssumption
<1>2. /\ "out" \in Places /\ "enter" \in Places
      /\ "wait" \in Places /\ "signal" \in Places
  BY DEF Places
<1>3. ASSUME NEW p \in Producers, PushWait(p)
      PROVE  OneKindSleeps'
  <2>1. Move(p, "enter", "wait") /\ Full
    BY <1>3 DEF PushWait
  <2>2. In(Consumers, "wait")' = In(Consumers, "wait")
    BY <1>1, <1>2, <2>1, Moved
  <2> QED
    BY <2>1, <2>2, NoPushWait, AmpleIsRoomy DEF OneKindSleeps
<1>4. ASSUME NEW c \in Consumers, PopWait(c)
      PROVE  OneKindSleeps'
  <2>1. In(Producers, "wait")' = In(Producers, "wait")
    BY <1>1, <1>2, <1>4, Moved DEF PopWait
  <2> QED
    BY <1>0, <1>4, <2>1, CoveredMeansBacklog DEF PopWait, OneKindSleeps
<1>5. ASSUME \A S \in {Producers, Consumers} : In(S, "wait")' \subseteq In(S, "wait")
      PROVE  OneKindSleeps'
  BY <1>0, <1>5 DEF OneKindSleeps
<1>6. ASSUME NEW t \in Threads, NEW from \in Places, NEW to \in Places \ {"wait"},
             from # to, Move(t, from, to)
      PROVE  OneKindSleeps'
  BY <1>1, <1>2, <1>5, <1>6, Moved
<1>7. ASSUME NEW p \in Producers, (\E m \in Msgs : CallPush(p, m)) \/ Push(p)
      PROVE  OneKindSleeps'
  BY <1>1, <1>2, <1>6, <1>7 DEF CallPush, Push
<1>8. ASSUME NEW c \in Consumers, CallPop(c) \/ Pop(c)
      PROVE  OneKindSleeps'
  BY <1>1, <1>2, <1>6, <1>8 DEF CallPop, Pop
<1>9. ASSUME NEW t \in Threads, SignalNobody(t) \/ Spurious(t)
      PROVE  OneKindSleeps'
  BY <1>2, <1>6, <1>9 DEF SignalNobody, Spurious
<1>10. ASSUME NEW t \in Threads, NEW w \in Threads, SignalOne(t, w)
       PROVE  OneKindSleeps'
  BY <1>1, <1>5, <1>10, Woken
<1>11. CASE UNCHANGED vars
  BY <1>11 DEF vars, OneKindSleeps, In
<1> QED
  BY <1>0, <1>3, <1>4, <1>7, <1>8, <1>9, <1>10, <1>11 DEF Next, Signal

\* Until the first clear() a producer sleeps only beside messages whose pop will
\* signal it, and never at the same time as a consumer: with MAXSIZE at least
\* twice the number of threads one condition variable is as good as two
\* (msg.h:58-60 and 70-72).
THEOREM WakeupsSafe ==
  ASSUME Ample
  PROVE  Spec => [](WakeupsCovered /\ ProducerSleepsOnBacklog /\ OneKindSleeps)
<1>1. Init => Inv2
  <2> SUFFICES ASSUME Init PROVE Inv2
    OBVIOUS
  <2>1. In(Consumers, "wait") = {} /\ In(Producers, "wait") = {}
    BY DEF Init, In, Threads
  <2> QED
    BY <2>1 DEF Inv2, WakeupsCovered, BacklogBounded, OneKindSleeps
<1>2. TypeInv /\ Inv2 /\ [Next]_vars => Inv2'
  BY WakeupsCoveredStep, OneKindSleepsStep, BacklogBoundedStep, AmpleIsRoomy DEF Inv2
<1>3. TypeInv /\ Inv2 => ProducerSleepsOnBacklog
  BY CoveredMeansBacklog DEF Inv2, ProducerSleepsOnBacklog
<1> QED
  BY <1>1, <1>2, <1>3, TypeCorrect, PTL DEF Spec, Inv2

\* push_msg waits only while the queue is full (msg.h:58-60): until the first clear()
\* a producer that sleeps has a backlog before it, so that a pop will wake it.
THEOREM ProducersSleepOnBacklog ==
  ASSUME Ample
  PROVE  Spec => []ProducerSleepsOnBacklog
BY WakeupsSafe, PTL
=============================================================================
