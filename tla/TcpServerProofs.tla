--------------------------- MODULE TcpServerProofs ---------------------------
(***************************************************************************)
(* Proofs about TcpServer, for any number of loops and of connections.     *)
(***************************************************************************)
EXTENDS TcpServer, SequenceTheorems, FiniteSetTheorems, TLAPS

\* The sessions that were given to a loop.
Given(l) == {c \in 1..accepted : given[c] = l}

\* AddNewSession holds the last session accepted, and the loop that it was
\* given; that session is in no queue yet, and nowhere if it is null.
PostsTarget ==
  Posting =>
    /\ accepted \in 1..MaxConn /\ given[accepted] = target
    /\ \A l \in Loops : accepted \notin Queued(l)
    /\ eh = 0 => accepted \notin owned

\* What a loop has, in its queue or its table, is what it was given.
OnlyGiven == \A l \in Loops : Placed(l) \subseteq Given(l)

Elements(q) == {q[i] : i \in 1..Len(q)}
NoRepeats(q) == \A i, j \in 1..Len(q) : q[i] = q[j] => i = j

\* No session is in a queue twice.
Distinct == \A l \in Loops : NoRepeats(event_queue[l])

\* The loops whose turn has been in this round have one session more.
TakesTurns ==
  \E b \in Nat : \A l \in Loops : Load(l) = IF l < next_loop THEN b + 1 ELSE b

Placing == TypeOK /\ PostsTarget /\ OnlyGiven /\ Distinct /\ NoneForgotten

-----------------------------------------------------------------------------

\* A new element at the end of a sequence.
LEMMA AppendElements ==
  ASSUME NEW S, NEW q \in Seq(S), NEW x \in S
  PROVE  /\ Elements(Append(q, x)) = Elements(q) \cup {x}
         /\ NoRepeats(q) /\ x \notin Elements(q) => NoRepeats(Append(q, x))
<1> DEFINE r == Append(q, x)
<1>1. /\ Len(q) \in Nat /\ Len(r) = Len(q) + 1
      /\ \A i \in 1..Len(q) : r[i] = q[i]
      /\ r[Len(q) + 1] = x
  BY AppendProperties, LenProperties
<1> HIDE DEF r
<1>2. 1..Len(r) = 1..Len(q) \cup {Len(q) + 1}
  BY <1>1
<1>3. Elements(r) = Elements(q) \cup {x}
  BY <1>1, <1>2 DEF Elements
<1>4. ASSUME NoRepeats(q), x \notin Elements(q)
      PROVE  NoRepeats(r)
  <2> SUFFICES ASSUME NEW i \in 1..Len(r), NEW j \in 1..Len(r), r[i] = r[j]
               PROVE  i = j
    BY DEF NoRepeats
  <2>1. \A k \in 1..Len(q) : q[k] # x
    BY <1>4 DEF Elements
  <2> QED
    BY <2>1, <1>1, <1>2, <1>4 DEF NoRepeats
<1> QED
  BY <1>3, <1>4 DEF r

\* The first element taken off a sequence.
LEMMA TailElements ==
  ASSUME NEW S, NEW q \in Seq(S), q # <<>>, NoRepeats(q)
  PROVE  /\ Head(q) \in Elements(q)
         /\ Elements(Tail(q)) = Elements(q) \ {Head(q)}
         /\ NoRepeats(Tail(q))
<1>1. /\ Len(q) \in Nat \ {0}
      /\ Len(Tail(q)) = Len(q) - 1
      /\ \A i \in 1..(Len(q) - 1) : Tail(q)[i] = q[i + 1]
      /\ Head(q) = q[1]
  BY HeadTailProperties, EmptySeq
<1> DEFINE n == Len(q)
           t == Tail(q)
<1>2. /\ n \in Nat \ {0} /\ Len(t) = n - 1 /\ n = Len(q)
      /\ \A i \in 1..(n - 1) : t[i] = q[i + 1]
  BY <1>1
<1> HIDE DEF n, t
<1>3. \A i \in 1..(n - 1) : i + 1 \in 1..n /\ i + 1 # 1
  BY <1>2
<1>4. \A k \in 1..n : k # 1 => k - 1 \in 1..(n - 1) /\ (k - 1) + 1 = k
  BY <1>2
<1>5. 1 \in 1..n
  BY <1>2
<1>6. Elements(t) = Elements(q) \ {q[1]}
  <2>1. ASSUME NEW y \in Elements(t) PROVE y \in Elements(q) \ {q[1]}
    <3>1. PICK i \in 1..(n - 1) : y = t[i]
      BY <2>1, <1>2 DEF Elements
    <3> QED
      BY <3>1, <1>2, <1>3, <1>5 DEF Elements, NoRepeats
  <2>2. ASSUME NEW y \in Elements(q) \ {q[1]} PROVE y \in Elements(t)
    <3>1. PICK k \in 1..n : y = q[k]
      BY <2>2, <1>2 DEF Elements
    <3>2. k - 1 \in 1..(n - 1) /\ y = t[k - 1]
      BY <3>1, <2>2, <1>2, <1>4
    <3> QED
      BY <3>2, <1>2 DEF Elements
  <2> QED
    BY <2>1, <2>2
<1>7. NoRepeats(t)
  <2> SUFFICES ASSUME NEW i \in 1..(n - 1), NEW j \in 1..(n - 1), t[i] = t[j]
               PROVE  i = j
    BY <1>2 DEF NoRepeats
  <2>1. i + 1 = j + 1
    BY <1>2, <1>3 DEF NoRepeats
  <2> QED
    BY <2>1
<1>8. q[1] \in Elements(q)
  BY <1>2, <1>5 DEF Elements
<1> QED
  BY <1>1, <1>6, <1>7, <1>8 DEF t

\* A sequence without repetitions has as many elements as it is long.
LEMMA CountElements ==
  ASSUME NEW S, NEW q \in Seq(S), NoRepeats(q)
  PROVE  Cardinality(Elements(q)) = Len(q)
<1>1. Len(q) \in Nat /\ q \in [1..Len(q) -> S]
  BY LenProperties
<1>2. q \in [1..Len(q) -> Elements(q)]
  BY <1>1 DEF Elements
<1>3. q \in Injection(1..Len(q), Elements(q))
  BY <1>2 DEF Injection, IsInjective, NoRepeats
<1>4. q \in Surjection(1..Len(q), Elements(q))
  BY <1>2 DEF Surjection, Elements
<1>5. ExistsBijection(1..Len(q), Elements(q))
  BY <1>3, <1>4 DEF ExistsBijection, Bijection
<1>6. IsFiniteSet(1..Len(q)) /\ Cardinality(1..Len(q)) = Len(q)
  BY <1>1, FS_Interval
<1> QED
  BY <1>5, <1>6, FS_Bijection

-----------------------------------------------------------------------------

LEMMA InitPlacing == Init => Placing
<1> SUFFICES ASSUME Init PROVE Placing
  OBVIOUS
<1>1. 0 \in Loops
  BY ThreadNumAssumption DEF Loops
<1>2. event_queue \in [Loops -> Seq(Conns)]
  BY DEF Init
<1>3. given \in [1..accepted -> Loops]
  BY DEF Init
<1>4. TypeOK
  BY <1>1, <1>2, <1>3, ThreadNumAssumption, MaxConnAssumption
  DEF Init, TypeOK, MainStates, WorkerStates
<1>5. \A l \in Loops : Queued(l) = {} /\ handlers[l] = {}
  BY DEF Init, Queued
<1>6. OnlyGiven
  BY <1>5 DEF OnlyGiven, Placed
<1>7. PostsTarget
  BY DEF Init, PostsTarget, Posting
<1>8. Distinct /\ NoneForgotten
  BY DEF Init, Distinct, NoRepeats, NoneForgotten
<1> QED
  BY <1>4, <1>6, <1>7, <1>8 DEF Placing

\* The steps that touch neither queue, table nor connection; Return and
\* UserDrop let go of a session.
Elsewhere ==
  \/ StartLoop \/ StartReturns \/ Compare \/ Close \/ Join \/ Vanish
  \/ Return \/ (\E c \in owned : UserDrop(c))
  \/ (\E l \in Loops : BeginRound(l) \/ EndRound(l))
  \/ UNCHANGED vars

LEMMA ElsewherePlacing ==
  ASSUME Placing, Elsewhere
  PROVE  Placing'
<1> USE DEF Placing
<1>1. /\ UNCHANGED <<turn, event_queue, handlers, removed>>
      /\ Posting' <=> Posting
  BY DEF Elsewhere, StartLoop, StartReturns, Compare, Close, Join, Vanish, Return,
         UserDrop, BeginRound, EndRound, vars, turn, closing, loops, Posting
<1>2. UNCHANGED <<next_loop, accepted, target, given, event_queue, handlers, removed>>
  BY <1>1 DEF turn
<1>3. /\ not_close' \in BOOLEAN
      /\ started' \in 0..ThreadNum /\ joined' \in 0..ThreadNum
      /\ mpc' \in MainStates
  <2>1. started \in 0..ThreadNum /\ joined \in 0..ThreadNum /\ ThreadNum \in Nat
    BY ThreadNumAssumption DEF TypeOK
  <2>2. \A n \in 0..ThreadNum : n < ThreadNum => n + 1 \in 0..ThreadNum
    BY <2>1
  <2>3. started' = started \/ (started < ThreadNum /\ started' = started + 1)
    BY DEF Elsewhere, StartLoop, StartReturns, Compare, Close, Join, Vanish, Return,
           UserDrop, BeginRound, EndRound, vars
  <2>4. joined' = joined \/ (joined < ThreadNum /\ joined' = joined + 1)
    BY DEF Elsewhere, StartLoop, StartReturns, Compare, Close, Join, Vanish, Return,
           UserDrop, BeginRound, EndRound, vars, closing
  <2>5. not_close' \in {not_close, FALSE}
    BY DEF Elsewhere, StartLoop, StartReturns, Compare, Close, Join, Vanish, Return,
           UserDrop, BeginRound, EndRound, vars, closing
  <2>6. mpc' \in {mpc, "accept", "inline", "push", "join", "gone"}
    BY DEF Elsewhere, StartLoop, StartReturns, Compare, Close, Join, Vanish, Return,
           UserDrop, BeginRound, EndRound, vars
  <2> QED
    BY <2>1, <2>2, <2>3, <2>4, <2>5, <2>6 DEF TypeOK, MainStates
<1>4. /\ thread_id' \in [Loops -> {"none", "main", "worker"}]
      /\ wpc' \in [Loops -> WorkerStates]
  <2>1. ASSUME \/ StartReturns \/ Compare \/ Close \/ Join \/ Vanish \/ Return
               \/ (\E c \in owned : UserDrop(c)) \/ UNCHANGED vars
        PROVE  thread_id' = thread_id /\ wpc' = wpc
    BY <2>1 DEF StartReturns, Compare, Close, Join, Vanish, Return, UserDrop, vars,
                loops
  <2> QED
    BY <2>1 DEF Elsewhere, TypeOK, WorkerStates, StartLoop, BeginRound, EndRound
<1>5. /\ owned' \subseteq owned
      /\ eh' = eh \/ (eh' = 0 /\ ~Posting)
  BY DEF Elsewhere, StartLoop, StartReturns, Compare, Close, Join, Vanish, Return,
         UserDrop, BeginRound, EndRound, vars, held, Posting
<1>6. TypeOK'
  BY <1>2, <1>3, <1>4, <1>5 DEF TypeOK
<1>7. PostsTarget'
  BY <1>1, <1>2, <1>5 DEF PostsTarget, Queued
<1>8. OnlyGiven' /\ Distinct'
  BY <1>2 DEF OnlyGiven, Distinct, Placed, Queued, Given
<1>9. NoneForgotten'
  <2> SUFFICES ASSUME NEW c \in 1..accepted,
                      Alive(c)', ~(Posting /\ c = accepted)
               PROVE  c \in Placed(given[c]) \cup removed
    BY <1>1, <1>2 DEF NoneForgotten, Placed, Queued
  <2>1. accepted \in Nat
    BY MaxConnAssumption DEF TypeOK
  <2>2. Alive(c)
    BY <1>5, <2>1 DEF Alive
  <2> QED
    BY <2>2 DEF NoneForgotten
<1> QED
  BY <1>6, <1>7, <1>8, <1>9

\* Accept: the new session is given to a loop, but not yet with it.
LEMMA AcceptPlacing ==
  ASSUME Placing, Accept
  PROVE  Placing'
<1> USE DEF Placing
<1>1. accepted \in Nat /\ accepted + 1 \in 1..MaxConn
  BY MaxConnAssumption DEF TypeOK, Accept
<1>2. DOMAIN given = 1..accepted
  BY DEF TypeOK
<1>3. /\ accepted' = accepted + 1
      /\ given' \in [1..(accepted + 1) -> Loops]
      /\ \A c \in 1..accepted : given'[c] = given[c]
      /\ given'[accepted + 1] = next_loop
  BY <1>1, <1>2 DEF TypeOK, Accept
<1>4. UNCHANGED <<event_queue, handlers, thread_id, wpc, started, not_close, joined,
                  removed>>
  BY DEF Accept, loops, closing
<1>5. /\ eh' \in {0, accepted'} /\ owned \subseteq 1..accepted
      /\ owned' \in {owned, owned \cup ({eh'} \ {0})}
      /\ Posting' /\ ~Posting
  BY DEF Accept, TypeOK, Posting
<1>6. TypeOK'
  <2>1. next_loop' \in Loops
    BY ThreadNumAssumption DEF Accept, NextLoop, TypeOK, Loops
  <2>2. accepted' \in 0..MaxConn /\ target' \in Loops /\ mpc' \in MainStates
    BY <1>1, <1>3 DEF TypeOK, Accept, MainStates
  <2>3. owned' \subseteq 1..accepted' /\ removed' \subseteq 1..accepted'
    BY <1>1, <1>3, <1>4, <1>5 DEF TypeOK
  <2> QED
    BY <2>1, <2>2, <2>3, <1>3, <1>4, <1>5 DEF TypeOK
<1>7. \A l \in Loops : Queued(l)' = Queued(l) /\ Placed(l)' = Placed(l)
  BY <1>4 DEF Queued, Placed
<1>8. OnlyGiven'
  BY <1>1, <1>3, <1>7 DEF OnlyGiven, Given
<1>9. PostsTarget'
  <2>1. \A l \in Loops : accepted' \notin Queued(l)'
    BY <1>1, <1>3, <1>7 DEF OnlyGiven, Given, Placed
  <2>2. eh' = 0 => accepted' \notin owned'
    BY <1>1, <1>3, <1>5
  <2>3. given'[accepted'] = target' /\ accepted' \in 1..MaxConn
    BY <1>1, <1>3 DEF Accept
  <2> QED
    BY <2>1, <2>2, <2>3 DEF PostsTarget
<1>10. NoneForgotten'
  <2> SUFFICES ASSUME NEW c \in 1..accepted', Alive(c)', c # accepted'
               PROVE  c \in Placed(given[c]) \cup removed
                      /\ given'[c] = given[c] /\ given[c] \in Loops
    BY <1>4, <1>5, <1>7 DEF NoneForgotten
  <2>1. c \in 1..accepted
    BY <1>1, <1>3
  <2>2. Alive(c)
    BY <1>5, <2>1 DEF Alive
  <2> QED
    BY <1>3, <1>5, <2>1, <2>2 DEF NoneForgotten, TypeOK
<1> QED
  BY <1>4, <1>6, <1>8, <1>9, <1>10 DEF Distinct

\* RegisterHandler of a session with the loop it was given: by Inline, Queued
\* and ForWrite alike.
LEMMA RegisterPlacing ==
  ASSUME TypeOK, NEW k \in Loops, NEW c \in Given(k), Register(k, c)
  PROVE  /\ handlers' \in [Loops -> SUBSET Conns]
         /\ \A l \in Loops :
              handlers'[l] = IF l = k THEN handlers[l] \cup {c} ELSE handlers[l]
         /\ removed' = removed \ {c}
<1>1. c \in Conns
  BY MaxConnAssumption DEF Given, TypeOK, Conns
<1> QED
  BY <1>1 DEF Register, TypeOK

\* ProcessEvent on the main thread: the session goes straight into the table.
LEMMA InlinePlacing ==
  ASSUME Placing, RegisterInline
  PROVE  Placing'
<1> USE DEF Placing
<1>1. Posting /\ ~Posting'
  BY DEF RegisterInline, Posting
<1>2. UNCHANGED <<next_loop, accepted, target, given, event_queue, thread_id, wpc,
                  started, not_close, joined, eh, owned>>
  BY DEF RegisterInline, turn, closing, held
<1>3. PostsTarget' /\ Distinct'
  BY <1>1, <1>2 DEF PostsTarget, Distinct
<1>4. accepted \in Given(target) /\ target \in Loops
  BY <1>1 DEF PostsTarget, Given, TypeOK
<1>5. \A l : Queued(l)' = Queued(l)
  BY <1>2 DEF Queued
<1>6. CASE eh = 0
  <2>1. UNCHANGED <<handlers, removed>>
    BY <1>6 DEF RegisterInline
  <2>2. TypeOK'
    BY <1>2, <2>1 DEF TypeOK, RegisterInline, MainStates
  <2>3. OnlyGiven'
    BY <1>2, <1>5, <2>1 DEF OnlyGiven, Placed, Given
  <2>4. ~Alive(accepted)
    BY <1>1, <1>4, <1>6 DEF PostsTarget, Alive, Given
  <2>5. NoneForgotten'
    BY <1>2, <1>5, <2>1, <2>4 DEF NoneForgotten, Placed, Alive
  <2> QED
    BY <1>3, <2>2, <2>3, <2>5
<1>7. CASE eh # 0
  <2>1. eh = accepted /\ Register(target, accepted)
    BY <1>7 DEF RegisterInline, TypeOK
  <2>2. /\ handlers' \in [Loops -> SUBSET Conns]
        /\ \A l \in Loops :
             handlers'[l] = IF l = target THEN handlers[l] \cup {accepted} ELSE handlers[l]
        /\ removed' = removed \ {accepted}
    BY <1>4, <2>1, RegisterPlacing
  <2>3. TypeOK'
    BY <1>2, <2>2 DEF TypeOK, RegisterInline, MainStates
  <2>4. OnlyGiven'
    BY <1>2, <1>4, <1>5, <2>2 DEF OnlyGiven, Placed, Given
  <2>5. NoneForgotten'
    <3> SUFFICES ASSUME NEW c \in 1..accepted, Alive(c)
                 PROVE  c \in Placed(given[c])' \cup removed'
      BY <1>2 DEF NoneForgotten, Alive
    <3>1. given[c] \in Loops
      BY DEF TypeOK
    <3>2. CASE c = accepted
      BY <1>2, <1>4, <2>2, <3>2 DEF Placed, Given
    <3>3. CASE c # accepted
      <4>1. c \in Placed(given[c]) \cup removed
        BY <3>3 DEF NoneForgotten
      <4> QED
        BY <1>2, <1>5, <2>2, <3>1, <3>3, <4>1 DEF Placed
    <3> QED
      BY <3>2, <3>3
  <2> QED
    BY <1>3, <2>3, <2>4, <2>5
<1> QED
  BY <1>6, <1>7

\* ProcessEvent on the main thread: the session goes into the queue.
LEMMA PushPlacing ==
  ASSUME Placing, Push
  PROVE  Placing'
<1> USE DEF Placing
<1>1. Posting /\ ~Posting'
  BY DEF Push, Posting
<1>2. UNCHANGED <<next_loop, accepted, target, given, handlers, thread_id, wpc,
                  started, not_close, joined, eh, owned, removed>>
  BY DEF Push, turn, closing, held
<1>3. /\ accepted \in Conns /\ accepted \in Given(target) /\ target \in Loops
      /\ \A l \in Loops : accepted \notin Elements(event_queue[l])
  BY <1>1 DEF PostsTarget, Conns, Given, TypeOK, Queued, Elements
<1>4. \A l \in Loops :
        event_queue'[l] =
          IF l = target THEN Append(event_queue[l], accepted) ELSE event_queue[l]
  BY DEF Push, TypeOK
<1>5. ASSUME NEW l \in Loops
      PROVE  /\ event_queue'[l] \in Seq(Conns)
             /\ Elements(event_queue'[l]) =
                  Elements(event_queue[l]) \cup (IF l = target THEN {accepted} ELSE {})
             /\ NoRepeats(event_queue'[l])
  <2>1. event_queue[l] \in Seq(Conns) /\ NoRepeats(event_queue[l])
    BY DEF TypeOK, Distinct
  <2>2. CASE l = target
    <3>1. event_queue'[l] = Append(event_queue[l], accepted)
      BY <2>2, <1>4
    <3> QED
      BY <2>1, <2>2, <3>1, <1>3, AppendElements, AppendProperties
  <2>3. CASE l # target
    BY <2>1, <2>3, <1>4
  <2> QED
    BY <2>2, <2>3
<1>6. event_queue' \in [Loops -> Seq(Conns)]
  BY <1>5 DEF Push, TypeOK
<1>7. TypeOK'
  BY <1>2, <1>6 DEF TypeOK, Push, MainStates
<1>8. \A l \in Loops :
        Placed(l)' = Placed(l) \cup (IF l = target THEN {accepted} ELSE {})
  BY <1>2, <1>5 DEF Placed, Queued, Elements
<1>9. OnlyGiven'
  BY <1>2, <1>3, <1>8 DEF OnlyGiven, Given
<1>10. NoneForgotten'
  <2> SUFFICES ASSUME NEW c \in 1..accepted, Alive(c)
               PROVE  c \in Placed(given[c])' \cup removed
    BY <1>2 DEF NoneForgotten, Alive
  <2>1. given[c] \in Loops
    BY DEF TypeOK
  <2>2. CASE c = accepted
    BY <1>2, <1>3, <1>8, <2>2 DEF Given
  <2>3. CASE c # accepted
    <3>1. c \in Placed(given[c]) \cup removed
      BY <2>3 DEF NoneForgotten
    <3> QED
      BY <1>2, <1>8, <2>1, <3>1
  <2> QED
    BY <2>2, <2>3
<1>11. PostsTarget' /\ Distinct'
  BY <1>1, <1>5 DEF PostsTarget, Distinct
<1> QED
  BY <1>7, <1>9, <1>10, <1>11

\* A loop takes a REGISTER from its queue, for a session that lives or not.
LEMMA QueuedPlacing ==
  ASSUME Placing, NEW k \in Loops, RegisterQueued(k)
  PROVE  Placing'
<1> USE DEF Placing
<1> DEFINE q == event_queue[k]
           x == Head(event_queue[k])
<1>1. UNCHANGED <<next_loop, accepted, target, given, thread_id, wpc,
                  started, not_close, joined, mpc, eh, owned>>
  BY DEF RegisterQueued, turn, closing, held
<1>2. q \in Seq(Conns) /\ q # <<>> /\ NoRepeats(q)
  BY DEF RegisterQueued, TypeOK, Distinct
<1>3. /\ Tail(q) \in Seq(Conns)
      /\ x \in Elements(q) /\ Elements(Tail(q)) = Elements(q) \ {x}
      /\ NoRepeats(Tail(q))
  BY <1>2, TailElements, HeadTailProperties
<1>4. /\ event_queue' \in [Loops -> Seq(Conns)]
      /\ \A l \in Loops : event_queue'[l] = IF l = k THEN Tail(q) ELSE event_queue[l]
  BY <1>3 DEF RegisterQueued, TypeOK
<1>5. \/ Alive(x) /\ Register(k, x)
      \/ ~Alive(x) /\ UNCHANGED <<handlers, removed>>
  BY DEF RegisterQueued
<1> HIDE DEF q, x
<1>6. x \in Given(k)
  BY <1>3 DEF OnlyGiven, Placed, Queued, Elements, q
<1>7. /\ handlers' \in [Loops -> SUBSET Conns]
      /\ \A l \in Loops : handlers[l] \subseteq handlers'[l]
      /\ \A l \in Loops : handlers'[l] \subseteq handlers[l] \cup (IF l = k THEN {x} ELSE {})
      /\ removed \ {x} \subseteq removed' /\ removed' \subseteq removed
      /\ Alive(x) => x \in handlers'[k]
  <2>1. CASE Alive(x) /\ Register(k, x)
    <3>1. TypeOK /\ Register(k, x)
      BY <2>1
    <3>2. /\ handlers' \in [Loops -> SUBSET Conns]
          /\ \A l \in Loops :
               handlers'[l] = IF l = k THEN handlers[l] \cup {x} ELSE handlers[l]
          /\ removed' = removed \ {x}
      BY ONLY RegisterPlacing, <1>6, <3>1, k \in Loops
    <3> QED
      BY <3>2
  <2>2. CASE ~Alive(x) /\ UNCHANGED <<handlers, removed>>
    BY <2>2 DEF TypeOK
  <2> QED
    BY <1>5, <2>1, <2>2
<1>8. \A l \in Loops : /\ Queued(l) \ {x} \subseteq Queued(l)'
                       /\ Queued(l)' \subseteq Queued(l)
                       /\ l # k => Queued(l)' = Queued(l)
  <2>1. \A l \in Loops : Queued(l) = Elements(event_queue[l])
                          /\ Queued(l)' = Elements(event_queue'[l])
    BY DEF Queued, Elements
  <2> QED
    BY <2>1, <1>3, <1>4 DEF q
<1>9. TypeOK'
  BY <1>1, <1>4, <1>7 DEF TypeOK
<1>10. OnlyGiven'
  BY <1>1, <1>6, <1>7, <1>8 DEF OnlyGiven, Placed, Given
<1>11. PostsTarget'
  BY <1>1, <1>8 DEF PostsTarget, Posting
<1>12. Distinct'
  BY <1>3, <1>4 DEF Distinct
<1>13. NoneForgotten'
  <2> SUFFICES ASSUME NEW c \in 1..accepted, Alive(c), ~(Posting /\ c = accepted)
               PROVE  c \in Placed(given[c])' \cup removed'
    BY <1>1 DEF NoneForgotten, Alive, Posting
  <2>1. given[c] \in Loops /\ c \in Placed(given[c]) \cup removed
    BY DEF NoneForgotten, TypeOK
  <2>2. CASE c = x
    BY <1>1, <1>6, <1>7, <2>2 DEF Placed, Given
  <2>3. CASE c # x
    BY <1>1, <1>7, <1>8, <2>1, <2>3 DEF Placed
  <2> QED
    BY <2>2, <2>3
<1> QED
  BY <1>9, <1>10, <1>11, <1>12, <1>13

\* A loop registers a session of its own for a Send, or removes one.
LEMMA TablePlacing ==
  ASSUME Placing, NEW k \in Loops, NEW c \in DOMAIN given,
         RegisterForWrite(k, c) \/ RemoveHandler(k, c)
  PROVE  Placing'
<1> USE DEF Placing
<1>1. UNCHANGED <<next_loop, accepted, target, given, event_queue, thread_id, wpc,
                  started, not_close, joined, mpc, eh>>
  BY DEF RegisterForWrite, RemoveHandler, turn, closing, held
<1>2. c \in 1..accepted
  BY DEF TypeOK
<1>3. c \in Given(k)
  BY <1>2 DEF RegisterForWrite, RemoveHandler, OnlyGiven, Placed, Given
<1>4. /\ handlers' \in [Loops -> SUBSET Conns]
      /\ \A l \in Loops : handlers'[l] \subseteq handlers[l] \cup (IF l = k THEN {c} ELSE {})
      /\ \A l \in Loops : handlers[l] \ {c} \subseteq handlers'[l]
      /\ removed \ {c} \subseteq removed' /\ removed' \subseteq removed \cup {c}
      /\ c \in handlers'[k] \cup removed'
      /\ owned' \subseteq owned
  <2>1. CASE RegisterForWrite(k, c)
    <3>1. TypeOK /\ Register(k, c) /\ owned' = owned
      BY <2>1 DEF RegisterForWrite, held
    <3>2. /\ handlers' \in [Loops -> SUBSET Conns]
          /\ \A l \in Loops :
               handlers'[l] = IF l = k THEN handlers[l] \cup {c} ELSE handlers[l]
          /\ removed' = removed \ {c}
      BY ONLY RegisterPlacing, <1>3, <3>1, k \in Loops
    <3> QED
      BY <3>1, <3>2
  <2>2. CASE RemoveHandler(k, c)
    BY <2>2 DEF RemoveHandler, TypeOK
  <2> QED
    BY <2>1, <2>2
<1>5. \A l : Queued(l)' = Queued(l)
  BY <1>1 DEF Queued
<1>6. TypeOK'
  BY <1>1, <1>2, <1>4 DEF TypeOK
<1>7. PostsTarget' /\ Distinct'
  BY <1>1, <1>4, <1>5 DEF PostsTarget, Posting, Distinct
<1>8. OnlyGiven'
  BY <1>1, <1>3, <1>4, <1>5 DEF OnlyGiven, Placed, Given
<1>9. NoneForgotten'
  <2> SUFFICES ASSUME NEW d \in 1..accepted, Alive(d), ~(Posting /\ d = accepted)
               PROVE  d \in Placed(given[d])' \cup removed'
    BY <1>1, <1>4 DEF NoneForgotten, Alive, Posting
  <2>1. given[d] \in Loops /\ d \in Placed(given[d]) \cup removed
    BY DEF NoneForgotten, TypeOK
  <2>2. CASE d = c
    BY <1>1, <1>3, <1>4, <2>2 DEF Placed, Given
  <2>3. CASE d # c
    BY <1>1, <1>4, <1>5, <2>1, <2>3 DEF Placed
  <2> QED
    BY <2>2, <2>3
<1> QED
  BY <1>6, <1>7, <1>8, <1>9

LEMMA PlacingStep ==
  ASSUME Placing, [Next]_vars
  PROVE  Placing'
BY ElsewherePlacing, AcceptPlacing, InlinePlacing, PushPlacing, QueuedPlacing,
   TablePlacing
DEF Next, Main, Run, Elsewhere

LEMMA PlacingInvariant == Spec => []Placing
<1>1. Init => Placing
  BY InitPlacing
<1>2. Placing /\ [Next]_vars => Placing'
  BY PlacingStep
<1> QED
  BY <1>1, <1>2, PTL DEF Spec

(***************************************************************************)
(* Whatever the interleaving of the main thread with the loops, the queues *)
(* and tables of the loops hold sessions, and next_loop_ and the target of *)
(* AddNewSession are loops that there are.                                 *)
(***************************************************************************)
THEOREM TypeCorrect == Spec => []TypeOK
<1>1. Placing => TypeOK
  BY DEF Placing
<1> QED
  BY <1>1, PlacingInvariant, PTL

(***************************************************************************)
(* A session is in the queue or the table of no other loop than the one    *)
(* that NextLoop chose for it, and has one REGISTER at most, whatever      *)
(* becomes of it.                                                          *)
(***************************************************************************)
THEOREM SessionsArePlaced == Spec => []PlacedOnce
<1>1. ASSUME Placing PROVE PlacedOnce
  <2>1. ASSUME NEW l \in Loops
        PROVE  Cardinality(Queued(l)) = Len(event_queue[l])
    <3>1. event_queue[l] \in Seq(Conns) /\ NoRepeats(event_queue[l])
      BY <1>1 DEF Placing, TypeOK, Distinct
    <3>2. Queued(l) = Elements(event_queue[l])
      BY DEF Queued, Elements
    <3> QED
      BY <3>1, <3>2, CountElements
  <2> QED
    BY <1>1, <2>1 DEF Placing, OnlyGiven, PlacedOnce, Given
<1> QED
  BY <1>1, PlacingInvariant, PTL

(***************************************************************************)
(* A session that somebody holds, and that AddNewSession is done with, has *)
(* its REGISTER in the queue of its loop, or is in the table, or was taken *)
(* out of it.                                                              *)
(***************************************************************************)
THEOREM LivingAreKept == Spec => []NoneForgotten
<1>1. Placing => NoneForgotten
  BY DEF Placing
<1> QED
  BY <1>1, PlacingInvariant, PTL

-----------------------------------------------------------------------------

LEMMA LoadIsNat ==
  ASSUME TypeOK, NEW l
  PROVE  IsFiniteSet(Given(l)) /\ Load(l) \in Nat
<1>1. IsFiniteSet(1..accepted)
  BY FS_Interval DEF TypeOK
<1>2. Given(l) \in SUBSET (1..accepted)
  BY DEF Given
<1>3. IsFiniteSet(Given(l))
  BY <1>1, <1>2, FS_Subset
<1>4. Load(l) = Cardinality(Given(l))
  BY DEF Load, Given
<1> QED
  BY <1>3, <1>4, FS_CardinalityType

LEMMA InitTurns == Init => TakesTurns
<1> SUFFICES ASSUME Init PROVE TakesTurns
  OBVIOUS
<1>1. ASSUME NEW l \in Loops PROVE Load(l) = 0 /\ ~(l < next_loop)
  <2>1. {c \in 1..accepted : given[c] = l} = {}
    BY DEF Init
  <2> QED
    BY <2>1, FS_EmptySet DEF Load, Init, Loops
<1>2. 0 \in Nat /\ \A l \in Loops : Load(l) = IF l < next_loop THEN 0 + 1 ELSE 0
  BY <1>1
<1> QED
  BY <1>2 DEF TakesTurns

\* Accept gives one more session to the loop whose turn it is.
LEMMA AcceptLoad ==
  ASSUME TypeOK, Accept, NEW l \in Loops
  PROVE  Load(l)' = IF l = next_loop THEN Load(l) + 1 ELSE Load(l)
<1>1. accepted \in Nat /\ DOMAIN given = 1..accepted
  BY MaxConnAssumption DEF TypeOK
<1>2. /\ 1..(accepted + 1) = 1..accepted \cup {accepted + 1}
      /\ accepted + 1 \notin 1..accepted
  BY <1>1
<1>3. /\ accepted' = accepted + 1
      /\ \A c \in 1..accepted : given'[c] = given[c]
      /\ given'[accepted + 1] = next_loop
  BY <1>1, <1>2 DEF Accept
<1>4. /\ IsFiniteSet(Given(l)) /\ Load(l) = Cardinality(Given(l))
      /\ Load(l)' = Cardinality(Given(l)')
  BY LoadIsNat DEF Load, Given
<1>5. accepted + 1 \notin Given(l)
  BY <1>2 DEF Given
<1>6. CASE l = next_loop
  <2>1. Given(l)' = Given(l) \cup {accepted + 1}
    BY <1>2, <1>3, <1>6 DEF Given
  <2> QED
    BY <2>1, <1>4, <1>5, <1>6, FS_AddElement
<1>7. CASE l # next_loop
  <2>1. Given(l)' = Given(l)
    BY <1>2, <1>3, <1>7 DEF Given
  <2> QED
    BY <2>1, <1>4, <1>7
<1> QED
  BY <1>6, <1>7

\* The loop whose turn it was joins those that are ahead; the last one, and a
\* new round begins, with none ahead.
LEMMA AcceptTurns ==
  ASSUME TypeOK, TakesTurns, Accept
  PROVE  TakesTurns'
<1>1. PICK b \in Nat : \A l \in Loops : Load(l) = IF l < next_loop THEN b + 1 ELSE b
  BY DEF TakesTurns
<1>2. ThreadNum \in Nat \ {0} /\ next_loop \in 0..(ThreadNum - 1)
  BY ThreadNumAssumption DEF TypeOK, Loops
<1>3. ASSUME NEW l \in Loops
      PROVE  Load(l)' = IF l <= next_loop THEN b + 1 ELSE b
  <2>1. l \in 0..(ThreadNum - 1)
    BY DEF Loops
  <2> QED
    BY <1>1, <1>2, <2>1, AcceptLoad
<1>4. CASE next_loop + 1 = ThreadNum
  <2>1. next_loop' = 0
    BY <1>4 DEF Accept, NextLoop
  <2>2. ASSUME NEW l \in Loops
        PROVE  Load(l)' = IF l < next_loop' THEN (b + 1) + 1 ELSE b + 1
    BY <1>2, <1>3, <1>4, <2>1 DEF Loops
  <2> QED
    BY <2>2 DEF TakesTurns
<1>5. CASE next_loop + 1 # ThreadNum
  <2>1. next_loop' = next_loop + 1
    BY <1>5 DEF Accept, NextLoop
  <2>2. ASSUME NEW l \in Loops
        PROVE  Load(l)' = IF l < next_loop' THEN b + 1 ELSE b
    BY <1>2, <1>3, <2>1 DEF Loops
  <2> QED
    BY <2>2 DEF TakesTurns
<1> QED
  BY <1>4, <1>5

LEMMA TurnsStep ==
  ASSUME TypeOK, TakesTurns, [Next]_vars
  PROVE  TakesTurns'
<1>1. CASE Accept
  BY <1>1, AcceptTurns
<1>2. CASE UNCHANGED turn
  BY <1>2 DEF turn, TakesTurns, Load
<1>3. \/ Accept
      \/ UNCHANGED turn
  BY DEF Next, Main, Run, StartLoop, StartReturns, Compare, RegisterInline, Push, Return,
         UserDrop, Close, Join, Vanish, BeginRound, RegisterQueued, RegisterForWrite,
         RemoveHandler, EndRound, vars
<1> QED
  BY <1>1, <1>2, <1>3

LEMMA TurnsInvariant == Spec => []TakesTurns
<1>1. Init => TakesTurns
  BY InitTurns
<1>2. TypeOK /\ TakesTurns /\ [Next]_vars => TakesTurns'
  BY TurnsStep
<1> QED
  BY <1>1, <1>2, TypeCorrect, PTL DEF Spec

(***************************************************************************)
(* NextLoop spreads the sessions: no loop is ever given two more than      *)
(* another, however many were accepted and wherever next_loop_ stands.     *)
(***************************************************************************)
THEOREM LoadIsSpread == Spec => []SpreadEvenly
<1>1. ASSUME TypeOK, TakesTurns PROVE SpreadEvenly
  <2>1. PICK b \in Nat : \A l \in Loops : Load(l) = IF l < next_loop THEN b + 1 ELSE b
    BY <1>1 DEF TakesTurns
  <2>2. \A l \in Loops : Load(l) \in {b, b + 1}
    BY <2>1
  <2> QED
    BY <2>2 DEF SpreadEvenly
<1> QED
  BY <1>1, TypeCorrect, TurnsInvariant, PTL

-----------------------------------------------------------------------------

\* The threads that were joined have ended, and none is joined before all exist.
JoinedHaveEnded ==
  /\ mpc \notin {"join", "gone"} => joined = 0
  /\ \A l \in Loops : l < joined \/ mpc = "gone" => wpc[l] = "exited"

LEMMA JoinedStep ==
  ASSUME TypeOK, JoinedHaveEnded, [Next]_vars
  PROVE  JoinedHaveEnded'
<1> USE DEF JoinedHaveEnded
<1>1. ThreadNum \in Nat /\ joined \in Nat /\ Loops \subseteq Nat
  BY ThreadNumAssumption DEF TypeOK, Loops
<1>2. CASE StartLoop \/ StartReturns \/ Accept \/ Compare \/ RegisterInline \/ Push \/ Return
  <2>1. mpc \notin {"join", "gone"} /\ mpc' \notin {"join", "gone"} /\ joined' = 0
    BY <1>2 DEF StartLoop, StartReturns, Accept, Compare, RegisterInline, Push, Return,
           closing
  <2> QED
    BY <1>1, <2>1
<1>3. CASE Close
  <2>1. joined' = 0 /\ mpc' = "join"
    BY <1>3 DEF Close
  <2> QED
    BY <1>1, <2>1
<1>4. CASE Join
  <2>1. joined' = joined + 1 /\ mpc' = "join" /\ wpc' = wpc /\ wpc[joined] = "exited"
    BY <1>4 DEF Join, loops
  <2>2. \A l \in Loops : l < joined + 1 => l < joined \/ l = joined
    BY <1>1
  <2> QED
    BY <2>1, <2>2
<1>5. CASE Vanish
  <2>1. joined = ThreadNum /\ mpc' = "gone" /\ wpc' = wpc
    BY <1>5 DEF Vanish, loops
  <2>2. \A l \in Loops : l < ThreadNum
    BY <1>1 DEF Loops
  <2> QED
    BY <2>1, <2>2
<1>6. ASSUME NEW k \in Loops, Run(k) PROVE JoinedHaveEnded'
  <2>1. mpc' = mpc /\ joined' = joined
    BY <1>6 DEF Run, BeginRound, RegisterQueued, RegisterForWrite, RemoveHandler, EndRound,
           closing
  <2>2. \A l \in Loops : wpc[l] = "exited" => wpc'[l] = "exited"
    BY <1>6 DEF TypeOK, Run, BeginRound, RegisterQueued, RegisterForWrite, RemoveHandler,
           EndRound
  <2> QED
    BY <2>1, <2>2
<1>7. CASE UNCHANGED vars \/ \E c \in owned : UserDrop(c)
  BY <1>7 DEF vars, UserDrop, closing, loops
<1> QED
  BY <1>2, <1>3, <1>4, <1>5, <1>6, <1>7 DEF Next, Main

(***************************************************************************)
(* ~TcpServer joins every thread before it lets go of what they use: when  *)
(* it is done, no loop is in a round or about to begin one.                *)
(***************************************************************************)
THEOREM ThreadsEndFirst == Spec => []NoneOutlivesServer
<1>1. Init => JoinedHaveEnded
  BY ThreadNumAssumption DEF Init, JoinedHaveEnded, Loops
<1>2. TypeOK /\ JoinedHaveEnded /\ [Next]_vars => JoinedHaveEnded'
  BY JoinedStep
<1>3. JoinedHaveEnded => NoneOutlivesServer
  BY DEF JoinedHaveEnded, NoneOutlivesServer
<1> QED
  BY <1>1, <1>2, <1>3, TypeCorrect, PTL DEF Spec

=============================================================================
