---------------------------- MODULE QueueLemmas ----------------------------
(***************************************************************************)
(* Facts about FIFO queues whose elements are all different, as the ready  *)
(* queue of the event loop is: what Append and Tail do to the set of the   *)
(* queued elements and to their being different.                           *)
(***************************************************************************)
EXTENDS Sequences, Functions, SequenceTheorems, TLAPS

\* Appending an element that is not queued keeps every element unique.
LEMMA AppendFacts ==
  ASSUME NEW S, NEW q \in Seq(S), NEW h \in S
  PROVE  /\ Append(q, h) \in Seq(S)
         /\ Range(Append(q, h)) = Range(q) \cup {h}
         /\ IsInjective(q) /\ h \notin Range(q) => IsInjective(Append(q, h))
<1> DEFINE a == Append(q, h)
<1>1. /\ a \in Seq(S)
      /\ Len(a) = Len(q) + 1
      /\ \A i \in 1..Len(q) : a[i] = q[i]
      /\ a[Len(q) + 1] = h
  BY AppendProperties
<1>2. /\ DOMAIN a = 1..(Len(q) + 1)
      /\ DOMAIN q = 1..Len(q)
      /\ Len(q) \in Nat
  BY <1>1
<1>3. DOMAIN a = DOMAIN q \cup {Len(q) + 1}
  BY <1>2
<1> HIDE DEF a
<1>4. Range(a) = Range(q) \cup {h}
  BY <1>1, <1>2, <1>3 DEF Range
<1>5. ASSUME IsInjective(q), h \notin Range(q)
      PROVE  IsInjective(a)
  BY <1>1, <1>2, <1>3, <1>5 DEF IsInjective, Range
<1> QED BY <1>1, <1>4, <1>5 DEF a

\* Taking the head of a queue without twins removes that element only.
LEMMA TailFacts ==
  ASSUME NEW S, NEW q \in Seq(S), q # <<>>, IsInjective(q)
  PROVE  /\ Tail(q) \in Seq(S)
         /\ Head(q) \in S /\ Head(q) \in Range(q)
         /\ Range(Tail(q)) = Range(q) \ {Head(q)}
         /\ IsInjective(Tail(q))
<1> DEFINE t == Tail(q)
<1>1. /\ t \in Seq(S) /\ Head(q) \in S
      /\ Len(t) = Len(q) - 1
      /\ \A i \in 1..Len(t) : t[i] = q[i + 1]
  BY HeadTailProperties
<1>2. /\ Len(q) \in Nat /\ Len(q) > 0
      /\ DOMAIN q = 1..Len(q) /\ DOMAIN t = 1..(Len(q) - 1)
      /\ Head(q) = q[1]
  BY <1>1
<1> HIDE DEF t
<1>3. Head(q) \in Range(q)
  BY <1>2 DEF Range
<1>4. Range(t) = Range(q) \ {Head(q)}
  <2>1. ASSUME NEW i \in DOMAIN t
        PROVE  t[i] \in Range(q) \ {Head(q)}
    <3>1. i + 1 \in DOMAIN q /\ 1 \in DOMAIN q /\ i + 1 # 1 /\ t[i] = q[i + 1]
      BY <1>1, <1>2
    <3> QED BY <1>2, <3>1 DEF IsInjective, Range
  <2>2. ASSUME NEW i \in DOMAIN q, q[i] # Head(q)
        PROVE  q[i] \in Range(t)
    <3>1. i - 1 \in DOMAIN t /\ t[i - 1] = q[i]
      BY <1>1, <1>2, <2>2
    <3> QED BY <3>1 DEF Range
  <2> QED BY <2>1, <2>2 DEF Range
<1>5. IsInjective(t)
  <2> SUFFICES ASSUME NEW i \in DOMAIN t, NEW j \in DOMAIN t, t[i] = t[j]
               PROVE  i = j
    BY DEF IsInjective
  <2>1. /\ i + 1 \in DOMAIN q /\ j + 1 \in DOMAIN q
        /\ t[i] = q[i + 1] /\ t[j] = q[j + 1]
    BY <1>1, <1>2
  <2>2. i + 1 = j + 1
    BY <2>1 DEF IsInjective
  <2> QED BY <1>2, <2>2
<1> QED BY <1>1, <1>3, <1>4, <1>5 DEF t

\* What the queue and what has been taken from it say together: appending to
\* the queue appends to the whole.
LEMMA ConcatAppend ==
  ASSUME NEW S, NEW r \in Seq(S), NEW q \in Seq(S), NEW h \in S
  PROVE  r \o Append(q, h) = Append(r \o q, h)
<1>1. r \o q \in Seq(S) /\ <<h>> \in Seq(S)
  BY ConcatProperties
<1>2. Append(q, h) = q \o <<h>> /\ Append(r \o q, h) = (r \o q) \o <<h>>
  BY <1>1, AppendIsConcat
<1> QED BY <1>1, <1>2, ConcatAssociative

\* Taking the head of the queue leaves the whole as it was.
LEMMA ConcatShift ==
  ASSUME NEW S, NEW r \in Seq(S), NEW q \in Seq(S), q # <<>>
  PROVE  Append(r, Head(q)) \o Tail(q) = r \o q
<1>1. /\ Head(q) \in S /\ Tail(q) \in Seq(S)
      /\ Len(q) \in Nat \ {0} /\ Len(r) \in Nat
      /\ Len(Tail(q)) = Len(q) - 1
      /\ \A i \in 1..(Len(q) - 1) : Tail(q)[i] = q[i + 1]
      /\ Head(q) = q[1]
  BY HeadTailProperties, EmptySeq, LenProperties
<1>2. /\ Append(r, Head(q)) \in Seq(S)
      /\ Len(Append(r, Head(q))) = Len(r) + 1
      /\ \A i \in 1..Len(r) : Append(r, Head(q))[i] = r[i]
      /\ Append(r, Head(q))[Len(r) + 1] = q[1]
  BY <1>1, AppendProperties
<1> DEFINE a == Append(r, Head(q))
           t == Tail(q)
<1> HIDE DEF a, t
<1>3. /\ a \o t \in Seq(S) /\ r \o q \in Seq(S)
      /\ Len(a \o t) = Len(r) + Len(q) /\ Len(r \o q) = Len(r) + Len(q)
      /\ \A i \in 1..(Len(r) + Len(q)) :
           /\ (a \o t)[i] = IF i <= Len(r) + 1 THEN a[i] ELSE t[i - (Len(r) + 1)]
           /\ (r \o q)[i] = IF i <= Len(r) THEN r[i] ELSE q[i - Len(r)]
  BY <1>1, <1>2, ConcatProperties DEF a, t
<1>4. ASSUME NEW i \in 1..(Len(r) + Len(q))
      PROVE  (a \o t)[i] = (r \o q)[i]
  <2>1. CASE i <= Len(r)
    BY <1>1, <1>2, <1>3, <2>1 DEF a
  <2>2. CASE i = Len(r) + 1
    BY <1>1, <1>2, <1>3, <2>2 DEF a
  <2>3. CASE i > Len(r) + 1
    <3>1. i - (Len(r) + 1) \in 1..(Len(q) - 1) /\ (i - (Len(r) + 1)) + 1 = i - Len(r)
      BY <1>1, <2>3
    <3> QED BY <1>1, <1>3, <2>3, <3>1 DEF t
  <2>4. i <= Len(r) \/ i = Len(r) + 1 \/ i > Len(r) + 1
    BY <1>1
  <2> QED BY <2>1, <2>2, <2>3, <2>4
<1>5. a \o t = r \o q
  BY <1>3, <1>4, SeqEqual
<1> QED BY <1>5 DEF a, t

\* The elements and the places of a sequence, and of one longer by an element.
LEMMA SequenceFacts ==
  ASSUME NEW S, NEW q \in Seq(S)
  PROVE  /\ Len(q) \in Nat
         /\ DOMAIN q = 1..Len(q)
         /\ \A i \in 1..Len(q) : q[i] \in S /\ q[i] \in Range(q)
         /\ \A h \in Range(q) : h \in S /\ \E i \in 1..Len(q) : q[i] = h
BY LenProperties DEF Range

\* Taking the head of a queue adds nothing to it, and takes no other element.
LEMMA TailRange ==
  ASSUME NEW S, NEW q \in Seq(S), q # <<>>
  PROVE  /\ Tail(q) \in Seq(S) /\ Len(q) \in Nat \ {0} /\ Len(Tail(q)) = Len(q) - 1
         /\ Range(Tail(q)) \subseteq Range(q)
         /\ \A h \in Range(q) : h = Head(q) \/ h \in Range(Tail(q))
<1>1. /\ Tail(q) \in Seq(S) /\ Len(q) \in Nat \ {0} /\ Len(Tail(q)) = Len(q) - 1
      /\ \A i \in 1..Len(Tail(q)) : Tail(q)[i] = q[i + 1]
      /\ Head(q) = q[1]
  BY HeadTailProperties, EmptySeq
<1>2. ASSUME NEW h \in Range(Tail(q))
      PROVE  h \in Range(q)
  <2>1. PICK i \in 1..Len(Tail(q)) : Tail(q)[i] = h
    <3> DEFINE t == Tail(q)
    <3>1. t \in Seq(S) /\ h \in Range(t)
      BY <1>1, <1>2
    <3> HIDE DEF t
    <3>2. \E i \in 1..Len(t) : t[i] = h
      BY <3>1, SequenceFacts
    <3> QED BY <3>2 DEF t
  <2>2. i + 1 \in 1..Len(q) /\ q[i + 1] = h
    BY <1>1, <2>1
  <2> QED BY <2>2, SequenceFacts
<1>3. ASSUME NEW h \in Range(q), h # Head(q)
      PROVE  h \in Range(Tail(q))
  <2>1. PICK i \in 1..Len(q) : q[i] = h
    BY <1>3, SequenceFacts
  <2>2. i - 1 \in 1..Len(Tail(q)) /\ (i - 1) + 1 = i
    BY <1>1, <1>3, <2>1
  <2>3. Tail(q)[i - 1] = h
    BY <1>1, <2>1, <2>2
  <2>4. \A k \in 1..Len(Tail(q)) : Tail(q)[k] \in Range(Tail(q))
    BY <1>1, SequenceFacts
  <2> QED BY <2>2, <2>3, <2>4
<1> QED BY <1>1, <1>2, <1>3
=============================================================================
