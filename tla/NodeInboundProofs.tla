-------------------------- MODULE NodeInboundProofs --------------------------
(***************************************************************************)
(* Proofs about the components of a node that take in what comes from      *)
(* outside, for any events, messages, members and bounds: the masked pins  *)
(* of private messages, events of the data exchange, downloads, events of  *)
(* the chain; and those that hand it to the applications, for any          *)
(* subscriptions, events and connections: the subscription manager,        *)
(* websockets and webhooks.                                                *)
(***************************************************************************)
EXTENDS MCNode, FunctionTheorems, FiniteSetTheorems, SequenceTheorems, SumTheorems, TLAPS

---------------------------------------------------------------------------
(* The node's specification implies that of each of its parts *)

(* They start in their initial states.                                     *)
LEMMA InboundInits == ASSUME Init PROVE InitMP /\ InitIN /\ InitDL /\ InitC
  BY DEF Init

(* A step of the node is for each a step of it or none.                    *)
LEMMA InboundSteps ==
    ASSUME [Next]_varsNode
    PROVE  [NextMP]_varsMP /\ [NextIN]_varsIN /\ [NextDL]_varsDL /\ [NextC]_varsC
<1>1. CASE UNCHANGED varsNode
  BY <1>1 DEF varsNode
<1>2. CASE Next
  BY <1>2 DEF Next
<1> QED BY <1>1, <1>2

---------------------------------------------------------------------------
(* Private messages: what a page releases, and what its contexts count *)

(* What has been released: by the pages before, and by the page at hand.   *)
(* The messages of one member of the group on a topic, of all of them and  *)
(* of those before the k-th.                                               *)
Through == eventsMP \o todoMP
Touches(m, t, i) == RowsOf(m) \cap RowsOfAuthor(t, Members[i]) # {}
RowsThrough(seq) == UNION {RowsOf(seq[k]) : k \in DOMAIN seq}
ReleasedMP(seq, t, i) == {k \in DOMAIN seq : Touches(seq[k], t, i)}
ReleasedBefore(seq, k, t, i) == {j \in DOMAIN seq : j < k /\ Touches(seq[j], t, i)}

(* Each message is released once, in the order of its author's nonces, and *)
(* a context counts for each member what has been released.                *)
OnceMP(seq) == \A j, k \in DOMAIN seq : seq[j] = seq[k] => j = k
InOrderMP(seq) ==
    \A k \in DOMAIN seq, t \in TopicMP, i \in DOMAIN Members :
        \A p \in RowsOf(seq[k]) \cap RowsOfAuthor(t, Members[i]) :
            Stream[p].nonce = Cardinality(ReleasedBefore(seq, k, t, i))
CountsMP(nonces, seq, t) == nonces = [i \in DOMAIN Members |-> Cardinality(ReleasedMP(seq, t, i))]
Untouched(seq, t) == \A k \in DOMAIN seq, i \in DOMAIN Members : ~Touches(seq[k], t, i)

(* The tables and the page: a row is of one message, which is dispatched   *)
(* whole; a page is of rows that are not, and what it has released it will *)
(* not process again.                                                      *)
PageInv ==
    /\ pinsMP \in 0..Len(Stream)
    /\ pageMP \subseteq PinMP \ doneMP /\ leftMP \subseteq pageMP
    /\ eventsMP \in Seq(MsgMP) /\ todoMP \in Seq(MsgMP)
    /\ doneMP = RowsThrough(eventsMP)
    /\ \A k \in DOMAIN todoMP : leftMP \cap RowsOf(todoMP[k]) = {}
    /\ pageMP = {} => todoMP = <<>> /\ contextsMP = Unread
ReleaseInv == OnceMP(Through) /\ InOrderMP(Through)
ContextInv ==
    /\ DOMAIN nextMP = TopicMP /\ DOMAIN contextsMP = TopicMP
    /\ \A t \in TopicMP : IF nextMP[t] # NoContext THEN CountsMP(nextMP[t], eventsMP, t)
                                                   ELSE Untouched(eventsMP, t)
    /\ \A t \in TopicMP : IF contextsMP[t] # NoContext THEN CountsMP(contextsMP[t], Through, t)
                                                       ELSE Untouched(todoMP, t)
MaskedInv == PageInv /\ ReleaseInv /\ ContextInv

(* Sequences put together: the first goes on, the second follows.          *)
LEMMA Joined ==
    ASSUME NEW S, NEW a \in Seq(S), NEW b \in Seq(S)
    PROVE  /\ a \o b \in Seq(S) /\ DOMAIN (a \o b) = 1..Len(a) + Len(b) /\ Len(a) \in Nat /\ Len(b) \in Nat
           /\ \A k \in DOMAIN a : k \in DOMAIN (a \o b) /\ (a \o b)[k] = a[k]
           /\ \A k \in DOMAIN b : Len(a) + k \in DOMAIN (a \o b) /\ (a \o b)[Len(a) + k] = b[k]
           /\ \A k \in DOMAIN (a \o b) : \/ k \in DOMAIN a
                                         \/ k - Len(a) \in DOMAIN b /\ (a \o b)[k] = b[k - Len(a)]
OBVIOUS

(* What has been released is finitely much.                                *)
LEMMA ReleasedFinite ==
    ASSUME NEW S, NEW seq \in Seq(S), NEW t, NEW i, NEW k
    PROVE  IsFiniteSet(ReleasedMP(seq, t, i)) /\ IsFiniteSet(ReleasedBefore(seq, k, t, i))
<1>1. IsFiniteSet(DOMAIN seq)
  <2>1. Len(seq) \in Nat /\ DOMAIN seq = 1..Len(seq) OBVIOUS
  <2> QED BY <2>1, FS_Interval
<1>2. ReleasedMP(seq, t, i) \subseteq DOMAIN seq /\ ReleasedBefore(seq, k, t, i) \subseteq DOMAIN seq
  BY DEF ReleasedMP, ReleasedBefore
<1> QED BY <1>1, <1>2, FS_Subset

(* A message that begins a sequence is released in it as in the whole.     *)
LEMMA Beginning ==
    ASSUME NEW S, NEW a \in Seq(S), NEW b \in Seq(S), OnceMP(a \o b), InOrderMP(a \o b)
    PROVE  OnceMP(a) /\ InOrderMP(a)
<1>1. OnceMP(a) BY Joined DEF OnceMP
<1>2. ASSUME NEW k \in DOMAIN a, NEW t \in TopicMP, NEW i \in DOMAIN Members
      PROVE  ReleasedBefore(a, k, t, i) = ReleasedBefore(a \o b, k, t, i)
  <2>1. \A j \in DOMAIN (a \o b) : j < k => j \in DOMAIN a
    <3>1. DOMAIN a = 1..Len(a) /\ Len(a) \in Nat /\ DOMAIN (a \o b) = 1..Len(a) + Len(b) /\ Len(b) \in Nat BY Joined
    <3> QED BY <3>1
  <2>2. \A j \in DOMAIN a : j \in DOMAIN (a \o b) /\ (a \o b)[j] = a[j] BY Joined
  <2> QED BY <2>1, <2>2 DEF ReleasedBefore
<1>3. \A k \in DOMAIN a : k \in DOMAIN (a \o b) /\ (a \o b)[k] = a[k] BY Joined
<1> QED BY <1>1, <1>2, <1>3 DEF InOrderMP

(* One more message changes nothing for those before it.                   *)
LEMMA SameBefore ==
    ASSUME NEW S, NEW seq \in Seq(S), NEW m \in S, NEW t, NEW i, NEW k \in DOMAIN seq
    PROVE  ReleasedBefore(Append(seq, m), k, t, i) = ReleasedBefore(seq, k, t, i)
<1> DEFINE new == Append(seq, m)
<1>1. /\ DOMAIN new = DOMAIN seq \cup {Len(seq) + 1} /\ new[Len(seq) + 1] = m
      /\ \A j \in DOMAIN seq : new[j] = seq[j]
      /\ ~(Len(seq) + 1 < k)
  OBVIOUS
<1> HIDE DEF new
<1>2. \A j : j \in ReleasedBefore(new, k, t, i) <=> j \in ReleasedBefore(seq, k, t, i)
  BY <1>1 DEF ReleasedBefore
<1> QED BY <1>2 DEF new, ReleasedBefore

(* One more message is one more for the members it is of.                  *)
LEMMA OneMoreReleased ==
    ASSUME NEW S, NEW seq \in Seq(S), NEW m \in S, NEW t, NEW i
    PROVE  /\ Cardinality(ReleasedMP(seq, t, i)) \in Nat
           /\ Cardinality(ReleasedMP(Append(seq, m), t, i))
              = IF Touches(m, t, i) THEN Cardinality(ReleasedMP(seq, t, i)) + 1 ELSE Cardinality(ReleasedMP(seq, t, i))
           /\ ReleasedBefore(Append(seq, m), Len(seq) + 1, t, i) = ReleasedMP(seq, t, i)
<1> DEFINE new == Append(seq, m)
           n == Len(seq) + 1
<1>1. /\ Len(seq) \in Nat /\ DOMAIN seq = 1..Len(seq) /\ DOMAIN new = DOMAIN seq \cup {n}
      /\ n \notin DOMAIN seq /\ new[n] = m /\ \A k \in DOMAIN seq : new[k] = seq[k] /\ ~(n < k)
      /\ \A k \in DOMAIN seq : k < n
  OBVIOUS
<1> HIDE DEF new, n
<1>2. IsFiniteSet(ReleasedMP(seq, t, i)) BY ReleasedFinite
<1>3. Cardinality(ReleasedMP(seq, t, i)) \in Nat BY <1>2, FS_CardinalityType
<1>4. ASSUME Touches(m, t, i)
      PROVE  Cardinality(ReleasedMP(new, t, i)) = Cardinality(ReleasedMP(seq, t, i)) + 1
  <2>1. ReleasedMP(new, t, i) = ReleasedMP(seq, t, i) \cup {n} BY <1>1, <1>4 DEF ReleasedMP
  <2>2. n \notin ReleasedMP(seq, t, i) BY <1>1 DEF ReleasedMP
  <2>3. Cardinality(ReleasedMP(seq, t, i) \cup {n}) = Cardinality(ReleasedMP(seq, t, i)) + 1
    BY <1>2, <2>2, FS_AddElement
  <2> QED BY <2>1, <2>3
<1>5. ASSUME ~Touches(m, t, i) PROVE ReleasedMP(new, t, i) = ReleasedMP(seq, t, i)
  BY <1>1, <1>5 DEF ReleasedMP
<1>6. ReleasedBefore(new, n, t, i) = ReleasedMP(seq, t, i)
  <2>1. ~(n < n) BY <1>1 DEF n
  <2> QED BY <1>1, <2>1 DEF ReleasedBefore, ReleasedMP
<1>8. CASE Touches(m, t, i) BY <1>3, <1>4, <1>6, <1>8 DEF new, n
<1>9. CASE ~Touches(m, t, i) BY <1>3, <1>5, <1>6, <1>9 DEF new, n
<1> QED BY <1>8, <1>9

(* The rows of a member on a topic are as many as its messages there, when *)
(* a message has one row on a topic and is released once.                  *)
LEMMA RowsCounted ==
    ASSUME NEW seq \in Seq(MsgMP), OnceMP(seq), NEW t \in TopicMP, NEW i \in DOMAIN Members
    PROVE  Cardinality(RowsThrough(seq) \cap RowsOfAuthor(t, Members[i]))
           = Cardinality(ReleasedMP(seq, t, i))
<1> DEFINE rows == RowsThrough(seq) \cap RowsOfAuthor(t, Members[i])
           got == ReleasedMP(seq, t, i)
           place(p) == CHOOSE k \in DOMAIN seq : p \in RowsOf(seq[k])
           f == [p \in rows |-> place(p)]
<1>1. ASSUME NEW p \in rows PROVE place(p) \in DOMAIN seq /\ p \in RowsOf(seq[place(p)]) /\ p \in RowsOfAuthor(t, Members[i])
  <2>1. PICK k \in DOMAIN seq : p \in RowsOf(seq[k]) BY DEF RowsThrough
  <2>2. place(p) \in DOMAIN seq /\ p \in RowsOf(seq[place(p)]) BY <2>1
  <2> HIDE DEF place
  <2> QED BY <2>2
<1>2. \A p \in rows : place(p) \in got
  <2> TAKE p \in rows
  <2> HIDE DEF rows, place
  <2> QED BY <1>1 DEF Touches, ReleasedMP
<1>3. \A p, q \in rows : place(p) = place(q) => p = q
  <2> SUFFICES ASSUME NEW p \in rows, NEW q \in rows, place(p) = place(q) PROVE p = q OBVIOUS
  <2> HIDE DEF rows, place
  <2>1. p \in RowsOf(seq[place(p)]) /\ q \in RowsOf(seq[place(p)]) BY <1>1
  <2>2. p \in RowsOfAuthor(t, Members[i]) /\ q \in RowsOfAuthor(t, Members[i]) BY <1>1
  <2> QED BY <2>1, <2>2, StreamAssumption DEF RowsOf, RowsOfAuthor
<1>4. \A k \in got : \E p \in rows : place(p) = k
  <2> TAKE k \in got
  <2>1. k \in DOMAIN seq /\ RowsOf(seq[k]) \cap RowsOfAuthor(t, Members[i]) # {} BY DEF ReleasedMP, Touches
  <2>2. PICK p \in RowsOf(seq[k]) \cap RowsOfAuthor(t, Members[i]) : TRUE BY <2>1
  <2>3. p \in RowsThrough(seq) BY <2>1, <2>2 DEF RowsThrough
  <2> HIDE DEF place
  <2>a. p \in rows BY <2>2, <2>3
  <2> HIDE DEF rows
  <2>4. place(p) \in DOMAIN seq /\ p \in RowsOf(seq[place(p)]) BY <1>1, <2>a
  <2>5. seq[place(p)] = seq[k] BY <2>2, <2>4 DEF RowsOf
  <2>6. place(p) = k BY <2>1, <2>4, <2>5 DEF OnceMP
  <2> QED BY <2>6, <2>a
<1>5. ExistsBijection(rows, got)
  <2> HIDE DEF rows, got, place
  <2>1. f \in [rows -> got] /\ \A p \in rows : f[p] = place(p) BY <1>2
  <2> HIDE DEF f
  <2>2. f \in Injection(rows, got) BY <1>3, <2>1 DEF Injection, IsInjective
  <2>3. f \in Surjection(rows, got) BY <1>4, <2>1 DEF Surjection
  <2> QED BY <2>2, <2>3 DEF Bijection, ExistsBijection
<1>6. IsFiniteSet(got) BY ReleasedFinite
<1> HIDE DEF rows, got
<1>7. ExistsBijection(got, rows) BY <1>5, Fun_ExistsBijSymmetric
<1>8. Cardinality(rows) = Cardinality(got) BY <1>6, <1>7, FS_Bijection
<1> QED BY <1>8 DEF rows, got

(* What a page knows of a topic, or else the table, counts what has been   *)
(* released.                                                               *)
LEMMA StateCounts ==
    ASSUME MaskedInv, NEW t \in TopicMP
    PROVE  IF stateForMaskedContext(t) # NoContext THEN CountsMP(stateForMaskedContext(t), Through, t)
           ELSE Untouched(Through, t) /\ contextsMP[t] = NoContext
<1>1. eventsMP \in Seq(MsgMP) /\ todoMP \in Seq(MsgMP) BY DEF MaskedInv, PageInv
<1>2. CASE contextsMP[t] # NoContext
  BY <1>2 DEF stateForMaskedContext, MaskedInv, ContextInv
<1>3. CASE contextsMP[t] = NoContext
  <2>1. stateForMaskedContext(t) = nextMP[t] BY <1>3 DEF stateForMaskedContext
  <2>2. Untouched(todoMP, t) BY <1>3 DEF MaskedInv, ContextInv
  <2>3. CASE nextMP[t] = NoContext
    <3>1. Untouched(eventsMP, t) BY <2>3 DEF MaskedInv, ContextInv
    <3>2. Untouched(Through, t) BY <1>1, <2>2, <3>1, Joined DEF Untouched, Through
    <3> QED BY <1>3, <2>1, <2>3, <3>2
  <2>4. CASE nextMP[t] # NoContext
    <3>1. CountsMP(nextMP[t], eventsMP, t) BY <2>4 DEF MaskedInv, ContextInv
    <3>2. ASSUME NEW i \in DOMAIN Members PROVE ReleasedMP(Through, t, i) = ReleasedMP(eventsMP, t, i)
      BY <1>1, <2>2, Joined DEF ReleasedMP, Untouched, Through
    <3>3. CountsMP(nextMP[t], Through, t) BY <3>1, <3>2 DEF CountsMP
    <3> QED BY <2>1, <2>4, <3>3
  <2> QED BY <2>3, <2>4
<1> QED BY <1>2, <1>3

(* A topic nothing is released of counts nothing.                          *)
LEMMA ZeroCounts == ASSUME NEW seq, NEW t, Untouched(seq, t) PROVE CountsMP(ZeroNonces, seq, t)
<1>1. ASSUME NEW i \in DOMAIN Members PROVE Cardinality(ReleasedMP(seq, t, i)) = 0
  <2>1. ReleasedMP(seq, t, i) = {} BY DEF Untouched, ReleasedMP
  <2> QED BY <2>1, FS_EmptySet
<1> QED BY <1>1 DEF CountsMP, ZeroNonces

(* The contexts that a message loads do too.                               *)
LEMMA LoadedCounts ==
    ASSUME MaskedInv, NEW m, NEW t \in TopicMP
    PROVE  IF LoadedMP(m)[t] # NoContext THEN CountsMP(LoadedMP(m)[t], Through, t) ELSE contextsMP[t] = NoContext
<1>1. CASE ~\E p \in CheckedRows(m) : Stream[p].topic = t
  <2>1. LoadedMP(m)[t] = contextsMP[t] BY <1>1 DEF LoadedMP
  <2> QED BY <2>1 DEF MaskedInv, ContextInv
<1>2. CASE (\E p \in CheckedRows(m) : Stream[p].topic = t) /\ stateForMaskedContext(t) # NoContext
  <2>1. LoadedMP(m)[t] = stateForMaskedContext(t) BY <1>2 DEF LoadedMP
  <2> QED BY <1>2, <2>1, StateCounts
<1>3. CASE (\E p \in CheckedRows(m) : Stream[p].topic = t) /\ stateForMaskedContext(t) = NoContext
  <2>1. LoadedMP(m)[t] \in {ZeroNonces, NoContext} BY <1>3 DEF LoadedMP
  <2>2. Untouched(Through, t) /\ contextsMP[t] = NoContext BY <1>3, StateCounts
  <2>3. CountsMP(ZeroNonces, Through, t) BY <2>2, ZeroCounts
  <2> QED BY <2>1, <2>2, <2>3
<1> QED BY <1>1, <1>2, <1>3

(* A message that is next on all its topics has, on each, the nonce that   *)
(* its author has come to.                                                 *)
LEMMA ReadyCounts ==
    ASSUME MaskedInv, NEW m \in MsgMP, ReadyRows(m) = RowsOf(m), NEW p \in RowsOf(m)
    PROVE  /\ CountsMP(LoadedMP(m)[Stream[p].topic], Through, Stream[p].topic)
           /\ \E j \in DOMAIN Members : /\ Members[j] = Stream[p].who
                                        /\ LoadedMP(m)[Stream[p].topic][j] = Stream[p].nonce
<1> DEFINE t == Stream[p].topic
           c == LoadedMP(m)[t]
<1>1. t \in TopicMP BY DEF TopicMP, RowsOf
<1>2. Ready(m, p)
  <2>1. p \in PinMP /\ p <= p BY StreamAssumption DEF RowsOf, PinMP
  <2> QED BY <2>1 DEF ReadyRows
<1>3. p \in ReadyRows(m) /\ p \in CheckedRows(m) BY DEF CheckedRows
<1>4. CASE stateForMaskedContext(t) # NoContext
  <2>1. c = stateForMaskedContext(t) BY <1>1, <1>3, <1>4 DEF LoadedMP
  <2>2. CountsMP(c, Through, t) BY <1>1, <1>4, <2>1, StateCounts
  <2>3. checkMaskedContextReady(m, p, stateForMaskedContext(t)) BY <1>2, <1>4 DEF Ready
  <2>4. \E j \in DOMAIN Members : Members[j] = Stream[p].who /\ c[j] = Stream[p].nonce
    <3> HIDE DEF c
    <3> QED BY <2>1, <2>3 DEF checkMaskedContextReady, NextIs
  <2> QED BY <2>2, <2>4
<1>5. CASE stateForMaskedContext(t) = NoContext
  <2>1. c = ZeroNonces BY <1>1, <1>3, <1>5 DEF LoadedMP
  <2>2. CountsMP(c, Through, t) BY <1>1, <1>5, <2>1, StateCounts, ZeroCounts
  <2>3. attemptContextInit(m, p) BY <1>2, <1>5 DEF Ready
  <2>4. \E j \in DOMAIN Members : Members[j] = Stream[p].who /\ c[j] = Stream[p].nonce
    <3> HIDE DEF c
    <3> QED BY <2>1, <2>3 DEF attemptContextInit, IsMember, IsZero, ZeroNonces
  <2> QED BY <2>2, <2>4
<1> QED BY <1>4, <1>5

(* Releasing such a message keeps the order, and its author's nonces go    *)
(* on by one.                                                              *)
LEMMA ReleaseOne ==
    ASSUME MaskedInv, NEW m \in MsgMP, ReadyRows(m) = RowsOf(m), \A k \in DOMAIN Through : Through[k] # m
    PROVE  /\ OnceMP(Append(Through, m)) /\ InOrderMP(Append(Through, m))
           /\ \A p \in RowsOf(m) :
                 CountsMP(IncrementNextPin(LoadedMP(m)[Stream[p].topic], p), Append(Through, m), Stream[p].topic)
<1> DEFINE new == Append(Through, m)
           n == Len(Through) + 1
<1>1. Through \in Seq(MsgMP) BY Joined DEF Through, MaskedInv, PageInv
<1>2. /\ DOMAIN new = DOMAIN Through \cup {n} /\ n \notin DOMAIN Through
      /\ new[n] = m /\ \A k \in DOMAIN Through : new[k] = Through[k]
  BY <1>1
<1>3. OnceMP(new)
  <2>1. OnceMP(Through) BY DEF MaskedInv, ReleaseInv
  <2> HIDE DEF new, n
  <2> QED BY <1>2, <2>1 DEF OnceMP
<1>4. ASSUME NEW i \in DOMAIN Members, NEW p \in RowsOf(m), Members[i] = Stream[p].who
      PROVE  Stream[p].nonce = Cardinality(ReleasedMP(Through, Stream[p].topic, i))
  <2>1. PICK c : c = LoadedMP(m)[Stream[p].topic] OBVIOUS
  <2>r. /\ CountsMP(LoadedMP(m)[Stream[p].topic], Through, Stream[p].topic)
        /\ \E j \in DOMAIN Members : /\ Members[j] = Stream[p].who
                                     /\ LoadedMP(m)[Stream[p].topic][j] = Stream[p].nonce
    BY ReadyCounts
  <2>2. PICK j \in DOMAIN Members : Members[j] = Stream[p].who /\ c[j] = Stream[p].nonce BY <2>1, <2>r
  <2>c. CountsMP(c, Through, Stream[p].topic) BY <2>1, <2>r
  <2>3. c[j] = Cardinality(ReleasedMP(Through, Stream[p].topic, j)) BY <2>c DEF CountsMP
  <2>4. ReleasedMP(Through, Stream[p].topic, j) = ReleasedMP(Through, Stream[p].topic, i)
    BY <1>4, <2>2 DEF ReleasedMP, Touches
  <2> QED BY <2>2, <2>3, <2>4
<1>5. InOrderMP(new)
  <2> SUFFICES ASSUME NEW k \in DOMAIN new, NEW t \in TopicMP, NEW i \in DOMAIN Members,
                      NEW p \in RowsOf(new[k]) \cap RowsOfAuthor(t, Members[i])
               PROVE  Stream[p].nonce = Cardinality(ReleasedBefore(new, k, t, i))
    BY DEF InOrderMP
  <2>1. CASE k \in DOMAIN Through
    <3>1. ReleasedBefore(new, k, t, i) = ReleasedBefore(Through, k, t, i) BY <1>1, <2>1, SameBefore
    <3>2. new[k] = Through[k] BY <1>2, <2>1
    <3>3. InOrderMP(Through) BY DEF MaskedInv, ReleaseInv
    <3> HIDE DEF new
    <3> QED BY <2>1, <3>1, <3>2, <3>3 DEF InOrderMP
  <2>2. CASE k = n
    <3>1. p \in RowsOf(m) /\ Stream[p].topic = t /\ Members[i] = Stream[p].who BY <1>2, <2>2 DEF RowsOfAuthor
    <3>2. ReleasedBefore(new, n, t, i) = ReleasedMP(Through, t, i) BY <1>1, OneMoreReleased
    <3> HIDE DEF new, n
    <3> QED BY <1>4, <2>2, <3>1, <3>2
  <2> QED BY <1>2, <2>1, <2>2
<1>6. ASSUME NEW p \in RowsOf(m)
      PROVE  CountsMP(IncrementNextPin(LoadedMP(m)[Stream[p].topic], p), new, Stream[p].topic)
  <2>1. PICK c : c = LoadedMP(m)[Stream[p].topic] OBVIOUS
  <2>2. PICK t : t = Stream[p].topic OBVIOUS
  <2>r. CountsMP(LoadedMP(m)[Stream[p].topic], Through, Stream[p].topic) BY ReadyCounts
  <2>c. CountsMP(c, Through, t) BY <2>1, <2>2, <2>r
  <2>3. \A i \in DOMAIN Members : c[i] = Cardinality(ReleasedMP(Through, t, i)) BY <2>c DEF CountsMP
  <2>4. ASSUME NEW i \in DOMAIN Members
        PROVE  IncrementNextPin(c, p)[i] = Cardinality(ReleasedMP(new, t, i))
    <3>1. Touches(m, t, i) <=> Members[i] = Stream[p].who
      <4>1. \A q \in RowsOf(m) : Stream[q].topic = t => q = p BY <2>2, StreamAssumption DEF RowsOf
      <4> QED BY <2>2, <4>1 DEF Touches, RowsOfAuthor, RowsOf
    <3>2. CASE Members[i] = Stream[p].who
      <4>1. i \in NextIs(c, p) BY <1>4, <2>2, <2>3, <3>2 DEF NextIs
      <4>2. IncrementNextPin(c, p)[i] = c[i] + 1 BY <4>1 DEF IncrementNextPin
      <4>3. Cardinality(ReleasedMP(new, t, i)) = Cardinality(ReleasedMP(Through, t, i)) + 1
        BY <1>1, <3>1, <3>2, OneMoreReleased
      <4> QED BY <2>3, <4>2, <4>3
    <3>3. CASE Members[i] # Stream[p].who
      <4>1. i \notin NextIs(c, p) BY <3>3 DEF NextIs
      <4>2. IncrementNextPin(c, p)[i] = c[i] BY <4>1 DEF IncrementNextPin
      <4>3. Cardinality(ReleasedMP(new, t, i)) = Cardinality(ReleasedMP(Through, t, i))
        BY <1>1, <3>1, <3>3, OneMoreReleased
      <4> QED BY <2>3, <4>2, <4>3
    <3> QED BY <3>2, <3>3
  <2>5. IncrementNextPin(c, p) = [i \in DOMAIN Members |-> IncrementNextPin(c, p)[i]] BY DEF IncrementNextPin
  <2> HIDE DEF new
  <2> QED BY <2>1, <2>2, <2>4, <2>5 DEF CountsMP
<1> QED BY <1>3, <1>5, <1>6

(* The first row that a page has left.                                     *)
LEMMA FirstLeft == ASSUME NEW S \in SUBSET Nat, S # {} PROVE Min(S) \in S
<1>1. PICK n \in S : \A k \in S : ~(k < n)
  <2>1. IsWellFoundedOn(OpToRel(<, Nat), Nat) BY NatLessThanWellFounded
  <2>2. PICK n \in S : \A k \in S : ~(<<k, n>> \in OpToRel(<, Nat)) BY <2>1, WFMin
  <2>3. \A k \in S : k < n => <<k, n>> \in OpToRel(<, Nat) BY DEF OpToRel
  <2> QED BY <2>2, <2>3
<1>2. \A k \in S : n <= k BY <1>1
<1> QED BY <1>2 DEF Min

(* A row is of one message, and a message has rows.                        *)
LEMMA RowsBelong == /\ \A m : RowsOf(m) \subseteq PinMP
                    /\ \A m, k, p : p \in RowsOf(m) /\ p \in RowsOf(k) => m = k
                    /\ \A m \in MsgMP : RowsOf(m) # {}
                    /\ \A p \in PinMP : p \in RowsOf(Stream[p].msg) /\ Stream[p].msg \in MsgMP
  BY DEF RowsOf, MsgMP

(* Initially nothing is released.                                          *)
LEMMA MaskedInit == InitMP => MaskedInv
<1> SUFFICES ASSUME InitMP PROVE MaskedInv OBVIOUS
<1>1. eventsMP = <<>> /\ todoMP = <<>> /\ Through = <<>> BY DEF InitMP, Through
<1>2. PageInv
  <2>1. DOMAIN eventsMP = {} BY <1>1
  <2>2. doneMP = RowsThrough(eventsMP) BY <2>1 DEF InitMP, RowsThrough
  <2>3. pinsMP \in 0..Len(Stream) BY StreamAssumption DEF InitMP
  <2> QED BY <1>1, <2>2, <2>3 DEF InitMP, PageInv
<1>3. ReleaseInv
  <2>1. DOMAIN Through = {} BY <1>1
  <2> QED BY <2>1 DEF ReleaseInv, OnceMP, InOrderMP
<1>4. ContextInv
  <2>1. \A t : Untouched(eventsMP, t) /\ Untouched(todoMP, t) BY <1>1 DEF Untouched
  <2>2. \A t \in TopicMP : nextMP[t] = NoContext /\ contextsMP[t] = NoContext BY DEF InitMP, Unread
  <2>3. DOMAIN nextMP = TopicMP /\ DOMAIN contextsMP = TopicMP BY DEF InitMP, Unread
  <2> QED BY <2>1, <2>2, <2>3 DEF ContextInv
<1> QED BY <1>2, <1>3, <1>4 DEF MaskedInv

(* Pins, batches and attachments that arrive leave all that alone.         *)
LEMMA PinsKept == ASSUME MaskedInv, pinsArrive PROVE MaskedInv'
<1> DEFINE rows == RowsOf(Stream[pinsMP + 1].msg)
<1>1. pinsMP + 1 \in PinMP BY StreamAssumption DEF pinsArrive, PinMP, MaskedInv, PageInv
<1>2. rows \subseteq 1..Len(Stream) /\ rows # {} BY <1>1, RowsBelong, StreamAssumption DEF PinMP
<1>3. Max(rows) \in rows
  <2> HIDE DEF rows
  <2>1. IsFiniteSet(1..Len(Stream)) BY StreamAssumption, FS_Interval
  <2>2. IsFiniteSet(rows) BY <1>2, <2>1, FS_Subset
  <2>3. rows \subseteq Int BY <1>2, StreamAssumption
  <2> QED BY <1>2, <2>2, <2>3, MaxIsGreatest
<1>4. pinsMP' \in 0..Len(Stream)
  <2>1. pinsMP' = Max(rows) BY DEF pinsArrive
  <2> HIDE DEF rows
  <2>2. Max(rows) \in 1..Len(Stream) BY <1>2, <1>3
  <2>3. PICK n \in Nat : n = Len(Stream) BY StreamAssumption
  <2> QED BY <2>1, <2>2, <2>3
<1> HIDE DEF rows
<1>5. PageInv'
  <2>1. UNCHANGED <<doneMP, eventsMP, pageMP, leftMP, contextsMP, todoMP>> BY DEF pinsArrive, stateMP
  <2> QED BY <1>4, <2>1 DEF MaskedInv, PageInv, RowsThrough
<1>6. ReleaseInv' /\ ContextInv'
  BY DEF pinsArrive, stateMP, MaskedInv, ReleaseInv, ContextInv, Through
<1> QED BY <1>5, <1>6 DEF MaskedInv

(* A step that changes nothing the invariant is about.                     *)
LEMMA ArrivalsKept ==
    ASSUME MaskedInv, UNCHANGED <<pinsMP, doneMP, nextMP, eventsMP, pageMP, stateMP>>
    PROVE  MaskedInv'
<1>1. PageInv' BY DEF stateMP, MaskedInv, PageInv, RowsThrough
<1>2. ReleaseInv' /\ ContextInv' BY DEF stateMP, MaskedInv, ReleaseInv, ContextInv, Through
<1> QED BY <1>1, <1>2 DEF MaskedInv

(* A page that is read is of rows that are not dispatched.                 *)
LEMMA ReadKept == ASSUME MaskedInv, readPins PROVE MaskedInv'
<1>1. /\ UNCHANGED <<pinsMP, doneMP, eventsMP, nextMP, contextsMP, todoMP>> /\ leftMP' = pageMP'
      /\ todoMP = <<>> /\ contextsMP = Unread
  BY DEF readPins, tablesMP, MaskedInv, PageInv
<1>2. pageMP' \subseteq PinMP \ doneMP
  <2>1. 1..pinsMP \subseteq PinMP BY StreamAssumption DEF MaskedInv, PageInv, PinMP
  <2>2. pageMP' \subseteq {p \in 1..pinsMP : p \notin doneMP} BY DEF readPins
  <2> QED BY <2>1, <2>2
<1>3. PageInv'
  <2>1. \A k \in DOMAIN todoMP' : leftMP' \cap RowsOf(todoMP'[k]) = {} BY <1>1
  <2>2. pageMP' = {} => todoMP' = <<>> /\ contextsMP' = Unread' BY <1>1 DEF Unread
  <2> QED BY <1>1, <1>2, <2>1, <2>2 DEF MaskedInv, PageInv, RowsThrough
<1>4. ReleaseInv' /\ ContextInv' BY <1>1 DEF MaskedInv, ReleaseInv, ContextInv, Through
<1> QED BY <1>3, <1>4 DEF MaskedInv

(* A page that fails has released nothing.                                 *)
LEMMA RetryKept == ASSUME MaskedInv, retryMasked PROVE MaskedInv'
<1>1. /\ UNCHANGED <<pinsMP, doneMP, eventsMP, nextMP, pageMP>> /\ leftMP' = pageMP
      /\ todoMP' = <<>> /\ contextsMP' = Unread
  BY DEF retryMasked, tablesMP
<1>2. PageInv'
  <2>1. \A k \in DOMAIN todoMP' : leftMP' \cap RowsOf(todoMP'[k]) = {} BY <1>1
  <2>2. pageMP' = {} => todoMP' = <<>> /\ contextsMP' = Unread' BY <1>1 DEF Unread
  <2>3. todoMP' \in Seq(MsgMP) BY <1>1
  <2> QED BY <1>1, <2>1, <2>2, <2>3 DEF MaskedInv, PageInv, RowsThrough
<1>3. ReleaseInv'
  <2>1. eventsMP \in Seq(MsgMP) /\ todoMP \in Seq(MsgMP) BY DEF MaskedInv, PageInv
  <2>2. Through' = eventsMP BY <1>1, <2>1 DEF Through
  <2>3. OnceMP(eventsMP) /\ InOrderMP(eventsMP) BY <2>1, Beginning DEF MaskedInv, ReleaseInv, Through
  <2> QED BY <2>2, <2>3 DEF ReleaseInv
<1>4. ContextInv'
  <2>1. \A t \in TopicMP : contextsMP'[t] = NoContext BY <1>1 DEF Unread
  <2>2. DOMAIN contextsMP' = TopicMP BY <1>1 DEF Unread
  <2>3. \A t \in TopicMP : Untouched(todoMP', t) BY <1>1 DEF Untouched
  <2> QED BY <1>1, <2>1, <2>2, <2>3 DEF MaskedInv, ContextInv
<1> QED BY <1>2, <1>3, <1>4 DEF MaskedInv

(* A page that ends writes what it knows to the tables.                    *)
LEMMA FlushKept == ASSUME MaskedInv, flushPins PROVE MaskedInv'
<1>1. eventsMP \in Seq(MsgMP) /\ todoMP \in Seq(MsgMP) /\ leftMP = {}
  BY DEF MaskedInv, PageInv, flushPins
<1>2. /\ eventsMP' = Through /\ todoMP' = <<>> /\ contextsMP' = Unread /\ pageMP' = {}
      /\ leftMP' = {} /\ pinsMP' = pinsMP /\ doneMP' = doneMP \cup RowsThrough(todoMP)
  BY <1>1 DEF flushPins, Through, RowsThrough
<1>3. Through \in Seq(MsgMP) BY <1>1, Joined DEF Through
<1>4. Through' = Through BY <1>2, <1>3 DEF Through
<1>5. doneMP' = RowsThrough(Through)
  <2>1. doneMP = RowsThrough(eventsMP) BY DEF MaskedInv, PageInv
  <2>2. /\ \A k \in DOMAIN eventsMP : k \in DOMAIN Through /\ Through[k] = eventsMP[k]
        /\ \A k \in DOMAIN todoMP : Len(eventsMP) + k \in DOMAIN Through /\ Through[Len(eventsMP) + k] = todoMP[k]
        /\ \A k \in DOMAIN Through : \/ k \in DOMAIN eventsMP
                                     \/ k - Len(eventsMP) \in DOMAIN todoMP /\ Through[k] = todoMP[k - Len(eventsMP)]
    BY <1>1, Joined DEF Through
  <2>3. \A p : p \in RowsThrough(Through) => p \in RowsThrough(eventsMP) \/ p \in RowsThrough(todoMP)
    BY <2>2 DEF RowsThrough
  <2>4. \A p : p \in RowsThrough(eventsMP) \/ p \in RowsThrough(todoMP) => p \in RowsThrough(Through)
    BY <2>2 DEF RowsThrough
  <2> QED BY <1>2, <2>1, <2>3, <2>4
<1>6. PageInv'
  <2>1. doneMP' = RowsThrough(eventsMP') BY <1>2, <1>5
  <2>2. todoMP' \in Seq(MsgMP) /\ DOMAIN todoMP' = {} BY <1>2
  <2> QED BY <1>2, <1>3, <2>1, <2>2 DEF MaskedInv, PageInv, Unread, RowsThrough
<1>7. ReleaseInv' BY <1>4 DEF MaskedInv, ReleaseInv
<1>8. ContextInv'
  <2>1. \A t \in TopicMP : nextMP'[t] = stateForMaskedContext(t) BY DEF flushPins, stateForMaskedContext
  <2>2. DOMAIN nextMP' = TopicMP BY DEF flushPins
  <2>3. \A t \in TopicMP : IF nextMP'[t] # NoContext THEN CountsMP(nextMP'[t], eventsMP', t)
                                                     ELSE Untouched(eventsMP', t)
    BY <1>2, <2>1, StateCounts
  <2>4. \A t \in TopicMP : contextsMP'[t] = NoContext BY <1>2 DEF Unread
  <2>5. DOMAIN contextsMP' = TopicMP BY <1>2 DEF Unread
  <2>6. \A t \in TopicMP : Untouched(todoMP', t) BY <1>2 DEF Untouched
  <2> QED BY <2>2, <2>3, <2>4, <2>5, <2>6 DEF ContextInv
<1> QED BY <1>6, <1>7, <1>8 DEF MaskedInv

(* A message with nothing on a topic leaves what is counted there alone.   *)
LEMMA CountsElsewhere ==
    ASSUME NEW seq \in Seq(MsgMP), NEW m \in MsgMP, NEW t, \A p \in RowsOf(m) : Stream[p].topic # t
    PROVE  /\ \A c : CountsMP(c, seq, t) => CountsMP(c, Append(seq, m), t)
           /\ Untouched(seq, t) => Untouched(Append(seq, m), t)
<1>1. ASSUME NEW i PROVE ~Touches(m, t, i) BY DEF Touches, RowsOfAuthor
<1>2. ASSUME NEW i PROVE Cardinality(ReleasedMP(Append(seq, m), t, i)) = Cardinality(ReleasedMP(seq, t, i))
  BY <1>1, OneMoreReleased
<1>3. \A c : CountsMP(c, seq, t) => CountsMP(c, Append(seq, m), t) BY <1>2 DEF CountsMP
<1>4. \A k \in DOMAIN Append(seq, m) : (k \in DOMAIN seq /\ Append(seq, m)[k] = seq[k]) \/ Append(seq, m)[k] = m
  OBVIOUS
<1>5. Untouched(seq, t) => Untouched(Append(seq, m), t) BY <1>1, <1>4 DEF Untouched
<1> QED BY <1>3, <1>5

(* A context without an entry is that of a group without members.          *)
LEMMA NoMemberUntouched ==
    ASSUME NEW c, NEW p, IncrementNextPin(c, p) = NoContext, NEW seq, NEW t
    PROVE  Untouched(seq, t)
<1>1. DOMAIN IncrementNextPin(c, p) = DOMAIN Members BY DEF IncrementNextPin
<1>2. DOMAIN Members = {} BY <1>1 DEF NoContext
<1> QED BY <1>2 DEF Untouched

(* The message at hand is in no page before, and new in its own.           *)
LEMMA AtHandNew ==
    ASSUME MaskedInv, processMasked
    PROVE  /\ Min(leftMP) \in leftMP /\ Stream[Min(leftMP)].msg \in MsgMP
           /\ \A k \in DOMAIN Through : Through[k] # Stream[Min(leftMP)].msg
<1> DEFINE p == Min(leftMP)
<1>1. leftMP \subseteq Nat /\ leftMP \subseteq PinMP \ doneMP
  BY StreamAssumption DEF MaskedInv, PageInv, PinMP
<1>2. p \in leftMP BY <1>1, FirstLeft DEF processMasked
<1> HIDE DEF p
<1>3. p \in PinMP /\ p \notin doneMP BY <1>1, <1>2
<1>4. p \in RowsOf(Stream[p].msg) /\ Stream[p].msg \in MsgMP BY <1>3, RowsBelong
<1>5. \A k \in DOMAIN eventsMP : eventsMP[k] # Stream[p].msg
  <2>1. doneMP = RowsThrough(eventsMP) BY DEF MaskedInv, PageInv
  <2> QED BY <1>3, <1>4, <2>1 DEF RowsThrough
<1>6. \A k \in DOMAIN todoMP : todoMP[k] # Stream[p].msg BY <1>2, <1>4 DEF MaskedInv, PageInv
<1>7. eventsMP \in Seq(MsgMP) /\ todoMP \in Seq(MsgMP) BY DEF MaskedInv, PageInv
<1>8. \A k \in DOMAIN Through : Through[k] # Stream[p].msg BY <1>5, <1>6, <1>7, Joined DEF Through
<1> QED BY <1>2, <1>4, <1>8 DEF p

(* A message is released, or it leaves the contexts it has loaded.         *)
LEMMA ProcessKept == ASSUME MaskedInv, processMasked PROVE MaskedInv'
<1>0. PICK m : m = Stream[Min(leftMP)].msg OBVIOUS
<1>1. m \in MsgMP /\ \A k \in DOMAIN Through : Through[k] # m BY <1>0, AtHandNew
<1>2. UNCHANGED <<pinsMP, doneMP, nextMP, eventsMP, pageMP>> /\ leftMP' = leftMP \ RowsOf(m) /\ pageMP # {}
  BY <1>0 DEF processMasked
<1>3. eventsMP \in Seq(MsgMP) /\ todoMP \in Seq(MsgMP) /\ Through \in Seq(MsgMP)
  BY Joined DEF Through, MaskedInv, PageInv
<1>4. CASE todoMP' = todoMP /\ contextsMP' \in {contextsMP, LoadedMP(m)}
  <2>1. PageInv' BY <1>2, <1>4 DEF MaskedInv, PageInv, RowsThrough
  <2>2. Through' = Through BY <1>2, <1>4 DEF Through
  <2>3. ReleaseInv' BY <2>2 DEF MaskedInv, ReleaseInv
  <2>4. DOMAIN contextsMP' = TopicMP BY <1>4 DEF MaskedInv, ContextInv, LoadedMP
  <2>5. ASSUME NEW t \in TopicMP
        PROVE  IF contextsMP'[t] # NoContext THEN CountsMP(contextsMP'[t], Through, t) ELSE Untouched(todoMP, t)
    <3>1. CASE contextsMP' = contextsMP BY <3>1 DEF MaskedInv, ContextInv
    <3>2. CASE contextsMP' = LoadedMP(m)
      <4>1. IF LoadedMP(m)[t] # NoContext THEN CountsMP(LoadedMP(m)[t], Through, t) ELSE contextsMP[t] = NoContext
        BY LoadedCounts
      <4>2. contextsMP[t] = NoContext => Untouched(todoMP, t) BY DEF MaskedInv, ContextInv
      <4> QED BY <3>2, <4>1, <4>2
    <3> QED BY <1>4, <3>1, <3>2
  <2>6. ContextInv' BY <1>2, <1>4, <2>2, <2>4, <2>5 DEF MaskedInv, ContextInv
  <2> QED BY <2>1, <2>3, <2>6 DEF MaskedInv
<1>5. CASE /\ ReadyRows(m) = RowsOf(m) /\ todoMP' = Append(todoMP, m)
           /\ contextsMP' = [t \in TopicMP |->
                IF \E p \in RowsOf(m) : Stream[p].topic = t
                THEN IncrementNextPin(LoadedMP(m)[t], CHOOSE p \in RowsOf(m) : Stream[p].topic = t)
                ELSE LoadedMP(m)[t]]
  <2>1. Through' = Append(Through, m) BY <1>1, <1>2, <1>3, <1>5 DEF Through
  <2>2. /\ OnceMP(Append(Through, m)) /\ InOrderMP(Append(Through, m))
        /\ \A p \in RowsOf(m) :
              CountsMP(IncrementNextPin(LoadedMP(m)[Stream[p].topic], p), Append(Through, m), Stream[p].topic)
    BY <1>1, <1>5, ReleaseOne
  <2>3. ReleaseInv' BY <2>1, <2>2 DEF ReleaseInv
  <2>4. PageInv'
    <3>1. todoMP' \in Seq(MsgMP) BY <1>1, <1>3, <1>5
    <3>2. \A k \in DOMAIN todoMP' : (k \in DOMAIN todoMP /\ todoMP'[k] = todoMP[k]) \/ todoMP'[k] = m
      BY <1>3, <1>5
    <3>3. \A k \in DOMAIN todoMP' : leftMP' \cap RowsOf(todoMP'[k]) = {}
      BY <1>2, <3>2 DEF MaskedInv, PageInv
    <3> QED BY <1>2, <3>1, <3>3 DEF MaskedInv, PageInv, RowsThrough
  <2>5. ASSUME NEW t \in TopicMP
        PROVE  IF contextsMP'[t] # NoContext THEN CountsMP(contextsMP'[t], Append(Through, m), t)
               ELSE Untouched(Append(todoMP, m), t)
    <3>1. CASE \E p \in RowsOf(m) : Stream[p].topic = t
      <4>1. PICK q : q = (CHOOSE p \in RowsOf(m) : Stream[p].topic = t) OBVIOUS
      <4>2. q \in RowsOf(m) /\ Stream[q].topic = t BY <3>1, <4>1
      <4>3. contextsMP'[t] = IncrementNextPin(LoadedMP(m)[t], q) BY <1>5, <3>1, <4>1
      <4>4. CountsMP(contextsMP'[t], Append(Through, m), t) BY <2>2, <4>2, <4>3
      <4>5. contextsMP'[t] = NoContext => Untouched(Append(todoMP, m), t) BY <4>3, NoMemberUntouched
      <4> QED BY <4>4, <4>5
    <3>2. CASE ~\E p \in RowsOf(m) : Stream[p].topic = t
      <4>1. contextsMP'[t] = LoadedMP(m)[t] BY <1>5, <3>2
      <4>2. IF LoadedMP(m)[t] # NoContext THEN CountsMP(LoadedMP(m)[t], Through, t) ELSE contextsMP[t] = NoContext
        BY LoadedCounts
      <4>3. contextsMP[t] = NoContext => Untouched(todoMP, t) BY DEF MaskedInv, ContextInv
      <4>4. \A c : CountsMP(c, Through, t) => CountsMP(c, Append(Through, m), t)
        BY <1>1, <1>3, <3>2, CountsElsewhere
      <4>5. Untouched(todoMP, t) => Untouched(Append(todoMP, m), t) BY <1>1, <1>3, <3>2, CountsElsewhere
      <4> QED BY <4>1, <4>2, <4>3, <4>4, <4>5
    <3> QED BY <3>1, <3>2
  <2>6. ContextInv'
    <3>1. DOMAIN contextsMP' = TopicMP BY <1>5
    <3> QED BY <1>2, <1>5, <2>1, <2>5, <3>1 DEF MaskedInv, ContextInv
  <2> QED BY <2>3, <2>4, <2>6 DEF MaskedInv
<1> QED BY <1>0, <1>4, <1>5 DEF processMasked

(* Every step that the node takes keeps all that.                          *)
LEMMA MaskedStep == ASSUME MaskedInv, [NextMP]_varsMP PROVE MaskedInv'
<1>1. CASE pinsArrive BY <1>1, PinsKept
<1>2. CASE readPins BY <1>2, ReadKept
<1>3. CASE processMasked BY <1>3, ProcessKept
<1>4. CASE flushPins BY <1>4, FlushKept
<1>5. CASE retryMasked BY <1>5, RetryKept
<1>6. CASE \E m \in MsgMP : batchArrives(m) \/ blobArrives(m)
  <2>1. UNCHANGED <<pinsMP, doneMP, nextMP, eventsMP, pageMP, stateMP>> BY <1>6 DEF batchArrives, blobArrives
  <2> QED BY <2>1, ArrivalsKept
<1>7. CASE UNCHANGED varsMP
  <2>1. UNCHANGED <<pinsMP, doneMP, nextMP, eventsMP, pageMP, stateMP>> BY <1>7 DEF varsMP, tablesMP
  <2> QED BY <2>1, ArrivalsKept
<1> QED BY <1>1, <1>2, <1>3, <1>4, <1>5, <1>6, <1>7 DEF NextMP

(* The events and the tables of the database are in order.                 *)
LEMMA MaskedSafe == ASSUME MaskedInv PROVE AuthorOrder /\ NextPinsExact
<1>1. eventsMP \in Seq(MsgMP) /\ todoMP \in Seq(MsgMP) /\ doneMP = RowsThrough(eventsMP)
  BY DEF MaskedInv, PageInv
<1>2. OnceMP(eventsMP) /\ InOrderMP(eventsMP) BY <1>1, Beginning DEF MaskedInv, ReleaseInv, Through
<1>3. ASSUME NEW t \in TopicMP, NEW i \in DOMAIN Members, NEW k \in DOMAIN NoncesSeen(t, Members[i])
      PROVE  /\ NoncesSeen(t, Members[i])[k] = Cardinality(ReleasedBefore(eventsMP, k, t, i))
             /\ {j \in DOMAIN NoncesSeen(t, Members[i]) : j < k} = ReleasedBefore(eventsMP, k, t, i)
  <2>1. DOMAIN NoncesSeen(t, Members[i]) = {j \in DOMAIN eventsMP : Touches(eventsMP[j], t, i)}
    BY DEF NoncesSeen, Touches
  <2>2. {j \in DOMAIN NoncesSeen(t, Members[i]) : j < k} = ReleasedBefore(eventsMP, k, t, i)
    BY <2>1 DEF ReleasedBefore
  <2>3. k \in DOMAIN eventsMP /\ Touches(eventsMP[k], t, i) BY <2>1
  <2>4. PICK p : p = (CHOOSE q \in RowsOf(eventsMP[k]) : q \in RowsOfAuthor(t, Members[i])) OBVIOUS
  <2>5. p \in RowsOf(eventsMP[k]) \cap RowsOfAuthor(t, Members[i]) BY <2>3, <2>4 DEF Touches
  <2>6. NoncesSeen(t, Members[i])[k] = Stream[p].nonce BY <2>1, <2>4 DEF NoncesSeen
  <2>7. Stream[p].nonce = Cardinality(ReleasedBefore(eventsMP, k, t, i)) BY <1>2, <2>3, <2>5 DEF InOrderMP
  <2> QED BY <2>2, <2>6, <2>7
<1>4. AuthorOrder BY <1>3 DEF AuthorOrder
<1>5. ASSUME NEW t \in TopicMP, nextMP[t] # NoContext, NEW i \in DOMAIN Members
      PROVE  nextMP[t][i] = Cardinality(doneMP \cap RowsOfAuthor(t, Members[i]))
  <2>1. CountsMP(nextMP[t], eventsMP, t) BY <1>5 DEF MaskedInv, ContextInv
  <2>2. nextMP[t][i] = Cardinality(ReleasedMP(eventsMP, t, i)) BY <2>1 DEF CountsMP
  <2> QED BY <1>1, <1>2, <2>2, RowsCounted
<1>6. NextPinsExact BY <1>5 DEF NextPinsExact
<1> QED BY <1>4, <1>6

(* Private messages of one author on a topic are dispatched in the order   *)
(* of the author's nonces, each once and without a gap, and the nextpins   *)
(* rows count what has been dispatched (aggregator_batch_state.go), for    *)
(* any stream of pins, members, page size and failures.                    *)
THEOREM PrivateKept == Spec => []PrivateOrder
<1>1. Init => MaskedInv BY InboundInits, MaskedInit
<1>2. MaskedInv /\ [Next]_varsNode => MaskedInv' BY InboundSteps, MaskedStep
<1>3. MaskedInv => PrivateOrder BY MaskedSafe DEF PrivateOrder
<1> QED BY <1>1, <1>2, <1>3, PTL DEF Spec

---------------------------------------------------------------------------
(* Events of the data exchange and batches of shared storage *)

(* A batch that is valid is stored by its handler before it is reported,   *)
(* and what is stored stays.                                               *)
IsBatch(e) == Kind(e) \in {"pinned", "unpinned", "shared"}
StoredBatch(e) ==
    /\ Item(e) \in batchesIN
    /\ \A m \in Msgs(Item(e)) : msgsIN[m] # "none"
    /\ Kind(e) = "unpinned" => \A m \in Msgs(Item(e)) : confirmedIN[m] > 0
Reported(e, manifest) ==
    IsBatch(e) => IF Fault(e) = "parse" THEN manifest = "none"
                  ELSE manifest = Manifest(e) /\ (Valid(e) => StoredBatch(e))
RewindNoted(b) == b \in rewindsIN \/ \A m \in Msgs(b) : confirmedIN[m] > 0
HandlerOK(h) ==
    /\ h[1] \in EvIN /\ h[2] \in {"persist", "rewind", "ack"}
    /\ Kind(h[1]) = "blob" => Fault(h[1]) # "none"
    /\ h[2] # "ack" => IsBatch(h[1]) /\ Fault(h[1]) # "parse"
    /\ h[2] # "persist" => Reported(h[1], h[3])
    /\ h[2] = "ack" /\ h[3] = "manifest" /\ Kind(h[1]) = "pinned" => RewindNoted(Item(h[1]))
EventAcked(e) ==
    wireIN[e] = "acked" =>
        IF Kind(e) = "blob" THEN Fault(e) = "none" => Item(e) \in blobsIN ELSE Reported(e, toldIN[e])

(* Blobs: the loop and the workers hold sound ones, stored when they say   *)
(* so, and before the first fault none is forgotten.                       *)
SoundBlob(e) == e \in EvIN /\ Kind(e) = "blob" /\ Fault(e) = "none"
WorkersOK ==
    /\ loopIN # NoEvent => SoundBlob(loopIN)
    /\ \A w \in WorkerIN : \A e \in collectIN[w] : SoundBlob(e) /\ (savedIN[w] # "no" => Item(e) \in blobsIN)
BlobsKnown ==
    faultsIN = 0 => \A x \in blobsIN : /\ x \notin DOMAIN MsgsIN
                                       /\ x \in rewindsIN \/ \E w \in WorkerIN : \E f \in collectIN[w] : Item(f) = x
ShapesIN ==
    /\ DOMAIN wireIN = EvIN /\ DOMAIN toldIN = EvIN /\ DOMAIN msgsIN = AllMsgs
    /\ DOMAIN collectIN = WorkerIN /\ DOMAIN savedIN = WorkerIN
    /\ confirmedIN \in [AllMsgs -> Nat] /\ faultsIN \in Nat
LinkInv == (linkIN => initIN) /\ PeersKnown
ReceiveInv == /\ ShapesIN /\ WorkersOK /\ BlobsKnown
              /\ \A h \in runIN : HandlerOK(h)
              /\ \A e \in EvIN : EventAcked(e)

(* Nothing has been stored or told at the start.                           *)
LEMMA ReceiveInit == InitIN => ReceiveInv /\ LinkInv
<1> SUFFICES ASSUME InitIN PROVE ReceiveInv /\ LinkInv OBVIOUS
<1>1. ShapesIN BY DEF InitIN, ShapesIN
<1>2. WorkersOK BY DEF InitIN, WorkersOK
<1>3. BlobsKnown BY DEF InitIN, BlobsKnown
<1>4. \A h \in runIN : HandlerOK(h) BY DEF InitIN
<1>5. \A e \in EvIN : wireIN[e] # "acked" BY DEF InitIN
<1> QED BY <1>1, <1>2, <1>3, <1>4, <1>5 DEF InitIN, ReceiveInv, LinkInv, PeersKnown, EventAcked

(* The peers of the service.                                               *)
LEMMA LinkStep == ASSUME LinkInv, faultsIN \in Nat, [NextIN]_varsIN PROVE LinkInv'
<1>1. CASE beforeConnect BY <1>1 DEF beforeConnect, LinkInv, PeersKnown
<1>2. CASE \E n \in Peers : AddNode(n) BY <1>2 DEF AddNode, LinkInv, PeersKnown
<1>3. CASE serviceRestarts BY <1>3 DEF serviceRestarts, LinkInv, PeersKnown
<1>4. CASE crashIN BY <1>4 DEF crashIN, LinkInv, PeersKnown
<1>5. CASE UNCHANGED dxIN /\ (faultsIN' = faultsIN \/ Faulty) BY <1>5 DEF dxIN, LinkInv, PeersKnown
<1>6. ASSUME NEW e \in EvIN, dispatchEvent(e) \/ SharedStorageBatchDownloaded(e)
      PROVE  UNCHANGED dxIN /\ faultsIN' = faultsIN
  BY <1>6 DEF dispatchEvent, SharedStorageBatchDownloaded
<1>7. ASSUME NEW h \in runIN, privateBatchReceived(h) \/ persistFails(h) \/ queueBatchRewind(h) \/ AckWithManifest(h)
      PROVE  UNCHANGED dxIN /\ (faultsIN' = faultsIN \/ Faulty)
  BY <1>7 DEF privateBatchReceived, persistFails, queueBatchRewind, AckWithManifest
<1>8. ASSUME NEW w \in WorkerIN, blobReceived(w) \/ insertNewBlobs(w) \/ onComplete(w) \/ queueBlobRewind(w)
      PROVE  UNCHANGED dxIN /\ (faultsIN' = faultsIN \/ Faulty)
  BY <1>8 DEF blobReceived, insertNewBlobs, onComplete, queueBlobRewind
<1>9. ASSUME NEW b, aggregate(b) PROVE UNCHANGED dxIN /\ faultsIN' = faultsIN BY <1>9 DEF aggregate
<1>10. ASSUME UNCHANGED varsIN PROVE UNCHANGED dxIN /\ faultsIN' = faultsIN BY <1>10 DEF varsIN
<1> QED BY <1>1, <1>2, <1>3, <1>4, <1>5, <1>6, <1>7, <1>8, <1>9, <1>10 DEF NextIN

(* What is stored and confirmed only grows, and what has been reported or  *)
(* told to the aggregator stays so.                                        *)
Grows ==
    /\ batchesIN \subseteq batchesIN'
    /\ \A m \in AllMsgs : msgsIN[m] # "none" => msgsIN'[m] # "none"
    /\ \A m \in AllMsgs : confirmedIN[m] > 0 => confirmedIN'[m] > 0

LEMMA ReportKept == ASSUME Grows, NEW e \in EvIN, NEW manifest, Reported(e, manifest) PROVE Reported(e, manifest)'
<1>1. CASE IsBatch(e)
  <2>1. Item(e) \in DOMAIN MsgsIN BY <1>1, InboundAssumption DEF IsBatch
  <2>2. Msgs(Item(e)) \subseteq AllMsgs BY <2>1 DEF AllMsgs
  <2>3. StoredBatch(e) => StoredBatch(e)' BY <2>2 DEF StoredBatch, Grows
  <2> QED BY <2>3 DEF Reported
<1>2. CASE ~IsBatch(e) BY <1>2 DEF Reported
<1> QED BY <1>1, <1>2

LEMMA HandlerKept ==
    ASSUME Grows, NEW h, HandlerOK(h), \A b \in DOMAIN MsgsIN : RewindNoted(b) => RewindNoted(b)'
    PROVE  HandlerOK(h)'
<1>1. h[1] \in EvIN BY DEF HandlerOK
<1>4. Kind(h[1]) = "pinned" => Item(h[1]) \in DOMAIN MsgsIN BY <1>1, InboundAssumption
<1>2. Reported(h[1], h[3]) => Reported(h[1], h[3])' BY <1>1, ReportKept
<1>3. Kind(h[1]) = "pinned" => (RewindNoted(Item(h[1])) => RewindNoted(Item(h[1]))')
  <2>1. PICK b : b = Item(h[1]) OBVIOUS
  <2>2. Kind(h[1]) = "pinned" => (RewindNoted(b) => RewindNoted(b)') BY <1>4, <2>1
  <2> QED BY <2>1, <2>2 DEF RewindNoted
<1> QED BY <1>2, <1>3 DEF HandlerOK

LEMMA AckKept ==
    ASSUME Grows, NEW e \in EvIN, EventAcked(e), blobsIN \subseteq blobsIN',
           wireIN'[e] = "acked" => wireIN[e] = "acked" /\ toldIN'[e] = toldIN[e]
    PROVE  EventAcked(e)'
<1>1. PICK x : x = toldIN[e] OBVIOUS
<1>2. CASE wireIN'[e] = "acked"
  <2>1. wireIN[e] = "acked" /\ toldIN'[e] = x BY <1>1, <1>2
  <2>2. CASE Kind(e) = "blob" BY <2>1, <2>2 DEF EventAcked
  <2>3. CASE Kind(e) # "blob"
    <3>1. Reported(e, x) BY <1>1, <2>1, <2>3 DEF EventAcked
    <3>2. Reported(e, x)' BY <3>1, ReportKept
    <3> QED BY <2>1, <2>3, <3>2 DEF EventAcked
  <2> QED BY <2>2, <2>3
<1>3. CASE wireIN'[e] # "acked" BY <1>3 DEF EventAcked
<1> QED BY <1>2, <1>3

(* What a step owes: the rest is kept.                                     *)
LEMMA ReceiveKept ==
    ASSUME ReceiveInv, Grows, blobsIN \subseteq blobsIN', ShapesIN', WorkersOK', BlobsKnown',
           runIN' = {} \/ \A b \in DOMAIN MsgsIN : RewindNoted(b) => RewindNoted(b)',
           \A h \in runIN' : h \in runIN \/ HandlerOK(h)',
           \A e \in EvIN : wireIN'[e] = "acked" =>
               (wireIN[e] = "acked" /\ toldIN'[e] = toldIN[e]) \/ EventAcked(e)'
    PROVE  ReceiveInv'
<1>1. ASSUME NEW h \in runIN' PROVE HandlerOK(h)'
  <2>1. CASE h \in runIN
    <3>1. HandlerOK(h) BY <2>1 DEF ReceiveInv
    <3>2. \A b \in DOMAIN MsgsIN : RewindNoted(b) => RewindNoted(b)' BY <1>1
    <3> QED BY <3>1, <3>2, HandlerKept
  <2> QED BY <1>1, <2>1
<1>2. ASSUME NEW e \in EvIN PROVE EventAcked(e)'
  <2>1. CASE EventAcked(e)' BY <2>1
  <2>2. CASE wireIN'[e] = "acked" => wireIN[e] = "acked" /\ toldIN'[e] = toldIN[e]
    <3>1. EventAcked(e) BY DEF ReceiveInv
    <3> QED BY <2>2, <3>1, AckKept
  <2> QED BY <2>1, <2>2
<1> QED BY <1>1, <1>2 DEF ReceiveInv

(* The connection, and what fails or waits: nothing is stored or told.     *)
LEMMA QuietKept ==
    ASSUME ReceiveInv, UNCHANGED <<toldIN, runIN, workIN, tablesIN, rewindsIN>>, DOMAIN wireIN' = EvIN,
           \A e \in EvIN : wireIN'[e] = "acked" => wireIN[e] = "acked",
           faultsIN' \in Nat, faultsIN' = 0 => faultsIN = 0
    PROVE  ReceiveInv'
<1>1. UNCHANGED <<loopIN, collectIN, savedIN, batchesIN, msgsIN, blobsIN, confirmedIN>> BY DEF workIN, tablesIN
<1>2. Grows /\ blobsIN \subseteq blobsIN' BY <1>1 DEF Grows
<1>3. ShapesIN' BY <1>1 DEF ReceiveInv, ShapesIN
<1>4. WorkersOK' BY <1>1 DEF ReceiveInv, WorkersOK
<1>5. BlobsKnown' BY <1>1 DEF ReceiveInv, BlobsKnown
<1>6. \A b \in DOMAIN MsgsIN : RewindNoted(b) => RewindNoted(b)' BY <1>1 DEF RewindNoted
<1> QED BY <1>2, <1>3, <1>4, <1>5, <1>6, ReceiveKept

(* A crash: what was in memory is gone, and was not owed to the service.   *)
LEMMA CrashKept == ASSUME ReceiveInv, crashIN PROVE ReceiveInv'
<1>1. /\ runIN' = {} /\ UNCHANGED <<toldIN, batchesIN, msgsIN, blobsIN, confirmedIN>>
      /\ loopIN' = NoEvent /\ collectIN' = [w \in WorkerIN |-> {}] /\ savedIN' = [w \in WorkerIN |-> "no"]
  BY DEF crashIN, tablesIN
<1>2. faultsIN \in Nat /\ faultsIN' = faultsIN + 1 BY DEF crashIN, Faulty, ReceiveInv, ShapesIN
<1>3. Grows /\ blobsIN \subseteq blobsIN' BY <1>1 DEF Grows
<1>4. DOMAIN wireIN' = EvIN /\ \A e \in EvIN : wireIN'[e] = "acked" => wireIN[e] = "acked" BY DEF crashIN
<1>5. ShapesIN' BY <1>1, <1>2, <1>4 DEF ReceiveInv, ShapesIN
<1>6. WorkersOK' BY <1>1 DEF WorkersOK
<1>7. BlobsKnown' BY <1>2 DEF BlobsKnown
<1> QED BY <1>1, <1>3, <1>4, <1>5, <1>6, <1>7, ReceiveKept

(* A handler starts, or its batch is acknowledged: nothing is stored.      *)
LEMMA HandledKept ==
    ASSUME ReceiveInv, UNCHANGED <<collectIN, savedIN, tablesIN, rewindsIN, faultsIN>>,
           DOMAIN wireIN' = EvIN, DOMAIN toldIN' = EvIN,
           loopIN' # NoEvent => SoundBlob(loopIN'),
           \A h \in runIN' : h \in runIN \/ HandlerOK(h)',
           \A e \in EvIN : wireIN'[e] = "acked" =>
               (wireIN[e] = "acked" /\ toldIN'[e] = toldIN[e]) \/ EventAcked(e)'
    PROVE  ReceiveInv'
<1>1. UNCHANGED <<batchesIN, msgsIN, blobsIN, confirmedIN>> BY DEF tablesIN
<1>2. Grows /\ blobsIN \subseteq blobsIN' BY <1>1 DEF Grows
<1>3. ShapesIN' BY <1>1 DEF ReceiveInv, ShapesIN
<1>4. WorkersOK' BY <1>1 DEF ReceiveInv, WorkersOK
<1>5. BlobsKnown' BY <1>1 DEF ReceiveInv, BlobsKnown
<1>6. \A b \in DOMAIN MsgsIN : RewindNoted(b) => RewindNoted(b)' BY <1>1 DEF RewindNoted
<1> QED BY <1>2, <1>3, <1>4, <1>5, <1>6, ReceiveKept

(* Only a sound blob is left to the workers.                               *)
LEMMA DispatchKept == ASSUME ReceiveInv, NEW e \in EvIN, dispatchEvent(e) PROVE ReceiveInv'
<1>1. /\ UNCHANGED <<toldIN, collectIN, savedIN, tablesIN, rewindsIN, faultsIN>>
      /\ DOMAIN wireIN' = EvIN /\ DOMAIN toldIN' = EvIN
      /\ \A f \in EvIN : wireIN'[f] = "acked" => wireIN[f] = "acked"
  BY DEF dispatchEvent, ReceiveInv, ShapesIN
<1>2. loopIN' # NoEvent => SoundBlob(loopIN') BY DEF dispatchEvent, SoundBlob
<1>3. ASSUME NEW h \in runIN', h \notin runIN PROVE HandlerOK(h)'
  <2>1. CASE Dropped(e)
    <3>1. runIN' = runIN \cup {Handler(e, "ack", "none")} BY <2>1 DEF dispatchEvent
    <3>2. h[1] = e /\ h[2] = "ack" /\ h[3] = "none" BY <1>3, <3>1 DEF Handler
    <3>3. IsBatch(e) => Fault(e) = "parse" BY <2>1 DEF Dropped, IsBatch
    <3>4. Kind(e) = "blob" => Fault(e) # "none" BY <2>1 DEF Dropped
    <3> QED BY <3>2, <3>3, <3>4 DEF HandlerOK, Reported
  <2>2. CASE ~Dropped(e)
    <3>1. runIN' = runIN \cup (IF Kind(e) # "blob" THEN {Handler(e, "persist", "none")} ELSE {})
      BY <2>2 DEF dispatchEvent
    <3>2. h[1] = e /\ h[2] = "persist" /\ Kind(e) # "blob" BY <1>3, <3>1 DEF Handler
    <3>3. IsBatch(e) /\ Fault(e) # "parse" BY <2>2, <3>2, InboundAssumption DEF Dropped, IsBatch
    <3> QED BY <3>2, <3>3 DEF HandlerOK
  <2> QED BY <2>1, <2>2
<1> QED BY <1>1, <1>2, <1>3, HandledKept

LEMMA SharedKept == ASSUME ReceiveInv, NEW e \in EvIN, SharedStorageBatchDownloaded(e) PROVE ReceiveInv'
<1>1. /\ UNCHANGED <<toldIN, loopIN, collectIN, savedIN, tablesIN, rewindsIN, faultsIN>>
      /\ DOMAIN wireIN' = EvIN /\ DOMAIN toldIN' = EvIN
      /\ \A f \in EvIN : wireIN'[f] = "acked" => wireIN[f] = "acked"
  BY DEF SharedStorageBatchDownloaded, ReceiveInv, ShapesIN, workIN
<1>2. loopIN' # NoEvent => SoundBlob(loopIN') BY <1>1 DEF ReceiveInv, WorkersOK
<1>3. ASSUME NEW h \in runIN', h \notin runIN PROVE HandlerOK(h)'
  <2>1. h[1] = e /\ h[2] = "persist" BY <1>3 DEF SharedStorageBatchDownloaded, Handler
  <2>2. Kind(e) = "shared" /\ Fault(e) # "parse" BY InboundAssumption DEF SharedStorageBatchDownloaded
  <2> QED BY <2>1, <2>2 DEF HandlerOK, IsBatch
<1> QED BY <1>1, <1>2, <1>3, HandledKept

(* The service is told what the handler has found.                         *)
LEMMA ToldKept == ASSUME ReceiveInv, NEW h \in runIN, AckWithManifest(h) PROVE ReceiveInv'
<1>0. PICK e, manifest : e = h[1] /\ manifest = h[3] OBVIOUS
<1>1. /\ UNCHANGED <<loopIN, collectIN, savedIN, tablesIN, rewindsIN, faultsIN>> /\ runIN' \subseteq runIN
      /\ Told(e, manifest) /\ h[2] = "ack"
  BY <1>0 DEF AckWithManifest, workIN
<1>2. DOMAIN wireIN' = EvIN /\ DOMAIN toldIN' = EvIN BY <1>1 DEF Told, ReceiveInv, ShapesIN
<1>3. loopIN' # NoEvent => SoundBlob(loopIN') BY <1>1 DEF ReceiveInv, WorkersOK
<1>4. HandlerOK(h) BY DEF ReceiveInv
<1>5. e \in EvIN /\ Reported(e, manifest) /\ (Kind(e) = "blob" => Fault(e) # "none")
  BY <1>0, <1>1, <1>4 DEF HandlerOK
<1>6. Reported(e, manifest)' BY <1>1, <1>5 DEF Reported, StoredBatch, tablesIN
<1>7. ASSUME NEW f \in EvIN, wireIN'[f] = "acked"
      PROVE  (wireIN[f] = "acked" /\ toldIN'[f] = toldIN[f]) \/ EventAcked(f)'
  <2>1. CASE linkIN \/ Kind(e) = "shared"
    <3>1. wireIN' = [wireIN EXCEPT ![e] = "acked"] /\ toldIN' = [toldIN EXCEPT ![e] = manifest]
      BY <1>1, <2>1 DEF Told
    <3>2. CASE f # e BY <1>7, <3>1, <3>2 DEF ReceiveInv, ShapesIN
    <3>3. CASE f = e
      <4>1. toldIN'[f] = manifest BY <1>5, <3>1, <3>3 DEF ReceiveInv, ShapesIN
      <4> QED BY <1>5, <1>6, <3>3, <4>1 DEF EventAcked
    <3> QED BY <3>2, <3>3
  <2>2. CASE ~(linkIN \/ Kind(e) = "shared") BY <1>1, <1>7, <2>2 DEF Told
  <2> QED BY <2>1, <2>2
<1> QED BY <1>1, <1>2, <1>3, <1>7, HandledKept

(* persistBatch stores what is valid, and takes nothing away.              *)
LEMMA Persisted ==
    ASSUME ShapesIN, NEW e \in EvIN, IsBatch(e), persistBatch(e)
    PROVE  /\ Grows /\ DOMAIN msgsIN' = AllMsgs /\ confirmedIN' \in [AllMsgs -> Nat]
           /\ Valid(e) => StoredBatch(e)'
<1>1. Item(e) \in DOMAIN MsgsIN BY InboundAssumption DEF IsBatch
<1>2. Msgs(Item(e)) \subseteq AllMsgs BY <1>1 DEF AllMsgs
<1>3. /\ batchesIN' = IF RowOK(e) THEN batchesIN \cup {Item(e)} ELSE batchesIN
      /\ msgsIN' = [m \in AllMsgs |-> IF m \in StoredNow(e)
                      THEN (IF Confirms(e) THEN "confirmed" ELSE "pending") ELSE msgsIN[m]]
      /\ confirmedIN' = [m \in AllMsgs |-> IF Confirms(e) /\ m \in Msgs(Item(e))
                           THEN confirmedIN[m] + 1 ELSE confirmedIN[m]]
  BY DEF persistBatch
<1>4. \A m \in AllMsgs : confirmedIN[m] \in Nat BY DEF ShapesIN
<1>5. \A m \in AllMsgs : /\ confirmedIN'[m] \in Nat
                         /\ confirmedIN[m] > 0 => confirmedIN'[m] > 0
                         /\ Confirms(e) /\ m \in Msgs(Item(e)) => confirmedIN'[m] > 0
  BY <1>3, <1>4
<1>6. \A m \in AllMsgs : msgsIN'[m] # "none" <=> m \in StoredNow(e) \/ msgsIN[m] # "none" BY <1>3
<1>7. Grows BY <1>3, <1>5, <1>6 DEF Grows
<1>8. confirmedIN' \in [AllMsgs -> Nat] BY <1>3, <1>5
<1>9. ASSUME Valid(e) PROVE StoredBatch(e)'
  <2>1. ContentOK(e) /\ Fault(e) # "clash" BY <1>9 DEF Valid
  <2>2. Item(e) \in batchesIN' BY <1>3, <2>1 DEF ContentOK
  <2>3. \A m \in Msgs(Item(e)) : msgsIN'[m] # "none"
    <3>1. AlreadyStored(e) \/ StoredNow(e) = Msgs(Item(e)) BY <2>1 DEF StoredNow
    <3>2. AlreadyStored(e) => \A m \in Msgs(Item(e)) : msgsIN[m] # "none" BY DEF AlreadyStored
    <3> QED BY <1>2, <1>6, <3>1, <3>2
  <2>4. Kind(e) = "unpinned" => \A m \in Msgs(Item(e)) : confirmedIN'[m] > 0
    BY <1>2, <1>5, <1>9 DEF Confirms
  <2> QED BY <2>2, <2>3, <2>4 DEF StoredBatch
<1> QED BY <1>3, <1>7, <1>8, <1>9

(* The batch is in the tables when its handler goes on.                    *)
LEMMA PersistKept == ASSUME ReceiveInv, NEW h \in runIN, privateBatchReceived(h) PROVE ReceiveInv'
<1>0. PICK e : e = h[1] OBVIOUS
<1>1. /\ UNCHANGED <<wireIN, toldIN, loopIN, collectIN, savedIN, rewindsIN, faultsIN>> /\ h[2] = "persist"
      /\ persistBatch(e) /\ runIN' = (runIN \ {h}) \cup {<<e, "rewind", Manifest(e), h[4]>>}
  BY <1>0 DEF privateBatchReceived, Becomes, workIN
<1>2. HandlerOK(h) /\ ShapesIN BY DEF ReceiveInv
<1>3. e \in EvIN /\ IsBatch(e) /\ Fault(e) # "parse" BY <1>0, <1>1, <1>2 DEF HandlerOK
<1>4. /\ Grows /\ DOMAIN msgsIN' = AllMsgs /\ confirmedIN' \in [AllMsgs -> Nat]
      /\ Valid(e) => StoredBatch(e)'
  BY <1>1, <1>2, <1>3, Persisted
<1>5. blobsIN' = blobsIN BY <1>1 DEF persistBatch
<1>6. ShapesIN' BY <1>1, <1>2, <1>4 DEF ShapesIN
<1>7. WorkersOK' BY <1>1, <1>5 DEF ReceiveInv, WorkersOK
<1>8. BlobsKnown' BY <1>1, <1>5 DEF ReceiveInv, BlobsKnown
<1>9. ASSUME NEW b \in DOMAIN MsgsIN, RewindNoted(b) PROVE RewindNoted(b)'
  <2>1. Msgs(b) \subseteq AllMsgs BY DEF AllMsgs
  <2> QED BY <1>1, <1>4, <1>9, <2>1 DEF RewindNoted, Grows
<1>10. ASSUME NEW g \in runIN', g \notin runIN PROVE HandlerOK(g)'
  <2>1. g[1] = e /\ g[2] = "rewind" /\ g[3] = Manifest(e) BY <1>1, <1>10
  <2>2. Reported(e, Manifest(e))'
    <3>1. Manifest(e)' = Manifest(e) BY DEF Manifest, Valid, ContentOK, RowOK
    <3> QED BY <1>3, <1>4, <3>1 DEF Reported, Valid, ContentOK, RowOK
  <2>3. PICK x : x = Manifest(e) OBVIOUS
  <2>4. Reported(e, x)' BY <2>2, <2>3 DEF Manifest, Valid, ContentOK, RowOK, Reported
  <2>5. Kind(e) # "blob" BY <1>3 DEF IsBatch
  <2> QED BY <1>3, <2>1, <2>3, <2>4, <2>5 DEF HandlerOK
<1>11. \A f \in EvIN : wireIN'[f] = "acked" => wireIN[f] = "acked" /\ toldIN'[f] = toldIN[f] BY <1>1
<1> QED BY <1>4, <1>5, <1>6, <1>7, <1>8, <1>9, <1>10, <1>11, ReceiveKept

(* The aggregator is told of a pinned batch before the service is.         *)
LEMMA RewindKept == ASSUME ReceiveInv, NEW h \in runIN, queueBatchRewind(h) PROVE ReceiveInv'
<1>0. PICK e, manifest : e = h[1] /\ manifest = h[3] OBVIOUS
<1>1. /\ UNCHANGED <<wireIN, toldIN, loopIN, collectIN, savedIN, batchesIN, msgsIN, blobsIN, confirmedIN, faultsIN>>
      /\ h[2] = "rewind" /\ runIN' = (runIN \ {h}) \cup {<<e, "ack", manifest, h[4]>>}
      /\ rewindsIN' = IF Kind(e) \in {"pinned", "shared"} /\ Fault(e) # "namespace"
                      THEN rewindsIN \cup {Item(e)} ELSE rewindsIN
  BY <1>0 DEF queueBatchRewind, Becomes, workIN, tablesIN
<1>2. HandlerOK(h) /\ ShapesIN BY DEF ReceiveInv
<1>3. e \in EvIN /\ IsBatch(e) /\ Fault(e) # "parse" /\ Reported(e, manifest)
  BY <1>0, <1>1, <1>2 DEF HandlerOK
<1>4. Grows /\ blobsIN \subseteq blobsIN' /\ ShapesIN' BY <1>1, <1>2 DEF Grows, ShapesIN
<1>5. WorkersOK' BY <1>1 DEF ReceiveInv, WorkersOK
<1>6. BlobsKnown' BY <1>1 DEF ReceiveInv, BlobsKnown
<1>7. \A b \in DOMAIN MsgsIN : RewindNoted(b) => RewindNoted(b)' BY <1>1 DEF RewindNoted
<1>8. ASSUME NEW g \in runIN', g \notin runIN PROVE HandlerOK(g)'
  <2>1. g[1] = e /\ g[2] = "ack" /\ g[3] = manifest BY <1>1, <1>8
  <2>2. Reported(e, manifest)' BY <1>3, <1>4, ReportKept
  <2>3. ASSUME manifest = "manifest", Kind(e) = "pinned" PROVE Item(e) \in rewindsIN'
    <3>1. Valid(e) BY <1>3, <2>3 DEF Reported, Manifest
    <3>2. Fault(e) # "namespace" BY <3>1 DEF Valid, ContentOK, RowOK
    <3> QED BY <1>1, <2>3, <3>2
  <2>4. Kind(e) # "blob" BY <1>3 DEF IsBatch
  <2> QED BY <1>3, <2>1, <2>2, <2>3, <2>4 DEF HandlerOK, RewindNoted
<1> QED BY <1>1, <1>4, <1>5, <1>6, <1>7, <1>8, ReceiveKept

(* The aggregator confirms a batch; what was told of others stays.         *)
LEMMA AggregateKept == ASSUME ReceiveInv, NEW b \in DOMAIN MsgsIN, aggregate(b) PROVE ReceiveInv'
<1>1. /\ UNCHANGED <<wireIN, toldIN, runIN, loopIN, collectIN, savedIN, batchesIN, blobsIN, faultsIN>>
      /\ msgsIN' = [m \in AllMsgs |-> IF m \in Msgs(b) THEN "confirmed" ELSE msgsIN[m]]
      /\ confirmedIN' = [m \in AllMsgs |-> IF m \in Msgs(b) THEN confirmedIN[m] + 1 ELSE confirmedIN[m]]
      /\ rewindsIN' = rewindsIN \ {b}
  BY DEF aggregate, workIN
<1>2. ShapesIN /\ Msgs(b) \subseteq AllMsgs BY DEF ReceiveInv, AllMsgs
<1>3. \A m \in AllMsgs : confirmedIN[m] \in Nat BY <1>2 DEF ShapesIN
<1>4. \A m \in AllMsgs : /\ confirmedIN'[m] \in Nat /\ (confirmedIN[m] > 0 => confirmedIN'[m] > 0)
                         /\ m \in Msgs(b) => confirmedIN'[m] > 0
  BY <1>1, <1>3
<1>5. Grows /\ blobsIN \subseteq blobsIN' BY <1>1, <1>4 DEF Grows
<1>6. ShapesIN' BY <1>1, <1>2, <1>4 DEF ShapesIN
<1>7. WorkersOK' BY <1>1 DEF ReceiveInv, WorkersOK
<1>8. BlobsKnown' BY <1>1 DEF ReceiveInv, BlobsKnown
<1>9. ASSUME NEW c \in DOMAIN MsgsIN, RewindNoted(c) PROVE RewindNoted(c)'
  <2>1. Msgs(c) \subseteq AllMsgs BY DEF AllMsgs
  <2> QED BY <1>1, <1>2, <1>4, <1>9, <2>1 DEF RewindNoted
<1> QED BY <1>1, <1>5, <1>6, <1>7, <1>8, <1>9, ReceiveKept

(* The workers of the blobs: a step of them alone.                         *)
LEMMA WorkersKept ==
    ASSUME ReceiveInv, UNCHANGED <<toldIN, runIN, batchesIN, msgsIN, confirmedIN>>,
           DOMAIN wireIN' = EvIN, DOMAIN collectIN' = WorkerIN, DOMAIN savedIN' = WorkerIN,
           blobsIN \subseteq blobsIN', rewindsIN \subseteq rewindsIN', faultsIN' \in Nat,
           \A e \in EvIN : wireIN'[e] = "acked" =>
               wireIN[e] = "acked" \/ (SoundBlob(e) /\ Item(e) \in blobsIN'),
           WorkersOK', BlobsKnown'
    PROVE  ReceiveInv'
<1>1. Grows BY DEF Grows
<1>2. ShapesIN' BY DEF ReceiveInv, ShapesIN
<1>3. \A b \in DOMAIN MsgsIN : RewindNoted(b) => RewindNoted(b)' BY DEF RewindNoted
<1>4. ASSUME NEW e \in EvIN, wireIN'[e] = "acked" PROVE wireIN[e] = "acked" \/ EventAcked(e)'
  BY <1>4 DEF SoundBlob, EventAcked
<1> QED BY <1>1, <1>2, <1>3, <1>4, ReceiveKept

LEMMA CollectKept == ASSUME ReceiveInv, NEW w \in WorkerIN, blobReceived(w) PROVE ReceiveInv'
<1>1. /\ UNCHANGED <<wireIN, toldIN, runIN, savedIN, batchesIN, msgsIN, blobsIN, confirmedIN, rewindsIN, faultsIN>>
      /\ loopIN # NoEvent /\ savedIN[w] = "no" /\ loopIN' = NoEvent
      /\ collectIN' = [collectIN EXCEPT ![w] = @ \cup {loopIN}]
  BY DEF blobReceived, tablesIN
<1>2. WorkersOK /\ BlobsKnown /\ ShapesIN BY DEF ReceiveInv
<1>3. \A v \in WorkerIN : collectIN[v] \subseteq collectIN'[v] /\ collectIN'[v] \subseteq collectIN[v] \cup {loopIN}
                          /\ (savedIN[v] # "no" => collectIN'[v] = collectIN[v])
  BY <1>1, <1>2 DEF ShapesIN
<1>4. WorkersOK' BY <1>1, <1>2, <1>3 DEF WorkersOK
<1>5. BlobsKnown' BY <1>1, <1>2, <1>3 DEF BlobsKnown
<1>6. DOMAIN wireIN' = EvIN /\ DOMAIN collectIN' = WorkerIN /\ DOMAIN savedIN' = WorkerIN /\ faultsIN' \in Nat
  BY <1>1, <1>2 DEF ShapesIN
<1> QED BY <1>1, <1>4, <1>5, <1>6, WorkersKept

LEMMA InsertKept == ASSUME ReceiveInv, NEW w \in WorkerIN, insertNewBlobs(w) PROVE ReceiveInv'
<1>1. UNCHANGED <<wireIN, toldIN, runIN, loopIN, collectIN, batchesIN, msgsIN, confirmedIN, rewindsIN>>
  BY DEF insertNewBlobs
<1>2. WorkersOK /\ BlobsKnown /\ ShapesIN BY DEF ReceiveInv
<1>3. CASE /\ blobsIN' = blobsIN \cup {Item(e) : e \in collectIN[w]}
           /\ savedIN' = [savedIN EXCEPT ![w] = "stored"] /\ faultsIN' = faultsIN
  <2>1. \A v \in WorkerIN : v # w => savedIN'[v] = savedIN[v] BY <1>2, <1>3 DEF ShapesIN
  <2>2. \A e \in collectIN[w] : Item(e) \in blobsIN' BY <1>3
  <2>3. WorkersOK' BY <1>1, <1>2, <1>3, <2>1, <2>2 DEF WorkersOK
  <2>4. \A e \in collectIN[w] : Item(e) \notin DOMAIN MsgsIN
    <3>1. \A e \in collectIN[w] : SoundBlob(e) BY <1>2 DEF WorkersOK
    <3> QED BY <3>1, InboundAssumption DEF SoundBlob
  <2>5. BlobsKnown' BY <1>1, <1>2, <1>3, <2>4 DEF BlobsKnown
  <2>6. DOMAIN wireIN' = EvIN /\ DOMAIN collectIN' = WorkerIN /\ DOMAIN savedIN' = WorkerIN /\ faultsIN' \in Nat
    BY <1>1, <1>2, <1>3 DEF ShapesIN
  <2> QED BY <1>1, <1>3, <2>3, <2>5, <2>6, WorkersKept
<1>4. CASE Faulty /\ UNCHANGED <<blobsIN, savedIN>>
  <2>1. WorkersOK' BY <1>1, <1>2, <1>4 DEF WorkersOK
  <2>2. DOMAIN wireIN' = EvIN /\ DOMAIN collectIN' = WorkerIN /\ DOMAIN savedIN' = WorkerIN
        /\ faultsIN' \in Nat /\ faultsIN' # 0
    BY <1>1, <1>2, <1>4 DEF ShapesIN, Faulty
  <2>3. BlobsKnown' BY <2>2 DEF BlobsKnown
  <2> QED BY <1>1, <1>4, <2>1, <2>2, <2>3, WorkersKept
<1> QED BY <1>3, <1>4 DEF insertNewBlobs

(* The service is told of blobs that are stored.                           *)
LEMMA CompleteKept == ASSUME ReceiveInv, NEW w \in WorkerIN, onComplete(w) PROVE ReceiveInv'
<1>1. /\ UNCHANGED <<toldIN, runIN, loopIN, collectIN, batchesIN, msgsIN, blobsIN, confirmedIN, rewindsIN, faultsIN>>
      /\ wireIN' = [e \in EvIN |-> IF e \in collectIN[w] /\ linkIN THEN "acked" ELSE wireIN[e]]
      /\ savedIN[w] = "stored" /\ savedIN' = [savedIN EXCEPT ![w] = "told"]
  BY DEF onComplete, tablesIN
<1>2. WorkersOK /\ BlobsKnown /\ ShapesIN BY DEF ReceiveInv
<1>3. \A v \in WorkerIN : savedIN'[v] # "no" => savedIN[v] # "no" BY <1>1, <1>2 DEF ShapesIN
<1>4. WorkersOK' BY <1>1, <1>2, <1>3 DEF WorkersOK
<1>5. BlobsKnown' BY <1>1, <1>2 DEF BlobsKnown
<1>6. \A e \in collectIN[w] : SoundBlob(e) /\ Item(e) \in blobsIN BY <1>1, <1>2 DEF WorkersOK
<1>7. DOMAIN wireIN' = EvIN /\ DOMAIN collectIN' = WorkerIN /\ DOMAIN savedIN' = WorkerIN /\ faultsIN' \in Nat
  BY <1>1, <1>2 DEF ShapesIN
<1> QED BY <1>1, <1>4, <1>5, <1>6, <1>7, WorkersKept

LEMMA BlobRewindKept == ASSUME ReceiveInv, NEW w \in WorkerIN, queueBlobRewind(w) PROVE ReceiveInv'
<1>1. /\ UNCHANGED <<wireIN, toldIN, runIN, loopIN, batchesIN, msgsIN, blobsIN, confirmedIN, faultsIN>>
      /\ rewindsIN' = rewindsIN \cup {Item(e) : e \in collectIN[w]}
      /\ collectIN' = [collectIN EXCEPT ![w] = {}] /\ savedIN' = [savedIN EXCEPT ![w] = "no"]
  BY DEF queueBlobRewind, tablesIN
<1>2. WorkersOK /\ BlobsKnown /\ ShapesIN BY DEF ReceiveInv
<1>3. /\ collectIN'[w] = {}
      /\ \A v \in WorkerIN : v # w => collectIN'[v] = collectIN[v] /\ savedIN'[v] = savedIN[v]
  BY <1>1, <1>2 DEF ShapesIN
<1>4. WorkersOK' BY <1>1, <1>2, <1>3 DEF WorkersOK
<1>5. \A e \in collectIN[w] : Item(e) \in rewindsIN' BY <1>1
<1>6. BlobsKnown' BY <1>1, <1>2, <1>3, <1>5 DEF BlobsKnown
<1>7. DOMAIN wireIN' = EvIN /\ DOMAIN collectIN' = WorkerIN /\ DOMAIN savedIN' = WorkerIN /\ faultsIN' \in Nat
  BY <1>1, <1>2 DEF ShapesIN
<1> QED BY <1>1, <1>4, <1>6, <1>7, WorkersKept

(* Every step keeps what has been received.                                *)
LEMMA ReceiveStep == ASSUME ReceiveInv, [NextIN]_varsIN PROVE ReceiveInv'
<1>0. DOMAIN wireIN = EvIN /\ faultsIN \in Nat BY DEF ReceiveInv, ShapesIN
<1>1. CASE \/ beforeConnect \/ serviceRestarts \/ \E n \in Peers : AddNode(n)
           \/ \E h \in runIN : persistFails(h)
           \/ UNCHANGED varsIN
  <2>1. UNCHANGED <<toldIN, runIN, workIN, tablesIN, rewindsIN>>
    BY <1>1 DEF beforeConnect, serviceRestarts, AddNode, persistFails, varsIN
  <2>2. faultsIN' \in {faultsIN, faultsIN + 1}
    BY <1>1 DEF beforeConnect, serviceRestarts, AddNode, persistFails, varsIN, Faulty
  <2>3. wireIN' \in {wireIN, [e \in EvIN |-> IF wireIN[e] = "out" THEN "sent" ELSE wireIN[e]]}
    BY <1>1 DEF beforeConnect, serviceRestarts, AddNode, persistFails, varsIN
  <2>4. DOMAIN wireIN' = EvIN /\ \A e \in EvIN : wireIN'[e] = "acked" => wireIN[e] = "acked" BY <1>0, <2>3
  <2>5. faultsIN' \in Nat /\ (faultsIN' = 0 => faultsIN = 0) BY <1>0, <2>2
  <2> QED BY <2>1, <2>4, <2>5, QuietKept
<1>2. CASE crashIN BY <1>2, CrashKept
<1>3. CASE \E e \in EvIN : dispatchEvent(e) \/ SharedStorageBatchDownloaded(e)
  BY <1>3, DispatchKept, SharedKept
<1>4. CASE \E h \in runIN : privateBatchReceived(h) \/ queueBatchRewind(h) \/ AckWithManifest(h)
  BY <1>4, PersistKept, RewindKept, ToldKept
<1>5. CASE \E w \in WorkerIN : blobReceived(w) \/ insertNewBlobs(w) \/ onComplete(w) \/ queueBlobRewind(w)
  BY <1>5, CollectKept, InsertKept, CompleteKept, BlobRewindKept
<1>6. CASE \E b \in DOMAIN MsgsIN : aggregate(b) BY <1>6, AggregateKept
<1> QED BY <1>1, <1>2, <1>3, <1>4, <1>5, <1>6 DEF NextIN

(* A manifest is that of a batch without a fault.                          *)
LEMMA ManifestSound ==
    ASSUME NEW e \in EvIN, IsBatch(e), NEW manifest, Reported(e, manifest)
    PROVE  /\ manifest = "manifest" <=> Fault(e) = "none"
           /\ manifest = "manifest" => StoredBatch(e)
<1>1. Fault(e) \in BatchFaults \cup {"parse"} BY InboundAssumption DEF IsBatch
<1>2. CASE Fault(e) = "parse" BY <1>2 DEF Reported
<1>3. CASE Fault(e) # "parse"
  <2>1. Fault(e) \in BatchFaults BY <1>1, <1>3
  <2>2. Valid(e) <=> Fault(e) \in {"none", "group"} /\ RowOK(e)
    BY <2>1 DEF Valid, ContentOK, RowOK, BatchFaults
  <2>3. Valid(e) <=> Fault(e) = "none" BY <2>2 DEF RowOK
  <2> QED BY <1>3, <2>3 DEF Reported, Manifest
<1> QED BY <1>2, <1>3

LEMMA ReceiveSafe == ASSUME ReceiveInv, LinkInv PROVE AckedIsStored /\ RewindFollows /\ PeersKnown
<1>1. AckedIsStored
  <2>1. ASSUME NEW e \in EvIN, wireIN[e] = "acked", IsBatch(e)
        PROVE  /\ toldIN[e] = "manifest" <=> Fault(e) = "none"
               /\ toldIN[e] = "manifest" => StoredBatch(e)
    <3>1. EventAcked(e) BY DEF ReceiveInv
    <3>2. Reported(e, toldIN[e]) BY <2>1, <3>1 DEF EventAcked, IsBatch
    <3> QED BY <2>1, <3>2, ManifestSound
  <2>2. ASSUME NEW e \in EvIN, wireIN[e] = "acked", Kind(e) = "blob", Fault(e) = "none" PROVE Item(e) \in blobsIN
    BY <2>2 DEF ReceiveInv, EventAcked
  <2>3. \A e \in EvIN : Kind(e) = "blob" \/ Kind(e) = "status" \/ IsBatch(e) BY InboundAssumption DEF IsBatch
  <2> QED BY <2>1, <2>2, <2>3 DEF AckedIsStored, StoredBatch
<1>2. RewindFollows
  <2>1. \A h \in runIN : h[2] = "ack" /\ h[3] = "manifest" /\ Kind(h[1]) = "pinned" => RewindNoted(Item(h[1]))
    BY DEF ReceiveInv, HandlerOK
  <2>2. \A e \in EvIN : Kind(e) = "blob" /\ Item(e) \in blobsIN /\ faultsIN = 0 =>
          Item(e) \in rewindsIN \/ \E w \in WorkerIN : \E f \in collectIN[w] : Item(f) = Item(e)
    BY DEF ReceiveInv, BlobsKnown
  <2> QED BY <2>1, <2>2 DEF RewindFollows, RewindNoted
<1>3. PeersKnown BY DEF LinkInv
<1> QED BY <1>1, <1>2, <1>3

---------------------------------------------------------------------------
(* Downloads from shared storage: an operation is in one place *)

(* The operations in the channel, at the workers, in their hooks and in    *)
(* retries; with the hook of the pins and the recovery, all places.        *)
OpsIn(queue) == {queue[i][1] : i \in DOMAIN queue}
OpsAt(at) == {at[w][1] : w \in {v \in Worker : at[v] # <<>>}}
OpsHooked(hooks) == {o \in Download : \E w \in Worker : o \in hooks[w]}
OpsRetried(retries) == {r[1] : r \in retries}
InPlace(o) == \/ o \in OpsIn(workDL) \/ o \in OpsAt(atDL) \/ o \in OpsHooked(hooksDL)
              \/ o \in pinHookDL \/ o \in OpsRetried(retryDL) \/ o \in recoverDL.todo

(* No place holds an operation twice, and no two places the same one.      *)
OnceIn(queue) == \A i, j \in DOMAIN queue : queue[i][1] = queue[j][1] => i = j
OnceAt(at) == \A v, w \in Worker : at[v] # <<>> /\ at[w] # <<>> /\ at[v][1] = at[w][1] => v = w
OnceHooked(hooks) == \A v, w \in Worker : hooks[v] \cap hooks[w] # {} => v = w
OnceRetried(retries) == \A r, s \in retries : r[1] = s[1] => r = s
Apart(queued, held, hooked, pins, retried, todo) ==
    /\ queued \cap held = {} /\ queued \cap hooked = {} /\ queued \cap pins = {}
    /\ queued \cap retried = {} /\ queued \cap todo = {}
    /\ held \cap hooked = {} /\ held \cap pins = {} /\ held \cap retried = {} /\ held \cap todo = {}
    /\ hooked \cap pins = {} /\ hooked \cap retried = {} /\ hooked \cap todo = {}
    /\ pins \cap retried = {} /\ pins \cap todo = {} /\ retried \cap todo = {}
OnePlace ==
    /\ OnceIn(workDL) /\ OnceAt(atDL) /\ OnceHooked(hooksDL) /\ OnceRetried(retryDL)
    /\ Apart(OpsIn(workDL), OpsAt(atDL), OpsHooked(hooksDL), pinHookDL, OpsRetried(retryDL), recoverDL.todo)

WorkItem == Download \X Nat
ShapesDL ==
    /\ DOMAIN statusDL = Download /\ updatesDL \subseteq Download \X {"Pending", "stored", "Succeeded", "Failed"}
    /\ workDL \in Seq(WorkItem) /\ DOMAIN atDL = Worker /\ \A w \in Worker : atDL[w] = <<>> \/ atDL[w] \in WorkItem
    /\ hooksDL \in [Worker -> SUBSET Download] /\ pinHookDL \subseteq Download /\ retryDL \subseteq WorkItem
    /\ recoverDL \in [on : BOOLEAN, page : Nat, todo : SUBSET Download] /\ oldDL \subseteq Download

(* What is in a place or from before the start exists; the operations of   *)
(* later pages are in no place; after the first page, those of before the  *)
(* start that have not ended are in one, when a page holds them all.       *)
KnownDL == \A o \in Download : InPlace(o) \/ o \in oldDL => statusDL[o] # "none"
LaterDL == \A o \in ToRecover : Rank(o) >= recoverDL.page * RecoveryPage => ~InPlace(o)
FirstDL == recoverDL.page > 0 /\ Cardinality(oldDL) <= RecoveryPage =>
               \A o \in oldDL : Ended(o) \/ InPlace(o)
DownloadInv == ShapesDL /\ OnePlace /\ KnownDL /\ LaterDL /\ FirstDL /\ (recoverDL.on \/ recoverDL.page > 0)

(* Nothing is in a place at the start, and after a restart.                *)
LEMMA NoPlace ==
    ASSUME workDL = <<>>, atDL = [w \in Worker |-> <<>>], hooksDL = [w \in Worker |-> {}], pinHookDL = {},
           retryDL = {}, recoverDL = Recovery
    PROVE  /\ \A o : ~InPlace(o)
           /\ OnePlace
<1>1. /\ OpsIn(workDL) = {} /\ OpsAt(atDL) = {} /\ OpsHooked(hooksDL) = {} /\ OpsRetried(retryDL) = {}
      /\ recoverDL.todo = {}
  BY DEF OpsIn, OpsAt, OpsHooked, OpsRetried, Recovery
<1>2. \A o : ~InPlace(o) BY <1>1 DEF InPlace
<1>3. OnceIn(workDL) /\ OnceAt(atDL) /\ OnceHooked(hooksDL) /\ OnceRetried(retryDL)
  BY DEF OnceIn, OnceAt, OnceHooked, OnceRetried
<1>4. OnePlace BY <1>1, <1>3 DEF OnePlace, Apart
<1> QED BY <1>2, <1>4

LEMMA DownloadsInit == InitDL => DownloadInv
<1> SUFFICES ASSUME InitDL PROVE DownloadInv OBVIOUS
<1>1. (\A o : ~InPlace(o)) /\ OnePlace BY NoPlace DEF InitDL
<1>2. ShapesDL BY DEF InitDL, ShapesDL, Recovery
<1>3. oldDL = {} /\ recoverDL.on = TRUE /\ recoverDL.page = 0 BY DEF InitDL, Recovery
<1>4. KnownDL BY <1>1, <1>3 DEF KnownDL
<1>5. LaterDL BY <1>1 DEF LaterDL
<1>6. FirstDL BY <1>3 DEF FirstDL
<1> QED BY <1>1, <1>2, <1>3, <1>4, <1>5, <1>6 DEF DownloadInv

(* An operation enters a channel that does not hold it, and the first of   *)
(* those in it leaves.                                                     *)
LEMMA Enqueued ==
    ASSUME NEW queue \in Seq(WorkItem), NEW item \in WorkItem
    PROVE  /\ Append(queue, item) \in Seq(WorkItem)
           /\ OpsIn(Append(queue, item)) = OpsIn(queue) \cup {item[1]}
           /\ OnceIn(queue) /\ item[1] \notin OpsIn(queue) => OnceIn(Append(queue, item))
<1> DEFINE new == Append(queue, item)
<1>1. /\ new \in Seq(WorkItem) /\ DOMAIN new = DOMAIN queue \cup {Len(queue) + 1}
      /\ new[Len(queue) + 1] = item /\ \A i \in DOMAIN queue : new[i] = queue[i]
  OBVIOUS
<1> HIDE DEF new
<1>2. OpsIn(new) = OpsIn(queue) \cup {item[1]} BY <1>1 DEF OpsIn
<1>3. OnceIn(queue) /\ item[1] \notin OpsIn(queue) => OnceIn(new) BY <1>1 DEF OpsIn, OnceIn
<1> QED BY <1>1, <1>2, <1>3 DEF new

LEMMA Dequeued ==
    ASSUME NEW queue \in Seq(WorkItem), queue # <<>>, OnceIn(queue)
    PROVE  /\ Tail(queue) \in Seq(WorkItem) /\ Head(queue) \in WorkItem /\ OnceIn(Tail(queue))
           /\ Head(queue)[1] \in OpsIn(queue) /\ OpsIn(Tail(queue)) = OpsIn(queue) \ {Head(queue)[1]}
<1> DEFINE rest == Tail(queue)
<1>1. /\ rest \in Seq(WorkItem) /\ Head(queue) = queue[1] /\ 1 \in DOMAIN queue /\ queue[1] \in WorkItem
      /\ \A i \in DOMAIN rest : i + 1 \in DOMAIN queue /\ i + 1 # 1 /\ rest[i] = queue[i + 1]
      /\ \A i \in DOMAIN queue : i = 1 \/ (i - 1 \in DOMAIN rest /\ rest[i - 1] = queue[i])
      /\ DOMAIN rest \subseteq Int
  OBVIOUS
<1> HIDE DEF rest
<1>2. OnceIn(rest)
  <2>1. SUFFICES ASSUME NEW i \in DOMAIN rest, NEW j \in DOMAIN rest, rest[i][1] = rest[j][1] PROVE i = j
    BY DEF OnceIn
  <2>2. queue[i + 1][1] = queue[j + 1][1] /\ i + 1 \in DOMAIN queue /\ j + 1 \in DOMAIN queue BY <1>1, <2>1
  <2>3. i + 1 = j + 1 BY <2>2 DEF OnceIn
  <2> QED BY <1>1, <2>3
<1>3. OpsIn(rest) \subseteq OpsIn(queue) \ {queue[1][1]}
  <2>1. ASSUME NEW i \in DOMAIN rest PROVE rest[i][1] \in OpsIn(queue) /\ rest[i][1] # queue[1][1]
    <3>1. i + 1 \in DOMAIN queue /\ i + 1 # 1 /\ rest[i] = queue[i + 1] /\ 1 \in DOMAIN queue BY <1>1
    <3> QED BY <3>1 DEF OnceIn, OpsIn
  <2> QED BY <2>1 DEF OpsIn
<1>4. OpsIn(queue) \ {queue[1][1]} \subseteq OpsIn(rest) BY <1>1 DEF OpsIn
<1>5. queue[1][1] \in OpsIn(queue) BY <1>1 DEF OpsIn
<1> QED BY <1>1, <1>2, <1>3, <1>4, <1>5 DEF rest

(* A worker takes an operation, and puts it down.                          *)
LEMMA PickedUp ==
    ASSUME NEW at, NEW w \in Worker, NEW item \in WorkItem, DOMAIN at = Worker, at[w] = <<>>
    PROVE  /\ OpsAt([at EXCEPT ![w] = item]) = OpsAt(at) \cup {item[1]}
           /\ OnceAt(at) /\ item[1] \notin OpsAt(at) => OnceAt([at EXCEPT ![w] = item])
<1> DEFINE new == [at EXCEPT ![w] = item]
<1>1. item # <<>> BY DEF WorkItem
<1>2. new[w] = item /\ \A v \in Worker : v # w => new[v] = at[v] OBVIOUS
<1> HIDE DEF new
<1>3. OpsAt(new) = OpsAt(at) \cup {item[1]} BY <1>1, <1>2 DEF OpsAt
<1>4. OnceAt(at) /\ item[1] \notin OpsAt(at) => OnceAt(new) BY <1>1, <1>2 DEF OpsAt, OnceAt
<1> QED BY <1>3, <1>4 DEF new

LEMMA PutDown ==
    ASSUME NEW at, NEW w \in Worker, DOMAIN at = Worker, at[w] # <<>>, OnceAt(at)
    PROVE  /\ at[w][1] \in OpsAt(at) /\ OpsAt([at EXCEPT ![w] = <<>>]) = OpsAt(at) \ {at[w][1]}
           /\ OnceAt([at EXCEPT ![w] = <<>>])
<1>0. PICK new : new = [at EXCEPT ![w] = <<>>] OBVIOUS
<1>1. new[w] = <<>> /\ \A v \in Worker : v # w => new[v] = at[v] BY <1>0
<1>2. at[w][1] \in OpsAt(at) BY DEF OpsAt
<1>3. OpsAt(new) = OpsAt(at) \ {at[w][1]} BY <1>1 DEF OpsAt, OnceAt
<1>4. OnceAt(new) BY <1>1 DEF OnceAt
<1> QED BY <1>0, <1>2, <1>3, <1>4

(* A page only ever loses operations: none gets a higher rank.             *)
LEMMA RanksShrink ==
    ASSUME ToRecover' \subseteq ToRecover, oldDL \subseteq Download, NEW o
    PROVE  Rank(o) \in Nat /\ Rank(o)' \in Nat /\ Rank(o)' <= Rank(o)
<1>1. PICK now, then : now = {q \in ToRecover : q < o} /\ then = {q \in ToRecover' : q < o} OBVIOUS
<1>2. ToRecover \subseteq Download BY DEF ToRecover
<1>3. IsFiniteSet(now) BY <1>1, <1>2, FS_Subset, DownloadAssumption
<1>4. then \subseteq now BY <1>1
<1>5. IsFiniteSet(then) /\ Cardinality(then) <= Cardinality(now) BY <1>3, <1>4, FS_Subset
<1>6. Cardinality(now) \in Nat /\ Cardinality(then) \in Nat BY <1>3, <1>5, FS_CardinalityType
<1>7. Rank(o) = Cardinality(now) /\ Rank(o)' = Cardinality(then) BY <1>1 DEF Rank
<1> QED BY <1>5, <1>6, <1>7

(* What a step owes while the recovery does not read a page: an operation  *)
(* that comes to a place is new, one that leaves has ended, and no end is  *)
(* taken back.                                                             *)
LEMMA DownloadKept ==
    ASSUME DownloadInv, ShapesDL', OnePlace', UNCHANGED oldDL,
           recoverDL'.page = recoverDL.page, recoverDL'.on = recoverDL.on,
           \A o \in Download : InPlace(o)' => InPlace(o) \/ statusDL[o] = "none",
           \A o \in Download : InPlace(o)' => statusDL'[o] # "none",
           \A o \in Download : InPlace(o) => InPlace(o)' \/ Ended(o)',
           \A o \in Download : statusDL[o] # "none" =>
               /\ statusDL'[o] # "none" /\ (Unfinished(o)' => Unfinished(o)) /\ (Ended(o) => Ended(o)')
    PROVE  DownloadInv'
<1>1. /\ oldDL \subseteq Download /\ KnownDL /\ LaterDL /\ FirstDL /\ (recoverDL.on \/ recoverDL.page > 0)
      /\ recoverDL.page \in Nat
  BY DEF DownloadInv, ShapesDL
<1>2. \A o \in oldDL : o \in Download /\ statusDL[o] # "none" BY <1>1 DEF KnownDL
<1>3. KnownDL' BY <1>2 DEF KnownDL
<1>4. ToRecover' \subseteq ToRecover BY <1>2 DEF ToRecover
<1>5. ASSUME NEW o \in ToRecover', Rank(o)' >= recoverDL.page * RecoveryPage PROVE ~InPlace(o)'
  <2>1. Rank(o) >= recoverDL.page * RecoveryPage
    <3>1. Rank(o) \in Nat /\ Rank(o)' \in Nat /\ Rank(o)' <= Rank(o) BY <1>1, <1>4, RanksShrink
    <3>2. PICK k : k = recoverDL.page * RecoveryPage OBVIOUS
    <3>3. k \in Int BY <1>1, <3>2, DownloadAssumption
    <3> QED BY <1>5, <3>1, <3>2, <3>3
  <2>2. ~InPlace(o) BY <1>1, <1>4, <1>5, <2>1 DEF LaterDL
  <2>3. o \in oldDL BY <1>4, <1>5 DEF ToRecover
  <2> QED BY <1>2, <2>2, <2>3
<1>6. LaterDL' BY <1>5 DEF LaterDL
<1>7. FirstDL'
  <2>1. SUFFICES ASSUME recoverDL.page > 0, Cardinality(oldDL) <= RecoveryPage, NEW o \in oldDL
                 PROVE  Ended(o)' \/ InPlace(o)'
    BY DEF FirstDL
  <2>2. Ended(o) \/ InPlace(o) BY <1>1, <2>1 DEF FirstDL
  <2> QED BY <1>2, <2>2
<1> QED BY <1>1, <1>3, <1>6, <1>7 DEF DownloadInv

(* A move of an operation alone, with the status of each left as it is.    *)
LEMMA MoveKept ==
    ASSUME DownloadInv, ShapesDL', OnePlace', UNCHANGED <<statusDL, updatesDL, oldDL>>,
           recoverDL'.page = recoverDL.page, recoverDL'.on = recoverDL.on,
           \A o \in Download : InPlace(o)' <=> InPlace(o)
    PROVE  DownloadInv'
<1>1. \A o \in Download : InPlace(o) => statusDL[o] # "none" BY DEF DownloadInv, KnownDL
<1>2. \A o : (Unfinished(o)' <=> Unfinished(o)) /\ (Ended(o)' <=> Ended(o)) BY DEF Unfinished, Ended
<1> QED BY <1>1, <1>2, DownloadKept

(* The places of a state, by name.                                         *)
LEMMA PlacesDL ==
    ASSUME DownloadInv
    PROVE  /\ workDL \in Seq(WorkItem) /\ OnceIn(workDL) /\ OnceAt(atDL) /\ OnceHooked(hooksDL) /\ OnceRetried(retryDL)
           /\ Apart(OpsIn(workDL), OpsAt(atDL), OpsHooked(hooksDL), pinHookDL, OpsRetried(retryDL), recoverDL.todo)
           /\ DOMAIN atDL = Worker /\ \A w \in Worker : atDL[w] = <<>> \/ atDL[w] \in WorkItem
           /\ \A o \in Download : InPlace(o) => statusDL[o] # "none"
           /\ hooksDL \in [Worker -> SUBSET Download] /\ pinHookDL \subseteq Download /\ retryDL \subseteq WorkItem
           /\ recoverDL \in [on : BOOLEAN, page : Nat, todo : SUBSET Download]
  BY DEF DownloadInv, OnePlace, ShapesDL, KnownDL

(* An operation that moves from one of the places to another.              *)
LEMMA ApartMoves ==
    ASSUME NEW queued, NEW held, NEW hooked, NEW pins, NEW retried, NEW todo, NEW o,
           Apart(queued, held, hooked, pins, retried, todo)
    PROVE  /\ o \in retried => Apart(queued \cup {o}, held, hooked, pins, retried \ {o}, todo)
           /\ o \in hooked => Apart(queued \cup {o}, held, hooked \ {o}, pins, retried, todo)
           /\ o \in queued => Apart(queued \ {o}, held \cup {o}, hooked, pins, retried, todo)
           /\ o \in held => Apart(queued, held \ {o}, hooked, pins, retried \cup {o}, todo)
           /\ Apart(queued, held \ {o}, hooked, pins, retried, todo)
  BY DEF Apart

(* The hook of the pins, a retry and the recovery put an operation into    *)
(* the channel that was in a place of theirs.                              *)
LEMMA PinHookKept == ASSUME DownloadInv, pinHook PROVE DownloadInv'
<1>1. PICK b \in pinHookDL : workDL' = Append(workDL, <<b, 0>>) /\ pinHookDL' = pinHookDL \ {b} BY DEF pinHook
<1>2. UNCHANGED <<statusDL, updatesDL, atDL, hooksDL, retryDL, recoverDL, oldDL>> BY DEF pinHook
<1>3. PICK item : item = <<b, 0>> OBVIOUS
<1>4. b \in Download /\ item \in WorkItem /\ item[1] = b BY <1>3, PlacesDL DEF WorkItem
<1>5. b \notin OpsIn(workDL) BY <1>1, PlacesDL DEF Apart
<1>6. workDL' \in Seq(WorkItem) /\ OpsIn(workDL') = OpsIn(workDL) \cup {b} /\ OnceIn(workDL')
  BY <1>1, <1>3, <1>4, <1>5, PlacesDL, Enqueued
<1>7. OnePlace' BY <1>1, <1>2, <1>6, PlacesDL DEF OnePlace, Apart
<1>8. ShapesDL' BY <1>1, <1>2, <1>6 DEF DownloadInv, ShapesDL
<1>9. \A o : InPlace(o)' <=> InPlace(o) BY <1>1, <1>2, <1>6 DEF InPlace
<1> QED BY <1>2, <1>7, <1>8, <1>9, MoveKept

LEMMA RetriedKept == ASSUME DownloadInv, NEW r \in retryDL, waitAndRetryDownload(r) PROVE DownloadInv'
<1>1. /\ UNCHANGED <<statusDL, updatesDL, atDL, hooksDL, pinHookDL, recoverDL, oldDL>>
      /\ retryDL' = retryDL \ {r} /\ workDL' = Append(workDL, r)
  BY DEF waitAndRetryDownload
<1>2. r \in WorkItem /\ r[1] \in OpsRetried(retryDL) BY PlacesDL DEF OpsRetried
<1>3. r[1] \notin OpsIn(workDL) BY <1>2, PlacesDL DEF Apart
<1>4. workDL' \in Seq(WorkItem) /\ OpsIn(workDL') = OpsIn(workDL) \cup {r[1]} /\ OnceIn(workDL')
  BY <1>1, <1>2, <1>3, PlacesDL, Enqueued
<1>5. OpsRetried(retryDL') = OpsRetried(retryDL) \ {r[1]} /\ OnceRetried(retryDL')
  BY <1>1, PlacesDL DEF OpsRetried, OnceRetried
<1>6. OnePlace'
  <2>1. Apart(OpsIn(workDL'), OpsAt(atDL), OpsHooked(hooksDL), pinHookDL, OpsRetried(retryDL'), recoverDL.todo)
    <3>1. Apart(OpsIn(workDL), OpsAt(atDL), OpsHooked(hooksDL), pinHookDL, OpsRetried(retryDL), recoverDL.todo)
      BY PlacesDL
    <3>2. Apart(OpsIn(workDL) \cup {r[1]}, OpsAt(atDL), OpsHooked(hooksDL), pinHookDL,
                OpsRetried(retryDL) \ {r[1]}, recoverDL.todo)
      BY <1>2, <3>1, ApartMoves
    <3> QED BY <1>4, <1>5, <3>2
  <2> QED BY <1>1, <1>4, <1>5, <2>1, PlacesDL DEF OnePlace
<1>7. ShapesDL' BY <1>1, <1>4 DEF DownloadInv, ShapesDL
<1>8. \A o : InPlace(o)' <=> InPlace(o) BY <1>1, <1>2, <1>4, <1>5 DEF InPlace
<1> QED BY <1>1, <1>6, <1>7, <1>8, MoveKept

LEMMA RecoverKept == ASSUME DownloadInv, recoverDispatch PROVE DownloadInv'
<1>0. PICK b, item : b = Min(recoverDL.todo) /\ item = <<b, 0>> OBVIOUS
<1>1. /\ UNCHANGED <<statusDL, updatesDL, atDL, hooksDL, pinHookDL, retryDL, oldDL>>
      /\ workDL' = Append(workDL, item) /\ recoverDL' = [recoverDL EXCEPT !.todo = @ \ {b}]
  BY <1>0 DEF recoverDispatch
<1>2. recoverDL.todo \subseteq Download /\ recoverDL.todo # {} BY PlacesDL DEF recoverDispatch
<1>3. b \in recoverDL.todo BY <1>0, <1>2, DownloadAssumption, FirstLeft
<1>4. item \in WorkItem /\ item[1] = b BY <1>0, <1>2, <1>3 DEF WorkItem
<1>5. b \notin OpsIn(workDL) BY <1>3, PlacesDL DEF Apart
<1>6. workDL' \in Seq(WorkItem) /\ OpsIn(workDL') = OpsIn(workDL) \cup {b} /\ OnceIn(workDL')
  BY <1>1, <1>4, <1>5, PlacesDL, Enqueued
<1>7. /\ recoverDL' \in [on : BOOLEAN, page : Nat, todo : SUBSET Download] /\ recoverDL'.todo = recoverDL.todo \ {b}
      /\ recoverDL'.page = recoverDL.page /\ recoverDL'.on = recoverDL.on
  BY <1>1, PlacesDL
<1>8. OnePlace' BY <1>1, <1>3, <1>6, <1>7, PlacesDL DEF OnePlace, Apart
<1>9. ShapesDL' BY <1>1, <1>6, <1>7 DEF DownloadInv, ShapesDL
<1>10. \A o : InPlace(o)' <=> InPlace(o) BY <1>1, <1>3, <1>6, <1>7 DEF InPlace
<1> QED BY <1>1, <1>7, <1>8, <1>9, <1>10, MoveKept

(* The hooks of a worker dispatch one blob after the other.                *)
LEMMA HookKept == ASSUME DownloadInv, NEW w \in Worker, workerHook(w) PROVE DownloadInv'
<1>0. PICK b, item : b = Min(hooksDL[w]) /\ item = <<b, 0>> OBVIOUS
<1>1. /\ UNCHANGED <<statusDL, updatesDL, atDL, pinHookDL, retryDL, recoverDL, oldDL>>
      /\ workDL' = Append(workDL, item) /\ hooksDL' = [hooksDL EXCEPT ![w] = @ \ {b}]
  BY <1>0 DEF workerHook
<1>2. hooksDL[w] \subseteq Download /\ hooksDL[w] # {} BY PlacesDL DEF workerHook
<1>3. b \in hooksDL[w] BY <1>0, <1>2, DownloadAssumption, FirstLeft
<1>4. item \in WorkItem /\ item[1] = b /\ b \in OpsHooked(hooksDL) BY <1>0, <1>2, <1>3 DEF WorkItem, OpsHooked
<1>5. b \notin OpsIn(workDL) BY <1>4, PlacesDL DEF Apart
<1>6. workDL' \in Seq(WorkItem) /\ OpsIn(workDL') = OpsIn(workDL) \cup {b} /\ OnceIn(workDL')
  BY <1>1, <1>4, <1>5, PlacesDL, Enqueued
<1>7. /\ hooksDL' \in [Worker -> SUBSET Download] /\ hooksDL'[w] = hooksDL[w] \ {b}
      /\ \A v \in Worker : v # w => hooksDL'[v] = hooksDL[v]
  BY <1>1, PlacesDL
<1>8. OnceHooked(hooksDL') /\ OpsHooked(hooksDL') = OpsHooked(hooksDL) \ {b}
  <2>1. \A v \in Worker : v # w => b \notin hooksDL[v] BY <1>3, PlacesDL DEF OnceHooked
  <2>2. OnceHooked(hooksDL') BY <1>7, PlacesDL DEF OnceHooked
  <2> QED BY <1>7, <2>1, <2>2 DEF OpsHooked
<1>9. OnePlace'
  <2>1. Apart(OpsIn(workDL'), OpsAt(atDL), OpsHooked(hooksDL'), pinHookDL, OpsRetried(retryDL), recoverDL.todo)
    <3>1. Apart(OpsIn(workDL), OpsAt(atDL), OpsHooked(hooksDL), pinHookDL, OpsRetried(retryDL), recoverDL.todo)
      BY PlacesDL
    <3>2. Apart(OpsIn(workDL) \cup {b}, OpsAt(atDL), OpsHooked(hooksDL) \ {b}, pinHookDL,
                OpsRetried(retryDL), recoverDL.todo)
      BY <1>4, <3>1, ApartMoves
    <3> QED BY <1>6, <1>8, <3>2
  <2> QED BY <1>1, <1>6, <1>8, <2>1, PlacesDL DEF OnePlace
<1>10. ShapesDL' BY <1>1, <1>6, <1>7 DEF DownloadInv, ShapesDL
<1>11. \A o : InPlace(o)' <=> InPlace(o) BY <1>1, <1>4, <1>6, <1>8 DEF InPlace
<1> QED BY <1>1, <1>9, <1>10, <1>11, MoveKept

(* A worker takes the first operation of the channel.                      *)
LEMMA LoopKept == ASSUME DownloadInv, NEW w \in Worker, downloadWorkerLoop(w) PROVE DownloadInv'
<1>0. PICK item : item = Head(workDL) OBVIOUS
<1>1. /\ UNCHANGED <<statusDL, updatesDL, hooksDL, pinHookDL, retryDL, recoverDL, oldDL>>
      /\ atDL[w] = <<>> /\ workDL # <<>> /\ atDL' = [atDL EXCEPT ![w] = item] /\ workDL' = Tail(workDL)
  BY <1>0 DEF downloadWorkerLoop
<1>2. /\ item \in WorkItem /\ item[1] \in OpsIn(workDL) /\ workDL' \in Seq(WorkItem) /\ OnceIn(workDL')
      /\ OpsIn(workDL') = OpsIn(workDL) \ {item[1]}
  BY <1>0, <1>1, PlacesDL, Dequeued
<1>3. item[1] \notin OpsAt(atDL) BY <1>2, PlacesDL DEF Apart
<1>4. OpsAt(atDL') = OpsAt(atDL) \cup {item[1]} /\ OnceAt(atDL') BY <1>1, <1>2, <1>3, PlacesDL, PickedUp
<1>5. DOMAIN atDL' = Worker /\ \A v \in Worker : atDL'[v] = <<>> \/ atDL'[v] \in WorkItem
  BY <1>1, <1>2, PlacesDL
<1>6. OnePlace'
  <2>1. Apart(OpsIn(workDL'), OpsAt(atDL'), OpsHooked(hooksDL), pinHookDL, OpsRetried(retryDL), recoverDL.todo)
    <3>1. Apart(OpsIn(workDL), OpsAt(atDL), OpsHooked(hooksDL), pinHookDL, OpsRetried(retryDL), recoverDL.todo)
      BY PlacesDL
    <3>2. Apart(OpsIn(workDL) \ {item[1]}, OpsAt(atDL) \cup {item[1]}, OpsHooked(hooksDL), pinHookDL,
                OpsRetried(retryDL), recoverDL.todo)
      BY <1>2, <3>1, ApartMoves
    <3> QED BY <1>2, <1>4, <3>2
  <2> QED BY <1>1, <1>2, <1>4, <2>1, PlacesDL DEF OnePlace
<1>7. ShapesDL' BY <1>1, <1>2, <1>5 DEF DownloadInv, ShapesDL
<1>8. \A o : InPlace(o)' <=> InPlace(o) BY <1>1, <1>2, <1>4 DEF InPlace
<1> QED BY <1>1, <1>6, <1>7, <1>8, MoveKept

(* A worker is done with an operation, which ends, or fails an attempt,    *)
(* which is for a retry or ends.                                           *)
LEMMA DoneKept == ASSUME DownloadInv, NEW w \in Worker, downloadDone(w) PROVE DownloadInv'
<1>0. PICK o : o = atDL[w][1] OBVIOUS
<1>1. /\ UNCHANGED <<statusDL, workDL, hooksDL, pinHookDL, retryDL, recoverDL, oldDL>> /\ atDL[w] # <<>>
      /\ updatesDL' = (updatesDL \ {<<o, "stored">>}) \cup {<<o, "Succeeded">>}
      /\ atDL' = [atDL EXCEPT ![w] = <<>>]
  BY <1>0 DEF downloadDone
<1>2. o \in OpsAt(atDL) /\ OpsAt(atDL') = OpsAt(atDL) \ {o} /\ OnceAt(atDL')
  BY <1>0, <1>1, PlacesDL, PutDown
<1>3. o \in Download BY <1>0, <1>1, PlacesDL DEF WorkItem
<1>4. OnePlace'
  <2>1. Apart(OpsIn(workDL), OpsAt(atDL), OpsHooked(hooksDL), pinHookDL, OpsRetried(retryDL), recoverDL.todo)
    BY PlacesDL
  <2>2. Apart(OpsIn(workDL), OpsAt(atDL) \ {o}, OpsHooked(hooksDL), pinHookDL, OpsRetried(retryDL), recoverDL.todo)
    BY <2>1, ApartMoves
  <2> QED BY <1>1, <1>2, <2>2, PlacesDL DEF OnePlace
<1>5. DOMAIN atDL' = Worker /\ \A v \in Worker : atDL'[v] = <<>> \/ atDL'[v] \in WorkItem BY <1>1, PlacesDL
<1>6. ShapesDL' BY <1>1, <1>3, <1>5 DEF DownloadInv, ShapesDL
<1>7. \A x : InPlace(x)' => InPlace(x) BY <1>1, <1>2 DEF InPlace
<1>8. \A x : InPlace(x) => InPlace(x)' \/ x = o BY <1>1, <1>2 DEF InPlace
<1>9. Ended(o)' BY <1>1 DEF Ended
<1>10. \A x : (Unfinished(x)' <=> Unfinished(x)) /\ (Ended(x) => Ended(x)') BY <1>1 DEF Unfinished, Ended
<1> QED BY <1>1, <1>4, <1>6, <1>7, <1>8, <1>9, <1>10, PlacesDL, DownloadKept

LEMMA AttemptKept == ASSUME DownloadInv, NEW w \in Worker, attemptWork(w) PROVE DownloadInv'
<1>0. PICK o, n : o = atDL[w][1] /\ n = atDL[w][2] + 1 OBVIOUS
<1>1. /\ UNCHANGED <<statusDL, workDL, hooksDL, pinHookDL, recoverDL, oldDL>> /\ atDL[w] # <<>>
      /\ atDL' = [atDL EXCEPT ![w] = <<>>]
      /\ \/ updatesDL' = updatesDL \cup {<<o, "Failed">>} /\ retryDL' = retryDL
         \/ updatesDL' = updatesDL \cup {<<o, "Pending">>} /\ retryDL' = retryDL \cup {<<o, n>>}
  BY <1>0 DEF attemptWork
<1>2. o \in OpsAt(atDL) /\ OpsAt(atDL') = OpsAt(atDL) \ {o} /\ OnceAt(atDL')
  BY <1>0, <1>1, PlacesDL, PutDown
<1>3. o \in Download /\ n \in Nat /\ <<o, n>> \in WorkItem
  <2>1. atDL[w] \in Download \X Nat BY <1>1, PlacesDL DEF WorkItem
  <2> QED BY <1>0, <2>1 DEF WorkItem
<1>4. DOMAIN atDL' = Worker /\ \A v \in Worker : atDL'[v] = <<>> \/ atDL'[v] \in WorkItem BY <1>1, PlacesDL
<1>5. ShapesDL'
  <2>1. updatesDL' \subseteq Download \X {"Pending", "stored", "Succeeded", "Failed"}
    BY <1>1, <1>3 DEF DownloadInv, ShapesDL
  <2>2. retryDL' \subseteq WorkItem BY <1>1, <1>3, PlacesDL
  <2> QED BY <1>1, <1>4, <2>1, <2>2 DEF DownloadInv, ShapesDL
<1>6. Apart(OpsIn(workDL), OpsAt(atDL), OpsHooked(hooksDL), pinHookDL, OpsRetried(retryDL), recoverDL.todo)
  BY PlacesDL
<1>7. \A x : (Unfinished(x)' <=> Unfinished(x)) /\ (Ended(x) => Ended(x)') BY <1>1 DEF Unfinished, Ended
<1>8. CASE updatesDL' = updatesDL \cup {<<o, "Failed">>} /\ retryDL' = retryDL
  <2>1. Apart(OpsIn(workDL), OpsAt(atDL) \ {o}, OpsHooked(hooksDL), pinHookDL, OpsRetried(retryDL), recoverDL.todo)
    BY <1>6, ApartMoves
  <2>2. OnePlace' BY <1>1, <1>2, <1>8, <2>1, PlacesDL DEF OnePlace
  <2>3. \A x : InPlace(x)' => InPlace(x) BY <1>1, <1>2, <1>8 DEF InPlace
  <2>4. \A x : InPlace(x) => InPlace(x)' \/ x = o BY <1>1, <1>2, <1>8 DEF InPlace
  <2>5. Ended(o)' BY <1>8 DEF Ended
  <2> QED BY <1>1, <1>5, <1>7, <2>2, <2>3, <2>4, <2>5, PlacesDL, DownloadKept
<1>9. CASE updatesDL' = updatesDL \cup {<<o, "Pending">>} /\ retryDL' = retryDL \cup {<<o, n>>}
  <2>1. o \notin OpsRetried(retryDL) BY <1>2, <1>6 DEF Apart
  <2>2. OpsRetried(retryDL') = OpsRetried(retryDL) \cup {o} /\ OnceRetried(retryDL')
    <3>1. <<o, n>>[1] = o /\ OnceRetried(retryDL) /\ \A r \in retryDL : r[1] # o
      BY <2>1, PlacesDL DEF OpsRetried
    <3>2. OnceRetried(retryDL') BY <1>9, <3>1 DEF OnceRetried
    <3>3. OpsRetried(retryDL') = OpsRetried(retryDL) \cup {o} BY <1>9, <3>1 DEF OpsRetried
    <3> QED BY <3>2, <3>3
  <2>3. Apart(OpsIn(workDL), OpsAt(atDL) \ {o}, OpsHooked(hooksDL), pinHookDL,
              OpsRetried(retryDL) \cup {o}, recoverDL.todo)
    BY <1>2, <1>6, ApartMoves
  <2>4. OnePlace' BY <1>1, <1>2, <2>2, <2>3, PlacesDL DEF OnePlace
  <2>5. \A x : InPlace(x)' <=> InPlace(x) BY <1>1, <1>2, <2>2 DEF InPlace
  <2> QED BY <1>1, <1>5, <1>7, <2>4, <2>5, PlacesDL, DownloadKept
<1> QED BY <1>1, <1>8, <1>9

(* A new operation is in no place before.                                  *)
LEMMA InitiateKept == ASSUME DownloadInv, NEW b \in Batches, InitiateDownloadBatch(b) PROVE DownloadInv'
<1>1. /\ UNCHANGED <<updatesDL, workDL, atDL, hooksDL, retryDL, recoverDL, oldDL>>
      /\ statusDL[b] = "none" /\ pinHookDL = {} /\ pinHookDL' = {b}
      /\ statusDL' = [statusDL EXCEPT ![b] = "Initialized"]
  BY DEF InitiateDownloadBatch
<1>2. b \in Download /\ DOMAIN statusDL = Download BY DEF Download, DownloadInv, ShapesDL
<1>3. statusDL'[b] = "Initialized" /\ \A o \in Download : o # b => statusDL'[o] = statusDL[o] BY <1>1, <1>2
<1>4. ~InPlace(b) BY <1>1, <1>2, PlacesDL
<1>5. OnePlace' BY <1>1, <1>4, PlacesDL DEF OnePlace, Apart, InPlace
<1>6. ShapesDL' BY <1>1, <1>2 DEF DownloadInv, ShapesDL
<1>7. \A o : InPlace(o)' <=> InPlace(o) \/ o = b BY <1>1 DEF InPlace
<1>8. \A o \in Download : o # b => (Unfinished(o)' <=> Unfinished(o)) /\ (Ended(o)' <=> Ended(o))
  BY <1>1, <1>3 DEF Unfinished, Ended
<1>9. /\ \A o \in Download : InPlace(o)' => InPlace(o) \/ statusDL[o] = "none"
      /\ \A o \in Download : InPlace(o)' => statusDL'[o] # "none"
      /\ \A o \in Download : InPlace(o) => InPlace(o)'
      /\ \A o \in Download : statusDL[o] # "none" => o # b
  BY <1>1, <1>3, <1>7, PlacesDL
<1>10. \A o \in Download : statusDL[o] # "none" =>
          /\ statusDL'[o] # "none" /\ (Unfinished(o)' => Unfinished(o)) /\ (Ended(o) => Ended(o)')
  BY <1>3, <1>8, <1>9
<1> QED BY <1>1, <1>5, <1>6, <1>9, <1>10, DownloadKept

LEMMA BatchKept == ASSUME DownloadInv, NEW w \in Worker, downloadBatch(w) PROVE DownloadInv'
<1>0. PICK o, new : o = atDL[w][1] /\ new = NewBlobs(o) OBVIOUS
<1>1. /\ UNCHANGED <<workDL, atDL, pinHookDL, retryDL, recoverDL, oldDL>> /\ atDL[w] # <<>>
      /\ o \in Batches /\ hooksDL[w] = {} /\ hooksDL' = [hooksDL EXCEPT ![w] = new]
      /\ statusDL' = [x \in Download |-> IF x \in new THEN "Initialized" ELSE statusDL[x]]
      /\ updatesDL' = updatesDL \cup {<<o, "stored">>}
  BY <1>0 DEF downloadBatch
<1>2. o \in Download /\ new \subseteq Download /\ \A x \in new : statusDL[x] = "none"
  BY <1>0, <1>1 DEF Download, NewBlobs
<1>3. \A x \in new : ~InPlace(x) BY <1>2, PlacesDL
<1>4. /\ hooksDL' \in [Worker -> SUBSET Download] /\ hooksDL'[w] = new
      /\ \A v \in Worker : v # w => hooksDL'[v] = hooksDL[v]
  BY <1>1, <1>2, PlacesDL
<1>5. OpsHooked(hooksDL') = OpsHooked(hooksDL) \cup new BY <1>1, <1>2, <1>4 DEF OpsHooked
<1>6. OnceHooked(hooksDL')
  <2>1. \A v \in Worker : hooksDL[v] \cap new = {} BY <1>2, <1>3, PlacesDL DEF InPlace, OpsHooked
  <2> QED BY <1>4, <2>1, PlacesDL DEF OnceHooked
<1>7. OnePlace'
  <2>1. Apart(OpsIn(workDL), OpsAt(atDL), OpsHooked(hooksDL) \cup new, pinHookDL, OpsRetried(retryDL), recoverDL.todo)
    BY <1>3, PlacesDL DEF Apart, InPlace
  <2> QED BY <1>1, <1>5, <1>6, <2>1, PlacesDL DEF OnePlace
<1>8. ShapesDL'
  <2>1. updatesDL' \subseteq Download \X {"Pending", "stored", "Succeeded", "Failed"}
    BY <1>1, <1>2 DEF DownloadInv, ShapesDL
  <2> QED BY <1>1, <1>4, <2>1 DEF DownloadInv, ShapesDL
<1>9. \A x : InPlace(x)' <=> InPlace(x) \/ x \in new BY <1>1, <1>5 DEF InPlace
<1>10. \A x \in Download : x \notin new => statusDL'[x] = statusDL[x] BY <1>1
<1>11. \A x \in Download : x \notin new => (Unfinished(x)' <=> Unfinished(x)) /\ (Ended(x) => Ended(x)')
  BY <1>1, <1>10 DEF Unfinished, Ended
<1>12. /\ \A x \in Download : InPlace(x)' => InPlace(x) \/ statusDL[x] = "none"
       /\ \A x \in Download : InPlace(x)' => statusDL'[x] # "none"
       /\ \A x \in Download : InPlace(x) => InPlace(x)'
       /\ \A x \in Download : statusDL[x] # "none" => x \notin new
  BY <1>1, <1>2, <1>9, <1>10, PlacesDL
<1>13. \A x \in Download : statusDL[x] # "none" =>
          /\ statusDL'[x] # "none" /\ (Unfinished(x)' => Unfinished(x)) /\ (Ended(x) => Ended(x)')
  BY <1>10, <1>11, <1>12
<1> QED BY <1>1, <1>7, <1>8, <1>12, <1>13, DownloadKept

(* The updater takes no end back.                                          *)
LEMMA WrittenKept == ASSUME DownloadInv, NEW u \in updatesDL, writeStatus(u) PROVE DownloadInv'
<1>1. /\ UNCHANGED <<workDL, atDL, hooksDL, pinHookDL, retryDL, recoverDL, oldDL>> /\ u[2] # "stored"
      /\ updatesDL' = updatesDL \ {u}
      /\ \/ statusDL' = statusDL /\ u[2] = "Pending"
         \/ statusDL' = [statusDL EXCEPT ![u[1]] = u[2]] /\ (u[2] = "Pending" => Unfinished(u[1]))
  BY DEF writeStatus
<1>2. u \in Download \X {"Pending", "stored", "Succeeded", "Failed"} /\ DOMAIN statusDL = Download
  BY DEF DownloadInv, ShapesDL
<1>3. PICK o \in Download, s \in {"Pending", "stored", "Succeeded", "Failed"} : u = <<o, s>> BY <1>2
<1>4. /\ DOMAIN statusDL' = Download /\ \A x \in Download : x # o => statusDL'[x] = statusDL[x]
      /\ statusDL'[o] = s \/ (statusDL'[o] = statusDL[o] /\ s = "Pending")
      /\ s \in {"Pending", "Succeeded", "Failed"}
      /\ s = "Pending" => statusDL'[o] = statusDL[o] \/ (statusDL'[o] = "Pending" /\ Unfinished(o))
  BY <1>1, <1>2, <1>3
<1>5. OnePlace' BY <1>1 DEF OnePlace, DownloadInv
<1>6. ShapesDL' BY <1>1, <1>4 DEF DownloadInv, ShapesDL
<1>7. \A x : InPlace(x)' <=> InPlace(x) BY <1>1 DEF InPlace
<1>8. \A x \in Download : statusDL[x] # "none" => statusDL'[x] # "none" BY <1>4
<1>9. \A x \in Download : Unfinished(x)' => Unfinished(x) BY <1>4 DEF Unfinished
<1>10. ASSUME NEW x \in Download, Ended(x) PROVE Ended(x)'
  <2>1. CASE x # o
    <3>1. statusDL'[x] = statusDL[x] /\ (Unfinished(x)' <=> Unfinished(x)) BY <1>4, <2>1 DEF Unfinished
    <3>2. \A t : <<x, t>> \in updatesDL => <<x, t>> \in updatesDL' BY <1>1, <1>3, <2>1
    <3> QED BY <1>10, <3>1, <3>2 DEF Ended
  <2>2. CASE x = o /\ s = "Pending"
    <3>1. Unfinished(x)' => Unfinished(x) BY <1>9
    <3>2. \A t : <<x, t>> \in updatesDL /\ t # "Pending" => <<x, t>> \in updatesDL' BY <1>1, <1>3, <2>2
    <3> QED BY <1>10, <3>1, <3>2 DEF Ended
  <2>3. CASE x = o /\ s # "Pending"
    <3>1. ~Unfinished(x)' BY <1>4, <2>3 DEF Unfinished
    <3> QED BY <3>1 DEF Ended
  <2> QED BY <2>1, <2>2, <2>3
<1>11. \A x \in Download : InPlace(x) => statusDL[x] # "none" BY PlacesDL
<1> QED BY <1>1, <1>5, <1>6, <1>7, <1>8, <1>9, <1>10, <1>11, DownloadKept

(* A page of the recovery takes operations that are in no place, and the   *)
(* first one all of them when they fit in.                                 *)
LEMMA PageKept == ASSUME DownloadInv, recoverPage PROVE DownloadInv'
<1>0. PICK page, size : page = recoverDL.page /\ size = RecoveryPage OBVIOUS
<1>1. /\ UNCHANGED <<statusDL, updatesDL, workDL, atDL, hooksDL, pinHookDL, retryDL, oldDL>>
      /\ recoverDL.todo = {}
      /\ recoverDL' = [on |-> PageDL # {}, page |-> page + 1, todo |-> PageDL]
  BY <1>0 DEF recoverPage
<1>2. page \in Nat /\ size \in Nat \ {0} /\ oldDL \subseteq Download
  BY <1>0, PlacesDL, DownloadAssumption DEF DownloadInv, ShapesDL
<1>3. PageDL \subseteq ToRecover /\ ToRecover \subseteq oldDL BY DEF PageDL, ToRecover
<1>4. recoverDL'.page = page + 1 /\ recoverDL'.todo = PageDL BY <1>1
<1>5. UNCHANGED ToRecover /\ \A o : Rank(o)' = Rank(o) BY <1>1 DEF ToRecover, Rank, Unfinished
<1>6. \A o \in ToRecover : Rank(o) \in Nat
  <2>1. ToRecover' \subseteq ToRecover BY <1>5
  <2> QED BY <1>2, <2>1, RanksShrink
<1>7. \A o \in PageDL : ~InPlace(o) BY <1>0, <1>3 DEF PageDL, DownloadInv, LaterDL
<1>8. OnePlace'
  <2>1. Apart(OpsIn(workDL), OpsAt(atDL), OpsHooked(hooksDL), pinHookDL, OpsRetried(retryDL), PageDL)
    BY <1>1, <1>7, PlacesDL DEF Apart, InPlace
  <2> QED BY <1>1, <1>4, <2>1, PlacesDL DEF OnePlace
<1>9. ShapesDL' BY <1>1, <1>2, <1>3 DEF DownloadInv, ShapesDL
<1>10. \A o : InPlace(o)' <=> InPlace(o) \/ o \in PageDL BY <1>1, <1>4 DEF InPlace
<1>11. KnownDL' BY <1>1, <1>3, <1>10 DEF DownloadInv, KnownDL
<1>12. LaterDL'
  <2>1. SUFFICES ASSUME NEW o \in ToRecover, Rank(o) >= (page + 1) * size PROVE ~InPlace(o)'
    BY <1>0, <1>4, <1>5 DEF LaterDL
  <2>2. Rank(o) \in Nat /\ page * size \in Nat /\ (page + 1) * size = page * size + size BY <1>2, <1>6
  <2>3. Rank(o) >= page * size /\ ~(Rank(o) < (page + 1) * size) BY <1>2, <2>1, <2>2
  <2>4. ~InPlace(o) BY <1>0, <2>3 DEF DownloadInv, LaterDL
  <2>5. o \notin PageDL BY <1>0, <2>3 DEF PageDL
  <2> QED BY <1>10, <2>4, <2>5
<1>13. FirstDL'
  <2>1. SUFFICES ASSUME Cardinality(oldDL) <= size, NEW o \in oldDL PROVE Ended(o)' \/ InPlace(o)'
    BY <1>0, <1>1 DEF FirstDL
  <2>2. Ended(o)' <=> Ended(o) BY <1>1 DEF Ended, Unfinished
  <2>3. CASE page > 0 BY <1>0, <1>10, <2>1, <2>2, <2>3 DEF DownloadInv, FirstDL
  <2>4. CASE page = 0 /\ ~Ended(o)
    <3>1. o \in ToRecover BY <2>4 DEF Ended, ToRecover
    <3>2. PICK before : before = {q \in ToRecover : q < o} OBVIOUS
    <3>3. IsFiniteSet(oldDL) /\ o \in Nat BY <1>2, FS_Subset, DownloadAssumption
    <3>4. before \subseteq oldDL \ {o}
      <4>1. \A q \in before : q \in Nat /\ q \in oldDL /\ q < o BY <1>2, <1>3, <3>2, DownloadAssumption
      <4> QED BY <3>3, <4>1
    <3>5. IsFiniteSet(oldDL \ {o}) /\ Cardinality(oldDL \ {o}) = Cardinality(oldDL) - 1 BY <3>3, FS_RemoveElement
    <3>6. Cardinality(before) <= Cardinality(oldDL \ {o}) BY <3>4, <3>5, FS_Subset
    <3>7. Cardinality(before) \in Nat /\ Cardinality(oldDL) \in Nat BY <3>3, <3>4, <3>5, FS_Subset, FS_CardinalityType
    <3>8. Rank(o) = Cardinality(before) BY <3>2 DEF Rank
    <3>9. Rank(o) >= 0 /\ Rank(o) < size BY <1>2, <2>1, <3>5, <3>6, <3>7, <3>8
    <3>10. page * size = 0 /\ (page + 1) * size = size BY <1>2, <2>4
    <3>11. o \in PageDL BY <1>0, <3>1, <3>9, <3>10 DEF PageDL
    <3> QED BY <1>10, <3>11
  <2> QED BY <1>2, <2>2, <2>3, <2>4
<1>14. recoverDL'.page > 0 BY <1>2, <1>4
<1> QED BY <1>8, <1>9, <1>11, <1>12, <1>13, <1>14 DEF DownloadInv

(* A restart: what is left is in the database, and the recovery begins.    *)
LEMMA RestartKept == ASSUME DownloadInv, stopAndStart PROVE DownloadInv'
<1>1. /\ updatesDL' = {} /\ workDL' = <<>> /\ atDL' = [w \in Worker |-> <<>>]
      /\ hooksDL' = [w \in Worker |-> {}] /\ pinHookDL' = {} /\ retryDL' = {} /\ recoverDL' = Recovery
      /\ oldDL' = {o \in Download : statusDL[o] # "none"} /\ statusDL' = statusDL
  BY DEF stopAndStart
<1>2. /\ OpsIn(workDL') = {} /\ OpsAt(atDL') = {} /\ OpsHooked(hooksDL') = {} /\ OpsRetried(retryDL') = {}
      /\ recoverDL'.todo = {} /\ recoverDL'.on = TRUE /\ recoverDL'.page = 0
  BY <1>1 DEF OpsIn, OpsAt, OpsHooked, OpsRetried, Recovery
<1>3. \A o : ~InPlace(o)' BY <1>1, <1>2 DEF InPlace
<1>4. OnceIn(workDL') /\ OnceAt(atDL') /\ OnceHooked(hooksDL') /\ OnceRetried(retryDL')
  BY <1>1 DEF OnceIn, OnceAt, OnceHooked, OnceRetried
<1>5. OnePlace' BY <1>1, <1>2, <1>4 DEF OnePlace, Apart
<1>6. ShapesDL' BY <1>1 DEF DownloadInv, ShapesDL, Recovery
<1>7. KnownDL' BY <1>1, <1>3 DEF KnownDL
<1>8. LaterDL' BY <1>3 DEF LaterDL
<1>9. FirstDL' BY <1>2 DEF FirstDL
<1> QED BY <1>2, <1>5, <1>6, <1>7, <1>8, <1>9 DEF DownloadInv

LEMMA DownloadStep == ASSUME DownloadInv, [NextDL]_varsDL PROVE DownloadInv'
<1>1. CASE UNCHANGED varsDL
  <2>1. UNCHANGED <<statusDL, updatesDL, workDL, atDL, hooksDL, pinHookDL, retryDL, recoverDL, oldDL>>
    BY <1>1 DEF varsDL
  <2>2. OnePlace' BY <2>1 DEF OnePlace, DownloadInv
  <2>3. ShapesDL' BY <2>1 DEF DownloadInv, ShapesDL
  <2>4. \A o : InPlace(o)' <=> InPlace(o) BY <2>1 DEF InPlace
  <2> QED BY <2>1, <2>2, <2>3, <2>4, MoveKept
<1>2. CASE \E b \in Batches : InitiateDownloadBatch(b) BY <1>2, InitiateKept
<1>3. CASE pinHook BY <1>3, PinHookKept
<1>4. CASE recoverPage BY <1>4, PageKept
<1>5. CASE recoverDispatch BY <1>5, RecoverKept
<1>6. CASE stopAndStart BY <1>6, RestartKept
<1>7. CASE \E w \in Worker : \/ downloadWorkerLoop(w) \/ downloadBatch(w)
                             \/ workerHook(w) \/ downloadDone(w) \/ attemptWork(w)
  BY <1>7, LoopKept, BatchKept, HookKept, DoneKept, AttemptKept
<1>8. CASE \E r \in retryDL : waitAndRetryDownload(r) BY <1>8, RetriedKept
<1>9. CASE \E u \in updatesDL : writeStatus(u) BY <1>9, WrittenKept
<1> QED BY <1>1, <1>2, <1>3, <1>4, <1>5, <1>6, <1>7, <1>8, <1>9 DEF NextDL

(* An operation counts once in the place that holds it.                    *)
LEMMA CountedOnce ==
    ASSUME NEW S, \A x, y \in S : x = y
    PROVE  Cardinality(S) = IF S = {} THEN 0 ELSE 1
<1>1. CASE S = {} BY <1>1, FS_EmptySet
<1>2. CASE S # {}
  <2>1. PICK x \in S : TRUE BY <1>2
  <2>2. S = {x} BY <2>1
  <2> QED BY <1>2, <2>2, FS_Singleton
<1> QED BY <1>1, <1>2

LEMMA DownloadSafe == ASSUME DownloadInv PROVE OneWorkItem /\ RecoveredAll
<1>1. ASSUME NEW o \in Download PROVE Items(o) = IF InPlace(o) THEN 1 ELSE 0
  <2>1. PICK a, b, c, d : /\ a = {i \in DOMAIN workDL : workDL[i][1] = o}
                          /\ b = {w \in Worker : atDL[w] # <<>> /\ atDL[w][1] = o}
                          /\ c = {w \in Worker : o \in hooksDL[w]}
                          /\ d = {r \in retryDL : r[1] = o}
    OBVIOUS
  <2>2. Items(o) = Cardinality(a) + Cardinality(b) + Cardinality(c) + (IF o \in pinHookDL THEN 1 ELSE 0)
                   + Cardinality(d) + (IF o \in recoverDL.todo THEN 1 ELSE 0)
    BY <2>1 DEF Items
  <2>3. Cardinality(a) = IF o \in OpsIn(workDL) THEN 1 ELSE 0
    <3>1. \A x, y \in a : x = y BY <2>1, PlacesDL DEF OnceIn
    <3>2. a = {} <=> o \notin OpsIn(workDL) BY <2>1 DEF OpsIn
    <3> QED BY <3>1, <3>2, CountedOnce
  <2>4. Cardinality(b) = IF o \in OpsAt(atDL) THEN 1 ELSE 0
    <3>1. \A x, y \in b : x = y BY <2>1, PlacesDL DEF OnceAt
    <3>2. b = {} <=> o \notin OpsAt(atDL) BY <2>1 DEF OpsAt
    <3> QED BY <3>1, <3>2, CountedOnce
  <2>5. Cardinality(c) = IF o \in OpsHooked(hooksDL) THEN 1 ELSE 0
    <3>1. \A x, y \in c : x = y BY <2>1, PlacesDL DEF OnceHooked
    <3>2. c = {} <=> o \notin OpsHooked(hooksDL) BY <2>1 DEF OpsHooked
    <3> QED BY <3>1, <3>2, CountedOnce
  <2>6. Cardinality(d) = IF o \in OpsRetried(retryDL) THEN 1 ELSE 0
    <3>1. \A x, y \in d : x = y BY <2>1, PlacesDL DEF OnceRetried
    <3>2. d = {} <=> o \notin OpsRetried(retryDL) BY <2>1 DEF OpsRetried
    <3> QED BY <3>1, <3>2, CountedOnce
  <2>7. Apart(OpsIn(workDL), OpsAt(atDL), OpsHooked(hooksDL), pinHookDL, OpsRetried(retryDL), recoverDL.todo)
    BY PlacesDL
  <2>8. /\ o \in OpsIn(workDL) => o \notin OpsAt(atDL) \cup OpsHooked(hooksDL) \cup pinHookDL
                                              \cup OpsRetried(retryDL) \cup recoverDL.todo
        /\ o \in OpsAt(atDL) => o \notin OpsHooked(hooksDL) \cup pinHookDL \cup OpsRetried(retryDL) \cup recoverDL.todo
        /\ o \in OpsHooked(hooksDL) => o \notin pinHookDL \cup OpsRetried(retryDL) \cup recoverDL.todo
        /\ o \in pinHookDL => o \notin OpsRetried(retryDL) \cup recoverDL.todo
        /\ o \in OpsRetried(retryDL) => o \notin recoverDL.todo
    BY <2>7 DEF Apart
  <2> QED BY <2>2, <2>3, <2>4, <2>5, <2>6, <2>8 DEF InPlace
<1>2. OneWorkItem BY <1>1 DEF OneWorkItem
<1>3. RecoveredAll
  <2>1. SUFFICES ASSUME ~recoverDL.on, Cardinality(oldDL) <= RecoveryPage, NEW o \in oldDL
                 PROVE  Ended(o) \/ Items(o) = 1
    BY DEF RecoveredAll
  <2>2. o \in Download /\ recoverDL.page > 0 BY <2>1 DEF DownloadInv, ShapesDL
  <2>3. Ended(o) \/ InPlace(o) BY <2>1, <2>2 DEF DownloadInv, FirstDL
  <2> QED BY <1>1, <2>2, <2>3
<1> QED BY <1>2, <1>3

(* What is acknowledged is stored, with its manifest only when it is       *)
(* valid, and the aggregator hears of it (dataexchange/ffdx,               *)
(* events/dx_callbacks.go, blob_receiver.go); an operation of a download   *)
(* is worked on in one place, and the recovery of a restart finds those    *)
(* left (shareddownload/download_manager.go): for any events, faults,      *)
(* batches, workers, capacities and restarts.                              *)
THEOREM Received == Spec => []ReceivedFaithfully
<1> DEFINE Inv == ReceiveInv /\ LinkInv /\ DownloadInv
<1>1. Init => Inv BY InboundInits, ReceiveInit, DownloadsInit
<1>2. Inv /\ [Next]_varsNode => Inv'
  <2>1. ASSUME Inv, [Next]_varsNode PROVE Inv'
    <3>1. [NextIN]_varsIN /\ [NextDL]_varsDL BY <2>1, InboundSteps
    <3>2. faultsIN \in Nat BY <2>1 DEF ReceiveInv, ShapesIN
    <3>3. ReceiveInv' BY <2>1, <3>1, ReceiveStep
    <3>4. LinkInv' BY <2>1, <3>1, <3>2, LinkStep
    <3>5. DownloadInv' BY <2>1, <3>1, DownloadStep
    <3> QED BY <3>3, <3>4, <3>5
  <2> QED BY <2>1
<1>3. Inv => ReceivedFaithfully BY ReceiveSafe, DownloadSafe DEF ReceivedFaithfully
<1> QED BY <1>1, <1>2, <1>3, PTL DEF Spec

---------------------------------------------------------------------------
(* What the applications are handed *)

(* They start in their initial states.                                     *)
LEMMA DeliveryInits == ASSUME Init PROVE InitS /\ InitT /\ InitWH
  BY DEF Init

(* A step of the node is for each a step of it or none.                    *)
LEMMA DeliverySteps ==
    ASSUME [Next]_varsNode
    PROVE  [NextS]_varsS /\ [NextT]_varsT /\ [NextWH]_varsWH
<1>1. CASE UNCHANGED varsNode
  BY <1>1 DEF varsNode
<1>2. CASE Next
  BY <1>2 DEF Next
<1> QED BY <1>1, <1>2

---------------------------------------------------------------------------
(* Webhooks *)

(* What waits or is in a call has no answer, the rest has one, unless the  *)
(* acknowledgement goes first.  A call carries no reply.                   *)
IsReplyTo(e) == modeT.reply /\ HookEvents[e].msg /\ HookEvents[e].cid
InCall(e) == \E E \in callsT : e \in E
CallsOK ==
    /\ \A E \in callsT : \A e \in E : e \in DOMAIN HookEvents /\ e \notin todoT /\ ~IsReplyTo(e)
    /\ ~FastAck => \A E, F \in callsT : E = F
AnswersOK ==
    \A e \in DOMAIN HookEvents :
        answersT[e] = IF e \in todoT \/ (~FastAck /\ InCall(e)) THEN 0 ELSE 1
HookInv ==
    /\ todoT \subseteq DOMAIN HookEvents /\ answersT \in [DOMAIN HookEvents -> Nat]
    /\ CallsOK /\ AnswersOK
    /\ \A r \in repliesT : ~HookEvents[r[1]].cid

(* Nothing is answered at first.                                           *)
LEMMA HookInit == ASSUME InitWH PROVE HookInv
BY DEF InitWH, HookInv, CallsOK, AnswersOK, InCall

(* What an answer to a set of events adds.                                 *)
LEMMA AnswerAdds ==
    ASSUME answersT \in [DOMAIN HookEvents -> Nat], NEW E, Answer(E)
    PROVE  /\ answersT' \in [DOMAIN HookEvents -> Nat]
           /\ \A e \in DOMAIN HookEvents : answersT'[e] = IF e \in E THEN answersT[e] + 1 ELSE answersT[e]
BY DEF Answer

(* Every step of a webhook keeps it.                                       *)
LEMMA HookStep == ASSUME HookInv, [NextWH]_varsWH PROVE HookInv'
<1>1. CASE UNCHANGED varsWH
  BY <1>1 DEF varsWH, HookInv, CallsOK, AnswersOK, InCall, IsReplyTo, FastAck
<1>2. ASSUME NEW e \in todoT, DeliveryRequest(e) PROVE HookInv'
  <2>1. /\ modeT' = modeT /\ repliesT' = repliesT /\ todoT' = todoT \ {e} /\ (FastAck \/ callsT = {})
        /\ callsT' = IF IsReplyTo(e) THEN callsT ELSE callsT \cup {{e}}
        /\ Answer(IF FastAck THEN {e} ELSE IsReply({e}))
    BY <1>2 DEF DeliveryRequest, IsReply, IsReplyTo
  <2>2. IsReply({e}) = IF IsReplyTo(e) THEN {e} ELSE {} BY DEF IsReply, IsReplyTo
  <2>3. FastAck => ~IsReplyTo(e) BY DEF FastAck, IsReplyTo
  <2>4. FastAck' = FastAck /\ \A d : IsReplyTo(d)' = IsReplyTo(d) BY <2>1 DEF FastAck, IsReplyTo
  <2>5. /\ answersT' \in [DOMAIN HookEvents -> Nat]
        /\ \A d \in DOMAIN HookEvents : answersT'[d] =
              IF d = e /\ (FastAck \/ IsReplyTo(e)) THEN answersT[d] + 1 ELSE answersT[d]
    BY <2>1, <2>2, AnswerAdds DEF HookInv
  <2>6. CallsOK' BY <2>1, <2>3, <2>4 DEF HookInv, CallsOK
  <2>7. AnswersOK' BY <2>1, <2>3, <2>4, <2>5 DEF HookInv, AnswersOK, CallsOK, InCall
  <2> QED BY <2>1, <2>5, <2>6, <2>7 DEF HookInv
<1>3. ASSUME NEW E \in SUBSET todoT, BatchDeliveryRequest(E) PROVE HookInv'
  <2>1. /\ modeT' = modeT /\ repliesT' = repliesT /\ todoT' = todoT \ E /\ (FastAck \/ callsT = {})
        /\ callsT' = callsT \cup {E \ IsReply(E)}
        /\ Answer(IF FastAck THEN E ELSE IsReply(E))
    BY <1>3 DEF BatchDeliveryRequest
  <2>2. \A e : e \in IsReply(E) <=> e \in E /\ IsReplyTo(e) BY DEF IsReply, IsReplyTo
  <2>3. FastAck => \A e : ~IsReplyTo(e) BY DEF FastAck, IsReplyTo
  <2>4. FastAck' = FastAck /\ \A d : IsReplyTo(d)' = IsReplyTo(d) BY <2>1 DEF FastAck, IsReplyTo
  <2>5. /\ answersT' \in [DOMAIN HookEvents -> Nat]
        /\ \A d \in DOMAIN HookEvents : answersT'[d] =
              IF d \in E /\ (FastAck \/ IsReplyTo(d)) THEN answersT[d] + 1 ELSE answersT[d]
    BY <2>1, <2>2, AnswerAdds DEF HookInv
  <2>6. CallsOK' BY <2>1, <2>2, <2>3, <2>4 DEF HookInv, CallsOK
  <2>7. ~FastAck => \A d : (InCall(d))' <=> d \in E /\ ~IsReplyTo(d) BY <2>1, <2>2 DEF InCall
  <2>8. ~FastAck => \A d : ~InCall(d) BY <2>1 DEF InCall
  <2>9. AnswersOK' BY <2>1, <2>3, <2>4, <2>5, <2>7, <2>8 DEF HookInv, AnswersOK
  <2> QED BY <2>1, <2>5, <2>6, <2>9 DEF HookInv
<1>4. ASSUME NEW E \in callsT, NEW status \in attemptRequest, doDelivery(E, status) PROVE HookInv'
  <2> DEFINE replied == {e \in E : modeT.reply /\ HookEvents[e].msg}
  <2>1. /\ modeT' = modeT /\ todoT' = todoT /\ callsT' = callsT \ {E}
        /\ repliesT' = repliesT \cup {<<e, status>> : e \in replied}
        /\ Answer(replied \cup (IF FastAck THEN {} ELSE E))
    BY <1>4 DEF doDelivery
  <2>2. FastAck => replied = {} BY DEF FastAck
  <2>3. \A e \in replied : e \in E /\ ~HookEvents[e].cid BY DEF HookInv, CallsOK, IsReplyTo
  <2>4. FastAck' = FastAck /\ \A d : IsReplyTo(d)' = IsReplyTo(d) BY <2>1 DEF FastAck, IsReplyTo
  <2>5. /\ answersT' \in [DOMAIN HookEvents -> Nat]
        /\ \A d \in DOMAIN HookEvents : answersT'[d] =
              IF d \in E /\ ~FastAck THEN answersT[d] + 1 ELSE answersT[d]
    BY <2>1, <2>2, <2>3, AnswerAdds DEF HookInv
  <2> HIDE DEF replied
  <2>6. CallsOK' BY <2>1, <2>4 DEF HookInv, CallsOK
  <2>7. AnswersOK' BY <2>1, <2>4, <2>5 DEF HookInv, AnswersOK, CallsOK, InCall
  <2>8. \A r \in repliesT' : ~HookEvents[r[1]].cid BY <2>1, <2>3 DEF HookInv
  <2> QED BY <2>1, <2>5, <2>6, <2>7, <2>8 DEF HookInv
<1> QED BY <1>1, <1>2, <1>3, <1>4 DEF NextWH

(* Each event is answered once.                                            *)
LEMMA HookSafe == ASSUME HookInv PROVE HookAnswersOnce
BY DEF HookInv, HookAnswersOnce, AnswersOK, InCall

---------------------------------------------------------------------------
(* Websocket connections *)

(* What is handed to the connection at a time: deliveries of one           *)
(* subscription, one unless it takes batches.                              *)
DeliveryT == UNION {{<<EventsT[s][i], s>> : i \in DOMAIN EventsT[s]} : s \in SubT}
Made(dl, s) ==
    /\ s \in startedT /\ dl \in Seq(DeliveryT) /\ dl # <<>>
    /\ \A k \in DOMAIN dl : dl[k][2] = s
    /\ s \notin BatchedT => Len(dl) = 1
Given(next, d) == \E i \in 1..next[d[2]] : d = <<EventsT[d[2]][i], d[2]>>
TypeT ==
    /\ startedT \in SUBSET SubT
    /\ DOMAIN nextT = SubT /\ \A s \in SubT : nextT[s] \in 0..Len(EventsT[s])
    /\ \A s \in BatchedT \cap SubT : nextT[s] \in {0, Len(EventsT[s])}
    /\ \A x \in sendT : x = <<x[1], x[2]>> /\ Made(x[2], x[1])
    /\ clientT \in Seq(Seq(DeliveryT))
    /\ \A j \in DOMAIN clientT : \E s \in SubT : Made(clientT[j], s)
    /\ inflightT \in Seq(DeliveryT)

(* What is in flight was given to a subscription that takes single events, *)
(* and is there once.  Batches are of the others.                          *)
InflightT ==
    /\ \A k \in DOMAIN inflightT :
          inflightT[k][2] \in startedT \ BatchedT /\ Given(nextT, inflightT[k])
    /\ \A j, k \in DOMAIN inflightT : inflightT[j] = inflightT[k] => j = k
    /\ \A batch \in batchesT : batch[1][2] \in BatchedT
OneSendT == \A x, y \in sendT : x[1] = y[1] => x = y

(* While one subscription is served, the application is sent what is in    *)
(* flight in its order.                                                    *)
SentInOrderT ==
    \A s \in SubT \ BatchedT : startedT = {s} /\ ~autoT /\ openT =>
        /\ Len(inflightT) = Len(clientT) + (IF sendT = {} THEN 0 ELSE 1)
        /\ \A k \in DOMAIN clientT : inflightT[k] = clientT[k][1]
        /\ \A x \in sendT : inflightT[Len(inflightT)] = x[2][1]
SocketInv == TypeT /\ InflightT /\ OneSendT /\ SentInOrderT /\ AcksMeant /\ NothingDropped

(* Nothing is given at first.                                              *)
LEMMA SocketInit == ASSUME InitT PROVE SocketInv
<1>1. TypeT
  <2>1. \A s \in SubT : Len(EventsT[s]) \in Nat BY SocketAssumption
  <2> QED BY <2>1 DEF InitT, TypeT
<1>2. InflightT /\ OneSendT /\ SentInOrderT BY DEF InitT, InflightT, OneSendT, SentInOrderT
<1>3. AcksMeant /\ NothingDropped BY DEF InitT, AcksMeant, NothingDropped
<1> QED BY <1>1, <1>2, <1>3 DEF SocketInv

(* A sequence with one place left out: what was before it stays, what was  *)
(* behind it moves up.                                                     *)
LEMMA WithoutIs ==
    ASSUME NEW S, NEW seq \in Seq(S), NEW k \in DOMAIN seq
    PROVE  /\ Without(seq, k) \in Seq(S) /\ Len(Without(seq, k)) = Len(seq) - 1
           /\ Len(seq) \in Nat /\ DOMAIN seq = 1..Len(seq)
           /\ \A j \in 1..k - 1 : Without(seq, k)[j] = seq[j]
           /\ \A j \in k..Len(seq) - 1 : Without(seq, k)[j] = seq[j + 1]
<1>1. Len(seq) \in Nat /\ DOMAIN seq = 1..Len(seq) /\ k \in 1..Len(seq) /\ \A j \in 1..Len(seq) : seq[j] \in S
  OBVIOUS
<1> DEFINE a == SubSeq(seq, 1, k - 1)
           b == SubSeq(seq, k + 1, Len(seq))
<1>2. a \in Seq(S) /\ Len(a) = k - 1 /\ \A j \in 1..k - 1 : a[j] = seq[j]
  <2>1. 1 \in Int /\ k - 1 \in Int /\ \A j \in 1..k - 1 : seq[j] \in S BY <1>1
  <2>2. /\ a \in Seq(S) /\ Len(a) = IF 1 <= k - 1 THEN k - 1 - 1 + 1 ELSE 0
        /\ \A j \in 1..k - 1 - 1 + 1 : a[j] = seq[1 + j - 1]
    BY <2>1, SubSeqProperties
  <2>3. Len(a) = k - 1 BY <1>1, <2>2
  <2>4. \A j \in 1..k - 1 : j \in 1..k - 1 - 1 + 1 /\ 1 + j - 1 = j BY <1>1
  <2> HIDE DEF a
  <2>5. \A j \in 1..k - 1 : a[j] = seq[j] BY <2>2, <2>4
  <2> QED BY <2>2, <2>3, <2>5
<1>3. b \in Seq(S) /\ Len(b) = Len(seq) - k /\ \A j \in 1..Len(seq) - k : b[j] = seq[k + j]
  <2>1. k + 1 \in Int /\ Len(seq) \in Int /\ \A j \in k + 1..Len(seq) : seq[j] \in S BY <1>1
  <2>2. /\ b \in Seq(S) /\ Len(b) = IF k + 1 <= Len(seq) THEN Len(seq) - (k + 1) + 1 ELSE 0
        /\ \A j \in 1..Len(seq) - (k + 1) + 1 : b[j] = seq[k + 1 + j - 1]
    BY <2>1, SubSeqProperties
  <2>3. Len(b) = Len(seq) - k BY <1>1, <2>2
  <2>4. \A j \in 1..Len(seq) - k : j \in 1..Len(seq) - (k + 1) + 1 /\ k + 1 + j - 1 = k + j BY <1>1
  <2> HIDE DEF b
  <2>5. \A j \in 1..Len(seq) - k : b[j] = seq[k + j] BY <2>2, <2>4
  <2> QED BY <2>2, <2>3, <2>5
<1> HIDE DEF a, b
<1>4. /\ a \o b \in Seq(S) /\ Len(a \o b) = Len(seq) - 1
      /\ \A j \in 1..k - 1 : (a \o b)[j] = a[j]
      /\ \A j \in k..Len(seq) - 1 : (a \o b)[j] = b[j - k + 1]
  <2>1. /\ a \o b \in Seq(S) /\ Len(a \o b) = Len(a) + Len(b)
        /\ \A j \in 1..Len(a) + Len(b) : (a \o b)[j] = IF j <= Len(a) THEN a[j] ELSE b[j - Len(a)]
    BY <1>2, <1>3, ConcatProperties
  <2>2. Len(a) + Len(b) = Len(seq) - 1 BY <1>1, <1>2, <1>3
  <2>3. \A j \in 1..k - 1 : j \in 1..Len(seq) - 1 /\ j <= k - 1 BY <1>1
  <2>4. \A j \in k..Len(seq) - 1 : j \in 1..Len(seq) - 1 /\ ~(j <= k - 1) /\ j - (k - 1) = j - k + 1 BY <1>1
  <2>5. \A j \in 1..k - 1 : (a \o b)[j] = a[j] BY <1>2, <2>1, <2>2, <2>3
  <2>6. \A j \in k..Len(seq) - 1 : (a \o b)[j] = b[j - k + 1] BY <1>2, <2>1, <2>2, <2>4
  <2> QED BY <2>1, <2>2, <2>5, <2>6
<1>5. \A j \in k..Len(seq) - 1 : j - k + 1 \in 1..Len(seq) - k /\ k + (j - k + 1) = j + 1
  BY <1>1
<1>6. \A j \in k..Len(seq) - 1 : (a \o b)[j] = seq[j + 1]
  BY <1>3, <1>4, <1>5
<1> QED BY <1>1, <1>2, <1>4, <1>6 DEF Without, a, b

(* Its elements are those at the other places.                             *)
LEMMA WithoutHas ==
    ASSUME NEW S, NEW seq \in Seq(S), NEW k \in DOMAIN seq
    PROVE  /\ \A j \in DOMAIN Without(seq, k) : \E i \in DOMAIN seq : i # k /\ Without(seq, k)[j] = seq[i]
           /\ \A i \in DOMAIN seq : i # k => \E j \in DOMAIN Without(seq, k) : Without(seq, k)[j] = seq[i]
<1>1. /\ Without(seq, k) \in Seq(S) /\ Len(Without(seq, k)) = Len(seq) - 1
      /\ Len(seq) \in Nat /\ DOMAIN seq = 1..Len(seq) /\ k \in 1..Len(seq)
      /\ \A j \in 1..k - 1 : Without(seq, k)[j] = seq[j]
      /\ \A j \in k..Len(seq) - 1 : Without(seq, k)[j] = seq[j + 1]
  BY WithoutIs
<1>2. DOMAIN Without(seq, k) = 1..Len(seq) - 1 BY <1>1
<1>3. ASSUME NEW j \in 1..Len(seq) - 1 PROVE \E i \in 1..Len(seq) : i # k /\ Without(seq, k)[j] = seq[i]
  <2>1. CASE j < k
    <3>1. j \in 1..k - 1 /\ j \in 1..Len(seq) /\ j # k BY <1>1, <2>1
    <3> QED BY <1>1, <3>1
  <2>2. CASE ~(j < k)
    <3>1. j \in k..Len(seq) - 1 /\ j + 1 \in 1..Len(seq) /\ j + 1 # k BY <1>1, <2>2
    <3> QED BY <1>1, <3>1
  <2> QED BY <2>1, <2>2
<1>4. ASSUME NEW i \in 1..Len(seq), i # k PROVE \E j \in 1..Len(seq) - 1 : Without(seq, k)[j] = seq[i]
  <2>1. CASE i < k
    <3>1. i \in 1..k - 1 /\ i \in 1..Len(seq) - 1 BY <1>1, <2>1
    <3> QED BY <1>1, <3>1
  <2>2. CASE ~(i < k)
    <3>1. i - 1 \in k..Len(seq) - 1 /\ i - 1 \in 1..Len(seq) - 1 /\ (i - 1) + 1 = i BY <1>1, <1>4, <2>2
    <3> QED BY <1>1, <3>1
  <2> QED BY <2>1, <2>2
<1> QED BY <1>1, <1>2, <1>3, <1>4

(* The events of a subscription.                                           *)
LEMMA EventsTyped ==
    ASSUME NEW s \in SubT
    PROVE  /\ Len(EventsT[s]) \in Nat /\ DOMAIN EventsT[s] = 1..Len(EventsT[s])
           /\ \A i \in DOMAIN EventsT[s] : <<EventsT[s][i], s>> \in DeliveryT
           /\ \A i, j \in DOMAIN EventsT[s] : EventsT[s][i] = EventsT[s][j] => i = j
<1> DEFINE E == {EventsT[s][i] : i \in DOMAIN EventsT[s]}
<1>1. EventsT[s] \in Seq(E) /\ \A i, j \in DOMAIN EventsT[s] : EventsT[s][i] = EventsT[s][j] => i = j
  BY SocketAssumption
<1> HIDE DEF E
<1>2. Len(EventsT[s]) \in Nat /\ DOMAIN EventsT[s] = 1..Len(EventsT[s]) BY <1>1
<1>3. \A i \in DOMAIN EventsT[s] : <<EventsT[s][i], s>> \in {<<EventsT[s][k], s>> : k \in DOMAIN EventsT[s]}
  OBVIOUS
<1>4. {<<EventsT[s][k], s>> : k \in DOMAIN EventsT[s]} \subseteq DeliveryT BY DEF DeliveryT
<1> QED BY <1>1, <1>2, <1>3, <1>4

(* What a dispatcher hands over next.                                      *)
LEMMA DeliveriesAre ==
    ASSUME TypeT, NEW s \in startedT, nextT[s] < Len(EventsT[s])
    PROVE  /\ Made(Deliveries(s), s) /\ Len(Deliveries(s)) \in Nat \ {0}
           /\ nextT[s] \in Nat /\ nextT[s] + Len(Deliveries(s)) \in 0..Len(EventsT[s])
           /\ s \in BatchedT => nextT[s] + Len(Deliveries(s)) = Len(EventsT[s])
           /\ s \notin BatchedT => /\ Len(Deliveries(s)) = 1
                                   /\ Deliveries(s) = <<<<EventsT[s][nextT[s] + 1], s>>>>
                                   /\ nextT[s] + 1 \in DOMAIN EventsT[s]
           /\ \A i \in nextT[s] + 1..nextT[s] + Len(Deliveries(s)) : <<EventsT[s][i], s>> \in InSeq(Deliveries(s))
<1>1. s \in SubT /\ nextT[s] \in 0..Len(EventsT[s]) BY DEF TypeT
<1>2. Len(EventsT[s]) \in Nat /\ DOMAIN EventsT[s] = 1..Len(EventsT[s])
  BY <1>1, EventsTyped
<1>3. CASE s \in BatchedT
  <2>1. nextT[s] = 0 BY <1>1, <1>3 DEF TypeT
  <2>2. Deliveries(s) = [i \in 1..Len(EventsT[s]) |-> <<EventsT[s][i], s>>] BY <1>2, <1>3 DEF Deliveries
  <2>3. \A i \in 1..Len(EventsT[s]) : <<EventsT[s][i], s>> \in DeliveryT BY <1>1, <1>2, EventsTyped
  <2>4. Deliveries(s) \in Seq(DeliveryT) /\ Len(Deliveries(s)) = Len(EventsT[s]) BY <1>2, <2>2, <2>3
  <2>5. \A k \in DOMAIN Deliveries(s) : Deliveries(s)[k] = <<EventsT[s][k], s>> BY <2>2
  <2>6. Deliveries(s) # <<>> BY <1>2, <2>1, <2>4
  <2>7. DOMAIN Deliveries(s) = 1..Len(EventsT[s]) BY <2>2
  <2> QED BY <1>1, <1>2, <1>3, <2>1, <2>4, <2>5, <2>6, <2>7 DEF Made, InSeq
<1>4. CASE s \notin BatchedT
  <2>1. Deliveries(s) = <<<<EventsT[s][nextT[s] + 1], s>>>> BY <1>4 DEF Deliveries
  <2>2. nextT[s] + 1 \in DOMAIN EventsT[s] BY <1>1, <1>2
  <2>3. <<EventsT[s][nextT[s] + 1], s>> \in DeliveryT BY <1>1, <2>2, EventsTyped
  <2>4. Deliveries(s) \in Seq(DeliveryT) /\ Len(Deliveries(s)) = 1 /\ DOMAIN Deliveries(s) = {1}
    BY <2>1, <2>3
  <2>5. \A i \in nextT[s] + 1..nextT[s] + 1 : i = nextT[s] + 1 BY <1>1, <1>2
  <2> QED BY <1>1, <1>2, <1>4, <2>1, <2>2, <2>4, <2>5 DEF Made, InSeq
<1> QED BY <1>3, <1>4

(* A subscription is started while the connection is open, or a refused    *)
(* start ends it.                                                          *)
LEMMA StartStep ==
    ASSUME SocketInv, NEW s \in SubT, NEW auto \in AutoAckT, handleStartT(s, auto)
    PROVE  SocketInv'
<1> USE DEF SocketInv
<1>1. /\ nextT' = nextT /\ inflightT' = inflightT /\ sendT' = sendT /\ clientT' = clientT
      /\ ackedT' = ackedT /\ meantT' = meantT /\ unnamedT' = unnamedT /\ batchesT' = batchesT
      /\ s \notin startedT /\ openT
      /\ \/ openT' = FALSE /\ startedT' = startedT /\ autoT' = autoT
         \/ startedT' = startedT \cup {s} /\ openT' = openT
  BY DEF handleStartT
<1>2. \A dl, t : Made(dl, t) => Made(dl, t)' BY <1>1 DEF Made
<1>3. TypeT' BY <1>1, <1>2 DEF TypeT
<1>4. InflightT' /\ OneSendT' BY <1>1 DEF InflightT, OneSendT, Given
<1>5. NothingDropped' BY <1>1 DEF NothingDropped
<1>6. AcksMeant'
  <2>1. IsFiniteSet(startedT) /\ IsFiniteSet(startedT') /\ startedT \subseteq startedT'
    BY <1>1, <1>3, SocketAssumption, FS_Subset DEF TypeT
  <2>2. Cardinality(startedT) \in Nat /\ Cardinality(startedT') \in Nat /\ Cardinality(startedT) <= Cardinality(startedT')
    BY <2>1, FS_Subset, FS_CardinalityType
  <2> QED BY <1>1, <2>2 DEF AcksMeant
<1>7. SentInOrderT'
  <2> SUFFICES ASSUME NEW t \in SubT \ BatchedT, startedT' = {t}, ~autoT', openT'
               PROVE  /\ Len(inflightT) = Len(clientT) + (IF sendT = {} THEN 0 ELSE 1)
                      /\ \A k \in DOMAIN clientT : inflightT[k] = clientT[k][1]
                      /\ \A x \in sendT : inflightT[Len(inflightT)] = x[2][1]
    BY <1>1 DEF SentInOrderT
  <2>1. startedT = {} BY <1>1
  <2>2. sendT = {} BY <2>1 DEF TypeT, Made
  <2>3. clientT = <<>> /\ inflightT = <<>> BY <2>1 DEF TypeT, Made, InflightT
  <2> QED BY <2>2, <2>3
<1> QED BY <1>3, <1>4, <1>5, <1>6, <1>7

(* A dispatcher hands over deliveries.                                     *)
LEMMA DispatchStepT == ASSUME SocketInv, NEW s \in SubT, dispatch(s) PROVE SocketInv'
<1> DEFINE dl == Deliveries(s)
<1>1. /\ openT /\ s \in startedT /\ nextT[s] < Len(EventsT[s]) /\ \A d \in sendT : d[1] # s
      /\ nextT' = [nextT EXCEPT ![s] = @ + Len(dl)] /\ sendT' = sendT \cup {<<s, dl>>}
      /\ inflightT' = IF autoT \/ s \in BatchedT THEN inflightT ELSE inflightT \o dl
      /\ startedT' = startedT /\ autoT' = autoT /\ openT' = openT /\ clientT' = clientT
      /\ ackedT' = ackedT /\ meantT' = meantT /\ unnamedT' = unnamedT
      /\ (autoT' <=> autoT) /\ (openT' <=> openT) /\ (unnamedT' <=> unnamedT)
  BY DEF dispatch
<1>2. TypeT /\ InflightT /\ OneSendT /\ SentInOrderT /\ AcksMeant /\ NothingDropped BY DEF SocketInv
<1>3. /\ Made(dl, s) /\ Len(dl) \in Nat \ {0}
      /\ nextT[s] \in Nat /\ nextT[s] + Len(dl) \in 0..Len(EventsT[s])
      /\ s \in BatchedT => nextT[s] + Len(dl) = Len(EventsT[s])
      /\ s \notin BatchedT => /\ Len(dl) = 1 /\ dl = <<<<EventsT[s][nextT[s] + 1], s>>>>
                              /\ nextT[s] + 1 \in DOMAIN EventsT[s]
      /\ \A i \in nextT[s] + 1..nextT[s] + Len(dl) : <<EventsT[s][i], s>> \in InSeq(dl)
  BY <1>1, <1>2, DeliveriesAre
<1> HIDE DEF dl
<1>4. /\ DOMAIN nextT' = SubT /\ nextT'[s] = nextT[s] + Len(dl)
      /\ \A t \in SubT : t # s => nextT'[t] = nextT[t]
  BY <1>1, <1>2 DEF TypeT
<1>5. \A x, t : Made(x, t) => Made(x, t)' BY <1>1 DEF Made
<1>6. inflightT' \in Seq(DeliveryT) BY <1>1, <1>2, <1>3 DEF TypeT, Made
<1>7. TypeT'
  <2>1. \A t \in SubT : nextT'[t] \in 0..Len(EventsT[t]) BY <1>2, <1>3, <1>4 DEF TypeT
  <2>2. \A t \in BatchedT \cap SubT : nextT'[t] \in {0, Len(EventsT[t])} BY <1>2, <1>3, <1>4 DEF TypeT
  <2>3. \A x \in sendT' : x = <<x[1], x[2]>> /\ (Made(x[2], x[1]))' BY <1>1, <1>2, <1>3, <1>5 DEF TypeT
  <2>4. \A j \in DOMAIN clientT' : \E t \in SubT : (Made(clientT[j], t))'
    <3>1. \A j \in DOMAIN clientT : \E t \in SubT : Made(clientT[j], t) BY <1>2 DEF TypeT
    <3>2. \A j \in DOMAIN clientT : \E t \in SubT : startedT' = startedT /\ Made(clientT[j], t) BY <1>1, <3>1
    <3> QED BY <1>1, <3>2 DEF Made
  <2> QED BY <1>1, <1>2, <1>4, <1>6, <2>1, <2>2, <2>3, <2>4 DEF TypeT
<1>13. \A batch \in batchesT' : batch[1][2] \in BatchedT
  <2>1. batchesT' = IF autoT \/ s \notin BatchedT THEN batchesT ELSE batchesT \cup {dl} BY DEF dispatch, dl
  <2>2. dl[1][2] = s BY <1>3 DEF Made
  <2> QED BY <1>2, <2>1, <2>2 DEF InflightT
<1>8. ASSUME autoT \/ s \in BatchedT PROVE InflightT' /\ SentInOrderT'
  <2>1. inflightT' = inflightT BY <1>1, <1>8
  <2>2. InflightT'
    <3>1. \A k \in DOMAIN inflightT : inflightT[k][2] # s /\ inflightT[k][2] \in SubT => Given(nextT', inflightT[k])
      BY <1>2, <1>4 DEF InflightT, Given
    <3>2. \A k \in DOMAIN inflightT : inflightT[k][2] = s => Given(nextT', inflightT[k])
      <4>1. \A i \in 1..nextT[s] : i \in 1..nextT'[s] BY <1>3, <1>4
      <4> QED BY <1>2, <4>1 DEF InflightT, Given
    <3> QED BY <1>1, <1>2, <1>13, <2>1, <3>1, <3>2 DEF InflightT, TypeT
  <2>3. SentInOrderT'
    <3>1. \A t \in SubT \ BatchedT : ~(startedT = {t} /\ ~autoT) BY <1>1, <1>8
    <3>2. \A u \in SubT \ BatchedT : ~(startedT' = {u} /\ ~autoT') BY <1>1, <3>1
    <3> QED BY <3>2 DEF SentInOrderT
  <2> QED BY <2>2, <2>3
<1>9. ASSUME ~autoT, s \notin BatchedT PROVE InflightT' /\ SentInOrderT'
  <2> DEFINE d == <<EventsT[s][nextT[s] + 1], s>>
  <2>1. inflightT' = Append(inflightT, d) /\ inflightT \in Seq(DeliveryT) /\ d \in DeliveryT
    <3>1. inflightT' = inflightT \o <<d>> BY <1>1, <1>3, <1>9
    <3>2. inflightT \in Seq(DeliveryT) BY <1>2 DEF TypeT
    <3>3. s \in SubT BY <1>1, <1>2 DEF TypeT
    <3>4. d \in DeliveryT BY <1>3, <1>9, <3>3, EventsTyped
    <3> HIDE DEF d
    <3> QED BY <3>1, <3>2, <3>4
  <2>2. /\ Len(inflightT) \in Nat /\ Len(inflightT') = Len(inflightT) + 1
        /\ DOMAIN inflightT' = DOMAIN inflightT \cup {Len(inflightT) + 1}
        /\ DOMAIN inflightT = 1..Len(inflightT)
        /\ \A k \in DOMAIN inflightT : inflightT'[k] = inflightT[k]
        /\ inflightT'[Len(inflightT) + 1] = d
    BY <2>1
  <2>3. \A k \in DOMAIN inflightT : inflightT[k] # d
    <3> SUFFICES ASSUME NEW k \in DOMAIN inflightT, inflightT[k] = d PROVE FALSE
      OBVIOUS
    <3>1. PICK i \in 1..nextT[s] : d = <<EventsT[s][i], s>> BY <1>2 DEF InflightT, Given
    <3>2. i \in DOMAIN EventsT[s] /\ i # nextT[s] + 1 BY <1>3, <1>9, <3>1, EventsTyped
    <3> QED BY <1>3, <1>9, <3>1, <3>2, EventsTyped
  <2>4. \A k \in DOMAIN inflightT : Given(nextT', inflightT[k])
    <3>1. \A k \in DOMAIN inflightT : inflightT[k][2] # s /\ inflightT[k][2] \in SubT => Given(nextT', inflightT[k])
      BY <1>2, <1>4 DEF InflightT, Given
    <3>2. \A k \in DOMAIN inflightT : inflightT[k][2] = s => Given(nextT', inflightT[k])
      <4>1. \A i \in 1..nextT[s] : i \in 1..nextT'[s] BY <1>3, <1>4
      <4> QED BY <1>2, <4>1 DEF InflightT, Given
    <3> QED BY <1>2, <3>1, <3>2 DEF InflightT, TypeT
  <2>5. d[2] = s /\ Given(nextT', d)
    <3>1. nextT[s] + 1 \in 1..nextT'[s] BY <1>3, <1>4, <1>9
    <3> QED BY <3>1 DEF Given
  <2> HIDE DEF d
  <2>6. InflightT'
    <3>3. \A k \in DOMAIN inflightT : inflightT[k][2] \in startedT \ BatchedT BY <1>2 DEF InflightT
    <3>4. s \in startedT \ BatchedT BY <1>1, <1>9
    <3>1. \A k \in DOMAIN inflightT' : inflightT'[k][2] \in startedT \ BatchedT /\ Given(nextT', inflightT'[k])
      BY <2>2, <2>4, <2>5, <3>3, <3>4
    <3>2. \A j, k \in DOMAIN inflightT' : inflightT'[j] = inflightT'[k] => j = k
      BY <1>2, <2>2, <2>3 DEF InflightT
    <3> QED BY <1>1, <1>13, <3>1, <3>2 DEF InflightT
  <2>7. SentInOrderT'
    <3> SUFFICES ASSUME NEW t \in SubT \ BatchedT, startedT = {t}
                 PROVE  /\ Len(inflightT') = Len(clientT) + 1
                        /\ \A k \in DOMAIN clientT : inflightT'[k] = clientT[k][1]
                        /\ \A x \in sendT' : inflightT'[Len(inflightT')] = x[2][1]
      BY <1>1 DEF SentInOrderT
    <3>1. t = s BY <1>1
    <3>2. sendT = {} BY <1>1, <1>2, <3>1 DEF TypeT, Made
    <3>5. Len(clientT) \in Nat /\ DOMAIN clientT = 1..Len(clientT) BY <1>2 DEF TypeT
    <3>6. Len(inflightT) = Len(clientT) + 0 /\ \A k \in DOMAIN clientT : inflightT[k] = clientT[k][1]
      BY <1>1, <1>2, <1>9, <3>1, <3>2 DEF SentInOrderT
    <3>3. /\ Len(inflightT) = Len(clientT) /\ Len(clientT) \in Nat /\ DOMAIN clientT = 1..Len(clientT)
          /\ \A k \in DOMAIN clientT : inflightT[k] = clientT[k][1]
      BY <3>5, <3>6
    <3>7. dl[1] = d BY <1>3, <1>9 DEF d
    <3>4. \A x \in sendT' : x[2][1] = d BY <1>1, <3>2, <3>7
    <3> QED BY <2>2, <3>3, <3>4
  <2> QED BY <2>6, <2>7
<1>10. OneSendT' BY <1>1, <1>2 DEF OneSendT
<1>11. AcksMeant' BY <1>1, <1>2 DEF AcksMeant
<1>12. NothingDropped'
  <2> SUFFICES ASSUME ~unnamedT, NEW t \in SubT, NEW i \in 1..nextT'[t]
               PROVE  \/ <<EventsT[t][i], t>> \in ackedT
                      \/ \E x \in sendT' : <<EventsT[t][i], t>> \in InSeq(x[2])
                      \/ \E j \in DOMAIN clientT : <<EventsT[t][i], t>> \in InSeq(clientT[j])
    BY <1>1 DEF NothingDropped
  <2>1. CASE i \in 1..nextT[t]
    BY <1>1, <1>2, <2>1 DEF NothingDropped
  <2>2. CASE t = s /\ i \notin 1..nextT[t]
    <3>1. i \in nextT[s] + 1..nextT[s] + Len(dl) BY <1>3, <1>4, <2>2
    <3>2. <<s, dl>> \in sendT' /\ <<s, dl>>[2] = dl BY <1>1
    <3> QED BY <1>3, <2>2, <3>1, <3>2
  <2> QED BY <1>4, <2>1, <2>2
<1> QED BY <1>7, <1>8, <1>9, <1>10, <1>11, <1>12 DEF SocketInv

(* The send loop writes to the application.                                *)
LEMMA SendStep == ASSUME SocketInv, NEW d \in sendT, sendLoop(d) PROVE SocketInv'
<1>1. /\ openT /\ sendT' = sendT \ {d}
      /\ clientT' = IF autoT THEN clientT ELSE Append(clientT, d[2])
      /\ ackedT' = IF autoT THEN ackedT \cup InSeq(d[2]) ELSE ackedT
      /\ meantT' = IF autoT THEN meantT \cup InSeq(d[2]) ELSE meantT
      /\ startedT' = startedT /\ autoT' = autoT /\ openT' = openT /\ nextT' = nextT
      /\ inflightT' = inflightT /\ batchesT' = batchesT /\ unnamedT' = unnamedT
      /\ (autoT' <=> autoT) /\ (openT' <=> openT) /\ (unnamedT' <=> unnamedT)
  BY DEF sendLoop, ackBatch
<1>2. TypeT /\ InflightT /\ OneSendT /\ SentInOrderT /\ AcksMeant /\ NothingDropped BY DEF SocketInv
<1>3. /\ Made(d[2], d[1]) /\ d[1] \in SubT /\ d[2] \in Seq(DeliveryT) BY <1>2 DEF TypeT, Made
<1>4. clientT \in Seq(Seq(DeliveryT)) /\ Len(clientT) \in Nat /\ DOMAIN clientT = 1..Len(clientT) BY <1>2 DEF TypeT
<1>5. /\ clientT' \in Seq(Seq(DeliveryT))
      /\ ~autoT => /\ Len(clientT') = Len(clientT) + 1 /\ DOMAIN clientT' = DOMAIN clientT \cup {Len(clientT) + 1}
                   /\ \A j \in DOMAIN clientT : clientT'[j] = clientT[j]
                   /\ clientT'[Len(clientT) + 1] = d[2]
  BY <1>1, <1>3, <1>4
<1>6. \A x, t : Made(x, t) => Made(x, t)' BY <1>1 DEF Made
<1>7. TypeT'
  <2>1. \A x \in sendT' : x = <<x[1], x[2]>> /\ (Made(x[2], x[1]))' BY <1>1, <1>2, <1>6 DEF TypeT
  <2>2. \A j \in DOMAIN clientT' : \E t \in SubT : startedT' = startedT /\ Made(clientT'[j], t)
    BY <1>1, <1>2, <1>3, <1>5 DEF TypeT
  <2>3. \A j \in DOMAIN clientT' : \E t \in SubT : (Made(clientT[j], t))' BY <2>2 DEF Made
  <2> QED BY <1>1, <1>2, <1>5, <2>1, <2>3 DEF TypeT
<1>8. InflightT' BY <1>1, <1>2 DEF InflightT
<1>9. OneSendT' BY <1>1, <1>2 DEF OneSendT
<1>10. SentInOrderT'
  <2> SUFFICES ASSUME NEW s \in SubT \ BatchedT, startedT = {s}, ~autoT
               PROVE  /\ Len(inflightT) = Len(clientT') + (IF sendT' = {} THEN 0 ELSE 1)
                      /\ \A k \in DOMAIN clientT' : inflightT[k] = clientT'[k][1]
                      /\ \A x \in sendT' : inflightT[Len(inflightT)] = x[2][1]
    BY <1>1 DEF SentInOrderT
  <2>1. \A x \in sendT : x[1] = s BY <1>2 DEF TypeT, Made
  <2>2. sendT' = {} BY <1>1, <1>2, <2>1 DEF OneSendT
  <2>3. /\ Len(inflightT) = Len(clientT) + 1 /\ \A k \in DOMAIN clientT : inflightT[k] = clientT[k][1]
        /\ inflightT[Len(inflightT)] = d[2][1]
    BY <1>1, <1>2 DEF SentInOrderT
  <2>4. Len(inflightT) = Len(clientT') + 0 BY <1>4, <1>5, <2>3
  <2>5. \A k \in DOMAIN clientT' : inflightT[k] = clientT'[k][1]
    <3>1. \A k \in DOMAIN clientT : inflightT[k] = clientT'[k][1] BY <1>5, <2>3
    <3>2. inflightT[Len(clientT) + 1] = clientT'[Len(clientT) + 1][1] BY <1>5, <2>3
    <3> QED BY <1>5, <3>1, <3>2
  <2> QED BY <2>2, <2>4, <2>5
<1>11. AcksMeant' BY <1>1, <1>2 DEF AcksMeant
<1>12. NothingDropped'
  <2> SUFFICES ASSUME ~unnamedT, NEW t \in SubT, NEW i \in 1..nextT[t]
               PROVE  \/ <<EventsT[t][i], t>> \in ackedT'
                      \/ \E x \in sendT' : <<EventsT[t][i], t>> \in InSeq(x[2])
                      \/ \E j \in DOMAIN clientT' : <<EventsT[t][i], t>> \in InSeq(clientT'[j])
    BY <1>1 DEF NothingDropped
  <2>1. CASE <<EventsT[t][i], t>> \in InSeq(d[2])
    <3>1. CASE autoT BY <1>1, <2>1, <3>1
    <3>2. CASE ~autoT BY <1>5, <2>1, <3>2
    <3> QED BY <3>1, <3>2
  <2>2. CASE <<EventsT[t][i], t>> \notin InSeq(d[2])
    <3>1. \/ <<EventsT[t][i], t>> \in ackedT
          \/ \E x \in sendT' : <<EventsT[t][i], t>> \in InSeq(x[2])
          \/ \E j \in DOMAIN clientT : <<EventsT[t][i], t>> \in InSeq(clientT[j])
      BY <1>1, <1>2, <2>2 DEF NothingDropped
    <3>2. \A j \in DOMAIN clientT : j \in DOMAIN clientT' /\ clientT'[j] = clientT[j] BY <1>1, <1>5
    <3> QED BY <1>1, <3>1, <3>2
  <2> QED BY <2>1, <2>2
<1> QED BY <1>7, <1>8, <1>9, <1>10, <1>11, <1>12 DEF SocketInv

(* A delivery is an event and its subscription.                            *)
LEMMA DeliveryPair == ASSUME NEW d \in DeliveryT PROVE d = <<d[1], d[2]>>
<1>1. PICK s \in SubT : d \in {<<EventsT[s][i], s>> : i \in DOMAIN EventsT[s]} BY DEF DeliveryT
<1> QED BY <1>1

(* What the acknowledgement of a delivery finds in flight is that          *)
(* delivery, unless it names no event.                                     *)
LEMMA AckFinds ==
    ASSUME TypeT, InflightT, NEW i \in DOMAIN clientT, NEW form, form # "none",
           NEW k \in checkAck(clientT[i][1], form)
    PROVE  inflightT[k] = clientT[i][1]
<1>1. PICK t \in SubT : Made(clientT[i], t) BY DEF TypeT
<1>2. clientT[i][1] \in DeliveryT /\ clientT[i][1][2] = t /\ t \in startedT BY <1>1 DEF Made
<1>3. k \in DOMAIN inflightT /\ inflightT[k] \in DeliveryT /\ inflightT[k][2] \in startedT
  BY DEF checkAck, TypeT, InflightT
<1>4. CASE inflightT[k] = clientT[i][1] BY <1>4
<1>5. CASE inflightT[k][1] = clientT[i][1][1] /\ Cardinality(startedT) = 1
  <2>1. IsFiniteSet(startedT) BY SocketAssumption, FS_Subset DEF TypeT
  <2>2. \E x : startedT = {x} BY <1>5, <2>1, FS_Singleton
  <2>3. inflightT[k][2] = clientT[i][1][2] BY <1>2, <1>3, <2>2
  <2>4. inflightT[k] = <<inflightT[k][1], inflightT[k][2]>> /\ clientT[i][1] = <<clientT[i][1][1], clientT[i][1][2]>>
    BY <1>2, <1>3, DeliveryPair
  <2> QED BY <1>5, <2>3, <2>4
<1> QED BY <1>4, <1>5 DEF checkAck

(* While one subscription takes single events, the oldest delivery the     *)
(* application has is the first in flight, and taking the same place out   *)
(* of both keeps them in step.                                             *)
LEMMA TakeOut ==
    ASSUME TypeT, InflightT, SentInOrderT, ~autoT, openT, NEW s \in SubT \ BatchedT, startedT = {s},
           NEW i \in DOMAIN clientT, NEW k \in DOMAIN inflightT, inflightT[k] = clientT[i][1],
           NEW client, client = Without(clientT, i), NEW inflight, inflight = Without(inflightT, k)
    PROVE  /\ Len(inflight) = Len(client) + (IF sendT = {} THEN 0 ELSE 1)
           /\ \A j \in DOMAIN client : inflight[j] = client[j][1]
           /\ \A x \in sendT : inflight[Len(inflight)] = x[2][1]
<1>1. clientT \in Seq(Seq(DeliveryT)) /\ inflightT \in Seq(DeliveryT) BY DEF TypeT
<1>2. /\ Len(client) = Len(clientT) - 1 /\ Len(clientT) \in Nat /\ DOMAIN clientT = 1..Len(clientT)
      /\ \A j \in 1..i - 1 : client[j] = clientT[j]
      /\ \A j \in i..Len(clientT) - 1 : client[j] = clientT[j + 1]
      /\ client \in Seq(Seq(DeliveryT))
  BY <1>1, WithoutIs
<1>3. /\ Len(inflight) = Len(inflightT) - 1 /\ Len(inflightT) \in Nat /\ DOMAIN inflightT = 1..Len(inflightT)
      /\ \A j \in 1..k - 1 : inflight[j] = inflightT[j]
      /\ \A j \in k..Len(inflightT) - 1 : inflight[j] = inflightT[j + 1]
      /\ inflight \in Seq(DeliveryT)
  BY <1>1, WithoutIs
<1>4. /\ Len(inflightT) = Len(clientT) + (IF sendT = {} THEN 0 ELSE 1)
      /\ \A j \in DOMAIN clientT : inflightT[j] = clientT[j][1]
      /\ \A x \in sendT : inflightT[Len(inflightT)] = x[2][1]
  BY DEF SentInOrderT
<1>5. i \in 1..Len(clientT) /\ i \in DOMAIN inflightT BY <1>2, <1>3, <1>4
<1>6. k = i BY <1>4, <1>5 DEF InflightT
<1>7. Len(inflight) = Len(client) + (IF sendT = {} THEN 0 ELSE 1) BY <1>2, <1>3, <1>4
<1>8. ASSUME NEW j \in DOMAIN client PROVE inflight[j] = client[j][1]
  <2>1. j \in 1..Len(clientT) - 1 BY <1>2
  <2>2. CASE j < i
    <3>1. j \in 1..i - 1 /\ j \in DOMAIN clientT BY <1>2, <1>5, <2>1, <2>2
    <3>2. client[j] = clientT[j] /\ inflight[j] = inflightT[j] BY <1>2, <1>3, <1>6, <3>1
    <3> QED BY <1>4, <3>1, <3>2
  <2>3. CASE ~(j < i)
    <3>1. \A c, f \in Nat : \A t \in 1..c : \A n \in 1..c - 1 :
            (f = c \/ f = c + 1) /\ ~(n < t) => n \in t..c - 1 /\ n \in t..f - 1 /\ n + 1 \in 1..c
      OBVIOUS
    <3>2. Len(inflightT) = Len(clientT) \/ Len(inflightT) = Len(clientT) + 1 BY <1>2, <1>4
    <3>3. j \in i..Len(clientT) - 1 /\ j \in i..Len(inflightT) - 1 /\ j + 1 \in DOMAIN clientT
      BY <1>2, <1>3, <1>5, <2>1, <2>3, <3>1, <3>2
    <3>4. client[j] = clientT[j + 1] BY <1>2, <3>3
    <3>5. inflight[j] = inflightT[j + 1] BY <1>3, <1>6, <3>3
    <3> QED BY <1>4, <3>3, <3>4, <3>5
  <2> QED BY <1>5, <2>1, <2>2, <2>3
<1>9. ASSUME NEW x \in sendT PROVE inflight[Len(inflight)] = x[2][1]
  <2>1. Len(inflightT) = Len(clientT) + 1 BY <1>4
  <2>2. Len(inflight) \in k..Len(inflightT) - 1 /\ Len(inflight) + 1 = Len(inflightT)
    BY <1>2, <1>3, <1>5, <1>6, <2>1
  <2>3. inflight[Len(inflight)] = inflightT[Len(inflight) + 1] BY <1>3, <2>2
  <2> QED BY <1>4, <2>2, <2>3
<1> QED BY <1>7, <1>8, <1>9

(* The application acknowledges.                                           *)
LEMMA AckStep ==
    ASSUME SocketInv, NEW i \in DOMAIN clientT, NEW form, handleAck(i, form) PROVE SocketInv'
<1> DEFINE batch == clientT[i]
           hits == checkAck(batch[1], form)
<1>1. /\ openT /\ ~autoT /\ (form = "none" => i = 1)
      /\ clientT' = Without(clientT, i) /\ meantT' = meantT \cup InSeq(batch)
      /\ (unnamedT' <=> (unnamedT \/ form = "none"))
      /\ startedT' = startedT /\ autoT' = autoT /\ (autoT' <=> autoT) /\ nextT' = nextT /\ sendT' = sendT
      /\ \/ /\ batch \in batchesT /\ form # "none"
            /\ ackedT' = ackedT \cup InSeq(batch) /\ batchesT' = batchesT \ {batch}
            /\ inflightT' = inflightT /\ openT' = openT
         \/ \E k \in hits : /\ ackedT' = ackedT \cup {inflightT[k]} /\ inflightT' = Without(inflightT, k)
                            /\ batchesT' = batchesT /\ openT' = openT
         \/ /\ openT' = FALSE /\ ackedT' = ackedT /\ inflightT' = inflightT /\ batchesT' = batchesT
  BY DEF handleAck, ackBatch
<1>2. TypeT /\ InflightT /\ OneSendT /\ SentInOrderT /\ AcksMeant /\ NothingDropped BY DEF SocketInv
<1>3. PICK t \in SubT : Made(batch, t) BY <1>2 DEF TypeT
<1>4. /\ batch \in Seq(DeliveryT) /\ t \in startedT /\ batch[1] \in DeliveryT /\ batch[1] \in InSeq(batch)
      /\ batch[1][2] = t /\ DOMAIN batch = 1..Len(batch)
      /\ t \notin BatchedT => InSeq(batch) = {batch[1]}
  BY <1>3 DEF Made, InSeq
<1> HIDE DEF hits, batch
<1>5. \A k \in hits : k \in DOMAIN inflightT /\ (form # "none" => inflightT[k] = batch[1])
                      /\ (form = "none" => k = 1)
  <2>1. \A k \in hits : k \in DOMAIN inflightT /\ (form = "none" => k = 1) BY DEF hits, checkAck
  <2>2. form # "none" => \A k \in hits : inflightT[k] = batch[1] BY <1>2, AckFinds DEF hits, batch
  <2> QED BY <2>1, <2>2
<1>6. clientT \in Seq(Seq(DeliveryT)) /\ inflightT \in Seq(DeliveryT) BY <1>2 DEF TypeT
<1>7. /\ clientT' \in Seq(Seq(DeliveryT))
      /\ \A j \in DOMAIN clientT' : \E m \in DOMAIN clientT : clientT'[j] = clientT[m]
      /\ \A m \in DOMAIN clientT : m # i => \E j \in DOMAIN clientT' : clientT'[j] = clientT[m]
  <2>1. Without(clientT, i) \in Seq(Seq(DeliveryT)) BY <1>6, WithoutIs
  <2>2. /\ \A j \in DOMAIN Without(clientT, i) : \E m \in DOMAIN clientT : m # i /\ Without(clientT, i)[j] = clientT[m]
        /\ \A m \in DOMAIN clientT : m # i => \E j \in DOMAIN Without(clientT, i) : Without(clientT, i)[j] = clientT[m]
    BY <1>6, WithoutHas
  <2> QED BY <1>1, <2>1, <2>2
<1>8. /\ inflightT' \in Seq(DeliveryT)
      /\ \A j \in DOMAIN inflightT' : \E m \in DOMAIN inflightT : inflightT'[j] = inflightT[m]
      /\ \A j, m \in DOMAIN inflightT' : inflightT'[j] = inflightT'[m] => j = m
  <2>1. CASE inflightT' = inflightT BY <1>2, <1>6, <2>1 DEF InflightT
  <2>2. ASSUME NEW k \in hits, inflightT' = Without(inflightT, k)
        PROVE  /\ inflightT' \in Seq(DeliveryT)
               /\ \A j \in DOMAIN inflightT' : \E m \in DOMAIN inflightT : inflightT'[j] = inflightT[m]
               /\ \A j, m \in DOMAIN inflightT' : inflightT'[j] = inflightT'[m] => j = m
    <3> DEFINE new == Without(inflightT, k)
    <3>1. /\ new \in Seq(DeliveryT) /\ Len(new) = Len(inflightT) - 1
          /\ Len(inflightT) \in Nat /\ DOMAIN inflightT = 1..Len(inflightT)
          /\ \A j \in 1..k - 1 : new[j] = inflightT[j]
          /\ \A j \in k..Len(inflightT) - 1 : new[j] = inflightT[j + 1]
      BY <1>5, <1>6, WithoutIs
    <3>2. \A j \in DOMAIN new : \E m \in DOMAIN inflightT : m # k /\ new[j] = inflightT[m]
      BY <1>5, <1>6, WithoutHas
    <3> HIDE DEF new
    <3>3. DOMAIN new = 1..Len(inflightT) - 1 /\ k \in 1..Len(inflightT) BY <1>5, <3>1
    <3>4. ASSUME NEW j \in DOMAIN new, NEW m \in DOMAIN new, new[j] = new[m] PROVE j = m
      <4>1. \A x \in DOMAIN new : IF x < k THEN x \in DOMAIN inflightT /\ new[x] = inflightT[x]
                                  ELSE x + 1 \in DOMAIN inflightT /\ new[x] = inflightT[x + 1]
        <5> TAKE x \in DOMAIN new
        <5>1. CASE x < k
          <6>1. x \in 1..k - 1 /\ x \in 1..Len(inflightT) BY <3>1, <3>3, <5>1
          <6> QED BY <3>1, <5>1, <6>1
        <5>2. CASE ~(x < k)
          <6>1. x \in k..Len(inflightT) - 1 /\ x + 1 \in 1..Len(inflightT) BY <3>1, <3>3, <5>2
          <6> QED BY <3>1, <5>2, <6>1
        <5> QED BY <5>1, <5>2
      <4>2. \A x, y \in DOMAIN inflightT : inflightT[x] = inflightT[y] => x = y BY <1>2 DEF InflightT
      <4>3. CASE j < k /\ m < k BY <3>4, <4>1, <4>2, <4>3
      <4>4. CASE j < k /\ ~(m < k)
        <5>1. j = m + 1 BY <3>4, <4>1, <4>2, <4>4
        <5> QED BY <3>1, <3>3, <4>4, <5>1
      <4>5. CASE ~(j < k) /\ m < k
        <5>1. j + 1 = m BY <3>4, <4>1, <4>2, <4>5
        <5> QED BY <3>1, <3>3, <4>5, <5>1
      <4>6. CASE ~(j < k) /\ ~(m < k)
        <5>1. j + 1 = m + 1 BY <3>4, <4>1, <4>2, <4>6
        <5> QED BY <3>1, <3>3, <5>1
      <4> QED BY <4>3, <4>4, <4>5, <4>6
    <3>5. inflightT' = new BY <2>2 DEF new
    <3> QED BY <3>1, <3>2, <3>4, <3>5
  <2> QED BY <1>1, <2>1, <2>2
<1>9. \A x, u : Made(x, u) => Made(x, u)' BY <1>1 DEF Made
<1>10. TypeT'
  <2>1. \A x \in sendT' : x = <<x[1], x[2]>> /\ (Made(x[2], x[1]))' BY <1>1, <1>2, <1>9 DEF TypeT
  <2>2. \A j \in DOMAIN clientT' : \E u \in SubT : startedT' = startedT /\ Made(clientT'[j], u)
    BY <1>1, <1>2, <1>7 DEF TypeT
  <2>3. \A j \in DOMAIN clientT' : \E u \in SubT : (Made(clientT[j], u))' BY <2>2 DEF Made
  <2> QED BY <1>1, <1>2, <1>7, <1>8, <2>1, <2>3 DEF TypeT
<1>11. InflightT' BY <1>1, <1>2, <1>8 DEF InflightT
<1>12. OneSendT' BY <1>1, <1>2 DEF OneSendT
<1>13. ASSUME NEW k \in hits, NEW s, startedT = {s} PROVE s \notin BatchedT /\ inflightT[k] = batch[1]
  <2>1. inflightT[k][2] \in startedT \ BatchedT BY <1>2, <1>5 DEF InflightT
  <2>2. s \in SubT \ BatchedT BY <1>2, <1>13, <2>1 DEF TypeT
  <2>3. CASE form = "none"
    <3>1. k = 1 /\ i = 1 BY <1>1, <1>5, <2>3
    <3>2. inflightT[i] = clientT[i][1] BY <1>1, <1>2, <1>13, <2>2 DEF SentInOrderT
    <3> QED BY <2>2, <3>1, <3>2 DEF batch
  <2> QED BY <1>5, <2>2, <2>3
<1>14. AcksMeant'
  <2> SUFFICES ASSUME ~((unnamedT \/ form = "none") /\ Cardinality(startedT) > 1) PROVE ackedT' \subseteq meantT'
    BY <1>1 DEF AcksMeant
  <2>1. ackedT \subseteq meantT BY <1>2 DEF AcksMeant
  <2>2. ASSUME NEW k \in hits PROVE inflightT[k] = batch[1]
    <3>1. CASE form = "none"
      <4>1. IsFiniteSet(startedT) BY <1>2, SocketAssumption, FS_Subset DEF TypeT
      <4>2. Cardinality(startedT) \in Nat /\ Cardinality(startedT) # 0
        BY <1>4, <4>1, FS_CardinalityType, FS_EmptySet
      <4>3. Cardinality(startedT) = 1 BY <3>1, <4>2
      <4>4. \E s : startedT = {s} BY <4>1, <4>3, FS_Singleton
      <4> QED BY <1>13, <4>4
    <3> QED BY <1>5, <3>1
  <2> QED BY <1>1, <1>4, <2>1, <2>2
<1>15. NothingDropped'
  <2> SUFFICES ASSUME openT', ~unnamedT, form # "none", NEW u \in SubT, NEW e \in 1..nextT[u]
               PROVE  \/ <<EventsT[u][e], u>> \in ackedT'
                      \/ \E x \in sendT : <<EventsT[u][e], u>> \in InSeq(x[2])
                      \/ \E j \in DOMAIN clientT' : <<EventsT[u][e], u>> \in InSeq(clientT'[j])
    BY <1>1 DEF NothingDropped
  <2>1. ackedT \subseteq ackedT' BY <1>1
  <2>2. InSeq(batch) \subseteq ackedT'
    <3>1. CASE batch \in batchesT /\ ackedT' = ackedT \cup InSeq(batch) BY <3>1
    <3>2. ASSUME NEW k \in hits, ackedT' = ackedT \cup {inflightT[k]} PROVE InSeq(batch) \subseteq ackedT'
      <4>1. inflightT[k] = batch[1] BY <1>5
      <4>2. t \notin BatchedT BY <1>2, <1>4, <1>5, <4>1 DEF InflightT
      <4> QED BY <1>4, <3>2, <4>1, <4>2
    <3> QED BY <1>1, <3>1, <3>2
  <2>3. \/ <<EventsT[u][e], u>> \in ackedT
        \/ \E x \in sendT : <<EventsT[u][e], u>> \in InSeq(x[2])
        \/ \E j \in DOMAIN clientT : <<EventsT[u][e], u>> \in InSeq(clientT[j])
    BY <1>1, <1>2 DEF NothingDropped
  <2>4. ASSUME NEW j \in DOMAIN clientT, <<EventsT[u][e], u>> \in InSeq(clientT[j])
        PROVE  \/ <<EventsT[u][e], u>> \in ackedT'
               \/ \E m \in DOMAIN clientT' : <<EventsT[u][e], u>> \in InSeq(clientT'[m])
    <3>1. CASE j = i BY <2>2, <2>4, <3>1 DEF batch
    <3>2. CASE j # i BY <1>7, <2>4, <3>2
    <3> QED BY <3>1, <3>2
  <2> QED BY <2>1, <2>3, <2>4
<1>16. SentInOrderT'
  <2> SUFFICES ASSUME NEW s \in SubT \ BatchedT, startedT = {s}, openT'
               PROVE  /\ Len(inflightT') = Len(clientT') + (IF sendT = {} THEN 0 ELSE 1)
                      /\ \A k \in DOMAIN clientT' : inflightT'[k] = clientT'[k][1]
                      /\ \A x \in sendT : inflightT'[Len(inflightT')] = x[2][1]
    BY <1>1 DEF SentInOrderT
  <2>1. batch \notin batchesT
    <3>1. t = s BY <1>4
    <3> QED BY <1>2, <1>4, <3>1 DEF InflightT
  <2>2. PICK k \in hits : inflightT' = Without(inflightT, k) BY <1>1, <2>1
  <2>3. k \in DOMAIN inflightT /\ inflightT[k] = clientT[i][1] BY <1>5, <1>13, <2>2 DEF batch
  <2>4. \A inflight : inflight = Without(inflightT, k) =>
            /\ Len(inflight) = Len(Without(clientT, i)) + (IF sendT = {} THEN 0 ELSE 1)
            /\ \A j \in DOMAIN Without(clientT, i) : inflight[j] = Without(clientT, i)[j][1]
            /\ \A x \in sendT : inflight[Len(inflight)] = x[2][1]
    BY <1>1, <1>2, <2>3, TakeOut
  <2> QED BY <1>1, <2>2, <2>4
<1> QED BY <1>10, <1>11, <1>12, <1>14, <1>15, <1>16 DEF SocketInv

(* Every step of a connection keeps it.                                    *)
LEMMA SocketStep == ASSUME SocketInv, [NextT]_varsT PROVE SocketInv'
<1>1. CASE UNCHANGED varsT
  <2>1. /\ startedT' = startedT /\ autoT' = autoT /\ openT' = openT /\ nextT' = nextT /\ inflightT' = inflightT
        /\ batchesT' = batchesT /\ sendT' = sendT /\ clientT' = clientT /\ ackedT' = ackedT /\ meantT' = meantT
        /\ unnamedT' = unnamedT
    BY <1>1 DEF varsT
  <2>2. TypeT' BY <2>1 DEF SocketInv, TypeT, Made
  <2>3. InflightT' /\ OneSendT' BY <2>1 DEF SocketInv, InflightT, OneSendT
  <2>4. SentInOrderT' BY <2>1 DEF SocketInv, SentInOrderT
  <2>5. AcksMeant' /\ NothingDropped' BY <2>1 DEF SocketInv, AcksMeant, NothingDropped
  <2> QED BY <2>2, <2>3, <2>4, <2>5 DEF SocketInv
<1>2. CASE closeT
  <2>1. /\ startedT' = startedT /\ autoT' = autoT /\ openT' = FALSE /\ nextT' = nextT /\ inflightT' = inflightT
        /\ batchesT' = batchesT /\ sendT' = sendT /\ clientT' = clientT /\ ackedT' = ackedT /\ meantT' = meantT
        /\ unnamedT' = unnamedT
    BY <1>2 DEF closeT
  <2>2. TypeT' BY <2>1 DEF SocketInv, TypeT, Made
  <2>3. InflightT' /\ OneSendT' BY <2>1 DEF SocketInv, InflightT, OneSendT
  <2>4. SentInOrderT' BY <2>1 DEF SentInOrderT
  <2>5. AcksMeant' /\ NothingDropped' BY <2>1 DEF SocketInv, AcksMeant, NothingDropped
  <2> QED BY <2>2, <2>3, <2>4, <2>5 DEF SocketInv
<1> QED BY <1>1, <1>2, StartStep, DispatchStepT, SendStep, AckStep DEF NextT

---------------------------------------------------------------------------
(* The subscription manager *)

(* Who is where: a registered connection has a table, the matcher is set   *)
(* when the start has reached the manager, what is to be closed with a     *)
(* connection is there once it is gone, and one is back after that only if *)
(* it went while a start was under way.                                    *)
TypeS ==
    /\ dbS \in Int /\ durableS \in Nat /\ connS \subseteq ConnS /\ matchS \subseteq connS
    /\ DOMAIN wsS = ConnS /\ DOMAIN startS = ConnS /\ DOMAIN tableS = ConnS /\ DOMAIN closingS = ConnS
    /\ \A c \in ConnS : \A d \in tableS[c] : d.v \in Nat
    /\ \A j \in jobsS : /\ j.def \in Int /\ DOMAIN j = {"id", "kind", "phase", "def", "list"}
                        /\ j.phase \in {"new", "read", "close", "install"}
                        /\ j.phase # "close" => j.list = {}
                        /\ j.phase \in {"read", "install"} => j.def > 0
                        /\ j.kind \in {"update", "delete"}
                        /\ j.kind = "delete" => j.phase \in {"new", "close"}
                        /\ j.kind = "update" /\ j.phase = "close" => j.def > 0
ConnsOK ==
    \A c \in ConnS :
        /\ c \notin connS => tableS[c] = {}
        /\ closingS[c] # {} => wsS[c] = "gone"
        /\ c \in matchS => startS[c] = "yes"
        /\ startS[c] = "yes" /\ (c \in connS \/ wsS[c] # "gone") => c \in matchS
        /\ wsS[c] = "gone" /\ c \notin lateS => c \notin connS
        /\ wsS[c] \in {"closed", "gone"} /\ startS[c] = "adding" => c \in lateS

(* While changes are handled one at a time, the tables follow the version  *)
(* in use, and that is the stored one but while a change is handled.       *)
TablesFollow ==
    \A c \in connS : /\ \A d \in tableS[c] : d.v > 0 => c \in matchS /\ d.v = durableS
                     /\ c \in matchS /\ durableS > 0 => \E d \in tableS[c] : d.v = durableS
OneChange ==
    /\ \A j, k \in jobsS : j = k
    /\ jobsS = {} => durableS = IF dbS > 0 THEN dbS ELSE 0
    /\ \A j \in jobsS : /\ j.kind = "update" => dbS > 0
                        /\ j.kind = "delete" => ~(dbS > 0)
                        /\ j.phase \in {"close", "install"} => durableS = 0
                        /\ j.kind = "update" /\ j.phase # "new" => j.def = dbS
SubsInv == TypeS /\ ConnsOK /\ NoOrphan /\ (~overlapS => TablesFollow /\ OneChange)

(* Nothing is there at first.                                              *)
LEMMA SubsInit == ASSUME InitS PROVE SubsInv
BY DEF InitS, SubsInv, TypeS, ConnsOK, NoOrphan, TablesFollow, OneChange

(* What the properties need of it.                                         *)
LEMMA SubsSafe == ASSUME SubsInv PROVE NoOrphan /\ ChangesTakeEffect /\ ClosedIsSilent
<1>1. NoOrphan BY DEF SubsInv
<1>2. ChangesTakeEffect
  <2> SUFFICES ASSUME jobsS = {}, ~overlapS
               PROVE  /\ durableS = IF dbS > 0 THEN dbS ELSE 0
                      /\ \A c \in connS : {d.v : d \in {e \in tableS[c] : e.v > 0}} =
                             IF startS[c] = "yes" /\ dbS > 0 THEN {dbS} ELSE {}
    BY DEF ChangesTakeEffect
  <2>1. durableS = IF dbS > 0 THEN dbS ELSE 0 BY DEF SubsInv, OneChange
  <2>2. ASSUME NEW c \in connS
        PROVE  {d.v : d \in {e \in tableS[c] : e.v > 0}} = IF startS[c] = "yes" /\ dbS > 0 THEN {dbS} ELSE {}
    <3>1. c \in ConnS /\ (c \in matchS <=> startS[c] = "yes") /\ dbS \in Int BY DEF SubsInv, TypeS, ConnsOK
    <3>2. /\ \A d \in tableS[c] : d.v > 0 => c \in matchS /\ d.v = durableS
          /\ c \in matchS /\ durableS > 0 => \E d \in tableS[c] : d.v = durableS
      BY DEF SubsInv, TablesFollow
    <3>3. CASE startS[c] = "yes" /\ dbS > 0 BY <2>1, <3>1, <3>2, <3>3
    <3>4. CASE ~(startS[c] = "yes" /\ dbS > 0) BY <2>1, <3>1, <3>2, <3>4
    <3> QED BY <3>3, <3>4
  <2> QED BY <2>1, <2>2
<1>3. ClosedIsSilent BY DEF SubsInv, ClosedIsSilent, NoOrphan, ConnsOK
<1> QED BY <1>1, <1>2, <1>3

(* A goroutine goes on: its record but for the phase, the definition and   *)
(* the list.                                                               *)
LEMMA MovesTo ==
    ASSUME TypeS, NEW job \in jobsS, NEW phase, NEW def, NEW list, Moves(job, phase, def, list)
    PROVE  \E new : /\ jobsS' = (jobsS \ {job}) \cup {new} /\ new.kind = job.kind /\ new.phase = phase
                    /\ new.def = def /\ new.list = list /\ DOMAIN new = {"id", "kind", "phase", "def", "list"}
<1> DEFINE new == [job EXCEPT !.phase = phase, !.def = def, !.list = list]
<1>1. DOMAIN job = {"id", "kind", "phase", "def", "list"} BY DEF TypeS
<1>2. /\ new.kind = job.kind /\ new.phase = phase /\ new.def = def /\ new.list = list
      /\ DOMAIN new = {"id", "kind", "phase", "def", "list"}
  BY <1>1
<1>3. jobsS' = (jobsS \ {job}) \cup {new} BY DEF Moves
<1> HIDE DEF new
<1> QED BY <1>2, <1>3

(* A change is stored and announced.                                       *)
LEMMA ChangeStep ==
    ASSUME SubsInv, CreateUpdateDurableSubscription \/ DeleteDurableSubscription PROVE SubsInv'
<1>1. PICK kind \in {"update", "delete"} :
         /\ Announced(kind) /\ dbS' \in Int
         /\ kind = "update" => dbS' > 0
         /\ kind = "delete" => ~(dbS' > 0)
  BY VersionsAssumption DEF CreateUpdateDurableSubscription, DeleteDurableSubscription, Deleted, SubsInv, TypeS
<1>2. PICK new : /\ jobsS' = jobsS \cup {new} /\ new.kind = kind /\ new.phase = "new" /\ new.def = 0 /\ new.list = {}
                 /\ DOMAIN new = {"id", "kind", "phase", "def", "list"}
  <2>1. jobsS' = jobsS \cup {Job(kind)} BY <1>1 DEF Announced
  <2>2. /\ Job(kind).kind = kind /\ Job(kind).phase = "new" /\ Job(kind).def = 0 /\ Job(kind).list = {}
        /\ DOMAIN Job(kind) = {"id", "kind", "phase", "def", "list"}
    BY DEF Job
  <2> QED BY <2>1, <2>2
<1>3. /\ durableS' = durableS /\ wsS' = wsS /\ startS' = startS /\ connS' = connS /\ matchS' = matchS
      /\ tableS' = tableS /\ closingS' = closingS /\ runS' = runS /\ lateS' = lateS
      /\ overlapS' <=> (overlapS \/ jobsS # {})
  BY <1>1 DEF Announced
<1>4. TypeS' BY <1>1, <1>2, <1>3 DEF SubsInv, TypeS
<1>5. ConnsOK' BY <1>3 DEF SubsInv, ConnsOK
<1>6. NoOrphan' BY <1>2, <1>3 DEF SubsInv, NoOrphan
<1>7. ~overlapS' => TablesFollow' BY <1>3 DEF SubsInv, TablesFollow
<1>8. ~overlapS' => OneChange' BY <1>1, <1>2, <1>3 DEF OneChange
<1> QED BY <1>4, <1>5, <1>6, <1>7, <1>8 DEF SubsInv

(* The definition is read, and with none the goroutine ends.               *)
LEMMA ReadStep == ASSUME SubsInv, NEW job \in jobsS, readDefinition(job) PROVE SubsInv'
<1>1. /\ job.kind = "update" /\ job.phase = "new" /\ dbS' = dbS
      /\ durableS' = durableS /\ wsS' = wsS /\ startS' = startS /\ connS' = connS /\ matchS' = matchS
      /\ tableS' = tableS /\ closingS' = closingS /\ runS' = runS /\ lateS' = lateS
      /\ (overlapS' <=> overlapS)
      /\ IF dbS > 0 THEN Moves(job, "read", dbS, {}) ELSE jobsS' = jobsS \ {job}
  BY DEF readDefinition, Ends
<1>2. TypeS /\ ConnsOK /\ NoOrphan /\ (~overlapS => TablesFollow /\ OneChange) BY DEF SubsInv
<1>3. \/ ~(dbS > 0) /\ jobsS' = jobsS \ {job}
      \/ dbS > 0 /\ \E new : /\ jobsS' = (jobsS \ {job}) \cup {new} /\ new.kind = "update" /\ new.phase = "read"
                             /\ new.def = dbS /\ new.list = {}
                             /\ DOMAIN new = {"id", "kind", "phase", "def", "list"}
  BY <1>1, <1>2, MovesTo
<1>4. job.list = {} BY <1>1, <1>2 DEF TypeS
<1>5. TypeS' BY <1>1, <1>2, <1>3 DEF TypeS
<1>6. ConnsOK' BY <1>1, <1>2 DEF ConnsOK
<1>7. NoOrphan' BY <1>1, <1>2, <1>3, <1>4 DEF NoOrphan
<1>8. ~overlapS' => TablesFollow' BY <1>1, <1>2 DEF TablesFollow
<1>9. ~overlapS' => OneChange' BY <1>1, <1>2, <1>3 DEF OneChange
<1> QED BY <1>5, <1>6, <1>7, <1>8, <1>9 DEF SubsInv

(* Starting dispatchers on connections leaves each that needs one with one *)
(* of the version.                                                         *)
LEMMA MatchesEach ==
    ASSUME NEW v \in Nat, v > 0, NEW conns, conns \subseteq connS',
           connS' \subseteq ConnS, matchSubToConnLocked(v, conns)
    PROVE  /\ DOMAIN tableS' = ConnS
           /\ \A c \in ConnS : c \notin conns => tableS'[c] = tableS[c]
           /\ \A c \in ConnS : tableS[c] \subseteq tableS'[c]
           /\ \A c \in ConnS : \A d \in tableS'[c] \ tableS[c] : d.v = v /\ c \in Starting(conns)
           /\ \A c \in Starting(conns) : \E d \in tableS'[c] : d.v = v
           /\ \A d \in runS' \ runS : d.c \in connS' /\ d \in tableS'[d.c]
           /\ runS \subseteq runS'
<1> DEFINE fresh == {[c |-> b, v |-> v, n |-> countS] : b \in Starting(conns)}
<1>1. /\ tableS' = [c \in ConnS |-> tableS[c] \cup {d \in fresh : d.c = c}] /\ runS' = runS \cup fresh
  BY DEF matchSubToConnLocked
<1>2. Starting(conns) \subseteq conns BY DEF Starting
<1>3. \A d \in fresh : d.c \in Starting(conns) /\ d.v = v OBVIOUS
<1>4. ASSUME NEW c \in Starting(conns) PROVE \E d \in fresh : d.c = c
  <2>1. [c |-> c, v |-> v, n |-> countS] \in fresh OBVIOUS
  <2>2. [c |-> c, v |-> v, n |-> countS].c = c OBVIOUS
  <2> QED BY <2>1, <2>2
<1> HIDE DEF fresh
<1>5. DOMAIN tableS' = ConnS /\ \A c \in ConnS : tableS'[c] = tableS[c] \cup {d \in fresh : d.c = c} BY <1>1
<1>6. Starting(conns) \subseteq ConnS BY <1>2
<1> QED BY <1>1, <1>2, <1>3, <1>4, <1>5, <1>6

(* A version is put to use.                                                *)
LEMMA InstallKeeps ==
    ASSUME SubsInv, NEW job \in jobsS, job.phase \in {"read", "install"}, installed(job),
           UNCHANGED <<dbS, wsS, startS, connS, closingS, overlapS, lateS>>, ~overlapS => durableS = 0
    PROVE  SubsInv'
<1>1. TypeS /\ ConnsOK /\ NoOrphan /\ (~overlapS => TablesFollow /\ OneChange) BY DEF SubsInv
<1>2. /\ dbS' = dbS /\ wsS' = wsS /\ startS' = startS /\ connS' = connS /\ matchS' = matchS
      /\ closingS' = closingS /\ lateS' = lateS /\ (overlapS' <=> overlapS)
      /\ durableS' = job.def /\ jobsS' = jobsS \ {job} /\ matchSubToConnLocked(job.def, connS)
  BY DEF installed, Ends
<1>3. PICK v, conns : v = job.def /\ conns = connS OBVIOUS
<1>4. v \in Nat /\ v > 0 /\ job.list = {} /\ job.kind = "update" BY <1>1, <1>3 DEF TypeS
<1>5. conns \subseteq connS' /\ connS' \subseteq ConnS /\ matchSubToConnLocked(v, conns)
  BY <1>1, <1>2, <1>3 DEF TypeS
<1>6. /\ DOMAIN tableS' = ConnS
      /\ \A c \in ConnS : c \notin conns => tableS'[c] = tableS[c]
      /\ \A c \in ConnS : tableS[c] \subseteq tableS'[c]
      /\ \A c \in ConnS : \A d \in tableS'[c] \ tableS[c] : d.v = v /\ c \in Starting(conns)
      /\ \A c \in Starting(conns) : \E d \in tableS'[c] : d.v = v
      /\ \A d \in runS' \ runS : d.c \in connS' /\ d \in tableS'[d.c]
      /\ runS \subseteq runS'
  BY <1>4, <1>5, MatchesEach
<1>7. TypeS'
  <2>1. \A c \in ConnS : \A d \in tableS'[c] : d.v \in Nat
    <3> TAKE c \in ConnS
    <3> TAKE d \in tableS'[c]
    <3>1. CASE d \in tableS[c] BY <1>1, <3>1 DEF TypeS
    <3>2. CASE d \notin tableS[c] BY <1>4, <1>6, <3>2
    <3> QED BY <3>1, <3>2
  <2> QED BY <1>1, <1>2, <1>3, <1>4, <1>6, <2>1 DEF TypeS
<1>8. ConnsOK' BY <1>1, <1>2, <1>3, <1>6 DEF ConnsOK
<1>9. NoOrphan'
  <2> SUFFICES ASSUME NEW d \in runS'
               PROVE  \/ (d.c \in connS /\ d \in tableS'[d.c]) \/ d \in closingS[d.c] \/ \E j \in jobsS' : d \in j.list
    BY <1>2 DEF NoOrphan
  <2>1. CASE d \notin runS BY <1>2, <1>6, <2>1
  <2>2. CASE d \in runS
    <3>1. \/ (d.c \in connS /\ d \in tableS[d.c]) \/ d \in closingS[d.c] \/ \E j \in jobsS : d \in j.list
      BY <1>1, <2>2 DEF NoOrphan
    <3>2. d.c \in connS => d.c \in ConnS BY <1>2, <1>5
    <3> QED BY <1>2, <1>4, <1>6, <3>1, <3>2
  <2> QED BY <2>1, <2>2
<1>10. ~overlapS' => TablesFollow'
  <2> SUFFICES ASSUME ~overlapS, NEW c \in connS
               PROVE  /\ \A d \in tableS'[c] : d.v > 0 => c \in matchS /\ d.v = v
                      /\ c \in matchS => \E d \in tableS'[c] : d.v = v
    BY <1>2, <1>3, <1>4 DEF TablesFollow
  <2>1. c \in ConnS /\ durableS = 0 BY <1>2, <1>5
  <2>2. \A d \in tableS[c] : ~(d.v > 0) BY <1>1, <2>1 DEF TablesFollow
  <2>3. c \in Starting(conns) <=> c \in matchS
    BY <1>1, <1>2, <1>3, <2>1, <2>2 DEF Starting, ConnsOK
  <2> QED BY <1>6, <2>1, <2>2, <2>3
<1>11. ~overlapS' => OneChange' BY <1>1, <1>2, <1>4 DEF OneChange
<1> QED BY <1>7, <1>8, <1>9, <1>10, <1>11 DEF SubsInv

(* The version in use is given up: its dispatchers go from the tables to   *)
(* the list of who is to close them.                                       *)
LEMMA CloseLockedKeeps ==
    ASSUME SubsInv, NEW job \in jobsS, closeDurableSubscriptionLocked(job),
           (job.kind = "update" /\ job.phase = "read") \/ (job.kind = "delete" /\ job.phase = "new"),
           UNCHANGED <<dbS, wsS, startS, connS, matchS, closingS, runS, overlapS, lateS>>
    PROVE  SubsInv'
<1>1. TypeS /\ ConnsOK /\ NoOrphan /\ (~overlapS => TablesFollow /\ OneChange) BY DEF SubsInv
<1> DEFINE list == UNION {{d \in tableS[c] : d.v > 0} : c \in connS}
<1>2. /\ dbS' = dbS /\ wsS' = wsS /\ startS' = startS /\ connS' = connS /\ matchS' = matchS /\ runS' = runS
      /\ closingS' = closingS /\ lateS' = lateS /\ (overlapS' <=> overlapS)
      /\ durableS' = 0 /\ Moves(job, "close", job.def, list)
      /\ DOMAIN tableS' = ConnS
      /\ \A c \in connS : tableS'[c] = {d \in tableS[c] : d.v = 0}
      /\ \A c \in ConnS \ connS : tableS'[c] = tableS[c]
  BY <1>1 DEF closeDurableSubscriptionLocked, TypeS
<1>3. \A c \in connS : \A d \in tableS[c] : d.v = 0 \/ d \in list
  BY <1>1 DEF TypeS
<1> HIDE DEF list
<1>4. PICK new : /\ jobsS' = (jobsS \ {job}) \cup {new} /\ new.kind = job.kind /\ new.phase = "close"
                 /\ new.def = job.def /\ new.list = list /\ DOMAIN new = {"id", "kind", "phase", "def", "list"}
  BY <1>1, <1>2, MovesTo
<1>5. job.list = {} /\ job.def \in Int /\ job.kind \in {"update", "delete"} /\ (job.kind = "update" => job.def > 0)
  BY <1>1 DEF TypeS
<1>6. TypeS'
  <2>1. \A c \in ConnS : tableS'[c] \subseteq tableS[c] BY <1>2
  <2> QED BY <1>1, <1>2, <1>4, <1>5, <2>1 DEF TypeS
<1>7. ConnsOK' BY <1>1, <1>2 DEF ConnsOK
<1>8. NoOrphan'
  <2> SUFFICES ASSUME NEW d \in runS
               PROVE  \/ (d.c \in connS /\ d \in tableS'[d.c]) \/ d \in closingS[d.c] \/ \E j \in jobsS' : d \in j.list
    BY <1>2 DEF NoOrphan
  <2>1. \/ (d.c \in connS /\ d \in tableS[d.c]) \/ d \in closingS[d.c] \/ \E j \in jobsS : d \in j.list
    BY <1>1 DEF NoOrphan
  <2>2. CASE d.c \in connS /\ d \in tableS[d.c] BY <1>2, <1>3, <1>4, <2>2
  <2>3. CASE \E j \in jobsS : d \in j.list BY <1>4, <1>5, <2>3
  <2> QED BY <2>1, <2>2, <2>3
<1>9. ~overlapS' => TablesFollow' BY <1>1, <1>2 DEF TablesFollow
<1>10. ~overlapS' => OneChange' BY <1>1, <1>2, <1>4 DEF OneChange
<1> QED BY <1>6, <1>7, <1>8, <1>9, <1>10 DEF SubsInv

(* A goroutine looks at the version in use.                                *)
LEMMA HandledStep ==
    ASSUME SubsInv, NEW job \in jobsS,
           newOrUpdatedDurableSubscription(job) \/ deletedDurableSubscription(job) \/ installAgain(job)
    PROVE  SubsInv'
<1>1. TypeS /\ ConnsOK /\ NoOrphan /\ (~overlapS => TablesFollow /\ OneChange) BY DEF SubsInv
<1>2. CASE newOrUpdatedDurableSubscription(job) /\ durableS = 0 /\ installed(job)
  BY <1>2, InstallKeeps DEF newOrUpdatedDurableSubscription
<1>3. CASE installAgain(job)
  <2>1. job.phase = "install" /\ installed(job) /\ UNCHANGED <<dbS, wsS, startS, connS, closingS, overlapS, lateS>>
    BY <1>3 DEF installAgain
  <2>2. ~overlapS => durableS = 0 BY <1>1, <2>1 DEF OneChange
  <2> QED BY <2>1, <2>2, InstallKeeps
<1>4. CASE newOrUpdatedDurableSubscription(job) /\ closeDurableSubscriptionLocked(job) /\ UNCHANGED <<matchS, runS, countS>>
  BY <1>4, CloseLockedKeeps DEF newOrUpdatedDurableSubscription
<1>5. CASE deletedDurableSubscription(job) /\ closeDurableSubscriptionLocked(job)
  BY <1>5, CloseLockedKeeps DEF deletedDurableSubscription
<1>6. ASSUME Ends(job), UNCHANGED <<dbS, durableS, wsS, startS, connS, matchS, tableS, closingS, runS, overlapS, lateS>>,
             \/ job.kind = "update" /\ job.phase = "read" /\ durableS = job.def
             \/ job.kind = "delete" /\ job.phase = "new" /\ durableS = 0
      PROVE  SubsInv'
  <2>1. /\ dbS' = dbS /\ wsS' = wsS /\ startS' = startS /\ connS' = connS /\ matchS' = matchS /\ runS' = runS
        /\ closingS' = closingS /\ lateS' = lateS /\ (overlapS' <=> overlapS) /\ tableS' = tableS
        /\ durableS' = durableS /\ jobsS' = jobsS \ {job}
    BY <1>6 DEF Ends
  <2>2. job.list = {} BY <1>1, <1>6 DEF TypeS
  <2>3. TypeS' BY <1>1, <2>1 DEF TypeS
  <2>4. ConnsOK' BY <1>1, <2>1 DEF ConnsOK
  <2>5. NoOrphan' BY <1>1, <2>1, <2>2 DEF NoOrphan
  <2>6. ~overlapS' => TablesFollow' BY <1>1, <2>1 DEF TablesFollow
  <2>7. ~overlapS' => OneChange' BY <1>1, <1>6, <2>1 DEF OneChange
  <2> QED BY <2>3, <2>4, <2>5, <2>6, <2>7 DEF SubsInv
<1> QED BY <1>2, <1>3, <1>4, <1>5, <1>6 DEF newOrUpdatedDurableSubscription, deletedDurableSubscription

(* The dispatchers on a list are closed.                                   *)
LEMMA CloseStep == ASSUME SubsInv, NEW job \in jobsS, closeDispatchers(job) PROVE SubsInv'
<1>1. TypeS /\ ConnsOK /\ NoOrphan /\ (~overlapS => TablesFollow /\ OneChange) BY DEF SubsInv
<1>2. /\ dbS' = dbS /\ wsS' = wsS /\ startS' = startS /\ connS' = connS /\ matchS' = matchS
      /\ closingS' = closingS /\ lateS' = lateS /\ (overlapS' <=> overlapS) /\ tableS' = tableS
      /\ durableS' = durableS /\ job.phase = "close" /\ runS' = runS \ job.list
      /\ IF job.kind = "update" THEN Moves(job, "install", job.def, {}) ELSE jobsS' = jobsS \ {job}
  BY DEF closeDispatchers, Ends
<1>3. \/ job.kind # "update" /\ jobsS' = jobsS \ {job}
      \/ job.kind = "update" /\ \E new : /\ jobsS' = (jobsS \ {job}) \cup {new} /\ new.kind = "update"
                                         /\ new.phase = "install" /\ new.def = job.def /\ new.list = {}
                                         /\ DOMAIN new = {"id", "kind", "phase", "def", "list"}
  BY <1>1, <1>2, MovesTo
<1>4. TypeS' BY <1>1, <1>2, <1>3 DEF TypeS
<1>5. ConnsOK' BY <1>1, <1>2 DEF ConnsOK
<1>6. NoOrphan' BY <1>1, <1>2, <1>3 DEF NoOrphan
<1>7. ~overlapS' => TablesFollow' BY <1>1, <1>2 DEF TablesFollow
<1>8. ~overlapS' => OneChange'
  <2>1. ~overlapS /\ job.kind # "update" => durableS = 0 /\ ~(dbS > 0) BY <1>1, <1>2 DEF TypeS, OneChange
  <2> QED BY <1>1, <1>2, <1>3, <2>1 DEF OneChange
<1> QED BY <1>4, <1>5, <1>6, <1>7, <1>8 DEF SubsInv

(* A client connects, starts, or its socket closes.                        *)
LEMMA ClientStep ==
    ASSUME SubsInv, NEW c \in ConnS, ServeHTTP(c) \/ handleStart(c) \/ closeSocket(c) PROVE SubsInv'
<1>1. TypeS /\ ConnsOK /\ NoOrphan /\ (~overlapS => TablesFollow /\ OneChange) BY DEF SubsInv
<1>2. /\ dbS' = dbS /\ jobsS' = jobsS /\ durableS' = durableS /\ connS' = connS /\ matchS' = matchS
      /\ tableS' = tableS /\ closingS' = closingS /\ runS' = runS /\ (overlapS' <=> overlapS)
      /\ DOMAIN wsS' = ConnS /\ DOMAIN startS' = ConnS
      /\ \A b \in ConnS \ {c} : wsS'[b] = wsS[b] /\ startS'[b] = startS[b] /\ (b \in lateS' <=> b \in lateS)
      /\ \/ wsS[c] = "none" /\ wsS'[c] = "open" /\ startS'[c] = startS[c] /\ (c \in lateS' <=> c \in lateS)
         \/ /\ wsS[c] = "open" /\ wsS'[c] = wsS[c] /\ startS[c] = "no" /\ startS'[c] = "adding"
            /\ (c \in lateS' <=> c \in lateS)
         \/ /\ wsS[c] = "open" /\ wsS'[c] = "closed" /\ startS'[c] = startS[c]
            /\ (c \in lateS' <=> (c \in lateS \/ startS[c] = "adding"))
  BY <1>1 DEF ServeHTTP, handleStart, closeSocket, TypeS
<1>3. TypeS' BY <1>1, <1>2 DEF TypeS
<1>4. ConnsOK'
  <2>1. ASSUME NEW b \in ConnS
        PROVE  /\ b \notin connS => tableS[b] = {}
               /\ closingS[b] # {} => wsS'[b] = "gone"
               /\ b \in matchS => startS'[b] = "yes"
               /\ startS'[b] = "yes" /\ (b \in connS \/ wsS'[b] # "gone") => b \in matchS
               /\ wsS'[b] = "gone" /\ b \notin lateS' => b \notin connS
               /\ wsS'[b] \in {"closed", "gone"} /\ startS'[b] = "adding" => b \in lateS'
    <3>1. CASE b = c BY <1>1, <1>2, <3>1 DEF ConnsOK
    <3>2. CASE b # c BY <1>1, <1>2, <3>2 DEF ConnsOK
    <3> QED BY <3>1, <3>2
  <2> QED BY <1>2, <2>1 DEF ConnsOK
<1>5. NoOrphan' BY <1>1, <1>2 DEF NoOrphan
<1>6. ~overlapS' => TablesFollow' /\ OneChange' BY <1>1, <1>2 DEF TablesFollow, OneChange
<1> QED BY <1>3, <1>4, <1>5, <1>6 DEF SubsInv

(* A start reaches the manager.                                            *)
LEMMA RegisterStep == ASSUME SubsInv, NEW c \in ConnS, registerConnection(c) PROVE SubsInv'
<1>1. TypeS /\ ConnsOK /\ NoOrphan /\ (~overlapS => TablesFollow /\ OneChange) BY DEF SubsInv
<1>2. /\ dbS' = dbS /\ jobsS' = jobsS /\ durableS' = durableS /\ wsS' = wsS /\ closingS' = closingS
      /\ (overlapS' <=> overlapS) /\ lateS' = lateS
      /\ startS[c] = "adding" /\ DOMAIN startS' = ConnS /\ startS'[c] = "yes"
      /\ \A b \in ConnS \ {c} : startS'[b] = startS[b]
      /\ connS' = connS \cup {c} /\ matchS' = matchS \cup {c}
      /\ IF durableS > 0 THEN matchSubToConnLocked(durableS, {c}) ELSE tableS' = tableS /\ runS' = runS
  BY <1>1 DEF registerConnection, TypeS
<1>3. c \notin matchS /\ connS' \subseteq ConnS /\ {c} \subseteq connS' BY <1>1, <1>2 DEF ConnsOK, TypeS
<1>4. PICK v : v = durableS OBVIOUS
<1>5. v \in Nat BY <1>1, <1>4 DEF TypeS
<1>6. /\ DOMAIN tableS' = ConnS
      /\ \A b \in ConnS \ {c} : tableS'[b] = tableS[b]
      /\ \A b \in ConnS : tableS[b] \subseteq tableS'[b]
      /\ \A d \in tableS'[c] \ tableS[c] : d.v = v
      /\ v > 0 /\ (\A d \in tableS[c] : ~(d.v > 0)) => \E d \in tableS'[c] : d.v = v
      /\ \A d \in runS' \ runS : d.c \in connS' /\ d \in tableS'[d.c]
      /\ ~(v > 0) => tableS' = tableS
  <2>1. CASE ~(v > 0) BY <1>1, <1>2, <1>4, <2>1 DEF TypeS
  <2>2. CASE v > 0
    <3>1. matchSubToConnLocked(v, {c}) BY <1>2, <1>4, <2>2
    <3>2. /\ DOMAIN tableS' = ConnS
          /\ \A b \in ConnS : b \notin {c} => tableS'[b] = tableS[b]
          /\ \A b \in ConnS : tableS[b] \subseteq tableS'[b]
          /\ \A b \in ConnS : \A d \in tableS'[b] \ tableS[b] : d.v = v /\ b \in Starting({c})
          /\ \A b \in Starting({c}) : \E d \in tableS'[b] : d.v = v
          /\ \A d \in runS' \ runS : d.c \in connS' /\ d \in tableS'[d.c]
      BY <1>3, <1>5, <2>2, <3>1, MatchesEach
    <3>3. (\A d \in tableS[c] : ~(d.v > 0)) => c \in Starting({c}) BY <1>2 DEF Starting
    <3> QED BY <2>2, <3>2, <3>3
  <2> QED BY <2>1, <2>2
<1>7. TypeS'
  <2>1. \A b \in ConnS : \A d \in tableS'[b] : d.v \in Nat
    <3> TAKE b \in ConnS
    <3> TAKE d \in tableS'[b]
    <3>1. CASE d \in tableS[b] BY <1>1, <3>1 DEF TypeS
    <3>2. CASE d \notin tableS[b]
      <4>1. b = c BY <1>6, <3>2
      <4> QED BY <1>5, <1>6, <3>2, <4>1
    <3> QED BY <3>1, <3>2
  <2>2. dbS' \in Int /\ durableS' \in Nat /\ connS' \subseteq ConnS /\ matchS' \subseteq connS'
    BY <1>1, <1>2, <1>3 DEF TypeS
  <2> QED BY <1>1, <1>2, <1>6, <2>1, <2>2 DEF TypeS
<1>8. ConnsOK'
  <2>1. ASSUME NEW b \in ConnS
        PROVE  /\ b \notin connS' => tableS'[b] = {}
               /\ closingS[b] # {} => wsS[b] = "gone"
               /\ b \in matchS' => startS'[b] = "yes"
               /\ startS'[b] = "yes" /\ (b \in connS' \/ wsS[b] # "gone") => b \in matchS'
               /\ wsS[b] = "gone" /\ b \notin lateS => b \notin connS'
               /\ wsS[b] \in {"closed", "gone"} /\ startS'[b] = "adding" => b \in lateS
    <3>1. CASE b = c BY <1>1, <1>2, <3>1 DEF ConnsOK
    <3>2. CASE b # c BY <1>1, <1>2, <1>6, <3>2 DEF ConnsOK
    <3> QED BY <3>1, <3>2
  <2> QED BY <1>2, <2>1 DEF ConnsOK
<1>9. NoOrphan'
  <2> SUFFICES ASSUME NEW d \in runS'
               PROVE  \/ (d.c \in connS' /\ d \in tableS'[d.c]) \/ d \in closingS[d.c] \/ \E j \in jobsS : d \in j.list
    BY <1>2 DEF NoOrphan
  <2>1. CASE d \notin runS BY <1>6, <2>1
  <2>2. CASE d \in runS
    <3>1. \/ (d.c \in connS /\ d \in tableS[d.c]) \/ d \in closingS[d.c] \/ \E j \in jobsS : d \in j.list
      BY <1>1, <2>2 DEF NoOrphan
    <3>2. d.c \in connS => d.c \in ConnS /\ d.c \in connS' BY <1>2, <1>3
    <3> QED BY <1>6, <3>1, <3>2
  <2> QED BY <2>1, <2>2
<1>10. ~overlapS' => TablesFollow'
  <2> SUFFICES ASSUME ~overlapS, NEW b \in connS'
               PROVE  /\ \A d \in tableS'[b] : d.v > 0 => b \in matchS' /\ d.v = durableS
                      /\ b \in matchS' /\ durableS > 0 => \E d \in tableS'[b] : d.v = durableS
    BY <1>2 DEF TablesFollow
  <2>1. b \in ConnS BY <1>3
  <2>2. CASE b = c
    <3>1. \A d \in tableS[c] : ~(d.v > 0) BY <1>1, <1>3 DEF TablesFollow, ConnsOK
    <3> QED BY <1>2, <1>4, <1>6, <2>2, <3>1
  <2>3. CASE b # c BY <1>1, <1>2, <1>6, <2>1, <2>3 DEF TablesFollow
  <2> QED BY <2>2, <2>3
<1>11. ~overlapS' => OneChange' BY <1>1, <1>2 DEF OneChange
<1> QED BY <1>7, <1>8, <1>9, <1>10, <1>11 DEF SubsInv

(* A connection has an ephemeral subscription.                             *)
LEMMA EphemeralStep == ASSUME SubsInv, NEW c \in ConnS, ephemeralSubscription(c) PROVE SubsInv'
<1>1. TypeS /\ ConnsOK /\ NoOrphan /\ (~overlapS => TablesFollow /\ OneChange) BY DEF SubsInv
<1> DEFINE d == [c |-> c, v |-> 0, n |-> countS]
<1>2. /\ dbS' = dbS /\ jobsS' = jobsS /\ durableS' = durableS /\ wsS' = wsS /\ closingS' = closingS
      /\ (overlapS' <=> overlapS) /\ lateS' = lateS /\ startS' = startS /\ matchS' = matchS
      /\ wsS[c] = "open" /\ connS' = connS \cup {c} /\ runS' = runS \cup {d}
      /\ DOMAIN tableS' = ConnS /\ tableS'[c] = tableS[c] \cup {d}
      /\ \A b \in ConnS \ {c} : tableS'[b] = tableS[b]
  BY <1>1 DEF ephemeralSubscription, TypeS
<1>3. d.c = c /\ d.v = 0 OBVIOUS
<1> HIDE DEF d
<1>4. TypeS'
  <2>1. \A b \in ConnS : \A e \in tableS'[b] : e.v \in Nat
    <3> TAKE b \in ConnS
    <3> TAKE e \in tableS'[b]
    <3>1. CASE e \in tableS[b] BY <1>1, <3>1 DEF TypeS
    <3>2. CASE e \notin tableS[b] BY <1>2, <1>3, <3>2
    <3> QED BY <3>1, <3>2
  <2>2. dbS' \in Int /\ durableS' \in Nat /\ connS' \subseteq ConnS /\ matchS' \subseteq connS'
    BY <1>1, <1>2 DEF TypeS
  <2> QED BY <1>1, <1>2, <2>1, <2>2 DEF TypeS
<1>5. ConnsOK'
  <2>1. ASSUME NEW b \in ConnS
        PROVE  /\ b \notin connS' => tableS'[b] = {}
               /\ startS[b] = "yes" /\ (b \in connS' \/ wsS[b] # "gone") => b \in matchS
               /\ wsS[b] = "gone" /\ b \notin lateS => b \notin connS'
    <3>1. CASE b = c BY <1>1, <1>2, <3>1 DEF ConnsOK
    <3>2. CASE b # c BY <1>1, <1>2, <3>2 DEF ConnsOK
    <3> QED BY <3>1, <3>2
  <2> QED BY <1>1, <1>2, <2>1 DEF ConnsOK
<1>6. NoOrphan'
  <2>1. ASSUME NEW e \in runS
        PROVE  \/ (e.c \in connS' /\ e \in tableS'[e.c]) \/ e \in closingS[e.c] \/ \E j \in jobsS : e \in j.list
    <3>1. \/ (e.c \in connS /\ e \in tableS[e.c]) \/ e \in closingS[e.c] \/ \E j \in jobsS : e \in j.list
      BY <1>1 DEF NoOrphan
    <3>2. e.c \in connS => e.c \in ConnS /\ tableS[e.c] \subseteq tableS'[e.c]
      BY <1>1, <1>2 DEF TypeS
    <3> QED BY <1>2, <3>1, <3>2
  <2> QED BY <1>2, <1>3, <2>1 DEF NoOrphan
<1>7. ~overlapS' => TablesFollow'
  <2> SUFFICES ASSUME ~overlapS, NEW b \in connS'
               PROVE  /\ \A e \in tableS'[b] : e.v > 0 => b \in matchS /\ e.v = durableS
                      /\ b \in matchS /\ durableS > 0 => \E e \in tableS'[b] : e.v = durableS
    BY <1>2 DEF TablesFollow
  <2>1. b \in ConnS BY <1>1, <1>2 DEF TypeS
  <2>2. CASE b \in connS
    <3>1. \A e \in tableS'[b] : e \in tableS[b] \/ e.v = 0 BY <1>2, <1>3, <2>1
    <3>2. tableS[b] \subseteq tableS'[b] BY <1>2, <2>1
    <3> QED BY <1>1, <2>2, <3>1, <3>2 DEF TablesFollow
  <2>3. CASE b \notin connS
    <3>1. b = c /\ tableS[b] = {} /\ b \notin matchS BY <1>1, <1>2, <2>1, <2>3 DEF ConnsOK, TypeS
    <3> QED BY <1>2, <1>3, <3>1
  <2> QED BY <2>2, <2>3
<1>8. ~overlapS' => OneChange' BY <1>1, <1>2 DEF OneChange
<1> QED BY <1>4, <1>5, <1>6, <1>7, <1>8 DEF SubsInv

(* The manager hears that a connection is closed, and closes what it had.  *)
LEMMA GoneStep ==
    ASSUME SubsInv, NEW c \in ConnS, connectionClosed(c) \/ closeOfConnection(c) PROVE SubsInv'
<1>1. TypeS /\ ConnsOK /\ NoOrphan /\ (~overlapS => TablesFollow /\ OneChange) BY DEF SubsInv
<1>2. CASE connectionClosed(c)
  <2>1. /\ dbS' = dbS /\ jobsS' = jobsS /\ durableS' = durableS /\ startS' = startS /\ runS' = runS
        /\ (overlapS' <=> overlapS) /\ lateS' = lateS
        /\ connS' = connS \ {c} /\ matchS' = matchS \ {c}
        /\ wsS[c] = "closed" /\ DOMAIN wsS' = ConnS /\ wsS'[c] = "gone"
        /\ DOMAIN tableS' = ConnS /\ tableS'[c] = {} /\ DOMAIN closingS' = ConnS /\ closingS'[c] = tableS[c]
        /\ \A b \in ConnS \ {c} : wsS'[b] = wsS[b] /\ tableS'[b] = tableS[b] /\ closingS'[b] = closingS[b]
    BY <1>1, <1>2 DEF connectionClosed, TypeS
  <2>2. TypeS'
    <3>1. \A b \in ConnS : tableS'[b] \subseteq tableS[b] BY <2>1
    <3>2. connS' \subseteq ConnS /\ matchS' \subseteq connS' BY <1>1, <2>1 DEF TypeS
    <3> QED BY <1>1, <2>1, <3>1, <3>2 DEF TypeS
  <2>3. ConnsOK'
    <3>1. ASSUME NEW b \in ConnS
          PROVE  /\ b \notin connS' => tableS'[b] = {}
                 /\ closingS'[b] # {} => wsS'[b] = "gone"
                 /\ b \in matchS' => startS[b] = "yes"
                 /\ startS[b] = "yes" /\ (b \in connS' \/ wsS'[b] # "gone") => b \in matchS'
                 /\ wsS'[b] = "gone" /\ b \notin lateS => b \notin connS'
                 /\ wsS'[b] \in {"closed", "gone"} /\ startS[b] = "adding" => b \in lateS
      <4>1. CASE b = c BY <1>1, <2>1, <4>1 DEF ConnsOK
      <4>2. CASE b # c BY <1>1, <2>1, <4>2 DEF ConnsOK
      <4> QED BY <4>1, <4>2
    <3> QED BY <2>1, <3>1 DEF ConnsOK
  <2>4. NoOrphan'
    <3> SUFFICES ASSUME NEW d \in runS
                 PROVE  \/ (d.c \in connS' /\ d \in tableS'[d.c]) \/ d \in closingS'[d.c] \/ \E j \in jobsS : d \in j.list
      BY <2>1 DEF NoOrphan
    <3>1. \/ (d.c \in connS /\ d \in tableS[d.c]) \/ d \in closingS[d.c] \/ \E j \in jobsS : d \in j.list
      BY <1>1 DEF NoOrphan
    <3>2. closingS[c] = {} BY <1>1, <2>1 DEF ConnsOK
    <3>3. CASE d.c = c BY <2>1, <3>1, <3>2, <3>3
    <3>4. CASE d.c \in ConnS \ {c} BY <2>1, <3>1, <3>4
    <3>5. CASE d.c \notin ConnS
      <4>1. d.c \notin connS BY <1>1, <3>5 DEF TypeS
      <4>2. closingS' = [closingS EXCEPT ![c] = tableS[c]] BY <1>2 DEF connectionClosed
      <4>3. d \in closingS[d.c] => d \in closingS'[d.c] BY <3>5, <4>2
      <4> QED BY <3>1, <4>1, <4>3
    <3> QED BY <3>3, <3>4, <3>5
  <2>5. ~overlapS' => TablesFollow'
    <3>1. \A b \in connS' : b \in ConnS \ {c} /\ b \in connS /\ tableS'[b] = tableS[b] /\ (b \in matchS' <=> b \in matchS)
      BY <1>1, <2>1 DEF TypeS
    <3> QED BY <1>1, <2>1, <3>1 DEF TablesFollow
  <2>6. ~overlapS' => OneChange' BY <1>1, <2>1 DEF OneChange
  <2> QED BY <2>2, <2>3, <2>4, <2>5, <2>6 DEF SubsInv
<1>3. CASE closeOfConnection(c)
  <2>1. /\ dbS' = dbS /\ jobsS' = jobsS /\ durableS' = durableS /\ startS' = startS
        /\ (overlapS' <=> overlapS) /\ lateS' = lateS /\ connS' = connS /\ matchS' = matchS
        /\ wsS' = wsS /\ tableS' = tableS /\ runS' = runS \ closingS[c]
        /\ DOMAIN closingS' = ConnS /\ closingS'[c] = {} /\ \A b \in ConnS \ {c} : closingS'[b] = closingS[b]
    BY <1>1, <1>3 DEF closeOfConnection, TypeS
  <2>2. TypeS' BY <1>1, <2>1 DEF TypeS
  <2>3. ConnsOK'
    <3>1. \A b \in ConnS : closingS'[b] # {} => closingS[b] # {} BY <2>1
    <3> QED BY <1>1, <2>1, <3>1 DEF ConnsOK
  <2>4. NoOrphan'
    <3> SUFFICES ASSUME NEW d \in runS, d \notin closingS[c]
                 PROVE  \/ (d.c \in connS /\ d \in tableS[d.c]) \/ d \in closingS'[d.c] \/ \E j \in jobsS : d \in j.list
      BY <2>1 DEF NoOrphan
    <3>1. \/ (d.c \in connS /\ d \in tableS[d.c]) \/ d \in closingS[d.c] \/ \E j \in jobsS : d \in j.list
      BY <1>1 DEF NoOrphan
    <3>2. closingS' = [closingS EXCEPT ![c] = {}] BY <1>3 DEF closeOfConnection
    <3>3. d \in closingS[d.c] => d \in closingS'[d.c] BY <3>2
    <3> QED BY <3>1, <3>3
  <2>5. ~overlapS' => TablesFollow' /\ OneChange' BY <1>1, <2>1 DEF TablesFollow, OneChange
  <2> QED BY <2>2, <2>3, <2>4, <2>5 DEF SubsInv
<1> QED BY <1>2, <1>3

(* Every step of the subscription manager keeps it.                        *)
LEMMA SubsStep == ASSUME SubsInv, [NextS]_varsS PROVE SubsInv'
<1>1. CASE UNCHANGED varsS
  <2>1. /\ dbS' = dbS /\ jobsS' = jobsS /\ durableS' = durableS /\ wsS' = wsS /\ startS' = startS
        /\ connS' = connS /\ matchS' = matchS /\ tableS' = tableS /\ closingS' = closingS /\ runS' = runS
        /\ (overlapS' <=> overlapS) /\ lateS' = lateS
    BY <1>1 DEF varsS
  <2> QED BY <2>1 DEF SubsInv, TypeS, ConnsOK, NoOrphan, TablesFollow, OneChange
<1>2. ASSUME NEW job \in jobsS,
             \/ readDefinition(job) \/ newOrUpdatedDurableSubscription(job)
             \/ deletedDurableSubscription(job) \/ closeDispatchers(job) \/ installAgain(job)
      PROVE  SubsInv'
  BY <1>2, ReadStep, HandledStep, CloseStep
<1>3. ASSUME NEW c \in ConnS,
             \/ ServeHTTP(c) \/ handleStart(c) \/ registerConnection(c) \/ ephemeralSubscription(c)
             \/ closeSocket(c) \/ connectionClosed(c) \/ closeOfConnection(c)
      PROVE  SubsInv'
  BY <1>3, ClientStep, RegisterStep, EphemeralStep, GoneStep
<1> QED BY <1>1, <1>2, <1>3, ChangeStep DEF NextS

---------------------------------------------------------------------------
(* In every behaviour of a node, whatever crosses what: no dispatcher of a *)
(* subscription is lost from every list, changes handled one at a time     *)
(* take effect, a connection that is closed has none left; a websocket     *)
(* acknowledgement reaches the dispatcher of a delivery the application    *)
(* acknowledged and no delivery is forgotten; and a webhook answers each   *)
(* event once (subscription_manager.go, websocket_connection.go,           *)
(* webhooks.go).                                                           *)
THEOREM Delivered == Spec => []DeliveredAsSubscribed
<1> DEFINE Inv == SubsInv /\ SocketInv /\ HookInv
<1>1. Init => Inv BY DeliveryInits, SubsInit, SocketInit, HookInit
<1>2. Inv /\ [Next]_varsNode => Inv'
  <2> SUFFICES ASSUME Inv, [Next]_varsNode PROVE Inv'
    OBVIOUS
  <2>1. [NextS]_varsS /\ [NextT]_varsT /\ [NextWH]_varsWH BY DeliverySteps
  <2> QED BY <2>1, SubsStep, SocketStep, HookStep
<1>3. Inv => DeliveredAsSubscribed
  BY SubsSafe, HookSafe DEF DeliveredAsSubscribed, SocketInv
<1> QED BY <1>1, <1>2, <1>3, PTL DEF Spec

---------------------------------------------------------------------------
(* Chain events: the connector's subscriptions and queue, the batch being  *)
(* handled, and what each namespace stores of it and hears                 *)

(* A function over the first numbers is a sequence.                        *)
LEMMA IsSeqOf ==
    ASSUME NEW S, NEW n \in Nat, NEW f, DOMAIN f = 1..n, \A i \in 1..n : f[i] \in S, f = [i \in 1..n |-> f[i]]
    PROVE  f \in Seq(S) /\ Len(f) = n
<1>1. f \in [1..n -> S] OBVIOUS
<1> QED BY <1>1

(* Only: the recursive function behind it, and what it returns.            *)
KeptIs(f, seq, S) ==
    f = [k \in 0..Len(seq) |-> IF k = 0 THEN <<>> ELSE IF seq[k] \in S THEN Append(f[k - 1], seq[k]) ELSE f[k - 1]]
KeptUpTo(f, seq, S, n) ==
    /\ f[0] = <<>>
    /\ \A k \in 1..n : f[k] = IF seq[k] \in S THEN Append(f[k - 1], seq[k]) ELSE f[k - 1]

LEMMA KeptExists == ASSUME NEW seq, NEW S, Len(seq) \in Nat PROVE \E f : KeptIs(f, seq, S)
<1> DEFINE G == {n \in Nat : \E f : KeptUpTo(f, seq, S, n)}
<1>1. 0 \in G
  <2>1. KeptUpTo([k \in {0} |-> <<>>], seq, S, 0) BY DEF KeptUpTo
  <2> QED BY <2>1
<1>2. ASSUME NEW n \in Nat, n \in G PROVE n + 1 \in G
  <2>1. PICK f : KeptUpTo(f, seq, S, n) BY <1>2
  <2> DEFINE g == [k \in 0..(n + 1) |-> IF k = n + 1 THEN IF seq[n + 1] \in S THEN Append(f[n], seq[n + 1]) ELSE f[n]
                                        ELSE f[k]]
  <2>2. g[n + 1] = (IF seq[n + 1] \in S THEN Append(f[n], seq[n + 1]) ELSE f[n]) /\ \A k \in 0..n : g[k] = f[k] OBVIOUS
  <2> HIDE DEF g
  <2>3. ASSUME NEW k \in 1..(n + 1) PROVE g[k] = IF seq[k] \in S THEN Append(g[k - 1], seq[k]) ELSE g[k - 1]
    <3>1. CASE k = n + 1 BY <2>2, <3>1
    <3>2. CASE k # n + 1
      <4>1. k \in 1..n /\ k \in 0..n /\ k - 1 \in 0..n BY <3>2
      <4> QED BY <2>1, <2>2, <4>1 DEF KeptUpTo
    <3> QED BY <3>1, <3>2
  <2>4. g[0] = <<>> BY <2>1, <2>2 DEF KeptUpTo
  <2>5. KeptUpTo(g, seq, S, n + 1) BY <2>3, <2>4 DEF KeptUpTo
  <2> QED BY <2>5
<1>3. Len(seq) \in G
  <2> HIDE DEF G
  <2> QED BY <1>1, <1>2, NatSetInduction
<1>4. PICK f : KeptUpTo(f, seq, S, Len(seq)) BY <1>3
<1> DEFINE h == [k \in 0..Len(seq) |-> f[k]]
<1>5. \A k \in 0..Len(seq) : h[k] = IF k = 0 THEN <<>> ELSE IF seq[k] \in S THEN Append(h[k - 1], seq[k]) ELSE h[k - 1]
  BY <1>4 DEF KeptUpTo
<1>6. h = [k \in 0..Len(seq) |-> h[k]] OBVIOUS
<1> HIDE DEF h
<1>7. KeptIs(h, seq, S) BY <1>5, <1>6 DEF KeptIs
<1> QED BY <1>7

(* The elements kept are those of the set, in their order.                 *)
KeptOK(g, seq, S, Ty, k) ==
    /\ g \in Seq(Ty)
    /\ \A i \in DOMAIN g : \E j \in 1..k : seq[j] \in S /\ g[i] = seq[j]
    /\ \A j \in 1..k : seq[j] \in S => \E i \in DOMAIN g : g[i] = seq[j]
    /\ \A i, l \in DOMAIN g : i < l => \E j, m \in 1..k : j < m /\ g[i] = seq[j] /\ g[l] = seq[m]

LEMMA KeptMore ==
    ASSUME NEW Ty, NEW seq, NEW S, NEW k \in Nat, NEW g, KeptOK(g, seq, S, Ty, k), seq[k + 1] \in Ty, NEW h,
           h = IF seq[k + 1] \in S THEN Append(g, seq[k + 1]) ELSE g
    PROVE  KeptOK(h, seq, S, Ty, k + 1)
<1>1. CASE seq[k + 1] \notin S
  <2>1. h = g /\ \A j \in 1..(k + 1) : j = k + 1 \/ j \in 1..k BY <1>1
  <2>2. \A j \in 1..k : j \in 1..(k + 1) OBVIOUS
  <2> QED BY <1>1, <2>1, <2>2 DEF KeptOK
<1>2. CASE seq[k + 1] \in S
  <2>1. g \in Seq(Ty) /\ Len(g) \in Nat /\ DOMAIN g = 1..Len(g) BY DEF KeptOK
  <2>2. /\ h \in Seq(Ty) /\ DOMAIN h = 1..(Len(g) + 1)
        /\ h[Len(g) + 1] = seq[k + 1] /\ \A i \in 1..Len(g) : h[i] = g[i]
    <3>1. h = Append(g, seq[k + 1]) BY <1>2
    <3>2. Append(g, seq[k + 1]) \in Seq(Ty) /\ Len(Append(g, seq[k + 1])) = Len(g) + 1 BY <2>1, AppendProperties
    <3>3. Append(g, seq[k + 1])[Len(g) + 1] = seq[k + 1] /\ \A i \in 1..Len(g) : Append(g, seq[k + 1])[i] = g[i]
      BY <2>1, AppendProperties
    <3> QED BY <3>1, <3>2, <3>3
  <2>3. \A n \in Nat : \A i \in 1..(n + 1) : i = n + 1 \/ i \in 1..n OBVIOUS
  <2>4. \A j \in 1..k : j \in 1..(k + 1) /\ j < k + 1 OBVIOUS
  <2>5. k + 1 \in 1..(k + 1) /\ Len(g) + 1 \in DOMAIN h /\ \A i \in DOMAIN g : i \in DOMAIN h BY <2>1, <2>2
  <2>6. ASSUME NEW i \in DOMAIN h PROVE \E j \in 1..(k + 1) : seq[j] \in S /\ h[i] = seq[j]
    BY <1>2, <2>1, <2>2, <2>3, <2>4, <2>5 DEF KeptOK
  <2>7. ASSUME NEW j \in 1..(k + 1), seq[j] \in S PROVE \E i \in DOMAIN h : h[i] = seq[j]
    BY <2>1, <2>2, <2>3, <2>5, <2>7 DEF KeptOK
  <2>8. ASSUME NEW i \in DOMAIN h, NEW l \in DOMAIN h, i < l
        PROVE  \E j, m \in 1..(k + 1) : j < m /\ h[i] = seq[j] /\ h[l] = seq[m]
    <3>1. i \in 1..Len(g)
      <4>1. \A n \in Nat : \A a, b \in 1..(n + 1) : a < b => a \in 1..n OBVIOUS
      <4> QED BY <2>1, <2>2, <2>8, <4>1
    <3>2. CASE l = Len(g) + 1
      <4>1. PICK j \in 1..k : g[i] = seq[j] BY <2>1, <3>1 DEF KeptOK
      <4> QED BY <2>2, <2>4, <2>5, <3>1, <3>2, <4>1
    <3>3. CASE l \in 1..Len(g)
      <4>1. PICK j \in 1..k, m \in 1..k : j < m /\ g[i] = seq[j] /\ g[l] = seq[m] BY <2>1, <2>8, <3>1, <3>3 DEF KeptOK
      <4> QED BY <2>2, <2>4, <3>1, <3>3, <4>1
    <3> QED BY <2>1, <2>2, <2>3, <3>2, <3>3
  <2> QED BY <2>2, <2>6, <2>7, <2>8 DEF KeptOK
<1> QED BY <1>1, <1>2

LEMMA OnlyHas ==
    ASSUME NEW Ty, NEW seq \in Seq(Ty), NEW S
    PROVE  KeptOK(Only(seq, S), seq, S, Ty, Len(seq))
<1>1. Len(seq) \in Nat /\ DOMAIN seq = 1..Len(seq) /\ \A j \in 1..Len(seq) : seq[j] \in Ty OBVIOUS
<1> DEFINE f == CHOOSE f : KeptIs(f, seq, S)
<1>2. KeptIs(f, seq, S) BY <1>1, KeptExists
<1>3. Only(seq, S) = f[Len(seq)] BY DEF Only, KeptIs
<1> HIDE DEF f
<1>4. f[0] = <<>> /\ \A k \in 1..Len(seq) : f[k] = IF seq[k] \in S THEN Append(f[k - 1], seq[k]) ELSE f[k - 1]
  <2>1. \A k \in 0..Len(seq) : f[k] = IF k = 0 THEN <<>> ELSE IF seq[k] \in S THEN Append(f[k - 1], seq[k]) ELSE f[k - 1]
    BY <1>2 DEF KeptIs
  <2>2. 0 \in 0..Len(seq) /\ \A k \in 1..Len(seq) : k \in 0..Len(seq) /\ k # 0 BY <1>1
  <2> QED BY <2>1, <2>2
<1> DEFINE G == {k \in Nat : k <= Len(seq) => KeptOK(f[k], seq, S, Ty, k)}
<1>5. 0 \in G
  <2>1. <<>> \in Seq(Ty) /\ DOMAIN <<>> = {} /\ 1..0 = {} OBVIOUS
  <2>2. KeptOK(<<>>, seq, S, Ty, 0) BY <2>1 DEF KeptOK
  <2> QED BY <1>4, <2>2
<1>6. ASSUME NEW k \in Nat, k \in G PROVE k + 1 \in G
  <2> SUFFICES ASSUME k + 1 <= Len(seq) PROVE KeptOK(f[k + 1], seq, S, Ty, k + 1) OBVIOUS
  <2>1. k <= Len(seq) /\ k + 1 \in 1..Len(seq) /\ (k + 1) - 1 = k BY <1>1
  <2>2. KeptOK(f[k], seq, S, Ty, k) BY <1>6, <2>1
  <2>3. f[k + 1] = IF seq[k + 1] \in S THEN Append(f[k], seq[k + 1]) ELSE f[k] BY <1>4, <2>1
  <2> QED BY <1>1, <2>1, <2>2, <2>3, KeptMore
<1>7. Len(seq) \in G
  <2> HIDE DEF G
  <2> QED BY <1>1, <1>5, <1>6, NatSetInduction
<1>8. KeptOK(Only(seq, S), seq, S, Ty, Len(seq)) BY <1>1, <1>3, <1>7
<1> QED BY <1>8

(* The subscriptions of a connector, its queue and those of a plugin.  A   *)
(* subscription to a contract carries the name that each namespace gives   *)
(* it; messages of one subscription are queued in the order of the chain.  *)
SubOf(pl, c, k) == <<"ff", IF pl = "fabric" THEN 0 ELSE c, IF VersionOf[c] = 1 THEN 0 ELSE k>>
SubIds == ({"ff"} \X Nat \X (NsC \cup {0})) \cup ({"li"} \X NsC \X Nat)
MsgC == [pos : Nat, sub : SubIds]
IsFF(x) == x[1] = "ff"
KnownTo(x, made) == \E k \in NsC : \E n \in 1..made[k] : x = Listener(k, n)
AtOK(pl, at, made) ==
    /\ IsFiniteSet(DOMAIN at) /\ DOMAIN at \subseteq SubIds
    /\ \A x \in DOMAIN at : IF IsFF(x) THEN at[x] \in DOMAIN VersionOf /\ \E k \in NsC : x = SubOf(pl, at[x], k) ELSE KnownTo(x, made)
QueueOK(at, q, made, mined) ==
    /\ q \in Seq(MsgC)
    /\ \A i \in DOMAIN q : /\ q[i].pos <= mined
                           /\ IF IsFF(q[i].sub) THEN q[i].sub \in DOMAIN at /\ ChainC[q[i].pos].contract = at[q[i].sub]
                              ELSE KnownTo(q[i].sub, made)
    /\ \A i, j \in DOMAIN q : i < j /\ q[i].sub = q[j].sub => q[i].pos < q[j].pos
SubsOK(pl, at, subs) ==
    \A x \in DOMAIN subs : /\ IsFF(x) /\ x \in DOMAIN at
                           /\ \A k \in subs[x] : k \in NsC /\ x = SubOf(pl, at[x], k)

(* What is subscribed to and queued stays; what comes in addition is for   *)
(* listeners, or for a subscription that was not there.                    *)
Longer(a, q, a2, q2) ==
    /\ \A x \in DOMAIN a : IsFF(x) => x \in DOMAIN a2 /\ a2[x] = a[x]
    /\ Len(q) <= Len(q2) /\ \A i \in DOMAIN q : q2[i] = q[i]
Ext(a, q, a2, q2) ==
    Longer(a, q, a2, q2) /\ \A i \in DOMAIN q2 : i \in DOMAIN q \/ (IsFF(q2[i].sub) => q2[i].sub \notin DOMAIN a)

LEMMA ExtTrans ==
    ASSUME NEW a, NEW q \in Seq(MsgC), NEW b, NEW r \in Seq(MsgC), NEW c, NEW s \in Seq(MsgC), Ext(a, q, b, r), Ext(b, r, c, s)
    PROVE  Ext(a, q, c, s)
<1>1. /\ Len(q) \in Nat /\ Len(r) \in Nat /\ Len(s) \in Nat
      /\ DOMAIN q = 1..Len(q) /\ DOMAIN r = 1..Len(r) /\ DOMAIN s = 1..Len(s)
  OBVIOUS
<1>2. Len(q) <= Len(s) /\ DOMAIN q \subseteq DOMAIN r BY <1>1 DEF Ext, Longer
<1>3. \A x \in DOMAIN a : IsFF(x) => x \in DOMAIN c /\ c[x] = a[x] BY DEF Ext, Longer
<1>4. \A i \in DOMAIN q : s[i] = q[i] BY <1>2 DEF Ext, Longer
<1>5. ASSUME NEW i \in DOMAIN s, i \notin DOMAIN q, IsFF(s[i].sub) PROVE s[i].sub \notin DOMAIN a
  <2>1. CASE i \in DOMAIN r
    <3>1. s[i] = r[i] BY <2>1 DEF Ext, Longer
    <3> QED BY <1>5, <2>1, <3>1 DEF Ext, Longer
  <2>2. CASE i \notin DOMAIN r
    <3>1. s[i].sub \notin DOMAIN b BY <1>5, <2>2 DEF Ext, Longer
    <3> QED BY <1>5, <3>1 DEF Ext, Longer
  <2> QED BY <2>1, <2>2
<1> QED BY <1>2, <1>3, <1>4, <1>5 DEF Ext, Longer

LEMMA ExtSame == ASSUME NEW a, NEW q \in Seq(MsgC) PROVE Ext(a, q, a, q)
<1>1. Len(q) \in Nat OBVIOUS
<1> QED BY <1>1 DEF Ext, Longer

(* The name of a subscription tells whether it is one of a namespace.      *)
LEMMA SameNamed == ASSUME NEW pl, NEW c, NEW d, NEW k \in NsC, NEW l \in NsC, SubOf(pl, c, k) = SubOf(pl, d, l)
                  PROVE  SubOf(pl, d, k) = SubOf(pl, c, k)
<1>1. (IF pl = "fabric" THEN 0 ELSE c) = (IF pl = "fabric" THEN 0 ELSE d) BY DEF SubOf
<1>2. (IF VersionOf[c] = 1 THEN 0 ELSE k) = (IF VersionOf[d] = 1 THEN 0 ELSE l) BY DEF SubOf
<1>3. VersionOf[c] = 1 <=> VersionOf[d] = 1 BY <1>2, ConnectorAssumption
<1> QED BY <1>1, <1>3 DEF SubOf

LEMMA SubOfIs == ASSUME NEW pl, NEW c \in Nat, NEW k \in NsC PROVE SubOf(pl, c, k) \in SubIds /\ IsFF(SubOf(pl, c, k))
<1>1. (IF pl = "fabric" THEN 0 ELSE c) \in Nat /\ (IF VersionOf[c] = 1 THEN 0 ELSE k) \in NsC \cup {0} OBVIOUS
<1> QED BY <1>1 DEF SubOf, SubIds, IsFF

LEMMA ListenerIs == ASSUME NEW k \in NsC, NEW n \in Nat PROVE Listener(k, n) \in SubIds /\ ~IsFF(Listener(k, n))
BY DEF Listener, SubIds, IsFF

(* The events of a contract so far, in the order of the chain.             *)
LEMMA EarlierHas ==
    ASSUME minedC \in Nat, NEW x \in SubIds, NEW c
    PROVE  /\ Earlier(x, c) \in Seq(MsgC)
           /\ \A i \in DOMAIN Earlier(x, c) : /\ Earlier(x, c)[i].sub = x /\ Earlier(x, c)[i].pos <= minedC
                                              /\ ChainC[Earlier(x, c)[i].pos].contract = c
           /\ \A i, j \in DOMAIN Earlier(x, c) : i < j => Earlier(x, c)[i].pos < Earlier(x, c)[j].pos
<1> DEFINE all == [p \in 1..minedC |-> p]
           S == {p \in 1..minedC : ChainC[p].contract = c}
           of == Only(all, S)
           e == [i \in DOMAIN of |-> [pos |-> of[i], sub |-> x]]
<1>1. all \in Seq(Nat) /\ DOMAIN all = 1..minedC /\ \A p \in 1..minedC : all[p] = p
  <2>1. DOMAIN all = 1..minedC /\ (\A p \in 1..minedC : all[p] = p) /\ all = [i \in 1..minedC |-> all[i]] OBVIOUS
  <2>2. \A p \in 1..minedC : all[p] \in Nat BY <2>1
  <2> HIDE DEF all
  <2> QED BY <2>1, <2>2, IsSeqOf
<1>2. Earlier(x, c) = e BY DEF Earlier
<1>3. \A p : p \in S => p <= minedC /\ ChainC[p].contract = c OBVIOUS
<1> HIDE DEF all, S
<1>4. /\ of \in Seq(Nat) /\ \A i \in DOMAIN of : of[i] \in S
      /\ \A i, j \in DOMAIN of : i < j => of[i] < of[j]
  <2>0. Len(all) = minedC BY <1>1
  <2>1. KeptOK(of, all, S, Nat, minedC) BY <1>1, <2>0, OnlyHas
  <2> HIDE DEF of
  <2>2. of \in Seq(Nat) /\ \A i \in DOMAIN of : of[i] \in S BY <1>1, <2>1 DEF KeptOK
  <2>3. \A i, j \in DOMAIN of : i < j => \E k, m \in 1..minedC : k < m /\ of[i] = all[k] /\ of[j] = all[m] BY <2>1 DEF KeptOK
  <2>4. \A i, j \in DOMAIN of : i < j => of[i] < of[j] BY <1>1, <2>3
  <2> QED BY <2>2, <2>4
<1>5. DOMAIN of = 1..Len(of) /\ Len(of) \in Nat /\ \A i \in DOMAIN of : of[i] \in Nat BY <1>4
<1> HIDE DEF of
<1>6. DOMAIN e = 1..Len(of) /\ (\A i \in DOMAIN of : e[i] = [pos |-> of[i], sub |-> x]) /\ e = [i \in 1..Len(of) |-> e[i]] BY <1>5
<1> HIDE DEF e
<1>7. \A i \in 1..Len(of) : e[i] \in MsgC BY <1>5, <1>6 DEF MsgC
<1>8. e \in Seq(MsgC) BY <1>5, <1>6, <1>7, IsSeqOf
<1>9. \A i \in DOMAIN e : e[i].sub = x /\ e[i].pos = of[i] /\ i \in DOMAIN of BY <1>5, <1>6
<1> QED BY <1>2, <1>3, <1>4, <1>8, <1>9

(* A message at the end of the queue, of those before or of those added.   *)
LEMMA JoinedOn ==
    ASSUME NEW q \in Seq(MsgC), NEW e \in Seq(MsgC)
    PROVE  /\ q \o e \in Seq(MsgC) /\ Len(q) <= Len(q \o e)
           /\ \A i \in DOMAIN q : i \in DOMAIN (q \o e) /\ (q \o e)[i] = q[i]
           /\ \A i \in DOMAIN (q \o e) : \/ i \in DOMAIN q /\ (q \o e)[i] = q[i]
                                         \/ /\ i \notin DOMAIN q /\ i - Len(q) \in DOMAIN e
                                            /\ (q \o e)[i] = e[i - Len(q)]
<1>1. /\ q \o e \in Seq(MsgC) /\ Len(q \o e) = Len(q) + Len(e)
      /\ \A i \in 1..Len(q) + Len(e) : (q \o e)[i] = IF i <= Len(q) THEN q[i] ELSE e[i - Len(q)]
  BY ConcatProperties
<1>2. /\ Len(q) \in Nat /\ Len(e) \in Nat /\ DOMAIN q = 1..Len(q) /\ DOMAIN e = 1..Len(e)
      /\ DOMAIN (q \o e) = 1..Len(q) + Len(e)
  BY <1>1
<1>3. \A m, n \in Nat : /\ \A i \in 1..m : i \in 1..m + n /\ i <= m
                        /\ \A i \in 1..m + n : IF i <= m THEN i \in 1..m ELSE i \notin 1..m /\ i - m \in 1..n
  OBVIOUS
<1>4. \A i \in 1..Len(q) : i \in 1..Len(q) + Len(e) /\ i <= Len(q) BY <1>2, <1>3
<1>5. \A i \in 1..Len(q) + Len(e) : IF i <= Len(q) THEN i \in 1..Len(q) ELSE i \notin 1..Len(q) /\ i - Len(q) \in 1..Len(e)
  BY <1>2, <1>3
<1>6. Len(q) <= Len(q \o e) BY <1>1, <1>2
<1> QED BY <1>1, <1>2, <1>4, <1>5, <1>6

(* createSubscription, and what is true with one subscription more.        *)
Subscribed(a, q, b, r, x, c) ==
    IF x \in DOMAIN a THEN b = a /\ r = q
    ELSE /\ DOMAIN b = DOMAIN a \cup {x} /\ b[x] = c /\ (\A y \in DOMAIN a : b[y] = a[y])
         /\ r = q \o Earlier(x, c)
Fits(pl, x, c, made) == IF IsFF(x) THEN c \in DOMAIN VersionOf /\ \E k \in NsC : x = SubOf(pl, c, k) ELSE KnownTo(x, made)

LEMMA SubscribeKeeps ==
    ASSUME NEW pl, NEW a, NEW q, NEW b, NEW r, NEW x \in SubIds, NEW c, NEW made, minedC \in Nat,
           AtOK(pl, a, made), QueueOK(a, q, made, minedC), Subscribed(a, q, b, r, x, c), Fits(pl, x, c, made),
           x \notin DOMAIN a => \A i \in DOMAIN q : q[i].sub # x
    PROVE  AtOK(pl, b, made) /\ QueueOK(b, r, made, minedC) /\ Ext(a, q, b, r) /\ x \in DOMAIN b
<1>1. CASE x \in DOMAIN a BY <1>1, ExtSame DEF Subscribed, QueueOK
<1>2. CASE x \notin DOMAIN a
  <2> DEFINE e == Earlier(x, c)
  <2>1. DOMAIN b = DOMAIN a \cup {x} /\ b[x] = c /\ (\A y \in DOMAIN a : b[y] = a[y]) /\ r = q \o e BY <1>2 DEF Subscribed
  <2>2. /\ e \in Seq(MsgC)
        /\ \A i \in DOMAIN e : e[i].sub = x /\ e[i].pos <= minedC /\ ChainC[e[i].pos].contract = c
        /\ \A i, j \in DOMAIN e : i < j => e[i].pos < e[j].pos
    BY EarlierHas
  <2>3. \A i \in DOMAIN q : q[i].sub # x BY <1>2
  <2> HIDE DEF e
  <2>4. q \in Seq(MsgC) BY DEF QueueOK
  <2>5. /\ r \in Seq(MsgC) /\ Len(q) <= Len(r) /\ \A i \in DOMAIN q : r[i] = q[i]
        /\ \A i \in DOMAIN r : \/ i \in DOMAIN q /\ r[i] = q[i]
                               \/ i \notin DOMAIN q /\ i - Len(q) \in DOMAIN e /\ r[i] = e[i - Len(q)]
    BY <2>1, <2>2, <2>4, JoinedOn
  <2>6. AtOK(pl, b, made)
    <3>1. IsFiniteSet(DOMAIN b) BY <2>1, FS_AddElement DEF AtOK
    <3>2. DOMAIN b \subseteq SubIds BY <2>1 DEF AtOK
    <3>3. ASSUME NEW y \in DOMAIN b PROVE IF IsFF(y) THEN b[y] \in DOMAIN VersionOf /\ \E k \in NsC : y = SubOf(pl, b[y], k) ELSE KnownTo(y, made)
      <4>1. CASE y = x BY <2>1, <4>1 DEF Fits
      <4>2. CASE y # x
        <5>1. y \in DOMAIN a /\ b[y] = a[y] BY <2>1, <4>2
        <5> QED BY <5>1 DEF AtOK
      <4> QED BY <4>1, <4>2
    <3> QED BY <3>1, <3>2, <3>3 DEF AtOK
  <2>7. ASSUME NEW i \in DOMAIN r
        PROVE  /\ r[i].pos <= minedC
               /\ IF IsFF(r[i].sub) THEN r[i].sub \in DOMAIN b /\ ChainC[r[i].pos].contract = b[r[i].sub]
                  ELSE KnownTo(r[i].sub, made)
    <3>1. CASE i \in DOMAIN q /\ r[i] = q[i] BY <2>1, <3>1 DEF QueueOK
    <3>2. CASE i - Len(q) \in DOMAIN e /\ r[i] = e[i - Len(q)]
      <4>1. r[i].sub = x /\ r[i].pos <= minedC /\ ChainC[r[i].pos].contract = c BY <2>2, <3>2
      <4> QED BY <2>1, <4>1 DEF Fits
    <3> QED BY <2>5, <3>1, <3>2
  <2>8. ASSUME NEW i \in DOMAIN r, NEW j \in DOMAIN r, i < j, r[i].sub = r[j].sub PROVE r[i].pos < r[j].pos
    <3>1. i \in Nat /\ j \in Nat /\ Len(q) \in Nat /\ DOMAIN q = 1..Len(q) BY <2>4, <2>5
    <3>2. CASE i \in DOMAIN q /\ j \in DOMAIN q BY <2>5, <2>8, <3>2 DEF QueueOK
    <3>3. CASE i \notin DOMAIN q /\ j \notin DOMAIN q
      <4>1. /\ i - Len(q) \in DOMAIN e /\ j - Len(q) \in DOMAIN e /\ i - Len(q) < j - Len(q)
            /\ r[i] = e[i - Len(q)] /\ r[j] = e[j - Len(q)]
        BY <2>5, <2>8, <3>1, <3>3
      <4> QED BY <2>2, <4>1
    <3>4. CASE i \in DOMAIN q /\ j \notin DOMAIN q
      <4>1. r[i].sub # x /\ r[j].sub = x BY <2>2, <2>3, <2>5, <3>4
      <4> QED BY <2>8, <4>1
    <3>5. CASE i \notin DOMAIN q /\ j \in DOMAIN q
      <4>1. r[j].sub # x /\ r[i].sub = x BY <2>2, <2>3, <2>5, <3>5
      <4> QED BY <2>8, <4>1
    <3> QED BY <3>2, <3>3, <3>4, <3>5
  <2>9. QueueOK(b, r, made, minedC) BY <2>5, <2>7, <2>8 DEF QueueOK
  <2>10. Ext(a, q, b, r)
    <3>1. \A i \in DOMAIN r : i \in DOMAIN q \/ r[i].sub = x BY <2>2, <2>5
    <3> QED BY <1>2, <2>1, <2>5, <3>1 DEF Ext, Longer
  <2> QED BY <2>1, <2>6, <2>9, <2>10
<1> QED BY <1>1, <1>2

(* What a handler changes, as one record.  OneEachC: contracts of version  *)
(* 2 on, whose subscriptions are of one namespace and tell contracts apart.*)
FieldsC == {"mem", "row", "subs", "at", "queue", "ins", "pins", "broken", "err"}
MemOK(mem) == DOMAIN mem = {"ix", "located", "sub", "final"} /\ mem.ix \in Nat \ {0}
OneEachC == pluginC # "fabric" /\ \A c \in DOMAIN VersionOf : VersionOf[c] # 1
Hears(mem, subs, at, k) ==
    mem.located => /\ mem.sub \in DOMAIN subs /\ k \in subs[mem.sub]
                   /\ mem.sub \in DOMAIN at /\ at[mem.sub] = mem.ix
RecOK(s) ==
    /\ DOMAIN s = FieldsC /\ MemOK(s.mem) /\ MemOK(s.row)
    /\ AtOK(pluginC, s.at, madeC) /\ QueueOK(s.at, s.queue, madeC, minedC) /\ SubsOK(pluginC, s.at, s.subs)

(* From one such record to the next: the contract of a namespace changes,  *)
(* not what the others hear.                                               *)
OthersHear(subs, subs2, ns) ==
    OneEachC => \A k \in NsC \ {ns} : \A x \in DOMAIN subs : k \in subs[x] => x \in DOMAIN subs2 /\ k \in subs2[x]
GoesC(s, t, ns) ==
    /\ Ext(s.at, s.queue, t.at, t.queue) /\ OthersHear(s.subs, t.subs, ns)
    /\ OneEachC /\ Hears(s.mem, s.subs, s.at, ns) => Hears(t.mem, t.subs, t.at, ns)
MovesC(s, t, ns) == t.ins = s.ins /\ t.pins = s.pins /\ (s.err => t.err) /\ GoesC(s, t, ns)

LEMMA GoesFurther == ASSUME NEW s, NEW t, NEW u, NEW ns, RecOK(s), RecOK(t), RecOK(u), GoesC(s, t, ns), GoesC(t, u, ns) PROVE GoesC(s, u, ns)
<1>1. Ext(s.at, s.queue, u.at, u.queue) BY ExtTrans DEF GoesC, RecOK, QueueOK
<1>2. OthersHear(s.subs, u.subs, ns)
  <2> SUFFICES ASSUME OneEachC, NEW k \in NsC \ {ns}, NEW x \in DOMAIN s.subs, k \in s.subs[x]
               PROVE  x \in DOMAIN u.subs /\ k \in u.subs[x]
    BY DEF OthersHear
  <2>1. x \in DOMAIN t.subs /\ k \in t.subs[x] BY DEF GoesC, OthersHear
  <2> QED BY <2>1 DEF GoesC, OthersHear
<1> QED BY <1>1, <1>2 DEF GoesC

LEMMA MovesOn == ASSUME NEW s, NEW t, NEW u, NEW ns, RecOK(s), RecOK(t), RecOK(u), MovesC(s, t, ns), MovesC(t, u, ns) PROVE MovesC(s, u, ns)
BY GoesFurther DEF MovesC

LEMMA ConfigFails ==
    ASSUME NEW s, RecOK(s), NEW t, t = [s EXCEPT !.err = TRUE], NEW ns PROVE RecOK(t) /\ MovesC(s, t, ns) /\ t.err
<1>1. /\ DOMAIN t = FieldsC /\ t.err = TRUE /\ t.mem = s.mem /\ t.row = s.row /\ t.subs = s.subs
      /\ t.at = s.at /\ t.queue = s.queue /\ t.ins = s.ins /\ t.pins = s.pins
  BY DEF RecOK, FieldsC
<1>2. RecOK(t) BY <1>1 DEF RecOK
<1>3. Ext(s.at, s.queue, t.at, t.queue) BY <1>1, ExtSame DEF RecOK, QueueOK
<1>4. OthersHear(s.subs, t.subs, ns) BY <1>1 DEF OthersHear
<1> QED BY <1>1, <1>2, <1>3, <1>4 DEF MovesC, GoesC

(* createSubscription.                                                     *)
LEMMA CreateIs ==
    ASSUME NEW s, DOMAIN s = FieldsC, NEW x, NEW c, NEW u, u = createSubscription(s, x, c)
    PROVE  /\ DOMAIN u = FieldsC /\ u.ins = s.ins /\ u.pins = s.pins /\ u.err = s.err /\ u.subs = s.subs
           /\ Subscribed(s.at, s.queue, u.at, u.queue, x, c)
<1>1. CASE x \in DOMAIN s.at
  <2>1. u = s BY <1>1 DEF createSubscription
  <2> QED BY <1>1, <2>1 DEF Subscribed
<1>2. CASE x \notin DOMAIN s.at
  <2>1. u = [s EXCEPT !.at = With(@, x, c), !.queue = @ \o Earlier(x, c)] BY <1>2 DEF createSubscription
  <2>2. /\ DOMAIN u = FieldsC /\ u.ins = s.ins /\ u.pins = s.pins /\ u.err = s.err /\ u.subs = s.subs
        /\ u.at = With(s.at, x, c) /\ u.queue = s.queue \o Earlier(x, c)
    BY <2>1 DEF FieldsC
  <2>3. DOMAIN u.at = DOMAIN s.at \cup {x} /\ u.at[x] = c /\ \A y \in DOMAIN s.at : u.at[y] = s.at[y] BY <1>2, <2>2 DEF With
  <2> QED BY <1>2, <2>2, <2>3 DEF Subscribed
<1> QED BY <1>1, <1>2

(* configureContractCommon when it gets through.                           *)
Configures(s, t, ns, x) ==
    /\ DOMAIN t = FieldsC /\ t.ins = s.ins /\ t.pins = s.pins /\ t.err = s.err
    /\ MemOK(t.mem) /\ t.row = t.mem /\ t.mem.ix = s.mem.ix /\ s.mem.ix \in DOMAIN VersionOf /\ t.mem.located /\ t.mem.sub = x
    /\ DOMAIN t.subs = DOMAIN s.subs \cup {x} /\ (\A y \in DOMAIN s.subs : y # x => t.subs[y] = s.subs[y])
    /\ ns \in t.subs[x] /\ \A k \in t.subs[x] : k = ns \/ (x \in DOMAIN s.subs /\ k \in s.subs[x])
    /\ Subscribed(s.at, s.queue, t.at, t.queue, x, s.mem.ix)

LEMMA ConfigIs ==
    ASSUME NEW s, RecOK(s), NEW ns, NEW t, t = configureContractCommon(s, ns)
    PROVE  t = [s EXCEPT !.err = TRUE] \/ Configures(s, t, ns, SubName(s.mem.ix, ns))
<1> DEFINE c == s.mem.ix
           x == SubName(c, ns)
           others == IF VersionOf[c] = 1 /\ x \in DOMAIN s.subs THEN s.subs[x] ELSE {}
           conf == [s.mem EXCEPT !.located = TRUE, !.sub = x]
<1>0. DOMAIN s = FieldsC /\ MemOK(s.mem) BY DEF RecOK
<1> SUFFICES ASSUME t # [s EXCEPT !.err = TRUE] PROVE Configures(s, t, ns, x) OBVIOUS
<1>1. t = [AddSubscription(createSubscription(s, x, c), x, c, ns) EXCEPT !.mem = conf, !.row = conf]
  BY DEF configureContractCommon
<1>2. MemOK(conf) /\ conf.ix = c /\ conf.located /\ conf.sub = x BY <1>0 DEF MemOK
<1> HIDE DEF conf
<1>3. PICK u : u = createSubscription(s, x, c) OBVIOUS
<1>4. PICK v : v = AddSubscription(u, x, c, ns) OBVIOUS
<1>5. /\ DOMAIN u = FieldsC /\ u.ins = s.ins /\ u.pins = s.pins /\ u.err = s.err /\ u.subs = s.subs
      /\ Subscribed(s.at, s.queue, u.at, u.queue, x, c)
  BY <1>0, <1>3, CreateIs
<1>6. /\ DOMAIN v = FieldsC /\ v.ins = s.ins /\ v.pins = s.pins /\ v.err = s.err
      /\ v.at = u.at /\ v.queue = u.queue /\ v.subs = With(s.subs, x, others \cup {ns})
  <2>1. v = [u EXCEPT !.subs = With(@, x, others \cup {ns})] BY <1>4, <1>5 DEF AddSubscription
  <2> QED BY <1>5, <2>1 DEF FieldsC
<1>7. t = [v EXCEPT !.mem = conf, !.row = conf] BY <1>1, <1>3, <1>4
<1>8. /\ DOMAIN t = FieldsC /\ t.ins = s.ins /\ t.pins = s.pins /\ t.err = s.err
      /\ t.at = u.at /\ t.queue = u.queue /\ t.subs = v.subs /\ t.mem = conf /\ t.row = conf
  BY <1>6, <1>7 DEF FieldsC
<1>9. /\ DOMAIN t.subs = DOMAIN s.subs \cup {x} /\ (\A y \in DOMAIN s.subs : y # x => t.subs[y] = s.subs[y])
      /\ t.subs[x] = others \cup {ns}
  BY <1>6, <1>8 DEF With
<1>10. ns \in t.subs[x] /\ \A k \in t.subs[x] : k = ns \/ (x \in DOMAIN s.subs /\ k \in s.subs[x]) BY <1>9
<1>11. c \in DOMAIN VersionOf
  <2>1. ~(c > Len(VersionOf)) BY DEF configureContractCommon
  <2> QED BY <1>0, <2>1, ConnectorAssumption DEF MemOK
<1> HIDE DEF x, c
<1> QED BY <1>2, <1>5, <1>8, <1>9, <1>10, <1>11 DEF Configures, c, x

LEMMA ConfiguresKeeps ==
    ASSUME NEW s, RecOK(s), NEW ns \in NsC, NEW t, Configures(s, t, ns, SubName(s.mem.ix, ns)), minedC \in Nat
    PROVE  RecOK(t) /\ MovesC(s, t, ns) /\ (OneEachC => Hears(t.mem, t.subs, t.at, ns))
<1> DEFINE c == s.mem.ix
           x == SubName(c, ns)
<1>1. x = SubOf(pluginC, c, ns) /\ c \in Nat BY DEF SubName, SubOf, RecOK, MemOK
<1>2. x \in SubIds /\ IsFF(x) BY <1>1, SubOfIs
<1>3. Configures(s, t, ns, x) OBVIOUS
<1>4. AtOK(pluginC, s.at, madeC) /\ QueueOK(s.at, s.queue, madeC, minedC) /\ SubsOK(pluginC, s.at, s.subs) BY DEF RecOK
<1>5. c \in DOMAIN VersionOf /\ Fits(pluginC, x, c, madeC) BY <1>1, <1>2, <1>3 DEF Fits, Configures
<1>6. Subscribed(s.at, s.queue, t.at, t.queue, x, c) BY <1>3 DEF Configures
<1> HIDE DEF x
<1>7. x \notin DOMAIN s.at => \A i \in DOMAIN s.queue : s.queue[i].sub # x BY <1>2, <1>4 DEF QueueOK
<1>8. AtOK(pluginC, t.at, madeC) /\ QueueOK(t.at, t.queue, madeC, minedC) /\ Ext(s.at, s.queue, t.at, t.queue) /\ x \in DOMAIN t.at
  <2> HIDE DEF c
  <2> QED BY <1>2, <1>4, <1>5, <1>6, <1>7, SubscribeKeeps
<1>9. x = SubOf(pluginC, t.at[x], ns)
  <2>1. PICK k \in NsC : x = SubOf(pluginC, t.at[x], k) BY <1>2, <1>8 DEF AtOK
  <2> QED BY <1>1, <2>1, SameNamed
<1>10. SubsOK(pluginC, t.at, t.subs)
  <2>1. ASSUME NEW y \in DOMAIN t.subs
        PROVE  /\ IsFF(y) /\ y \in DOMAIN t.at
               /\ \A k \in t.subs[y] : k \in NsC /\ y = SubOf(pluginC, t.at[y], k)
    <3>1. CASE y \in DOMAIN s.subs
      <4>1. IsFF(y) /\ y \in DOMAIN s.at /\ \A k \in s.subs[y] : k \in NsC /\ y = SubOf(pluginC, s.at[y], k) BY <1>4, <3>1 DEF SubsOK
      <4>2. y \in DOMAIN t.at /\ t.at[y] = s.at[y] BY <1>8, <4>1 DEF Ext, Longer
      <4>3. \A k \in t.subs[y] : (y = x /\ k = ns) \/ k \in s.subs[y] BY <1>3, <3>1 DEF Configures
      <4> QED BY <1>9, <4>1, <4>2, <4>3
    <3>2. CASE y \notin DOMAIN s.subs
      <4>1. y = x /\ \A k \in t.subs[y] : k = ns BY <1>3, <2>1, <3>2 DEF Configures
      <4> QED BY <1>2, <1>8, <1>9, <4>1
    <3> QED BY <3>1, <3>2
  <2> QED BY <2>1 DEF SubsOK
<1>11. RecOK(t) BY <1>3, <1>8, <1>10 DEF RecOK, Configures
<1>12. ASSUME OneEachC PROVE Hears(t.mem, t.subs, t.at, ns)
  <2>1. t.at[x] = c
    <3>1. x[2] = c /\ x[2] = t.at[x] BY <1>1, <1>9, <1>12 DEF SubOf, OneEachC
    <3> QED BY <3>1
  <2> QED BY <1>3, <1>8, <2>1 DEF Configures, Hears
<1>13. OthersHear(s.subs, t.subs, ns)
  <2> SUFFICES ASSUME OneEachC, NEW k \in NsC \ {ns}, NEW y \in DOMAIN s.subs, k \in s.subs[y]
               PROVE  y \in DOMAIN t.subs /\ k \in t.subs[y]
    BY DEF OthersHear
  <2>1. y = SubOf(pluginC, s.at[y], k) /\ s.at[y] \in DOMAIN VersionOf BY <1>4 DEF SubsOK, AtOK
  <2>2. y[3] = k /\ x[3] = ns BY <1>1, <1>5, <2>1 DEF SubOf, OneEachC
  <2> QED BY <1>3, <2>2 DEF Configures
<1>14. MovesC(s, t, ns) BY <1>3, <1>8, <1>12, <1>13 DEF MovesC, GoesC, Configures
<1> QED BY <1>11, <1>12, <1>14

LEMMA ConfigKeeps ==
    ASSUME NEW s, RecOK(s), NEW ns \in NsC, NEW t, t = configureContractCommon(s, ns), minedC \in Nat
    PROVE  /\ RecOK(t) /\ MovesC(s, t, ns)
           /\ t.err \/ (OneEachC => Hears(t.mem, t.subs, t.at, ns))
<1>1. CASE t = [s EXCEPT !.err = TRUE] BY <1>1, ConfigFails
<1>2. CASE Configures(s, t, ns, SubName(s.mem.ix, ns)) BY <1>2, ConfiguresKeeps
<1> QED BY <1>1, <1>2, ConfigIs

LEMMA TerminateKeeps ==
    ASSUME NEW s, RecOK(s), NEW ns \in NsC, NEW pos, NEW t, t = TerminateContract(s, ns, pos), minedC \in Nat,
           OneEachC => Hears(s.mem, s.subs, s.at, ns)
    PROVE  RecOK(t) /\ MovesC(s, t, ns)
<1>1. CASE t = s
  <2>1. Ext(s.at, s.queue, s.at, s.queue) BY ExtSame DEF RecOK, QueueOK
  <2> QED BY <1>1, <2>1 DEF MovesC, GoesC, OthersHear
<1>2. CASE t # s
  <2> DEFINE mem2 == [ix |-> s.mem.ix + 1, located |-> FALSE, sub |-> <<>>, final |-> s.mem.final \cup {<<s.mem.ix, pos>>}]
             subs2 == [x \in DOMAIN s.subs \ {s.mem.sub} |-> s.subs[x]]
  <2>1. PICK r : r = [s EXCEPT !.subs = subs2] OBVIOUS
  <2>2. PICK u : u = [r EXCEPT !.mem = mem2] OBVIOUS
  <2>3. DOMAIN s = FieldsC BY DEF RecOK
  <2>4. /\ DOMAIN r = FieldsC /\ r.subs = subs2 /\ r.mem = s.mem /\ r.row = s.row /\ r.at = s.at /\ r.queue = s.queue
        /\ r.ins = s.ins /\ r.pins = s.pins /\ r.err = s.err
    BY <2>1, <2>3 DEF FieldsC
  <2>5. /\ DOMAIN u = FieldsC /\ u.subs = subs2 /\ u.mem = mem2 /\ u.row = s.row /\ u.at = s.at /\ u.queue = s.queue
        /\ u.ins = s.ins /\ u.pins = s.pins /\ u.err = s.err
    BY <2>2, <2>4 DEF FieldsC
  <2>6. s.mem.located /\ t = configureContractCommon(u, ns)
    <3>1. /\ s.mem.located
          /\ t = configureContractCommon([RemoveSubscription(s, s.mem.sub) EXCEPT
                     !.mem = [ix |-> @.ix + 1, located |-> FALSE, sub |-> <<>>, final |-> @.final \cup {<<@.ix, pos>>}]], ns)
      BY <1>2 DEF TerminateContract
    <3>2. RemoveSubscription(s, s.mem.sub) = r BY <2>1, <2>3 DEF RemoveSubscription, FieldsC
    <3>3. [r EXCEPT !.mem = [ix |-> @.ix + 1, located |-> FALSE, sub |-> <<>>, final |-> @.final \cup {<<@.ix, pos>>}]] = u
      BY <2>2, <2>4 DEF FieldsC
    <3> QED BY <3>1, <3>2, <3>3
  <2>7. MemOK(mem2) /\ mem2.located = FALSE BY DEF RecOK, MemOK
  <2>8. SubsOK(pluginC, s.at, subs2) BY DEF RecOK, SubsOK
  <2>9. RecOK(u) BY <2>5, <2>7, <2>8 DEF RecOK
  <2>10. OthersHear(s.subs, u.subs, ns)
    <3> SUFFICES ASSUME OneEachC, NEW k \in NsC \ {ns}, NEW y \in DOMAIN s.subs, k \in s.subs[y]
                 PROVE  y \in DOMAIN subs2 /\ k \in subs2[y]
      BY <2>5 DEF OthersHear
    <3>1. s.mem.sub \in DOMAIN s.subs /\ ns \in s.subs[s.mem.sub] BY <2>6 DEF Hears
    <3>2. y = SubOf(pluginC, s.at[y], k) /\ s.mem.sub = SubOf(pluginC, s.at[s.mem.sub], ns)
          /\ s.at[y] \in DOMAIN VersionOf /\ s.at[s.mem.sub] \in DOMAIN VersionOf
      BY <3>1 DEF RecOK, SubsOK, AtOK
    <3>3. y[3] = k /\ s.mem.sub[3] = ns
      <4> HIDE DEF subs2, mem2
      <4> QED BY <3>2 DEF SubOf, OneEachC
    <3> QED BY <3>3
  <2>11. Ext(s.at, s.queue, u.at, u.queue) BY <2>5, ExtSame DEF RecOK, QueueOK
  <2>12. MovesC(s, u, ns) BY <2>5, <2>7, <2>10, <2>11 DEF MovesC, GoesC, Hears
  <2>13. RecOK(t) /\ MovesC(u, t, ns) BY <2>6, <2>9, ConfigKeeps
  <2> QED BY <2>9, <2>12, <2>13, MovesOn
<1> QED BY <1>1, <1>2

(* The events prepared for a namespace: each subscription's in the order   *)
(* of the chain; its own events are of a contract, and of the batch, which *)
(* has no other pin of that subscription for it.                           *)
EntryC == [pos : Nat, sub : SubIds, own : BOOLEAN]
ContractOf(p) == ChainC[p].contract
WantsC(k, p) == ChainC[p].kind = "pin" /\ (VersionOf[ContractOf(p)] = 1 => NetOf[k] = ChainC[p].net)
OrderedFor(prep, k) ==
    /\ prep \in Seq(EntryC)
    /\ \A j \in DOMAIN prep : prep[j].own => prep[j].sub = SubOf(pluginC, ContractOf(prep[j].pos), k)
    /\ \A j, l \in DOMAIN prep : j < l /\ prep[j].sub = prep[l].sub => prep[j].pos < prep[l].pos

(* What the first n of them add to the chain events and the pins.          *)
Notes(k, e) == <<e.pos, IF e.own THEN 0 ELSE 1>>
Noted(k, e) == e.own \/ e.sub = Listener(k, listenerC[k])
PinsFor(e) == e.own /\ ChainC[e.pos].kind = "pin"
InsOK(ins, prep, k, n) ==
    /\ ins \in Seq(Nat \X {0, 1})
    /\ \A i \in DOMAIN ins : \E j \in 1..n : Noted(k, prep[j]) /\ ins[i] = Notes(k, prep[j])
    /\ \A i, j \in DOMAIN ins : ins[i] = ins[j] => i = j
AddedPins(pins, prep, n) ==
    /\ pins \in Seq(Nat)
    /\ \A i \in DOMAIN pins : \E j \in 1..n : PinsFor(prep[j]) /\ pins[i] = prep[j].pos
    /\ \A i, j \in DOMAIN pins : i < j /\ ContractOf(pins[i]) = ContractOf(pins[j]) => pins[i] < pins[j]
AllPins(pins, prep, n) == \A j \in 1..n : PinsFor(prep[j]) => \E i \in DOMAIN pins : pins[i] = prep[j].pos

LEMMA EntryIs == ASSUME NEW prep, NEW k, OrderedFor(prep, k), NEW n \in Nat, n + 1 <= Len(prep)
                 PROVE  /\ Len(prep) \in Nat /\ DOMAIN prep = 1..Len(prep) /\ n + 1 \in DOMAIN prep
                        /\ prep[n + 1] \in EntryC /\ prep[n + 1].pos \in Nat
                        /\ \A j \in 1..n : j \in DOMAIN prep /\ j < n + 1
<1>1. prep \in Seq(EntryC) BY DEF OrderedFor
<1>2. Len(prep) \in Nat /\ DOMAIN prep = 1..Len(prep) /\ n + 1 \in DOMAIN prep BY <1>1
<1>3. prep[n + 1] \in EntryC BY <1>1, <1>2
<1> QED BY <1>2, <1>3 DEF EntryC

LEMMA NotedMore ==
    ASSUME NEW prep, NEW k \in NsC, OrderedFor(prep, k), NEW n \in Nat, n + 1 <= Len(prep), NEW ins, InsOK(ins, prep, k, n),
           Noted(k, prep[n + 1]), NEW v, v = Notes(k, prep[n + 1])
    PROVE  InsOK(Append(ins, v), prep, k, n + 1)
<1> DEFINE e == prep[n + 1]
           new == Append(ins, v)
<1>0. e = prep[n + 1] OBVIOUS
<1>1. e.pos \in Nat /\ n + 1 \in DOMAIN prep /\ \A j \in 1..n : j \in DOMAIN prep /\ j < n + 1 BY EntryIs
<1> HIDE DEF e
<1>2. v \in Nat \X {0, 1} BY <1>0, <1>1 DEF Notes
<1>3. ins \in Seq(Nat \X {0, 1}) /\ Len(ins) \in Nat /\ DOMAIN ins = 1..Len(ins) BY DEF InsOK
<1>4. ASSUME NEW i \in DOMAIN ins PROVE ins[i] # v
  <2> SUFFICES ASSUME ins[i] = v PROVE FALSE OBVIOUS
  <2>1. PICK j \in 1..n : Noted(k, prep[j]) /\ ins[i] = Notes(k, prep[j]) BY DEF InsOK
  <2>2. prep[j].pos = e.pos /\ (prep[j].own <=> e.own) BY <1>0, <2>1 DEF Notes
  <2>3. prep[j].sub = e.sub BY <1>0, <1>1, <2>1, <2>2 DEF Noted, OrderedFor
  <2>4. prep[j].pos < e.pos BY <1>0, <1>1, <2>3 DEF OrderedFor
  <2> QED BY <1>1, <2>2, <2>4
<1>5. /\ new \in Seq(Nat \X {0, 1}) /\ Len(new) = Len(ins) + 1 /\ new[Len(ins) + 1] = v
      /\ \A i \in 1..Len(ins) : new[i] = ins[i]
  BY <1>2, <1>3, AppendProperties
<1>6. DOMAIN new = 1..(Len(ins) + 1) BY <1>5
<1> HIDE DEF new
<1>7. \A m \in Nat : \A i \in 1..(m + 1) : i = m + 1 \/ i \in 1..m OBVIOUS
<1>8. \A i \in DOMAIN new : i = Len(ins) + 1 \/ i \in DOMAIN ins BY <1>3, <1>6, <1>7
<1>9. \A j \in 1..n : j \in 1..(n + 1) OBVIOUS
<1>10. n + 1 \in 1..(n + 1) OBVIOUS
<1>11. ASSUME NEW i \in DOMAIN new PROVE \E j \in 1..(n + 1) : Noted(k, prep[j]) /\ new[i] = Notes(k, prep[j])
  <2>1. CASE i = Len(ins) + 1 BY <1>5, <1>10, <2>1
  <2>2. CASE i \in DOMAIN ins
    <3>1. PICK j \in 1..n : Noted(k, prep[j]) /\ ins[i] = Notes(k, prep[j]) BY <2>2 DEF InsOK
    <3> QED BY <1>3, <1>5, <1>9, <2>2, <3>1
  <2> QED BY <1>8, <2>1, <2>2
<1>12. ASSUME NEW i \in DOMAIN new, NEW j \in DOMAIN new, new[i] = new[j] PROVE i = j
  <2>1. CASE i \in DOMAIN ins /\ j \in DOMAIN ins BY <1>3, <1>5, <1>12, <2>1 DEF InsOK
  <2>2. CASE i \notin DOMAIN ins /\ j \notin DOMAIN ins BY <1>8, <2>2
  <2>3. CASE i \in DOMAIN ins /\ j \notin DOMAIN ins BY <1>3, <1>4, <1>5, <1>8, <1>12, <2>3
  <2>4. CASE i \notin DOMAIN ins /\ j \in DOMAIN ins BY <1>3, <1>4, <1>5, <1>8, <1>12, <2>4
  <2> QED BY <2>1, <2>2, <2>3, <2>4
<1> QED BY <1>5, <1>11, <1>12 DEF InsOK, new

LEMMA NotedSame == ASSUME NEW prep, NEW k, NEW n \in Nat, NEW ins, InsOK(ins, prep, k, n) PROVE InsOK(ins, prep, k, n + 1)
<1>1. \A j \in 1..n : j \in 1..(n + 1) OBVIOUS
<1> QED BY <1>1 DEF InsOK

LEMMA PinsMore ==
    ASSUME NEW prep, NEW k \in NsC, OrderedFor(prep, k), NEW n \in Nat, n + 1 <= Len(prep), NEW pins, AddedPins(pins, prep, n),
           AllPins(pins, prep, n), PinsFor(prep[n + 1])
    PROVE  AddedPins(Append(pins, prep[n + 1].pos), prep, n + 1) /\ AllPins(Append(pins, prep[n + 1].pos), prep, n + 1)
<1> DEFINE e == prep[n + 1]
           new == Append(pins, e.pos)
<1>0. e = prep[n + 1] OBVIOUS
<1>1. e.pos \in Nat /\ n + 1 \in DOMAIN prep /\ \A j \in 1..n : j \in DOMAIN prep /\ j < n + 1 BY EntryIs
<1> HIDE DEF e
<1>3. pins \in Seq(Nat) /\ Len(pins) \in Nat /\ DOMAIN pins = 1..Len(pins) BY DEF AddedPins
<1>4. ASSUME NEW i \in DOMAIN pins, ContractOf(pins[i]) = ContractOf(e.pos) PROVE pins[i] < e.pos
  <2>1. PICK j \in 1..n : PinsFor(prep[j]) /\ pins[i] = prep[j].pos BY DEF AddedPins
  <2>2. prep[j].sub = e.sub BY <1>0, <1>1, <1>4, <2>1 DEF PinsFor, OrderedFor, SubOf
  <2> QED BY <1>0, <1>1, <2>1, <2>2 DEF OrderedFor
<1>5. /\ new \in Seq(Nat) /\ Len(new) = Len(pins) + 1 /\ new[Len(pins) + 1] = e.pos
      /\ \A i \in 1..Len(pins) : new[i] = pins[i]
  BY <1>1, <1>3, AppendProperties
<1>6. DOMAIN new = 1..(Len(pins) + 1) BY <1>5
<1> HIDE DEF new
<1>7. \A m \in Nat : \A i \in 1..(m + 1) : i = m + 1 \/ i \in 1..m OBVIOUS
<1>8. \A i \in DOMAIN new : i = Len(pins) + 1 \/ i \in DOMAIN pins BY <1>3, <1>6, <1>7
<1>9. \A j \in 1..n : j \in 1..(n + 1) OBVIOUS
<1>10. n + 1 \in 1..(n + 1) /\ \A j \in 1..(n + 1) : j = n + 1 \/ j \in 1..n OBVIOUS
<1>11. ASSUME NEW i \in DOMAIN new PROVE \E j \in 1..(n + 1) : PinsFor(prep[j]) /\ new[i] = prep[j].pos
  <2>1. CASE i = Len(pins) + 1 BY <1>0, <1>5, <1>10, <2>1
  <2>2. CASE i \in DOMAIN pins
    <3>1. PICK j \in 1..n : PinsFor(prep[j]) /\ pins[i] = prep[j].pos BY <2>2 DEF AddedPins
    <3> QED BY <1>3, <1>5, <1>9, <2>2, <3>1
  <2> QED BY <1>8, <2>1, <2>2
<1>12. ASSUME NEW i \in DOMAIN new, NEW j \in DOMAIN new, i < j, ContractOf(new[i]) = ContractOf(new[j]) PROVE new[i] < new[j]
  <2>1. i \in DOMAIN pins
    <3>1. \A m \in Nat : \A a, b \in 1..(m + 1) : a < b => a \in 1..m OBVIOUS
    <3> QED BY <1>3, <1>6, <1>12, <3>1
  <2>2. CASE j \in DOMAIN pins BY <1>3, <1>5, <1>12, <2>1, <2>2 DEF AddedPins
  <2>3. CASE j = Len(pins) + 1 BY <1>3, <1>4, <1>5, <1>12, <2>1, <2>3
  <2> QED BY <1>8, <2>2, <2>3
<1>13. ASSUME NEW j \in 1..(n + 1), PinsFor(prep[j]) PROVE \E i \in DOMAIN new : new[i] = prep[j].pos
  <2>1. CASE j = n + 1
    <3>1. Len(pins) + 1 \in DOMAIN new BY <1>3, <1>6
    <3> QED BY <1>0, <1>5, <2>1, <3>1
  <2>2. CASE j \in 1..n
    <3>1. PICK i \in DOMAIN pins : pins[i] = prep[j].pos BY <1>13, <2>2 DEF AllPins
    <3>2. i \in DOMAIN new BY <1>3, <1>6
    <3> QED BY <1>3, <1>5, <3>1, <3>2
  <2> QED BY <1>10, <2>1, <2>2
<1> QED BY <1>0, <1>5, <1>11, <1>12, <1>13 DEF AddedPins, AllPins, new

LEMMA PinsSame ==
    ASSUME NEW prep, NEW n \in Nat, NEW pins, AddedPins(pins, prep, n)
    PROVE  AddedPins(pins, prep, n + 1) /\ (AllPins(pins, prep, n) /\ ~PinsFor(prep[n + 1]) => AllPins(pins, prep, n + 1))
<1>1. (\A j \in 1..n : j \in 1..(n + 1)) /\ \A j \in 1..(n + 1) : j = n + 1 \/ j \in 1..n OBVIOUS
<1>2. AddedPins(pins, prep, n + 1) BY <1>1 DEF AddedPins
<1>3. AllPins(pins, prep, n) /\ ~PinsFor(prep[n + 1]) => AllPins(pins, prep, n + 1) BY <1>1 DEF AllPins
<1> QED BY <1>2, <1>3

(* handleEvent, and the events of a batch one after the other.             *)
FoldC(start, s, prep, ns, n) ==
    /\ RecOK(s) /\ GoesC(start, s, ns)
    /\ InsOK(s.ins, prep, ns, n) /\ AddedPins(s.pins, prep, n) /\ (s.err \/ AllPins(s.pins, prep, n))

LEMMA SameRec ==
    ASSUME NEW s, RecOK(s), NEW t, NEW ns, DOMAIN t = FieldsC, t.mem = s.mem, t.row = s.row, t.subs = s.subs,
           t.at = s.at, t.queue = s.queue
    PROVE  RecOK(t) /\ GoesC(s, t, ns)
<1>1. Ext(s.at, s.queue, s.at, s.queue) BY ExtSame DEF RecOK, QueueOK
<1>2. RecOK(t) BY DEF RecOK
<1>3. OthersHear(s.subs, t.subs, ns) BY DEF OthersHear
<1> QED BY <1>1, <1>2, <1>3 DEF GoesC

LEMMA HandleKeeps ==
    ASSUME minedC \in Nat, NEW start, NEW ns \in NsC, RecOK(start), OneEachC => Hears(start.mem, start.subs, start.at, ns),
           NEW prep, OrderedFor(prep, ns), NEW n \in Nat, n + 1 <= Len(prep), NEW s, FoldC(start, s, prep, ns, n),
           NEW t, t = handleEvent(s, ns, prep[n + 1])
    PROVE  FoldC(start, t, prep, ns, n + 1)
<1>1. PICK e : e = prep[n + 1] OBVIOUS
<1>2. /\ RecOK(s) /\ GoesC(start, s, ns) /\ DOMAIN s = FieldsC
      /\ InsOK(s.ins, prep, ns, n) /\ AddedPins(s.pins, prep, n) /\ (s.err \/ AllPins(s.pins, prep, n))
  BY DEF FoldC, RecOK
<1>3. InsOK(s.ins, prep, ns, n + 1) /\ AddedPins(s.pins, prep, n + 1) BY <1>2, NotedSame, PinsSame
<1>4. AllPins(s.pins, prep, n) /\ ~PinsFor(e) => AllPins(s.pins, prep, n + 1) BY <1>1, <1>2, PinsSame
<1>5. CASE t = s /\ (s.err \/ ~PinsFor(e)) BY <1>2, <1>3, <1>4, <1>5 DEF FoldC
<1>6. CASE ~s.err /\ ~e.own
  <2>1. t = handleBlockchainEventForListener(s, ns, e) BY <1>1, <1>6 DEF handleEvent
  <2>2. CASE e.sub # Listener(ns, listenerC[ns]) BY <1>5, <1>6, <2>1, <2>2 DEF handleBlockchainEventForListener, PinsFor
  <2>3. CASE e.sub = Listener(ns, listenerC[ns])
    <3>1. PICK v : v = <<e.pos, 1>> OBVIOUS
    <3>2. t = [s EXCEPT !.ins = Append(@, v)] BY <2>1, <2>3, <3>1 DEF handleBlockchainEventForListener
    <3>3. /\ DOMAIN t = FieldsC /\ t.mem = s.mem /\ t.row = s.row /\ t.subs = s.subs /\ t.at = s.at /\ t.queue = s.queue
          /\ t.ins = Append(s.ins, v) /\ t.pins = s.pins /\ t.err = s.err
      BY <1>2, <3>2 DEF FieldsC
    <3>4. Noted(ns, e) /\ v = Notes(ns, e) BY <1>6, <2>3, <3>1 DEF Noted, Notes
    <3>5. InsOK(t.ins, prep, ns, n + 1) BY <1>1, <1>2, <3>3, <3>4, NotedMore
    <3>6. RecOK(t) /\ GoesC(s, t, ns) BY <1>2, <3>3, SameRec
    <3>7. GoesC(start, t, ns) BY <1>2, <3>6, GoesFurther
    <3>8. AllPins(t.pins, prep, n + 1) BY <1>2, <1>4, <1>6, <3>3 DEF PinsFor
    <3> QED BY <1>3, <3>3, <3>5, <3>6, <3>7, <3>8 DEF FoldC
  <2> QED BY <2>2, <2>3
<1>7. CASE ~s.err /\ e.own /\ ChainC[e.pos].kind = "pin"
  <2>1. PICK v : v = <<e.pos, 0>> OBVIOUS
  <2>2. t = [s EXCEPT !.ins = Append(@, v), !.pins = Append(@, e.pos)]
    BY <1>1, <1>7, <2>1 DEF handleEvent, handleBlockchainBatchPinEvent
  <2>3. /\ DOMAIN t = FieldsC /\ t.mem = s.mem /\ t.row = s.row /\ t.subs = s.subs /\ t.at = s.at /\ t.queue = s.queue
        /\ t.ins = Append(s.ins, v) /\ t.pins = Append(s.pins, e.pos) /\ t.err = s.err
    BY <1>2, <2>2 DEF FieldsC
  <2>4. Noted(ns, e) /\ v = Notes(ns, e) /\ PinsFor(e) BY <1>7, <2>1 DEF Noted, Notes, PinsFor
  <2>5. InsOK(t.ins, prep, ns, n + 1) BY <1>1, <1>2, <2>3, <2>4, NotedMore
  <2>6. RecOK(t) /\ GoesC(s, t, ns) BY <1>2, <2>3, SameRec
  <2>7. GoesC(start, t, ns) BY <1>2, <2>6, GoesFurther
  <2>8. AddedPins(t.pins, prep, n + 1) /\ AllPins(t.pins, prep, n + 1) BY <1>1, <1>2, <1>7, <2>3, <2>4, PinsMore
  <2> QED BY <2>5, <2>6, <2>7, <2>8 DEF FoldC
<1>8. CASE ~s.err /\ e.own /\ ChainC[e.pos].kind # "pin"
  <2>1. t = handleBlockchainNetworkAction(s, ns, e) /\ ~PinsFor(e) BY <1>1, <1>8 DEF handleEvent, PinsFor
  <2>2. CASE ~ChainC[e.pos].known BY <1>5, <2>1, <2>2 DEF handleBlockchainNetworkAction
  <2>3. CASE ChainC[e.pos].known
    <3>1. PICK v : v = <<e.pos, 0>> OBVIOUS
    <3>2. PICK u : u = TerminateContract(s, ns, e.pos) OBVIOUS
    <3>3. t = [u EXCEPT !.ins = Append(@, v)] BY <2>1, <2>3, <3>1, <3>2 DEF handleBlockchainNetworkAction
    <3>4. OneEachC => Hears(s.mem, s.subs, s.at, ns) BY <1>2 DEF GoesC
    <3>5. RecOK(u) /\ MovesC(s, u, ns) BY <1>2, <3>2, <3>4, TerminateKeeps
    <3>6. DOMAIN u = FieldsC /\ u.ins = s.ins /\ u.pins = s.pins /\ GoesC(s, u, ns) BY <3>5 DEF RecOK, MovesC
    <3>7. /\ DOMAIN t = FieldsC /\ t.mem = u.mem /\ t.row = u.row /\ t.subs = u.subs /\ t.at = u.at /\ t.queue = u.queue
          /\ t.ins = Append(s.ins, v) /\ t.pins = s.pins
      BY <3>3, <3>6 DEF FieldsC
    <3>8. Noted(ns, e) /\ v = Notes(ns, e) BY <1>8, <3>1 DEF Noted, Notes
    <3>9. InsOK(t.ins, prep, ns, n + 1) BY <1>1, <1>2, <3>7, <3>8, NotedMore
    <3>10. RecOK(t) /\ GoesC(u, t, ns) BY <3>5, <3>7, SameRec
    <3>11. GoesC(start, u, ns) BY <1>2, <3>5, <3>6, GoesFurther
    <3>12. GoesC(start, t, ns) BY <3>5, <3>10, <3>11, GoesFurther
    <3>13. AllPins(t.pins, prep, n + 1) BY <1>2, <1>4, <1>8, <2>1, <3>7
    <3> QED BY <1>3, <3>7, <3>9, <3>10, <3>12, <3>13 DEF FoldC
  <2> QED BY <2>2, <2>3
<1>9. CASE s.err
  <2>1. t = s BY <1>9 DEF handleEvent
  <2> QED BY <1>5, <1>9, <2>1
<1> QED BY <1>6, <1>7, <1>8, <1>9

(* attempt: the recursive function behind it, and its value.               *)
AttemptIs(f, ns, broken) ==
    f = [k \in 0..Len(prepC[ns]) |->
            IF k = 0 THEN [StateOf(ns) EXCEPT !.broken = broken] ELSE handleEvent(f[k - 1], ns, prepC[ns][k])]
AttemptUpTo(f, ns, broken, n) ==
    /\ f[0] = [StateOf(ns) EXCEPT !.broken = broken]
    /\ \A k \in 1..n : f[k] = handleEvent(f[k - 1], ns, prepC[ns][k])

LEMMA AttemptExists == ASSUME NEW ns, NEW broken, Len(prepC[ns]) \in Nat PROVE \E f : AttemptIs(f, ns, broken)
<1> DEFINE G == {n \in Nat : \E f : AttemptUpTo(f, ns, broken, n)}
<1>1. 0 \in G
  <2>1. AttemptUpTo([k \in {0} |-> [StateOf(ns) EXCEPT !.broken = broken]], ns, broken, 0) BY DEF AttemptUpTo
  <2> QED BY <2>1
<1>2. ASSUME NEW n \in Nat, n \in G PROVE n + 1 \in G
  <2>1. PICK f : AttemptUpTo(f, ns, broken, n) BY <1>2
  <2> DEFINE g == [k \in 0..(n + 1) |-> IF k = n + 1 THEN handleEvent(f[n], ns, prepC[ns][n + 1]) ELSE f[k]]
  <2>2. g[n + 1] = handleEvent(f[n], ns, prepC[ns][n + 1]) /\ \A k \in 0..n : g[k] = f[k] OBVIOUS
  <2> HIDE DEF g
  <2>3. ASSUME NEW k \in 1..(n + 1) PROVE g[k] = handleEvent(g[k - 1], ns, prepC[ns][k])
    <3>1. CASE k = n + 1
      <4>1. k - 1 = n /\ n \in 0..n BY <3>1
      <4>2. g[k - 1] = f[n] BY <2>2, <4>1
      <4> QED BY <2>2, <3>1, <4>2
    <3>2. CASE k # n + 1
      <4>1. k \in 1..n /\ k \in 0..n /\ k - 1 \in 0..n BY <3>2
      <4>2. g[k] = f[k] /\ g[k - 1] = f[k - 1] BY <2>2, <4>1
      <4> QED BY <2>1, <4>1, <4>2 DEF AttemptUpTo
    <3> QED BY <3>1, <3>2
  <2>4. 0 \in 0..n OBVIOUS
  <2>5. g[0] = f[0] BY <2>2, <2>4
  <2>6. AttemptUpTo(g, ns, broken, n + 1) BY <2>1, <2>3, <2>5 DEF AttemptUpTo
  <2> QED BY <2>6
<1>3. Len(prepC[ns]) \in G
  <2> HIDE DEF G
  <2> QED BY <1>1, <1>2, NatSetInduction
<1>4. PICK f : AttemptUpTo(f, ns, broken, Len(prepC[ns])) BY <1>3
<1> DEFINE h == [k \in 0..Len(prepC[ns]) |-> f[k]]
<1>5. \A k \in 0..Len(prepC[ns]) :
          h[k] = IF k = 0 THEN [StateOf(ns) EXCEPT !.broken = broken] ELSE handleEvent(h[k - 1], ns, prepC[ns][k])
  <2>1. \A k \in 0..Len(prepC[ns]) : h[k] = f[k] OBVIOUS
  <2> HIDE DEF h
  <2>2. ASSUME NEW k \in 0..Len(prepC[ns]), k # 0 PROVE h[k] = handleEvent(h[k - 1], ns, prepC[ns][k])
    <3>1. k \in 1..Len(prepC[ns]) /\ k - 1 \in 0..Len(prepC[ns]) BY <2>2
    <3>2. h[k] = f[k] /\ h[k - 1] = f[k - 1] BY <2>1, <3>1
    <3> QED BY <1>4, <3>1, <3>2 DEF AttemptUpTo
  <2>3. h[0] = f[0] BY <2>1
  <2> QED BY <1>4, <2>2, <2>3 DEF AttemptUpTo
<1>6. h = [k \in 0..Len(prepC[ns]) |-> h[k]] OBVIOUS
<1> HIDE DEF h
<1>7. AttemptIs(h, ns, broken)
  <2>1. h = [k \in 0..Len(prepC[ns]) |->
                IF k = 0 THEN [StateOf(ns) EXCEPT !.broken = broken] ELSE handleEvent(h[k - 1], ns, prepC[ns][k])]
    BY <1>5, <1>6, Zenon
  <2> QED BY <2>1 DEF AttemptIs
<1> QED BY <1>7

LEMMA AttemptKeeps ==
    ASSUME minedC \in Nat, NEW ns \in NsC, NEW broken \in BOOLEAN, RecOK(StateOf(ns)), OrderedFor(prepC[ns], ns),
           OneEachC => Hears(memC[ns], subsC, atC, ns), NEW s, s = attempt(ns, broken)
    PROVE  FoldC(StateOf(ns), s, prepC[ns], ns, Len(prepC[ns]))
<1>1. Len(prepC[ns]) \in Nat BY DEF OrderedFor
<1> DEFINE f == CHOOSE f : AttemptIs(f, ns, broken)
<1>2. AttemptIs(f, ns, broken) BY <1>1, AttemptExists
<1>3. s = f[Len(prepC[ns])] BY DEF attempt, AttemptIs
<1> HIDE DEF f
<1>4. f[0] = [StateOf(ns) EXCEPT !.broken = broken] /\ \A k \in 1..Len(prepC[ns]) : f[k] = handleEvent(f[k - 1], ns, prepC[ns][k])
  <2>1. \A k \in 0..Len(prepC[ns]) :
            f[k] = IF k = 0 THEN [StateOf(ns) EXCEPT !.broken = broken] ELSE handleEvent(f[k - 1], ns, prepC[ns][k])
    <3> HIDE DEF f
    <3> QED BY <1>2, Zenon DEF AttemptIs
  <2>2. 0 \in 0..Len(prepC[ns]) /\ \A k \in 1..Len(prepC[ns]) : k \in 0..Len(prepC[ns]) /\ k # 0 BY <1>1
  <2> QED BY <2>1, <2>2
<1>5. PICK start : start = StateOf(ns) OBVIOUS
<1>6. /\ start.mem = memC[ns] /\ start.subs = subsC /\ start.at = atC /\ start.queue = queueC /\ start.row = rowC[ns]
      /\ start.ins = <<>> /\ start.pins = <<>> /\ DOMAIN start = FieldsC
  BY <1>5 DEF StateOf, FieldsC
<1>7. RecOK(start) /\ (OneEachC => Hears(start.mem, start.subs, start.at, ns)) BY <1>5, <1>6
<1> DEFINE G == {k \in Nat : k <= Len(prepC[ns]) => FoldC(start, f[k], prepC[ns], ns, k)}
<1>8. 0 \in G
  <2>1. PICK t : t = f[0] OBVIOUS
  <2>2. t = [start EXCEPT !.broken = broken] BY <1>4, <1>5, <2>1
  <2>3. /\ DOMAIN t = FieldsC /\ t.mem = start.mem /\ t.row = start.row /\ t.subs = start.subs
        /\ t.at = start.at /\ t.queue = start.queue /\ t.ins = <<>> /\ t.pins = <<>>
    BY <1>6, <2>2 DEF FieldsC
  <2>4. RecOK(t) /\ GoesC(start, t, ns) BY <1>7, <2>3, SameRec
  <2>5. InsOK(t.ins, prepC[ns], ns, 0) BY <2>3 DEF InsOK
  <2>6. AddedPins(t.pins, prepC[ns], 0) /\ AllPins(t.pins, prepC[ns], 0) BY <2>3 DEF AddedPins, AllPins
  <2>7. FoldC(start, t, prepC[ns], ns, 0) BY <2>4, <2>5, <2>6 DEF FoldC
  <2> QED BY <2>1, <2>7
<1>9. ASSUME NEW k \in Nat, k \in G PROVE k + 1 \in G
  <2> SUFFICES ASSUME k + 1 <= Len(prepC[ns]) PROVE FoldC(start, f[k + 1], prepC[ns], ns, k + 1) OBVIOUS
  <2>1. k <= Len(prepC[ns]) /\ k + 1 \in 1..Len(prepC[ns]) /\ (k + 1) - 1 = k BY <1>1
  <2>2. FoldC(start, f[k], prepC[ns], ns, k) BY <1>9, <2>1
  <2>3. f[k + 1] = handleEvent(f[k], ns, prepC[ns][k + 1]) BY <1>4, <2>1
  <2> QED BY <1>7, <2>2, <2>3, HandleKeeps
<1>10. Len(prepC[ns]) \in G
  <2> HIDE DEF G
  <2> QED BY <1>1, <1>8, <1>9, NatSetInduction
<1>11. FoldC(start, f[Len(prepC[ns])], prepC[ns], ns, Len(prepC[ns]))
  <2>1. \A m \in Nat : m <= m OBVIOUS
  <2>2. Len(prepC[ns]) <= Len(prepC[ns]) BY <1>1, <2>1
  <2> QED BY <1>10, <2>2
<1> QED BY <1>3, <1>5, <1>11

(* What is prepared from a batch, the first messages of the queue, and the *)
(* pins a namespace has stored: of subscriptions at the connector, in the  *)
(* order of the chain.  OrderFor: what is queued of such a subscription    *)
(* and older than a stored pin of the contract is stored.                  *)
PrepFor(at, q, size, prep, k) ==
    /\ OrderedFor(prep, k)
    /\ \A j \in DOMAIN prep : prep[j].own =>
          /\ prep[j].pos <= minedC /\ prep[j].sub \in DOMAIN at
          /\ PinsFor(prep[j]) => WantsC(k, prep[j].pos)
          /\ \E b \in 1..size : q[b].pos = prep[j].pos /\ q[b].sub = prep[j].sub
          /\ \A i \in 1..size : q[i].sub = prep[j].sub /\ WantsC(k, q[i].pos) =>
                \E l \in DOMAIN prep : prep[l].own /\ prep[l].pos = q[i].pos
RowsInOrder(rows) ==
    \A i, j \in DOMAIN rows : i < j /\ ContractOf(rows[i]) = ContractOf(rows[j]) => rows[i] < rows[j]
StoredFor(at, rows, k) ==
    /\ rows \in Seq(Nat) /\ RowsInOrder(rows)
    /\ \A j \in DOMAIN rows : rows[j] <= minedC /\ SubOf(pluginC, ContractOf(rows[j]), k) \in DOMAIN at
OrderFor(q, rows, k) ==
    \A i \in DOMAIN q : \A j \in DOMAIN rows :
        /\ q[i].sub = SubOf(pluginC, ContractOf(q[i].pos), k) /\ ContractOf(q[i].pos) = ContractOf(rows[j])
        /\ q[i].pos < rows[j] /\ WantsC(k, q[i].pos)
        => \E l \in DOMAIN rows : rows[l] = q[i].pos

(* With more subscriptions and a longer queue.                             *)
LEMMA SubOfFF == \A pl, c, k : IsFF(SubOf(pl, c, k))
BY DEF SubOf, IsFF

LEMMA GrowKeeps ==
    ASSUME NEW at, NEW q, NEW at2, NEW q2, Ext(at, q, at2, q2), NEW rows, NEW k, StoredFor(at, rows, k), OrderFor(q, rows, k)
    PROVE  StoredFor(at2, rows, k) /\ OrderFor(q2, rows, k)
<1>1. \A j \in DOMAIN rows : SubOf(pluginC, ContractOf(rows[j]), k) \in DOMAIN at BY DEF StoredFor
<1>2. StoredFor(at2, rows, k)
  <2>1. \A j \in DOMAIN rows : SubOf(pluginC, ContractOf(rows[j]), k) \in DOMAIN at2 BY <1>1, SubOfFF DEF Ext, Longer
  <2> QED BY <2>1 DEF StoredFor
<1>3. ASSUME NEW i \in DOMAIN q2, NEW j \in DOMAIN rows,
             q2[i].sub = SubOf(pluginC, ContractOf(q2[i].pos), k), ContractOf(q2[i].pos) = ContractOf(rows[j]),
             q2[i].pos < rows[j], WantsC(k, q2[i].pos)
      PROVE  \E l \in DOMAIN rows : rows[l] = q2[i].pos
  <2>1. i \in DOMAIN q BY <1>1, <1>3, SubOfFF DEF Ext, Longer
  <2>2. q2[i] = q[i] BY <2>1 DEF Ext, Longer
  <2> QED BY <1>3, <2>1, <2>2 DEF OrderFor
<1> QED BY <1>2, <1>3 DEF OrderFor

LEMMA GrowPrep ==
    ASSUME NEW at, NEW q \in Seq(MsgC), NEW at2, NEW q2, Longer(at, q, at2, q2), NEW prep, NEW k, NEW size \in Nat, size <= Len(q),
           PrepFor(at, q, size, prep, k)
    PROVE  PrepFor(at2, q2, size, prep, k)
<1>1. Len(q) \in Nat /\ DOMAIN q = 1..Len(q) OBVIOUS
<1>2. \A i \in 1..size : i \in DOMAIN q BY <1>1
<1>3. \A i \in 1..size : q2[i] = q[i] BY <1>2 DEF Longer
<1>4. OrderedFor(prep, k) BY DEF PrepFor
<1>5. ASSUME NEW j \in DOMAIN prep, prep[j].own
      PROVE  /\ prep[j].pos <= minedC /\ prep[j].sub \in DOMAIN at2
             /\ PinsFor(prep[j]) => WantsC(k, prep[j].pos)
             /\ \E b \in 1..size : q2[b].pos = prep[j].pos /\ q2[b].sub = prep[j].sub
             /\ \A i \in 1..size : q2[i].sub = prep[j].sub /\ WantsC(k, q2[i].pos) =>
                   \E l \in DOMAIN prep : prep[l].own /\ prep[l].pos = q2[i].pos
  <2>1. prep[j].pos <= minedC /\ prep[j].sub \in DOMAIN at /\ (PinsFor(prep[j]) => WantsC(k, prep[j].pos)) BY <1>5 DEF PrepFor
  <2>2. IsFF(prep[j].sub) BY <1>4, <1>5, SubOfFF DEF OrderedFor
  <2>3. prep[j].sub \in DOMAIN at2 BY <2>1, <2>2 DEF Longer
  <2>4. \E b \in 1..size : q2[b].pos = prep[j].pos /\ q2[b].sub = prep[j].sub
    <3>1. PICK b \in 1..size : q[b].pos = prep[j].pos /\ q[b].sub = prep[j].sub BY <1>5 DEF PrepFor
    <3> QED BY <1>3, <3>1
  <2>5. ASSUME NEW i \in 1..size, q2[i].sub = prep[j].sub, WantsC(k, q2[i].pos)
        PROVE  \E l \in DOMAIN prep : prep[l].own /\ prep[l].pos = q2[i].pos
    <3>1. q2[i] = q[i] BY <1>3
    <3> QED BY <1>5, <2>5, <3>1 DEF PrepFor
  <2> QED BY <2>1, <2>3, <2>4, <2>5
<1> QED BY <1>4, <1>5 DEF PrepFor

(* Those of a sequence that are not in another, after it.                  *)
AddedTo(rows, add, rows2) ==
    /\ DOMAIN rows \subseteq DOMAIN rows2 /\ DOMAIN rows2 \subseteq Nat
    /\ \A i \in DOMAIN rows : rows2[i] = rows[i] /\ \A j \in DOMAIN rows2 : j \notin DOMAIN rows => i < j
    /\ \A j \in DOMAIN rows2 : j \in DOMAIN rows \/
          \E m \in DOMAIN add : rows2[j] = add[m] /\ \A i \in DOMAIN rows : rows[i] # add[m]
    /\ \A i, j \in DOMAIN rows2 : i \notin DOMAIN rows /\ j \notin DOMAIN rows /\ i < j =>
          \E m, n \in DOMAIN add : m < n /\ rows2[i] = add[m] /\ rows2[j] = add[n]
    /\ \A m \in DOMAIN add : \E j \in DOMAIN rows2 : rows2[j] = add[m]

LEMMA AddedHas ==
    ASSUME NEW Ty, NEW rows \in Seq(Ty), NEW add \in Seq(Ty), NEW rows2, rows2 = rows \o Only(add, Range(add) \ Range(rows))
    PROVE  rows2 \in Seq(Ty) /\ AddedTo(rows, add, rows2)
<1>1. PICK new : new = Only(add, Range(add) \ Range(rows)) OBVIOUS
<1>2. KeptOK(new, add, Range(add) \ Range(rows), Ty, Len(add)) BY <1>1, OnlyHas
<1>3. /\ new \in Seq(Ty) /\ Len(rows) \in Nat /\ Len(new) \in Nat /\ Len(add) \in Nat
      /\ DOMAIN rows = 1..Len(rows) /\ DOMAIN new = 1..Len(new) /\ DOMAIN add = 1..Len(add)
  BY <1>2 DEF KeptOK
<1>4. /\ rows2 \in Seq(Ty) /\ Len(rows2) = Len(rows) + Len(new)
      /\ \A i \in 1..Len(rows) + Len(new) : rows2[i] = IF i <= Len(rows) THEN rows[i] ELSE new[i - Len(rows)]
  BY <1>1, <1>3, ConcatProperties
<1>5. DOMAIN rows2 = 1..(Len(rows) + Len(new)) BY <1>3, <1>4
<1>6. /\ \A i \in 1..Len(rows) : i \in 1..(Len(rows) + Len(new)) /\ i <= Len(rows)
      /\ \A i \in 1..(Len(rows) + Len(new)) :
            IF i <= Len(rows) THEN i \in 1..Len(rows) ELSE i \notin 1..Len(rows) /\ i - Len(rows) \in 1..Len(new)
      /\ \A i \in 1..Len(rows) : \A j \in 1..(Len(rows) + Len(new)) : j \notin 1..Len(rows) => i < j
      /\ \A i \in 1..Len(new) : /\ i + Len(rows) \in 1..(Len(rows) + Len(new)) /\ ~(i + Len(rows) <= Len(rows))
                               /\ (i + Len(rows)) - Len(rows) = i
      /\ \A i, j \in 1..(Len(rows) + Len(new)) : i < j => i - Len(rows) < j - Len(rows)
  <2> SUFFICES ASSUME NEW a \in Nat, NEW b \in Nat
               PROVE  /\ \A i \in 1..a : i \in 1..(a + b) /\ i <= a
                      /\ \A i \in 1..(a + b) : IF i <= a THEN i \in 1..a ELSE i \notin 1..a /\ i - a \in 1..b
                      /\ \A i \in 1..a : \A j \in 1..(a + b) : j \notin 1..a => i < j
                      /\ \A i \in 1..b : i + a \in 1..(a + b) /\ ~(i + a <= a) /\ (i + a) - a = i
                      /\ \A i, j \in 1..(a + b) : i < j => i - a < j - a
    BY <1>3
  <2>1. \A i \in 1..a : i \in 1..(a + b) /\ i <= a OBVIOUS
  <2>2. \A i \in 1..(a + b) : IF i <= a THEN i \in 1..a ELSE i \notin 1..a /\ i - a \in 1..b OBVIOUS
  <2>3. \A i \in 1..a : \A j \in 1..(a + b) : j \notin 1..a => i < j OBVIOUS
  <2>4. \A i \in 1..b : i + a \in 1..(a + b) /\ ~(i + a <= a) /\ (i + a) - a = i OBVIOUS
  <2>5. \A i, j \in 1..(a + b) : i < j => i - a < j - a OBVIOUS
  <2> QED BY <2>1, <2>2, <2>3, <2>4, <2>5
<1>7. \A i \in DOMAIN rows : i \in DOMAIN rows2 /\ rows2[i] = rows[i] /\ \A j \in DOMAIN rows2 : j \notin DOMAIN rows => i < j
  BY <1>3, <1>4, <1>5, <1>6
<1>8. \A j \in DOMAIN rows2 : j \in DOMAIN rows \/ (j - Len(rows) \in DOMAIN new /\ rows2[j] = new[j - Len(rows)])
  BY <1>3, <1>4, <1>5, <1>6
<1>9. \A j \in DOMAIN new : j + Len(rows) \in DOMAIN rows2 /\ rows2[j + Len(rows)] = new[j]
  BY <1>3, <1>4, <1>5, <1>6
<1>10. ASSUME NEW j \in DOMAIN rows2, j \notin DOMAIN rows
       PROVE  \E m \in DOMAIN add : rows2[j] = add[m] /\ \A i \in DOMAIN rows : rows[i] # add[m]
  <2>1. PICK m \in 1..Len(add) : add[m] \in Range(add) \ Range(rows) /\ new[j - Len(rows)] = add[m]
    BY <1>2, <1>8, <1>10 DEF KeptOK
  <2>2. \A i \in DOMAIN rows : rows[i] # add[m] BY <2>1 DEF Range
  <2> QED BY <1>3, <1>8, <1>10, <2>1, <2>2
<1>11. ASSUME NEW i \in DOMAIN rows2, NEW j \in DOMAIN rows2, i \notin DOMAIN rows, j \notin DOMAIN rows, i < j
       PROVE  \E m, n \in DOMAIN add : m < n /\ rows2[i] = add[m] /\ rows2[j] = add[n]
  <2>1. /\ i - Len(rows) \in DOMAIN new /\ rows2[i] = new[i - Len(rows)]
        /\ j - Len(rows) \in DOMAIN new /\ rows2[j] = new[j - Len(rows)] /\ i - Len(rows) < j - Len(rows)
    BY <1>3, <1>5, <1>6, <1>8, <1>11
  <2>2. PICK m \in 1..Len(add), n \in 1..Len(add) : m < n /\ new[i - Len(rows)] = add[m] /\ new[j - Len(rows)] = add[n]
    BY <1>2, <2>1 DEF KeptOK
  <2> QED BY <1>3, <2>1, <2>2
<1>12. ASSUME NEW m \in DOMAIN add PROVE \E j \in DOMAIN rows2 : rows2[j] = add[m]
  <2>1. CASE add[m] \in Range(rows)
    <3>1. PICK i \in DOMAIN rows : rows[i] = add[m] BY <2>1 DEF Range
    <3> QED BY <1>7, <3>1
  <2>2. CASE add[m] \notin Range(rows)
    <3>1. add[m] \in Range(add) BY DEF Range
    <3>2. PICK i \in DOMAIN new : new[i] = add[m] BY <1>2, <1>3, <2>2, <3>1 DEF KeptOK
    <3> QED BY <1>9, <3>2
  <2> QED BY <2>1, <2>2
<1>13. DOMAIN rows2 \subseteq Nat BY <1>5
<1>14. \A i \in DOMAIN rows : rows2[i] = rows[i] /\ \A j \in DOMAIN rows2 : j \notin DOMAIN rows => i < j BY <1>7
<1>15. DOMAIN rows \subseteq DOMAIN rows2 BY <1>7
<1> QED BY <1>4, <1>10, <1>11, <1>12, <1>13, <1>14, <1>15 DEF AddedTo

(* A handled batch: chain events are noted once, pins stored in order.     *)
NotOnceMore(rows) == \A i, j \in DOMAIN rows : rows[i] = rows[j] => i = j

LEMMA NoteKeeps ==
    ASSUME NEW Ty, NEW rows \in Seq(Ty), NEW add \in Seq(Ty), NotOnceMore(rows), NotOnceMore(add),
           NEW rows2, rows2 = InsertNewBlockchainEvents(rows, add)
    PROVE  rows2 \in Seq(Ty) /\ NotOnceMore(rows2)
<1>1. rows2 = rows \o Only(add, Range(add) \ Range(rows)) BY DEF InsertNewBlockchainEvents
<1>2. rows2 \in Seq(Ty) /\ AddedTo(rows, add, rows2) BY <1>1, AddedHas
<1>3. \A m, n \in DOMAIN add : m < n => add[m] # add[n]
  <2>1. DOMAIN add = 1..Len(add) /\ Len(add) \in Nat OBVIOUS
  <2>2. \A m, n \in DOMAIN add : m < n => m # n BY <2>1
  <2> QED BY <2>2 DEF NotOnceMore
<1>4. \A i, j \in DOMAIN rows2 : i \notin DOMAIN rows /\ j \notin DOMAIN rows /\ i < j => rows2[i] # rows2[j]
  BY <1>2, <1>3 DEF AddedTo
<1>5. ASSUME NEW i \in DOMAIN rows2, NEW j \in DOMAIN rows2, rows2[i] = rows2[j] PROVE i = j
  <2>1. CASE i \in DOMAIN rows /\ j \in DOMAIN rows BY <1>2, <1>5, <2>1 DEF NotOnceMore, AddedTo
  <2>2. CASE i \in DOMAIN rows /\ j \notin DOMAIN rows BY <1>2, <1>5, <2>2 DEF AddedTo
  <2>3. CASE i \notin DOMAIN rows /\ j \in DOMAIN rows BY <1>2, <1>5, <2>3 DEF AddedTo
  <2>4. CASE i \notin DOMAIN rows /\ j \notin DOMAIN rows
    <3>1. i \in Nat /\ j \in Nat BY <1>2 DEF AddedTo
    <3>2. ~(i < j) /\ ~(j < i) BY <1>4, <1>5, <2>4
    <3> QED BY <3>1, <3>2
  <2> QED BY <2>1, <2>2, <2>3, <2>4
<1> QED BY <1>2, <1>5 DEF NotOnceMore

LEMMA StoreKeeps ==
    ASSUME minedC \in Nat, NEW at, NEW q, NEW made, QueueOK(at, q, made, minedC), NEW size \in Nat, size <= Len(q), NEW k \in NsC,
           NEW prep, PrepFor(at, q, size, prep, k), NEW pins, AddedPins(pins, prep, Len(prep)), AllPins(pins, prep, Len(prep)),
           NEW rows, StoredFor(at, rows, k), OrderFor(q, rows, k), NEW rows2, rows2 = persistContexts(rows, pins)
    PROVE  StoredFor(at, rows2, k) /\ OrderFor(q, rows2, k)
<1>1. q \in Seq(MsgC) /\ Len(q) \in Nat /\ DOMAIN q = 1..Len(q) BY DEF QueueOK
<1>2. \A b \in 1..size : b \in DOMAIN q BY <1>1
<1>3. \A i \in DOMAIN q : q[i].pos \in Nat
  <2>1. \A i \in DOMAIN q : q[i] \in MsgC BY <1>1
  <2>2. \A m \in MsgC : m.pos \in Nat BY DEF MsgC
  <2> QED BY <2>1, <2>2
<1>4. prep \in Seq(EntryC) /\ Len(prep) \in Nat /\ DOMAIN prep = 1..Len(prep) BY DEF PrepFor, OrderedFor
<1>5. rows \in Seq(Nat) /\ pins \in Seq(Nat) BY DEF StoredFor, AddedPins
<1>6. rows2 = rows \o Only(pins, Range(pins) \ Range(rows)) BY DEF persistContexts
<1>7. rows2 \in Seq(Nat) /\ AddedTo(rows, pins, rows2) BY <1>5, <1>6, AddedHas
(* A pin that is new is of a message of the batch.                         *)
<1>8. ASSUME NEW j \in DOMAIN rows2, j \notin DOMAIN rows
      PROVE  /\ rows2[j] <= minedC /\ SubOf(pluginC, ContractOf(rows2[j]), k) \in DOMAIN at
             /\ \A i \in DOMAIN rows : rows[i] # rows2[j]
             /\ WantsC(k, rows2[j])
             /\ \E b \in 1..size : q[b].pos = rows2[j] /\ q[b].sub = SubOf(pluginC, ContractOf(rows2[j]), k)
             /\ \A i \in 1..size : q[i].sub = SubOf(pluginC, ContractOf(rows2[j]), k) /\ WantsC(k, q[i].pos) =>
                   \E l \in DOMAIN rows2 : rows2[l] = q[i].pos
  <2>1. PICK m \in DOMAIN pins : rows2[j] = pins[m] /\ \A i \in DOMAIN rows : rows[i] # pins[m] BY <1>7, <1>8 DEF AddedTo
  <2>2. PICK n \in DOMAIN prep : PinsFor(prep[n]) /\ pins[m] = prep[n].pos BY <1>4 DEF AddedPins
  <2>3. prep[n].own /\ prep[n].sub = SubOf(pluginC, ContractOf(rows2[j]), k) BY <2>1, <2>2 DEF PinsFor, PrepFor, OrderedFor
  <2>4. prep[n].pos <= minedC /\ prep[n].sub \in DOMAIN at /\ WantsC(k, prep[n].pos) BY <2>2, <2>3 DEF PrepFor
  <2>5. \E b \in 1..size : q[b].pos = prep[n].pos /\ q[b].sub = prep[n].sub BY <2>3 DEF PrepFor
  <2>6. ASSUME NEW i \in 1..size, q[i].sub = prep[n].sub, WantsC(k, q[i].pos)
        PROVE  \E l \in DOMAIN rows2 : rows2[l] = q[i].pos
    <3>1. PICK l \in DOMAIN prep : prep[l].own /\ prep[l].pos = q[i].pos BY <2>3, <2>6 DEF PrepFor
    <3>2. PinsFor(prep[l]) BY <2>6, <3>1 DEF PinsFor, WantsC
    <3>3. PICK o \in DOMAIN pins : pins[o] = prep[l].pos BY <1>4, <3>2 DEF AllPins
    <3> QED BY <1>7, <3>1, <3>3 DEF AddedTo
  <2> QED BY <2>1, <2>2, <2>3, <2>4, <2>5, <2>6
<1>9. \A j \in DOMAIN rows2 : rows2[j] <= minedC /\ SubOf(pluginC, ContractOf(rows2[j]), k) \in DOMAIN at
  BY <1>7, <1>8 DEF StoredFor, AddedTo
<1>10. RowsInOrder(rows2)
  <2> SUFFICES ASSUME NEW i \in DOMAIN rows2, NEW j \in DOMAIN rows2, i < j, ContractOf(rows2[i]) = ContractOf(rows2[j])
               PROVE  rows2[i] < rows2[j]
    BY DEF RowsInOrder
  <2>0. i \in Nat /\ j \in Nat /\ rows2[i] \in Nat /\ rows2[j] \in Nat BY <1>7 DEF AddedTo
  <2>1. CASE i \in DOMAIN rows /\ j \in DOMAIN rows BY <1>7, <2>1 DEF StoredFor, RowsInOrder, AddedTo
  <2>2. CASE i \in DOMAIN rows /\ j \notin DOMAIN rows
    <3>1. rows2[i] = rows[i] /\ rows[i] # rows2[j] BY <1>7, <1>8, <2>2 DEF AddedTo
    <3>2. PICK b \in 1..size : q[b].pos = rows2[j] /\ q[b].sub = SubOf(pluginC, ContractOf(rows2[j]), k) BY <1>8, <2>2
    <3>3. WantsC(k, q[b].pos) BY <1>8, <2>2, <3>2
    <3>4. ~(q[b].pos < rows[i])
      <4> SUFFICES ASSUME q[b].pos < rows[i] PROVE FALSE OBVIOUS
      <4>1. PICK l \in DOMAIN rows : rows[l] = q[b].pos BY <1>2, <2>2, <3>1, <3>2, <3>3 DEF OrderFor
      <4> QED BY <1>8, <2>2, <3>2, <4>1
    <3> QED BY <2>0, <3>1, <3>2, <3>4
  <2>3. CASE i \notin DOMAIN rows /\ j \in DOMAIN rows
    <3>1. j < i BY <1>7, <2>3 DEF AddedTo
    <3> QED BY <2>0, <3>1
  <2>4. CASE i \notin DOMAIN rows /\ j \notin DOMAIN rows
    <3>1. PICK m \in DOMAIN pins, n \in DOMAIN pins : m < n /\ rows2[i] = pins[m] /\ rows2[j] = pins[n] BY <1>7, <2>4 DEF AddedTo
    <3> QED BY <3>1 DEF AddedPins
  <2> QED BY <2>1, <2>2, <2>3, <2>4
<1>11. ASSUME NEW i \in DOMAIN q, NEW j \in DOMAIN rows2,
              q[i].sub = SubOf(pluginC, ContractOf(q[i].pos), k), ContractOf(q[i].pos) = ContractOf(rows2[j]),
              q[i].pos < rows2[j], WantsC(k, q[i].pos)
       PROVE  \E l \in DOMAIN rows2 : rows2[l] = q[i].pos
  <2>1. CASE j \in DOMAIN rows
    <3>1. rows2[j] = rows[j] BY <1>7, <2>1 DEF AddedTo
    <3>2. PICK l \in DOMAIN rows : rows[l] = q[i].pos BY <1>11, <2>1, <3>1 DEF OrderFor
    <3> QED BY <1>7, <3>2 DEF AddedTo
  <2>2. CASE j \notin DOMAIN rows
    <3>1. PICK b \in 1..size : q[b].pos = rows2[j] /\ q[b].sub = SubOf(pluginC, ContractOf(rows2[j]), k) BY <1>8, <2>2
    <3>2. q[i].sub = q[b].sub /\ q[i].pos < q[b].pos BY <1>11, <3>1
    <3>3. ~(b < i) /\ b # i
      <4>1. b < i => q[b].pos < q[i].pos BY <1>2, <3>2 DEF QueueOK
      <4>2. q[b].pos \in Nat /\ q[i].pos \in Nat BY <1>2, <1>3
      <4> QED BY <3>2, <4>1, <4>2
    <3>4. i \in 1..size BY <1>1, <1>2, <3>3
    <3> QED BY <1>8, <1>11, <2>2, <3>4
  <2> QED BY <2>1, <2>2
<1>12. StoredFor(at, rows2, k) BY <1>7, <1>9, <1>10 DEF StoredFor, AddedTo
<1> QED BY <1>11, <1>12 DEF OrderFor

(* The invariant: the connector's subscriptions and queue, what has been   *)
(* prepared from it, what is stored, and what each namespace hears.        *)
ConnTypes ==
    /\ pluginC \in PluginsC /\ minedC \in Nat /\ sizeC \in Nat /\ sizeC <= Len(queueC) /\ madeC \in [NsC -> Nat] /\ startedC \subseteq NsC
    /\ DOMAIN memC = NsC /\ DOMAIN rowC = NsC /\ \A k \in NsC : MemOK(memC[k]) /\ MemOK(rowC[k])
    /\ DOMAIN notedC = NsC /\ DOMAIN pinsC = NsC
QueueInv == AtOK(pluginC, atC, madeC) /\ QueueOK(atC, queueC, madeC, minedC) /\ SubsOK(pluginC, atC, subsC)
PrepInv == \A k \in NsC : PrepFor(atC, queueC, sizeC, prepC[k], k)
PinsInv == \A k \in NsC : StoredFor(atC, pinsC[k], k) /\ OrderFor(queueC, pinsC[k], k)
NotedInv == \A k \in NsC : notedC[k] \in Seq(Nat \X {0, 1}) /\ NotOnceMore(notedC[k])
HearInv == OneEachC => \A k \in startedC : Hears(memC[k], subsC, atC, k)
ConnInv == ConnTypes /\ QueueInv /\ PrepInv /\ PinsInv /\ NotedInv /\ HearInv

LEMMA NothingPrepared == ASSUME NEW at, NEW q, NEW size, NEW k PROVE PrepFor(at, q, size, <<>>, k)
<1>1. <<>> \in Seq(EntryC) /\ DOMAIN <<>> = {} OBVIOUS
<1> QED BY <1>1 DEF PrepFor, OrderedFor

LEMMA ConnInit == ASSUME InitC PROVE ConnInv
<1>1. /\ <<>> \in Seq(MsgC) /\ <<>> \in Seq(Nat) /\ <<>> \in Seq(Nat \X {0, 1}) /\ DOMAIN <<>> = {} /\ Len(<<>>) = 0
      /\ IsFiniteSet({})
  BY FS_EmptySet
<1>2. ConnTypes
  <2>1. MemOK(FirstContract) BY DEF MemOK, FirstContract
  <2>2. \A k \in NsC : memC[k] = FirstContract /\ rowC[k] = FirstContract BY DEF InitC
  <2>3. DOMAIN memC = NsC /\ DOMAIN rowC = NsC /\ DOMAIN notedC = NsC /\ DOMAIN pinsC = NsC BY DEF InitC
  <2>4. madeC \in [NsC -> Nat] BY DEF InitC
  <2>5. pluginC \in PluginsC /\ minedC = 0 /\ sizeC = 0 /\ queueC = <<>> /\ startedC = {} BY DEF InitC
  <2> QED BY <1>1, <2>1, <2>2, <2>3, <2>4, <2>5 DEF ConnTypes
<1>3. atC = <<>> /\ queueC = <<>> /\ subsC = <<>> /\ startedC = {} BY DEF InitC
<1>4. QueueInv BY <1>1, <1>3 DEF QueueInv, AtOK, QueueOK, SubsOK
<1>5. \A k \in NsC : prepC[k] = <<>> /\ notedC[k] = <<>> /\ pinsC[k] = <<>> BY DEF InitC
<1>6. PrepInv BY <1>5, NothingPrepared DEF PrepInv
<1>7. PinsInv BY <1>1, <1>5 DEF PinsInv, StoredFor, OrderFor, RowsInOrder
<1>8. NotedInv BY <1>1, <1>5 DEF NotedInv, NotOnceMore
<1>9. HearInv BY <1>3 DEF HearInv
<1> QED BY <1>2, <1>4, <1>6, <1>7, <1>8, <1>9 DEF ConnInv

(* Steps that leave all this alone.                                        *)
invVarsC == <<pluginC, startedC, minedC, atC, queueC, sizeC, prepC, subsC, memC, rowC, notedC, pinsC, madeC>>
LEMMA ConnQuiet == ASSUME ConnInv, UNCHANGED invVarsC PROVE ConnInv'
<1>1. /\ pluginC' = pluginC /\ startedC' = startedC /\ minedC' = minedC /\ atC' = atC /\ queueC' = queueC /\ sizeC' = sizeC
      /\ prepC' = prepC /\ subsC' = subsC /\ memC' = memC /\ rowC' = rowC /\ notedC' = notedC /\ pinsC' = pinsC /\ madeC' = madeC
  BY DEF invVarsC
<1>2. ConnTypes' BY <1>1 DEF ConnInv, ConnTypes
<1>3. QueueInv' BY <1>1 DEF ConnInv, QueueInv
<1>4. PrepInv' BY <1>1 DEF ConnInv, PrepInv, PrepFor, OrderedFor
<1>5. PinsInv' BY <1>1 DEF ConnInv, PinsInv, StoredFor, OrderFor
<1>6. NotedInv' BY <1>1 DEF ConnInv, NotedInv
<1>7. HearInv' BY <1>1 DEF ConnInv, HearInv, OneEachC
<1> QED BY <1>2, <1>3, <1>4, <1>5, <1>6, <1>7 DEF ConnInv

(* Messages are dropped from the queue.                                    *)
PartOf(q2, q) ==
    /\ q2 \in Seq(MsgC)
    /\ \A i \in DOMAIN q2 : \E j \in DOMAIN q : q2[i] = q[j]
    /\ \A i, l \in DOMAIN q2 : i < l => \E j, m \in DOMAIN q : j < m /\ q2[i] = q[j] /\ q2[l] = q[m]

LEMMA PartKeeps ==
    ASSUME NEW at, NEW q, NEW q2, NEW made, NEW mined, QueueOK(at, q, made, mined), PartOf(q2, q)
    PROVE  QueueOK(at, q2, made, mined) /\ \A rows, k : OrderFor(q, rows, k) => OrderFor(q2, rows, k)
<1>1. ASSUME NEW i \in DOMAIN q2
      PROVE  /\ q2[i].pos <= mined
             /\ IF IsFF(q2[i].sub) THEN q2[i].sub \in DOMAIN at /\ ChainC[q2[i].pos].contract = at[q2[i].sub]
                ELSE KnownTo(q2[i].sub, made)
  <2>1. PICK j \in DOMAIN q : q2[i] = q[j] BY DEF PartOf
  <2> QED BY <2>1 DEF QueueOK
<1>2. ASSUME NEW i \in DOMAIN q2, NEW l \in DOMAIN q2, i < l, q2[i].sub = q2[l].sub PROVE q2[i].pos < q2[l].pos
  <2>1. PICK j \in DOMAIN q, m \in DOMAIN q : j < m /\ q2[i] = q[j] /\ q2[l] = q[m] BY <1>2 DEF PartOf
  <2> QED BY <1>2, <2>1 DEF QueueOK
<1>3. ASSUME NEW rows, NEW k, OrderFor(q, rows, k) PROVE OrderFor(q2, rows, k)
  <2> SUFFICES ASSUME NEW i \in DOMAIN q2, NEW j \in DOMAIN rows,
                      q2[i].sub = SubOf(pluginC, ContractOf(q2[i].pos), k), ContractOf(q2[i].pos) = ContractOf(rows[j]),
                      q2[i].pos < rows[j], WantsC(k, q2[i].pos)
               PROVE  \E l \in DOMAIN rows : rows[l] = q2[i].pos
    BY DEF OrderFor
  <2>1. PICK m \in DOMAIN q : q2[i] = q[m] BY DEF PartOf
  <2> QED BY <1>3, <2>1 DEF OrderFor
<1>4. q2 \in Seq(MsgC) BY DEF PartOf
<1> QED BY <1>1, <1>2, <1>3, <1>4 DEF QueueOK

LEMMA TailIsPart == ASSUME NEW q \in Seq(MsgC), NEW n \in Nat, n <= Len(q) PROVE PartOf(SubSeq(q, n + 1, Len(q)), q)
<1>1. Len(q) \in Nat /\ DOMAIN q = 1..Len(q) OBVIOUS
<1>2. PICK t : t = SubSeq(q, n + 1, Len(q)) OBVIOUS
<1>3. \A i \in (n + 1)..Len(q) : q[i] \in MsgC BY <1>1
<1>4. /\ t \in Seq(MsgC) /\ Len(t) = IF n + 1 <= Len(q) THEN Len(q) - (n + 1) + 1 ELSE 0
      /\ \A i \in 1..(Len(q) - (n + 1) + 1) : t[i] = q[(n + 1) + i - 1]
  BY <1>1, <1>2, <1>3, SubSeqProperties
<1>5. DOMAIN t = 1..Len(t) /\ Len(t) = Len(q) - n
  <2>1. \A a \in Nat : n <= a => (IF n + 1 <= a THEN a - (n + 1) + 1 ELSE 0) = a - n OBVIOUS
  <2>2. (IF n + 1 <= Len(q) THEN Len(q) - (n + 1) + 1 ELSE 0) = Len(q) - n BY <1>1, <2>1
  <2>3. Len(t) = Len(q) - n BY <1>4, <2>2
  <2>4. DOMAIN t = 1..Len(t) BY <1>4
  <2> QED BY <2>3, <2>4
<1>6. \A i \in DOMAIN t : i + n \in DOMAIN q /\ t[i] = q[i + n]
  <2>1. \A a \in Nat : \A i \in 1..(a - n) : i + n \in 1..a /\ i \in 1..(a - (n + 1) + 1) /\ (n + 1) + i - 1 = i + n OBVIOUS
  <2> QED BY <1>1, <1>4, <1>5, <2>1
<1>7. \A i, l \in DOMAIN t : i < l => i + n < l + n
  <2>1. \A i, l \in Int : i < l => i + n < l + n OBVIOUS
  <2> QED BY <1>5, <2>1
<1> QED BY <1>2, <1>4, <1>6, <1>7 DEF PartOf

(* A batch ends, handled or not; the process stops.                        *)
LEMMA BatchEnds ==
    ASSUME ConnInv, pluginC' = pluginC, minedC' = minedC, madeC' = madeC, atC' = atC, rowC' = rowC, notedC' = notedC, pinsC' = pinsC,
           PartOf(queueC', queueC), sizeC' = 0, prepC' = [ns \in NsC |-> <<>>],
           \/ startedC' = startedC /\ subsC' = subsC /\ memC' = memC
           \/ startedC' = {} /\ subsC' = <<>> /\ memC' = rowC
    PROVE  ConnInv'
<1>1. PICK q2 : q2 = queueC' OBVIOUS
<1>2. PartOf(q2, queueC) BY <1>1
<1>3. QueueOK(atC, queueC, madeC, minedC) BY DEF ConnInv, QueueInv
<1>4. QueueOK(atC, q2, madeC, minedC) /\ \A rows, k : OrderFor(queueC, rows, k) => OrderFor(q2, rows, k) BY <1>2, <1>3, PartKeeps
<1>5. ConnTypes'
  <2>1. q2 \in Seq(MsgC) BY <1>2 DEF PartOf
  <2>2. 0 <= Len(q2) BY <2>1
  <2> QED BY <1>1, <2>2 DEF ConnInv, ConnTypes
<1>6. QueueInv'
  <2>1. SubsOK(pluginC, atC, subsC') BY DEF ConnInv, QueueInv, SubsOK
  <2> QED BY <1>1, <1>4, <2>1 DEF ConnInv, QueueInv
<1>7. PrepInv'
  <2>1. \A k \in NsC : prepC'[k] = <<>> OBVIOUS
  <2>2. <<>> \in Seq(EntryC) /\ DOMAIN <<>> = {} OBVIOUS
  <2> QED BY <2>1, <2>2 DEF PrepInv, PrepFor, OrderedFor
<1>8. PinsInv'
  <2>1. \A k \in NsC : StoredFor(atC, pinsC[k], k) /\ OrderFor(q2, pinsC[k], k) BY <1>4 DEF ConnInv, PinsInv
  <2> QED BY <1>1, <2>1 DEF PinsInv, StoredFor, OrderFor
<1>9. NotedInv' BY DEF ConnInv, NotedInv
<1>10. HearInv' BY DEF ConnInv, HearInv, OneEachC
<1> QED BY <1>5, <1>6, <1>7, <1>8, <1>9, <1>10 DEF ConnInv

LEMMA EndSteps == ASSUME ConnInv, ackC \/ errorC \/ restartC PROVE ConnInv'
<1>1. queueC \in Seq(MsgC) /\ sizeC \in Nat /\ sizeC <= Len(queueC) BY DEF ConnInv, ConnTypes, QueueInv, QueueOK
<1>2. PartOf(queueC, queueC) BY <1>1 DEF PartOf
<1>3. PartOf(SubSeq(queueC, sizeC + 1, Len(queueC)), queueC) BY <1>1, TailIsPart
<1>4. CASE ackC
  <2>1. PartOf(queueC', queueC) BY <1>2, <1>3, <1>4 DEF ackC
  <2> QED BY <1>4, <2>1, BatchEnds DEF ackC, rowVarsC, listenVarsC
<1>5. CASE errorC BY <1>2, <1>5, BatchEnds DEF errorC, connVarsC, rowVarsC, listenVarsC
<1>6. CASE restartC BY <1>2, <1>6, BatchEnds DEF restartC, connVarsC, rowVarsC
<1> QED BY <1>4, <1>5, <1>6

LEMMA QuietSteps ==
    ASSUME ConnInv, \/ UNCHANGED varsC \/ startBackgroundLoop \/ StartC \/ loseConnection \/ afterConnect
                    \/ \E ns \in NsC : InsertContractListener(ns)
    PROVE  ConnInv'
<1>1. UNCHANGED invVarsC
  <2>1. CASE UNCHANGED varsC BY <2>1 DEF varsC, invVarsC, connVarsC, rowVarsC, listenVarsC
  <2>2. CASE startBackgroundLoop BY <2>2 DEF startBackgroundLoop, invVarsC, connVarsC, rowVarsC, listenVarsC
  <2>3. CASE StartC BY <2>3 DEF StartC, invVarsC, connVarsC, rowVarsC, listenVarsC
  <2>4. CASE loseConnection BY <2>4 DEF loseConnection, invVarsC, connVarsC, rowVarsC, listenVarsC
  <2>5. CASE afterConnect BY <2>5 DEF afterConnect, invVarsC, connVarsC, rowVarsC, listenVarsC
  <2>6. CASE \E ns \in NsC : InsertContractListener(ns) BY <2>6 DEF InsertContractListener, invVarsC, connVarsC, rowVarsC, listenVarsC
  <2> QED BY <2>1, <2>2, <2>3, <2>4, <2>5, <2>6
<1> QED BY <1>1, ConnQuiet

(* nameUnknown: between batches, the messages of dropped listeners go.     *)
LEMMA UnknownStep == ASSUME ConnInv, nameUnknown PROVE ConnInv'
<1>1. /\ pluginC' = pluginC /\ startedC' = startedC /\ minedC' = minedC /\ atC' = atC /\ sizeC' = sizeC /\ prepC' = prepC
      /\ subsC' = subsC /\ memC' = memC /\ rowC' = rowC /\ notedC' = notedC /\ pinsC' = pinsC /\ madeC' = madeC
  BY DEF nameUnknown, rowVarsC, listenVarsC
<1>2. PICK S : queueC' = Only(queueC, S) BY DEF nameUnknown
<1>3. PICK q2 : q2 = queueC' OBVIOUS
<1>4. queueC \in Seq(MsgC) /\ DOMAIN queueC = 1..Len(queueC) /\ QueueOK(atC, queueC, madeC, minedC) BY DEF ConnInv, QueueInv, QueueOK
<1>5. KeptOK(q2, queueC, S, MsgC, Len(queueC)) BY <1>2, <1>3, <1>4, OnlyHas
<1>6. PartOf(q2, queueC)
  <2>1. q2 \in Seq(MsgC) BY <1>5 DEF KeptOK
  <2>2. \A i \in DOMAIN q2 : \E j \in DOMAIN queueC : q2[i] = queueC[j] BY <1>4, <1>5 DEF KeptOK
  <2>3. ASSUME NEW i \in DOMAIN q2, NEW l \in DOMAIN q2, i < l
        PROVE  \E j, m \in DOMAIN queueC : j < m /\ q2[i] = queueC[j] /\ q2[l] = queueC[m]
    <3>1. PICK j \in 1..Len(queueC), m \in 1..Len(queueC) : j < m /\ q2[i] = queueC[j] /\ q2[l] = queueC[m]
      BY <1>5, <2>3 DEF KeptOK
    <3> QED BY <1>4, <3>1
  <2> QED BY <2>1, <2>2, <2>3 DEF PartOf
<1>7. QueueOK(atC, q2, madeC, minedC) /\ \A rows, k : OrderFor(queueC, rows, k) => OrderFor(q2, rows, k) BY <1>4, <1>6, PartKeeps
<1>8. sizeC = 0 BY DEF nameUnknown, Busy, ConnInv, ConnTypes
<1>9. ConnTypes'
  <2>1. 0 <= Len(q2) BY <1>6 DEF PartOf
  <2> QED BY <1>1, <1>3, <1>8, <2>1 DEF ConnInv, ConnTypes
<1>10. QueueInv' BY <1>1, <1>3, <1>7 DEF ConnInv, QueueInv
<1>11. PrepInv'
  <2>1. ASSUME NEW k \in NsC PROVE PrepFor(atC, q2, 0, prepC[k], k)
    <3>1. PrepFor(atC, queueC, 0, prepC[k], k) BY <1>8 DEF ConnInv, PrepInv
    <3>2. \A j \in DOMAIN prepC[k] : ~prepC[k][j].own BY <3>1 DEF PrepFor
    <3> QED BY <3>1, <3>2 DEF PrepFor
  <2> QED BY <1>1, <1>3, <1>8, <2>1 DEF PrepInv, PrepFor, OrderedFor
<1>12. PinsInv'
  <2>1. \A k \in NsC : StoredFor(atC, pinsC[k], k) /\ OrderFor(q2, pinsC[k], k) BY <1>7 DEF ConnInv, PinsInv
  <2> QED BY <1>1, <1>3, <2>1 DEF PinsInv, StoredFor, OrderFor
<1>13. NotedInv' BY <1>1 DEF ConnInv, NotedInv
<1>14. HearInv' BY <1>1 DEF ConnInv, HearInv, OneEachC
<1> QED BY <1>9, <1>10, <1>11, <1>12, <1>13, <1>14 DEF ConnInv

(* handleMessageBatch: what it prepares for one namespace.                 *)
LEMMA PreparedIs ==
    ASSUME NEW w, NEW prep, prep = Prepared(w)
    PROVE  /\ DOMAIN prep = DOMAIN w /\ prep = [i \in DOMAIN w |-> prep[i]]
           /\ \A i \in DOMAIN prep : prep[i].pos = w[i].pos /\ prep[i].sub = w[i].sub /\ (prep[i].own <=> w[i].sub \in DOMAIN subsC)
           /\ \A i \in DOMAIN prep : w[i].pos \in Nat /\ w[i].sub \in SubIds => prep[i] \in EntryC
<1>1. DOMAIN prep = DOMAIN w /\ prep = [i \in DOMAIN w |-> prep[i]] BY DEF Prepared
<1>2. ASSUME NEW i \in DOMAIN w
      PROVE  prep[i].pos = w[i].pos /\ prep[i].sub = w[i].sub /\ (prep[i].own <=> w[i].sub \in DOMAIN subsC)
  <2>1. prep[i].pos = w[i].pos /\ prep[i].sub = w[i].sub BY DEF Prepared
  <2>2. prep[i].own <=> w[i].sub \in DOMAIN subsC BY DEF Prepared
  <2> QED BY <2>1, <2>2
<1>3. ASSUME NEW i \in DOMAIN w, w[i].pos \in Nat, w[i].sub \in SubIds PROVE prep[i] \in EntryC
  <2>1. [pos |-> w[i].pos, sub |-> w[i].sub, own |-> w[i].sub \in DOMAIN subsC] \in EntryC BY <1>3 DEF EntryC
  <2>2. prep[i] = [pos |-> w[i].pos, sub |-> w[i].sub, own |-> w[i].sub \in DOMAIN subsC] BY DEF Prepared
  <2> QED BY <2>1, <2>2, Zenon
<1> QED BY <1>1, <1>2, <1>3

LEMMA PreparedFor ==
    ASSUME NEW n \in Nat, n <= Len(queueC), QueueInv, minedC \in Nat, NEW msgs, msgs = SubSeq(queueC, 1, n), NEW k \in NsC,
           NEW prep, prep = Prepared(Only(msgs, {m \in Range(msgs) : k \in Wanted(m)}))
    PROVE  PrepFor(atC, queueC, n, prep, k)
<1>1. queueC \in Seq(MsgC) /\ Len(queueC) \in Nat /\ DOMAIN queueC = 1..Len(queueC) BY DEF QueueInv, QueueOK
<1>2. \A i \in 1..n : i \in DOMAIN queueC /\ queueC[i] \in MsgC BY <1>1
<1>3. msgs \in Seq(MsgC) /\ Len(msgs) = n /\ DOMAIN msgs = 1..n /\ \A i \in 1..n : msgs[i] = queueC[i]
  <2>1. /\ msgs \in Seq(MsgC) /\ Len(msgs) = IF 1 <= n THEN n - 1 + 1 ELSE 0
        /\ \A i \in 1..(n - 1 + 1) : msgs[i] = queueC[1 + i - 1]
    BY <1>2, SubSeqProperties
  <2>2. (IF 1 <= n THEN n - 1 + 1 ELSE 0) = n /\ \A i \in 1..n : i \in 1..(n - 1 + 1) /\ 1 + i - 1 = i OBVIOUS
  <2>3. Len(msgs) = n BY <2>1, <2>2
  <2>4. \A i \in 1..n : msgs[i] = queueC[i] BY <2>1, <2>2
  <2>5. DOMAIN msgs = 1..n BY <2>1, <2>3
  <2> QED BY <2>1, <2>3, <2>4, <2>5
<1>4. PICK S : S = {m \in Range(msgs) : k \in Wanted(m)} OBVIOUS
<1>5. PICK w : w = Only(msgs, S) OBVIOUS
<1>6. KeptOK(w, msgs, S, MsgC, n) BY <1>3, <1>5, OnlyHas
<1>7. /\ w \in Seq(MsgC) /\ DOMAIN w = 1..Len(w) /\ Len(w) \in Nat
      /\ \A i \in DOMAIN w : \E j \in 1..n : queueC[j] \in S /\ w[i] = queueC[j]
      /\ \A j \in 1..n : queueC[j] \in S => \E i \in DOMAIN w : w[i] = queueC[j]
      /\ \A i, l \in DOMAIN w : i < l => \E j, m \in 1..n : j < m /\ w[i] = queueC[j] /\ w[l] = queueC[m]
  <2>1. w \in Seq(MsgC) BY <1>6 DEF KeptOK
  <2>2. \A i \in DOMAIN w : \E j \in 1..n : queueC[j] \in S /\ w[i] = queueC[j] BY <1>3, <1>6 DEF KeptOK
  <2>3. \A j \in 1..n : queueC[j] \in S => \E i \in DOMAIN w : w[i] = queueC[j] BY <1>3, <1>6 DEF KeptOK
  <2>4. ASSUME NEW i \in DOMAIN w, NEW l \in DOMAIN w, i < l
        PROVE  \E j, m \in 1..n : j < m /\ w[i] = queueC[j] /\ w[l] = queueC[m]
    <3>1. PICK j \in 1..n, m \in 1..n : j < m /\ w[i] = msgs[j] /\ w[l] = msgs[m] BY <1>6, <2>4 DEF KeptOK
    <3> QED BY <1>3, <3>1
  <2> QED BY <2>1, <2>2, <2>3, <2>4
<1>8. prep = Prepared(w) BY <1>4, <1>5
<1>9. DOMAIN prep = DOMAIN w /\ prep = [i \in DOMAIN w |-> prep[i]] BY <1>8, PreparedIs
<1>10. \A i \in DOMAIN prep : prep[i].pos = w[i].pos /\ prep[i].sub = w[i].sub /\ (prep[i].own <=> w[i].sub \in DOMAIN subsC)
  BY <1>8, PreparedIs
<1>11. prep \in Seq(EntryC)
  <2>1. ASSUME NEW i \in DOMAIN w PROVE w[i].pos \in Nat /\ w[i].sub \in SubIds
    <3>1. w[i] \in MsgC BY <1>7
    <3> QED BY <3>1 DEF MsgC
  <2>2. \A i \in DOMAIN w : prep[i] \in EntryC BY <1>8, <1>9, <2>1, PreparedIs
  <2>3. Len(w) \in Nat /\ DOMAIN prep = 1..Len(w) /\ prep = [i \in 1..Len(w) |-> prep[i]] BY <1>7, <1>9
  <2>4. \A i \in 1..Len(w) : prep[i] \in EntryC BY <1>7, <2>2
  <2> QED BY <2>3, <2>4, IsSeqOf
(* An event of the namespace's own is of a message that it wants.          *)
<1>12. ASSUME NEW j \in DOMAIN prep, prep[j].own
       PROVE  \E b \in 1..n : /\ queueC[b].pos = prep[j].pos /\ queueC[b].sub = prep[j].sub
                              /\ prep[j].sub \in DOMAIN subsC /\ k \in subsC[prep[j].sub]
                              /\ PinsFor(prep[j]) => WantsC(k, prep[j].pos)
  <2>1. j \in DOMAIN w BY <1>9
  <2>2. PICK b \in 1..n : queueC[b] \in S /\ w[j] = queueC[b] BY <1>7, <2>1
  <2>3. prep[j].pos = queueC[b].pos /\ prep[j].sub = queueC[b].sub /\ queueC[b].sub \in DOMAIN subsC BY <1>10, <1>12, <2>2
  <2>4. k \in PrepareBatchPinOrNetworkAction(queueC[b]) BY <1>4, <2>2, <2>3 DEF Wanted
  <2>5. k \in subsC[queueC[b].sub] BY <2>4 DEF PrepareBatchPinOrNetworkAction
  <2>6. PinsFor(prep[j]) => WantsC(k, prep[j].pos) BY <2>3, <2>4 DEF PrepareBatchPinOrNetworkAction, PinsFor, WantsC, ContractOf
  <2> QED BY <2>3, <2>5, <2>6
<1>13. ASSUME NEW j \in DOMAIN prep, prep[j].own
       PROVE  /\ prep[j].sub = SubOf(pluginC, ContractOf(prep[j].pos), k)
              /\ prep[j].pos <= minedC /\ prep[j].sub \in DOMAIN atC
  <2>1. PICK b \in 1..n : /\ queueC[b].pos = prep[j].pos /\ queueC[b].sub = prep[j].sub
                          /\ prep[j].sub \in DOMAIN subsC /\ k \in subsC[prep[j].sub]
    BY <1>12, <1>13
  <2>2. IsFF(prep[j].sub) /\ prep[j].sub \in DOMAIN atC /\ prep[j].sub = SubOf(pluginC, atC[prep[j].sub], k)
    BY <2>1 DEF QueueInv, SubsOK
  <2>3. IsFF(queueC[b].sub) /\ b \in DOMAIN queueC BY <1>2, <2>1, <2>2
  <2>4. QueueOK(atC, queueC, madeC, minedC) BY DEF QueueInv
  <2>5. queueC[b].pos <= minedC /\ ChainC[queueC[b].pos].contract = atC[queueC[b].sub] BY <2>3, <2>4 DEF QueueOK
  <2>6. ContractOf(prep[j].pos) = atC[prep[j].sub] /\ prep[j].pos <= minedC BY <2>1, <2>5 DEF ContractOf
  <2> QED BY <2>2, <2>6
<1>14. ASSUME NEW j \in DOMAIN prep, NEW l \in DOMAIN prep, j < l, prep[j].sub = prep[l].sub PROVE prep[j].pos < prep[l].pos
  <2>0. j \in DOMAIN w /\ l \in DOMAIN w BY <1>9
  <2>1. PICK a \in 1..n, b \in 1..n : a < b /\ w[j] = queueC[a] /\ w[l] = queueC[b] BY <1>7, <1>14, <2>0
  <2>2. /\ prep[j].pos = w[j].pos /\ prep[j].sub = w[j].sub
        /\ prep[l].pos = w[l].pos /\ prep[l].sub = w[l].sub
    BY <1>10
  <2>3. w[j].sub = w[l].sub BY <1>14, <2>2
  <2>4. queueC[a].sub = queueC[b].sub BY <2>1, <2>3
  <2>5. queueC[a].pos < queueC[b].pos BY <1>2, <2>1, <2>4 DEF QueueInv, QueueOK
  <2>6. w[j].pos < w[l].pos BY <2>1, <2>5
  <2> QED BY <2>2, <2>6
<1>15. OrderedFor(prep, k) BY <1>11, <1>13, <1>14 DEF OrderedFor
<1>16. ASSUME NEW j \in DOMAIN prep, prep[j].own, NEW i \in 1..n, queueC[i].sub = prep[j].sub, WantsC(k, queueC[i].pos)
       PROVE  \E l \in DOMAIN prep : prep[l].own /\ prep[l].pos = queueC[i].pos
  <2>1. queueC[i].sub \in DOMAIN subsC /\ k \in subsC[queueC[i].sub] BY <1>12, <1>16
  <2>2. k \in Wanted(queueC[i]) BY <1>16, <2>1 DEF Wanted, PrepareBatchPinOrNetworkAction, WantsC, ContractOf
  <2>3. queueC[i] \in Range(msgs) BY <1>3 DEF Range
  <2>4. queueC[i] \in S BY <1>4, <2>2, <2>3
  <2>5. PICK l \in DOMAIN w : w[l] = queueC[i] BY <1>7, <2>4
  <2>6. l \in DOMAIN prep BY <1>9, <2>5
  <2> QED BY <1>10, <2>1, <2>5, <2>6
<1>17. ASSUME NEW j \in DOMAIN prep, prep[j].own
       PROVE  /\ PinsFor(prep[j]) => WantsC(k, prep[j].pos)
              /\ \E b \in 1..n : queueC[b].pos = prep[j].pos /\ queueC[b].sub = prep[j].sub
  BY <1>12, <1>17
<1>18. ASSUME NEW j \in DOMAIN prep, prep[j].own
       PROVE  /\ prep[j].pos <= minedC /\ prep[j].sub \in DOMAIN atC
              /\ PinsFor(prep[j]) => WantsC(k, prep[j].pos)
              /\ \E b \in 1..n : queueC[b].pos = prep[j].pos /\ queueC[b].sub = prep[j].sub
              /\ \A i \in 1..n : queueC[i].sub = prep[j].sub /\ WantsC(k, queueC[i].pos) =>
                    \E l \in DOMAIN prep : prep[l].own /\ prep[l].pos = queueC[i].pos
  <2>1. prep[j].pos <= minedC /\ prep[j].sub \in DOMAIN atC BY <1>13, <1>18
  <2>2. ASSUME NEW i \in 1..n, queueC[i].sub = prep[j].sub, WantsC(k, queueC[i].pos)
        PROVE  \E l \in DOMAIN prep : prep[l].own /\ prep[l].pos = queueC[i].pos
    BY <1>16, <1>18, <2>2
  <2> QED BY <1>17, <1>18, <2>1, <2>2
<1> QED BY <1>15, <1>18 DEF PrepFor

LEMMA BatchStep == ASSUME ConnInv, handleMessageBatch PROVE ConnInv'
<1>1. /\ pluginC' = pluginC /\ startedC' = startedC /\ minedC' = minedC /\ atC' = atC /\ queueC' = queueC
      /\ subsC' = subsC /\ memC' = memC /\ rowC' = rowC /\ notedC' = notedC /\ pinsC' = pinsC /\ madeC' = madeC
  BY DEF handleMessageBatch, connVarsC, rowVarsC
<1>2. PICK n \in 1..BatchC :
          /\ n <= Len(queueC) /\ sizeC' = n
          /\ prepC' = [ns \in NsC |-> Prepared(Only(SubSeq(queueC, 1, n), {m \in Range(SubSeq(queueC, 1, n)) : ns \in Wanted(m)}))]
  BY DEF handleMessageBatch
<1>3. n \in Nat OBVIOUS
<1>4. PICK msgs : msgs = SubSeq(queueC, 1, n) OBVIOUS
<1>5. ConnTypes' BY <1>1, <1>2, <1>3 DEF ConnInv, ConnTypes
<1>6. QueueInv' BY <1>1 DEF ConnInv, QueueInv
<1>7. PrepInv'
  <2>1. ASSUME NEW k \in NsC PROVE PrepFor(atC, queueC, n, Prepared(Only(msgs, {m \in Range(msgs) : k \in Wanted(m)})), k)
    BY <1>2, <1>3, <1>4, PreparedFor DEF ConnInv, ConnTypes
  <2>2. ASSUME NEW k \in NsC PROVE PrepFor(atC, queueC, n, prepC'[k], k)
    <3>1. prepC'[k] = Prepared(Only(msgs, {m \in Range(msgs) : k \in Wanted(m)})) BY <1>2, <1>4
    <3> QED BY <2>1, <3>1
  <2>3. PICK p2 : p2 = prepC' OBVIOUS
  <2>4. ASSUME NEW k \in NsC PROVE PrepFor(atC, queueC, n, p2[k], k)' BY <1>1, <2>2, <2>3 DEF PrepFor, OrderedFor
  <2> QED BY <1>1, <1>2, <2>3, <2>4 DEF PrepInv
<1>8. PinsInv' BY <1>1 DEF ConnInv, PinsInv, StoredFor, OrderFor
<1>9. NotedInv' BY <1>1 DEF ConnInv, NotedInv
<1>10. HearInv' BY <1>1 DEF ConnInv, HearInv, OneEachC
<1> QED BY <1>5, <1>6, <1>7, <1>8, <1>9, <1>10 DEF ConnInv

(* The next event of the chain comes behind all messages in the queue.     *)
LEMMA EmitStep == ASSUME ConnInv, emitC PROVE ConnInv'
<1>1. /\ pluginC' = pluginC /\ startedC' = startedC /\ minedC' = minedC + 1 /\ atC' = atC /\ sizeC' = sizeC /\ prepC' = prepC
      /\ subsC' = subsC /\ memC' = memC /\ rowC' = rowC /\ notedC' = notedC /\ pinsC' = pinsC /\ madeC' = madeC
  BY DEF emitC, rowVarsC, listenVarsC
<1>2. PICK f \in MatchingC(minedC + 1) : queueC' = queueC \o [i \in DOMAIN f |-> [pos |-> minedC + 1, sub |-> f[i]]]
  BY DEF emitC
<1> DEFINE Subs == {x \in DOMAIN atC : atC[x] = ChainC[minedC + 1].contract}
           e == [i \in DOMAIN f |-> [pos |-> minedC + 1, sub |-> f[i]]]
<1>3. f \in [1..Cardinality(Subs) -> Subs] /\ \A i, j \in DOMAIN f : f[i] = f[j] => i = j BY DEF MatchingC
<1>4. QueueOK(atC, queueC, madeC, minedC) /\ AtOK(pluginC, atC, madeC) /\ minedC \in Nat BY DEF ConnInv, ConnTypes, QueueInv
<1>5. Cardinality(Subs) \in Nat
  <2>1. IsFiniteSet(Subs) BY <1>4, FS_Subset DEF AtOK
  <2> QED BY <2>1, FS_CardinalityType
<1>6. /\ e \in Seq(MsgC) /\ DOMAIN e = DOMAIN f
      /\ \A i \in DOMAIN e : e[i].pos = minedC + 1 /\ e[i].sub = f[i] /\ f[i] \in DOMAIN atC /\ atC[f[i]] = ChainC[minedC + 1].contract
  <2>1. DOMAIN e = 1..Cardinality(Subs) /\ DOMAIN f = 1..Cardinality(Subs) BY <1>3
  <2>2. \A i \in DOMAIN f : e[i] = [pos |-> minedC + 1, sub |-> f[i]] OBVIOUS
  <2>3. \A i \in DOMAIN f : f[i] \in DOMAIN atC /\ atC[f[i]] = ChainC[minedC + 1].contract
    <3>1. \A i \in DOMAIN f : f[i] \in Subs BY <1>3
    <3> QED BY <3>1
  <2>4. e = [i \in 1..Cardinality(Subs) |-> e[i]] BY <2>1
  <2> HIDE DEF e, Subs
  <2>5. ASSUME NEW i \in DOMAIN f PROVE e[i] \in MsgC
    <3>1. f[i] \in SubIds /\ minedC + 1 \in Nat BY <1>4, <2>3 DEF AtOK
    <3>2. e[i] = [pos |-> minedC + 1, sub |-> f[i]] BY <2>2
    <3> QED BY <3>1, <3>2 DEF MsgC
  <2>6. e \in Seq(MsgC) BY <1>5, <2>1, <2>4, <2>5, IsSeqOf
  <2> QED BY <2>1, <2>2, <2>3, <2>6
<1>7. PICK q2 : q2 = queueC' OBVIOUS
<1>8. q2 = queueC \o e BY <1>2, <1>7
<1> HIDE DEF e, Subs
<1>9. queueC \in Seq(MsgC) BY <1>4 DEF QueueOK
<1>10. /\ q2 \in Seq(MsgC) /\ Len(queueC) <= Len(q2)
       /\ \A i \in DOMAIN queueC : i \in DOMAIN q2 /\ q2[i] = queueC[i]
       /\ \A i \in DOMAIN q2 : \/ i \in DOMAIN queueC /\ q2[i] = queueC[i]
                               \/ i \notin DOMAIN queueC /\ i - Len(queueC) \in DOMAIN e /\ q2[i] = e[i - Len(queueC)]
  BY <1>6, <1>8, <1>9, JoinedOn
<1>11. \A i \in DOMAIN q2 : i \notin DOMAIN queueC =>
          /\ q2[i].pos = minedC + 1 /\ q2[i].sub \in DOMAIN atC /\ atC[q2[i].sub] = ChainC[minedC + 1].contract
  BY <1>6, <1>10
<1>12. QueueOK(atC, q2, madeC, minedC + 1)
  <2>1. ASSUME NEW i \in DOMAIN q2
        PROVE  /\ q2[i].pos <= minedC + 1
               /\ IF IsFF(q2[i].sub) THEN q2[i].sub \in DOMAIN atC /\ ChainC[q2[i].pos].contract = atC[q2[i].sub]
                  ELSE KnownTo(q2[i].sub, madeC)
    <3>1. CASE i \in DOMAIN queueC
      <4>1. q2[i] = queueC[i] /\ queueC[i].pos <= minedC /\ queueC[i].pos \in Nat
        <5>1. queueC[i] \in MsgC BY <1>9, <3>1
        <5> QED BY <1>4, <1>10, <3>1, <5>1 DEF QueueOK, MsgC
      <4>2. q2[i].pos <= minedC + 1 BY <1>4, <4>1
      <4> QED BY <1>4, <3>1, <4>1, <4>2 DEF QueueOK
    <3>2. CASE i \notin DOMAIN queueC BY <1>4, <1>11, <3>2 DEF AtOK
    <3> QED BY <3>1, <3>2
  <2>2. ASSUME NEW i \in DOMAIN q2, NEW j \in DOMAIN q2, i < j, q2[i].sub = q2[j].sub PROVE q2[i].pos < q2[j].pos
    <3>0. i \in Nat /\ j \in Nat /\ Len(queueC) \in Nat /\ DOMAIN queueC = 1..Len(queueC) BY <1>9, <1>10
    <3>1. CASE i \in DOMAIN queueC /\ j \in DOMAIN queueC BY <1>4, <1>10, <2>2, <3>1 DEF QueueOK
    <3>2. CASE i \in DOMAIN queueC /\ j \notin DOMAIN queueC
      <4>1. queueC[i] \in MsgC /\ queueC[i].pos <= minedC /\ q2[i] = queueC[i] BY <1>4, <1>9, <1>10, <3>2 DEF QueueOK
      <4>2. queueC[i].pos \in Nat BY <4>1 DEF MsgC
      <4> QED BY <1>4, <1>11, <3>2, <4>1, <4>2
    <3>3. CASE i \notin DOMAIN queueC /\ j \in DOMAIN queueC BY <2>2, <3>0, <3>3, <1>10
    <3>4. CASE i \notin DOMAIN queueC /\ j \notin DOMAIN queueC
      <4>1. /\ i - Len(queueC) \in DOMAIN e /\ q2[i] = e[i - Len(queueC)]
            /\ j - Len(queueC) \in DOMAIN e /\ q2[j] = e[j - Len(queueC)]
        BY <1>10, <3>4
      <4>2. f[i - Len(queueC)] = f[j - Len(queueC)] BY <1>6, <2>2, <4>1
      <4>3. i - Len(queueC) = j - Len(queueC) BY <1>3, <1>6, <4>1, <4>2
      <4> QED BY <2>2, <3>0, <4>3
    <3> QED BY <3>1, <3>2, <3>3, <3>4
  <2> QED BY <1>10, <2>1, <2>2 DEF QueueOK
<1>13. ConnTypes'
  <2>1. Len(queueC) \in Nat /\ Len(q2) \in Nat BY <1>9, <1>10
  <2>2. sizeC \in Nat /\ sizeC <= Len(queueC) BY DEF ConnInv, ConnTypes
  <2>3. sizeC <= Len(q2) /\ minedC + 1 \in Nat BY <1>4, <1>10, <2>1, <2>2
  <2> QED BY <1>1, <1>7, <2>3 DEF ConnInv, ConnTypes
<1>14. QueueInv' BY <1>1, <1>7, <1>12 DEF ConnInv, QueueInv
<1>15. PrepInv'
  <2>1. Longer(atC, queueC, atC, q2) BY <1>10 DEF Longer
  <2>2. sizeC \in Nat /\ sizeC <= Len(queueC) BY DEF ConnInv, ConnTypes
  <2>3. \A k \in NsC : PrepFor(atC, q2, sizeC, prepC[k], k) BY <1>9, <2>1, <2>2, GrowPrep DEF ConnInv, PrepInv
  <2>4. ASSUME NEW k \in NsC, NEW j \in DOMAIN prepC[k], prepC[k][j].own PROVE prepC[k][j].pos <= minedC + 1
    <3>1. prepC[k][j].pos <= minedC /\ prepC[k] \in Seq(EntryC) BY <2>3, <2>4 DEF PrepFor, OrderedFor
    <3>2. prepC[k][j] \in EntryC BY <3>1
    <3>3. prepC[k][j].pos \in Nat BY <3>2 DEF EntryC
    <3> QED BY <1>4, <3>1, <3>3
  <2> QED BY <1>1, <1>7, <2>3, <2>4 DEF PrepInv, PrepFor, OrderedFor
<1>16. PinsInv'
  <2>1. ASSUME NEW k \in NsC PROVE OrderFor(q2, pinsC[k], k)
    <3> SUFFICES ASSUME NEW i \in DOMAIN q2, NEW j \in DOMAIN pinsC[k],
                        q2[i].sub = SubOf(pluginC, ContractOf(q2[i].pos), k), ContractOf(q2[i].pos) = ContractOf(pinsC[k][j]),
                        q2[i].pos < pinsC[k][j], WantsC(k, q2[i].pos)
                 PROVE  \E l \in DOMAIN pinsC[k] : pinsC[k][l] = q2[i].pos
      BY DEF OrderFor
    <3>1. pinsC[k] \in Seq(Nat) /\ pinsC[k][j] <= minedC BY DEF ConnInv, PinsInv, StoredFor
    <3>2. pinsC[k][j] \in Nat BY <3>1
    <3>3. i \in DOMAIN queueC BY <1>4, <1>11, <3>1, <3>2
    <3>4. q2[i] = queueC[i] BY <1>10, <3>3
    <3> QED BY <3>3, <3>4 DEF ConnInv, PinsInv, OrderFor
  <2>2. ASSUME NEW k \in NsC, NEW j \in DOMAIN pinsC[k] PROVE pinsC[k][j] <= minedC + 1
    <3>1. pinsC[k] \in Seq(Nat) /\ pinsC[k][j] <= minedC BY DEF ConnInv, PinsInv, StoredFor
    <3>2. pinsC[k][j] \in Nat BY <3>1
    <3> QED BY <1>4, <3>1, <3>2
  <2> QED BY <1>1, <1>7, <2>1, <2>2 DEF ConnInv, PinsInv, StoredFor, OrderFor
<1>17. NotedInv' BY <1>1 DEF ConnInv, NotedInv
<1>18. HearInv' BY <1>1 DEF ConnInv, HearInv, OneEachC
<1> QED BY <1>13, <1>14, <1>15, <1>16, <1>17, <1>18 DEF ConnInv

(* One listener more at the connector, under an ID that is new.            *)
OneMore(made, ns, n, made2) == n = made[ns] + 1 /\ made2 = [made EXCEPT ![ns] = n]
LEMMA ListenMore ==
    ASSUME NEW pl, NEW a, NEW q, NEW made \in [NsC -> Nat], minedC \in Nat, AtOK(pl, a, made), QueueOK(a, q, made, minedC),
           NEW ns \in NsC, NEW n, NEW made2, OneMore(made, ns, n, made2), NEW b, NEW r, Subscribed(a, q, b, r, Listener(ns, n), 0)
    PROVE  made2 \in [NsC -> Nat] /\ AtOK(pl, b, made2) /\ QueueOK(b, r, made2, minedC) /\ Ext(a, q, b, r)
<1>1. made[ns] \in Nat /\ n \in Nat /\ n = made[ns] + 1 /\ made2 \in [NsC -> Nat] /\ made2[ns] = n /\ \A k \in NsC : k # ns => made2[k] = made[k]
  BY DEF OneMore
<1>2. Listener(ns, n) \in SubIds /\ ~IsFF(Listener(ns, n)) BY <1>1, ListenerIs
<1>3. \A x : KnownTo(x, made) => KnownTo(x, made2)
  <2> SUFFICES ASSUME NEW k \in NsC, NEW m \in 1..made[k] PROVE m \in 1..made2[k] BY DEF KnownTo
  <2> QED BY <1>1
<1>4. ~KnownTo(Listener(ns, n), made)
  <2> SUFFICES ASSUME NEW k \in NsC, NEW m \in 1..made[k], Listener(ns, n) = Listener(k, m) PROVE FALSE BY DEF KnownTo
  <2>1. ns = k /\ n = m BY DEF Listener
  <2> QED BY <1>1, <2>1
<1>5. KnownTo(Listener(ns, n), made2)
  <2>1. n \in 1..made2[ns] BY <1>1
  <2> QED BY <2>1 DEF KnownTo
<1>6. AtOK(pl, a, made2) BY <1>3 DEF AtOK
<1>7. QueueOK(a, q, made2, minedC) BY <1>3 DEF QueueOK
<1>8. Fits(pl, Listener(ns, n), 0, made2) BY <1>2, <1>5 DEF Fits
<1>9. \A i \in DOMAIN q : q[i].sub # Listener(ns, n) BY <1>2, <1>4 DEF QueueOK
<1>10. PICK x : x = Listener(ns, n) OBVIOUS
<1>11. /\ x \in SubIds /\ Fits(pl, x, 0, made2) /\ (\A i \in DOMAIN q : q[i].sub # x)
       /\ Subscribed(a, q, b, r, x, 0)
  BY <1>2, <1>8, <1>9, <1>10
<1>12. AtOK(pl, b, made2) /\ QueueOK(b, r, made2, minedC) /\ Ext(a, q, b, r) BY <1>6, <1>7, <1>11, SubscribeKeeps
<1> QED BY <1>1, <1>12

(* Subscriptions are added and the queue grows.                            *)
LEMMA Grown ==
    ASSUME ConnInv, NEW b, NEW r \in Seq(MsgC), Ext(atC, queueC, b, r), b = atC', r = queueC',
           pluginC' = pluginC, minedC' = minedC, sizeC' = sizeC, prepC' = prepC
    PROVE  /\ PrepInv' /\ sizeC <= Len(r)
           /\ \A k \in NsC : StoredFor(b, pinsC[k], k) /\ OrderFor(r, pinsC[k], k)
           /\ pinsC' = pinsC => PinsInv'
<1>1. queueC \in Seq(MsgC) /\ sizeC \in Nat /\ sizeC <= Len(queueC) BY DEF ConnInv, ConnTypes, QueueInv, QueueOK
<1>2. Longer(atC, queueC, b, r) BY DEF Ext
<1>3. \A k \in NsC : PrepFor(b, r, sizeC, prepC[k], k) BY <1>1, <1>2, GrowPrep DEF ConnInv, PrepInv
<1>4. PrepInv' BY <1>3 DEF PrepInv, PrepFor, OrderedFor
<1>5. sizeC <= Len(r)
  <2>1. Len(queueC) \in Nat /\ Len(r) \in Nat /\ Len(queueC) <= Len(r) BY <1>1, <1>2 DEF Longer
  <2> QED BY <1>1, <2>1
<1>6. \A k \in NsC : StoredFor(b, pinsC[k], k) /\ OrderFor(r, pinsC[k], k) BY GrowKeeps DEF ConnInv, PinsInv
<1>7. pinsC' = pinsC => PinsInv' BY <1>6 DEF PinsInv, StoredFor, OrderFor
<1> QED BY <1>4, <1>5, <1>6, <1>7

(* What a namespace has heard of, another one's change does not take away. *)
StateIs(s, ns) ==
    /\ DOMAIN s = FieldsC /\ s.mem = memC[ns] /\ s.row = rowC[ns] /\ s.subs = subsC /\ s.at = atC /\ s.queue = queueC
    /\ s.ins = <<>> /\ s.pins = <<>> /\ s.err = FALSE

LEMMA StateOfIs == \A ns : StateIs(StateOf(ns), ns)
BY DEF StateIs, StateOf, FieldsC

LEMMA StateOfOK == ASSUME ConnInv, NEW ns \in NsC PROVE RecOK(StateOf(ns))
<1>1. StateIs(StateOf(ns), ns) BY StateOfIs
<1>2. PICK s : s = StateOf(ns) OBVIOUS
<1>3. RecOK(s) BY <1>1, <1>2 DEF ConnInv, ConnTypes, QueueInv, RecOK, StateIs
<1> QED BY <1>2, <1>3

LEMMA StepsOn ==
    ASSUME ConnInv, NEW ns \in NsC, NEW s, RecOK(s), GoesC(StateOf(ns), s, ns),
           OneEachC => Hears(s.mem, s.subs, s.at, ns),
           NEW b, NEW r, NEW made, AtOK(pluginC, b, made), QueueOK(b, r, made, minedC), Ext(s.at, s.queue, b, r),
           b = atC', r = queueC', made = madeC', subsC' = s.subs, memC' = [memC EXCEPT ![ns] = s.mem],
           pluginC' = pluginC, minedC' = minedC, startedC' \subseteq startedC \cup {ns}
    PROVE  QueueInv' /\ HearInv' /\ Ext(atC, queueC, b, r) /\ r \in Seq(MsgC)
<1>1. PICK u : u = StateOf(ns) OBVIOUS
<1>2. /\ u.at = atC /\ u.queue = queueC /\ u.subs = subsC /\ GoesC(u, s, ns)
  BY <1>1, StateOfIs DEF StateIs
<1>3. queueC \in Seq(MsgC) /\ s.queue \in Seq(MsgC) /\ r \in Seq(MsgC) BY DEF ConnInv, QueueInv, QueueOK, RecOK
<1>4. Ext(atC, queueC, s.at, s.queue) BY <1>2 DEF GoesC
<1>5. Ext(atC, queueC, b, r) BY <1>3, <1>4, ExtTrans
<1>6. SubsOK(pluginC, s.at, s.subs) BY DEF RecOK
<1>7. \A x \in DOMAIN s.subs : IsFF(x) /\ x \in DOMAIN s.at /\ x \in DOMAIN b /\ b[x] = s.at[x] BY <1>6 DEF SubsOK, Ext, Longer
<1>8. SubsOK(pluginC, b, s.subs) BY <1>6, <1>7 DEF SubsOK
<1>9. QueueInv' BY <1>8 DEF QueueInv
<1>10. ASSUME OneEachC, NEW k \in startedC \cup {ns} PROVE Hears(memC'[k], s.subs, b, k)
  <2>0. DOMAIN memC = NsC /\ startedC \subseteq NsC BY DEF ConnInv, ConnTypes
  <2>1. CASE k = ns
    <3>1. memC'[k] = s.mem BY <2>0, <2>1
    <3>2. Hears(s.mem, s.subs, s.at, ns) BY <1>10
    <3> QED BY <1>7, <2>1, <3>1, <3>2 DEF Hears
  <2>2. CASE k # ns
    <3>1. memC'[k] = memC[k] /\ k \in startedC /\ k \in NsC BY <1>10, <2>0, <2>2
    <3>2. Hears(memC[k], subsC, atC, k) BY <1>10, <3>1 DEF ConnInv, HearInv
    <3> SUFFICES ASSUME memC[k].located
                 PROVE  /\ memC[k].sub \in DOMAIN s.subs /\ k \in s.subs[memC[k].sub]
                        /\ memC[k].sub \in DOMAIN b /\ b[memC[k].sub] = memC[k].ix
      BY <3>1 DEF Hears
    <3>3. memC[k].sub \in DOMAIN subsC /\ k \in subsC[memC[k].sub] /\ memC[k].sub \in DOMAIN atC /\ atC[memC[k].sub] = memC[k].ix
      BY <3>2 DEF Hears
    <3>4. memC[k].sub \in DOMAIN s.subs /\ k \in s.subs[memC[k].sub] BY <1>2, <1>10, <2>2, <3>1, <3>3 DEF GoesC, OthersHear
    <3>5. IsFF(memC[k].sub) BY <1>7, <3>4
    <3>6. memC[k].sub \in DOMAIN b /\ b[memC[k].sub] = atC[memC[k].sub] BY <1>5, <3>3, <3>5 DEF Ext, Longer
    <3> QED BY <3>3, <3>4, <3>6
  <2> QED BY <2>1, <2>2
<1>11. HearInv'
  <2>1. OneEachC' => OneEachC BY DEF OneEachC
  <2> QED BY <1>10, <2>1 DEF HearInv
<1> QED BY <1>3, <1>5, <1>9, <1>11

(* A namespace handles its part of a batch, or tries to.                   *)
LEMMA HandledBy ==
    ASSUME ConnInv, NEW ns \in NsC, ns \in startedC, NEW broken \in BOOLEAN, NEW s, s = attempt(ns, broken)
    PROVE  /\ FoldC(StateOf(ns), s, prepC[ns], ns, Len(prepC[ns])) /\ (OneEachC => Hears(s.mem, s.subs, s.at, ns))
           /\ Len(prepC[ns]) \in Nat
<1>1. RecOK(StateOf(ns)) BY StateOfOK
<1>2. OrderedFor(prepC[ns], ns) /\ minedC \in Nat BY DEF ConnInv, ConnTypes, PrepInv, PrepFor
<1>3. OneEachC => Hears(memC[ns], subsC, atC, ns) BY DEF ConnInv, HearInv
<1>4. FoldC(StateOf(ns), s, prepC[ns], ns, Len(prepC[ns])) BY <1>1, <1>2, <1>3, AttemptKeeps
<1>5. PICK u : u = StateOf(ns) OBVIOUS
<1>6. u.mem = memC[ns] /\ u.subs = subsC /\ u.at = atC /\ GoesC(u, s, ns) BY <1>4, <1>5, StateOfIs DEF StateIs, FoldC
<1>7. OneEachC => Hears(s.mem, s.subs, s.at, ns) BY <1>3, <1>6 DEF GoesC
<1> QED BY <1>2, <1>4, <1>7 DEF OrderedFor

LEMMA HandleStep == ASSUME ConnInv, NEW ns \in NsC, BlockchainEventBatch(ns) PROVE ConnInv'
<1>1. PICK s : s = attempt(ns, FALSE) OBVIOUS
<1>2. /\ ns \in startedC /\ ~s.err
      /\ memC' = [memC EXCEPT ![ns] = s.mem] /\ rowC' = [rowC EXCEPT ![ns] = s.row]
      /\ subsC' = s.subs /\ atC' = s.at /\ queueC' = s.queue
      /\ notedC' = [notedC EXCEPT ![ns] = InsertNewBlockchainEvents(@, s.ins)]
      /\ pinsC' = [pinsC EXCEPT ![ns] = persistContexts(@, s.pins)]
      /\ pluginC' = pluginC /\ startedC' = startedC /\ minedC' = minedC /\ sizeC' = sizeC /\ prepC' = prepC /\ madeC' = madeC
  BY <1>1 DEF BlockchainEventBatch, listenVarsC
<1>3. FoldC(StateOf(ns), s, prepC[ns], ns, Len(prepC[ns])) /\ (OneEachC => Hears(s.mem, s.subs, s.at, ns)) /\ Len(prepC[ns]) \in Nat
  BY <1>1, <1>2, HandledBy
<1>4. /\ RecOK(s) /\ GoesC(StateOf(ns), s, ns) /\ InsOK(s.ins, prepC[ns], ns, Len(prepC[ns]))
      /\ AddedPins(s.pins, prepC[ns], Len(prepC[ns])) /\ AllPins(s.pins, prepC[ns], Len(prepC[ns]))
  BY <1>2, <1>3 DEF FoldC
<1>5. PICK b, r, made : b = s.at /\ r = s.queue /\ made = madeC OBVIOUS
<1>6. AtOK(pluginC, b, made) /\ QueueOK(b, r, made, minedC) /\ MemOK(s.mem) /\ MemOK(s.row) BY <1>4, <1>5 DEF RecOK
<1>7. Ext(s.at, s.queue, b, r) BY <1>5, <1>6, ExtSame DEF QueueOK
<1>8. b = atC' /\ r = queueC' /\ made = madeC' /\ startedC' \subseteq startedC \cup {ns} BY <1>2, <1>5
<1>9. QueueInv' /\ HearInv' /\ Ext(atC, queueC, b, r) /\ r \in Seq(MsgC) BY <1>2, <1>3, <1>4, <1>6, <1>7, <1>8, StepsOn
<1>10. PrepInv' /\ sizeC <= Len(r) /\ \A k \in NsC : StoredFor(b, pinsC[k], k) /\ OrderFor(r, pinsC[k], k) BY <1>2, <1>8, <1>9, Grown
<1>11. ConnTypes'
  <2>1. DOMAIN memC = NsC /\ DOMAIN rowC = NsC /\ DOMAIN notedC = NsC /\ DOMAIN pinsC = NsC BY DEF ConnInv, ConnTypes
  <2>2. DOMAIN memC' = NsC /\ DOMAIN rowC' = NsC /\ DOMAIN notedC' = NsC /\ DOMAIN pinsC' = NsC BY <1>2, <2>1
  <2>3. ASSUME NEW k \in NsC PROVE MemOK(memC'[k]) /\ MemOK(rowC'[k])
    <3>1. memC'[k] = (IF k = ns THEN s.mem ELSE memC[k]) /\ rowC'[k] = (IF k = ns THEN s.row ELSE rowC[k]) BY <1>2, <2>1
    <3> QED BY <1>6, <3>1 DEF ConnInv, ConnTypes
  <2> QED BY <1>2, <1>8, <1>10, <2>2, <2>3 DEF ConnInv, ConnTypes
<1>12. PinsInv'
  <2>1. DOMAIN pinsC = NsC /\ minedC \in Nat /\ sizeC \in Nat /\ sizeC <= Len(queueC) BY DEF ConnInv, ConnTypes
  <2>2. QueueOK(atC, queueC, madeC, minedC) BY DEF ConnInv, QueueInv
  <2>3. PICK rows2 : rows2 = persistContexts(pinsC[ns], s.pins) OBVIOUS
  <2>4. StoredFor(atC, rows2, ns) /\ OrderFor(queueC, rows2, ns)
    <3>1. /\ PrepFor(atC, queueC, sizeC, prepC[ns], ns)
          /\ StoredFor(atC, pinsC[ns], ns) /\ OrderFor(queueC, pinsC[ns], ns)
      BY DEF ConnInv, PrepInv, PinsInv
    <3> QED BY <1>4, <2>1, <2>2, <2>3, <3>1, StoreKeeps
  <2>5. StoredFor(b, rows2, ns) /\ OrderFor(r, rows2, ns) BY <1>9, <2>4, GrowKeeps
  <2>6. ASSUME NEW k \in NsC PROVE StoredFor(b, pinsC'[k], k) /\ OrderFor(r, pinsC'[k], k)
    <3>1. CASE k = ns
      <4>1. pinsC'[k] = rows2 BY <1>2, <2>1, <2>3, <3>1
      <4> QED BY <2>5, <3>1, <4>1
    <3>2. CASE k # ns
      <4>1. pinsC'[k] = pinsC[k] BY <1>2, <2>1, <3>2
      <4> QED BY <1>10, <4>1
    <3> QED BY <3>1, <3>2
  <2> QED BY <1>2, <1>8, <2>6 DEF PinsInv, StoredFor, OrderFor
<1>13. NotedInv'
  <2>1. DOMAIN notedC = NsC BY DEF ConnInv, ConnTypes
  <2>2. PICK rows2 : rows2 = InsertNewBlockchainEvents(notedC[ns], s.ins) OBVIOUS
  <2>3. s.ins \in Seq(Nat \X {0, 1}) /\ NotOnceMore(s.ins) BY <1>4 DEF InsOK, NotOnceMore
  <2>4. notedC[ns] \in Seq(Nat \X {0, 1}) /\ NotOnceMore(notedC[ns]) BY DEF ConnInv, NotedInv
  <2>5. rows2 \in Seq(Nat \X {0, 1}) /\ NotOnceMore(rows2) BY <2>2, <2>3, <2>4, NoteKeeps
  <2>6. ASSUME NEW k \in NsC PROVE notedC'[k] \in Seq(Nat \X {0, 1}) /\ NotOnceMore(notedC'[k])
    <3>1. CASE k = ns
      <4>1. notedC'[k] = rows2 BY <1>2, <2>1, <2>2, <3>1
      <4> QED BY <2>5, <4>1
    <3>2. CASE k # ns
      <4>1. notedC'[k] = notedC[k] BY <1>2, <2>1, <3>2
      <4> QED BY <4>1 DEF ConnInv, NotedInv
    <3> QED BY <3>1, <3>2
  <2> QED BY <2>6 DEF NotedInv, NotOnceMore
<1> QED BY <1>9, <1>10, <1>11, <1>12, <1>13 DEF ConnInv

LEMMA FailStep == ASSUME ConnInv, NEW ns \in NsC, attemptFails(ns) PROVE ConnInv'
<1>1. PICK broken \in BOOLEAN :
          /\ memC' = [memC EXCEPT ![ns] = attempt(ns, broken).mem] /\ subsC' = attempt(ns, broken).subs
          /\ atC' = attempt(ns, broken).at /\ queueC' = attempt(ns, broken).queue
  BY DEF attemptFails
<1>2. PICK s : s = attempt(ns, broken) OBVIOUS
<1>3. /\ ns \in startedC /\ memC' = [memC EXCEPT ![ns] = s.mem]
      /\ subsC' = s.subs /\ atC' = s.at /\ queueC' = s.queue
      /\ pluginC' = pluginC /\ startedC' = startedC /\ minedC' = minedC /\ sizeC' = sizeC /\ prepC' = prepC /\ madeC' = madeC
      /\ rowC' = rowC /\ notedC' = notedC /\ pinsC' = pinsC
  BY <1>1, <1>2 DEF attemptFails, rowVarsC, listenVarsC
<1>4. FoldC(StateOf(ns), s, prepC[ns], ns, Len(prepC[ns])) /\ (OneEachC => Hears(s.mem, s.subs, s.at, ns))
  BY <1>2, <1>3, HandledBy
<1>5. RecOK(s) /\ GoesC(StateOf(ns), s, ns) BY <1>4 DEF FoldC
<1>6. PICK b, r, made : b = s.at /\ r = s.queue /\ made = madeC OBVIOUS
<1>7. AtOK(pluginC, b, made) /\ QueueOK(b, r, made, minedC) /\ MemOK(s.mem) BY <1>5, <1>6 DEF RecOK
<1>8. Ext(s.at, s.queue, b, r) BY <1>6, <1>7, ExtSame DEF QueueOK
<1>9. b = atC' /\ r = queueC' /\ made = madeC' /\ startedC' \subseteq startedC \cup {ns} BY <1>3, <1>6
<1>10. QueueInv' /\ HearInv' /\ Ext(atC, queueC, b, r) /\ r \in Seq(MsgC) BY <1>3, <1>4, <1>5, <1>7, <1>8, <1>9, StepsOn
<1>11. PrepInv' /\ sizeC <= Len(r) /\ PinsInv' BY <1>3, <1>9, <1>10, Grown
<1>12. ConnTypes'
  <2>1. DOMAIN memC = NsC /\ DOMAIN rowC = NsC BY DEF ConnInv, ConnTypes
  <2>2. DOMAIN memC' = NsC BY <1>3, <2>1
  <2>3. ASSUME NEW k \in NsC PROVE MemOK(memC'[k])
    <3>1. memC'[k] = (IF k = ns THEN s.mem ELSE memC[k]) BY <1>3, <2>1
    <3> QED BY <1>7, <3>1 DEF ConnInv, ConnTypes
  <2> QED BY <1>3, <1>9, <1>11, <2>2, <2>3 DEF ConnInv, ConnTypes
<1>13. NotedInv' BY <1>3 DEF ConnInv, NotedInv
<1> QED BY <1>10, <1>11, <1>12, <1>13 DEF ConnInv

(* A namespace starts: its contract, then the listener the connector lost. *)
LEMMA ListenerMade ==
    ASSUME NEW s, NEW ns, NEW n, n = checkContractListenerExists(s, ns), n # listenerC[ns] PROVE n = madeC[ns] + 1
BY DEF checkContractListenerExists

LEMMA StartNsStep == ASSUME ConnInv, NEW ns \in NsC, startNamespace(ns) PROVE ConnInv'
<1>1. PICK s, n, t : /\ s = configureContractCommon(StateOf(ns), ns) /\ n = checkContractListenerExists(s, ns)
                     /\ t = IF n = listenerC[ns] THEN s ELSE createSubscription(s, Listener(ns, n), 0)
  OBVIOUS
<1>2. /\ startedC' = startedC \cup {ns} /\ ~s.err
      /\ memC' = [memC EXCEPT ![ns] = s.mem] /\ rowC' = [rowC EXCEPT ![ns] = s.row]
      /\ subsC' = s.subs /\ atC' = t.at /\ queueC' = t.queue
      /\ madeC' = IF n = listenerC[ns] THEN madeC ELSE [madeC EXCEPT ![ns] = n]
      /\ pluginC' = pluginC /\ minedC' = minedC /\ sizeC' = sizeC /\ prepC' = prepC /\ notedC' = notedC /\ pinsC' = pinsC
  BY <1>1 DEF startNamespace
<1>3. minedC \in Nat /\ madeC \in [NsC -> Nat] BY DEF ConnInv, ConnTypes
<1>4. RecOK(s) /\ MovesC(StateOf(ns), s, ns) /\ (s.err \/ (OneEachC => Hears(s.mem, s.subs, s.at, ns)))
  BY <1>1, <1>3, StateOfOK, ConfigKeeps
<1>5. PICK b, r, made : b = t.at /\ r = t.queue /\ made = IF n = listenerC[ns] THEN madeC ELSE [madeC EXCEPT ![ns] = n] OBVIOUS
<1>6. made \in [NsC -> Nat] /\ AtOK(pluginC, b, made) /\ QueueOK(b, r, made, minedC) /\ Ext(s.at, s.queue, b, r)
  <2>1. AtOK(pluginC, s.at, madeC) /\ QueueOK(s.at, s.queue, madeC, minedC) /\ DOMAIN s = FieldsC BY <1>4 DEF RecOK
  <2>2. CASE n = listenerC[ns]
    <3>1. b = s.at /\ r = s.queue /\ made = madeC BY <1>1, <1>5, <2>2
    <3>2. Ext(s.at, s.queue, s.at, s.queue) BY <2>1, ExtSame DEF QueueOK
    <3> QED BY <1>3, <2>1, <3>1, <3>2
  <2>3. CASE n # listenerC[ns]
    <3>1. n = madeC[ns] + 1 BY <1>1, <2>3, ListenerMade
    <3>2. t = createSubscription(s, Listener(ns, n), 0) /\ made = [madeC EXCEPT ![ns] = n] BY <1>1, <1>5, <2>3
    <3>3. Subscribed(s.at, s.queue, b, r, Listener(ns, n), 0)
      <4>1. PICK x : x = Listener(ns, n) OBVIOUS
      <4>2. Subscribed(s.at, s.queue, t.at, t.queue, x, 0) BY <2>1, <3>2, <4>1, CreateIs
      <4> QED BY <1>5, <4>1, <4>2
    <3>4. PICK a, q : a = s.at /\ q = s.queue OBVIOUS
    <3>5. AtOK(pluginC, a, madeC) /\ QueueOK(a, q, madeC, minedC) BY <2>1, <3>4
    <3>6. Subscribed(a, q, b, r, Listener(ns, n), 0) BY <3>3, <3>4
    <3>7. OneMore(madeC, ns, n, made) BY <3>1, <3>2 DEF OneMore
    <3>8. made \in [NsC -> Nat] /\ AtOK(pluginC, b, made) /\ QueueOK(b, r, made, minedC) /\ Ext(a, q, b, r)
      BY <1>3, <3>5, <3>6, <3>7, ListenMore
    <3> QED BY <3>4, <3>8
  <2> QED BY <2>2, <2>3
<1>7. MemOK(s.mem) /\ MemOK(s.row) /\ GoesC(StateOf(ns), s, ns) /\ (OneEachC => Hears(s.mem, s.subs, s.at, ns))
  BY <1>2, <1>4 DEF RecOK, MovesC
<1>8. b = atC' /\ r = queueC' /\ made = madeC' /\ startedC' \subseteq startedC \cup {ns} BY <1>2, <1>5
<1>9. QueueInv' /\ HearInv' /\ Ext(atC, queueC, b, r) /\ r \in Seq(MsgC) BY <1>2, <1>4, <1>6, <1>7, <1>8, StepsOn
<1>10. PrepInv' /\ sizeC <= Len(r) /\ PinsInv' BY <1>2, <1>8, <1>9, Grown
<1>11. ConnTypes'
  <2>1. DOMAIN memC = NsC /\ DOMAIN rowC = NsC BY DEF ConnInv, ConnTypes
  <2>2. DOMAIN memC' = NsC /\ DOMAIN rowC' = NsC BY <1>2, <2>1
  <2>3. ASSUME NEW k \in NsC PROVE MemOK(memC'[k]) /\ MemOK(rowC'[k])
    <3>1. memC'[k] = (IF k = ns THEN s.mem ELSE memC[k]) /\ rowC'[k] = (IF k = ns THEN s.row ELSE rowC[k]) BY <1>2, <2>1
    <3> QED BY <1>7, <3>1 DEF ConnInv, ConnTypes
  <2> QED BY <1>2, <1>6, <1>8, <1>10, <2>2, <2>3 DEF ConnInv, ConnTypes
<1>12. NotedInv' BY <1>2 DEF ConnInv, NotedInv
<1> QED BY <1>9, <1>10, <1>11, <1>12 DEF ConnInv

(* A contract listener is made, or taken from the connector.               *)
LEMMA ListenStep == ASSUME ConnInv, NEW ns \in NsC, AddContractListener(ns) PROVE ConnInv'
<1>1. PICK s, n : s = createSubscription(StateOf(ns), Listener(ns, n), 0) /\ n = madeC[ns] + 1 OBVIOUS
<1>2. PICK b, r, made : b = s.at /\ r = s.queue /\ made = [madeC EXCEPT ![ns] = n] OBVIOUS
<1>3. /\ b = atC' /\ r = queueC' /\ made = madeC'
      /\ pluginC' = pluginC /\ startedC' = startedC /\ minedC' = minedC /\ sizeC' = sizeC /\ prepC' = prepC
      /\ subsC' = subsC /\ memC' = memC /\ rowC' = rowC /\ notedC' = notedC /\ pinsC' = pinsC
  <2>1. madeC' = [madeC EXCEPT ![ns] = madeC[ns] + 1] BY DEF AddContractListener
  <2> QED BY <1>1, <1>2, <2>1 DEF AddContractListener, rowVarsC
<1>4. minedC \in Nat /\ madeC \in [NsC -> Nat] /\ AtOK(pluginC, atC, madeC) /\ QueueOK(atC, queueC, madeC, minedC)
      /\ SubsOK(pluginC, atC, subsC)
  BY DEF ConnInv, ConnTypes, QueueInv
<1>5. Subscribed(atC, queueC, b, r, Listener(ns, n), 0)
  <2>1. PICK x, u : x = Listener(ns, n) /\ u = StateOf(ns) OBVIOUS
  <2>2. DOMAIN u = FieldsC /\ u.at = atC /\ u.queue = queueC BY <2>1, StateOfIs DEF StateIs
  <2>3. Subscribed(u.at, u.queue, s.at, s.queue, x, 0) BY <1>1, <2>1, <2>2, CreateIs
  <2> QED BY <1>2, <2>1, <2>2, <2>3
<1>6. made \in [NsC -> Nat] /\ AtOK(pluginC, b, made) /\ QueueOK(b, r, made, minedC) /\ Ext(atC, queueC, b, r)
  <2>1. OneMore(madeC, ns, n, made) BY <1>1, <1>2 DEF OneMore
  <2> QED BY <1>4, <1>5, <2>1, ListenMore
<1>7. r \in Seq(MsgC) BY <1>6 DEF QueueOK
<1>8. PrepInv' /\ sizeC <= Len(r) /\ PinsInv' BY <1>3, <1>6, <1>7, Grown
<1>9. \A x \in DOMAIN subsC : IsFF(x) /\ x \in DOMAIN atC /\ x \in DOMAIN b /\ b[x] = atC[x] BY <1>4, <1>6 DEF SubsOK, Ext, Longer
<1>10. SubsOK(pluginC, b, subsC) BY <1>4, <1>9 DEF SubsOK
<1>11. QueueInv' BY <1>3, <1>6, <1>10 DEF QueueInv
<1>12. HearInv'
  <2>1. OneEachC' => OneEachC BY <1>3 DEF OneEachC
  <2>2. \A k \in startedC : Hears(memC[k], subsC, atC, k) => Hears(memC[k], subsC, b, k) BY <1>9 DEF Hears
  <2> QED BY <1>3, <2>1, <2>2 DEF ConnInv, HearInv
<1>13. ConnTypes' BY <1>3, <1>6, <1>8 DEF ConnInv, ConnTypes
<1>14. NotedInv' BY <1>3 DEF ConnInv, NotedInv
<1> QED BY <1>8, <1>11, <1>12, <1>13, <1>14 DEF ConnInv

LEMMA DropStep == ASSUME ConnInv, NEW ns \in NsC, DeleteContractListenerByNameOrID(ns) PROVE ConnInv'
<1>1. PICK x, b : x = Listener(ns, listenerC[ns]) /\ b = atC' OBVIOUS
<1>2. ~IsFF(x) BY <1>1 DEF Listener, IsFF
<1>3. /\ b = [y \in DOMAIN atC \ {x} |-> atC[y]]
      /\ pluginC' = pluginC /\ startedC' = startedC /\ minedC' = minedC /\ queueC' = queueC /\ sizeC' = sizeC /\ prepC' = prepC
      /\ subsC' = subsC /\ memC' = memC /\ rowC' = rowC /\ notedC' = notedC /\ pinsC' = pinsC /\ madeC' = madeC
  BY <1>1 DEF DeleteContractListenerByNameOrID, rowVarsC
<1>4. AtOK(pluginC, atC, madeC) /\ QueueOK(atC, queueC, madeC, minedC) /\ SubsOK(pluginC, atC, subsC)
  BY DEF ConnInv, QueueInv
<1>5. DOMAIN b = DOMAIN atC \ {x} /\ \A y \in DOMAIN b : b[y] = atC[y] BY <1>3
<1>6. \A y \in DOMAIN atC : IsFF(y) => y \in DOMAIN b /\ b[y] = atC[y] BY <1>2, <1>5
<1>7. AtOK(pluginC, b, madeC)
  <2>1. IsFiniteSet(DOMAIN b)
    <3>1. IsFiniteSet(DOMAIN atC) /\ DOMAIN b \subseteq DOMAIN atC BY <1>4, <1>5 DEF AtOK
    <3> QED BY <3>1, FS_Subset
  <2> QED BY <1>4, <1>5, <2>1 DEF AtOK
<1>8. QueueOK(b, queueC, madeC, minedC) BY <1>4, <1>6 DEF QueueOK
<1>9. SubsOK(pluginC, b, subsC) BY <1>4, <1>6 DEF SubsOK
<1>10. QueueInv' BY <1>1, <1>3, <1>7, <1>8, <1>9 DEF QueueInv
<1>11. queueC \in Seq(MsgC) BY <1>4 DEF QueueOK
<1>12. Ext(atC, queueC, b, queueC)
  <2>1. Len(queueC) \in Nat BY <1>11
  <2> QED BY <1>6, <2>1 DEF Ext, Longer
<1>13. PrepInv' /\ PinsInv' BY <1>1, <1>3, <1>11, <1>12, Grown
<1>14. HearInv'
  <2>1. OneEachC' => OneEachC BY <1>3 DEF OneEachC
  <2>2. \A k \in startedC : Hears(memC[k], subsC, atC, k) => Hears(memC[k], subsC, b, k) BY <1>4, <1>6 DEF Hears, SubsOK
  <2> QED BY <1>1, <1>3, <2>1, <2>2 DEF ConnInv, HearInv
<1>15. ConnTypes' BY <1>3 DEF ConnInv, ConnTypes
<1>16. NotedInv' BY <1>3 DEF ConnInv, NotedInv
<1> QED BY <1>10, <1>13, <1>14, <1>15, <1>16 DEF ConnInv

LEMMA ConnNext == ASSUME ConnInv, [NextC]_varsC PROVE ConnInv'
<1>1. CASE UNCHANGED varsC BY <1>1, QuietSteps
<1>2. CASE startBackgroundLoop \/ StartC \/ loseConnection \/ afterConnect BY <1>2, QuietSteps
<1>3. CASE ackC \/ errorC \/ restartC BY <1>3, EndSteps
<1>4. CASE emitC BY <1>4, EmitStep
<1>5. CASE handleMessageBatch BY <1>5, BatchStep
<1>6. CASE nameUnknown BY <1>6, UnknownStep
<1>7. ASSUME NEW ns \in NsC,
             startNamespace(ns) \/ BlockchainEventBatch(ns) \/ attemptFails(ns)
             \/ AddContractListener(ns) \/ InsertContractListener(ns) \/ DeleteContractListenerByNameOrID(ns)
      PROVE  ConnInv'
  <2>1. CASE startNamespace(ns) BY <2>1, StartNsStep
  <2>2. CASE BlockchainEventBatch(ns) BY <2>2, HandleStep
  <2>3. CASE attemptFails(ns) BY <2>3, FailStep
  <2>4. CASE AddContractListener(ns) BY <2>4, ListenStep
  <2>5. CASE InsertContractListener(ns) BY <2>5, QuietSteps
  <2>6. CASE DeleteContractListenerByNameOrID(ns) BY <2>6, DropStep
  <2> QED BY <1>7, <2>1, <2>2, <2>3, <2>4, <2>5, <2>6
<1> QED BY <1>1, <1>2, <1>3, <1>4, <1>5, <1>6, <1>7 DEF NextC

(* InitC and NextC are those of the node's specification, so a namespace   *)
(* stores the pins of each contract in the order of the chain, and notes a *)
(* chain event once, however batches are cut and delivered again, attempts *)
(* fail and nodes restart.                                                 *)
THEOREM ChainNoted == Spec => []NotedInOrder
<1>1. Init => ConnInv BY InboundInits, ConnInit
<1>2. ConnInv /\ [Next]_varsNode => ConnInv' BY InboundSteps, ConnNext
<1>3. ConnInv => NotedInOrder
  <2> SUFFICES ASSUME ConnInv PROVE NotedInOrder OBVIOUS
  <2>1. \A k \in NsC : RowsInOrder(pinsC[k]) /\ NotOnceMore(notedC[k]) BY DEF ConnInv, PinsInv, StoredFor, NotedInv
  <2>2. PinsInOrder BY <2>1 DEF PinsInOrder, RowsInOrder, ContractOf
  <2>3. NotedOnce BY <2>1 DEF NotedOnce, NotOnceMore
  <2> QED BY <2>2, <2>3 DEF NotedInOrder
<1> QED BY <1>1, <1>2, <1>3, PTL DEF Spec

(* A started namespace hears the contract it has set up, through           *)
(* terminations, failed attempts and restarts, when the name of a          *)
(* subscription stands for one contract and one namespace: on Ethereum,    *)
(* from network version 2 on.                                              *)
THEOREM ChainHeard ==
    ASSUME "fabric" \notin PluginsC, \A c \in DOMAIN VersionOf : VersionOf[c] # 1
    PROVE  Spec => []HearsActive
<1>1. Init => ConnInv BY InboundInits, ConnInit
<1>2. ConnInv /\ [Next]_varsNode => ConnInv' BY InboundSteps, ConnNext
<1>3. ConnInv => HearsActive
  <2> SUFFICES ASSUME ConnInv PROVE HearsActive OBVIOUS
  <2>1. OneEachC BY DEF OneEachC, ConnInv, ConnTypes
  <2>2. \A k \in startedC : Hears(memC[k], subsC, atC, k) BY <2>1 DEF ConnInv, HearInv
  <2> QED BY <2>2 DEF HearsActive, Hears
<1> QED BY <1>1, <1>2, <1>3, PTL DEF Spec
=============================================================================
