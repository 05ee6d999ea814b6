----------------------- MODULE ConsumerOrderingProofs -----------------------
(***************************************************************************)
(* What loads, stores and fences make of the views, and what the steps of  *)
(* a consumer preserve on weak memory, whatever the producers do.          *)
(***************************************************************************)
EXTENDS ConsumerOrdering, ConsumersProofs, SequenceTheorems

(***************************************************************************)
(* Views.                                                                  *)
(***************************************************************************)

LEMMA ThreadNames ==
  /\ \A p \in Writers : ProducerThread(p) \in AllThreads /\ ProducerThread(p) \in ProducerThreads
  /\ \A c \in Consumers : ConsumerThread(c) \in AllThreads /\ ConsumerThread(c) \in ConsumerThreads
  /\ \A p \in Writers, c \in Consumers : ProducerThread(p) # ConsumerThread(c)
  /\ \A p, q \in Writers : ProducerThread(p) = ProducerThread(q) => p = q
  /\ \A c, d \in Consumers : ConsumerThread(c) = ConsumerThread(d) => c = d
  BY DEF ProducerThread, ConsumerThread, AllThreads, ConsumerThreads, ProducerThreads

LEMMA LocationNames ==
  /\ {ProducerCursor, ShutdownWord, HandleCounter} \subseteq AllLocations
  /\ ProducerCursor # ShutdownWord /\ ProducerCursor # HandleCounter
  /\ ShutdownWord # HandleCounter
  /\ \A c \in Consumers :
       /\ ConsumerCursor(c) \in AllLocations
       /\ ConsumerCursor(c) \notin {ProducerCursor, ShutdownWord, HandleCounter}
       /\ \A w \in Words : ConsumerCursor(c) # WordAt(w)
  /\ \A c, d \in Consumers : ConsumerCursor(c) = ConsumerCursor(d) => c = d
  /\ \A w \in Words : /\ WordAt(w) \in AllLocations
                      /\ WordAt(w) \notin {ProducerCursor, ShutdownWord, HandleCounter}
  /\ \A v, w \in Words : WordAt(v) = WordAt(w) => v = w
  BY ConsumersAssumption
  DEF ProducerCursor, ShutdownWord, HandleCounter, ConsumerCursor, WordAt, AllLocations, Consumers

\* Whoever has w is ahead of whoever has v in everything.
Below(v, w) == Precedes(v, w) /\ Sees(v, w)

LEMMA BelowFacts ==
  /\ \A v \in View : Below(v, v)
  /\ \A u, v, w \in View : Below(u, v) /\ Below(v, w) => Below(u, w)
  /\ \A u, v, w \in View : Precedes(u, v) /\ Precedes(v, w) => Precedes(u, w)
  /\ \A u, v, w \in View : Sees(u, v) /\ Sees(v, w) => Sees(u, w)
  <1>1. \A v \in View : Below(v, v)
    BY DEF Below, Precedes, Sees, View
  <1>2. \A u, v, w \in View : Precedes(u, v) /\ Precedes(v, w) => Precedes(u, w)
    BY DEF Precedes, View
  <1>3. \A u, v, w \in View : Sees(u, v) /\ Sees(v, w) => Sees(u, w)
    <2> SUFFICES ASSUME NEW u \in View, NEW v \in View, NEW w \in View,
                        Sees(u, v), Sees(v, w), NEW x \in AllLocations
                 PROVE  u.loc[x] <= w.loc[x]
      BY DEF Sees
    <2>1. u.loc[x] \in Int /\ v.loc[x] \in Int /\ w.loc[x] \in Int
      BY DEF View
    <2>2. QED
      BY <2>1 DEF Sees
  <1>4. QED
    BY <1>1, <1>2, <1>3 DEF Below

\* Two views together know what either knows.
LEMMA UnionView ==
  ASSUME NEW v \in View, NEW w \in View
  PROVE  /\ Union(v, w) \in View
         /\ Below(v, Union(v, w))
         /\ Below(w, Union(v, w))
  <1>1. Union(v, w) \in View
    BY DEF View, Union, Higher
  <1>2. \A u \in AllThreads : /\ v.done[u] <= Union(v, w).done[u]
                              /\ w.done[u] <= Union(v, w).done[u]
    BY DEF View, Union, Higher
  <1>3. \A x \in AllLocations : /\ v.loc[x] <= Union(v, w).loc[x]
                                /\ w.loc[x] <= Union(v, w).loc[x]
    BY DEF View, Union, Higher
  <1>4. QED
    BY <1>1, <1>2, <1>3 DEF Below, Precedes, Sees

\* Nor do they know more.
LEMMA UnionLeast ==
  ASSUME NEW v \in View, NEW w \in View, NEW both \in View, Below(v, both), Below(w, both)
  PROVE  Below(Union(v, w), both)
  <1>1. \A u \in AllThreads : Union(v, w).done[u] <= both.done[u]
    BY DEF View, Union, Higher, Below, Precedes
  <1>2. \A x \in AllLocations : Union(v, w).loc[x] <= both.loc[x]
    BY DEF View, Union, Higher, Below, Sees
  <1>3. QED
    BY <1>1, <1>2 DEF Below, Precedes, Sees

LEMMA MessageType ==
  ASSUME MemoryTypeOK, NEW x \in AllLocations
  PROVE  /\ Len(memory[x]) \in Nat \ {0}
         /\ DOMAIN memory[x] = 1 .. Len(memory[x])
         /\ \A i \in DOMAIN memory[x] : /\ memory[x][i] \in MessagesAt(x)
                                        /\ memory[x][i].view \in View
  <1>1. memory[x] \in Seq(MessagesAt(x)) /\ memory[x] # <<>>
    BY DEF MemoryTypeOK
  <1>2. Len(memory[x]) \in Nat /\ DOMAIN memory[x] = 1 .. Len(memory[x])
    BY <1>1, LenProperties
  <1>3. Len(memory[x]) # 0
    BY <1>1, EmptySeq
  <1>4. \A i \in DOMAIN memory[x] : memory[x][i] \in MessagesAt(x)
    BY <1>1, <1>2, ElementOfSeq
  <1>5. QED
    BY <1>2, <1>3, <1>4 DEF MessagesAt

\* A message that t may load.
LEMMA VisibleMessage ==
  ASSUME MemoryTypeOK, NEW t \in AllThreads, NEW x \in AllLocations, NEW i \in Visible(t, x)
  PROVE  /\ i \in DOMAIN memory[x]
         /\ i \in Nat \ {0}
         /\ cur[t].loc[x] <= i
         /\ memory[x][i].view \in View
  <1>1. Len(memory[x]) \in Nat /\ DOMAIN memory[x] = 1 .. Len(memory[x])
    BY MessageType
  <1>2. cur[t].loc[x] \in Nat \ {0}
    BY DEF MemoryTypeOK, View
  <1>3. i \in DOMAIN memory[x] /\ i \in Nat \ {0} /\ cur[t].loc[x] <= i
    BY <1>1, <1>2 DEF Visible
  <1>4. QED
    BY <1>3, MessageType

Triple == [cur : View, acq : View, rel : View]

LEMMA ViewsOfType ==
  ASSUME MemoryTypeOK, NEW t \in AllThreads
  PROVE  /\ ViewsOf(t) \in Triple
         /\ ViewsOf(t).cur = cur[t] /\ ViewsOf(t).acq = acq[t] /\ ViewsOf(t).rel = rel[t]
  BY DEF MemoryTypeOK, ViewsOf, Triple

\* A load leaves the current view of the events as it is, and has an acquire
\* fence know what the message knows.
LEMMA LoadedViews ==
  ASSUME NEW views \in Triple, NEW x \in AllLocations, NEW i \in Nat \ {0},
         views.cur.loc[x] <= i, memory[x][i].view \in View
  PROVE  /\ Loaded(views, x, i) \in Triple
         /\ Loaded(views, x, i).cur.done = views.cur.done
         /\ Loaded(views, x, i).rel = views.rel
         /\ Loaded(views, x, i).cur.loc[x] = i
         /\ Below(views.cur, Loaded(views, x, i).cur)
         /\ Below(Loaded(views, x, i).cur, Loaded(views, x, i).acq)
         /\ Below(views.acq, Loaded(views, x, i).acq)
         /\ Below(memory[x][i].view, Loaded(views, x, i).acq)
  <1> DEFINE here == [views.cur EXCEPT !.loc[x] = i]
             both == Union(views.acq, memory[x][i].view)
  <1>1. views.cur \in View /\ views.acq \in View /\ views.rel \in View
    BY DEF Triple
  <1>2. here \in View /\ here.done = views.cur.done /\ here.loc[x] = i
    BY <1>1 DEF View
  <1>3. Below(views.cur, here)
    <2>1. \A y \in AllLocations : y # x => here.loc[y] = views.cur.loc[y]
      BY <1>1 DEF View
    <2>2. \A y \in AllLocations : views.cur.loc[y] \in Int
      BY <1>1 DEF View
    <2>3. Sees(views.cur, here)
      BY <1>2, <2>1, <2>2 DEF Sees
    <2>4. Precedes(views.cur, here)
      BY <1>1, <1>2 DEF Precedes, View
    <2>5. QED
      BY <2>3, <2>4 DEF Below
  <1>4. /\ both \in View
        /\ Below(views.acq, both)
        /\ Below(memory[x][i].view, both)
    BY <1>1, UnionView
  <1> HIDE DEF here, both
  <1>5. /\ Union(both, here) \in View
        /\ Below(both, Union(both, here))
        /\ Below(here, Union(both, here))
    BY <1>2, <1>4, UnionView
  <1>6. Loaded(views, x, i) = [views EXCEPT !.cur = here, !.acq = Union(both, here)]
    BY DEF Loaded, here, both
  <1>7. /\ Loaded(views, x, i) \in Triple
        /\ Loaded(views, x, i).cur = here
        /\ Loaded(views, x, i).acq = Union(both, here)
        /\ Loaded(views, x, i).rel = views.rel
    BY <1>1, <1>2, <1>5, <1>6 DEF Triple
  <1>8. /\ Below(views.acq, Union(both, here))
        /\ Below(memory[x][i].view, Union(both, here))
    BY <1>1, <1>4, <1>5, BelowFacts
  <1>9. QED
    BY <1>2, <1>3, <1>5, <1>7, <1>8

LEMMA FencedViews ==
  ASSUME NEW views \in Triple
  PROVE  /\ AcquireFence(views) \in Triple
         /\ AcquireFence(views).cur = views.acq
         /\ AcquireFence(views).acq = views.acq
         /\ AcquireFence(views).rel = views.rel
  BY DEF AcquireFence, Triple

\* An access changes what its own thread is known to be done with, and that only.
LEMMA AccessedViews ==
  ASSUME NEW views \in Triple, NEW t \in AllThreads, NEW s \in Int
  PROVE  /\ Accessed(views, t, s) \in Triple
         /\ Accessed(views, t, s).cur.done[t] = s
         /\ Accessed(views, t, s).acq.done[t] = s
         /\ Accessed(views, t, s).rel = views.rel
         /\ Accessed(views, t, s).cur.loc = views.cur.loc
         /\ Accessed(views, t, s).acq.loc = views.acq.loc
         /\ \A u \in AllThreads \ {t} :
              /\ Accessed(views, t, s).cur.done[u] = views.cur.done[u]
              /\ Accessed(views, t, s).acq.done[u] = views.acq.done[u]
  BY DEF Accessed, Triple, View

\* A store is nothing to the events, and shows its thread the message stored.
LEMMA StoredViews ==
  ASSUME MemoryTypeOK, NEW views \in Triple, NEW x \in AllLocations
  PROVE  /\ Stored(views, x) \in Triple
         /\ Stored(views, x).cur.done = views.cur.done
         /\ Stored(views, x).acq.done = views.acq.done
         /\ Stored(views, x).rel = views.rel
         /\ \A y \in AllLocations \ {x} :
              /\ Stored(views, x).cur.loc[y] = views.cur.loc[y]
              /\ Stored(views, x).acq.loc[y] = views.acq.loc[y]
         /\ Stored(views, x).cur.loc[x] = Len(memory[x]) + 1
         /\ Stored(views, x).acq.loc[x] = Len(memory[x]) + 1
  <1>1. PICK n \in Nat \ {0} : n = Len(memory[x]) + 1
    BY MessageType
  <1>2. Stored(views, x) = [views EXCEPT !.cur.loc[x] = n, !.acq.loc[x] = n]
    BY <1>1 DEF Stored
  <1>3. /\ Stored(views, x) = [views EXCEPT !.cur = [@ EXCEPT !.loc[x] = n],
                                         !.acq = [@ EXCEPT !.loc[x] = n]]
        /\ \A v \in View : /\ [v EXCEPT !.loc[x] = n] \in View
                          /\ [v EXCEPT !.loc[x] = n].done = v.done
                          /\ [v EXCEPT !.loc[x] = n].loc[x] = n
                          /\ \A y \in AllLocations \ {x} :
                               [v EXCEPT !.loc[x] = n].loc[y] = v.loc[y]
    BY <1>2 DEF Triple, View
  <1>4. views.cur \in View /\ views.acq \in View /\ views.rel \in View
    BY DEF Triple
  <1>5. \A v \in View : \E k \in View :
          /\ k = [v EXCEPT !.loc[x] = n]
          /\ k.done = v.done
          /\ k.loc[x] = n
          /\ \A y \in AllLocations \ {x} : k.loc[y] = v.loc[y]
    BY <1>3
  <1>6. PICK k \in View :
          /\ k = [views.cur EXCEPT !.loc[x] = n]
          /\ k.done = views.cur.done
          /\ k.loc[x] = n
          /\ \A y \in AllLocations \ {x} : k.loc[y] = views.cur.loc[y]
    BY <1>4, <1>5
  <1>7. PICK m \in View :
          /\ m = [views.acq EXCEPT !.loc[x] = n]
          /\ m.done = views.acq.done
          /\ m.loc[x] = n
          /\ \A y \in AllLocations \ {x} : m.loc[y] = views.acq.loc[y]
    BY <1>4, <1>5
  <1>8. Stored(views, x) = [views EXCEPT !.cur = k, !.acq = m]
    BY <1>3, <1>6, <1>7
  <1>9. /\ Stored(views, x) \in Triple
        /\ Stored(views, x).cur = k
        /\ Stored(views, x).acq = m
        /\ Stored(views, x).rel = views.rel
    BY <1>8 DEF Triple
  <1>10. QED
    BY <1>1, <1>6, <1>7, <1>9

\* What is behind a fence stays behind it.
LEMMA StoredBelow ==
  ASSUME MemoryTypeOK, NEW views \in Triple, NEW x \in AllLocations,
         Below(views.cur, views.acq)
  PROVE  Below(Stored(views, x).cur, Stored(views, x).acq)
  <1>1. PICK n \in Nat \ {0} : n = Len(memory[x]) + 1
    BY MessageType
  <1>2. PICK k, m : k = Stored(views, x).cur /\ m = Stored(views, x).acq
    OBVIOUS
  <1>3. /\ k.done = views.cur.done /\ m.done = views.acq.done
        /\ k.loc[x] = n /\ m.loc[x] = n
        /\ \A y \in AllLocations \ {x} :
             k.loc[y] = views.cur.loc[y] /\ m.loc[y] = views.acq.loc[y]
    BY <1>1, <1>2, StoredViews
  <1>4. Precedes(k, m)
    BY <1>3 DEF Below, Precedes
  <1>5. Sees(k, m)
    BY <1>3 DEF Below, Sees
  <1>6. QED
    BY <1>2, <1>4, <1>5 DEF Below

\* A message takes a view along, and itself.
LEMMA MessageFacts ==
  ASSUME MemoryTypeOK, NEW views \in Triple, NEW x \in AllLocations, NEW v, NEW ordering
  PROVE  /\ Message(views, x, v, ordering) \in [value : {v}, view : View]
         /\ Message(views, x, v, ordering).value = v
         /\ Message(views, x, v, ordering).view.done = Carried(views, ordering).done
         /\ \A y \in AllLocations \ {x} :
              Message(views, x, v, ordering).view.loc[y] = Carried(views, ordering).loc[y]
  <1>1. PICK n \in Nat \ {0} : n = Len(memory[x]) + 1
    BY MessageType
  <1>2. PICK carried \in View : carried = Carried(views, ordering)
    BY DEF Carried, Triple
  <1>3. Message(views, x, v, ordering) = [value |-> v, view |-> [carried EXCEPT !.loc[x] = n]]
    BY <1>1, <1>2 DEF Message
  <1>4. /\ [carried EXCEPT !.loc[x] = n] \in View
        /\ [carried EXCEPT !.loc[x] = n].done = carried.done
        /\ \A y \in AllLocations \ {x} : [carried EXCEPT !.loc[x] = n].loc[y] = carried.loc[y]
    BY DEF View
  <1>5. PICK view \in View :
          /\ view = [carried EXCEPT !.loc[x] = n]
          /\ view.done = carried.done
          /\ \A y \in AllLocations \ {x} : view.loc[y] = carried.loc[y]
    BY <1>4
  <1>6. Message(views, x, v, ordering) = [value |-> v, view |-> view]
    BY <1>3, <1>5
  <1>7. /\ Message(views, x, v, ordering) \in [value : {v}, view : View]
        /\ Message(views, x, v, ordering).value = v
        /\ Message(views, x, v, ordering).view = view
    BY <1>6
  <1>8. QED
    BY <1>2, <1>5, <1>7

\* What the thread of a triple may be set to.
LEMMA SetViewsEffect ==
  ASSUME MemoryTypeOK, NEW t \in AllThreads, NEW views \in Triple, SetViews(t, views)
  PROVE  /\ cur' \in [AllThreads -> View]
         /\ acq' \in [AllThreads -> View]
         /\ rel' \in [AllThreads -> View]
         /\ cur'[t] = views.cur
         /\ acq'[t] = views.acq
         /\ rel'[t] = views.rel
         /\ \A u \in AllThreads \ {t} : /\ cur'[u] = cur[u]
                                        /\ acq'[u] = acq[u]
                                        /\ rel'[u] = rel[u]
  BY DEF MemoryTypeOK, SetViews, Triple

\* Memory as it was is memory still.
LEMMA SameMemory ==
  ASSUME MemoryTypeOK, UNCHANGED memory,
         cur' \in [AllThreads -> View], acq' \in [AllThreads -> View],
         rel' \in [AllThreads -> View]
  PROVE  MemoryTypeOK'
  <1>1. \A x \in AllLocations : MessagesAt(x)' = MessagesAt(x)
    BY DEF MessagesAt, View
  <1>2. View' = View
    BY DEF View
  <1>3. QED
    BY <1>1, <1>2 DEF MemoryTypeOK

\* A new message is the last one of its location, and nothing else changes.
LEMMA AppendEffect ==
  ASSUME MemoryTypeOK, NEW x \in AllLocations, NEW v, NEW m \in [value : {v}, view : View],
         Append1(x, m),
         cur' \in [AllThreads -> View], acq' \in [AllThreads -> View],
         rel' \in [AllThreads -> View]
  PROVE  /\ MemoryTypeOK'
         /\ \A y \in AllLocations \ {x} : memory'[y] = memory[y]
         /\ Len(memory'[x]) = Len(memory[x]) + 1
         /\ \A i \in DOMAIN memory[x] : memory'[x][i] = memory[x][i]
         /\ memory'[x][Len(memory[x]) + 1] = m
         /\ \A i \in DOMAIN memory'[x] :
              \/ i \in DOMAIN memory[x] /\ memory'[x][i] = memory[x][i]
              \/ i = Len(memory[x]) + 1 /\ memory'[x][i] = m
  <1>1. PICK Old : Old = MessagesAt(x)
    OBVIOUS
  <1>2. PICK old \in Seq(Old \cup {m}) : old = memory[x] /\ old \in Seq(Old)
    <2>1. memory[x] \in Seq(Old)
      BY <1>1 DEF MemoryTypeOK
    <2>2. memory[x] \in Seq(Old \cup {m})
      BY <2>1
    <2>3. QED
      BY <2>1, <2>2
  <1>3. PICK new : new = Append(old, m)
    OBVIOUS
  <1>4. /\ new \in Seq(Old \cup {m})
        /\ new # <<>>
        /\ Len(new) = Len(old) + 1
        /\ \A i \in 1 .. Len(old) : new[i] = old[i]
        /\ new[Len(old) + 1] = m
    BY <1>3, AppendProperties
  <1>5. /\ Len(old) \in Nat /\ DOMAIN old = 1 .. Len(old)
        /\ DOMAIN new = 1 .. Len(new)
    BY <1>2, <1>4, LenProperties
  <1>6. memory' = [memory EXCEPT ![x] = new]
    BY <1>2, <1>3 DEF Append1
  <1>7. /\ memory' = [y \in AllLocations |-> memory'[y]]
        /\ memory'[x] = new
        /\ \A y \in AllLocations \ {x} : memory'[y] = memory[y]
    BY <1>6 DEF MemoryTypeOK
  <1>8. ASSUME NEW i \in DOMAIN new
        PROVE  (i \in DOMAIN old /\ new[i] = old[i]) \/ (i = Len(old) + 1 /\ new[i] = m)
    BY <1>4, <1>5
  <1>9. View' = View
    BY DEF View
  <1>10. ASSUME NEW y \in AllLocations
         PROVE  memory'[y] # <<>> /\ memory'[y] \in Seq(MessagesAt(y)')
    <2>1. CASE y = x
      <3>1. PICK New : New = [value : {new[i].value : i \in DOMAIN new}, view : View]
        OBVIOUS
      <3>2. MessagesAt(y)' = New
        BY <1>7, <1>9, <2>1, <3>1 DEF MessagesAt
      <3>3. ASSUME NEW i \in 1 .. Len(new)
            PROVE  new[i] \in New
        <4>1. i \in DOMAIN new
          BY <1>5
        <4>2. \E w : new[i] \in [value : {w}, view : View]
          <5>1. CASE new[i] = m
            BY <5>1
          <5>2. CASE i \in DOMAIN old /\ new[i] = old[i]
            <6>1. old[i] \in Old
              BY <1>2, <1>5, <5>2, ElementOfSeq
            <6>2. PICK A : Old = [value : A, view : View]
              BY <1>1 DEF MessagesAt
            <6>3. QED
              BY <5>2, <6>1, <6>2
          <5>3. QED
            BY <1>8, <4>1, <5>1, <5>2
        <4>3. PICK w : new[i] \in [value : {w}, view : View]
          BY <4>2
        <4>4. w \in {new[j].value : j \in DOMAIN new}
          BY <4>1, <4>3
        <4>5. QED
          BY <3>1, <4>3, <4>4
      <3>4. new \in Seq(New)
        <4>1. new \in [1 .. Len(new) -> Old \cup {m}] /\ Len(new) \in Nat
          BY <1>4, LenProperties
        <4>2. new \in [1 .. Len(new) -> New]
          BY <3>3, <4>1
        <4>3. QED
          BY <4>1, <4>2
      <3>5. QED
        BY <1>4, <1>7, <2>1, <3>2, <3>4
    <2>2. CASE y # x
      <3>1. MessagesAt(y)' = MessagesAt(y)
        BY <1>7, <1>9, <2>2 DEF MessagesAt
      <3>2. QED
        BY <1>7, <2>2, <3>1 DEF MemoryTypeOK
    <2>3. QED
      BY <2>1, <2>2
  <1>11. MemoryTypeOK'
    BY <1>7, <1>9, <1>10 DEF MemoryTypeOK
  <1>12. QED
    BY <1>2, <1>4, <1>5, <1>7, <1>8, <1>11

-----------------------------------------------------------------------------

(***************************************************************************)
(* Knowledge.                                                              *)
(***************************************************************************)

\* The consumers' part of the inductive invariant.
ConsumerOrderInv ==
  /\ ConsumersTypeOK /\ OrderTypeOK
  /\ CursorMessageInv /\ ConsumerViewInv /\ AcquireInv /\ ShutdownMessageInv

LEMMA SameDone ==
  ASSUME NEW v \in View, NEW w, w.done = v.done
  PROVE  Precedes(v, w)
  BY DEF Precedes, View

\* Knowing more of more is knowing more of less.
LEMMA WrittenLess ==
  ASSUME OrderTypeOK, NEW v \in View, NEW w \in View, Precedes(v, w),
         NEW s \in Int, NEW r \in Int, r <= s, Written(v, s)
  PROVE  Written(w, r)
  <1> SUFFICES ASSUME NEW e \in DOMAIN writer, e <= r
               PROVE  w.done[ProducerThread(writer[e])] >= e
    BY DEF Written
  <1>1. e \in Int /\ ProducerThread(writer[e]) \in AllThreads
    BY ThreadNames DEF OrderTypeOK
  <1>2. v.done[ProducerThread(writer[e])] >= e
    BY <1>1 DEF Written
  <1>3. QED
    BY <1>1, <1>2 DEF Precedes, View

LEMMA PassedLess ==
  ASSUME OrderTypeOK, NEW v \in View, NEW w \in View, Precedes(v, w),
         NEW c \in Consumers, NEW s \in Int, NEW r \in Int, r <= s, Passed(v, c, s)
  PROVE  Passed(w, c, r)
  <1>1. Written(w, r)
    BY WrittenLess DEF Passed
  <1>2. ASSUME NEW u \in Before(c) \cup {c}
        PROVE  w.done[ConsumerThread(u)] >= r
    <2>1. ConsumerThread(u) \in AllThreads
      BY UpstreamFacts, ThreadNames
    <2>2. v.done[ConsumerThread(u)] >= s
      BY DEF Passed
    <2>3. QED
      BY <2>1, <2>2 DEF Precedes, View
  <1>3. QED
    BY <1>1, <1>2 DEF Passed

\* Nothing a view is said to know of changes unless somebody writes.
LEMMA KnownStays ==
  ASSUME UNCHANGED writer, NEW v, NEW s
  PROVE  /\ Written(v, s)' <=> Written(v, s)
         /\ \A c \in Consumers : Passed(v, c, s)' <=> Passed(v, c, s)
  <1>1. Written(v, s)' <=> Written(v, s)
    BY DEF Written
  <1>2. \A c \in Consumers : Before(c)' = Before(c)
    BY DEF Before
  <1>3. QED
    BY <1>1, <1>2 DEF Passed

\* Nobody writes an event but, maybe, that of sequence p.
WritesOnly(p) == \A e \in DOMAIN writer' \ {p} : e \in DOMAIN writer /\ writer'[e] = writer[e]

\* A write of the event p says nothing of the events before it.
LEMMA KnownBefore ==
  ASSUME NEW p \in Int, WritesOnly(p), NEW v, NEW s \in Int, s < p
  PROVE  /\ Written(v, s) => Written(v, s)'
         /\ \A c \in Consumers : Passed(v, c, s) => Passed(v, c, s)'
  <1>1. ASSUME Written(v, s)
        PROVE  Written(v, s)'
    <2> SUFFICES ASSUME NEW e \in DOMAIN writer', e <= s
                 PROVE  v.done[ProducerThread(writer'[e])] >= e
      BY DEF Written
    <2>1. e # p
      OBVIOUS
    <2>2. e \in DOMAIN writer /\ writer'[e] = writer[e]
      BY <2>1 DEF WritesOnly
    <2>3. QED
      BY <1>1, <2>2 DEF Written
  <1>2. \A c \in Consumers : Before(c)' = Before(c)
    BY DEF Before
  <1>3. QED
    BY <1>1, <1>2 DEF Passed

\* A load, fenced or not: nobody knows less afterwards, and a fence brings up to
\* date with the message.
LEMMA LoadStep ==
  ASSUME MemoryTypeOK, AcquireInv, NEW t \in AllThreads, NEW x \in AllLocations,
         NEW i \in Visible(t, x), NEW views,
         \/ views = Loaded(ViewsOf(t), x, i)
         \/ views = AcquireFence(Loaded(ViewsOf(t), x, i)),
         SetViews(t, views), UNCHANGED memory
  PROVE  /\ MemoryTypeOK'
         /\ AcquireInv'
         /\ \A u \in AllThreads : /\ Below(cur[u], cur'[u])
                                  /\ Below(acq[u], acq'[u])
                                  /\ rel'[u] = rel[u]
         /\ Below(memory[x][i].view, acq'[t])
         /\ i <= cur'[t].loc[x]
         /\ \A u \in AllThreads \ {t} : cur'[u] = cur[u] /\ acq'[u] = acq[u]
         /\ views = AcquireFence(Loaded(ViewsOf(t), x, i)) => cur'[t] = acq'[t]
  <1>1. /\ ViewsOf(t) \in Triple
        /\ ViewsOf(t).cur = cur[t]
        /\ ViewsOf(t).acq = acq[t]
        /\ ViewsOf(t).rel = rel[t]
        /\ i \in Nat \ {0}
        /\ cur[t].loc[x] <= i
        /\ memory[x][i].view \in View
    BY ViewsOfType, VisibleMessage
  <1>2. PICK loaded : loaded = Loaded(ViewsOf(t), x, i)
    OBVIOUS
  <1>3. /\ loaded \in Triple
        /\ loaded.rel = rel[t]
        /\ loaded.cur.loc[x] = i
        /\ Below(cur[t], loaded.cur)
        /\ Below(loaded.cur, loaded.acq)
        /\ Below(acq[t], loaded.acq)
        /\ Below(memory[x][i].view, loaded.acq)
    BY <1>1, <1>2, LoadedViews
  <1>4. /\ AcquireFence(loaded) \in Triple
        /\ AcquireFence(loaded).cur = loaded.acq
        /\ AcquireFence(loaded).acq = loaded.acq
        /\ AcquireFence(loaded).rel = loaded.rel
    BY <1>3, FencedViews
  <1>5. \A u \in AllThreads : cur[u] \in View /\ acq[u] \in View
    BY DEF MemoryTypeOK
  <1>6. loaded.cur \in View /\ loaded.acq \in View
    BY <1>3 DEF Triple
  <1>7. /\ views \in Triple
        /\ views.acq = loaded.acq
        /\ views.rel = rel[t]
        /\ views.cur = loaded.cur \/ views.cur = loaded.acq
        /\ views = AcquireFence(loaded) => views.cur = loaded.acq
    BY <1>2, <1>3, <1>4
  <1>8. /\ Below(cur[t], views.cur)
        /\ Below(views.cur, views.acq)
        /\ i <= views.cur.loc[x]
    <2>1. CASE views.cur = loaded.cur
      BY <1>1, <1>3, <1>7, <2>1
    <2>2. CASE views.cur = loaded.acq
      <3>1. Below(cur[t], loaded.acq) /\ Below(loaded.acq, loaded.acq)
        BY <1>3, <1>5, <1>6, BelowFacts
      <3>2. i <= loaded.acq.loc[x]
        BY <1>3 DEF Below, Sees
      <3>3. QED
        BY <1>7, <2>2, <3>1, <3>2
    <2>3. QED
      BY <1>7, <2>1, <2>2
  <1>9. /\ cur' \in [AllThreads -> View]
        /\ acq' \in [AllThreads -> View]
        /\ rel' \in [AllThreads -> View]
        /\ cur'[t] = views.cur
        /\ acq'[t] = views.acq
        /\ rel'[t] = views.rel
        /\ \A u \in AllThreads \ {t} : /\ cur'[u] = cur[u]
                                       /\ acq'[u] = acq[u]
                                       /\ rel'[u] = rel[u]
    BY <1>7, SetViewsEffect
  <1>10. \A u \in AllThreads : /\ Below(cur[u], cur'[u])
                               /\ Below(acq[u], acq'[u])
                               /\ Below(cur'[u], acq'[u])
                               /\ rel'[u] = rel[u]
    <2>1. TAKE u \in AllThreads
    <2>2. CASE u = t
      BY <1>3, <1>7, <1>8, <1>9, <2>2
    <2>3. CASE u # t
      <3>1. Below(cur[u], acq[u])
        BY DEF AcquireInv, Below
      <3>2. QED
        BY <1>5, <1>9, <2>3, <3>1, BelowFacts
    <2>4. QED
      BY <2>2, <2>3
  <1>11. AcquireInv'
    <2>1. \A u \in AllThreads : Precedes(cur'[u], acq'[u]) /\ Sees(cur'[u], acq'[u])
      BY <1>10 DEF Below
    <2>2. QED
      BY <2>1 DEF AcquireInv, Precedes, Sees
  <1>12. MemoryTypeOK'
    BY <1>9, SameMemory
  <1>13. QED
    BY <1>2, <1>3, <1>7, <1>8, <1>9, <1>10, <1>11, <1>12

\* A step that stores m and goes on with these views.
LEMMA AppendStep ==
  ASSUME MemoryTypeOK, NEW t \in AllThreads, NEW after \in Triple, NEW x \in AllLocations,
         NEW v, NEW m \in [value : {v}, view : View], Append1(x, m), SetViews(t, after)
  PROVE  /\ MemoryTypeOK'
         /\ cur'[t] = after.cur /\ acq'[t] = after.acq /\ rel'[t] = after.rel
         /\ \A u \in AllThreads \ {t} : /\ cur'[u] = cur[u]
                                        /\ acq'[u] = acq[u]
                                        /\ rel'[u] = rel[u]
         /\ \A y \in AllLocations \ {x} : memory'[y] = memory[y]
         /\ Len(memory'[x]) = Len(memory[x]) + 1
         /\ \A i \in DOMAIN memory[x] : memory'[x][i] = memory[x][i]
         /\ memory'[x][Len(memory[x]) + 1] = m
         /\ \A i \in DOMAIN memory'[x] :
              \/ i \in DOMAIN memory[x] /\ memory'[x][i] = memory[x][i]
              \/ i = Len(memory[x]) + 1 /\ memory'[x][i] = m
  <1>1. /\ cur' \in [AllThreads -> View]
        /\ acq' \in [AllThreads -> View]
        /\ rel' \in [AllThreads -> View]
        /\ cur'[t] = after.cur /\ acq'[t] = after.acq /\ rel'[t] = after.rel
        /\ \A u \in AllThreads \ {t} : /\ cur'[u] = cur[u]
                                       /\ acq'[u] = acq[u]
                                       /\ rel'[u] = rel[u]
    BY SetViewsEffect
  <1>2. QED
    BY <1>1, AppendEffect

LEMMA AcquireKept ==
  ASSUME AcquireInv, NEW t \in AllThreads, Below(cur'[t], acq'[t]),
         \A u \in AllThreads \ {t} : cur'[u] = cur[u] /\ acq'[u] = acq[u]
  PROVE  AcquireInv'
  <1>1. \A u \in AllThreads : Precedes(cur'[u], acq'[u]) /\ Sees(cur'[u], acq'[u])
    BY DEF AcquireInv, Below
  <1>2. QED
    BY <1>1 DEF AcquireInv, Precedes, Sees

LEMMA StoreStep ==
  ASSUME MemoryTypeOK, NEW t \in AllThreads, NEW views \in Triple,
         NEW x \in AllLocations, NEW v, NEW ordering,
         StoreAs(t, views, x, v, ordering)
  PROVE  /\ MemoryTypeOK'
         /\ cur'[t].done = views.cur.done
         /\ acq'[t].done = views.acq.done
         /\ rel'[t] = views.rel
         /\ \A y \in AllLocations \ {x} : cur'[t].loc[y] = views.cur.loc[y]
         /\ Below(views.cur, views.acq) => Below(cur'[t], acq'[t])
         /\ \A u \in AllThreads \ {t} : /\ cur'[u] = cur[u]
                                        /\ acq'[u] = acq[u]
                                        /\ rel'[u] = rel[u]
         /\ \A y \in AllLocations \ {x} : memory'[y] = memory[y]
         /\ \A i \in DOMAIN memory'[x] :
              \/ i \in DOMAIN memory[x] /\ memory'[x][i] = memory[x][i]
              \/ /\ memory'[x][i].value = v
                 /\ ordering = "Release" => memory'[x][i].view.done = views.cur.done
  <1>1. PICK m \in [value : {v}, view : View] :
          /\ m = Message(views, x, v, ordering)
          /\ m.value = v
          /\ m.view.done = Carried(views, ordering).done
    BY MessageFacts
  <1>2. PICK after \in Triple :
          /\ after = Stored(views, x)
          /\ after.cur.done = views.cur.done
          /\ after.acq.done = views.acq.done
          /\ after.rel = views.rel
          /\ \A y \in AllLocations \ {x} : after.cur.loc[y] = views.cur.loc[y]
          /\ Below(views.cur, views.acq) => Below(after.cur, after.acq)
    BY StoredViews, StoredBelow
  <1>3. Append1(x, m) /\ SetViews(t, after)
    BY <1>1, <1>2 DEF StoreAs
  <1>4. /\ MemoryTypeOK'
        /\ cur'[t] = after.cur /\ acq'[t] = after.acq /\ rel'[t] = after.rel
        /\ \A u \in AllThreads \ {t} : /\ cur'[u] = cur[u]
                                       /\ acq'[u] = acq[u]
                                       /\ rel'[u] = rel[u]
        /\ \A y \in AllLocations \ {x} : memory'[y] = memory[y]
        /\ \A i \in DOMAIN memory'[x] :
             \/ i \in DOMAIN memory[x] /\ memory'[x][i] = memory[x][i]
             \/ memory'[x][i] = m
    BY <1>3, AppendStep
  <1>5. ordering = "Release" => Carried(views, ordering) = views.cur
    BY DEF Carried
  <1>6. QED
    BY <1>1, <1>2, <1>4, <1>5

-----------------------------------------------------------------------------

(***************************************************************************)
(* What a consumer knows.                                                  *)
(***************************************************************************)

\* A consumer that starts no batch and stores no cursor can only know more.
LEMMA KnowsMore ==
  ASSUME ConsumersTypeOK, OrderTypeOK, MemoryTypeOK', NEW d \in Consumers, ConsumerKnows(d),
         UNCHANGED writer,
         Precedes(cur[ConsumerThread(d)], cur'[ConsumerThread(d)]),
         Precedes(acq[ConsumerThread(d)], acq'[ConsumerThread(d)]),
         consumer_cursor'[d] = consumer_cursor[d],
         \/ unread'[d] = Upstream(d)
         \/ unread'[d] = unread[d] /\ lowest'[d] = lowest[d],
         cpc'[d] \in {"handle", "guard"} =>
           /\ cpc'[d] = cpc[d]
           /\ consumer_sequence'[d] = consumer_sequence[d]
           /\ available'[d] = available[d]
  PROVE  ConsumerKnows(d)'
  <1>1. PICK t \in AllThreads : t = ConsumerThread(d)
    BY ThreadNames
  <1>2. PICK k \in View, m \in View : k = cur'[t] /\ m = acq'[t]
    BY DEF MemoryTypeOK
  <1>3. /\ cur[t] \in View /\ acq[t] \in View
        /\ consumer_cursor[d] \in Int /\ lowest[d] \in Int
        /\ available[d] \in Int /\ consumer_sequence[d] \in Int
    BY ThreadNames DEF OrderTypeOK, MemoryTypeOK, ConsumersTypeOK
  <1>4. Precedes(cur[t], k) /\ Precedes(acq[t], m)
    BY <1>1, <1>2
  <1>5. Passed(k, d, consumer_cursor[d])
    BY <1>1, <1>3, <1>4, PassedLess DEF ConsumerKnows
  <1>6. ASSUME NEW u \in Upstream(d) \ unread'[d]
        PROVE  Passed(m, u, lowest'[d])
    <2>1. u \in Upstream(d) \ unread[d] /\ lowest'[d] = lowest[d] /\ u \in Consumers
      BY UpstreamFacts
    <2>2. Passed(acq[t], u, lowest[d])
      BY <1>1, <2>1 DEF ConsumerKnows
    <2>3. QED
      BY <1>3, <1>4, <2>1, <2>2, PassedLess
  <1>7. ASSUME cpc'[d] = "handle"
        PROVE  k.done[t] >= consumer_sequence[d] - 1
    <2>1. cur[t].done[t] >= consumer_sequence[d] - 1
      BY <1>1, <1>7 DEF ConsumerKnows
    <2>2. QED
      BY <1>3, <1>4, <2>1 DEF Precedes, View
  <1>8. ASSUME cpc'[d] \in {"handle", "guard"}
        PROVE  /\ Written(k, available[d])
               /\ \A u \in Before(d) : k.done[ConsumerThread(u)] >= available[d]
    <2>1. /\ Written(cur[t], available[d])
          /\ \A u \in Before(d) : cur[t].done[ConsumerThread(u)] >= available[d]
      BY <1>1, <1>8 DEF ConsumerKnows
    <2>2. Written(k, available[d])
      BY <1>3, <1>4, <2>1, WrittenLess
    <2>3. \A u \in Before(d) : ConsumerThread(u) \in AllThreads
      BY UpstreamFacts, ThreadNames
    <2>4. QED
      BY <1>3, <1>4, <2>1, <2>2, <2>3 DEF Precedes, View
  <1>9. QED
    <2>1. PICK low : low = lowest'[d]
      OBVIOUS
    <2>2. PICK behind : behind = consumer_cursor[d]
      OBVIOUS
    <2>3. PICK last : last = available[d]
      OBVIOUS
    <2>4. Passed(k, d, behind)' /\ (\A u \in Upstream(d) \ unread'[d] : Passed(m, u, low)')
      BY <1>5, <1>6, <2>1, <2>2, KnownStays, UpstreamFacts
    <2>5. cpc'[d] \in {"handle", "guard"} => Written(k, last)'
      BY <1>8, <2>3, KnownStays
    <2>6. Before(d)' = Before(d) /\ Upstream(d)' = Upstream(d)
      BY DEF Before, Upstream
    <2>7. QED
      BY <1>1, <1>2, <1>7, <1>8, <2>1, <2>2, <2>3, <2>4, <2>5, <2>6 DEF ConsumerKnows

\* Whoever starts a batch has the writes of its events, and what everybody before
\* did with them, behind it.
LEMMA BatchKnown ==
  ASSUME ConsumersTypeOK, OrderTypeOK, NEW top, ConsumerInv(top), MemoryTypeOK',
         NEW c \in Consumers, ConsumerKnows(c),
         cpc[c] = "load", NEW highest \in Int, Observed(c, highest),
         UNCHANGED <<writer, consumer_cursor, consumer_sequence>>,
         Precedes(cur[ConsumerThread(c)], cur'[ConsumerThread(c)]),
         Precedes(acq[ConsumerThread(c)], acq'[ConsumerThread(c)]),
         NEW k \in View, k = cur'[ConsumerThread(c)],
         highest >= consumer_sequence[c] =>
           /\ Written(k, highest)
           /\ \A u \in Before(c) : k.done[ConsumerThread(u)] >= highest
  PROVE  ConsumerKnows(c)'
  <1>1. unread'[c] = Upstream(c)
    BY DEF Observed, ConsumersTypeOK
  <1>2. CASE NothingNew(c, highest)
    <2>1. cpc'[c] \in {"idle", "check"}
      BY <1>2 DEF NothingNew, ConsumersTypeOK
    <2>2. QED
      BY <1>1, <2>1, KnowsMore
  <1>3. CASE Obtained(c, highest)
    <2>1. PICK t \in AllThreads : t = ConsumerThread(c)
      BY ThreadNames
    <2>2. /\ cur[t] \in View
          /\ consumer_cursor[c] \in Int /\ NONE <= consumer_cursor[c]
          /\ consumer_sequence[c] = consumer_cursor[c] + 1
          /\ highest >= consumer_sequence[c]
      BY <1>3, <2>1
      DEF OrderTypeOK, MemoryTypeOK, ConsumersTypeOK, ConsumerInv, CursorInv, BatchInv, Obtained
    <2>3. Passed(k, c, consumer_cursor[c])
      <3>1. Passed(cur[t], c, consumer_cursor[c])
        BY <2>1 DEF ConsumerKnows
      <3>2. Precedes(cur[t], k)
        BY <2>1
      <3>3. QED
        BY <2>2, <3>1, <3>2, PassedLess
    <2>4. k.done[t] >= consumer_sequence[c] - 1
      <3>1. k.done[t] >= consumer_cursor[c]
        BY <2>1, <2>3 DEF Passed
      <3>2. QED
        BY <2>1, <2>2, <3>1 DEF View
    <2>5. PICK last \in Int : last = available'[c] /\ last <= highest
      <3>1. Limits \subseteq Nat /\ I64Max \in Nat
        BY ConsumersAssumption
      <3>2. CASE available' = [available EXCEPT ![c] = highest]
        BY <3>2 DEF ConsumersTypeOK
      <3>3. CASE \E limit \in Limits :
                   available' = [available EXCEPT ![c] =
                                   MinOf(highest, SaturatingAdd(consumer_cursor[c], limit))]
        <4>1. PICK limit \in Limits :
                available' = [available EXCEPT ![c] =
                                MinOf(highest, SaturatingAdd(consumer_cursor[c], limit))]
          BY <3>3
        <4>2. /\ MinOf(highest, SaturatingAdd(consumer_cursor[c], limit)) \in Int
              /\ MinOf(highest, SaturatingAdd(consumer_cursor[c], limit)) <= highest
          BY <2>2, <3>1 DEF MinOf, SaturatingAdd
        <4>3. available'[c] = MinOf(highest, SaturatingAdd(consumer_cursor[c], limit))
          BY <4>1 DEF ConsumersTypeOK
        <4>4. QED
          BY <4>2, <4>3
      <3>4. QED
        BY <1>3, <3>2, <3>3 DEF Obtained
    <2>6. /\ Written(k, last)
          /\ \A u \in Before(c) : k.done[ConsumerThread(u)] >= last
      <3>1. Precedes(k, k)
        BY DEF Precedes, View
      <3>2. Written(k, last)
        BY <2>2, <2>5, <3>1, WrittenLess
      <3>3. \A u \in Before(c) : k.done[ConsumerThread(u)] \in Int
        BY UpstreamFacts, ThreadNames DEF View
      <3>4. QED
        BY <2>2, <2>5, <3>2, <3>3
    <2>7. PICK behind : behind = consumer_cursor[c]
      OBVIOUS
    <2>8. Passed(k, c, behind)' /\ Written(k, last)'
      BY <2>3, <2>6, <2>7, KnownStays
    <2>9. Before(c)' = Before(c) /\ Upstream(c)' = Upstream(c)
      BY DEF Before, Upstream
    <2>10. QED
      BY <1>1, <2>1, <2>4, <2>5, <2>6, <2>7, <2>8, <2>9 DEF ConsumerKnows
  <1>4. QED
    BY <1>2, <1>3 DEF Observed

\* One load of a fold over the stage before: what is fenced at its end covers the
\* minimum.
LEMMA FoldKnown ==
  ASSUME ConsumersTypeOK, OrderTypeOK, NEW top, ConsumerInv(top), MemoryTypeOK',
         NEW c \in Consumers, ConsumerKnows(c), cpc[c] = "load",
         NEW u \in unread[c], NEW value \in Int, NEW message \in View,
         Passed(message, u, value),
         NEW minimum \in Int, minimum = MinOf(value, lowest[c]),
         UNCHANGED <<writer, consumer_cursor, consumer_sequence>>,
         Precedes(cur[ConsumerThread(c)], cur'[ConsumerThread(c)]),
         Precedes(acq[ConsumerThread(c)], acq'[ConsumerThread(c)]),
         Precedes(message, acq'[ConsumerThread(c)]),
         \/ /\ unread[c] = {u}
            /\ Observed(c, minimum)
            /\ minimum >= consumer_sequence[c] =>
                 cur'[ConsumerThread(c)] = acq'[ConsumerThread(c)]
         \/ /\ unread' = [unread EXCEPT ![c] = @ \ {u}]
            /\ lowest' = [lowest EXCEPT ![c] = minimum]
            /\ UNCHANGED <<cpc, available>>
  PROVE  ConsumerKnows(c)'
  <1>1. PICK t \in AllThreads : t = ConsumerThread(c)
    BY ThreadNames
  <1>2. PICK k \in View, m \in View : k = cur'[t] /\ m = acq'[t]
    BY DEF MemoryTypeOK
  <1>3. /\ cur[t] \in View /\ acq[t] \in View
        /\ Precedes(cur[t], k) /\ Precedes(acq[t], m) /\ Precedes(message, m)
        /\ Passed(cur[t], c, consumer_cursor[c])
        /\ consumer_cursor[c] \in Int /\ lowest[c] \in Int
        /\ minimum <= value /\ minimum <= lowest[c]
        /\ u \in Upstream(c) /\ u \in Consumers
        /\ ConsumerKnows(c)
    BY <1>1, <1>2, UpstreamFacts
    DEF OrderTypeOK, MemoryTypeOK, ConsumersTypeOK, ConsumerInv, FoldInv, ConsumerKnows, MinOf
  <1>4. \A w \in Upstream(c) \ (unread[c] \ {u}) : Passed(m, w, minimum)
    <2>1. TAKE w \in Upstream(c) \ (unread[c] \ {u})
    <2>2. w \in Consumers
      BY UpstreamFacts
    <2>3. CASE w = u
      BY <1>3, <2>3, PassedLess
    <2>4. CASE w # u
      <3>1. Passed(acq[t], w, lowest[c])
        BY <1>1, <1>3, <2>4 DEF ConsumerKnows
      <3>2. QED
        BY <1>3, <2>2, <3>1, PassedLess
    <2>5. QED
      BY <2>3, <2>4
  <1>5. CASE unread[c] = {u} /\ Observed(c, minimum)
               /\ (minimum >= consumer_sequence[c] => k = m)
    <2>1. ASSUME minimum >= consumer_sequence[c]
          PROVE  /\ Written(k, minimum)
                 /\ \A w \in Before(c) : k.done[ConsumerThread(w)] >= minimum
      <3>1. k = m
        BY <1>5, <2>1
      <3>2. \A w \in Upstream(c) : Passed(k, w, minimum)
        BY <1>4, <1>5, <3>1
      <3>3. ASSUME NEW w \in Before(c)
            PROVE  k.done[ConsumerThread(w)] >= minimum
        <4>1. w \in Upstream(c) \/ w \in Before(u)
          BY <1>3, UpstreamFacts
        <4>2. QED
          BY <1>3, <3>2, <4>1 DEF Passed
      <3>4. QED
        BY <1>3, <3>2, <3>3 DEF Passed
    <2>2. QED
      BY <1>1, <1>2, <1>3, <1>5, <2>1, BatchKnown
  <1>6. CASE /\ unread' = [unread EXCEPT ![c] = @ \ {u}]
             /\ lowest' = [lowest EXCEPT ![c] = minimum]
             /\ UNCHANGED <<cpc, available>>
    <2>1. unread'[c] = unread[c] \ {u} /\ lowest'[c] = minimum /\ cpc'[c] = "load"
      BY <1>6 DEF ConsumersTypeOK
    <2>2. Passed(k, c, consumer_cursor[c])
      BY <1>3, PassedLess
    <2>3. PICK behind : behind = consumer_cursor[c]
      OBVIOUS
    <2>4. Passed(k, c, behind)'
      BY <2>2, <2>3, KnownStays
    <2>5. \A w \in Upstream(c) \ unread'[c] : Passed(m, w, minimum)'
      BY <1>4, <2>1, KnownStays, UpstreamFacts
    <2>6. Before(c)' = Before(c) /\ Upstream(c)' = Upstream(c)
      BY DEF Before, Upstream
    <2>7. QED
      BY <1>1, <1>2, <2>1, <2>3, <2>4, <2>5, <2>6 DEF ConsumerKnows
  <1>7. QED
    BY <1>1, <1>2, <1>5, <1>6

\* What counts of a view is what it says of the threads in question.
LEMMA PassedElsewhere ==
  ASSUME OrderTypeOK, NEW c \in Consumers, NEW v, NEW w,
         \A u \in AllThreads \ {ConsumerThread(c)} : w.done[u] = v.done[u]
  PROVE  /\ \A s \in Int : Written(v, s) => Written(w, s)
         /\ \A d \in Consumers, s \in Int :
              c \notin Before(d) \cup {d} /\ Passed(v, d, s) => Passed(w, d, s)
         /\ \A u \in Before(c) : w.done[ConsumerThread(u)] = v.done[ConsumerThread(u)]
  <1>1. ASSUME NEW s \in Int, Written(v, s)
        PROVE  Written(w, s)
    <2>1. \A e \in DOMAIN writer :
            ProducerThread(writer[e]) \in AllThreads \ {ConsumerThread(c)}
      BY ThreadNames DEF OrderTypeOK
    <2>2. QED
      BY <1>1, <2>1 DEF Written
  <1>2. ASSUME NEW d \in Consumers, NEW s \in Int, c \notin Before(d) \cup {d}, Passed(v, d, s)
        PROVE  Passed(w, d, s)
    <2>1. \A u \in Before(d) \cup {d} :
            ConsumerThread(u) \in AllThreads \ {ConsumerThread(c)}
      BY <1>2, UpstreamFacts, ThreadNames
    <2>2. QED
      BY <1>1, <1>2, <2>1 DEF Passed
  <1>3. \A u \in Before(c) : w.done[ConsumerThread(u)] = v.done[ConsumerThread(u)]
    <2>1. ASSUME NEW u \in Before(c)
          PROVE  ConsumerThread(u) \in AllThreads \ {ConsumerThread(c)}
      <3>1. u \in Consumers /\ u # c
        BY ConsumersAssumption DEF Before
      <3>2. QED
        BY <3>1, ThreadNames
    <2>2. QED
      BY <2>1
  <1>4. QED
    BY <1>1, <1>2, <1>3

-----------------------------------------------------------------------------

(***************************************************************************)
(* Steps of others.                                                        *)
(***************************************************************************)

\* What nobody's step but a consumer's own changes for the consumers: a producer
\* may write an event beyond all they have been given, a handler may panic.
LEMMA ConsumersAside ==
  ASSUME ConsumersTypeOK, NEW top \in Int, ConsumerInv(top),
         CursorMessageInv, ConsumerViewInv,
         NEW p \in Int, top < p, WritesOnly(p),
         UNCHANGED <<consumer_cursor, consumer_sequence, available, unread, lowest>>,
         \A c \in Consumers :
           /\ cpc'[c] \in {"handle", "guard"} => cpc'[c] = cpc[c]
           /\ cur'[ConsumerThread(c)] = cur[ConsumerThread(c)]
           /\ acq'[ConsumerThread(c)] = acq[ConsumerThread(c)]
           /\ memory'[ConsumerCursor(c)] = memory[ConsumerCursor(c)]
  PROVE  CursorMessageInv' /\ ConsumerViewInv'
  <1>1. CursorInv(top) /\ FoldInv /\ BatchInv(top)
    BY DEF ConsumerInv
  <1>2. CursorMessageInv'
    <2> SUFFICES ASSUME NEW c \in Consumers, NEW i \in DOMAIN memory[ConsumerCursor(c)]
                 PROVE  /\ memory[ConsumerCursor(c)][i].value \in Int
                        /\ memory[ConsumerCursor(c)][i].value <= consumer_cursor[c]
                        /\ Passed(memory[ConsumerCursor(c)][i].view, c,
                                  memory[ConsumerCursor(c)][i].value)'
      BY DEF CursorMessageInv, Consumers
    <2>1. PICK n, w : /\ n = memory[ConsumerCursor(c)][i].value
                      /\ w = memory[ConsumerCursor(c)][i].view
      OBVIOUS
    <2>2. n \in Int /\ n <= consumer_cursor[c] /\ Passed(w, c, n)
      BY <2>1 DEF CursorMessageInv
    <2>3. consumer_cursor[c] <= top /\ consumer_cursor[c] \in Int
      BY <1>1 DEF CursorInv, ConsumersTypeOK
    <2>4. n < p
      BY <2>2, <2>3
    <2>5. Passed(w, c, n)'
      BY <2>2, <2>4, KnownBefore
    <2>6. memory'[ConsumerCursor(c)] = memory[ConsumerCursor(c)]
      OBVIOUS
    <2>7. QED
      BY <2>1, <2>2, <2>5, <2>6
  <1>3. ASSUME NEW c \in Consumers
        PROVE  ConsumerKnows(c)'
    <2>1. PICK k, m : /\ k = cur[ConsumerThread(c)] /\ m = acq[ConsumerThread(c)]
                      /\ k = cur'[ConsumerThread(c)] /\ m = acq'[ConsumerThread(c)]
      OBVIOUS
    <2>2. PICK behind, last, low : /\ behind = consumer_cursor[c]
                                   /\ last = available[c]
                                   /\ low = lowest[c]
      OBVIOUS
    <2>3. ConsumerKnows(c)
      BY DEF ConsumerViewInv
    <2>4. Passed(k, c, behind)'
      <3>1. behind \in Int /\ behind <= top /\ Passed(k, c, behind)
        BY <1>1, <2>1, <2>2, <2>3 DEF ConsumersTypeOK, CursorInv, ConsumerKnows
      <3>2. behind < p
        BY <3>1
      <3>3. QED
        BY <3>1, <3>2, KnownBefore
    <2>5. ASSUME NEW u \in Upstream(c) \ unread[c]
          PROVE  Passed(m, u, low)'
      <3>1. u \in Consumers
        BY UpstreamFacts
      <3>2. /\ low \in Int /\ low <= consumer_cursor[u] /\ Passed(m, u, low)
            /\ consumer_cursor[u] \in Int /\ consumer_cursor[u] <= top
        BY <1>1, <2>1, <2>2, <2>3, <3>1
        DEF ConsumersTypeOK, CursorInv, FoldInv, ConsumerKnows
      <3>3. low < p
        BY <3>2
      <3>4. QED
        BY <3>1, <3>2, <3>3, KnownBefore
    <2>6. ASSUME cpc[c] \in {"handle", "guard"}
          PROVE  Written(k, last)'
      <3>1. last \in Int /\ last <= top /\ Written(k, last)
        BY <1>1, <2>1, <2>2, <2>3, <2>6 DEF ConsumersTypeOK, BatchInv, ConsumerKnows
      <3>2. QED
        BY <3>1, KnownBefore
    <2>7. Before(c)' = Before(c) /\ Upstream(c)' = Upstream(c)
      BY DEF Before, Upstream
    <2>8. cpc'[c] \in {"handle", "guard"} => cpc'[c] = cpc[c]
      OBVIOUS
    <2>9. QED
      BY <2>1, <2>2, <2>3, <2>4, <2>5, <2>6, <2>7, <2>8 DEF ConsumerKnows
  <1>4. QED
    BY <1>2, <1>3 DEF ConsumerViewInv, Consumers

-----------------------------------------------------------------------------

(***************************************************************************)
(* Loads of a consumer.                                                    *)
(***************************************************************************)

\* A message of a cursor is never ahead of it.
LEMMA StaleCursor ==
  ASSUME MemoryTypeOK, CursorMessageInv, NEW t \in AllThreads, NEW u \in Consumers,
         NEW i \in Visible(t, ConsumerCursor(u))
  PROVE  /\ memory[ConsumerCursor(u)][i].value \in Int
         /\ memory[ConsumerCursor(u)][i].value <= consumer_cursor[u]
         /\ memory[ConsumerCursor(u)][i].view \in View
         /\ Passed(memory[ConsumerCursor(u)][i].view, u, memory[ConsumerCursor(u)][i].value)
  BY LocationNames, VisibleMessage DEF CursorMessageInv

\* What a step of c leaves to the others, and what it does not take from c.
ConsumerEffect(c) ==
  /\ \A u \in AllThreads \ {ConsumerThread(c)} : /\ cur'[u] = cur[u]
                                                /\ acq'[u] = acq[u]
                                                /\ rel'[u] = rel[u]
  /\ \A x \in AllLocations \ {ConsumerCursor(c)} :
       /\ memory'[x] = memory[x]
       /\ cur[ConsumerThread(c)].loc[x] <= cur'[ConsumerThread(c)].loc[x]
  /\ \A p \in Writers : acq[ConsumerThread(c)].done[ProducerThread(p)]
                          <= acq'[ConsumerThread(c)].done[ProducerThread(p)]

\* A load of a consumer, given what it knows afterwards.
LEMMA ConsumerLoads ==
  ASSUME ConsumerOrderInv, ConsumersTypeOK', NEW c \in Consumers,
         UNCHANGED <<memory, writer, consumer_cursor, shutdown_at_sequence>>,
         MemoryTypeOK', AcquireInv',
         \A u \in AllThreads : Below(cur[u], cur'[u]) /\ Below(acq[u], acq'[u])
                              /\ rel'[u] = rel[u],
         \A u \in AllThreads \ {ConsumerThread(c)} : cur'[u] = cur[u] /\ acq'[u] = acq[u],
         ConsumerKnows(c)',
         \A d \in Consumers \ {c} :
           /\ cpc'[d] = cpc[d] /\ consumer_sequence'[d] = consumer_sequence[d]
           /\ available'[d] = available[d]
           /\ unread'[d] = unread[d] /\ lowest'[d] = lowest[d]
  PROVE  ConsumerOrderInv' /\ ConsumerEffect(c)
  <1>1. /\ ConsumersTypeOK /\ OrderTypeOK /\ CursorMessageInv /\ ConsumerViewInv
        /\ ShutdownMessageInv
    BY DEF ConsumerOrderInv
  <1>2. OrderTypeOK'
    BY <1>1 DEF OrderTypeOK
  <1>3. CursorMessageInv' /\ ShutdownMessageInv'
    <2>1. CursorMessageInv'
      BY <1>1 DEF CursorMessageInv, Passed, Written, Before
    <2>2. NONE' = NONE
      BY DEF NONE
    <2>3. ShutdownMessageInv'
      BY <1>1, <2>2 DEF ShutdownMessageInv
    <2>4. QED
      BY <2>1, <2>3
  <1>4. ConsumerViewInv'
    <2>1. ASSUME NEW d \in Consumers, d # c
          PROVE  ConsumerKnows(d)'
      <3>1. /\ ConsumerKnows(d)
            /\ Precedes(cur[ConsumerThread(d)], cur'[ConsumerThread(d)])
            /\ Precedes(acq[ConsumerThread(d)], acq'[ConsumerThread(d)])
        BY <1>1, ThreadNames DEF ConsumerViewInv, Below
      <3>2. QED
        BY <1>1, <2>1, <3>1, KnowsMore
    <2>2. \A d \in Consumers : ConsumerKnows(d)'
      BY <2>1
    <2>3. QED
      BY <2>2 DEF ConsumerViewInv, Consumers
  <1>5. ConsumerEffect(c)
    <2>1. /\ \A x \in AllLocations :
               cur[ConsumerThread(c)].loc[x] <= cur'[ConsumerThread(c)].loc[x]
          /\ \A u \in AllThreads :
               acq[ConsumerThread(c)].done[u] <= acq'[ConsumerThread(c)].done[u]
      BY ThreadNames DEF Below, Sees, Precedes
    <2>2. QED
      BY <2>1, ThreadNames DEF ConsumerEffect
  <1>6. QED
    BY <1>2, <1>3, <1>4, <1>5 DEF ConsumerOrderInv

LEMMA LoadUpstreamOrderedInv ==
  ASSUME ConsumerOrderInv, NEW top \in Int, top <= I64Max, ConsumerInv(top),
         NEW c \in Consumers, LoadUpstreamOrdered(c),
         UNCHANGED <<shutdown_at_sequence, writer>>
  PROVE  ConsumerInv(top)' /\ ConsumerOrderInv' /\ ConsumerEffect(c)
  <1>1. PICK t \in AllThreads : t = ConsumerThread(c)
    BY ThreadNames
  <1>2. PICK u \in unread[c] : \E i \in Visible(t, ConsumerCursor(u)) :
          LET minimum == MinOf(memory[ConsumerCursor(u)][i].value, lowest[c])
              views == Loaded(ViewsOf(t), ConsumerCursor(u), i)
          IN
          \/ /\ unread[c] = {u}
             /\ Observed(c, minimum)
             /\ SetViews(t, HavingObtained(c, views, minimum))
          \/ /\ unread' = [unread EXCEPT ![c] = @ \ {u}]
             /\ lowest' = [lowest EXCEPT ![c] = minimum]
             /\ SetViews(t, views)
             /\ UNCHANGED <<cpc, available>>
    BY <1>1 DEF LoadUpstreamOrdered
  <1>3. PICK i \in Visible(t, ConsumerCursor(u)) :
          LET minimum == MinOf(memory[ConsumerCursor(u)][i].value, lowest[c])
              views == Loaded(ViewsOf(t), ConsumerCursor(u), i)
          IN
          \/ /\ unread[c] = {u}
             /\ Observed(c, minimum)
             /\ SetViews(t, HavingObtained(c, views, minimum))
          \/ /\ unread' = [unread EXCEPT ![c] = @ \ {u}]
             /\ lowest' = [lowest EXCEPT ![c] = minimum]
             /\ SetViews(t, views)
             /\ UNCHANGED <<cpc, available>>
    BY <1>2
  <1>4. /\ OrderTypeOK /\ ConsumersTypeOK /\ MemoryTypeOK /\ AcquireInv
        /\ CursorMessageInv /\ ConsumerKnows(c)
    BY DEF ConsumerOrderInv, OrderTypeOK, ConsumerViewInv
  <1>5. u \in Consumers /\ lowest[c] \in Int
    BY <1>4 DEF ConsumersTypeOK
  <1>6. PICK value \in Int, message \in View :
          /\ value = memory[ConsumerCursor(u)][i].value
          /\ message = memory[ConsumerCursor(u)][i].view
          /\ value <= consumer_cursor[u]
          /\ Passed(message, u, value)
    BY <1>4, <1>5, StaleCursor
  <1>7. PICK minimum \in Int : minimum = MinOf(value, lowest[c])
    BY <1>5 DEF MinOf
  <1>8. PICK loaded : loaded = Loaded(ViewsOf(t), ConsumerCursor(u), i)
    OBVIOUS
  <1>9. /\ cpc[c] = "load"
        /\ UNCHANGED <<consumer_cursor, consumer_sequence, memory>>
    BY DEF LoadUpstreamOrdered
  <1>10. \/ /\ unread[c] = {u}
            /\ Observed(c, minimum)
            /\ SetViews(t, HavingObtained(c, loaded, minimum))
         \/ /\ unread' = [unread EXCEPT ![c] = @ \ {u}]
            /\ lowest' = [lowest EXCEPT ![c] = minimum]
            /\ SetViews(t, loaded)
            /\ UNCHANGED <<cpc, available>>
    BY <1>3, <1>6, <1>7, <1>8
  <1>11. PICK views :
           /\ SetViews(t, views)
           /\ views = loaded \/ views = AcquireFence(loaded)
           /\ \/ /\ unread[c] = {u}
                 /\ Observed(c, minimum)
                 /\ minimum >= consumer_sequence[c] => views = AcquireFence(loaded)
              \/ /\ unread' = [unread EXCEPT ![c] = @ \ {u}]
                 /\ lowest' = [lowest EXCEPT ![c] = minimum]
                 /\ UNCHANGED <<cpc, available>>
    BY <1>10 DEF HavingObtained
  <1>12. ConsumersTypeOK'
    BY <1>4, <1>9, <1>11, FoldStepType
  <1>13. ConsumerInv(top)'
    BY <1>4, <1>6, <1>7, <1>9, <1>11, FoldStepInv
  <1>14. /\ MemoryTypeOK'
         /\ AcquireInv'
         /\ \A w \in AllThreads : /\ Below(cur[w], cur'[w]) /\ Below(acq[w], acq'[w])
                                 /\ rel'[w] = rel[w]
         /\ \A w \in AllThreads \ {t} : cur'[w] = cur[w] /\ acq'[w] = acq[w]
         /\ Below(message, acq'[t])
         /\ views = AcquireFence(loaded) => cur'[t] = acq'[t]
    BY <1>4, <1>5, <1>6, <1>8, <1>9, <1>11, LocationNames, LoadStep
  <1>15. ConsumerKnows(c)'
    <2>1. /\ Precedes(cur[t], cur'[t]) /\ Precedes(acq[t], acq'[t])
          /\ Precedes(message, acq'[t])
      BY <1>14 DEF Below
    <2>2. QED
      BY <1>1, <1>4, <1>6, <1>7, <1>9, <1>11, <1>14, <2>1, FoldKnown
  <1>16. \A d \in Consumers \ {c} :
           /\ cpc'[d] = cpc[d] /\ consumer_sequence'[d] = consumer_sequence[d]
           /\ available'[d] = available[d]
           /\ unread'[d] = unread[d] /\ lowest'[d] = lowest[d]
    BY <1>4, <1>9, <1>11 DEF Observed, Obtained, NothingNew, ConsumersTypeOK
  <1>17. QED
    BY <1>1, <1>9, <1>12, <1>13, <1>14, <1>15, <1>16, ConsumerLoads

\* Nobody waits for a sequence below zero, so nobody takes the word's first value
\* for the end.
LEMMA StaleShutdown ==
  ASSUME ConsumerOrderInv, NEW top, CursorInv(top), NEW c \in Consumers,
         NEW i \in Visible(ConsumerThread(c), ShutdownWord),
         memory[ShutdownWord][i].value = consumer_cursor[c] + 1
  PROVE  shutdown_at_sequence = consumer_cursor[c] + 1
  <1>1. i \in DOMAIN memory[ShutdownWord]
    BY ThreadNames, LocationNames, VisibleMessage DEF ConsumerOrderInv, OrderTypeOK
  <1>2. memory[ShutdownWord][i].value \in {NONE, shutdown_at_sequence}
    BY <1>1 DEF ConsumerOrderInv, ShutdownMessageInv
  <1>3. consumer_cursor[c] \in Int /\ NONE <= consumer_cursor[c]
    BY DEF ConsumerOrderInv, ConsumersTypeOK, CursorInv
  <1>4. memory[ShutdownWord][i].value # NONE
    BY <1>3 DEF NONE
  <1>5. QED
    BY <1>2, <1>4

\* A consumer that has looked at the shutdown word leaves only at the end.
LEMMA ShutdownSeenInv ==
  ASSUME ConsumersTypeOK, NEW top \in Int, ConsumerInv(top), NEW c \in Consumers,
         cpc[c] \in {"check", "idle"}, NEW next \in {"exited", "load"},
         next = "exited" => shutdown_at_sequence = consumer_cursor[c] + 1,
         cpc' = [cpc EXCEPT ![c] = next],
         consumer_sequence' = [consumer_sequence EXCEPT ![c] = consumer_cursor[c] + 1],
         UNCHANGED <<consumer_cursor, available, unread, lowest, shutdown_at_sequence>>
  PROVE  ConsumersTypeOK' /\ ConsumerInv(top)'
  <1>1. ConsumersTypeOK'
    BY DEF ConsumersTypeOK
  <1>2. CursorInv(top)' /\ FoldInv'
    BY DEF ConsumerInv, CursorInv, FoldInv, Before, Upstream
  <1>3. BatchInv(top)'
    BY DEF ConsumersTypeOK, ConsumerInv, BatchInv, Before
  <1>4. ExitInv'
    BY DEF ConsumersTypeOK, ConsumerInv, ExitInv
  <1>5. QED
    BY <1>1, <1>2, <1>3, <1>4 DEF ConsumerInv

\* What a look at the shutdown word comes to.
LEMMA ShutdownStep ==
  ASSUME ConsumerOrderInv, NEW top, ConsumerInv(top), NEW c \in Consumers,
         LoadShutdownOrdered(c) \/ PollOrdered(c)
  PROVE  /\ cpc[c] \in {"check", "idle"}
         /\ consumer_sequence' = [consumer_sequence EXCEPT ![c] = consumer_cursor[c] + 1]
         /\ UNCHANGED <<consumer_cursor, available, unread, lowest, memory>>
         /\ \E i \in Visible(ConsumerThread(c), ShutdownWord) :
              SetViews(ConsumerThread(c), Loaded(ViewsOf(ConsumerThread(c)), ShutdownWord, i))
         /\ \E next \in {"exited", "load"} :
              /\ cpc' = [cpc EXCEPT ![c] = next]
              /\ next = "exited" => shutdown_at_sequence = consumer_cursor[c] + 1
  <1>1. /\ cpc[c] \in {"check", "idle"}
        /\ consumer_sequence' = [consumer_sequence EXCEPT ![c] = consumer_cursor[c] + 1]
        /\ UNCHANGED <<consumer_cursor, available, unread, lowest, memory>>
        /\ ShutdownSeen(c, consumer_cursor[c] + 1)
    <2>1. CASE LoadShutdownOrdered(c)
      <3>1. consumer_sequence[c] = consumer_cursor[c] + 1
        BY <2>1 DEF LoadShutdownOrdered, ConsumerInv, BatchInv
      <3>2. consumer_sequence' = [consumer_sequence EXCEPT ![c] = consumer_cursor[c] + 1]
        BY <2>1, <3>1
        DEF LoadShutdownOrdered, ConsumerOrderInv, ConsumersTypeOK
      <3>3. QED
        BY <2>1, <3>1, <3>2 DEF LoadShutdownOrdered
    <2>2. CASE PollOrdered(c)
      BY <2>2 DEF PollOrdered
    <2>3. QED
      BY <2>1, <2>2
  <1>2. PICK i \in Visible(ConsumerThread(c), ShutdownWord) :
          /\ cpc' = [cpc EXCEPT ![c] =
               IF memory[ShutdownWord][i].value = consumer_cursor[c] + 1
               THEN "exited" ELSE "load"]
          /\ SetViews(ConsumerThread(c), Loaded(ViewsOf(ConsumerThread(c)), ShutdownWord, i))
    BY <1>1 DEF ShutdownSeen
  <1>3. \E next \in {"exited", "load"} :
          /\ cpc' = [cpc EXCEPT ![c] = next]
          /\ next = "exited" => shutdown_at_sequence = consumer_cursor[c] + 1
    <2>1. CASE memory[ShutdownWord][i].value = consumer_cursor[c] + 1
      BY <1>2, <2>1, StaleShutdown DEF ConsumerInv
    <2>2. CASE memory[ShutdownWord][i].value # consumer_cursor[c] + 1
      BY <1>2, <2>2
    <2>3. QED
      BY <2>1, <2>2
  <1>4. QED
    BY <1>1, <1>2, <1>3


LEMMA ShutdownLookInv ==
  ASSUME ConsumerOrderInv, NEW top \in Int, ConsumerInv(top), NEW c \in Consumers,
         LoadShutdownOrdered(c) \/ PollOrdered(c),
         UNCHANGED <<shutdown_at_sequence, writer>>
  PROVE  ConsumerInv(top)' /\ ConsumerOrderInv' /\ ConsumerEffect(c)
  <1>1. PICK t \in AllThreads : t = ConsumerThread(c)
    BY ThreadNames
  <1>2. PICK i \in Visible(t, ShutdownWord) :
          SetViews(t, Loaded(ViewsOf(t), ShutdownWord, i))
    BY <1>1, ShutdownStep
  <1>3. PICK next \in {"exited", "load"} :
          /\ cpc' = [cpc EXCEPT ![c] = next]
          /\ next = "exited" => shutdown_at_sequence = consumer_cursor[c] + 1
    BY ShutdownStep
  <1>4. /\ cpc[c] \in {"check", "idle"}
        /\ consumer_sequence' = [consumer_sequence EXCEPT ![c] = consumer_cursor[c] + 1]
        /\ UNCHANGED <<consumer_cursor, available, unread, lowest, memory>>
    BY ShutdownStep
  <1>5. /\ OrderTypeOK /\ MemoryTypeOK /\ ConsumersTypeOK /\ AcquireInv
        /\ ConsumerKnows(c)
    BY DEF ConsumerOrderInv, OrderTypeOK, ConsumerViewInv
  <1>6. ConsumersTypeOK' /\ ConsumerInv(top)'
    BY <1>3, <1>4, <1>5, ShutdownSeenInv
  <1>7. /\ MemoryTypeOK'
        /\ AcquireInv'
        /\ \A w \in AllThreads : /\ Below(cur[w], cur'[w]) /\ Below(acq[w], acq'[w])
                                /\ rel'[w] = rel[w]
        /\ \A w \in AllThreads \ {t} : cur'[w] = cur[w] /\ acq'[w] = acq[w]
    BY <1>2, <1>4, <1>5, LocationNames, LoadStep
  <1>8. /\ cpc'[c] \in {"exited", "load"}
        /\ \A d \in Consumers \ {c} :
             /\ cpc'[d] = cpc[d] /\ consumer_sequence'[d] = consumer_sequence[d]
             /\ available'[d] = available[d]
             /\ unread'[d] = unread[d] /\ lowest'[d] = lowest[d]
    BY <1>3, <1>4, <1>5 DEF ConsumersTypeOK
  <1>9. ConsumerKnows(c)'
    <2>1. Precedes(cur[t], cur'[t]) /\ Precedes(acq[t], acq'[t])
      BY <1>7 DEF Below
    <2>2. QED
      BY <1>1, <1>4, <1>5, <1>7, <1>8, <2>1, KnowsMore
  <1>10. QED
    BY <1>1, <1>4, <1>6, <1>7, <1>8, <1>9, ConsumerLoads

-----------------------------------------------------------------------------

(***************************************************************************)
(* Accesses and stores of a consumer.                                      *)
(***************************************************************************)

\* Who is not involved keeps knowing what they knew.
LEMMA BystandersKnow ==
  ASSUME ConsumerOrderInv, MemoryTypeOK', UNCHANGED writer, NEW d \in Consumers,
         cur'[ConsumerThread(d)] = cur[ConsumerThread(d)],
         acq'[ConsumerThread(d)] = acq[ConsumerThread(d)],
         consumer_cursor'[d] = consumer_cursor[d], cpc'[d] = cpc[d],
         consumer_sequence'[d] = consumer_sequence[d], available'[d] = available[d],
         unread'[d] = unread[d], lowest'[d] = lowest[d]
  PROVE  ConsumerKnows(d)'
  <1>1. ConsumersTypeOK /\ OrderTypeOK /\ MemoryTypeOK /\ ConsumerKnows(d)
    BY DEF ConsumerOrderInv, OrderTypeOK, ConsumerViewInv
  <1>2. /\ Precedes(cur[ConsumerThread(d)], cur'[ConsumerThread(d)])
        /\ Precedes(acq[ConsumerThread(d)], acq'[ConsumerThread(d)])
    BY <1>1, ThreadNames, SameDone DEF MemoryTypeOK
  <1>3. QED
    BY <1>1, <1>2, KnowsMore

\* A consumer gives its batch back: its cursor takes along what it did with it.
LEMMA GiveBackInv ==
  ASSUME ConsumerOrderInv, NEW top \in Int, ConsumerInv(top), ConsumersTypeOK',
         NEW c \in Consumers, NEW t, t = ConsumerThread(c),
         cpc[c] \in {"handle", "guard"}, NEW v \in Int, v = available[c],
         NEW views \in Triple, Below(views.cur, views.acq), views.cur.done[t] >= v,
         views.rel = rel[t], views.cur.loc = cur[t].loc,
         \A u \in AllThreads \ {t} : /\ views.cur.done[u] = cur[t].done[u]
                                     /\ views.acq.done[u] = acq[t].done[u],
         StoreAs(t, views, ConsumerCursor(c), v, "Release"),
         consumer_cursor'[c] = v, cpc'[c] \in {"load", "idle"},
         \A d \in Consumers \ {c} :
           consumer_cursor'[d] = consumer_cursor[d] /\ cpc'[d] = cpc[d],
         UNCHANGED <<shutdown_at_sequence, writer, consumer_sequence, available,
                     unread, lowest>>
  PROVE  ConsumerOrderInv' /\ ConsumerEffect(c)
  <1>1. /\ OrderTypeOK /\ ConsumersTypeOK /\ MemoryTypeOK
        /\ AcquireInv /\ CursorMessageInv /\ ShutdownMessageInv
        /\ ConsumerKnows(c)
    BY DEF ConsumerOrderInv, OrderTypeOK, ConsumerViewInv
  <1>2. t \in AllThreads /\ ConsumerCursor(c) \in AllLocations
    BY ThreadNames, LocationNames
  <1>3. /\ MemoryTypeOK'
        /\ cur'[t].done = views.cur.done
        /\ acq'[t].done = views.acq.done
        /\ rel'[t] = views.rel
        /\ \A y \in AllLocations \ {ConsumerCursor(c)} : cur'[t].loc[y] = views.cur.loc[y]
        /\ Below(cur'[t], acq'[t])
        /\ \A u \in AllThreads \ {t} : /\ cur'[u] = cur[u]
                                       /\ acq'[u] = acq[u]
                                       /\ rel'[u] = rel[u]
        /\ \A y \in AllLocations \ {ConsumerCursor(c)} : memory'[y] = memory[y]
        /\ \A i \in DOMAIN memory'[ConsumerCursor(c)] :
             \/ /\ i \in DOMAIN memory[ConsumerCursor(c)]
                /\ memory'[ConsumerCursor(c)][i] = memory[ConsumerCursor(c)][i]
             \/ /\ memory'[ConsumerCursor(c)][i].value = v
                /\ memory'[ConsumerCursor(c)][i].view.done = views.cur.done
    BY <1>1, <1>2, StoreStep
  <1>4. /\ consumer_cursor[c] <= v
        /\ consumer_cursor'[c] = v
        /\ cpc'[c] \in {"load", "idle"}
        /\ \A d \in Consumers \ {c} :
             consumer_cursor'[d] = consumer_cursor[d] /\ cpc'[d] = cpc[d]
    BY <1>1 DEF ConsumersTypeOK, ConsumerInv, BatchInv
  <1>5. ASSUME NEW w, w.done = views.cur.done
        PROVE  Passed(w, c, v)
    <2>1. \A u \in AllThreads \ {ConsumerThread(c)} : w.done[u] = cur[t].done[u]
      BY <1>5
    <2>2. /\ Written(cur[t], v)
          /\ \A u \in Before(c) : cur[t].done[ConsumerThread(u)] >= v
      BY <1>1 DEF ConsumerKnows
    <2>3. /\ Written(w, v)
          /\ \A u \in Before(c) : w.done[ConsumerThread(u)] = cur[t].done[ConsumerThread(u)]
      <3>1. PICK now : now = cur[t]
        OBVIOUS
      <3>2. /\ Written(now, v) => Written(w, v)
            /\ \A u \in Before(c) : w.done[ConsumerThread(u)] = now.done[ConsumerThread(u)]
        BY <1>1, <2>1, <3>1, PassedElsewhere
      <3>3. QED
        BY <2>2, <3>1, <3>2
    <2>4. w.done[ConsumerThread(c)] >= v
      BY <1>5
    <2>5. QED
      BY <2>2, <2>3, <2>4 DEF Passed
  <1>6. AcquireInv'
    BY <1>1, <1>2, <1>3, AcquireKept
  <1>7. CursorMessageInv'
    <2> SUFFICES ASSUME NEW d \in Consumers, NEW i \in DOMAIN memory'[ConsumerCursor(d)]
                 PROVE  /\ memory'[ConsumerCursor(d)][i].value \in Int
                        /\ memory'[ConsumerCursor(d)][i].value <= consumer_cursor'[d]
                        /\ Passed(memory[ConsumerCursor(d)][i].view, d,
                                  memory[ConsumerCursor(d)][i].value)'
      BY DEF CursorMessageInv, Consumers
    <2>1. PICK n, w : /\ n = memory'[ConsumerCursor(d)][i].value
                      /\ w = memory'[ConsumerCursor(d)][i].view
      OBVIOUS
    <2>2. CASE /\ i \in DOMAIN memory[ConsumerCursor(d)]
               /\ memory'[ConsumerCursor(d)][i] = memory[ConsumerCursor(d)][i]
      <3>1. n <= consumer_cursor[d] /\ Passed(w, d, n) /\ n \in Int
        BY <1>1, <2>1, <2>2 DEF CursorMessageInv
      <3>2. Passed(w, d, n)'
        BY <3>1, KnownStays
      <3>3. n <= consumer_cursor'[d]
        <4>1. CASE d = c
          BY <1>1, <1>4, <3>1, <4>1 DEF ConsumersTypeOK
        <4>2. CASE d # c
          BY <1>4, <3>1, <4>2
        <4>3. QED
          BY <4>1, <4>2
      <3>4. QED
        BY <2>1, <3>1, <3>2, <3>3
    <2>3. CASE d = c /\ n = v /\ w.done = views.cur.done
      <3>1. Passed(w, d, n)'
        BY <1>5, <2>3, KnownStays
      <3>2. QED
        BY <1>4, <2>1, <2>3, <3>1
    <2>4. CASE d = c
      BY <1>3, <2>1, <2>2, <2>3, <2>4
    <2>5. CASE d # c
      <3>1. memory'[ConsumerCursor(d)] = memory[ConsumerCursor(d)]
        BY <1>3, <2>5, LocationNames
      <3>2. QED
        BY <2>2, <3>1
    <2>6. QED
      BY <2>4, <2>5
  <1>8. ShutdownMessageInv'
    <2>1. memory'[ShutdownWord] = memory[ShutdownWord]
      BY <1>3, LocationNames
    <2>2. NONE' = NONE
      BY DEF NONE
    <2>3. QED
      BY <1>1, <2>1, <2>2 DEF ShutdownMessageInv
  <1>9. ConsumerKnows(c)'
    <2>1. PICK k, m : k = cur'[t] /\ m = acq'[t]
      OBVIOUS
    <2>2. Passed(k, c, v)'
      BY <1>3, <1>5, <2>1, KnownStays
    <2>3. ASSUME NEW w \in Upstream(c) \ unread[c]
          PROVE  Passed(m, w, lowest[c])
      <3>1. w \in Consumers /\ c \notin Before(w) \cup {w}
        BY ConsumersAssumption DEF Upstream, Before
      <3>2. Passed(acq[t], w, lowest[c]) /\ lowest[c] \in Int
        BY <1>1 DEF ConsumerKnows, ConsumersTypeOK
      <3>3. \A u \in AllThreads \ {ConsumerThread(c)} : m.done[u] = acq[t].done[u]
        BY <1>3, <2>1
      <3>4. QED
        BY <1>1, <3>1, <3>2, <3>3, PassedElsewhere
    <2>4. PICK low : low = lowest[c]
      OBVIOUS
    <2>5. \A w \in Upstream(c) \ unread'[c] : Passed(m, w, low)'
      BY <2>3, <2>4, KnownStays, UpstreamFacts
    <2>6. Upstream(c)' = Upstream(c)
      BY DEF Upstream
    <2>7. QED
      BY <1>4, <2>1, <2>2, <2>4, <2>5, <2>6 DEF ConsumerKnows
  <1>10. ConsumerViewInv'
    <2>1. ASSUME NEW d \in Consumers, d # c
          PROVE  ConsumerKnows(d)'
      <3>1. ConsumerThread(d) \in AllThreads \ {t}
        BY <2>1, ThreadNames
      <3>2. QED
        BY <1>3, <1>4, <2>1, <3>1, BystandersKnow
    <2>2. QED
      BY <1>9, <2>1 DEF ConsumerViewInv, Consumers
  <1>11. ConsumerEffect(c)
    <2>1. \A x \in AllLocations : cur[t].loc[x] \in Int
      BY <1>1, <1>2 DEF MemoryTypeOK, View
    <2>2. \A p \in Writers : ProducerThread(p) \in AllThreads \ {t} 
      BY ThreadNames
    <2>3. \A u \in AllThreads : acq[t].done[u] \in Int
      BY <1>1, <1>2 DEF MemoryTypeOK, View
    <2>4. \A p \in Writers : acq[t].done[ProducerThread(p)] <= acq'[t].done[ProducerThread(p)]
      BY <1>3, <2>2, <2>3
    <2>5. \A x \in AllLocations \ {ConsumerCursor(c)} : cur[t].loc[x] <= cur'[t].loc[x]
      BY <1>3, <2>1
    <2>6. QED
      BY <1>3, <2>4, <2>5 DEF ConsumerEffect
  <1>12. OrderTypeOK'
    BY <1>1, <1>3 DEF OrderTypeOK
  <1>13. QED
    BY <1>6, <1>7, <1>8, <1>10, <1>11, <1>12 DEF ConsumerOrderInv

LEMMA ReleaseOrderedInv ==
  ASSUME ConsumerOrderInv, NEW top \in Int, ConsumerInv(top), ConsumersTypeOK',
         NEW c \in Consumers, ReleaseOrdered(c),
         UNCHANGED <<shutdown_at_sequence, writer>>
  PROVE  ConsumerOrderInv' /\ ConsumerEffect(c)
  <1>1. PICK t \in AllThreads : t = ConsumerThread(c)
    BY ThreadNames
  <1>2. /\ ConsumersTypeOK /\ MemoryTypeOK /\ AcquireInv /\ ConsumerKnows(c)
        /\ ViewsOf(t) \in Triple /\ ViewsOf(t).cur = cur[t] /\ ViewsOf(t).acq = acq[t]
        /\ ViewsOf(t).rel = rel[t]
        /\ Below(cur[t], acq[t])
    BY ViewsOfType
    DEF ConsumerOrderInv, OrderTypeOK, ConsumerViewInv, AcquireInv, Below
  <1>3. /\ cpc[c] = "handle"
        /\ consumer_sequence[c] > available[c]
        /\ consumer_cursor' = [consumer_cursor EXCEPT ![c] = consumer_sequence[c] - 1]
        /\ cpc' = [cpc EXCEPT ![c] = "load"]
        /\ UNCHANGED <<consumer_sequence, available, unread, lowest>>
    BY DEF ReleaseOrdered, Release
  <1>4. PICK v \in Int : v = available[c] /\ v = consumer_sequence[c] - 1
    BY <1>2, <1>3 DEF ConsumersTypeOK, ConsumerInv, BatchInv
  <1>5. consumer_cursor'[c] = v
    BY <1>2, <1>3, <1>4 DEF ConsumersTypeOK
  <1>6. StoreAs(t, ViewsOf(t), ConsumerCursor(c), v, "Release")
    BY <1>1, <1>5 DEF ReleaseOrdered, CursorOrdering
  <1>7. ViewsOf(t).cur.done[t] >= v
    BY <1>1, <1>2, <1>3, <1>4 DEF ConsumerKnows
  <1>8. PICK views \in Triple : views = ViewsOf(t)
    BY <1>2
  <1>9. /\ cpc'[c] \in {"load", "idle"}
        /\ \A d \in Consumers \ {c} :
             consumer_cursor'[d] = consumer_cursor[d] /\ cpc'[d] = cpc[d]
    BY <1>2, <1>3 DEF ConsumersTypeOK
  <1>10. /\ Below(views.cur, views.acq) /\ views.cur.done[t] >= v
         /\ views.rel = rel[t] /\ views.cur.loc = cur[t].loc
         /\ \A u \in AllThreads \ {t} : /\ views.cur.done[u] = cur[t].done[u]
                                        /\ views.acq.done[u] = acq[t].done[u]
         /\ StoreAs(t, views, ConsumerCursor(c), v, "Release")
    BY <1>2, <1>6, <1>7, <1>8
  <1>11. cpc[c] \in {"handle", "guard"}
    BY <1>3
  <1>12. UNCHANGED <<shutdown_at_sequence, writer, consumer_sequence, available,
                     unread, lowest>>
    BY <1>3
  <1>13. views \in Triple /\ v = available[c]
    BY <1>4, <1>8
  <1>14. QED
    BY <1>1, <1>5, <1>9, <1>10, <1>11, <1>12, <1>13, GiveBackInv

\* An access keeps what an acquire fence gives.
LEMMA AccessedBelow ==
  ASSUME MemoryTypeOK, AcquireInv, NEW t \in AllThreads, NEW s \in Int
  PROVE  Below(Accessed(ViewsOf(t), t, s).cur, Accessed(ViewsOf(t), t, s).acq)
  <1>1. /\ ViewsOf(t) \in Triple /\ ViewsOf(t).cur = cur[t] /\ ViewsOf(t).acq = acq[t]
        /\ Precedes(cur[t], acq[t]) /\ Sees(cur[t], acq[t])
    BY ViewsOfType DEF AcquireInv
  <1>2. PICK views : views = Accessed(ViewsOf(t), t, s)
    OBVIOUS
  <1>3. /\ views.cur.done[t] = s /\ views.acq.done[t] = s
        /\ views.cur.loc = cur[t].loc /\ views.acq.loc = acq[t].loc
        /\ \A u \in AllThreads \ {t} : /\ views.cur.done[u] = cur[t].done[u]
                                       /\ views.acq.done[u] = acq[t].done[u]
    BY <1>1, <1>2, AccessedViews
  <1>4. Precedes(views.cur, views.acq)
    BY <1>1, <1>3 DEF Precedes
  <1>5. Sees(views.cur, views.acq)
    BY <1>1, <1>3 DEF Sees
  <1>6. QED
    BY <1>2, <1>4, <1>5 DEF Below

LEMMA GuardDropOrderedInv ==
  ASSUME ConsumerOrderInv, NEW top \in Int, ConsumerInv(top), ConsumersTypeOK',
         NEW c \in Consumers, GuardDropOrdered(c),
         UNCHANGED <<shutdown_at_sequence, writer>>
  PROVE  ConsumerOrderInv' /\ ConsumerEffect(c)
  <1>1. PICK t \in AllThreads : t = ConsumerThread(c)
    BY ThreadNames
  <1>2. /\ ConsumersTypeOK /\ MemoryTypeOK /\ AcquireInv
        /\ ViewsOf(t) \in Triple /\ ViewsOf(t).cur = cur[t] /\ ViewsOf(t).acq = acq[t]
        /\ ViewsOf(t).rel = rel[t]
    BY ViewsOfType DEF ConsumerOrderInv, OrderTypeOK
  <1>3. /\ cpc[c] = "guard"
        /\ consumer_cursor' = [consumer_cursor EXCEPT ![c] = available[c]]
        /\ cpc' = [cpc EXCEPT ![c] = "idle"]
        /\ UNCHANGED <<consumer_sequence, available, unread, lowest>>
    BY DEF GuardDropOrdered, GuardDrop
  <1>4. PICK v \in Int : v = available[c]
    BY <1>2 DEF ConsumersTypeOK
  <1>5. consumer_cursor'[c] = v
    BY <1>2, <1>3, <1>4 DEF ConsumersTypeOK
  <1>6. PICK views \in Triple :
          /\ views = Accessed(ViewsOf(t), t, v)
          /\ views.cur.done[t] = v
          /\ views.rel = rel[t] /\ views.cur.loc = cur[t].loc
          /\ \A u \in AllThreads \ {t} : /\ views.cur.done[u] = cur[t].done[u]
                                         /\ views.acq.done[u] = acq[t].done[u]
    BY <1>2, AccessedViews
  <1>7. StoreAs(t, views, ConsumerCursor(c), v, "Release")
    BY <1>1, <1>4, <1>5, <1>6 DEF GuardDropOrdered, CursorOrdering
  <1>8. Below(views.cur, views.acq) /\ views.cur.done[t] >= v
    BY <1>2, <1>6, AccessedBelow
  <1>9. /\ cpc'[c] \in {"load", "idle"}
        /\ \A d \in Consumers \ {c} :
             consumer_cursor'[d] = consumer_cursor[d] /\ cpc'[d] = cpc[d]
    BY <1>2, <1>3 DEF ConsumersTypeOK
  <1>10. cpc[c] \in {"handle", "guard"}
    BY <1>3
  <1>11. UNCHANGED <<shutdown_at_sequence, writer, consumer_sequence, available,
                     unread, lowest>>
    BY <1>3
  <1>12. /\ \A u \in AllThreads \ {t} : /\ views.cur.done[u] = cur[t].done[u]
                                        /\ views.acq.done[u] = acq[t].done[u]
         /\ views \in Triple
         /\ views.rel = rel[t] /\ views.cur.loc = cur[t].loc
    BY <1>6
  <1>13. QED
    BY <1>1, <1>4, <1>5, <1>7, <1>8, <1>9, <1>10, <1>11, <1>12, GiveBackInv

\* The handler has read its event, and has this in view from now on.
LEMMA HandleOrderedInv ==
  ASSUME ConsumerOrderInv, NEW top \in Int, ConsumerInv(top), ConsumersTypeOK',
         NEW c \in Consumers, HandleOrdered(c),
         UNCHANGED <<shutdown_at_sequence, writer>>
  PROVE  ConsumerOrderInv' /\ ConsumerEffect(c)
  <1>1. PICK t \in AllThreads : t = ConsumerThread(c)
    BY ThreadNames
  <1>2. /\ OrderTypeOK /\ ConsumersTypeOK /\ MemoryTypeOK /\ AcquireInv
        /\ CursorMessageInv /\ ShutdownMessageInv /\ ConsumerKnows(c)
        /\ ViewsOf(t) \in Triple /\ ViewsOf(t).cur = cur[t] /\ ViewsOf(t).acq = acq[t]
        /\ ViewsOf(t).rel = rel[t]
    BY ViewsOfType
    DEF ConsumerOrderInv, OrderTypeOK, ConsumerViewInv
  <1>3. /\ cpc[c] = "handle"
        /\ consumer_sequence' = [consumer_sequence EXCEPT ![c] = @ + 1]
        /\ UNCHANGED <<consumer_cursor, cpc, available, unread, lowest, memory>>
    BY DEF HandleOrdered, Handle
  <1>4. PICK s \in Int : s = consumer_sequence[c]
    BY <1>2 DEF ConsumersTypeOK
  <1>5. PICK views \in Triple :
          /\ views = Accessed(ViewsOf(t), t, s)
          /\ views.cur.done[t] = s
          /\ views.acq.done[t] = s
          /\ views.rel = rel[t]
          /\ views.cur.loc = cur[t].loc
          /\ \A u \in AllThreads \ {t} : /\ views.cur.done[u] = cur[t].done[u]
                                         /\ views.acq.done[u] = acq[t].done[u]
    BY <1>2, <1>4, AccessedViews
  <1>6. SetViews(t, views)
    BY <1>1, <1>4, <1>5 DEF HandleOrdered
  <1>7. /\ cur' \in [AllThreads -> View]
        /\ acq' \in [AllThreads -> View]
        /\ rel' \in [AllThreads -> View]
        /\ cur'[t] = views.cur
        /\ acq'[t] = views.acq
        /\ rel'[t] = views.rel
        /\ \A u \in AllThreads \ {t} : /\ cur'[u] = cur[u]
                                       /\ acq'[u] = acq[u]
                                       /\ rel'[u] = rel[u]
    BY <1>2, <1>6, SetViewsEffect
  <1>8. MemoryTypeOK'
    BY <1>2, <1>3, <1>7, SameMemory
  <1>9. AcquireInv'
    <2>1. Below(views.cur, views.acq)
      BY <1>2, <1>5, AccessedBelow
    <2>2. QED
      BY <1>2, <1>7, <2>1, AcquireKept
  <1>10. CursorMessageInv' /\ ShutdownMessageInv'
    <2>1. CursorMessageInv'
      BY <1>2, <1>3 DEF CursorMessageInv, Passed, Written, Before
    <2>2. NONE' = NONE
      BY DEF NONE
    <2>3. ShutdownMessageInv'
      BY <1>2, <1>3, <2>2 DEF ShutdownMessageInv
    <2>4. QED
      BY <2>1, <2>3
  <1>11. ConsumerKnows(c)'
    <2>1. PICK k, m : k = views.cur /\ m = views.acq
      OBVIOUS
    <2>2. PICK behind, last, low : /\ behind = consumer_cursor[c]
                                   /\ last = available[c]
                                   /\ low = lowest[c]
      OBVIOUS
    <2>3. /\ behind \in Int /\ last \in Int /\ low \in Int
          /\ behind < s
      BY <1>2, <1>3, <1>4, <2>2 DEF ConsumersTypeOK, ConsumerInv, BatchInv
    <2>4. /\ Written(k, behind) /\ Written(k, last)
          /\ \A u \in Before(c) : /\ k.done[ConsumerThread(u)] >= behind
                                  /\ k.done[ConsumerThread(u)] >= last
      <3>1. /\ Written(cur[t], behind) /\ Written(cur[t], last)
            /\ \A u \in Before(c) : /\ cur[t].done[ConsumerThread(u)] >= behind
                                    /\ cur[t].done[ConsumerThread(u)] >= last
        BY <1>1, <1>2, <1>3, <2>2 DEF ConsumerKnows, Passed
      <3>2. \A u \in AllThreads \ {ConsumerThread(c)} : k.done[u] = cur[t].done[u]
        BY <1>1, <1>5, <2>1
      <3>3. QED
        BY <1>2, <2>3, <3>1, <3>2, PassedElsewhere
    <2>5. Passed(k, c, behind)
      BY <1>1, <1>5, <2>1, <2>3, <2>4 DEF Passed
    <2>6. ASSUME NEW w \in Upstream(c) \ unread[c]
          PROVE  Passed(m, w, low)
      <3>1. w \in Consumers /\ c \notin Before(w) \cup {w}
        BY ConsumersAssumption DEF Upstream, Before
      <3>2. Passed(acq[t], w, low)
        BY <1>1, <1>2, <2>2 DEF ConsumerKnows
      <3>3. \A u \in AllThreads \ {ConsumerThread(c)} : m.done[u] = acq[t].done[u]
        BY <1>1, <1>5, <2>1
      <3>4. QED
        BY <1>2, <2>3, <3>1, <3>2, <3>3, PassedElsewhere
    <2>7. /\ Passed(k, c, behind)' /\ Written(k, last)'
          /\ \A w \in Upstream(c) \ unread[c] : Passed(m, w, low)'
      BY <2>4, <2>5, <2>6, KnownStays, UpstreamFacts
    <2>8. Before(c)' = Before(c) /\ Upstream(c)' = Upstream(c)
      BY DEF Before, Upstream
    <2>9. consumer_sequence'[c] - 1 = s /\ k.done[t] >= s
      <3>1. consumer_sequence'[c] = s + 1
        BY <1>2, <1>3, <1>4 DEF ConsumersTypeOK
      <3>2. QED
        BY <1>5, <2>1, <3>1
    <2>10. QED
      BY <1>1, <1>3, <1>7, <2>1, <2>2, <2>4, <2>7, <2>8, <2>9 DEF ConsumerKnows
  <1>12. ConsumerViewInv'
    <2>1. ASSUME NEW d \in Consumers, d # c
          PROVE  ConsumerKnows(d)'
      <3>1. ConsumerThread(d) \in AllThreads \ {t}
        BY <1>1, <2>1, ThreadNames
      <3>2. consumer_sequence'[d] = consumer_sequence[d]
        BY <1>2, <1>3, <2>1 DEF ConsumersTypeOK
      <3>3. QED
        BY <1>3, <1>7, <1>8, <3>1, <3>2, BystandersKnow
    <2>2. QED
      BY <1>11, <2>1 DEF ConsumerViewInv, Consumers
  <1>13. ConsumerEffect(c)
    <2>1. \A x \in AllLocations : cur[t].loc[x] \in Int /\ cur'[t].loc[x] = cur[t].loc[x]
      BY <1>2, <1>5, <1>7 DEF MemoryTypeOK, View
    <2>2. \A p \in Writers : ProducerThread(p) \in AllThreads \ {t}
      BY <1>1, ThreadNames
    <2>3. \A u \in AllThreads : acq[t].done[u] \in Int
      BY <1>2 DEF MemoryTypeOK, View
    <2>4. \A p \in Writers : acq[t].done[ProducerThread(p)] <= acq'[t].done[ProducerThread(p)]
      BY <1>5, <1>7, <2>2, <2>3
    <2>5. QED
      BY <1>1, <1>3, <1>7, <2>1, <2>4 DEF ConsumerEffect
  <1>14. OrderTypeOK'
    BY <1>2, <1>8 DEF OrderTypeOK
  <1>15. ConsumersTypeOK'
    OBVIOUS
  <1>16. QED
    BY <1>9, <1>10, <1>12, <1>13, <1>14, <1>15 DEF ConsumerOrderInv

\* Whatever a consumer does on its own, what is known stays known.
LEMMA ConsumerStepOrderedInv ==
  ASSUME ConsumerOrderInv, NEW top \in Int, top <= I64Max, ConsumerInv(top),
         NEW c \in Consumers, ConsumerStepOrdered(c)
  PROVE  ConsumerInv(top)' /\ ConsumerOrderInv' /\ ConsumerEffect(c)
  <1>1. UNCHANGED <<shutdown_at_sequence, writer>> /\ UNCHANGED slots
    BY DEF ConsumerStepOrdered
  <1>2. CASE LoadUpstreamOrdered(c)
    BY <1>1, <1>2, LoadUpstreamOrderedInv
  <1>3. CASE LoadShutdownOrdered(c) \/ PollOrdered(c)
    BY <1>1, <1>3, ShutdownLookInv
  <1>4. CASE HandleOrdered(c) \/ ReleaseOrdered(c) \/ GuardDropOrdered(c)
    <2>1. ConsumerStep(c)
      BY <1>1, <1>4
      DEF HandleOrdered, ReleaseOrdered, GuardDropOrdered, ConsumerStep
    <2>2. ConsumersTypeOK' /\ ConsumerInv(top)'
      BY <2>1, ConsumerStepType, ConsumerStepInv DEF ConsumerOrderInv
    <2>3. QED
      BY <1>1, <1>4, <2>2, HandleOrderedInv, ReleaseOrderedInv, GuardDropOrderedInv
  <1>5. QED
    BY <1>2, <1>3, <1>4 DEF ConsumerStepOrdered

\* No cursor is ever stored back.
LEMMA OrderedCursorsGrow ==
  ASSUME ConsumersTypeOK, NEW top \in Int, ConsumerInv(top),
         NEW c \in Consumers, ConsumerStepOrdered(c)
  PROVE  \A d \in Consumers : consumer_cursor[d] <= consumer_cursor'[d]
  <1>1. CASE LoadUpstreamOrdered(c) \/ LoadShutdownOrdered(c) \/ PollOrdered(c)
    <2>1. UNCHANGED consumer_cursor
      BY <1>1 DEF LoadUpstreamOrdered, LoadShutdownOrdered, PollOrdered
    <2>2. QED
      BY <2>1 DEF ConsumersTypeOK
  <1>2. CASE HandleOrdered(c) \/ ReleaseOrdered(c) \/ GuardDropOrdered(c)
    <2>1. ConsumerStep(c)
      BY <1>2
      DEF ConsumerStepOrdered, HandleOrdered, ReleaseOrdered, GuardDropOrdered, ConsumerStep
    <2>2. QED
      BY <2>1, CursorsGrow
  <1>3. QED
    BY <1>1, <1>2 DEF ConsumerStepOrdered

-----------------------------------------------------------------------------

\* Before anything has happened, nobody has to know of anything.
LEMMA InitOrder ==
  ASSUME InitConsumers, NEW value, InitMemory(value), writer = <<>>,
         value[ShutdownWord] = NONE, \A c \in Consumers : value[ConsumerCursor(c)] = NONE
  PROVE  /\ ConsumerOrderInv
         /\ FirstView \in View
         /\ \A t \in AllThreads : FirstView.done[t] = -1
         /\ \A x \in AllLocations : FirstView.loc[x] = 1
         /\ \A x \in AllLocations : memory[x] = <<[value |-> value[x], view |-> FirstView]>>
         /\ \A t \in AllThreads : cur[t] = FirstView /\ acq[t] = FirstView /\ rel[t] = FirstView
         /\ \A s : Written(FirstView, s)
         /\ \A c \in Consumers : Passed(FirstView, c, NONE)
  <1>1. DOMAIN writer = {}
    OBVIOUS
  <1>2. PICK first \in View : /\ first = FirstView
                              /\ \A t \in AllThreads : first.done[t] = -1
                              /\ \A x \in AllLocations : first.loc[x] = 1
    <2>1. /\ [x \in AllLocations |-> 1] \in [AllLocations -> Nat \ {0}]
          /\ [t \in AllThreads |-> -1] \in [AllThreads -> Int]
      OBVIOUS
    <2>2. FirstView \in View
      BY <2>1 DEF FirstView, View
    <2>3. /\ \A t \in AllThreads : FirstView.done[t] = -1
          /\ \A x \in AllLocations : FirstView.loc[x] = 1
      BY DEF FirstView
    <2>4. QED
      BY <2>2, <2>3
  <1>3. /\ cur = [t \in AllThreads |-> first]
        /\ acq = [t \in AllThreads |-> first]
        /\ rel = [t \in AllThreads |-> first]
        /\ memory = [x \in AllLocations |-> <<[value |-> value[x], view |-> first]>>]
    BY <1>2 DEF InitMemory
  <1>4. OrderTypeOK
    <2>1. ASSUME NEW x \in AllLocations
          PROVE  memory[x] # <<>> /\ memory[x] \in Seq(MessagesAt(x))
      <3>1. memory[x] = <<[value |-> value[x], view |-> first]>>
        BY <1>3
      <3>2. value[x] \in {memory[x][i].value : i \in DOMAIN memory[x]}
        BY <3>1
      <3>3. [value |-> value[x], view |-> first] \in MessagesAt(x)
        BY <3>2 DEF MessagesAt
      <3>4. QED
        BY <3>1, <3>3
    <2>2. memory = [x \in AllLocations |-> memory[x]]
      BY <1>3
    <2>3. MemoryTypeOK
      BY <1>3, <2>1, <2>2 DEF MemoryTypeOK
    <2>4. QED
      BY <1>1, <2>3 DEF OrderTypeOK
  <1>5. \A s : Written(first, s)
    BY <1>1 DEF Written
  <1>6. \A c \in Consumers : Passed(first, c, NONE)
    <2>1. \A c \in Consumers : \A u \in Before(c) \cup {c} : ConsumerThread(u) \in AllThreads
      BY UpstreamFacts, ThreadNames
    <2>2. QED
      BY <1>2, <1>5, <2>1 DEF Passed, NONE
  <1>7. \A x \in AllLocations : \A i \in DOMAIN memory[x] :
          memory[x][i].value = value[x] /\ memory[x][i].view = first
    BY <1>3
  <1>8. /\ consumer_cursor = [c \in Consumers |-> NONE]
        /\ unread = [c \in Consumers |-> Upstream(c)]
        /\ \A c \in Consumers : cpc[c] \in {"idle", "load"}
    BY DEF InitConsumers
  <1>9. CursorMessageInv
    BY <1>6, <1>7, <1>8, LocationNames DEF CursorMessageInv, NONE
  <1>10. ConsumerViewInv
    BY <1>3, <1>6, <1>8, ThreadNames DEF ConsumerViewInv, ConsumerKnows
  <1>11. AcquireInv
    BY <1>2, <1>3 DEF AcquireInv, Precedes, Sees
  <1>12. ShutdownMessageInv
    BY <1>7, LocationNames DEF ShutdownMessageInv
  <1>13. ConsumerOrderInv
    BY <1>4, <1>9, <1>10, <1>11, <1>12, InitConsumersType DEF ConsumerOrderInv
  <1>14. QED
    BY <1>2, <1>3, <1>5, <1>6, <1>13
=============================================================================
