--------------------- MODULE CollectionsExclusionProofs ---------------------
(***************************************************************************)
(* Exclusive access to what a collection holds, and to the parameter of    *)
(* its works, for every collection and all programs.                       *)
(*                                                                         *)
(* The argument is that of ExclusionProofs, for one datum at a time.  It   *)
(* is told of what the uses of a datum are known by once aliases are       *)
(* resolved (Face): what the backend goes by.  A capture, a release and an *)
(* alias are then changes to a set of faces, and the first part of this    *)
(* module says that they keep the generations apart, without a word about  *)
(* contexts, tasks or elements.                                            *)
(***************************************************************************)
EXTENDS CollectionsProofs

(***************************************************************************)
(* Faces and their generations                                             *)
(***************************************************************************)
\* A face has permissions, an input, an output, the generation it belongs to
\* (level), the one that its output begins (next), and the generation in which
\* it is counted by the backend.
MayWrite(v) == "write" \in v.scheduling
Writes(v)   == "write" \in v.immediate
Touches(v)  == v.immediate # None
Yields(v)   == v.out # NoFlow
HasNext(v)  == v.next # NoFlow

\* Nobody is still to produce the input of a face.
Ready(faces, v) == \A p \in faces : Yields(p) => p.out # v.in

Shaped(faces) ==
  \A v \in faces :
    /\ v.in # NoFlow
    /\ v.level # NoFlow
    /\ Yields(v) <=> MayWrite(v) \/ Writes(v)
    /\ ~Writes(v) => v.counted = v.level

OutputsApart(faces) ==
  \A v, w \in faces : Yields(v) /\ Yields(w) /\ v.out = w.out => v = w

\* What runs and may touch the datum has its input.
InputsReady(faces, running) == \A v \in running : Touches(v) => Ready(faces, v)

\* Nothing that a running writer had to wait for is left.
WritersAlone(faces, running) ==
  \A v \in running : \A w \in faces : v # w /\ Writes(v) => w.counted # v.level

\* Faces whose input is there are of one generation, and at most one of them
\* has an output.
ReadyTogether(faces) ==
  \A v, w \in faces : Ready(faces, v) /\ Ready(faces, w) => v.level = w.level

OneReadyProducer(faces) ==
  \A v, w \in faces :
    Yields(v) /\ Yields(w) /\ Ready(faces, v) /\ Ready(faces, w) => v = w

\* So it is for faces with the same input, be it there or not.
SameInput(faces) ==
  \A v, w \in faces :
    v.in = w.in => v.level = w.level /\ (Yields(v) /\ Yields(w) => v = w)

\* What takes as input the output of a face that may schedule writers is of the
\* next generation of that face.
NextGeneration(faces) ==
  \A v, w \in faces :
    MayWrite(v) => (w.in = v.out <=> HasNext(v) /\ w.level = v.next)

NextGenerationsDiffer(faces) ==
  \A v, w \in faces :
    MayWrite(v) /\ MayWrite(w) /\ HasNext(v) /\ v.next = w.next => v = w

\* Outputs are in an order, in which a face's output comes after its input.
Outputs(faces) == {v.out : v \in {v \in faces : Yields(v)}}

Order(before) ==
  /\ \A f : <<f, f>> \notin before
  /\ \A f, g, h : <<f, g>> \in before /\ <<g, h>> \in before => <<f, h>> \in before

InputsFollow(faces, before) ==
  \A v, w \in faces : Yields(v) /\ Yields(w) /\ w.in = v.out => <<v.out, w.out>> \in before

InputsOrdered(faces) ==
  \E before \in SUBSET (Outputs(faces) \X Outputs(faces)) :
    Order(before) /\ InputsFollow(faces, before)

Apart(faces, running) ==
  /\ running \subseteq faces
  /\ Shaped(faces)
  /\ OutputsApart(faces)
  /\ InputsReady(faces, running)
  /\ WritersAlone(faces, running)
  /\ ReadyTogether(faces)
  /\ OneReadyProducer(faces)
  /\ SameInput(faces)
  /\ NextGeneration(faces)
  /\ NextGenerationsDiffer(faces)
  /\ InputsOrdered(faces)

\* No face is known by a flow.
UnseenBy(faces, f) ==
  f # NoFlow /\ \A v \in faces : f \notin {v.in, v.out, v.level, v.next, v.counted}

\* No producer waits for itself.
LEMMA NoneOwnInput ==
  ASSUME NEW faces, NEW running, Apart(faces, running), NEW v \in faces, Yields(v)
  PROVE  v.out # v.in
BY DEF Apart, InputsOrdered, InputsFollow, Order

\* Next to a running writer, nothing else has its input.
LEMMA NothingElseReady ==
  ASSUME NEW faces, NEW running, Apart(faces, running),
         NEW v \in running, Writes(v),
         NEW w \in faces, Ready(faces, w)
  PROVE  w = v
<1>1. v \in faces /\ Yields(v)
  BY DEF Apart, Shaped
<1>2. Ready(faces, v)
  BY DEF Apart, InputsReady, Writes, Touches, None
<1>3. CASE Writes(w)
  BY <1>1, <1>2, <1>3 DEF Apart, Shaped, OneReadyProducer
<1>4. CASE ~Writes(w)
  <2>1. w.counted = w.level
    BY <1>4 DEF Apart, Shaped
  <2>2. w.level = v.level
    BY <1>1, <1>2 DEF Apart, ReadyTogether
  <2> QED
    BY <2>1, <2>2 DEF Apart, WritersAlone
<1> QED
  BY <1>3, <1>4

(***************************************************************************)
(* What keeps the generations apart                                        *)
(***************************************************************************)
\* A reader with the input and of the generation of a face that does not write.
IsReaderOf(v, n) ==
  /\ ~MayWrite(n) /\ ~Writes(n) /\ ~Yields(n)
  /\ n.in = v.in
  /\ n.level = v.level
  /\ n.counted = v.level

\* One more reader of what something that does not write reads.
LEMMA ReaderJoins ==
  ASSUME NEW faces, NEW running, Apart(faces, running),
         NEW v \in faces, ~Writes(v), NEW n, IsReaderOf(v, n)
  PROVE  Apart(faces \cup {n}, running)
<1> DEFINE now == faces \cup {n}
<1> USE DEF IsReaderOf
<1>1. /\ \A w \in faces : Ready(now, w) <=> Ready(faces, w)
      /\ Ready(now, n) <=> Ready(faces, v)
  BY DEF Ready
<1>2. running \subseteq now
  BY DEF Apart
<1>3. Shaped(now)
  BY DEF Apart, Shaped
<1>4. OutputsApart(now)
  BY DEF Apart, OutputsApart
<1>5. InputsReady(now, running)
  BY <1>1 DEF Apart, InputsReady
<1>6. WritersAlone(now, running)
  <2> SUFFICES ASSUME NEW r \in running, Writes(r) PROVE n.counted # r.level
    BY DEF Apart, WritersAlone
  <2>1. v.counted = v.level
    BY DEF Apart, Shaped
  <2> QED
    BY <2>1 DEF Apart, WritersAlone
<1>7. ReadyTogether(now)
  BY <1>1 DEF Apart, ReadyTogether
<1>8. OneReadyProducer(now)
  BY <1>1 DEF Apart, OneReadyProducer
<1>9. SameInput(now)
  BY DEF Apart, SameInput
<1>10. NextGeneration(now)
  BY DEF Apart, NextGeneration
<1>11. NextGenerationsDiffer(now)
  BY DEF Apart, NextGenerationsDiffer
<1>12. InputsOrdered(now)
  <2>1. Outputs(now) = Outputs(faces)
    BY DEF Outputs
  <2>2. \A before : InputsFollow(faces, before) => InputsFollow(now, before)
    BY DEF InputsFollow
  <2> QED
    BY <2>1, <2>2 DEF Apart, InputsOrdered
<1> QED
  BY <1>2, <1>3, <1>4, <1>5, <1>6, <1>7, <1>8, <1>9, <1>10, <1>11, <1>12 DEF Apart

\* What comes to run has its input, if it may touch the datum, and nothing it has
\* to wait for is left.
LEMMA MoreRun ==
  ASSUME NEW faces, NEW running, Apart(faces, running),
         NEW more, running \subseteq more, more \subseteq faces,
         \A v \in more \ running :
           /\ Touches(v) => Ready(faces, v)
           /\ Writes(v) => \A w \in faces \ {v} : w.counted # v.level
  PROVE  Apart(faces, more)
<1>1. InputsReady(faces, more)
  BY DEF Apart, InputsReady
<1>2. WritersAlone(faces, more)
  BY DEF Apart, WritersAlone
<1> QED
  BY <1>1, <1>2 DEF Apart

\* A face goes that has no output, or a running one whose output is produced.
LEMMA FaceGoes ==
  ASSUME NEW faces, NEW running, Apart(faces, running),
         NEW s \in faces, Yields(s) => s \in running /\ Writes(s),
         NEW left, left \subseteq faces, faces \ left \subseteq {s},
         NEW still, still \subseteq running, still \subseteq left
  PROVE  Apart(left, still)
<1>1. \A v \in left : Ready(faces, v) => Ready(left, v)
  BY DEF Ready
<1>2. \A v \in left : Ready(left, v) =>
        Ready(faces, v) \/ (Yields(s) /\ s \in running /\ Writes(s) /\ s.out = v.in)
  BY DEF Ready
<1>3. CASE left = faces
  <2>1. InputsReady(faces, still)
    BY DEF Apart, InputsReady
  <2>2. WritersAlone(faces, still)
    BY DEF Apart, WritersAlone
  <2> QED
    BY <1>3, <2>1, <2>2 DEF Apart
<1>4. CASE s \notin left
  <2>1. \A v \in left : Ready(faces, v) => ~(s \in running /\ Writes(s))
    BY <1>4, NothingElseReady
  <2>2. Shaped(left)
    BY DEF Apart, Shaped
  <2>3. OutputsApart(left)
    BY DEF Apart, OutputsApart
  <2>4. InputsReady(left, still)
    BY <1>1 DEF Apart, InputsReady
  <2>5. WritersAlone(left, still)
    BY DEF Apart, WritersAlone
  <2>6. ASSUME NEW v \in left, NEW w \in left, Ready(left, v), Ready(left, w)
        PROVE  v.level = w.level /\ (Yields(v) /\ Yields(w) => v = w)
    <3>1. CASE Ready(faces, v) /\ Ready(faces, w)
      BY <3>1 DEF Apart, ReadyTogether, OneReadyProducer
    <3>2. CASE ~Ready(faces, v) /\ ~Ready(faces, w)
      <4>1. v.in = w.in
        BY <1>2, <2>6, <3>2
      <4> QED
        BY <4>1 DEF Apart, SameInput
    <3>3. CASE Ready(faces, v) /\ ~Ready(faces, w)
      BY <1>2, <2>1, <2>6, <3>3
    <3>4. CASE ~Ready(faces, v) /\ Ready(faces, w)
      BY <1>2, <2>1, <2>6, <3>4
    <3> QED
      BY <3>1, <3>2, <3>3, <3>4
  <2>7. ReadyTogether(left)
    BY <2>6 DEF ReadyTogether
  <2>8. OneReadyProducer(left)
    BY <2>6 DEF OneReadyProducer
  <2>9. SameInput(left)
    BY DEF Apart, SameInput
  <2>10. NextGeneration(left)
    BY DEF Apart, NextGeneration
  <2>11. NextGenerationsDiffer(left)
    BY DEF Apart, NextGenerationsDiffer
  <2>12. InputsOrdered(left)
    <3>1. PICK before \in SUBSET (Outputs(faces) \X Outputs(faces)) :
            Order(before) /\ InputsFollow(faces, before)
      BY DEF Apart, InputsOrdered
    <3> DEFINE after == before \cap (Outputs(left) \X Outputs(left))
    <3>2. Order(after)
      BY <3>1 DEF Order
    <3>3. InputsFollow(left, after)
      <4>1. \A v \in left : Yields(v) => v.out \in Outputs(left)
        BY DEF Outputs
      <4> QED
        BY <3>1, <4>1 DEF InputsFollow
    <3> QED
      BY <3>2, <3>3 DEF InputsOrdered
  <2> QED
    BY <2>2, <2>3, <2>4, <2>5, <2>7, <2>8, <2>9, <2>10, <2>11, <2>12 DEF Apart
<1> QED
  BY <1>3, <1>4

\* What faces become when the output of one is released as another name of its
\* input, and what it begins as another name of its generation.
AfterAlias(s, v) ==
  LET level(f) == IF HasNext(s) /\ f = s.next THEN s.level ELSE f
  IN  [in         |-> IF v.in = s.out THEN s.in ELSE v.in,
       out        |-> v.out,
       level      |-> level(v.level),
       next       |-> level(v.next),
       counted    |-> level(v.counted),
       scheduling |-> v.scheduling,
       immediate  |-> v.immediate]

\* A release as an alias: the next generation becomes that of the face, and takes
\* its place among those whose input is there, or among those it waits with.
LEMMA FaceRenames ==
  ASSUME NEW faces, NEW running, Apart(faces, running),
         NEW s \in running, MayWrite(s), ~Writes(s),
         NEW left, left = {AfterAlias(s, v) : v \in faces \ {s}},
         NEW still, still = {AfterAlias(s, v) : v \in running \ {s}}
  PROVE  Apart(left, still)
<1> DEFINE after(v) == AfterAlias(s, v)
           level(f) == IF HasNext(s) /\ f = s.next THEN s.level ELSE f
<1>1. /\ s \in faces /\ Yields(s)
      /\ running \subseteq faces
      /\ s.counted = s.level
      /\ s.in # NoFlow /\ s.level # NoFlow
  BY DEF Apart, Shaped
<1>2. ASSUME NEW v
      PROVE  /\ after(v).in = IF v.in = s.out THEN s.in ELSE v.in
             /\ after(v).out = v.out
             /\ after(v).level = level(v.level)
             /\ after(v).next = level(v.next)
             /\ after(v).counted = level(v.counted)
             /\ MayWrite(after(v)) <=> MayWrite(v)
             /\ Writes(after(v)) <=> Writes(v)
             /\ Touches(after(v)) <=> Touches(v)
             /\ Yields(after(v)) <=> Yields(v)
  BY DEF AfterAlias, MayWrite, Writes, Touches, Yields
<1>3. \A v : HasNext(after(v)) <=> HasNext(v)
  BY <1>1 DEF AfterAlias, HasNext
<1> HIDE DEF after
<1>4. /\ \A v \in left : \E w \in faces \ {s} : v = after(w)
      /\ \A v \in still : \E w \in running \ {s} : v = after(w)
      /\ \A w \in faces \ {s} : after(w) \in left
      /\ \A w \in running \ {s} : after(w) \in still
  BY DEF after
<1>5. s.out # s.in
  BY <1>1, NoneOwnInput
<1>6. \A v \in faces \ {s} : Yields(v) => v.out # s.out
  BY <1>1 DEF Apart, OutputsApart
<1>7. ASSUME NEW v \in faces \ {s}
      PROVE  Ready(left, after(v)) <=> IF v.in = s.out THEN Ready(faces, s) ELSE Ready(faces, v)
  <2>1. Ready(left, after(v)) <=>
          \A p \in faces \ {s} : Yields(p) => p.out # after(v).in
    <3>1. ASSUME Ready(left, after(v)), NEW p \in faces \ {s}, Yields(p)
          PROVE  p.out # after(v).in
      <4>1. after(p) \in left /\ Yields(after(p)) /\ after(p).out = p.out
        BY <1>2, <1>4, <3>1
      <4> QED
        BY <3>1, <4>1 DEF Ready
    <3>2. ASSUME \A p \in faces \ {s} : Yields(p) => p.out # after(v).in,
                 NEW q \in left, Yields(q)
          PROVE  q.out # after(v).in
      <4>1. PICK p \in faces \ {s} : q = after(p)
        BY <1>4
      <4>2. Yields(p) /\ q.out = p.out
        BY <1>2, <3>2, <4>1
      <4> QED
        BY <3>2, <4>2
    <3> QED
      BY <3>1, <3>2 DEF Ready
  <2>2. CASE v.in = s.out
    <3>1. after(v).in = s.in
      BY <1>2, <2>2
    <3> QED
      BY <1>5, <2>1, <2>2, <3>1 DEF Ready
  <2>3. CASE v.in # s.out
    <3>1. after(v).in = v.in
      BY <1>2, <2>3
    <3> QED
      BY <2>1, <2>3, <3>1 DEF Ready
  <2> QED
    BY <2>2, <2>3
<1>8. \A v \in faces : Ready(faces, v) => v.in # s.out
  BY <1>1 DEF Ready
<1>9. \A v \in faces : v.in = s.out <=> HasNext(s) /\ v.level = s.next
  BY <1>1 DEF Apart, NextGeneration
<1>10. \A v \in faces \ {s} : Ready(faces, s) /\ Ready(faces, v) =>
         v.level = s.level /\ ~Yields(v)
  BY <1>1 DEF Apart, ReadyTogether, OneReadyProducer
<1>11. \A v \in faces \ {s} : v.in = s.in => v.level = s.level /\ ~Yields(v)
  BY <1>1 DEF Apart, SameInput
<1>12. \A v, w \in faces \ {s} : v.in = s.out /\ w.level = s.level =>
         level(v.level) = level(w.level)
  BY <1>9
<1>14. \A v \in faces \ {s} : MayWrite(v) /\ HasNext(v) => level(v.next) = v.next
  BY <1>1 DEF Apart, NextGenerationsDiffer
<1> HIDE DEF level
<1>15. still \subseteq left
  BY <1>1, <1>4
<1>16. Shaped(left)
  <2> SUFFICES ASSUME NEW v \in faces \ {s}
               PROVE  /\ after(v).in # NoFlow
                      /\ after(v).level # NoFlow
                      /\ Yields(after(v)) <=> MayWrite(after(v)) \/ Writes(after(v))
                      /\ ~Writes(after(v)) => after(v).counted = after(v).level
    BY <1>4 DEF Shaped
  <2>1. /\ v.in # NoFlow
        /\ v.level # NoFlow
        /\ Yields(v) <=> MayWrite(v) \/ Writes(v)
        /\ ~Writes(v) => v.counted = v.level
    BY DEF Apart, Shaped
  <2>2. level(v.level) # NoFlow
    BY <1>1, <2>1 DEF level
  <2> QED
    BY <1>1, <1>2, <2>1, <2>2
<1>17. OutputsApart(left)
  <2> SUFFICES ASSUME NEW a \in left, NEW b \in left, Yields(a), Yields(b), a.out = b.out
               PROVE  a = b
    BY DEF OutputsApart
  <2>1. PICK v \in faces \ {s} : a = after(v)
    BY <1>4
  <2>2. PICK w \in faces \ {s} : b = after(w)
    BY <1>4
  <2>3. Yields(v) /\ Yields(w) /\ v.out = w.out
    BY <1>2, <2>1, <2>2
  <2> QED
    BY <2>1, <2>2, <2>3 DEF Apart, OutputsApart
<1>18. InputsReady(left, still)
  <2> SUFFICES ASSUME NEW a \in still, Touches(a) PROVE Ready(left, a)
    BY DEF InputsReady
  <2>1. PICK v \in running \ {s} : a = after(v)
    BY <1>4
  <2>2. Touches(v)
    BY <1>2, <2>1
  <2>3. Ready(faces, v)
    BY <2>2 DEF Apart, InputsReady
  <2> QED
    BY <1>1, <1>7, <1>8, <2>1, <2>3
<1>19. WritersAlone(left, still)
  <2> SUFFICES ASSUME NEW a \in still, NEW b \in left, a # b, Writes(a)
               PROVE  b.counted # a.level
    BY DEF WritersAlone
  <2>6. PICK v \in running \ {s} : a = after(v)
    BY <1>4
  <2>7. PICK w \in faces \ {s} : b = after(w)
    BY <1>4
  <2>8. v # w /\ Writes(v)
    BY <1>2, <2>6, <2>7
  <2>1. Ready(faces, v) /\ v \in faces
    BY <1>1, <2>8 DEF Apart, InputsReady, Writes, Touches, None
  <2>2. ~(HasNext(s) /\ v.level = s.next)
    BY <1>8, <1>9, <2>1
  <2>3. after(v).level = v.level
    BY <1>2, <2>2 DEF level
  <2>4. w.counted # v.level /\ s.level # v.level
    BY <1>1, <2>8 DEF Apart, WritersAlone
  <2>5. after(w).counted \in {w.counted, s.level}
    BY <1>2 DEF level
  <2> QED
    BY <2>3, <2>4, <2>5, <2>6, <2>7
<1>20. ASSUME NEW v \in faces \ {s}, NEW w \in faces \ {s},
              Ready(left, after(v)), Ready(left, after(w))
       PROVE  level(v.level) = level(w.level) /\ (Yields(v) /\ Yields(w) => v = w)
  <2>1. CASE v.in # s.out /\ w.in # s.out
    <3>1. Ready(faces, v) /\ Ready(faces, w)
      BY <1>7, <1>20, <2>1
    <3> QED
      BY <3>1 DEF Apart, ReadyTogether, OneReadyProducer
  <2>2. CASE v.in = s.out /\ w.in = s.out
    BY <2>2 DEF Apart, SameInput
  <2>3. CASE v.in = s.out /\ w.in # s.out
    <3>1. Ready(faces, s) /\ Ready(faces, w)
      BY <1>7, <1>20, <2>3
    <3> QED
      BY <1>10, <1>12, <2>3, <3>1
  <2>4. CASE v.in # s.out /\ w.in = s.out
    <3>1. Ready(faces, s) /\ Ready(faces, v)
      BY <1>7, <1>20, <2>4
    <3> QED
      BY <1>10, <1>12, <2>4, <3>1
  <2> QED
    BY <2>1, <2>2, <2>3, <2>4
<1>27. ASSUME NEW a \in left, NEW b \in left, Ready(left, a), Ready(left, b)
       PROVE  a.level = b.level /\ (Yields(a) /\ Yields(b) => a = b)
  <2>1. PICK v \in faces \ {s} : a = after(v)
    BY <1>4
  <2>2. PICK w \in faces \ {s} : b = after(w)
    BY <1>4
  <2>3. level(v.level) = level(w.level) /\ (Yields(v) /\ Yields(w) => v = w)
    BY <1>20, <1>27, <2>1, <2>2
  <2> QED
    BY <1>2, <2>1, <2>2, <2>3
<1>21. ReadyTogether(left)
  BY <1>27 DEF ReadyTogether
<1>22. OneReadyProducer(left)
  BY <1>27 DEF OneReadyProducer
<1>23. SameInput(left)
  <2> SUFFICES ASSUME NEW a \in left, NEW b \in left, a.in = b.in
               PROVE  a.level = b.level /\ (Yields(a) /\ Yields(b) => a = b)
    BY DEF SameInput
  <2>4. PICK v \in faces \ {s} : a = after(v)
    BY <1>4
  <2>5. PICK w \in faces \ {s} : b = after(w)
    BY <1>4
  <2> SUFFICES level(v.level) = level(w.level) /\ (Yields(v) /\ Yields(w) => v = w)
    BY <1>2, <2>4, <2>5
  <2>1. CASE v.in = w.in
    BY <2>1 DEF Apart, SameInput
  <2>2. CASE v.in = s.out /\ w.in = s.in
    BY <1>11, <1>12, <2>2
  <2>3. CASE w.in = s.out /\ v.in = s.in
    BY <1>11, <1>12, <2>3
  <2>6. after(v).in = after(w).in
    BY <2>4, <2>5
  <2> QED
    BY <1>2, <2>1, <2>2, <2>3, <2>6
<1>24. NextGeneration(left)
  <2> SUFFICES ASSUME NEW a \in left, NEW b \in left, MayWrite(a)
               PROVE  b.in = a.out <=> HasNext(a) /\ b.level = a.next
    BY DEF NextGeneration
  <2>6. PICK v \in faces \ {s} : a = after(v)
    BY <1>4
  <2>7. PICK w \in faces \ {s} : b = after(w)
    BY <1>4
  <2>8. MayWrite(v)
    BY <1>2, <2>6
  <2> SUFFICES after(w).in = v.out <=> HasNext(v) /\ level(w.level) = level(v.next)
    BY <1>2, <1>3, <2>6, <2>7
  <2>1. /\ w.in = v.out <=> HasNext(v) /\ w.level = v.next
        /\ s.in = v.out <=> HasNext(v) /\ s.level = v.next
    BY <1>1, <2>8 DEF Apart, NextGeneration
  <2>2. Yields(v) /\ v.out # s.out
    BY <1>6, <2>8 DEF Apart, Shaped
  <2>3. HasNext(v) => level(v.next) = v.next
    BY <1>14, <2>8
  <2>4. CASE w.in = s.out
    <3>1. level(w.level) = s.level /\ after(w).in = s.in
      BY <1>2, <1>9, <2>4 DEF level
    <3> QED
      BY <2>1, <2>3, <3>1
  <2>5. CASE w.in # s.out
    <3>1. level(w.level) = w.level /\ after(w).in = w.in
      BY <1>2, <1>9, <2>5 DEF level
    <3> QED
      BY <2>1, <2>3, <3>1
  <2> QED
    BY <2>4, <2>5
<1>25. NextGenerationsDiffer(left)
  <2> SUFFICES ASSUME NEW a \in left, NEW b \in left, MayWrite(a), MayWrite(b),
                      HasNext(a), a.next = b.next
               PROVE  a = b
    BY DEF NextGenerationsDiffer
  <2>1. PICK v \in faces \ {s} : a = after(v)
    BY <1>4
  <2>2. PICK w \in faces \ {s} : b = after(w)
    BY <1>4
  <2>3. MayWrite(v) /\ MayWrite(w) /\ HasNext(v) /\ HasNext(w)
    <3>1. HasNext(b)
      BY DEF HasNext
    <3> QED
      BY <1>2, <1>3, <2>1, <2>2, <3>1
  <2>4. v.next = w.next
    BY <1>2, <1>14, <2>1, <2>2, <2>3
  <2> QED
    BY <2>1, <2>2, <2>3, <2>4 DEF Apart, NextGenerationsDiffer
<1>26. InputsOrdered(left)
  <2>1. PICK before \in SUBSET (Outputs(faces) \X Outputs(faces)) :
          Order(before) /\ InputsFollow(faces, before)
    BY DEF Apart, InputsOrdered
  <2> DEFINE now == before \cap (Outputs(left) \X Outputs(left))
  <2>2. Order(now)
    BY <2>1 DEF Order
  <2>3. ASSUME NEW v \in faces \ {s}, NEW w \in faces \ {s}, Yields(v), Yields(w),
               after(w).in = v.out
        PROVE  <<v.out, w.out>> \in now
    <3>1. <<v.out, w.out>> \in before
      <4>1. CASE w.in = s.out
        <5>1. s.in = v.out
          BY <1>2, <2>3, <4>1
        <5>2. <<s.out, w.out>> \in before /\ <<v.out, s.out>> \in before
          BY <1>1, <2>1, <2>3, <4>1, <5>1 DEF InputsFollow
        <5> QED
          BY <2>1, <5>2 DEF Order
      <4>2. CASE w.in # s.out
        BY <1>2, <2>1, <2>3, <4>2 DEF InputsFollow
      <4> QED
        BY <4>1, <4>2
    <3>2. ASSUME NEW u \in faces \ {s}, Yields(u) PROVE u.out \in Outputs(left)
      <4>1. after(u) \in left /\ Yields(after(u)) /\ after(u).out = u.out
        BY <1>2, <1>4, <3>2
      <4> QED
        BY <4>1 DEF Outputs
    <3>3. v.out \in Outputs(left) /\ w.out \in Outputs(left)
      BY <2>3, <3>2
    <3> QED
      BY <3>1, <3>3
  <2>4. InputsFollow(left, now)
    <3> SUFFICES ASSUME NEW v \in left, NEW w \in left, Yields(v), Yields(w), w.in = v.out
                 PROVE  <<v.out, w.out>> \in now
      BY DEF InputsFollow
    <3>1. PICK x \in faces \ {s} : v = after(x)
      BY <1>4
    <3>2. PICK y \in faces \ {s} : w = after(y)
      BY <1>4
    <3> QED
      BY <1>2, <2>3, <3>1, <3>2
  <2>5. now \in SUBSET (Outputs(left) \X Outputs(left))
    OBVIOUS
  <2> QED
    BY <2>2, <2>4, <2>5 DEF InputsOrdered
<1> QED
  BY <1>15, <1>16, <1>17, <1>18, <1>19, <1>21, <1>22, <1>23, <1>24, <1>25, <1>26 DEF Apart

\* What a running face is replaced by when it captures with a continuation: n, of
\* its generation unless the face writes, and then of one of its own, and rest,
\* which goes on to what the face would have gone on to.  Either rest is what
\* follows n, or both only read what the face has written.
Succeeds(faces, s, n, rest) ==
  /\ Yields(n) <=> MayWrite(n) \/ Writes(n)
  /\ Yields(n) => UnseenBy(faces, n.out)
  /\ n.in # n.out
  /\ \/ n.in = s.in /\ ~Writes(s)
     \/ UnseenBy(faces, n.in) /\ Touches(s)
  /\ IF Writes(s) THEN UnseenBy(faces, n.level) ELSE n.level = s.level
  /\ n.counted \in {n.level, NoFlow} \/ UnseenBy(faces, n.counted)
  /\ ~Writes(n) => n.counted = n.level
  /\ MayWrite(n) => UnseenBy(faces, n.next) /\ n.next # n.level
  /\ rest.out = s.out
  /\ rest.next = s.next
  /\ MayWrite(rest)
  /\ ~Writes(rest)
  /\ rest.counted = rest.level
  /\ UnseenBy(faces, rest.level)
  /\ \/ /\ Yields(n)
        /\ rest.in = n.out
        /\ ~Touches(rest)
        /\ MayWrite(n) => HasNext(n) /\ rest.level = n.next
     \/ /\ ~Yields(n)
        /\ Writes(s)
        /\ UnseenBy(faces, n.in)
        /\ rest.in = n.in
        /\ rest.level = n.level

\* A capture that makes a producer, and what continues with its output, keep the
\* generations apart.
LEMMA FaceContinues ==
  ASSUME NEW faces, NEW running, Apart(faces, running),
         NEW s \in running, MayWrite(s),
         NEW n, NEW rest, Succeeds(faces, s, n, rest)
  PROVE  Apart((faces \ {s}) \cup {n, rest}, (running \ {s}) \cup {rest})
<1> DEFINE others == faces \ {s}
           now    == others \cup {n, rest}
           still  == (running \ {s}) \cup {rest}
<1>1. /\ s \in faces /\ Yields(s)
      /\ running \subseteq faces
      /\ s.in # NoFlow /\ s.level # NoFlow
      /\ s.out # s.in
  <2>1. s \in faces /\ Yields(s)
    BY DEF Apart, Shaped
  <2> QED
    BY <2>1, NoneOwnInput DEF Apart, Shaped
<1>2. \A v \in others : Yields(v) => v.out # s.out
  BY <1>1 DEF Apart, OutputsApart
<1>3. rest.level # s.next
  BY <1>1 DEF Succeeds, UnseenBy
<1>4. rest.in # NoFlow /\ rest.in # s.out /\ rest.in # s.in
  BY <1>1 DEF Succeeds, UnseenBy
<1>5. Yields(rest) /\ \A v \in others : v.in # rest.in /\ (Yields(v) => v.out # rest.in)
  BY <1>1 DEF Succeeds, UnseenBy, Yields
<1>6. Writes(s) => Touches(s)
  BY DEF Writes, Touches, None
<1>7. Touches(s) => Ready(faces, s)
  BY DEF Apart, InputsReady
<1>8. \A v \in others : Ready(now, v) <=> Ready(faces, v)
  <2>1. \A v \in others : Yields(n) => n.out # v.in
    BY DEF Succeeds, UnseenBy
  <2>2. rest.out = s.out
    BY DEF Succeeds
  <2> QED
    BY <1>1, <1>5, <2>1, <2>2 DEF Ready
<1>9. Ready(now, n) <=> Ready(faces, s)
  <2>1. rest.out = s.out /\ n.in # n.out
    BY DEF Succeeds
  <2>2. CASE n.in = s.in
    BY <1>1, <1>5, <2>1, <2>2 DEF Ready
  <2>3. CASE UnseenBy(faces, n.in) /\ Touches(s)
    BY <1>1, <1>7, <2>1, <2>3 DEF Ready, UnseenBy
  <2> QED
    BY <2>2, <2>3 DEF Succeeds
<1>10. /\ Yields(n) => ~Ready(now, rest)
       /\ ~Yields(n) => Ready(now, rest)
  <2>1. CASE Yields(n)
    <3>1. rest.in = n.out
      BY <2>1 DEF Succeeds
    <3> QED
      BY <2>1, <3>1 DEF Ready
  <2>2. CASE ~Yields(n)
    <3>1. rest.out = s.out
      BY DEF Succeeds
    <3> QED
      BY <1>4, <1>5, <2>2, <3>1 DEF Ready
  <2> QED
    BY <2>1, <2>2
<1>11. Writes(s) => \A v \in others : ~Ready(faces, v)
  BY NothingElseReady
<1>12. still \subseteq now
  BY <1>1
<1>13. Shaped(now)
  <2>1. n.in # NoFlow /\ n.level # NoFlow
    BY <1>1 DEF Succeeds, UnseenBy
  <2>2. rest.level # NoFlow
    BY DEF Succeeds, UnseenBy
  <2>3. Shaped(others)
    BY DEF Apart, Shaped
  <2> QED
    BY <1>4, <1>5, <2>1, <2>2, <2>3 DEF Shaped, Succeeds
<1>14. OutputsApart(now)
  <2>1. Yields(n) => n.out # s.out /\ \A v \in others : v.out # n.out
    BY <1>1 DEF Succeeds, UnseenBy
  <2>2. rest.out = s.out
    BY DEF Succeeds
  <2> QED
    BY <1>2, <2>1, <2>2 DEF Apart, OutputsApart
<1>15. InputsReady(now, still)
  <2>1. \A v \in running \ {s} : Touches(v) => Ready(now, v)
    BY <1>1, <1>8 DEF Apart, InputsReady
  <2>2. Touches(rest) => Ready(now, rest)
    BY <1>10 DEF Succeeds
  <2> QED
    BY <2>1, <2>2 DEF InputsReady
<1>16. WritersAlone(now, still)
  <2> SUFFICES ASSUME NEW r \in running \ {s}, Writes(r), NEW w \in now, r # w
               PROVE  w.counted # r.level
    BY DEF WritersAlone, Succeeds
  <2>1. r \in faces /\ r.level # NoFlow
    BY <1>1 DEF Apart, Shaped
  <2>2. CASE w \in faces
    BY <2>2 DEF Apart, WritersAlone
  <2>3. CASE w = rest
    BY <2>1, <2>3 DEF Succeeds, UnseenBy
  <2>4. CASE w = n
    <3>1. ~Writes(s) => s.level # r.level
      <4>1. ~Writes(s) => s.counted = s.level
        BY <1>1 DEF Apart, Shaped
      <4> QED
        BY <1>1, <4>1 DEF Apart, WritersAlone
    <3>2. n.level # r.level
      BY <2>1, <3>1 DEF Succeeds, UnseenBy
    <3> QED
      BY <2>1, <2>4, <3>2 DEF Succeeds, UnseenBy
  <2> QED
    BY <2>2, <2>3, <2>4
<1>17. \A v \in others : Ready(faces, v) /\ Ready(faces, s) =>
         n.level = v.level /\ ~Yields(v) /\ ~Writes(s)
  BY <1>1, <1>11 DEF Apart, ReadyTogether, OneReadyProducer, Succeeds
<1>18. ~Yields(n) => Writes(s) /\ rest.level = n.level
  BY DEF Succeeds
<1>19. \A v \in others : ~(Ready(now, v) /\ Ready(now, rest))
  BY <1>8, <1>10, <1>11, <1>18
<1>20. ReadyTogether(now)
  <2>1. \A v, w \in others : Ready(now, v) /\ Ready(now, w) => v.level = w.level
    BY <1>8 DEF Apart, ReadyTogether
  <2>2. \A v \in others : Ready(now, v) /\ Ready(now, n) => v.level = n.level
    BY <1>8, <1>9, <1>17
  <2>3. Ready(now, n) /\ Ready(now, rest) => n.level = rest.level
    BY <1>10, <1>18
  <2> QED
    BY <1>19, <2>1, <2>2, <2>3 DEF ReadyTogether
<1>21. OneReadyProducer(now)
  <2>1. \A v, w \in others : Yields(v) /\ Yields(w) /\ Ready(now, v) /\ Ready(now, w) => v = w
    BY <1>8 DEF Apart, OneReadyProducer
  <2>2. \A v \in others : ~(Yields(v) /\ Yields(n) /\ Ready(now, v) /\ Ready(now, n))
    BY <1>8, <1>9, <1>17
  <2>3. ~(Yields(n) /\ Ready(now, rest))
    BY <1>10
  <2> QED
    BY <1>19, <2>1, <2>2, <2>3 DEF OneReadyProducer
<1>22. SameInput(now)
  <2>1. \A v, w \in others : v.in = w.in => v.level = w.level /\ (Yields(v) /\ Yields(w) => v = w)
    BY DEF Apart, SameInput
  <2>2. \A v \in others : v.in = n.in => v.level = n.level /\ ~Yields(v)
    BY <1>1 DEF Apart, SameInput, Succeeds, UnseenBy
  <2>3. n.in = rest.in => n.level = rest.level /\ ~Yields(n)
    BY DEF Succeeds
  <2> QED
    BY <1>5, <2>1, <2>2, <2>3 DEF SameInput
<1>23. NextGeneration(now)
  <2>1. ASSUME NEW v \in others, MayWrite(v)
        PROVE  \A w \in now : w.in = v.out <=> HasNext(v) /\ w.level = v.next
    <3>1. /\ \A w \in faces : w.in = v.out <=> HasNext(v) /\ w.level = v.next
          /\ Yields(v)
      BY <2>1 DEF Apart, NextGeneration, Shaped
    <3>2. rest.in # v.out /\ rest.level # v.next
      BY <1>5, <3>1 DEF Succeeds, UnseenBy
    <3>3. n.in = v.out <=> HasNext(v) /\ n.level = v.next
      <4>1. CASE n.in = s.in /\ ~Writes(s)
        BY <1>1, <3>1, <4>1 DEF Succeeds
      <4>2. CASE UnseenBy(faces, n.in) /\ Touches(s)
        <5>1. n.in # v.out
          BY <4>2 DEF UnseenBy
        <5>2. s.in # v.out
          BY <1>7, <3>1, <4>2 DEF Ready
        <5>3. ~(HasNext(v) /\ s.level = v.next)
          BY <1>1, <3>1, <5>2
        <5>4. n.level = s.level \/ n.level # v.next
          BY DEF Succeeds, UnseenBy
        <5> QED
          BY <5>1, <5>3, <5>4
      <4> QED
        BY <4>1, <4>2 DEF Succeeds
    <3> QED
      BY <3>1, <3>2, <3>3
  <2>2. \A w \in now : w.in = rest.out <=> HasNext(rest) /\ w.level = rest.next
    <3>1. \A w \in faces : w.in = s.out <=> HasNext(s) /\ w.level = s.next
      BY <1>1 DEF Apart, NextGeneration
    <3>2. rest.out = s.out /\ rest.next = s.next /\ (HasNext(rest) <=> HasNext(s))
      BY DEF Succeeds, HasNext
    <3>3. n.in # s.out
      BY <1>1 DEF Succeeds, UnseenBy
    <3>4. ~(HasNext(s) /\ n.level = s.next)
      BY <1>1, <3>1 DEF Succeeds, UnseenBy
    <3> QED
      BY <1>3, <1>4, <3>1, <3>2, <3>3, <3>4
  <2>3. ASSUME MayWrite(n)
        PROVE  \A w \in now : w.in = n.out <=> HasNext(n) /\ w.level = n.next
    <3>1. Yields(n) /\ HasNext(n) /\ rest.in = n.out /\ rest.level = n.next
      BY <2>3 DEF Succeeds
    <3>2. n.in # n.out /\ n.level # n.next
      BY <2>3 DEF Succeeds
    <3>3. \A w \in others : w.in # n.out /\ w.level # n.next
      BY <2>3, <3>1 DEF Succeeds, UnseenBy
    <3> QED
      BY <3>1, <3>2, <3>3
  <2> QED
    BY <2>1, <2>2, <2>3 DEF NextGeneration
<1>24. NextGenerationsDiffer(now)
  <2>1. \A v, w \in faces : MayWrite(v) /\ MayWrite(w) /\ HasNext(v) /\ v.next = w.next => v = w
    BY DEF Apart, NextGenerationsDiffer
  <2>2. rest.next = s.next /\ (HasNext(rest) <=> HasNext(s))
    BY DEF Succeeds, HasNext
  <2>3. MayWrite(n) => \A v \in faces : v.next # n.next
    BY DEF Succeeds, UnseenBy
  <2> QED
    BY <1>1, <2>1, <2>2, <2>3 DEF NextGenerationsDiffer, HasNext
<1>25. InputsOrdered(now)
  <2>1. PICK before \in SUBSET (Outputs(faces) \X Outputs(faces)) :
          Order(before) /\ InputsFollow(faces, before)
    BY DEF Apart, InputsOrdered
  <2>2. rest.out = s.out
    BY DEF Succeeds
  <2>3. \A v \in faces : Yields(v) => v.out \in Outputs(now)
    <3>1. ASSUME NEW v \in faces, Yields(v) PROVE v.out \in Outputs(now)
      <4>1. CASE v = s
        BY <1>5, <2>2, <4>1 DEF Outputs
      <4>2. CASE v # s
        BY <3>1, <4>2 DEF Outputs
      <4> QED
        BY <4>1, <4>2
    <3> QED
      BY <3>1
  <2>4. Outputs(faces) \subseteq Outputs(now)
    BY <2>3 DEF Outputs
  <2>5. s.out \in Outputs(faces)
    BY <1>1 DEF Outputs
  <2>6. \A v, w \in others : Yields(v) /\ Yields(w) /\ w.in = v.out => <<v.out, w.out>> \in before
    BY <2>1 DEF InputsFollow
  <2>7. \A v \in others : Yields(v) /\ s.in = v.out => <<v.out, s.out>> \in before
    BY <1>1, <2>1 DEF InputsFollow
  <2>8. \A v \in others : Yields(v) /\ v.in = s.out => <<s.out, v.out>> \in before
    BY <1>1, <2>1 DEF InputsFollow
  <2>9. CASE ~Yields(n)
    <3>1. InputsFollow(now, before)
      BY <1>4, <1>5, <2>2, <2>6, <2>8, <2>9 DEF InputsFollow
    <3> QED
      BY <2>1, <2>4, <3>1 DEF InputsOrdered
  <2>10. CASE Yields(n)
    <3> DEFINE o == n.out
               earlier == {f \in Outputs(faces) : <<f, s.out>> \in before}
               later == {f \in Outputs(faces) : f = s.out \/ <<s.out, f>> \in before}
               after == before \cup (earlier \X {o}) \cup ({o} \X later)
    <3>1. o \notin Outputs(faces) /\ o # s.out
      BY <1>1, <2>10 DEF Succeeds, UnseenBy, Outputs
    <3>2. \A f, g : <<f, g>> \in before => f \in Outputs(faces) /\ g \in Outputs(faces)
      OBVIOUS
    <3>3. \A f, g : <<f, g>> \in after <=>
            \/ <<f, g>> \in before
            \/ g = o /\ <<f, s.out>> \in before
            \/ f = o /\ (g = s.out \/ <<s.out, g>> \in before)
      BY <2>5, <3>2
    <3>4. Order(before)
      BY <2>1
    <3>5. o \in Outputs(now)
      BY <2>10 DEF Outputs
    <3>6. after \in SUBSET (Outputs(now) \X Outputs(now))
      <4>1. before \in SUBSET (Outputs(now) \X Outputs(now))
        BY <2>4
      <4>2. \A f \in Outputs(faces) : f \in Outputs(now)
        BY <2>4
      <4> HIDE DEF now
      <4> QED
        BY <2>5, <3>5, <4>1, <4>2
    <3> HIDE DEF after, o
    <3>7. Order(after)
      <4>1. \A f : <<f, f>> \notin after
        BY <3>1, <3>2, <3>3, <3>4 DEF Order
      <4>2. ASSUME NEW f, NEW g, NEW h, <<f, g>> \in after, <<g, h>> \in after
            PROVE  <<f, h>> \in after
        <5>1. \A i, j, k : <<i, j>> \in before /\ <<j, k>> \in before => <<i, k>> \in before
          BY <3>4 DEF Order
        <5>2. \A i : <<i, o>> \notin before /\ <<o, i>> \notin before
          BY <3>1, <3>2
        <5>3. CASE g = o
          BY <3>1, <3>3, <4>2, <5>1, <5>2, <5>3
        <5>4. \A i : <<i, i>> \notin before
          BY <3>4 DEF Order
        <5>5. CASE g # o /\ f # o
          BY <3>1, <3>3, <4>2, <5>1, <5>2, <5>5
        <5>6. CASE g # o /\ f = o
          <6>1. g = s.out \/ <<s.out, g>> \in before
            BY <3>2, <3>3, <4>2, <5>2, <5>6
          <6>2. <<g, h>> \in before
            BY <3>3, <4>2, <5>1, <5>4, <5>6, <6>1
          <6>3. h = o \/ <<s.out, h>> \in before
            BY <5>1, <6>1, <6>2
          <6> QED
            BY <3>3, <5>2, <5>6, <6>2, <6>3
        <5> QED
          BY <5>3, <5>5, <5>6
      <4> QED
        BY <4>1, <4>2 DEF Order
    <3>8. n.in = s.in \/ \A v \in others : v.out # n.in
      BY DEF Succeeds, UnseenBy
    <3>9. rest.in = o /\ n.in # o /\ n.in # s.out /\ \A v \in others : v.in # o
      BY <1>1, <2>10 DEF Succeeds, UnseenBy, o
    <3>10. InputsFollow(now, after)
      <4> SUFFICES ASSUME NEW v \in now, NEW w \in now, Yields(v), Yields(w), w.in = v.out
                   PROVE  <<v.out, w.out>> \in after
        BY DEF InputsFollow
      <4>1. CASE w = rest
        <5>1. v.out = o
          BY <3>9, <4>1
        <5> QED
          BY <2>2, <3>3, <4>1, <5>1
      <4>2. CASE w = n
        <5>1. v \in others
          BY <2>2, <3>9, <4>2 DEF o
        <5>2. s.in = v.out
          BY <3>8, <4>2, <5>1
        <5> QED
          BY <2>7, <3>3, <4>2, <5>1, <5>2 DEF o
      <4>3. CASE w \in others
        <5>1. v # n
          BY <3>9, <4>3 DEF o
        <5>2. CASE v = rest
          BY <2>2, <2>8, <3>3, <4>3, <5>2
        <5>3. CASE v \in others
          BY <2>6, <3>3, <4>3, <5>3
        <5> QED
          BY <5>1, <5>2, <5>3
      <4> QED
        BY <4>1, <4>2, <4>3
    <3> QED
      BY <3>6, <3>7, <3>10 DEF InputsOrdered
  <2> QED
    BY <2>9, <2>10
<1> QED
  BY <1>12, <1>13, <1>14, <1>15, <1>16, <1>20, <1>21, <1>22, <1>23, <1>24, <1>25 DEF Apart

(***************************************************************************)
(* Uses and captures                                                       *)
(***************************************************************************)
\* What a use is known by to the backend.
FaceOf(a, u) ==
  LET writes == "write" \in u.immediate
  IN  [in         |-> Representative(a, u.in),
       out        |-> Representative(a, u.out),
       level      |-> Representative(a, LevelOf(Backend, u, writes)),
       next       |-> IF "write" \in u.scheduling
                      THEN Representative(a, NextOf(Backend, u, writes)) ELSE NoFlow,
       counted    |-> Representative(a, CountedOf(Backend, u)),
       scheduling |-> u.scheduling,
       immediate  |-> u.immediate]

FacesOf(a, uses) == {FaceOf(a, u.use) : u \in uses}

\* A reader of the source's input joins it.
Reads(s, n) ==
  /\ "write" \notin s.immediate
  /\ "write" \notin n.scheduling \cup n.immediate
  /\ n.in = s.in
  /\ n.out = NoFlow
  /\ LevelOf(Backend, n, FALSE) = LevelOf(Backend, s, FALSE)

\* CapturedFrom and ContinuedFrom, whatever the flows are that are made.
CapturedWith(s, n, fresh) ==
  LET writes == "write" \in s.immediate
      level  == LevelOf(Backend, n, "write" \in n.immediate)
  IN  /\ n.out = IF "write" \in n.scheduling \cup n.immediate THEN fresh["out"] ELSE NoFlow
      /\ \/ /\ n.in = s.in
            /\ ~writes
            /\ level = LevelOf(Backend, s, writes)
         \/ /\ n.in = fresh["in"]
            /\ s.immediate # None
            /\ level = IF writes
                         THEN fresh[LevelOf(Backend, CapturedPlaces, "write" \in n.immediate)]
                         ELSE LevelOf(Backend, s, writes)
      /\ CountedOf(Backend, n) \in {level, NoFlow, fresh[CountedOf(Backend, CapturedPlaces)]}
      /\ "write" \notin n.immediate => CountedOf(Backend, n) = level
      /\ "write" \in n.scheduling =>
           NextOf(Backend, n, "write" \in n.immediate)
             = fresh[NextOf(Backend, CapturedPlaces, "write" \in n.immediate)]

ContinuedWith(s, n, rest, fresh) ==
  LET level == LevelOf(Backend, rest, FALSE)
      next  == NextOf(Backend, n, "write" \in n.immediate)
  IN  /\ rest.out = s.out
      /\ NextOf(Backend, rest, FALSE) = NextOf(Backend, s, "write" \in s.immediate)
      /\ rest.scheduling = Modify
      /\ \/ /\ n.out = fresh["out"]
            /\ rest.in = n.out
            /\ rest.immediate = None
            /\ \/ /\ level = next
                  /\ level = fresh[NextOf(Backend, CapturedPlaces, "write" \in n.immediate)]
               \/ /\ level = fresh[LevelOf(Backend, ContinuingPlaces, FALSE)]
                  /\ "write" \notin n.scheduling
         \/ /\ Backend = "flows"
            /\ n.in = fresh["in"]
            /\ rest.in = n.in
            /\ rest.immediate = Read
            /\ "write" \in s.immediate
            /\ "write" \notin n.scheduling \cup n.immediate

\* What a capture from a use s makes, and leaves of it.
Takes(s, n, rest, fresh) ==
  \/ Reads(s, n) /\ rest = s
  \/ /\ "write" \in s.scheduling
     /\ CapturedWith(s, n, fresh)
     /\ ContinuedWith(s, n, rest, fresh)

\* The flows made for an owner, and their parts for an element.
MadeFor(owner)         == [place \in FlowPlaces |-> Flow(owner, place)]
PartsMadeFor(owner, e) == [place \in FlowPlaces |-> Indexed(Flow(owner, place), e)]

\* A capture is by a case that is enough for the backend.
Suffices(holders, from, request) ==
  Served(holders, from, request) =>
    CaseFor[<<PermissionsOf(holders[from].use), request>>] \in SufficientCases(Backend)

\* So it is for everything that running contexts go on to capture.
CapturesSuffice ==
  \A c \in Contexts : status[c] = "running" /\ HasOperation(c) =>
    /\ Suffices(collections, c, RequestOfWhole(c))
    /\ \A d \in DOMAIN RequestsOf(c) : Suffices(handles, <<c, d>>, RequestsOf(c)[d])

\* A capture by a case that suffices for the backend.
LEMMA OutcomeTakes ==
  ASSUME NEW source, NEW request, NEW owner,
         <<PermissionsOf(source.use), request>> \in DOMAIN CaseFor,
         CaseFor[<<PermissionsOf(source.use), request>>] \in SufficientCases(Backend)
  PROVE  LET outcome == OutcomeOf(source, request, owner)
         IN  Takes(source.use, outcome.captured.use, outcome.source.use, MadeFor(owner))
<1> DEFINE outcome == OutcomeOf(source, request, owner)
           case == CaseFor[<<PermissionsOf(source.use), request>>]
           s == source.use
           n == outcome.captured.use
           rest == outcome.source.use
           fresh == MadeFor(owner)
<1>1. /\ case \in CaptureCases
      /\ Matches(case, "Sequential", PermissionsOf(s), request)
  BY CaseServes
<1>2. /\ Generations(Backend, case)
      /\ ServesInShape(case)
  BY <1>1, CaseGenerations, CaseInShape, BackendAssumption
<1>3. /\ CapturesInGeneration(Backend, case, PermissionsOf(s), request)
      /\ case.needs_new_continuation_use =>
           ContinuesGenerations(Backend, case, PermissionsOf(s), request)
      /\ PermissionsOf(s) \in FrontEndPairs
      /\ request \in FrontEndPairs
      /\ case.needs_new_continuation_use => "write" \in s.scheduling
  BY <1>1, <1>2 DEF Generations, ServesInShape, PermissionsOf, Perms
<1>4. outcome = Outcome(case, source, CapturedUse(case, source, request, owner), owner)
  BY OutcomeIs
<1> HIDE DEF case
<1>12. /\ outcome.captured = Holder(CapturedUse(case, source, request, owner), case.could_be_alias)
       /\ outcome.source =
            IF case.needs_new_continuation_use
            THEN Holder(MakeUse(case.continuation,
                                RegisteredFlows(case.continuing,
                                                FlowsOfCapture(s, CapturedUse(case, source, request, owner)),
                                                owner, ContinuingPlaces),
                                FALSE),
                        TRUE)
            ELSE source
  BY <1>4 DEF Outcome
<1> HIDE DEF outcome
<1>5. /\ n = CapturedUse(case, source, request, owner)
      /\ n = MakeUse(request, RegisteredFlows(case.captured, FlowsOfSource(s), owner, CapturedPlaces),
                     FALSE)
      /\ case.needs_new_continuation_use =>
           rest = MakeUse(case.continuation,
                          RegisteredFlows(case.continuing, FlowsOfCapture(s, n), owner, ContinuingPlaces),
                          FALSE)
      /\ ~case.needs_new_continuation_use => rest = s
  <2>1. n = CapturedUse(case, source, request, owner)
    BY <1>12 DEF Holder
  <2>2. case.needs_new_continuation_use =>
           rest = MakeUse(case.continuation,
                          RegisteredFlows(case.continuing,
                                          FlowsOfCapture(s, CapturedUse(case, source, request, owner)),
                                          owner, ContinuingPlaces),
                          FALSE)
    BY <1>12 DEF Holder
  <2>3. ~case.needs_new_continuation_use => rest = s
    BY <1>12
  <2>4. CapturedUse(case, source, request, owner)
          = MakeUse(request, RegisteredFlows(case.captured, FlowsOfSource(s), owner, CapturedPlaces),
                    FALSE)
    BY DEF CapturedUse
  <2> HIDE DEF n, rest, s
  <2> QED
    BY <2>1, <2>2, <2>3, <2>4
<1>6. /\ AsRegistered(n, case.captured, FlowsOfSource(s), owner)
      /\ n.scheduling = request.scheduling
      /\ n.immediate = request.immediate
  BY <1>5 DEF AsRegistered, MakeUse, RegisteredFlows, UseFlows, CapturedPlaces
<1>7. CapturedFrom(Backend, s, n, owner)
  <2>1. CapturesInGeneration(Backend, case, s, request)
    BY <1>3 DEF CapturesInGeneration, PermissionsOf, Perms
  <2> QED
    BY <1>3, <1>6, <2>1, EstablishedCaptures
<1>8. fresh["in"] = Flow(owner, "in") /\ fresh["out"] = Flow(owner, "out")
  BY PlacesMade DEF MadeFor
<1> DEFINE nw == "write" \in n.immediate
<1>9. /\ fresh[LevelOf(Backend, CapturedPlaces, nw)] = Flow(owner, LevelOf(Backend, CapturedPlaces, nw))
      /\ fresh[NextOf(Backend, CapturedPlaces, nw)] = Flow(owner, NextOf(Backend, CapturedPlaces, nw))
      /\ fresh[CountedOf(Backend, CapturedPlaces)] = Flow(owner, CountedOf(Backend, CapturedPlaces))
      /\ fresh[LevelOf(Backend, ContinuingPlaces, FALSE)]
           = Flow(owner, LevelOf(Backend, ContinuingPlaces, FALSE))
  <2>1. nw \in BOOLEAN
    OBVIOUS
  <2> HIDE DEF nw
  <2> QED
    BY <2>1, PlacesMade DEF MadeFor
<1> HIDE DEF fresh
<1>10. ASSUME case.needs_new_continuation_use PROVE Takes(s, n, rest, fresh)
  <2>1. ContinuesGenerations(Backend, case, s, n)
    BY <1>3, <1>6, <1>10 DEF ContinuesGenerations, PermissionsOf, Perms
  <2>2. ContinuedFrom(Backend, s, n, rest, owner)
    <3> HIDE DEF s, n, rest
    <3> QED
      BY <1>5, <1>6, <1>10, <2>1, EstablishedContinues
  <2>3. CapturedWith(s, n, fresh)
    <3> HIDE DEF s, n, rest
    <3> QED
      BY <1>7, <1>8, <1>9 DEF CapturedFrom, CapturedWith
  <2>4. ContinuedWith(s, n, rest, fresh)
    <3> HIDE DEF s, n, rest
    <3> QED
      BY <2>2, <1>8, <1>9 DEF ContinuedFrom, ContinuedWith
  <2> HIDE DEF s, n, rest, fresh
  <2>5. "write" \in s.scheduling
    BY <1>3, <1>10
  <2> QED
    BY <2>3, <2>4, <2>5 DEF Takes
<1>11. ASSUME ~case.needs_new_continuation_use PROVE Takes(s, n, rest, fresh)
  <2>1. /\ "write" \notin request.scheduling \cup request.immediate
        /\ case.captured.in = Same("source_in")
        /\ case.captured.out.description = "Insignificant"
        /\ "write" \notin s.immediate
        /\ LevelOf(Backend, case.captured, FALSE) = Same(LevelOf(Backend, SourceFlows, FALSE))
    <3>1. "write" \notin request.scheduling \cup request.immediate
      BY <1>3, <1>11 DEF CapturesInGeneration
    <3>2. case.captured.in = Same("source_in")
      BY <1>3, <1>11 DEF CapturesInGeneration
    <3>3. "write" \notin s.immediate
      BY <1>3, <1>11 DEF CapturesInGeneration, PermissionsOf, Perms
    <3>4. LevelOf(Backend, case.captured, FALSE) = Same(LevelOf(Backend, SourceFlows, FALSE))
      <4>1. LevelOf(Backend, case.captured, "write" \in request.immediate)
              = Same(LevelOf(Backend, SourceFlows, "write" \in PermissionsOf(s).immediate))
        BY <1>3, <1>11 DEF CapturesInGeneration
      <4>2. ("write" \in request.immediate) = FALSE
            /\ ("write" \in PermissionsOf(s).immediate) = FALSE
        BY <3>1, <3>3 DEF PermissionsOf, Perms
      <4> QED
        BY <4>1, <4>2
    <3>5. case.captured.out.description = "Insignificant"
      BY <1>3, <3>1 DEF CapturesInGeneration, Insignificant
    <3> QED
      BY <3>1, <3>2, <3>3, <3>4, <3>5
  <2>2. n.in = s.in
    BY <1>6, <2>1 DEF AsRegistered, Establish, Same, FlowsOfSource
  <2>3. n.out = NoFlow
    BY <1>6, <2>1 DEF AsRegistered, Establish
  <2>4. LevelOf(Backend, n, FALSE) = LevelOf(Backend, s, FALSE)
    BY <1>6, <2>1 DEF AsRegistered, LevelOf, Establish, Same, SourceFlows, FlowsOfSource
  <2>5. Reads(s, n)
    BY <1>6, <2>1, <2>2, <2>3, <2>4 DEF Reads
  <2>6. rest = s
    BY <1>5, <1>11
  <2> HIDE DEF s, n, rest, fresh
  <2> QED
    BY <2>5, <2>6 DEF Takes
<1> QED
  BY <1>10, <1>11 DEF fresh, outcome

\* A use is the view of another one that is about one element.
IsViewOf(v, u, e) ==
  /\ v.in = Indexed(u.in, e)
  /\ v.out = Indexed(u.out, e)
  /\ v.anti_in = Indexed(u.anti_in, e)
  /\ v.anti_out = Indexed(u.anti_out, e)
  /\ v.scheduling = u.scheduling
  /\ v.immediate = u.immediate

\* What is taken of a whole collection is taken of each of its elements.
LEMMA ViewTakes ==
  ASSUME NEW s, NEW n, NEW rest, NEW owner, NEW e,
         Takes(s, n, rest, MadeFor(owner)),
         NEW s2, IsViewOf(s2, s, e),
         NEW n2, IsViewOf(n2, n, e),
         NEW rest2, IsViewOf(rest2, rest, e),
         rest = s => rest2 = s2
  PROVE  Takes(s2, n2, rest2, PartsMadeFor(owner, e))
<1> DEFINE made == MadeFor(owner)
           parts == PartsMadeFor(owner, e)
<1>1. ASSUME NEW u, NEW v, IsViewOf(v, u, e), NEW w \in BOOLEAN
      PROVE  /\ LevelOf(Backend, v, w) = Indexed(LevelOf(Backend, u, w), e)
             /\ NextOf(Backend, v, w) = Indexed(NextOf(Backend, u, w), e)
             /\ CountedOf(Backend, v) = Indexed(CountedOf(Backend, u), e)
  BY <1>1 DEF IsViewOf, LevelOf, NextOf, CountedOf
<1>2. \A place \in FlowPlaces : parts[place] = Indexed(made[place], e)
  BY DEF MadeFor, PartsMadeFor
<1>3. Indexed(NoFlow, e) = NoFlow
  BY DEF Indexed
<1> DEFINE writes == "write" \in s.immediate
           nw == "write" \in n.immediate
<1>4. /\ writes \in BOOLEAN /\ nw \in BOOLEAN
      /\ ("write" \in s2.immediate) = writes
      /\ ("write" \in n2.immediate) = nw
      /\ ("write" \in n2.scheduling) = ("write" \in n.scheduling)
      /\ ("write" \in s2.scheduling) = ("write" \in s.scheduling)
      /\ s2.immediate = s.immediate
      /\ rest2.immediate = rest.immediate
      /\ rest2.scheduling = rest.scheduling
  BY DEF IsViewOf
<1>5. /\ s2.in = Indexed(s.in, e) /\ s2.out = Indexed(s.out, e)
      /\ n2.in = Indexed(n.in, e) /\ n2.out = Indexed(n.out, e)
      /\ rest2.in = Indexed(rest.in, e) /\ rest2.out = Indexed(rest.out, e)
  BY DEF IsViewOf
<1>6. /\ LevelOf(Backend, s2, writes) = Indexed(LevelOf(Backend, s, writes), e)
      /\ LevelOf(Backend, s2, FALSE) = Indexed(LevelOf(Backend, s, FALSE), e)
      /\ NextOf(Backend, s2, writes) = Indexed(NextOf(Backend, s, writes), e)
      /\ LevelOf(Backend, n2, nw) = Indexed(LevelOf(Backend, n, nw), e)
      /\ LevelOf(Backend, n2, FALSE) = Indexed(LevelOf(Backend, n, FALSE), e)
      /\ NextOf(Backend, n2, nw) = Indexed(NextOf(Backend, n, nw), e)
      /\ CountedOf(Backend, n2) = Indexed(CountedOf(Backend, n), e)
      /\ LevelOf(Backend, rest2, FALSE) = Indexed(LevelOf(Backend, rest, FALSE), e)
      /\ NextOf(Backend, rest2, FALSE) = Indexed(NextOf(Backend, rest, FALSE), e)
  <2> HIDE DEF writes, nw
  <2> QED
    BY <1>1, <1>4
<1>7. /\ parts["in"] = Indexed(made["in"], e)
      /\ parts["out"] = Indexed(made["out"], e)
      /\ parts[LevelOf(Backend, CapturedPlaces, nw)] = Indexed(made[LevelOf(Backend, CapturedPlaces, nw)], e)
      /\ parts[NextOf(Backend, CapturedPlaces, nw)] = Indexed(made[NextOf(Backend, CapturedPlaces, nw)], e)
      /\ parts[CountedOf(Backend, CapturedPlaces)] = Indexed(made[CountedOf(Backend, CapturedPlaces)], e)
      /\ parts[LevelOf(Backend, ContinuingPlaces, FALSE)]
           = Indexed(made[LevelOf(Backend, ContinuingPlaces, FALSE)], e)
  <2> HIDE DEF nw, made, parts
  <2> QED
    BY <1>2, <1>4, PlacesMade
<1> HIDE DEF made, parts
<1>8. CASE Reads(s, n) /\ rest = s
  <2>1. Reads(s2, n2)
    BY <1>3, <1>4, <1>5, <1>6, <1>8 DEF Reads
  <2> QED
    BY <1>8, <2>1 DEF Takes
<1>9. CASE /\ "write" \in s.scheduling
           /\ CapturedWith(s, n, made)
           /\ ContinuedWith(s, n, rest, made)
  <2>1. CapturedWith(s2, n2, parts)
    BY <1>3, <1>4, <1>5, <1>6, <1>7, <1>9 DEF CapturedWith
  <2>2. ContinuedWith(s2, n2, rest2, parts)
    BY <1>3, <1>4, <1>5, <1>6, <1>7, <1>9 DEF ContinuedWith
  <2> QED
    BY <1>4, <1>9, <2>1, <2>2 DEF Takes, parts
<1> QED
  BY <1>8, <1>9 DEF Takes, made

\* What a capture is to what its uses are known by, if the flows it makes are new.
LEMMA TakenFaces ==
  ASSUME NEW a, NoFlow \notin DOMAIN a,
         NEW faces, Shaped(faces),
         NEW s, FaceOf(a, s) \in faces,
         NEW fresh,
         \A place \in FlowPlaces : fresh[place] \notin DOMAIN a /\ UnseenBy(faces, fresh[place]),
         \A x, y \in FlowPlaces : fresh[x] = fresh[y] => x = y,
         NEW n, NEW rest, Takes(s, n, rest, fresh)
  PROVE  \/ rest = s /\ ~Writes(FaceOf(a, s)) /\ IsReaderOf(FaceOf(a, s), FaceOf(a, n))
         \/ MayWrite(FaceOf(a, s)) /\ Succeeds(faces, FaceOf(a, s), FaceOf(a, n), FaceOf(a, rest))
<1> DEFINE sf == FaceOf(a, s)
           nf == FaceOf(a, n)
           rf == FaceOf(a, rest)
           rep(f) == Representative(a, f)
           writes == "write" \in s.immediate
           nw == "write" \in n.immediate
<1>1. ASSUME NEW u
      PROVE  /\ FaceOf(a, u).in = rep(u.in)
             /\ FaceOf(a, u).out = rep(u.out)
             /\ FaceOf(a, u).level = rep(LevelOf(Backend, u, "write" \in u.immediate))
             /\ "write" \in u.scheduling =>
                  FaceOf(a, u).next = rep(NextOf(Backend, u, "write" \in u.immediate))
             /\ FaceOf(a, u).counted = rep(CountedOf(Backend, u))
             /\ MayWrite(FaceOf(a, u)) <=> "write" \in u.scheduling
             /\ Writes(FaceOf(a, u)) <=> "write" \in u.immediate
             /\ Touches(FaceOf(a, u)) <=> u.immediate # None
  BY DEF FaceOf, MayWrite, Writes, Touches
<1>2. rep(NoFlow) = NoFlow /\ \A place \in FlowPlaces : rep(fresh[place]) = fresh[place]
  BY DEF Representative
<1>3. CountedOf(Backend, n) = LevelOf(Backend, n, FALSE)
      /\ CountedOf(Backend, rest) = LevelOf(Backend, rest, FALSE)
  BY DEF CountedOf, LevelOf
<1>4. sf.in # NoFlow /\ sf.level # NoFlow
  BY DEF Shaped
<1> DEFINE toIn == LevelOf(Backend, CapturedPlaces, nw)
           toNext == NextOf(Backend, CapturedPlaces, nw)
           toCounted == CountedOf(Backend, CapturedPlaces)
           toLevel == LevelOf(Backend, ContinuingPlaces, FALSE)
<1>5. /\ "in" \in FlowPlaces /\ "out" \in FlowPlaces /\ toIn \in FlowPlaces
      /\ toNext \in FlowPlaces /\ toCounted \in FlowPlaces /\ toLevel \in FlowPlaces
      /\ toIn # toNext
  <2>1. nw \in BOOLEAN
    OBVIOUS
  <2>2. toIn # toNext
    BY DEF LevelOf, NextOf, CapturedPlaces
  <2> HIDE DEF nw
  <2> QED
    BY <2>1, <2>2, PlacesMade
<1> HIDE DEF sf, nf, rf, rep, toIn, toNext, toCounted, toLevel
<1>6. CASE Reads(s, n) /\ rest = s
  <2>1. /\ ~MayWrite(nf) /\ ~Writes(nf) /\ ~Writes(sf)
        /\ nf.in = sf.in
        /\ nf.out = NoFlow
    BY <1>1, <1>2, <1>6 DEF Reads, sf, nf
  <2>2. nf.level = sf.level /\ nf.counted = nf.level
    <3>1. writes = FALSE /\ nw = FALSE
      BY <1>6 DEF Reads
    <3>2. LevelOf(Backend, n, FALSE) = LevelOf(Backend, s, FALSE)
      BY <1>6 DEF Reads
    <3> HIDE DEF writes, nw
    <3>3. nf.level = rep(LevelOf(Backend, n, nw)) /\ sf.level = rep(LevelOf(Backend, s, writes))
      BY <1>1 DEF sf, nf, writes, nw
    <3>4. nf.counted = rep(CountedOf(Backend, n))
      BY <1>1 DEF nf
    <3> QED
      BY <1>3, <3>1, <3>2, <3>3, <3>4
  <2> QED
    BY <1>6, <2>1, <2>2 DEF IsReaderOf, Yields, sf, nf
<1>7. CASE /\ "write" \in s.scheduling
           /\ CapturedWith(s, n, fresh)
           /\ ContinuedWith(s, n, rest, fresh)
  <2>1. /\ MayWrite(sf) /\ MayWrite(rf) /\ ~Writes(rf)
        /\ rest.immediate \in {None, Read}
    <3>1. rest.immediate \in {None, Read} /\ rest.scheduling = Modify
      BY <1>7 DEF ContinuedWith
    <3> QED
      BY <1>1, <1>7, <3>1 DEF sf, rf, None, Read, Modify
  <2>2. /\ rf.out = sf.out
        /\ rf.next = sf.next
        /\ rf.counted = rf.level
    <3>1. ("write" \in rest.immediate) = FALSE
      BY <2>1 DEF None, Read
    <3>2. rf.next = rep(NextOf(Backend, rest, FALSE)) /\ rf.level = rep(LevelOf(Backend, rest, FALSE))
      BY <1>1, <2>1, <3>1 DEF rf
    <3>3. sf.next = rep(NextOf(Backend, s, writes))
      BY <1>1, <1>7 DEF sf
    <3>4. rf.counted = rep(CountedOf(Backend, rest)) /\ rf.out = rep(rest.out) /\ sf.out = rep(s.out)
      BY <1>1 DEF rf, sf
    <3> QED
      BY <1>3, <1>7, <3>2, <3>3, <3>4 DEF ContinuedWith
  <2>3. /\ MayWrite(nf) <=> "write" \in n.scheduling
        /\ Writes(nf) <=> nw
        /\ Writes(sf) <=> writes
        /\ Touches(sf) <=> s.immediate # None
        /\ Touches(rf) <=> rest.immediate # None
        /\ nf.in = rep(n.in) /\ sf.in = rep(s.in) /\ rf.in = rep(rest.in)
        /\ nf.level = rep(LevelOf(Backend, n, nw))
        /\ sf.level = rep(LevelOf(Backend, s, writes))
        /\ rf.level = rep(LevelOf(Backend, rest, FALSE))
        /\ nf.counted = rep(CountedOf(Backend, n))
        /\ "write" \in n.scheduling => nf.next = rep(NextOf(Backend, n, nw))
    <3>1. ("write" \in rest.immediate) = FALSE
      BY <2>1 DEF None, Read
    <3> QED
      BY <1>1, <3>1 DEF sf, nf, rf
  <2>4. nf.out = IF MayWrite(nf) \/ Writes(nf) THEN fresh["out"] ELSE NoFlow
    BY <1>1, <1>2, <1>5, <1>7, <2>3 DEF CapturedWith, nf
  <2>5. \A place \in FlowPlaces :
          /\ UnseenBy(faces, fresh[place])
          /\ fresh[place] \notin {NoFlow, sf.in, sf.level}
    BY DEF UnseenBy, sf
  <2>6. /\ Yields(nf) <=> MayWrite(nf) \/ Writes(nf)
        /\ Yields(nf) => nf.out = fresh["out"] /\ UnseenBy(faces, nf.out)
    BY <1>5, <2>4, <2>5 DEF Yields
  <2>7. /\ \/ nf.in = sf.in /\ ~Writes(sf) /\ nf.level = sf.level
           \/ /\ nf.in = fresh["in"]
              /\ Touches(sf)
              /\ nf.level = IF Writes(sf) THEN fresh[toIn] ELSE sf.level
    <3>1. \/ n.in = s.in /\ ~writes /\ LevelOf(Backend, n, nw) = LevelOf(Backend, s, writes)
          \/ /\ n.in = fresh["in"]
             /\ s.immediate # None
             /\ LevelOf(Backend, n, nw) = IF writes THEN fresh[toIn] ELSE LevelOf(Backend, s, writes)
      BY <1>7 DEF CapturedWith, toIn
    <3> HIDE DEF writes, nw
    <3> QED
      BY <1>2, <1>5, <2>3, <3>1
  <2>8. nf.in # nf.out
    <3>1. nf.in \in {sf.in, fresh["in"]}
      BY <2>7
    <3>2. nf.out \in {fresh["out"], NoFlow}
      BY <2>4
    <3>3. fresh["in"] # fresh["out"]
      BY <1>5
    <3> QED
      BY <1>4, <1>5, <2>5, <3>1, <3>2, <3>3
  <2>9. /\ \/ nf.in = sf.in /\ ~Writes(sf)
           \/ UnseenBy(faces, nf.in) /\ Touches(sf)
        /\ IF Writes(sf) THEN UnseenBy(faces, nf.level) ELSE nf.level = sf.level
    BY <1>5, <2>5, <2>7
  <2>10. /\ nf.counted \in {nf.level, NoFlow} \/ UnseenBy(faces, nf.counted)
         /\ ~Writes(nf) => nf.counted = nf.level
    <3>1. CountedOf(Backend, n) \in {LevelOf(Backend, n, nw), NoFlow, fresh[toCounted]}
      BY <1>7 DEF CapturedWith, toCounted
    <3>2. ~nw => CountedOf(Backend, n) = LevelOf(Backend, n, nw)
      BY <1>7 DEF CapturedWith
    <3> HIDE DEF nw
    <3> QED
      BY <1>2, <1>5, <2>3, <2>5, <3>1, <3>2
  <2>11. MayWrite(nf) => nf.next = fresh[toNext] /\ UnseenBy(faces, nf.next) /\ nf.next # nf.level
    <3>1. "write" \in n.scheduling => NextOf(Backend, n, nw) = fresh[toNext]
      BY <1>7 DEF CapturedWith, toNext
    <3>2. nf.level \in {sf.level, fresh[toIn]}
      BY <2>7
    <3>3. fresh[toNext] # fresh[toIn]
      BY <1>5
    <3> HIDE DEF nw
    <3> QED
      BY <1>2, <1>5, <2>3, <2>5, <3>1, <3>2, <3>3
  <2>12. CASE /\ n.out = fresh["out"]
              /\ rest.in = n.out
              /\ rest.immediate = None
              /\ \/ /\ LevelOf(Backend, rest, FALSE) = NextOf(Backend, n, nw)
                    /\ LevelOf(Backend, rest, FALSE) = fresh[toNext]
                 \/ /\ LevelOf(Backend, rest, FALSE) = fresh[toLevel]
                    /\ "write" \notin n.scheduling
    <3>1. nf.out = fresh["out"] /\ rf.in = nf.out /\ ~Touches(rf) /\ Yields(nf)
      <4>1. nf.out = rep(n.out)
        BY <1>1 DEF nf
      <4>2. fresh["out"] # NoFlow
        BY <1>5, <2>5
      <4> QED
        BY <1>2, <1>5, <2>3, <2>12, <4>1, <4>2 DEF Yields
    <3>2. UnseenBy(faces, rf.level)
      <4>1. rf.level \in {fresh[toNext], fresh[toLevel]}
        <5>1. LevelOf(Backend, rest, FALSE) \in {fresh[toNext], fresh[toLevel]}
          BY <2>12
        <5>2. rf.level = rep(LevelOf(Backend, rest, FALSE))
          BY <2>3
        <5> QED
          BY <1>2, <1>5, <5>1, <5>2
      <4> QED
        BY <1>5, <2>5, <4>1
    <3>3. MayWrite(nf) => HasNext(nf) /\ rf.level = nf.next
      <4>1. MayWrite(nf) => rf.level = fresh[toNext]
        BY <1>2, <1>5, <2>3, <2>12
      <4>2. fresh[toNext] # NoFlow
        BY <1>5, <2>5
      <4> QED
        BY <2>11, <4>1, <4>2 DEF HasNext
    <3>4. Succeeds(faces, sf, nf, rf)
      BY <2>1, <2>2, <2>6, <2>8, <2>9, <2>10, <2>11, <3>1, <3>2, <3>3 DEF Succeeds
    <3> QED
      BY <2>1, <3>4 DEF sf, nf, rf
  <2>13. CASE /\ Backend = "flows"
              /\ n.in = fresh["in"]
              /\ rest.in = n.in
              /\ writes
              /\ "write" \notin n.scheduling \cup n.immediate
    <3>1. ~Yields(nf) /\ Writes(sf)
      BY <2>3, <2>6, <2>13
    <3>2. nf.in = fresh["in"] /\ rf.in = nf.in /\ UnseenBy(faces, nf.in)
      BY <1>2, <1>5, <2>3, <2>5, <2>13
    <3>3. rf.level = rf.in /\ nf.level = nf.in
      <4>1. LevelOf(Backend, rest, FALSE) = rest.in /\ LevelOf(Backend, n, nw) = n.in
        BY <2>13 DEF LevelOf
      <4> HIDE DEF nw
      <4> QED
        BY <2>3, <4>1
    <3>4. Succeeds(faces, sf, nf, rf)
      BY <2>1, <2>2, <2>6, <2>8, <2>9, <2>10, <2>11, <3>1, <3>2, <3>3 DEF Succeeds
    <3> QED
      BY <2>1, <3>4 DEF sf, nf, rf
  <2>14. \/ /\ n.out = fresh["out"]
            /\ rest.in = n.out
            /\ rest.immediate = None
            /\ \/ /\ LevelOf(Backend, rest, FALSE) = NextOf(Backend, n, nw)
                  /\ LevelOf(Backend, rest, FALSE) = fresh[toNext]
               \/ /\ LevelOf(Backend, rest, FALSE) = fresh[toLevel]
                  /\ "write" \notin n.scheduling
         \/ /\ Backend = "flows"
            /\ n.in = fresh["in"]
            /\ rest.in = n.in
            /\ rest.immediate = Read
            /\ writes
            /\ "write" \notin n.scheduling \cup n.immediate
    BY <1>7 DEF ContinuedWith, toNext, toLevel
  <2> QED
    BY <2>12, <2>13, <2>14
<1> QED
  BY <1>6, <1>7 DEF Takes

(***************************************************************************)
(* The uses of a datum                                                     *)
(***************************************************************************)
\* Of what is known of a datum, that counts which was not fetched: a publication
\* counts for those who have fetched it.
Owners(d)       == {c \in Contexts : <<c, d>> \in DOMAIN handles /\ ~Fetched(handles[<<c, d>>].use)}
Keepers(e)      == {c \in DOMAIN collections : ~HandedOut(c, e)}
Unreleased(e)   == {p \in DOMAIN publications : p[2] = e /\ ~publications[p].released}
HeldBy(c, d)    == [by |-> c, use |-> handles[<<c, d>>].use]
SharedBy(c, e)  == [by |-> c, use |-> ElementView(collections[c].use, e)]
PublishedUse(p) == [by |-> publications[p].at, use |-> publications[p].use]

HeldOwn(d)     == {HeldBy(c, d) : c \in Owners(d)}
SharedOwn(d)   == IF d = Parameter THEN {} ELSE {SharedBy(c, d) : c \in Keepers(d)}
PublishedOf(d) == IF d = Parameter THEN {} ELSE {PublishedUse(p) : p \in Unreleased(d)}

Own(d) == HeldOwn(d) \cup SharedOwn(d) \cup PublishedOf(d)

\* A publication is in use while a task runs that reads what it fetched of it.
ReadingKeys(d) ==
  {k \in DOMAIN handles :
     k[2] = d /\ Fetched(handles[k].use) /\ Running(k[1]) /\ handles[k].use.immediate # None}

Readings(d) == {PublishedUse(VersionOf(k)) : k \in ReadingKeys(d)}

Active(d) == {u \in Own(d) : Running(u.by)} \cup Readings(d)

\* The generations of each datum are apart.
ApartFor(d) == Apart(FacesOf(alias, Own(d)), FacesOf(alias, Active(d)))
Exclusion   == \A d \in Data : ApartFor(d)

\* What counts is in use.
LEMMA OwnAreUses == \A d \in Data : Own(d) \subseteq UsesOf(d)
<1> SUFFICES ASSUME NEW d \in Data PROVE Own(d) \subseteq UsesOf(d)
  OBVIOUS
<1>1. HeldOwn(d) \subseteq Held(d)
  <2> SUFFICES ASSUME NEW c \in Owners(d) PROVE HeldBy(c, d) \in Held(d)
    BY DEF HeldOwn
  <2>1. <<c, d>> \in DOMAIN handles /\ <<c, d>>[1] = c /\ <<c, d>>[2] = d
    BY DEF Owners
  <2> QED
    BY <2>1 DEF HeldBy, Held
<1>2. SharedOwn(d) \subseteq IF d = Parameter THEN {} ELSE Shared(d)
  BY DEF SharedOwn, SharedBy, Keepers, Shared
<1>3. PublishedOf(d) \subseteq IF d = Parameter THEN {} ELSE Published(d)
  BY DEF PublishedOf, PublishedUse, Unreleased, Published
<1> QED
  BY <1>1, <1>2, <1>3 DEF Own, UsesOf

\* The null flow has no other name.
LEMMA NoFlowStands == Sound => NoFlow \notin DOMAIN alias
<1>1. NoFlow \notin FetchFlows /\ \A d : ~IsFlowOf(NoFlow, d)
  BY FlowSetsApart, OwnedIsApart
<1> QED
  BY <1>1 DEF Sound, FlowsOwned

\* What is published was published by the element's index task, at an operation that
\* is none of another context.
LEMMA PublicationAt ==
  ASSUME Sound, NEW q \in DOMAIN publications
  PROVE  /\ q[1] \in Contexts /\ q[2] \in Elements
         /\ \E n \in 1 .. ops[TakerOf(q[1], q[2])] :
              /\ publications[q].at = Append(TakerOf(q[1], q[2]), n)
              /\ program[q[1]].body[n].do = "publish"
              /\ TakerOf(q[1], q[2]) \in Contexts
              /\ IsWork(q[1]) /\ q[1] \in Seq(Nat)
              /\ IsIndexTask(TakerOf(q[1], q[2]))
              /\ Front(TakerOf(q[1], q[2])) = q[1]
              /\ Front(publications[q].at) = TakerOf(q[1], q[2])
              /\ Last(publications[q].at) = n
              /\ publications[q].at # Root /\ publications[q].at # << >>
<1> DEFINE t == TakerOf(q[1], q[2])
<1>1. PICK n \in 1 .. ops[t] : publications[q].at = Append(t, n) /\ program[q[1]].body[n].do = "publish"
  BY DEF Sound, BeneathKept
<1>2. ContextsKept /\ q[1] \in Contexts /\ q[2] \in Elements
  BY DEF Sound, Kept, BackendKept
<1>3. IsWork(q[1]) /\ t \in Contexts
  BY DEF Sound, OutsKept, PublicationsMade
<1>4. t \in IndexTasks(q[1])
  BY <1>2, <1>3, TaskOfElement DEF TakerOf, IndexTasks, ContextsKept, Named
<1>5. IsIndexTask(t) /\ Front(t) = q[1]
  BY <1>2, <1>3, <1>4, NamesApart
<1>6. q[1] \in Seq(Nat) /\ t \in Seq(Nat) /\ ops[t] \in Nat
  BY <1>2, <1>3, ContextNames
<1> HIDE DEF t
<1>7. n \in Nat
  BY <1>6
<1>8. /\ Front(Append(t, n)) = t /\ Last(Append(t, n)) = n /\ Append(t, n) # << >>
  BY <1>6, <1>7, NamesMade
<1> QED
  BY <1>1, <1>2, <1>3, <1>5, <1>6, <1>8 DEF t, Root

\* A publication is made where there is no context, each at its own place.
LEMMA PublicationsApart ==
  Sound => \A p \in DOMAIN publications :
             /\ p \in Contexts \X Elements /\ p = <<p[1], p[2]>>
             /\ publications[p].at \notin Contexts
             /\ Performed(publications[p].at)
             /\ \A q \in DOMAIN publications :
                  publications[q].at = publications[p].at /\ q[2] = p[2] => q = p
<1> SUFFICES ASSUME Sound, NEW p \in DOMAIN publications
             PROVE  /\ p \in Contexts \X Elements /\ p = <<p[1], p[2]>>
                    /\ publications[p].at \notin Contexts
                    /\ Performed(publications[p].at)
                    /\ \A q \in DOMAIN publications :
                         publications[q].at = publications[p].at /\ q[2] = p[2] => q = p
  OBVIOUS
<1>1. ContextsKept /\ DOMAIN publications \subseteq Contexts \X Elements
  BY DEF Sound, Kept, BackendKept
<1>2. ASSUME NEW q \in DOMAIN publications
      PROVE  \E n \in 1 .. ops[TakerOf(q[1], q[2])] :
               /\ publications[q].at = Append(TakerOf(q[1], q[2]), n)
               /\ program[q[1]].body[n].do = "publish"
               /\ TakerOf(q[1], q[2]) \in Contexts
               /\ IsWork(q[1]) /\ q[1] \in Seq(Nat)
               /\ IsIndexTask(TakerOf(q[1], q[2]))
               /\ Front(TakerOf(q[1], q[2])) = q[1]
               /\ Front(publications[q].at) = TakerOf(q[1], q[2])
               /\ Last(publications[q].at) = n
               /\ publications[q].at # Root /\ publications[q].at # << >>
  BY PublicationAt
<1>3. PICK n \in 1 .. ops[TakerOf(p[1], p[2])] :
        /\ program[p[1]].body[n].do = "publish"
        /\ TakerOf(p[1], p[2]) \in Contexts
        /\ IsIndexTask(TakerOf(p[1], p[2]))
        /\ Front(TakerOf(p[1], p[2])) = p[1]
        /\ Front(publications[p].at) = TakerOf(p[1], p[2])
        /\ Last(publications[p].at) = n
        /\ publications[p].at # Root /\ publications[p].at # << >>
  BY <1>2
<1>4. publications[p].at \notin Contexts
  BY <1>3 DEF Sound, BeneathKept, IsBeneath
<1>5. Performed(publications[p].at)
  BY <1>3 DEF Performed
<1>6. ASSUME NEW q \in DOMAIN publications, publications[q].at = publications[p].at, q[2] = p[2]
      PROVE  q = p
  <2>1. Front(Front(publications[q].at)) = q[1] /\ Front(Front(publications[p].at)) = p[1]
    BY <1>2, <1>3
  <2> QED
    BY <1>1, <1>6, <2>1
<1> QED
  BY <1>1, <1>4, <1>5, <1>6

\* What counts of a datum has flows of it.
LEMMA OwnFlows == Sound => \A d \in Data : \A u \in Own(d) : HasFlowsOf(u.use, d)
<1> SUFFICES ASSUME Sound, NEW d \in Data, NEW u \in Own(d) PROVE HasFlowsOf(u.use, d)
  OBVIOUS
<1>1. CASE u \in HeldOwn(d)
  <2>1. PICK c \in Owners(d) : u = HeldBy(c, d)
    BY <1>1 DEF HeldOwn
  <2>2. <<c, d>> \in DOMAIN handles /\ <<c, d>>[2] = d /\ ~Fetched(handles[<<c, d>>].use)
    BY DEF Owners
  <2> QED
    BY <2>1, <2>2 DEF HeldBy, Sound, FlowsOwned
<1>2. CASE u \in SharedOwn(d)
  <2>1. d # Parameter
    BY <1>2 DEF SharedOwn
  <2>2. PICK c \in DOMAIN collections : u = SharedBy(c, d)
    BY <1>2, <2>1 DEF SharedOwn, Keepers
  <2>3. d \in Elements /\ IsHolderOf(collections[c], WholeFlows)
    BY <2>1 DEF Data, Sound, Kept, HoldersKept, HoldersHave
  <2> DEFINE w == collections[c].use
  <2>4. /\ u.use.in = Indexed(w.in, d) /\ u.use.out = Indexed(w.out, d)
        /\ u.use.anti_in = Indexed(w.anti_in, d) /\ u.use.anti_out = Indexed(w.anti_out, d)
    BY <2>2, <2>3, ViewOf DEF SharedBy
  <2>5. \A f \in {w.in, w.out, w.anti_in, w.anti_out} : f \in WholeFlows /\ (f = NoFlow \/ Performed(f.owner))
    BY <2>3 DEF Sound, FlowsOwned, IsHolderOf, HasFlows
  <2> HIDE DEF w
  <2>6. \A f \in {w.in, w.out, w.anti_in, w.anti_out} : Indexed(f, d) = NoFlow \/ IsFlowOf(Indexed(f, d), d)
    BY <2>3, <2>5, PartOwned
  <2> QED
    BY <2>4, <2>6 DEF HasFlowsOf
<1>3. CASE u \in PublishedOf(d)
  BY <1>3 DEF PublishedOf, PublishedUse, Unreleased, Sound, FlowsOwned
<1> QED
  BY <1>1, <1>2, <1>3 DEF Own

\* Nobody counts twice for a datum.
LEMMA OneUse == Sound => \A d \in Data : \A u, v \in Own(d) : u.by = v.by => u = v
<1> SUFFICES ASSUME Sound, NEW d \in Data, NEW u \in Own(d), NEW v \in Own(d), u.by = v.by
             PROVE  u = v
  OBVIOUS
<1>1. ASSUME NEW x \in HeldOwn(d)
      PROVE  x.by \in Owners(d) /\ x = HeldBy(x.by, d) /\ x.by \in Contexts
  <2>1. PICK c \in Owners(d) : x = HeldBy(c, d)
    BY <1>1 DEF HeldOwn
  <2>2. x.by = c
    BY <2>1 DEF HeldBy
  <2>3. c \in Contexts
    BY DEF Owners
  <2> QED
    BY <2>1, <2>2, <2>3
<1>2. ASSUME NEW x \in SharedOwn(d)
      PROVE  x.by \in DOMAIN collections /\ x = SharedBy(x.by, d) /\ d # Parameter /\ x.by \in Contexts
  <2>1. d # Parameter
    BY <1>2 DEF SharedOwn
  <2>2. PICK c \in DOMAIN collections : x = SharedBy(c, d)
    BY <1>2, <2>1 DEF SharedOwn, Keepers
  <2>3. x.by = c
    BY <2>2 DEF SharedBy
  <2> QED
    BY <2>1, <2>2, <2>3 DEF Sound, Kept, HoldersKept
<1>3. ASSUME NEW x \in PublishedOf(d)
      PROVE  \E p \in DOMAIN publications : x = PublishedUse(p) /\ x.by = publications[p].at /\ p[2] = d
  BY <1>3 DEF PublishedOf, Unreleased, PublishedUse
<1>4. \A x \in PublishedOf(d) : x.by \notin Contexts
  BY <1>3, PublicationsApart
<1>5. ASSUME NEW x \in HeldOwn(d), NEW y \in SharedOwn(d), x.by = y.by PROVE FALSE
  <2>1. <<x.by, d>> \in DOMAIN handles /\ <<x.by, d>>[1] = x.by /\ <<x.by, d>>[2] = d
    BY <1>1, <1>5 DEF Owners
  <2> QED
    BY <1>2, <1>5, <2>1 DEF Sound, HoldersApart
<1>6. CASE u \in HeldOwn(d) /\ v \in HeldOwn(d)
  BY <1>1, <1>6
<1>7. CASE u \in SharedOwn(d) /\ v \in SharedOwn(d)
  BY <1>2, <1>7
<1>8. CASE u \in PublishedOf(d) /\ v \in PublishedOf(d)
  BY <1>3, <1>8, PublicationsApart
<1> QED
  BY <1>1, <1>2, <1>4, <1>5, <1>6, <1>7, <1>8 DEF Own

\* What counts and has an output has it for itself, also once aliases are
\* resolved.
LEMMA OnlyOne ==
  Sound => \A d \in Data : \A u, v \in Own(d) :
             /\ Yields(FaceOf(alias, u.use)) <=> u.use.out # NoFlow
             /\ u.use.out # NoFlow => FaceOf(alias, u.use).out = u.use.out
             /\ Yields(FaceOf(alias, u.use)) /\ FaceOf(alias, v.use).out = FaceOf(alias, u.use).out => u = v
<1> SUFFICES ASSUME Sound, NEW d \in Data
             PROVE  \A u, v \in Own(d) :
                      /\ Yields(FaceOf(alias, u.use)) <=> u.use.out # NoFlow
                      /\ u.use.out # NoFlow => FaceOf(alias, u.use).out = u.use.out
                      /\ Yields(FaceOf(alias, u.use)) /\ FaceOf(alias, v.use).out = FaceOf(alias, u.use).out
                           => u = v
  OBVIOUS
<1>1. Kept /\ OutsKept
  BY DEF Sound
<1>2. \A u : FaceOf(alias, u).out = Representative(alias, u.out)
  BY DEF FaceOf
<1>3. \A u \in Own(d) : u.use.out # NoFlow =>
        /\ u.use.out \notin DOMAIN alias
        /\ Produces(u.by, d, u.use.out)
        /\ FaceOf(alias, u.use).out = u.use.out
  BY <1>1, <1>2, OwnAreUses, ProducerIs DEF Representative
<1>4. \A u \in Own(d) : Yields(FaceOf(alias, u.use)) <=> u.use.out # NoFlow
  BY <1>2, <1>3, NoFlowStands DEF Yields, Representative
<1>5. ASSUME NEW u \in Own(d), NEW v \in Own(d),
             Yields(FaceOf(alias, u.use)), FaceOf(alias, v.use).out = FaceOf(alias, u.use).out
      PROVE  u = v
  <2>1. Yields(FaceOf(alias, v.use))
    BY <1>5 DEF Yields
  <2>2. u.use.out = v.use.out /\ Produces(u.by, d, u.use.out) /\ Produces(v.by, d, u.use.out)
    BY <1>3, <1>4, <1>5, <2>1
  <2>3. u.by = v.by
    BY <1>1, <2>2, ProducersDiffer
  <2> QED
    BY <2>3, OneUse
<1> QED
  BY <1>3, <1>4, <1>5

\* What is in use counts; a publication that is read is not released.
LEMMA ActiveAreOwn == Sound => \A d \in Data : Active(d) \subseteq Own(d)
<1> SUFFICES ASSUME Sound, NEW d \in Data, NEW k \in ReadingKeys(d)
             PROVE  PublishedUse(VersionOf(k)) \in Own(d)
  BY DEF Active, Readings
<1>1. k \in DOMAIN handles /\ k[2] = d /\ Fetched(handles[k].use)
  BY DEF ReadingKeys
<1>2. d # Parameter
  BY <1>1 DEF Sound, HoldersApart
<1>3. VersionOf(k) \in DOMAIN publications
  BY <1>1 DEF ReadingKeys, Sound, FetchedAsPublished
<1>4. IsFetchedAs(handles[k].use, handles[k].use.in.version, d)
  BY <1>1 DEF Sound, FetchedAsPublished
<1>5. ~publications[VersionOf(k)].released
  BY <1>1, <1>3, <1>4 DEF IsFetchedAs, VersionOf
<1>6. VersionOf(k)[2] = d
  BY <1>1 DEF VersionOf
<1> QED
  BY <1>2, <1>3, <1>5, <1>6 DEF Own, PublishedOf, Unreleased

\* What no longer runs disturbs nothing.
LEMMA FewerRun ==
  ASSUME NEW faces, NEW running, Apart(faces, running), NEW less, less \subseteq running
  PROVE  Apart(faces, less)
<1>1. InputsReady(faces, less) /\ WritersAlone(faces, less)
  BY DEF Apart, InputsReady, WritersAlone
<1> QED
  BY <1>1 DEF Apart

\* A capture from what is in use keeps generations apart.
CapturesFrom(a, own, active, own2, active2, s, n, rest, fresh) ==
  /\ s \in active
  /\ own2 = (own \ {s}) \cup {n, rest}
  /\ active2 \subseteq (active \ {s}) \cup {rest}
  /\ Takes(s.use, n.use, rest.use, fresh)
  /\ rest.use = s.use => rest = s
  /\ \A place \in FlowPlaces : fresh[place] \notin DOMAIN a /\ UnseenBy(FacesOf(a, own), fresh[place])
  /\ \A x, y \in FlowPlaces : fresh[x] = fresh[y] => x = y
  /\ \A u \in own : Yields(FaceOf(a, s.use)) /\ FaceOf(a, u.use).out = FaceOf(a, s.use).out => u = s

\* A capture keeps the generations of a datum apart.
LEMMA CaptureApart ==
  ASSUME NEW a, NoFlow \notin DOMAIN a,
         NEW own, NEW active \in SUBSET own, Apart(FacesOf(a, own), FacesOf(a, active)),
         NEW own2, NEW active2, NEW s, NEW n, NEW rest, NEW fresh,
         CapturesFrom(a, own, active, own2, active2, s, n, rest, fresh)
  PROVE  Apart(FacesOf(a, own2), FacesOf(a, active2))
<1> DEFINE faces == FacesOf(a, own)
           running == FacesOf(a, active)
           sf == FaceOf(a, s.use)
           nf == FaceOf(a, n.use)
           rf == FaceOf(a, rest.use)
<1> USE DEF CapturesFrom
<1>1. sf \in running /\ sf \in faces /\ s \in own
  BY DEF FacesOf
<1>2. Shaped(faces)
  BY DEF Apart
<1>3. \/ rest.use = s.use /\ ~Writes(sf) /\ IsReaderOf(sf, nf)
      \/ MayWrite(sf) /\ Succeeds(faces, sf, nf, rf)
  BY <1>1, <1>2, TakenFaces
<1>4. CASE rest.use = s.use /\ ~Writes(sf) /\ IsReaderOf(sf, nf)
  <2>1. own2 = own \cup {n} /\ active2 \subseteq active
    BY <1>1, <1>4
  <2>2. FacesOf(a, own2) = faces \cup {nf}
    BY <2>1 DEF FacesOf
  <2>3. FacesOf(a, active2) \subseteq running
    BY <2>1 DEF FacesOf
  <2> HIDE DEF faces, running, sf, nf
  <2>4. Apart(faces \cup {nf}, running)
    BY <1>1, <1>4, ReaderJoins DEF faces, running
  <2> QED
    BY <2>2, <2>3, <2>4, FewerRun
<1>5. CASE MayWrite(sf) /\ Succeeds(faces, sf, nf, rf)
  <2>1. Yields(sf)
    BY <1>1, <1>2, <1>5 DEF Shaped
  <2>2. \A u \in own : FaceOf(a, u.use) = sf => u = s
    BY <2>1
  <2>3. FacesOf(a, own2) = (faces \ {sf}) \cup {nf, rf}
    <3>1. FacesOf(a, own \ {s}) = faces \ {sf}
      BY <2>2 DEF FacesOf
    <3>2. FacesOf(a, own2) = FacesOf(a, own \ {s}) \cup {nf, rf}
      BY DEF FacesOf
    <3> QED
      BY <3>1, <3>2
  <2>4. FacesOf(a, active2) \subseteq (running \ {sf}) \cup {rf}
    <3>1. ASSUME NEW u \in active2 PROVE FaceOf(a, u.use) \in (running \ {sf}) \cup {rf}
      <4>1. CASE u = rest
        BY <4>1
      <4>2. CASE u \in active \ {s}
        BY <2>2, <4>2 DEF FacesOf
      <4> QED
        BY <4>1, <4>2
    <3> QED
      BY <3>1 DEF FacesOf
  <2> HIDE DEF faces, running, sf, nf, rf
  <2>5. Apart((faces \ {sf}) \cup {nf, rf}, (running \ {sf}) \cup {rf})
    BY <1>1, <1>5, FaceContinues DEF faces, running
  <2>6. Apart(FacesOf(a, own2), (running \ {sf}) \cup {rf})
    BY <2>3, <2>5
  <2> QED
    BY <2>4, <2>6, FewerRun
<1> QED
  BY <1>3, <1>4, <1>5

\* The flows a face has are those its use has, or what they stand for.
LEMMA FaceFlows ==
  ASSUME NEW a, NEW u, NEW f \in {FaceOf(a, u).in, FaceOf(a, u).out, FaceOf(a, u).level,
                                  FaceOf(a, u).next, FaceOf(a, u).counted}
  PROVE  f = NoFlow \/ \E g \in {u.in, u.out, u.anti_in, u.anti_out} : f = Representative(a, g)
<1>1. \A w : /\ LevelOf(Backend, u, w) \in {u.in, u.out, u.anti_in, u.anti_out}
             /\ NextOf(Backend, u, w) \in {u.in, u.out, u.anti_in, u.anti_out}
             /\ CountedOf(Backend, u) \in {u.in, u.out, u.anti_in, u.anti_out}
  BY DEF LevelOf, NextOf, CountedOf
<1> DEFINE w == "write" \in u.immediate
<1>2. /\ FaceOf(a, u).in = Representative(a, u.in)
      /\ FaceOf(a, u).out = Representative(a, u.out)
      /\ FaceOf(a, u).level = Representative(a, LevelOf(Backend, u, w))
      /\ FaceOf(a, u).next \in {NoFlow, Representative(a, NextOf(Backend, u, w))}
      /\ FaceOf(a, u).counted = Representative(a, CountedOf(Backend, u))
  BY DEF FaceOf
<1> QED
  BY <1>1, <1>2

\* Flows that no use of a datum knows, one for each place.
IsFresh(fresh, d) ==
  /\ \A place \in FlowPlaces :
       fresh[place] \notin DOMAIN alias /\ UnseenBy(FacesOf(alias, Own(d)), fresh[place])
  /\ \A x, y \in FlowPlaces : fresh[x] = fresh[y] => x = y

\* So it is for what is not of the datum, or of any.
LEMMA UnownedIsUnseen ==
  ASSUME Sound, NEW d \in Data, NEW f, f # NoFlow, f \notin FetchFlows, \A e : ~IsFlowOf(f, e)
  PROVE  f \notin DOMAIN alias /\ UnseenBy(FacesOf(alias, Own(d)), f)
<1>1. AliasesOwned
  BY DEF Sound, FlowsOwned, AliasesOwned
<1>2. f \notin DOMAIN alias
  BY <1>1 DEF AliasesOwned
<1>3. ASSUME NEW u \in Own(d),
             NEW g \in {FaceOf(alias, u.use).in, FaceOf(alias, u.use).out, FaceOf(alias, u.use).level,
                        FaceOf(alias, u.use).next, FaceOf(alias, u.use).counted}
      PROVE  g # f
  <2>1. CASE g = NoFlow
    BY <2>1
  <2>2. CASE g # NoFlow
    <3>1. PICK h \in {u.use.in, u.use.out, u.use.anti_in, u.use.anti_out} : g = Representative(alias, h)
      BY <2>2, FaceFlows
    <3>2. CASE h = NoFlow
      BY <2>2, <3>1, <3>2, NoFlowStands DEF Representative
    <3>3. CASE IsFlowOf(h, d)
      BY <1>1, <3>1, <3>3, StandsForOwned
    <3> QED
      BY <3>2, <3>3, OwnFlows DEF HasFlowsOf
  <2> QED
    BY <2>1, <2>2
<1> QED
  BY <1>2, <1>3 DEF UnseenBy, FacesOf

\* What is made for an operation that was not yet performed is fresh: the flows
\* for a single datum, and the parts of those for the whole collection.
LEMMA FreshFlows ==
  ASSUME Sound, NEW p \in Seq(Nat), ~Performed(p), NEW d \in Data
  PROVE  /\ IsFresh(MadeFor(Append(p, d)), d)
         /\ d \in Elements => IsFresh(PartsMadeFor(p, d), d)
<1>1. /\ d \in Nat /\ Append(p, d) \in Seq(Nat)
      /\ Front(Append(p, d)) = p
  BY ElementsAreNumbers, NamesMade
<1>2. ASSUME NEW place \in FlowPlaces
      PROVE  /\ Flow(Append(p, d), place) \in WholeFlows \ {NoFlow}
             /\ Flow(Append(p, d), place).owner = Append(p, d)
             /\ Flow(Append(p, d), place).place = place
  <2>1. place # "none"
    BY <1>2 DEF FlowPlaces
  <2> QED
    BY <1>1, <2>1 DEF Flow, WholeFlows, NoFlow
<1>3. ASSUME NEW place \in FlowPlaces, d \in Elements
      PROVE  /\ Indexed(Flow(p, place), d) \in ElementFlows
             /\ Indexed(Flow(p, place), d).owner = p
             /\ Indexed(Flow(p, place), d).place = place
  <2>1. Flow(p, place) # NoFlow
    BY <1>3 DEF Flow, NoFlow, FlowPlaces
  <2>2. Indexed(Flow(p, place), d) = [owner |-> p, place |-> place, element |-> d]
    BY <2>1 DEF Indexed, Flow
  <2> QED
    BY <1>3, <2>2 DEF ElementFlows
<1>4. IsFresh(MadeFor(Append(p, d)), d)
  <2>1. ASSUME NEW place \in FlowPlaces
        PROVE  /\ MadeFor(Append(p, d))[place].place = place
               /\ MadeFor(Append(p, d))[place] # NoFlow
               /\ MadeFor(Append(p, d))[place] \notin FetchFlows
               /\ \A e : ~IsFlowOf(MadeFor(Append(p, d))[place], e)
    <3> DEFINE f == MadeFor(Append(p, d))[place]
    <3>1. f = Flow(Append(p, d), place)
      BY DEF MadeFor
    <3>2. f \in WholeFlows \ {NoFlow} /\ f.owner = Append(p, d) /\ f.place = place
      BY <1>2, <3>1
    <3> HIDE DEF f
    <3>3. f \notin FetchFlows /\ f \notin ElementFlows
      BY <3>2, FlowSetsApart
    <3>4. \A e : ~IsFlowOf(f, e)
      BY <1>1, <3>2, <3>3 DEF IsFlowOf
    <3> QED
      BY <3>2, <3>3, <3>4 DEF f
  <2> QED
    BY <2>1, UnownedIsUnseen DEF IsFresh
<1>5. ASSUME d \in Elements PROVE IsFresh(PartsMadeFor(p, d), d)
  <2>1. ASSUME NEW place \in FlowPlaces
        PROVE  /\ PartsMadeFor(p, d)[place].place = place
               /\ PartsMadeFor(p, d)[place] # NoFlow
               /\ PartsMadeFor(p, d)[place] \notin FetchFlows
               /\ \A e : ~IsFlowOf(PartsMadeFor(p, d)[place], e)
    <3>1. PartsMadeFor(p, d)[place] = Indexed(Flow(p, place), d)
      BY DEF PartsMadeFor
    <3> QED
      BY <1>3, <1>5, <3>1, FlowSetsApart DEF IsFlowOf
  <2> QED
    BY <2>1, UnownedIsUnseen DEF IsFresh
<1> QED
  BY <1>4, <1>5

(***************************************************************************)
(* What is in use after a step                                             *)
(***************************************************************************)
NoneRuns == ~\E contexts : RunsReady(contexts)

\* Nobody comes to run who did not.
LEMMA RunningWas ==
  ASSUME ContextsGoOn, NoneRuns, NEW c, Running(c)'
  PROVE  Running(c) /\ c \in Contexts
<1>1. c \in Contexts'
  BY DEF Running
<1>2. c \in Contexts
  BY <1>1 DEF ContextsGoOn
<1> QED
  BY <1>2 DEF ContextsGoOn, NoneRuns

\* Nobody comes to read a publication who did not.
LEMMA ReadingsCome ==
  ASSUME Sound, AnyStep, ContextsGoOn, NoneRuns, NEW d \in Data, NEW k, k \in ReadingKeys(d)'
  PROVE  k \in ReadingKeys(d) /\ PublishedUse(VersionOf(k))' = PublishedUse(VersionOf(k))
<1>1. /\ k \in DOMAIN handles' /\ k[2] = d /\ handles'[k].use.immediate # None
      /\ Running(k[1])' /\ handles'[k].use.in \in FetchFlows
  BY DEF ReadingKeys, Fetched
<1>2. Running(k[1]) /\ k[1] \in Contexts
  BY <1>1, RunningWas
<1>3. Kept /\ OutsKept
  BY DEF Sound
<1>4. HandleCame(k)
  BY <1>1, <1>3, HandlesCome
<1>5. ~\E c : HandleCaptured(c, k)
  <2> SUFFICES ASSUME NEW c, HandleCaptured(c, k) PROVE FALSE
    OBVIOUS
  <2>1. Capturing(c) /\ k[1] = Place(c)
    BY DEF HandleCaptured, Capturing
  <2>2. c \in Contexts /\ status[c] = "running"
    BY <1>3, <2>1, CapturingIs
  <2> QED
    BY <1>2, <1>3, <2>1, <2>2, PlaceIsNew DEF Kept
<1>6. ~\E t : HandleFetched(t, k)
  <2> SUFFICES ASSUME NEW t, HandleFetched(t, k) PROVE FALSE
    OBVIOUS
  <2>1. /\ t \in Contexts /\ Fetch(t) /\ k[2] \in FetchedElements(t)
        /\ handles'[k] = FetchedUse(collections[Front(t)], Front(t), k[2])
    BY DEF HandleFetched
  <2>2. PermissionsOf(handles'[k].use) = Perms(Read, None)
    BY <1>3, <2>1, FetchIs DEF Sound
  <2> QED
    BY <1>1, <2>2 DEF PermissionsOf, Perms
<1>7. ~\E w : HandleShared(w, k) \/ HandleLocal(w, k)
  BY <1>2 DEF HandleShared, HandleLocal
<1>8. k \in DOMAIN handles /\ handles'[k] = handles[k]
  <2>1. CASE HandleStays(k)
    BY <2>1 DEF HandleStays
  <2>2. ASSUME NEW c, HandleLeft(c, k) PROVE k \in DOMAIN handles /\ handles'[k] = handles[k]
    <3>1. /\ Capturing(c) /\ d \in Requested(c) /\ k = <<c, d>>
          /\ Served(handles, <<c, d>>, RequestsOf(c)[d])
          /\ handles'[k] = CaptureOf(c, d).source
      BY <1>1, <2>2 DEF HandleLeft
    <3>2. k \in DOMAIN handles
      BY <3>1 DEF Served
    <3>3. CASE Fetched(handles[k].use)
      BY <3>1, <3>2, <3>3, FetchedStays
    <3>4. CASE ~Fetched(handles[k].use)
      <4>1. HasFlowsOf(handles[<<c, d>>].use, d)
        BY <3>1, <3>4, FetchedStays
      <4>2. ASSUME NEW u, u = CaptureOf(c, d).source.use PROVE ~Fetched(u)
        <5>1. HasFlowsOf(u, d)'
          BY <1>3, <3>1, <4>1, <4>2, CaptureOwned
        <5> QED
          BY <5>1, OwnedNotFetched
      <4>3. ~Fetched(CaptureOf(c, d).source.use)
        BY <4>2
      <4> QED
        BY <1>1, <3>1, <4>3 DEF Fetched
    <3> QED
      BY <3>2, <3>3, <3>4
  <2> QED
    BY <1>4, <1>5, <1>6, <1>7, <2>1, <2>2 DEF HandleCame
<1>9. k \in ReadingKeys(d)
  BY <1>1, <1>2, <1>8 DEF ReadingKeys, Fetched
<1>10. VersionOf(k)' = VersionOf(k) /\ VersionOf(k) \in DOMAIN publications
  BY <1>8, <1>9 DEF VersionOf, ReadingKeys, Sound, FetchedAsPublished
<1>11. ASSUME NEW p \in DOMAIN publications
       PROVE  publications'[p].at = publications[p].at /\ publications'[p].use = publications[p].use
  <2>1. PublicationStays(p)
    BY <1>3, PublicationsCome DEF PublicationMade
  <2>2. DOMAIN publications[p] = {"at", "use", "n_fetchers", "anti_out", "released"}
    BY <1>3 DEF OutsKept, PublicationsMade
  <2> QED
    BY <2>1, <2>2 DEF PublicationStays
<1>12. PublishedUse(VersionOf(k))' = PublishedUse(VersionOf(k))
  BY <1>10, <1>11 DEF PublishedUse
<1> QED
  BY <1>9, <1>12

\* What is in use after a step counts then.
LEMMA ActiveStayOwn == Sound' => (\A d \in Data : Active(d) \subseteq Own(d))'
<1>1. Sound => \A d \in Data : Active(d) \subseteq Own(d)
  BY ActiveAreOwn
<1> QED
  BY <1>1, PTL

\* What is in use counts, and was in use if it counted.
LEMMA ActiveComes ==
  ASSUME Sound, Sound', AnyStep, ContextsGoOn, NoneRuns, NEW d \in Data, NEW u, u \in Active(d)'
  PROVE  /\ u \in Own(d)'
         /\ Running(u.by) \/ u \in Active(d)
         /\ u \in Own(d) => u \in Active(d)
<1>1. (\A e \in Data : Active(e) \subseteq Own(e))'
  BY ActiveStayOwn
<1>2. u \in Own(d)'
  BY <1>1
<1>3. CASE u \in Own(d)' /\ Running(u.by)'
  BY <1>2, <1>3, RunningWas DEF Active
<1>4. ASSUME NEW k, k \in ReadingKeys(d)', u = PublishedUse(VersionOf(k))'
      PROVE  u \in Active(d)
  BY <1>4, ReadingsCome DEF Active, Readings
<1>5. (u \in Own(d)' /\ Running(u.by)') \/ \E k : k \in ReadingKeys(d)' /\ u = PublishedUse(VersionOf(k))'
  BY DEF Active, Readings
<1> QED
  BY <1>2, <1>3, <1>4, <1>5

(***************************************************************************)
(* What counts after a capture                                             *)
(***************************************************************************)
\* The single holders of a datum that a step of a context leaves.
HoldersAfter(c, d) ==
  /\ \A x : x # c /\ x # Place(c) =>
       /\ <<x, d>> \in DOMAIN handles' <=> <<x, d>> \in DOMAIN handles
       /\ <<x, d>> \in DOMAIN handles => handles'[<<x, d>>] = handles[<<x, d>>]
  /\ <<Place(c), d>> \notin DOMAIN handles
  /\ <<c, d>> \in DOMAIN handles' <=> <<c, d>> \in DOMAIN handles
  /\ IF d \in Requested(c)
     THEN /\ Served(handles, <<c, d>>, RequestsOf(c)[d])
          /\ handles'[<<c, d>>] = CaptureOf(c, d).source
          /\ Making(c) => /\ <<Place(c), d>> \in DOMAIN handles'
                          /\ handles'[<<Place(c), d>>] = CaptureOf(c, d).captured
          /\ ~Making(c) => <<Place(c), d>> \notin DOMAIN handles'
     ELSE /\ <<Place(c), d>> \notin DOMAIN handles'
          /\ <<c, d>> \in DOMAIN handles => handles'[<<c, d>>] = handles[<<c, d>>]

\* A capture leaves and makes a holder of each datum it asks for.
LEMMA CapturedHolders ==
  ASSUME Kept, NEW c, Capturing(c), NEW d
  PROVE  HoldersAfter(c, d) /\ c \in Contexts' /\ (Making(c) => Place(c) \in Contexts')
<1>1. /\ c \in Contexts /\ status[c] = "running"
      /\ Making(c) => HandlesTaken(c)
  BY CapturingIs
<1>2. /\ Place(c) \notin Contexts /\ Place(c) # c
      /\ DOMAIN handles \subseteq Contexts \X Data
  BY <1>1, PlaceIsNew DEF Kept, HoldersKept
<1>3. \A x : <<x, d>>[1] = x /\ <<x, d>>[2] = d
  OBVIOUS
<1>4. <<Place(c), d>> \notin DOMAIN handles
  BY <1>2, <1>3
<1>5. c \in Contexts' /\ (Making(c) => Place(c) \in Contexts')
  <2>1. ASSUME NEW made, NEW state, Operates(c, made, state)
        PROVE  Contexts' = Contexts \cup made
    BY <2>1, OperatesGoOn
  <2>2. ASSUME NEW state, Creates(c, state) PROVE Contexts' = Contexts \cup {Place(c)}
    BY <2>1, <2>2 DEF Creates
  <2>3. CreatesBeneath(c) => Contexts' = Contexts \cup {Place(c)}
    BY <2>1 DEF CreatesBeneath
  <2>4. \E made, state : Operates(c, made, state)
    BY CapturingIs
  <2> QED
    BY <1>1, <2>1, <2>2, <2>3, <2>4 DEF Making
<1>6. CASE Making(c)
  <2>1. /\ DOMAIN handles' = DOMAIN handles \cup {<<Place(c), e>> : e \in Requested(c)}
        /\ \A e \in Requested(c) :
             Taken(handles, handles', <<c, e>>, <<Place(c), e>>, RequestsOf(c)[e], Append(Place(c), e))
        /\ \A k \in DOMAIN handles : handles'[k] = handles[k] \/ (k[1] = c /\ k[2] \in Requested(c))
    BY <1>1, <1>6 DEF HandlesTaken
  <2>2. \A x : x # Place(c) => (<<x, d>> \in DOMAIN handles' <=> <<x, d>> \in DOMAIN handles)
    BY <2>1
  <2>3. <<Place(c), d>> \in DOMAIN handles' <=> d \in Requested(c)
    BY <1>4, <2>1
  <2>4. \A x : <<x, d>> \in DOMAIN handles /\ (x # c \/ d \notin Requested(c)) =>
          handles'[<<x, d>>] = handles[<<x, d>>]
    BY <1>3, <2>1
  <2>5. d \in Requested(c) =>
          /\ Served(handles, <<c, d>>, RequestsOf(c)[d])
          /\ handles'[<<c, d>>] = CaptureOf(c, d).source
          /\ handles'[<<Place(c), d>>] = CaptureOf(c, d).captured
    BY <2>1 DEF Taken, CaptureOf
  <2> QED
    BY <1>2, <1>4, <1>5, <1>6, <2>2, <2>3, <2>4, <2>5 DEF HoldersAfter
<1>7. CASE ~Making(c)
  <2>1. Publishes(c)
    BY <1>7 DEF Capturing
  <2>2. /\ Requested(c) = PublishedElements(c)
        /\ RequestsOf(c) = [e \in PublishedElements(c) |-> Perms(None, Read)]
    BY <2>1, CapturingIs
  <2>3. /\ DOMAIN handles' = DOMAIN handles
        /\ \A e \in Requested(c) :
             /\ Served(handles, <<c, e>>, RequestsOf(c)[e])
             /\ handles'[<<c, e>>] = CaptureOf(c, e).source
        /\ \A k \in DOMAIN handles : handles'[k] = handles[k] \/ (k[1] = c /\ k[2] \in Requested(c))
    BY <2>1, <2>2 DEF Publishes, CaptureOf
  <2>4. \A x : <<x, d>> \in DOMAIN handles /\ (x # c \/ d \notin Requested(c)) =>
          handles'[<<x, d>>] = handles[<<x, d>>]
    BY <1>3, <2>3
  <2> QED
    BY <1>2, <1>4, <1>5, <1>7, <2>3, <2>4 DEF HoldersAfter
<1> QED
  BY <1>6, <1>7

\* Single holders that are as they were.
HoldersSame(d) ==
  \A x : /\ <<x, d>> \in DOMAIN handles' <=> <<x, d>> \in DOMAIN handles
         /\ <<x, d>> \in DOMAIN handles => handles'[<<x, d>>] = handles[<<x, d>>]

\* Where holders stay the same, what is held does.
LEMMA HeldStays ==
  ASSUME Kept, ContextsGoOn, NEW d, HoldersSame(d)
  PROVE  HeldOwn(d)' = HeldOwn(d)
<1>1. Contexts \subseteq Contexts' /\ DOMAIN handles \subseteq Contexts \X Data
  BY DEF ContextsGoOn, Kept, HoldersKept
<1>2. \A x : <<x, d>> \in DOMAIN handles => x \in Contexts
  BY <1>1
<1>3. Owners(d)' = Owners(d)
  BY <1>1, <1>2 DEF Owners, HoldersSame, Fetched
<1>4. \A x \in Owners(d) : HeldBy(x, d)' = HeldBy(x, d)
  BY DEF Owners, HeldBy, HoldersSame
<1> QED
  BY <1>3, <1>4 DEF HeldOwn

\* What is captured and what is left of it.
CapturedUseOf(c, d) == [by |-> Place(c), use |-> CaptureOf(c, d).captured.use]
LeftUseOf(c, d)     == [by |-> c, use |-> CaptureOf(c, d).source.use]

\* What counts of the single holders after a capture: what was fetched does not,
\* and neither does what is captured of it.
LEMMA HeldAfter ==
  ASSUME Sound, ContextsGoOn, NEW c, Capturing(c), NEW d \in Data
  PROVE  IF d \in Requested(c) /\ ~Fetched(handles[<<c, d>>].use)
         THEN /\ HeldBy(c, d) \in HeldOwn(d)
              /\ HeldOwn(d)' = (HeldOwn(d) \ {HeldBy(c, d)}) \cup {LeftUseOf(c, d)}
                                 \cup (IF Making(c) THEN {CapturedUseOf(c, d)} ELSE {})
         ELSE HeldOwn(d)' = HeldOwn(d)
<1>1. Kept
  BY DEF Sound
<1>2. HoldersAfter(c, d) /\ c \in Contexts' /\ (Making(c) => Place(c) \in Contexts')
  BY <1>1, CapturedHolders
<1>3. /\ c \in Contexts /\ Place(c) # c /\ Place(c) \notin Contexts
  BY <1>1, CapturingIs, PlaceIsNew DEF Kept
<1>4. Contexts \subseteq Contexts' /\ DOMAIN handles \subseteq Contexts \X Data
  BY <1>1 DEF ContextsGoOn, Kept, HoldersKept
<1>5. \A x : <<x, d>> \in DOMAIN handles => x \in Contexts
  BY <1>4
<1>6. CASE d \notin Requested(c)
  <2>1. HoldersSame(d)
    BY <1>2, <1>6 DEF HoldersAfter, HoldersSame
  <2> QED
    BY <1>1, <1>6, <2>1, HeldStays
<1>7. CASE d \in Requested(c) /\ Fetched(handles[<<c, d>>].use)
  <2>1. /\ Served(handles, <<c, d>>, RequestsOf(c)[d])
        /\ <<c, d>> \in DOMAIN handles
    BY <1>2, <1>7 DEF HoldersAfter, Served
  <2>2. CaptureOf(c, d).source = handles[<<c, d>>] /\ Fetched(CaptureOf(c, d).captured.use)
    BY <1>7, <2>1, FetchedStays DEF Fetched
  <2>3. ASSUME NEW x
        PROVE  /\ x \in Owners(d)' <=> x \in Owners(d)
               /\ x \in Owners(d) => HeldBy(x, d)' = HeldBy(x, d)
    <3>1. CASE x = Place(c)
      BY <1>2, <1>3, <1>7, <2>2, <3>1 DEF HoldersAfter, Owners, Fetched
    <3>2. CASE x = c
      BY <1>2, <1>3, <1>7, <2>1, <2>2, <3>2 DEF HoldersAfter, Owners, Fetched
    <3>3. CASE x # c /\ x # Place(c)
      BY <1>2, <1>4, <1>5, <3>3 DEF HoldersAfter, Owners, Fetched, HeldBy
    <3> QED
      BY <3>1, <3>2, <3>3
  <2>4. HeldOwn(d)' = HeldOwn(d)
    BY <2>3 DEF HeldOwn
  <2> QED
    BY <1>7, <2>4
<1>8. CASE d \in Requested(c) /\ ~Fetched(handles[<<c, d>>].use)
  <2>1. /\ Served(handles, <<c, d>>, RequestsOf(c)[d])
        /\ <<c, d>> \in DOMAIN handles
    BY <1>2, <1>8 DEF HoldersAfter, Served
  <2>2. HasFlowsOf(handles[<<c, d>>].use, d)
    BY <1>8, <2>1, FetchedStays
  <2>3. \A u : u \in {CaptureOf(c, d).captured.use, CaptureOf(c, d).source.use} => ~Fetched(u)
    <3>1. ASSUME NEW u, u \in {CaptureOf(c, d).captured.use, CaptureOf(c, d).source.use}
          PROVE  ~Fetched(u)
      <4>1. HasFlowsOf(u, d)'
        BY <1>1, <1>8, <2>1, <2>2, <3>1, CaptureOwned
      <4> QED
        BY <4>1, OwnedNotFetched
    <3> QED
      BY <3>1
  <2>4. c \in Owners(d) /\ HeldBy(c, d) \in HeldOwn(d)
    BY <1>3, <1>8, <2>1 DEF Owners, HeldOwn
  <2>0. PICK p : p = Place(c)
    OBVIOUS
  <2>5. /\ c \in Owners(d)' /\ HeldBy(c, d)' = LeftUseOf(c, d)
        /\ Making(c) => p \in Owners(d)' /\ HeldBy(p, d)' = CapturedUseOf(c, d)
        /\ ~Making(c) => p \notin Owners(d)'
    <3>1. /\ handles'[<<c, d>>] = CaptureOf(c, d).source /\ <<c, d>> \in DOMAIN handles'
          /\ Making(c) => /\ <<Place(c), d>> \in DOMAIN handles'
                          /\ handles'[<<Place(c), d>>] = CaptureOf(c, d).captured
          /\ ~Making(c) => <<Place(c), d>> \notin DOMAIN handles'
      BY <1>2, <1>8, <2>1 DEF HoldersAfter
    <3>2. c \in Owners(d)' /\ HeldBy(c, d)' = LeftUseOf(c, d)
      BY <1>2, <2>3, <3>1 DEF Owners, HeldBy, LeftUseOf, Fetched
    <3>3. ~Making(c) => p \notin Owners(d)'
      BY <2>0, <3>1 DEF Owners
    <3>4. ASSUME Making(c)
          PROVE  p \in Owners(d)' /\ HeldBy(p, d)' = CapturedUseOf(c, d)
      BY <1>2, <2>0, <2>3, <3>1, <3>4 DEF Owners, HeldBy, CapturedUseOf, Fetched
    <3> QED
      BY <3>2, <3>3, <3>4
  <2>6. ASSUME NEW x, x # c, x # p
        PROVE  /\ x \in Owners(d)' <=> x \in Owners(d)
               /\ x \in Owners(d) => HeldBy(x, d)' = HeldBy(x, d)
    BY <1>2, <1>4, <1>5, <2>0, <2>6 DEF HoldersAfter, Owners, Fetched, HeldBy
  <2>7. p \notin Owners(d)
    BY <1>3, <2>0 DEF Owners
  <2>8. \A x : x # c => HeldBy(x, d) # HeldBy(c, d)
    BY DEF HeldBy
  <2>9. HeldOwn(d)' = (HeldOwn(d) \ {HeldBy(c, d)}) \cup {LeftUseOf(c, d)}
                        \cup (IF Making(c) THEN {CapturedUseOf(c, d)} ELSE {})
    <3>1. Owners(d)' = Owners(d) \cup (IF Making(c) THEN {p} ELSE {})
      BY <2>4, <2>5, <2>6, <2>7
    <3>2. HeldOwn(d) \ {HeldBy(c, d)} = {HeldBy(x, d) : x \in Owners(d) \ {c}}
      BY <2>8 DEF HeldOwn
    <3>3. ASSUME NEW u \in HeldOwn(d)'
          PROVE  u \in (HeldOwn(d) \ {HeldBy(c, d)}) \cup {LeftUseOf(c, d)}
                          \cup (IF Making(c) THEN {CapturedUseOf(c, d)} ELSE {})
      <4>1. PICK x : x \in Owners(d)' /\ u = HeldBy(x, d)'
        BY DEF HeldOwn
      <4> QED
        BY <2>5, <2>6, <3>1, <3>2, <4>1
    <3>4. \A u \in HeldOwn(d) \ {HeldBy(c, d)} : u \in HeldOwn(d)'
      <4>1. ASSUME NEW x \in Owners(d) \ {c} PROVE HeldBy(x, d) \in HeldOwn(d)'
        <5>1. x \in Owners(d)' /\ HeldBy(x, d)' = HeldBy(x, d)
          BY <2>6, <2>7
        <5>2. HeldBy(x, d)' \in HeldOwn(d)'
          BY <5>1 DEF HeldOwn
        <5> QED
          BY <5>1, <5>2
      <4> QED
        BY <3>2, <4>1
    <3>5. LeftUseOf(c, d) \in HeldOwn(d)' /\ (Making(c) => CapturedUseOf(c, d) \in HeldOwn(d)')
      <4>1. \A x : x \in Owners(d)' => HeldBy(x, d)' \in HeldOwn(d)'
        BY DEF HeldOwn
      <4> QED
        BY <2>5, <4>1
    <3> QED
      BY <3>3, <3>4, <3>5
  <2> QED
    BY <1>8, <2>4, <2>9
<1> QED
  BY <1>6, <1>7, <1>8

\* What a capture of a single datum takes, with flows that are new.
LEMMA CaptureTaken ==
  ASSUME Sound, CapturesSuffice, NEW d \in Data, NEW c, Capturing(c), d \in Requested(c)
  PROVE  /\ IsFresh(MadeFor(Append(Place(c), d)), d)
         /\ Takes(HeldBy(c, d).use, CapturedUseOf(c, d).use, LeftUseOf(c, d).use,
                  MadeFor(Append(Place(c), d)))
<1> DEFINE fresh == MadeFor(Append(Place(c), d))
<1>1. Kept
  BY DEF Sound
<1>2. /\ c \in Contexts /\ status[c] = "running" /\ HasOperation(c)
      /\ \E made, state : Operates(c, made, state)
  BY <1>1, CapturingIs
<1>3. /\ Place(c) \in Seq(Nat) /\ Place(c) # c /\ Place(c) \notin Contexts
  BY <1>1, <1>2, PlaceIsNew, ContextNames DEF Kept
<1>4. ~Performed(Place(c))
  BY <1>1, <1>2, NowPerformed
<1>5. IsFresh(fresh, d)
  BY <1>3, <1>4, FreshFlows
<1>6. Takes(HeldBy(c, d).use, CapturedUseOf(c, d).use, LeftUseOf(c, d).use, fresh)
  <2>1. Served(handles, <<c, d>>, RequestsOf(c)[d])
    BY <1>1, CapturedHolders DEF HoldersAfter
  <2>2. d \in DOMAIN RequestsOf(c)
    BY DEF Requested
  <2>3. CaseFor[<<PermissionsOf(handles[<<c, d>>].use), RequestsOf(c)[d]>>] \in SufficientCases(Backend)
    BY <1>2, <2>1, <2>2 DEF CapturesSuffice, Suffices
  <2>4. <<PermissionsOf(handles[<<c, d>>].use), RequestsOf(c)[d]>> \in DOMAIN CaseFor
    BY <2>1 DEF Served
  <2>5. Takes(handles[<<c, d>>].use, CaptureOf(c, d).captured.use, CaptureOf(c, d).source.use, fresh)
    BY <2>3, <2>4, OutcomeTakes DEF CaptureOf
  <2> QED
    BY <2>5 DEF HeldBy, CapturedUseOf, LeftUseOf
<1> QED
  BY <1>5, <1>6

\* A capture of a single datum keeps its generations apart.
LEMMA CaptureStaysApart ==
  ASSUME Sound, Sound', AnyStep, ContextsGoOn, NoneRuns, CapturesSuffice,
         NEW d \in Data, ApartFor(d), NEW c, Capturing(c), d \in Requested(c),
         HeldBy(c, d) \in HeldOwn(d),
         Own(d)' = (Own(d) \ {HeldBy(c, d)}) \cup {CapturedUseOf(c, d), LeftUseOf(c, d)}
  PROVE  Apart(FacesOf(alias, Own(d)'), FacesOf(alias, Active(d)'))
<1> DEFINE s == HeldBy(c, d)
           n == CapturedUseOf(c, d)
           rest == LeftUseOf(c, d)
           fresh == MadeFor(Append(Place(c), d))
<1>1. Kept
  BY DEF Sound
<1>2. /\ c \in Contexts /\ status[c] = "running" /\ HasOperation(c)
      /\ \E made, state : Operates(c, made, state)
  BY <1>1, CapturingIs
<1>3. Place(c) # c /\ Place(c) \notin Contexts
  BY <1>1, <1>2, PlaceIsNew DEF Kept
<1>5. IsFresh(fresh, d) /\ Takes(s.use, n.use, rest.use, fresh)
  BY CaptureTaken
<1>6. s \in Own(d) /\ s \in Active(d) /\ s.by = c /\ n.by = Place(c) /\ rest.by = c
  BY <1>2 DEF Own, Active, HeldBy, CapturedUseOf, LeftUseOf, Running
<1>8. rest.use = s.use => rest = s
  BY DEF HeldBy, LeftUseOf
<1>9. Active(d)' \subseteq (Active(d) \ {s}) \cup {rest}
  <2> SUFFICES ASSUME NEW u \in Active(d)' PROVE u \in (Active(d) \ {s}) \cup {rest}
    OBVIOUS
  <2>1. /\ u \in Own(d)'
        /\ Running(u.by) \/ u \in Active(d)
        /\ u \in Own(d) => u \in Active(d)
    BY ActiveComes
  <2>2. CASE u = n
    <3>1. u \in Active(d) /\ u # s
      BY <1>3, <1>6, <2>1, <2>2 DEF Running
    <3> QED
      BY <3>1
  <2>3. CASE u # n
    <3>1. u = rest \/ (u \in Own(d) /\ u # s)
      BY <2>1, <2>3
    <3> QED
      BY <2>1, <3>1
  <2> QED
    BY <2>2, <2>3
<1>10. \A u \in Own(d) : Yields(FaceOf(alias, s.use)) /\ FaceOf(alias, u.use).out = FaceOf(alias, s.use).out
         => u = s
  BY <1>6, OnlyOne
<1>11. Active(d) \subseteq Own(d)
  BY ActiveAreOwn
<1> HIDE DEF s, n, rest, fresh
<1>12. Own(d)' = (Own(d) \ {s}) \cup {n, rest}
  BY DEF s, n, rest
<1>13. CapturesFrom(alias, Own(d), Active(d), Own(d)', Active(d)', s, n, rest, fresh)
  BY <1>5, <1>6, <1>8, <1>9, <1>10, <1>12 DEF CapturesFrom, IsFresh
<1>14. NoFlow \notin DOMAIN alias
  BY NoFlowStands
<1> QED
  BY <1>11, <1>13, <1>14, CaptureApart DEF ApartFor

\* What counts is as it was, and so are the aliases.
LEMMA OwnSame ==
  ASSUME Sound, Sound', AnyStep, ContextsGoOn, NoneRuns, NEW d \in Data, ApartFor(d),
         Own(d)' = Own(d), \A u \in Own(d) : FaceOf(alias', u.use) = FaceOf(alias, u.use)
  PROVE  ApartFor(d)'
<1>1. Active(d)' \subseteq Active(d) /\ Active(d) \subseteq Own(d)
  BY ActiveComes, ActiveAreOwn
<1>2. FacesOf(alias', Active(d)') \subseteq FacesOf(alias, Active(d))
  BY <1>1 DEF FacesOf
<1>3. Apart(FacesOf(alias, Own(d)), FacesOf(alias', Active(d)'))
  BY <1>2, FewerRun DEF ApartFor
<1>4. FacesOf(alias', Own(d)') = FacesOf(alias, Own(d))
  BY DEF FacesOf
<1> QED
  BY <1>3, <1>4 DEF ApartFor

\* Elements are handed out only by making index tasks.
LEMMA HandedOutStays ==
  ASSUME Kept, program' = program, NEW made, Contexts' = Contexts \cup made,
         \A x \in made : ~IsIndexTask(x), NEW e \in Elements, NEW w
  PROVE  HandedOut(w, e)' <=> HandedOut(w, e)
<1>1. IsWork(w)' <=> IsWork(w)
  BY DEF IsWork
<1>2. Named
  BY DEF Kept, ContextsKept
<1>3. CASE ~IsWork(w)
  BY <1>1, <1>3 DEF HandedOut
<1>4. CASE IsWork(w)
  <2>1. TakerOf(w, e) \in IndexTasks(w)
    BY <1>2, <1>4, TakersOfElements
  <2>2. IsIndexTask(TakerOf(w, e))
    BY <1>2, <1>4, <2>1, IndexNames
  <2>3. TakerOf(w, e) \in Contexts' <=> TakerOf(w, e) \in Contexts
    BY <2>2
  <2> QED
    BY <1>1, <1>4, <2>3 DEF HandedOut, TakerOf
<1> QED
  BY <1>3, <1>4

\* Whole collections that are as they were count as they did.
LEMMA SharedStays ==
  ASSUME Kept, program' = program, NEW made, Contexts' = Contexts \cup made,
         \A x \in made : ~IsIndexTask(x), collections' = collections, NEW d \in Data
  PROVE  SharedOwn(d)' = SharedOwn(d)
<1>1. CASE d = Parameter
  BY <1>1 DEF SharedOwn
<1>2. CASE d # Parameter
  <2>1. d \in Elements
    BY <1>2 DEF Data
  <2>2. \A w : HandedOut(w, d)' <=> HandedOut(w, d)
    BY <2>1, HandedOutStays
  <2>3. Keepers(d)' = Keepers(d)
    BY <2>2 DEF Keepers
  <2>4. \A w : SharedBy(w, d)' = SharedBy(w, d)
    BY DEF SharedBy
  <2> QED
    BY <1>2, <2>3, <2>4 DEF SharedOwn
<1> QED
  BY <1>1, <1>2

\* So do publications.
LEMMA PublishedStays ==
  ASSUME publications' = publications, NEW d
  PROVE  PublishedOf(d)' = PublishedOf(d)
BY DEF PublishedOf, Unreleased, PublishedUse

\* What counts of a datum is held, shared or published.
LEMMA OwnParts ==
  Sound => \A d \in Data :
    /\ HeldOwn(d) \cap SharedOwn(d) = {}
    /\ PublishedOf(d) \cap (HeldOwn(d) \cup SharedOwn(d)) = {}
<1> SUFFICES ASSUME Sound, NEW d \in Data
             PROVE  /\ HeldOwn(d) \cap SharedOwn(d) = {}
                    /\ PublishedOf(d) \cap (HeldOwn(d) \cup SharedOwn(d)) = {}
  OBVIOUS
<1>1. \A u \in HeldOwn(d) : u.by \in Contexts /\ <<u.by, d>> \in DOMAIN handles
  <2>1. \A c \in Owners(d) : c \in Contexts /\ <<c, d>> \in DOMAIN handles
    BY DEF Owners
  <2>2. \A c : HeldBy(c, d).by = c
    BY DEF HeldBy
  <2> QED
    BY <2>1, <2>2 DEF HeldOwn
<1>2. \A u \in SharedOwn(d) : u.by \in DOMAIN collections /\ d # Parameter
  BY DEF SharedOwn, SharedBy, Keepers
<1>3. \A u \in PublishedOf(d) : u.by \notin Contexts
  <2>1. \A p \in DOMAIN publications : publications[p].at \notin Contexts
    BY PublicationsApart
  <2> QED
    BY <2>1 DEF PublishedOf, PublishedUse, Unreleased
<1>4. DOMAIN collections \subseteq Contexts
  BY DEF Sound, Kept, HoldersKept
<1>5. HeldOwn(d) \cap SharedOwn(d) = {}
  <2> SUFFICES ASSUME NEW u, u \in HeldOwn(d), u \in SharedOwn(d) PROVE FALSE
    OBVIOUS
  <2>1. ~IsIndexTask(u.by) /\ ~IsBeneath(u.by)
    BY <1>2 DEF Sound, HoldersApart
  <2>2. /\ <<u.by, d>> \in DOMAIN handles /\ d # Parameter
        /\ <<u.by, d>>[1] = u.by /\ <<u.by, d>>[2] = d
    BY <1>1, <1>2
  <2>3. IsIndexTask(u.by) \/ IsBeneath(u.by)
    BY <2>2 DEF Sound, HoldersApart
  <2> QED
    BY <2>1, <2>3
<1> QED
  BY <1>1, <1>2, <1>3, <1>4, <1>5

\* What counts is known by another use, of somebody who does not run.
LEMMA SameFace ==
  ASSUME Sound, Sound', AnyStep, ContextsGoOn, NoneRuns, NEW d \in Data, ApartFor(d),
         alias' = alias, NEW s \in Own(d), NEW n, ~Running(n.by),
         FaceOf(alias, n.use) = FaceOf(alias, s.use),
         NEW gone \in SUBSET {s}, Own(d)' = (Own(d) \ gone) \cup {n}
  PROVE  ApartFor(d)'
<1>1. Active(d)' \subseteq Active(d)
  <2> SUFFICES ASSUME NEW u \in Active(d)' PROVE u \in Active(d)
    OBVIOUS
  <2>1. /\ u \in Own(d)'
        /\ Running(u.by) \/ u \in Active(d)
        /\ u \in Own(d) => u \in Active(d)
    BY ActiveComes
  <2> QED
    BY <2>1
<1>2. FacesOf(alias, Active(d)') \subseteq FacesOf(alias, Active(d))
  BY <1>1 DEF FacesOf
<1>3. Apart(FacesOf(alias, Own(d)), FacesOf(alias, Active(d)'))
  BY <1>2, FewerRun DEF ApartFor
<1>4. FacesOf(alias, Own(d)') = FacesOf(alias, Own(d))
  <2>1. \A u \in (Own(d) \ gone) \cup {n} : FaceOf(alias, u.use) \in FacesOf(alias, Own(d))
    BY DEF FacesOf
  <2>2. \A u \in Own(d) : \E v \in (Own(d) \ gone) \cup {n} :
          FaceOf(alias, v.use) = FaceOf(alias, u.use)
    OBVIOUS
  <2> QED
    BY <2>1, <2>2 DEF FacesOf
<1> QED
  BY <1>3, <1>4 DEF ApartFor

\* What no longer counts had nothing to produce, or was a running writer.
LEMMA FaceLost ==
  ASSUME Sound, Sound', AnyStep, ContextsGoOn, NoneRuns, NEW d \in Data, ApartFor(d),
         NEW s \in Own(d), Own(d)' = Own(d) \ {s},
         Yields(FaceOf(alias, s.use)) => s \in Active(d) /\ Writes(FaceOf(alias, s.use)),
         \A u \in Own(d) \ {s} : FaceOf(alias', u.use) = FaceOf(alias, u.use)
  PROVE  ApartFor(d)'
<1>1. Active(d)' \subseteq Own(d)' /\ Active(d)' \subseteq Active(d) /\ Active(d) \subseteq Own(d)
  <2>1. \A u \in Active(d)' : u \in Own(d)' /\ (u \in Own(d) => u \in Active(d))
    BY ActiveComes
  <2> QED
    BY <2>1, ActiveAreOwn
<1> DEFINE faces   == FacesOf(alias, Own(d))
           running == FacesOf(alias, Active(d))
           left    == FacesOf(alias, Own(d) \ {s})
           still   == FacesOf(alias, Active(d)')
           face    == FaceOf(alias, s.use)
<1>2. Apart(faces, running)
  BY DEF ApartFor
<1>3. face \in faces /\ left \subseteq faces /\ faces \ left \subseteq {face}
  BY DEF FacesOf
<1>4. still \subseteq running /\ still \subseteq left
  BY <1>1 DEF FacesOf
<1>5. Yields(face) => face \in running /\ Writes(face)
  BY DEF FacesOf
<1> HIDE DEF faces, running, left, still, face
<1>6. Apart(left, still)
  BY <1>2, <1>3, <1>4, <1>5, FaceGoes
<1>7. FacesOf(alias', Own(d)') = left
  BY DEF left, FacesOf
<1>8. FacesOf(alias', Active(d)') = still
  BY <1>1 DEF still, FacesOf
<1> QED
  BY <1>6, <1>7, <1>8 DEF ApartFor

(***************************************************************************)
(* Every step keeps the generations of each datum apart                    *)
(***************************************************************************)
\* Outside of works a task captures the parameter, if it is asked for.
LEMMA ParameterStaysApart ==
  ASSUME Sound, Sound', AnyStep, ContextsGoOn, NoneRuns, CapturesSuffice,
         NEW c, NEW state, Creates(c, state), ApartFor(Parameter)
  PROVE  ApartFor(Parameter)'
<1>1. Kept /\ Parameter \in Data /\ Capturing(c) /\ Making(c) /\ alias' = alias
  BY ElementsAreNumbers DEF Sound, Creates, Capturing, Making
<1>2. Own(Parameter) = HeldOwn(Parameter) /\ Own(Parameter)' = HeldOwn(Parameter)'
  BY DEF Own, SharedOwn, PublishedOf
<1>3. CASE Parameter \in Requested(c)
  <2>1. <<c, Parameter>> \in DOMAIN handles /\ <<c, Parameter>>[2] = Parameter
    BY <1>1, <1>3, CapturedHolders DEF HoldersAfter, Served
  <2>2. ~Fetched(handles[<<c, Parameter>>].use)
    BY <2>1 DEF Sound, HoldersApart
  <2>3. /\ HeldBy(c, Parameter) \in HeldOwn(Parameter)
        /\ HeldOwn(Parameter)' = (HeldOwn(Parameter) \ {HeldBy(c, Parameter)})
                                   \cup {LeftUseOf(c, Parameter)} \cup {CapturedUseOf(c, Parameter)}
    BY <1>1, <1>3, <2>2, HeldAfter
  <2>4. Own(Parameter)' = (Own(Parameter) \ {HeldBy(c, Parameter)})
                            \cup {CapturedUseOf(c, Parameter), LeftUseOf(c, Parameter)}
    BY <1>2, <2>3
  <2>5. Apart(FacesOf(alias, Own(Parameter)'), FacesOf(alias, Active(Parameter)'))
    BY <1>1, <1>3, <2>3, <2>4, CaptureStaysApart
  <2> QED
    BY <1>1, <2>5 DEF ApartFor
<1>4. CASE Parameter \notin Requested(c)
  <2>1. HeldOwn(Parameter)' = HeldOwn(Parameter)
    BY <1>1, <1>4, HeldAfter
  <2>2. Own(Parameter)' = Own(Parameter) /\ \A u \in Own(Parameter) : FaceOf(alias', u.use) = FaceOf(alias, u.use)
    BY <1>1, <1>2, <2>1
  <2> QED
    BY <1>1, <2>2, OwnSame
<1> QED
  BY <1>3, <1>4

\* What a capture of the whole collection makes and leaves of an element.
CapturedPartOf(c, e) == [by |-> Place(c), use |-> ElementView(WholeCapture(c).captured.use, e)]
LeftPartOf(c, e)     == [by |-> c, use |-> ElementView(WholeCapture(c).source.use, e)]

\* What counts of whole collections after such a capture.
LEMMA SharedAfter ==
  ASSUME Sound, NEW c, NEW state, Creates(c, state), NEW e \in Elements,
         RequestOfWhole(c) # NoRequest
  PROVE  /\ Served(collections, c, RequestOfWhole(c))
         /\ SharedBy(c, e) \in SharedOwn(e)
         /\ SharedOwn(e)' = (SharedOwn(e) \ {SharedBy(c, e)}) \cup {CapturedPartOf(c, e), LeftPartOf(c, e)}
<1>1. Kept /\ ContextsKept /\ Named
  BY DEF Sound, Kept, ContextsKept
<1>2. /\ c \in Contexts /\ status[c] = "running" /\ ~IsWork(c) /\ Place(c) \notin Contexts
      /\ Place(c) # c /\ ~IsIndexTask(Place(c))
      /\ Contexts' = Contexts \cup {Place(c)} /\ program' = program
  <2>1. Operates(c, {Place(c)}, state) /\ ~IsIndexTask(c)
    BY DEF Creates
  <2>2. c \in Contexts /\ status[c] = "running"
    BY <2>1 DEF Operates
  <2>3. Contexts' = Contexts \cup {Place(c)} /\ program' = program
    BY <1>1, <2>1, OperatesGoOn
  <2>4. ~IsWork(c) /\ Place(c) \notin Contexts /\ ~IsIndexTask(Place(c))
    BY <1>1, <2>2, NamesApart
  <2> QED
    BY <2>2, <2>3, <2>4
<1>3. /\ Served(collections, c, RequestOfWhole(c)) /\ c \in DOMAIN collections
      /\ DOMAIN collections' = DOMAIN collections \cup {Place(c)}
      /\ collections'[c] = WholeCapture(c).source
      /\ collections'[Place(c)] = WholeCapture(c).captured
      /\ \A x \in DOMAIN collections \ {c} : collections'[x] = collections[x]
  BY DEF Creates, WholeTaken, TakenOnce, Taken, WholeCapture, Served
<1>4. DOMAIN collections \subseteq Contexts
  BY <1>1 DEF Kept, HoldersKept
<1>5. \A w : HandedOut(w, e)' <=> HandedOut(w, e)
  <2>1. PICK made : made = {Place(c)}
    OBVIOUS
  <2>2. Contexts' = Contexts \cup made /\ \A x \in made : ~IsIndexTask(x)
    BY <1>2, <2>1
  <2> QED
    BY <1>1, <1>2, <2>2, HandedOutStays
<1>6. PICK p : p = Place(c)
  OBVIOUS
<1>7. ~HandedOut(c, e) /\ ~HandedOut(p, e)
  <2>1. ~HandedOut(c, e)
    BY <1>2 DEF HandedOut
  <2>2. ASSUME HandedOut(p, e) PROVE FALSE
    <3>1. IsWork(p) /\ TakerOf(p, e) \in Contexts
      BY <2>2 DEF HandedOut, TakerOf
    <3>2. TakerOf(p, e) \in IndexTasks(p)
      BY <1>1, <3>1, TakersOfElements
    <3>3. Front(TakerOf(p, e)) = p /\ TakerOf(p, e) # Root
      BY <1>1, <3>1, <3>2, IndexNames
    <3>4. p \in Contexts
      BY <1>1, <3>1, <3>3 DEF ContextsKept, Numbered
    <3> QED
      BY <1>2, <1>6, <3>4
  <2> QED
    BY <2>1, <2>2
<1>8. Keepers(e)' = Keepers(e) \cup {p} /\ c \in Keepers(e) /\ p \notin Keepers(e)
  BY <1>2, <1>3, <1>4, <1>5, <1>6, <1>7 DEF Keepers
<1>9. SharedBy(c, e)' = LeftPartOf(c, e) /\ SharedBy(p, e)' = CapturedPartOf(c, e)
  BY <1>3, <1>6 DEF SharedBy, LeftPartOf, CapturedPartOf
<1>10. \A x \in Keepers(e) \ {c} : SharedBy(x, e)' = SharedBy(x, e)
  BY <1>3 DEF SharedBy, Keepers
<1>11. \A x : x # c => SharedBy(x, e) # SharedBy(c, e)
  BY DEF SharedBy
<1>12. e # Parameter
  BY ElementsAreNumbers
<1>13. SharedOwn(e) = {SharedBy(x, e) : x \in Keepers(e)}
  BY <1>12 DEF SharedOwn
<1>14. SharedOwn(e)' = (SharedOwn(e) \ {SharedBy(c, e)}) \cup {CapturedPartOf(c, e), LeftPartOf(c, e)}
  <2>1. ASSUME NEW u \in SharedOwn(e)'
        PROVE  u \in (SharedOwn(e) \ {SharedBy(c, e)}) \cup {CapturedPartOf(c, e), LeftPartOf(c, e)}
    <3>1. PICK x : x \in Keepers(e)' /\ u = SharedBy(x, e)'
      BY <1>12 DEF SharedOwn
    <3> QED
      BY <1>8, <1>9, <1>10, <1>11, <1>13, <3>1
  <2>2. \A x : x \in Keepers(e)' => SharedBy(x, e)' \in SharedOwn(e)'
    BY <1>12 DEF SharedOwn
  <2>3. ASSUME NEW x \in Keepers(e), x # c PROVE SharedBy(x, e) \in SharedOwn(e)'
    <3>1. SharedBy(x, e)' \in SharedOwn(e)'
      BY <1>8, <2>2
    <3> QED
      BY <1>10, <2>3, <3>1
  <2>4. \A u \in SharedOwn(e) \ {SharedBy(c, e)} : u \in SharedOwn(e)'
    BY <1>13, <2>3
  <2>5. CapturedPartOf(c, e) \in SharedOwn(e)' /\ LeftPartOf(c, e) \in SharedOwn(e)'
    BY <1>8, <1>9, <2>2
  <2> QED
    BY <2>1, <2>4, <2>5
<1> QED
  BY <1>3, <1>8, <1>13, <1>14

\* A capture of the whole collection keeps the generations of an element apart.
LEMMA PartCaptureApart ==
  ASSUME Sound, Sound', AnyStep, ContextsGoOn, NoneRuns, CapturesSuffice,
         NEW c, NEW state, Creates(c, state), NEW e \in Elements, ApartFor(e),
         RequestOfWhole(c) # NoRequest,
         Own(e)' = (Own(e) \ {SharedBy(c, e)}) \cup {CapturedPartOf(c, e), LeftPartOf(c, e)}
  PROVE  ApartFor(e)'
<1> DEFINE s == SharedBy(c, e)
           n == CapturedPartOf(c, e)
           rest == LeftPartOf(c, e)
           fresh == PartsMadeFor(Place(c), e)
<1>1. Kept /\ e \in Data /\ alias' = alias /\ Capturing(c)
  BY ElementsAreNumbers DEF Sound, Creates, Capturing, Making
<1>2. /\ c \in Contexts /\ status[c] = "running" /\ HasOperation(c)
      /\ \E made, st : Operates(c, made, st)
  BY <1>1, CapturingIs
<1>3. /\ Place(c) \in Seq(Nat) /\ Place(c) # c /\ Place(c) \notin Contexts
  BY <1>1, <1>2, PlaceIsNew, ContextNames DEF Kept
<1>4. ~Performed(Place(c))
  BY <1>1, <1>2, NowPerformed
<1>5. IsFresh(fresh, e)
  BY <1>1, <1>3, <1>4, FreshFlows
<1>6. s \in Own(e) /\ s \in Active(e) /\ s.by = c /\ n.by = Place(c) /\ rest.by = c
  <2>1. s \in SharedOwn(e)
    BY SharedAfter
  <2> QED
    BY <1>2, <2>1 DEF Own, Active, SharedBy, CapturedPartOf, LeftPartOf, Running
<1>7. Takes(s.use, n.use, rest.use, fresh) /\ (rest.use = s.use => rest = s)
  <2>1. Served(collections, c, RequestOfWhole(c))
    BY SharedAfter
  <2>2. CaseFor[<<PermissionsOf(collections[c].use), RequestOfWhole(c)>>] \in SufficientCases(Backend)
    BY <1>2, <2>1 DEF CapturesSuffice, Suffices
  <2>3. /\ <<PermissionsOf(collections[c].use), RequestOfWhole(c)>> \in DOMAIN CaseFor
        /\ c \in DOMAIN collections
    BY <2>1 DEF Served
  <2> DEFINE sw == collections[c].use
             nw == WholeCapture(c).captured.use
             rw == WholeCapture(c).source.use
  <2>4. Takes(sw, nw, rw, MadeFor(Place(c)))
    BY <2>2, <2>3, OutcomeTakes DEF WholeCapture
  <2>5. IsHolderOf(collections[c], WholeFlows)
    BY <1>1, <2>3 DEF Kept, HoldersKept, HoldersHave
  <2>6. HasMadeBy(WholeFlows, Place(c))
    BY <1>3, AllAreMade, MadeByEach
  <2>7. IsHolderOf(WholeCapture(c).captured, WholeFlows) /\ IsHolderOf(WholeCapture(c).source, WholeFlows)
    BY <2>3, <2>5, <2>6, OutcomeTyped DEF WholeCapture
  <2>8. /\ IsViewOf(ElementView(sw, e), sw, e)
        /\ IsViewOf(ElementView(nw, e), nw, e)
        /\ IsViewOf(ElementView(rw, e), rw, e)
    BY <2>5, <2>7, ViewOf DEF IsViewOf
  <2>9. rw = sw => ElementView(rw, e) = ElementView(sw, e)
    OBVIOUS
  <2> HIDE DEF sw, nw, rw
  <2>10. Takes(ElementView(sw, e), ElementView(nw, e), ElementView(rw, e), fresh)
    BY <2>4, <2>8, <2>9, ViewTakes
  <2> QED
    BY <2>10 DEF sw, nw, rw, SharedBy, CapturedPartOf, LeftPartOf
<1>8. Active(e)' \subseteq (Active(e) \ {s}) \cup {rest}
  <2> SUFFICES ASSUME NEW u \in Active(e)' PROVE u \in (Active(e) \ {s}) \cup {rest}
    OBVIOUS
  <2>1. /\ u \in Own(e)'
        /\ Running(u.by) \/ u \in Active(e)
        /\ u \in Own(e) => u \in Active(e)
    BY <1>1, ActiveComes
  <2>2. CASE u = n
    <3>1. u \in Active(e) /\ u # s
      BY <1>3, <1>6, <2>1, <2>2 DEF Running
    <3> QED
      BY <3>1
  <2>3. CASE u # n
    <3>1. u = rest \/ (u \in Own(e) /\ u # s)
      BY <2>1, <2>3
    <3> QED
      BY <2>1, <3>1
  <2> QED
    BY <2>2, <2>3
<1>9. \A u \in Own(e) : Yields(FaceOf(alias, s.use)) /\ FaceOf(alias, u.use).out = FaceOf(alias, s.use).out
         => u = s
  BY <1>1, <1>6, OnlyOne
<1>10. Active(e) \subseteq Own(e)
  BY <1>1, ActiveAreOwn
<1> HIDE DEF s, n, rest, fresh
<1>11. Own(e)' = (Own(e) \ {s}) \cup {n, rest}
  BY DEF s, n, rest
<1>12. CapturesFrom(alias, Own(e), Active(e), Own(e)', Active(e)', s, n, rest, fresh)
  BY <1>5, <1>6, <1>7, <1>8, <1>9, <1>11 DEF CapturesFrom, IsFresh
<1>13. NoFlow \notin DOMAIN alias
  BY NoFlowStands
<1>14. Apart(FacesOf(alias, Own(e)'), FacesOf(alias, Active(e)'))
  BY <1>10, <1>12, <1>13, CaptureApart DEF ApartFor
<1> QED
  BY <1>1, <1>14 DEF ApartFor

\* So creating a task, a reduction or a work keeps them apart.
LEMMA CreatesApart ==
  ASSUME Sound, Sound', AnyStep, ContextsGoOn, NoneRuns, CapturesSuffice,
         NEW c, NEW state, Creates(c, state), NEW d \in Data, ApartFor(d)
  PROVE  ApartFor(d)'
<1>1. /\ Kept /\ ContextsKept /\ Capturing(c) /\ alias' = alias
      /\ Operates(c, {Place(c)}, state) /\ publications' = publications
      /\ Requested(c) \subseteq {Parameter}
  BY DEF Sound, Kept, Creates, Capturing, Making
<1>2. CASE d = Parameter
  BY <1>2, ParameterStaysApart
<1>3. CASE d # Parameter
  <2>1. d \in Elements /\ d \notin Requested(c)
    BY <1>1, <1>3 DEF Data
  <2>2. HeldOwn(d)' = HeldOwn(d)
    BY <1>1, <2>1, HeldAfter
  <2>3. PublishedOf(d)' = PublishedOf(d)
    BY <1>1, PublishedStays
  <2>4. CASE RequestOfWhole(c) # NoRequest
    <3>1. /\ SharedBy(c, d) \in SharedOwn(d)
          /\ SharedOwn(d)' = (SharedOwn(d) \ {SharedBy(c, d)}) \cup {CapturedPartOf(c, d), LeftPartOf(c, d)}
      BY <2>1, <2>4, SharedAfter
    <3>2. SharedBy(c, d) \notin HeldOwn(d) \cup PublishedOf(d)
      BY <3>1, OwnParts
    <3>3. Own(d)' = HeldOwn(d)' \cup SharedOwn(d)' \cup PublishedOf(d)'
      BY DEF Own
    <3>4. Own(d)' = (Own(d) \ {SharedBy(c, d)}) \cup {CapturedPartOf(c, d), LeftPartOf(c, d)}
      BY <2>2, <2>3, <3>1, <3>2, <3>3 DEF Own
    <3> QED
      BY <2>1, <2>4, <3>4, PartCaptureApart
  <2>5. CASE RequestOfWhole(c) = NoRequest
    <3>1. collections' = collections
      BY <2>5 DEF Creates, WholeTaken, TakenOnce
    <3>2. c \in Contexts /\ status[c] = "running"
      BY <1>1 DEF Operates
    <3>3. /\ Contexts' = Contexts \cup {Place(c)} /\ program' = program
          /\ \A x \in {Place(c)} : ~IsIndexTask(x)
      <4>1. Contexts' = Contexts \cup {Place(c)} /\ program' = program
        BY <1>1, OperatesGoOn
      <4>2. ~IsIndexTask(Place(c))
        BY <1>1, <3>2, NamesApart
      <4> QED
        BY <4>1, <4>2
    <3>4. SharedOwn(d)' = SharedOwn(d)
      BY <1>1, <3>1, <3>3, SharedStays
    <3>5. Own(d)' = Own(d)
      BY <2>2, <2>3, <3>4 DEF Own
    <3> QED
      BY <1>1, <3>5, OwnSame
  <2> QED
    BY <2>4, <2>5
<1> QED
  BY <1>2, <1>3

\* An index task captures single elements for what it makes.
LEMMA CreatesBeneathApart ==
  ASSUME Sound, Sound', AnyStep, ContextsGoOn, NoneRuns, CapturesSuffice,
         NEW t, CreatesBeneath(t), NEW d \in Data, ApartFor(d)
  PROVE  ApartFor(d)'
<1>1. /\ Kept /\ ContextsKept /\ Capturing(t) /\ Making(t) /\ alias' = alias
      /\ Operates(t, {Place(t)}, "pending") /\ publications' = publications
      /\ collections' = collections
  BY DEF Sound, Kept, CreatesBeneath, Capturing, Making
<1>2. PublishedOf(d)' = PublishedOf(d)
  BY <1>1, PublishedStays
<1>3. SharedOwn(d)' = SharedOwn(d)
  <2>1. t \in Contexts /\ status[t] = "running"
    BY <1>1 DEF Operates
  <2>2. Contexts' = Contexts \cup {Place(t)} /\ program' = program
    BY <1>1, OperatesGoOn
  <2>3. \A x \in {Place(t)} : ~IsIndexTask(x)
    BY <1>1, <2>1, NamesApart
  <2> QED
    BY <1>1, <2>2, <2>3, SharedStays
<1>4. Own(d)' = HeldOwn(d)' \cup SharedOwn(d)' \cup PublishedOf(d)'
  BY DEF Own
<1>5. CASE d \in Requested(t) /\ ~Fetched(handles[<<t, d>>].use)
  <2>1. /\ HeldBy(t, d) \in HeldOwn(d)
        /\ HeldOwn(d)' = (HeldOwn(d) \ {HeldBy(t, d)}) \cup {LeftUseOf(t, d)} \cup {CapturedUseOf(t, d)}
    BY <1>1, <1>5, HeldAfter
  <2>2. HeldBy(t, d) \notin SharedOwn(d) \cup PublishedOf(d)
    BY <2>1, OwnParts
  <2>3. Own(d)' = (Own(d) \ {HeldBy(t, d)}) \cup {CapturedUseOf(t, d), LeftUseOf(t, d)}
    BY <1>2, <1>3, <1>4, <2>1, <2>2 DEF Own
  <2>4. Apart(FacesOf(alias, Own(d)'), FacesOf(alias, Active(d)'))
    BY <1>1, <1>5, <2>1, <2>3, CaptureStaysApart
  <2> QED
    BY <1>1, <2>4 DEF ApartFor
<1>6. CASE ~(d \in Requested(t) /\ ~Fetched(handles[<<t, d>>].use))
  <2>1. HeldOwn(d)' = HeldOwn(d)
    BY <1>1, <1>6, HeldAfter
  <2>2. Own(d)' = Own(d)
    BY <1>2, <1>3, <1>4, <2>1 DEF Own
  <2> QED
    BY <1>1, <2>2, OwnSame
<1> QED
  BY <1>5, <1>6

\* What counts of a datum after a step has flows of it then.
LEMMA OwnFlowsAfter == Sound' => (\A d \in Data : \A u \in Own(d) : HasFlowsOf(u.use, d))'
<1>1. Sound => \A d \in Data : \A u \in Own(d) : HasFlowsOf(u.use, d)
  BY OwnFlows
<1> QED
  BY <1>1, PTL

\* What is of a datum is known as it was when something is published.
LEMMA PublishedFaces ==
  ASSUME Sound, NEW t, Publishes(t), NEW u,
         u.in \notin FetchFlows, u.out \notin FetchFlows,
         u.anti_in \notin FetchFlows, u.anti_out \notin FetchFlows
  PROVE  FaceOf(alias', u) = FaceOf(alias, u)
<1>1. AliasesOwned
  BY DEF Sound, FlowsOwned, AliasesOwned
<1> DEFINE links == {<<VersionIn(Front(t), e), PublicationOf(t, e).use.in>> : e \in PublishedElements(t)}
<1>2. alias' = EstablishAliases(links)
  BY DEF Publishes
<1>3. \A l \in links : l[1] \in FetchFlows /\ l[1] \notin DOMAIN alias
  <2>1. \A e \in PublishedElements(t) :
          VersionIn(Front(t), e) \in FetchFlows /\ VersionIn(Front(t), e) \notin DOMAIN alias
    BY PublicationIs
  <2> QED
    BY <2>1
<1> HIDE DEF links
<1>4. \A f : f \notin FetchFlows => Representative(alias', f) = Representative(alias, f)
  BY <1>1, <1>2, <1>3, FetchLinks
<1> QED
  BY <1>4 DEF FaceOf, LevelOf, NextOf, CountedOf

\* What is published counts from then on.
LEMMA PublishedAfter ==
  ASSUME Sound, NEW t, Publishes(t), NEW d \in Data
  PROVE  PublishedOf(d)' = PublishedOf(d) \cup (IF d \in PublishedElements(t) THEN {CapturedUseOf(t, d)} ELSE {})
<1>1. Kept /\ PublishedElements(t) \subseteq Elements
  BY DEF Sound, Publishes
<1>2. CASE d \in PublishedElements(t)
  <2>1. d \in PublishedElements(t) /\ d \in Elements /\ d # Parameter
    BY <1>1, <1>2, ElementsAreNumbers
  <2>2. /\ <<Front(t), d>> \notin DOMAIN publications
        /\ CaptureOf(t, d).captured.use = PublicationOf(t, d).use
    BY <2>1, PublicationIs
  <2>4. PublishedOf(d)' = PublishedOf(d) \cup {CapturedUseOf(t, d)}
    <3>1. PICK p : p = <<Front(t), d>>
      OBVIOUS
    <3>2. p[1] = Front(t) /\ p[2] = d
      BY <3>1
    <3>3. /\ DOMAIN publications' = DOMAIN publications \cup {<<Front(t), e>> : e \in PublishedElements(t)}
          /\ publications'[p] = PublicationOf(t, d)
          /\ p \in DOMAIN publications' /\ p \notin DOMAIN publications
      BY <2>1, <2>2, <3>1 DEF Publishes
    <3>4. \A q \in DOMAIN publications : publications'[q] = publications[q]
      <4>1. \A e \in PublishedElements(t) : <<Front(t), e>> \notin DOMAIN publications
        BY PublicationIs
      <4> QED
        BY <4>1 DEF Publishes
    <3>5. \A q \in DOMAIN publications' : q \in DOMAIN publications \/ (q[2] = d => q = p)
      <4>1. \A e \in PublishedElements(t) : <<Front(t), e>>[2] = e
        OBVIOUS
      <4> QED
        BY <3>1, <3>3, <4>1
    <3>6. /\ publications'[p].at = Place(t) /\ publications'[p].use = CaptureOf(t, d).captured.use
          /\ ~publications'[p].released
      BY <2>2, <3>3 DEF PublicationOf
    <3>7. Unreleased(d)' = Unreleased(d) \cup {p} /\ p \notin Unreleased(d)
      BY <3>2, <3>3, <3>4, <3>5, <3>6 DEF Unreleased
    <3>8. PublishedUse(p)' = CapturedUseOf(t, d)
      BY <3>6 DEF PublishedUse, CapturedUseOf
    <3>9. \A q \in Unreleased(d) : PublishedUse(q)' = PublishedUse(q)
      BY <3>4 DEF Unreleased, PublishedUse
    <3>10. PublishedOf(d) = {PublishedUse(q) : q \in Unreleased(d)}
      BY <2>1 DEF PublishedOf
    <3>11. \A u : u \in PublishedOf(d)' <=> \E q \in Unreleased(d) \cup {p} : u = PublishedUse(q)'
      BY <2>1, <3>7 DEF PublishedOf
    <3> QED
      BY <3>8, <3>9, <3>10, <3>11
  <2> QED
    BY <1>2, <2>4
<1>3. CASE d \notin PublishedElements(t)
  <2>1. PublishedOf(d)' = PublishedOf(d)
    <3>1. \A p \in DOMAIN publications' :
            p[2] = d => p \in DOMAIN publications /\ publications'[p] = publications[p]
      <4>1. \A e \in PublishedElements(t) : <<Front(t), e>>[2] = e
        OBVIOUS
      <4> QED
        BY <1>3, <4>1 DEF Publishes
    <3>2. DOMAIN publications \subseteq DOMAIN publications'
      BY DEF Publishes
    <3>3. Unreleased(d)' = Unreleased(d)
      BY <3>1, <3>2 DEF Unreleased
    <3>4. \A p \in Unreleased(d) : PublishedUse(p)' = PublishedUse(p)
      BY <3>1, <3>2 DEF Unreleased, PublishedUse
    <3> QED
      BY <3>3, <3>4 DEF PublishedOf
  <2> QED
    BY <1>3, <2>1
<1> QED
  BY <1>2, <1>3

\* What counts is known by what it was known by, before and after.
LEMMA PublishedFacesStay ==
  ASSUME Sound, Sound', NEW t, Publishes(t), NEW d \in Data
  PROVE  /\ \A u \in Own(d) : FaceOf(alias', u.use) = FaceOf(alias, u.use)
         /\ \A u \in Own(d)' : FaceOf(alias', u.use) = FaceOf(alias, u.use)
<1>1. \A u \in Own(d) : FaceOf(alias', u.use) = FaceOf(alias, u.use)
  <2>1. \A u \in Own(d) : HasFlowsOf(u.use, d)
    BY OwnFlows
  <2>2. NoFlow \notin FetchFlows
    BY FlowSetsApart
  <2> QED
    BY <2>1, <2>2, OwnedIsApart, PublishedFaces DEF HasFlowsOf
<1>2. (\A e \in Data : \A u \in Own(e) : HasFlowsOf(u.use, e))'
  BY OwnFlowsAfter
<1>3. ASSUME NEW u, u \in Own(d)' PROVE HasFlowsOf(u.use, d)'
  BY <1>2, <1>3
<1>4. NoFlow \notin FetchFlows
  BY FlowSetsApart
<1>5. ASSUME NEW u, u \in Own(d)' PROVE FaceOf(alias', u.use) = FaceOf(alias, u.use)
  <2>1. PICK v : v = u.use
    OBVIOUS
  <2>2. HasFlowsOf(v, d)'
    BY <1>3, <1>5, <2>1
  <2>3. \A f \in {v.in, v.out, v.anti_in, v.anti_out} : f = NoFlow \/ IsFlowOf(f, d)'
    BY <2>2 DEF HasFlowsOf
  <2>4. \A f \in {v.in, v.out, v.anti_in, v.anti_out} : f \notin FetchFlows
    BY <1>4, <2>3, OwnedIsApart
  <2> QED
    BY <2>1, <2>4, PublishedFaces
<1> QED
  BY <1>1, <1>5

\* Publishing is a capture of what is published.
LEMMA PublishesApart ==
  ASSUME Sound, Sound', AnyStep, ContextsGoOn, NoneRuns, CapturesSuffice,
         NEW t, Publishes(t), NEW d \in Data, ApartFor(d)
  PROVE  ApartFor(d)'
<1>1. /\ Kept /\ ContextsKept /\ Capturing(t) /\ Operates(t, {}, "pending")
      /\ collections' = collections /\ program' = program /\ Contexts' = Contexts \cup {}
      /\ IsIndexTask(t) /\ Requested(t) = PublishedElements(t)
  <2>1. Kept /\ ContextsKept /\ Capturing(t) /\ Operates(t, {}, "pending") /\ collections' = collections
    BY DEF Sound, Kept, Publishes, Capturing
  <2>2. program' = program /\ Contexts' = Contexts \cup {}
    BY <2>1, OperatesGoOn
  <2>3. IsIndexTask(t) /\ Requested(t) = PublishedElements(t)
    BY <2>1, CapturingIs DEF Publishes
  <2> QED
    BY <2>1, <2>2, <2>3
<1>2. SharedOwn(d)' = SharedOwn(d)
  BY <1>1, SharedStays
<1>3. Own(d)' = HeldOwn(d)' \cup SharedOwn(d)' \cup PublishedOf(d)'
  BY DEF Own
<1>4. ~Making(t)
  <2>1. ~CreatesBeneath(t)
    BY DEF Publishes, CreatesBeneath
  <2> QED
    BY <1>1, <2>1 DEF Making, Creates
<1>5. \A u \in Own(d) : FaceOf(alias', u.use) = FaceOf(alias, u.use)
  BY PublishedFacesStay
<1>6. CASE d \in Requested(t)
  <2>1. d \in PublishedElements(t) /\ d \in Elements /\ d # Parameter
    <3>1. d \in PublishedElements(t)
      BY <1>1, <1>6
    <3>2. PublishedElements(t) \subseteq Elements
      BY DEF Publishes
    <3> QED
      BY <3>1, <3>2, ElementsAreNumbers
  <2>2. /\ ~Fetched(handles[<<t, d>>].use) /\ <<Front(t), d>> \notin DOMAIN publications
        /\ CaptureOf(t, d).captured.use = PublicationOf(t, d).use
    BY <2>1, PublicationIs
  <2>3. /\ HeldBy(t, d) \in HeldOwn(d)
        /\ HeldOwn(d)' = (HeldOwn(d) \ {HeldBy(t, d)}) \cup {LeftUseOf(t, d)}
    BY <1>1, <1>4, <1>6, <2>2, HeldAfter
  <2>4. PublishedOf(d)' = PublishedOf(d) \cup {CapturedUseOf(t, d)}
    BY <2>1, PublishedAfter
  <2>5. HeldBy(t, d) \notin SharedOwn(d) \cup PublishedOf(d)
    BY <2>3, OwnParts
  <2>6. Own(d)' = (Own(d) \ {HeldBy(t, d)}) \cup {CapturedUseOf(t, d), LeftUseOf(t, d)}
    BY <1>2, <1>3, <2>3, <2>4, <2>5 DEF Own
  <2>7. Apart(FacesOf(alias, Own(d)'), FacesOf(alias, Active(d)'))
    BY <1>1, <1>6, <2>3, <2>6, CaptureStaysApart
  <2>8. \A u \in Own(d)' : FaceOf(alias', u.use) = FaceOf(alias, u.use)
    BY PublishedFacesStay
  <2>9. /\ FacesOf(alias', Own(d)') = FacesOf(alias, Own(d)')
        /\ FacesOf(alias', Active(d)') = FacesOf(alias, Active(d)')
    <3>1. (\A e \in Data : Active(e) \subseteq Own(e))'
      BY ActiveStayOwn
    <3>2. Active(d)' \subseteq Own(d)'
      BY <3>1
    <3> QED
      BY <2>8, <3>2 DEF FacesOf
  <2> QED
    BY <2>7, <2>9 DEF ApartFor
<1>7. CASE d \notin Requested(t)
  <2>1. HeldOwn(d)' = HeldOwn(d)
    BY <1>1, <1>7, HeldAfter
  <2>2. PublishedOf(d)' = PublishedOf(d)
    BY <1>1, <1>7, PublishedAfter
  <2>3. Own(d)' = Own(d)
    BY <1>2, <1>3, <2>1, <2>2 DEF Own
  <2> QED
    BY <1>5, <2>3, OwnSame
<1> QED
  BY <1>6, <1>7

\* What a fetch leaves as it is.
LEMMA FetchStays ==
  ASSUME Kept, NEW t \in Contexts, Fetch(t)
  PROVE  /\ IsIndexTask(t) /\ program' = program /\ Contexts' = Contexts \cup {}
         /\ collections' = collections /\ publications' = publications /\ alias' = alias
<1>1. About(t, "fetch") /\ Proceed(t, {}, "pending")
  BY DEF Fetch
<1>2. IsIndexTask(t) /\ status[t] = "running"
  BY <1>1, AboutIndex DEF Kept
<1>3. program' = program /\ collections' = collections /\ publications' = publications /\ alias' = alias
  BY DEF Fetch
<1>4. Operates(t, {}, "pending")
  BY <1>1, <1>2, <1>3 DEF Operates
<1>5. Contexts' = Contexts \cup {}
  BY <1>4, OperatesGoOn
<1> QED
  BY <1>2, <1>3, <1>5

\* What is fetched is not held for itself, and neither was what it replaces.
LEMMA FetchedUncounted ==
  ASSUME Sound, NEW t \in Contexts, Fetch(t), NEW d \in Data
  PROVE  HeldOwn(d)' = HeldOwn(d)
<1>1. Kept /\ ContextsKept /\ FetchesKept
  BY DEF Sound, Kept
<1>2. IsIndexTask(t) /\ program' = program /\ Contexts' = Contexts
  BY <1>1, FetchStays
<1>3. DOMAIN handles' = DOMAIN handles \cup {<<t, e>> : e \in FetchedElements(t)}
  BY DEF Fetch, With
<1>4. \A k \in DOMAIN handles :
        k \notin {<<t, e>> : e \in FetchedElements(t)} => handles'[k] = handles[k]
  BY DEF Fetch, With
<1>5. \A e \in FetchedElements(t) :
        /\ Fetched(handles'[<<t, e>>].use)
        /\ <<t, e>> \in DOMAIN handles => Fetched(handles[<<t, e>>].use)
  <2> SUFFICES ASSUME NEW e \in FetchedElements(t)
               PROVE  /\ Fetched(handles'[<<t, e>>].use)
                      /\ <<t, e>> \in DOMAIN handles => Fetched(handles[<<t, e>>].use)
    OBVIOUS
  <2>1. PICK k : k = <<t, e>>
    OBVIOUS
  <2>2. k[1] = t /\ k[2] = e
    BY <2>1
  <2>3. handles'[k] = FetchedUse(collections[Front(t)], Front(t), e)
    BY <2>1, <2>2 DEF Fetch, With
  <2>4. PICK w : w = Front(t)
    OBVIOUS
  <2>5. /\ e \in Elements /\ e \notin LocalElements(t)
        /\ FetchedUse(collections[w], w, e).use.in = VersionIn(w, e)
        /\ VersionIn(w, e) \in FetchFlows
    BY <1>1, <2>4, FetchIs
  <2>6. e # Parameter
    BY <2>5, ElementsAreNumbers
  <2>7. k \in DOMAIN handles => Fetched(handles[k].use)
    BY <1>2, <2>2, <2>5, <2>6 DEF Sound, HoldersApart
  <2> QED
    BY <2>1, <2>3, <2>4, <2>5, <2>7 DEF Fetched
<1>6. ASSUME NEW x
      PROVE  /\ x \in Owners(d)' <=> x \in Owners(d)
             /\ x \in Owners(d) => HeldBy(x, d)' = HeldBy(x, d)
  <2>1. CASE x = t /\ d \in FetchedElements(t)
    BY <1>5, <2>1 DEF Owners
  <2>2. CASE ~(x = t /\ d \in FetchedElements(t))
    <3>1. <<x, d>> \notin {<<t, e>> : e \in FetchedElements(t)}
      BY <2>2
    <3>2. /\ <<x, d>> \in DOMAIN handles' <=> <<x, d>> \in DOMAIN handles
          /\ <<x, d>> \in DOMAIN handles => handles'[<<x, d>>] = handles[<<x, d>>]
      BY <1>3, <1>4, <3>1
    <3> QED
      BY <1>2, <3>2 DEF Owners, HeldBy
  <2> QED
    BY <2>1, <2>2
<1> QED
  BY <1>6 DEF HeldOwn

\* So a fetch changes nothing that counts.
LEMMA FetchApart ==
  ASSUME Sound, Sound', AnyStep, ContextsGoOn, NoneRuns,
         NEW t \in Contexts, Fetch(t), NEW d \in Data, ApartFor(d)
  PROVE  ApartFor(d)'
<1>1. Kept /\ ContextsKept
  BY DEF Sound, Kept
<1>2. /\ program' = program /\ Contexts' = Contexts \cup {}
      /\ collections' = collections /\ publications' = publications /\ alias' = alias
  BY <1>1, FetchStays
<1>7. HeldOwn(d)' = HeldOwn(d)
  BY FetchedUncounted
<1>8. SharedOwn(d)' = SharedOwn(d)
  <2>1. PICK made : made = {}
    OBVIOUS
  <2>2. Contexts' = Contexts \cup made /\ \A x \in made : ~IsIndexTask(x)
    BY <1>1, <1>2, <2>1
  <2> QED
    BY <1>1, <1>2, <2>2, SharedStays
<1>9. PublishedOf(d)' = PublishedOf(d)
  BY <1>2, PublishedStays
<1>10. Own(d)' = Own(d)
  BY <1>7, <1>8, <1>9 DEF Own
<1> QED
  BY <1>2, <1>10, OwnSame

\* A publication that is released has no output.
LEMMA ReleaseApart ==
  ASSUME Sound, Sound', AnyStep, ContextsGoOn, NoneRuns,
         NEW p \in DOMAIN publications, ReleasePublication(p), NEW d \in Data, ApartFor(d)
  PROVE  ApartFor(d)'
<1>1. /\ Kept /\ program' = program /\ Contexts' = Contexts \cup {} /\ alias' = alias
      /\ collections' = collections /\ handles' = handles /\ ~publications[p].released
      /\ publications' = [publications EXCEPT ![p].released = TRUE]
  BY DEF Sound, ReleasePublication, Contexts
<1>2. HeldOwn(d)' = HeldOwn(d)
  BY <1>1, HeldStays DEF HoldersSame
<1>3. SharedOwn(d)' = SharedOwn(d)
  <2>1. PICK made : made = {}
    OBVIOUS
  <2>2. Contexts' = Contexts \cup made /\ \A x \in made : ~IsIndexTask(x)
    BY <1>1, <2>1
  <2> QED
    BY <1>1, <2>2, SharedStays
<1>4. \A q \in DOMAIN publications : DOMAIN publications[q] = {"at", "use", "n_fetchers", "anti_out", "released"}
  BY DEF Sound, OutsKept, PublicationsMade
<1>5. /\ DOMAIN publications' = DOMAIN publications
      /\ publications'[p].released
      /\ \A q \in DOMAIN publications \ {p} : publications'[q] = publications[q]
  BY <1>1, <1>4
<1>6. Unreleased(d)' = Unreleased(d) \ {p}
  BY <1>5 DEF Unreleased
<1>7. \A q \in Unreleased(d) \ {p} : PublishedUse(q)' = PublishedUse(q)
  BY <1>5 DEF Unreleased, PublishedUse
<1>8. CASE p \notin Unreleased(d)
  <2>1. PublishedOf(d)' = PublishedOf(d)
    BY <1>6, <1>7, <1>8 DEF PublishedOf
  <2>2. Own(d)' = Own(d)
    BY <1>2, <1>3, <2>1 DEF Own
  <2> QED
    BY <1>1, <2>2, OwnSame
<1>9. CASE p \in Unreleased(d) /\ d # Parameter
  <2>1. PublishedOf(d)' = {PublishedUse(q) : q \in Unreleased(d) \ {p}}
    <3>1. \A u : u \in PublishedOf(d)' <=> \E q \in Unreleased(d) \ {p} : u = PublishedUse(q)'
      BY <1>6, <1>9 DEF PublishedOf
    <3> QED
      BY <1>7, <3>1
  <2>2. PublishedOf(d) = {PublishedUse(q) : q \in Unreleased(d)} /\ PublishedUse(p) \in PublishedOf(d)
    BY <1>9 DEF PublishedOf
  <2>3. \A q \in Unreleased(d) : PublishedUse(q) = PublishedUse(p) => q = p
    BY <1>9, PublicationsApart DEF Unreleased, PublishedUse
  <2>4. PublishedOf(d)' = PublishedOf(d) \ {PublishedUse(p)}
    BY <2>1, <2>2, <2>3
  <2>5. PublishedUse(p) \notin HeldOwn(d) \cup SharedOwn(d)
    BY <2>2, OwnParts
  <2>6. PublishedUse(p) \in Own(d) /\ Own(d)' = Own(d) \ {PublishedUse(p)}
    BY <1>2, <1>3, <2>2, <2>4, <2>5 DEF Own
  <2>7. PublishedUse(p).use.out = NoFlow
    BY DEF PublishedUse, Sound, OutsKept, PublicationsMade
  <2>8. ~Yields(FaceOf(alias, PublishedUse(p).use))
    BY <2>6, <2>7, OnlyOne
  <2> QED
    BY <1>1, <2>6, <2>8, FaceLost
<1>10. CASE d = Parameter
  <2>1. PublishedOf(d)' = PublishedOf(d)
    BY <1>10 DEF PublishedOf
  <2>2. Own(d)' = Own(d)
    BY <1>2, <1>3, <2>1 DEF Own
  <2> QED
    BY <1>1, <2>2, OwnSame
<1> QED
  BY <1>8, <1>9, <1>10

\* The end of a task collection takes what it captured of the parameter, which it
\* only read; elements it has handed out.
LEMMA DropApart ==
  ASSUME Sound, Sound', AnyStep, ContextsGoOn, NoneRuns,
         NEW w \in Contexts, DropTaskCollection(w), NEW d \in Data, ApartFor(d)
  PROVE  ApartFor(d)'
<1>1. /\ Kept /\ ContextsKept /\ Named /\ IsWork(w) /\ IndexTasks(w) \subseteq Contexts
      /\ program' = program /\ alias' = alias /\ publications' = publications
      /\ handles' = Without(handles, {<<w, Parameter>>})
      /\ collections' = collections \/ collections' = Without(collections, {w})
  BY DEF Sound, Kept, ContextsKept, DropTaskCollection
<1>2. Contexts' = Contexts
  BY DEF DropTaskCollection, Contexts
<1>3. PublishedOf(d)' = PublishedOf(d)
  BY <1>1, PublishedStays
<1>4. ASSUME d # Parameter PROVE SharedOwn(d)' = SharedOwn(d)
  <2>1. d \in Elements
    BY <1>4 DEF Data
  <2>2. HandedOut(w, d)
    <3>1. TakerOf(w, d) \in IndexTasks(w)
      BY <1>1, <2>1, TakersOfElements
    <3> QED
      BY <1>1, <3>1 DEF HandedOut, TakerOf
  <2>3. \A x : HandedOut(x, d)' <=> HandedOut(x, d)
    BY <1>1, <1>2 DEF HandedOut, IsWork
  <2>4. \A x \in DOMAIN collections \ {w} : x \in DOMAIN collections' /\ collections'[x] = collections[x]
    BY <1>1 DEF Without
  <2>5. DOMAIN collections' \subseteq DOMAIN collections
    BY <1>1 DEF Without
  <2>6. Keepers(d)' = Keepers(d)
    BY <2>2, <2>3, <2>4, <2>5 DEF Keepers
  <2>7. \A x \in Keepers(d) : SharedBy(x, d)' = SharedBy(x, d)
    BY <2>2, <2>4 DEF Keepers, SharedBy
  <2> QED
    BY <2>6, <2>7 DEF SharedOwn
<1>5. SharedOwn(d)' = SharedOwn(d)
  BY <1>4 DEF SharedOwn
<1>6. /\ DOMAIN handles' = DOMAIN handles \ {<<w, Parameter>>}
      /\ \A k \in DOMAIN handles' : handles'[k] = handles[k]
  BY <1>1 DEF Without
<1>7. CASE d = Parameter /\ <<w, d>> \in DOMAIN handles
  <2>1. /\ <<w, d>>[1] = w /\ <<w, d>>[2] = Parameter
        /\ ~Fetched(handles[<<w, d>>].use) /\ MayNotWrite(handles[<<w, d>>].use)
    BY <1>1, <1>7 DEF Sound, HoldersApart
  <2>2. HeldBy(w, d) \in HeldOwn(d) /\ w \in Owners(d)
    BY <1>7, <2>1 DEF HeldOwn, Owners
  <2>3. Owners(d)' = Owners(d) \ {w}
    <3>1. \A x : <<x, d>> = <<w, Parameter>> <=> x = w
      BY <1>7
    <3>2. \A x : /\ <<x, d>> \in DOMAIN handles' <=> x # w /\ <<x, d>> \in DOMAIN handles
                 /\ x # w /\ <<x, d>> \in DOMAIN handles => handles'[<<x, d>>] = handles[<<x, d>>]
      BY <1>6, <3>1
    <3> QED
      BY <1>2, <3>2 DEF Owners
  <2>4. \A x \in Owners(d) \ {w} : HeldBy(x, d)' = HeldBy(x, d)
    BY <1>6 DEF Owners, HeldBy
  <2>5. \A x : HeldBy(x, d) = HeldBy(w, d) => x = w
    BY DEF HeldBy
  <2>6. HeldOwn(d)' = HeldOwn(d) \ {HeldBy(w, d)}
    <3>1. \A u : u \in HeldOwn(d)' <=> \E x \in Owners(d) \ {w} : u = HeldBy(x, d)'
      BY <2>3 DEF HeldOwn
    <3>2. \A u : u \in HeldOwn(d) <=> \E x \in Owners(d) : u = HeldBy(x, d)
      BY DEF HeldOwn
    <3> QED
      BY <2>4, <2>5, <3>1, <3>2
  <2>7. HeldBy(w, d) \notin SharedOwn(d) \cup PublishedOf(d)
    BY <2>2, OwnParts
  <2>8. HeldBy(w, d) \in Own(d) /\ Own(d)' = Own(d) \ {HeldBy(w, d)}
    BY <1>3, <1>5, <2>2, <2>6, <2>7 DEF Own
  <2>9. ~Yields(FaceOf(alias, HeldBy(w, d).use))
    <3> DEFINE v == FaceOf(alias, HeldBy(w, d).use)
    <3>1. v \in FacesOf(alias, Own(d))
      BY <2>8 DEF FacesOf
    <3>2. ~MayWrite(v) /\ ~Writes(v)
      BY <2>1 DEF MayNotWrite, FaceOf, MayWrite, Writes, HeldBy
    <3> HIDE DEF v
    <3>3. ~Yields(v)
      BY <3>1, <3>2 DEF ApartFor, Apart, Shaped
    <3> QED
      BY <3>3 DEF v
  <2> QED
    BY <1>1, <2>8, <2>9, FaceLost
<1>8. CASE ~(d = Parameter /\ <<w, d>> \in DOMAIN handles)
  <2>1. \A x : <<x, d>> \in DOMAIN handles => <<x, d>> # <<w, Parameter>>
    BY <1>8
  <2>2. HoldersSame(d)
    BY <1>6, <2>1 DEF HoldersSame
  <2>3. HeldOwn(d)' = HeldOwn(d)
    BY <1>1, <2>2, HeldStays
  <2>4. Own(d)' = Own(d)
    BY <1>3, <1>5, <2>3 DEF Own
  <2> QED
    BY <1>1, <2>4, OwnSame
<1> QED
  BY <1>7, <1>8

\* What does not write is known by its input, its output and its anti-out flow.
LEMMA ReaderFaces ==
  ASSUME NEW a, NEW u, NEW v, MayNotWrite(u),
         u.in = v.in, u.out = v.out, u.anti_out = v.anti_out,
         u.scheduling = v.scheduling, u.immediate = v.immediate
  PROVE  FaceOf(a, u) = FaceOf(a, v)
BY DEF FaceOf, LevelOf, NextOf, CountedOf, MayNotWrite

\* The use that an index task gets of an element is known by the flows of the
\* whole collection's for that element.
LEMMA LocalFace ==
  ASSUME Sound, NEW w \in DOMAIN collections, NEW e \in Elements,
         SharedBy(w, e) \in Own(e), ApartFor(e)
  PROVE  FaceOf(alias, LocalUse(collections[w], e).use) = FaceOf(alias, SharedBy(w, e).use)
<1> DEFINE view == ElementView(collections[w].use, e)
           local == LocalUse(collections[w], e).use
<1>1. SharedBy(w, e).use = view
  BY DEF SharedBy
<1>2. CASE "write" \in view.scheduling \cup view.immediate
  BY <1>1, <1>2 DEF LocalUse, Holder
<1>3. CASE "write" \notin view.scheduling \cup view.immediate
  <2>1. IsHolderOf(collections[w], WholeFlows)
    BY DEF Sound, Kept, HoldersKept, HoldersHave
  <2>2. DOMAIN view = {"scheduling", "immediate", "in", "out", "anti_in", "anti_out", "data"}
    BY <2>1, ViewOf DEF IsHolderOf, HasFields
  <2>3. local = [view EXCEPT !.out = NoFlow, !.anti_in = NoFlow]
    BY <1>3 DEF LocalUse, Holder
  <2> HIDE DEF view, local
  <2>4. /\ local.in = view.in /\ local.out = NoFlow /\ local.anti_out = view.anti_out
        /\ local.scheduling = view.scheduling /\ local.immediate = view.immediate
    BY <2>2, <2>3
  <2>5. view.out = NoFlow
    <3> DEFINE v == FaceOf(alias, view)
    <3>1. v \in FacesOf(alias, Own(e))
      BY <1>1 DEF FacesOf
    <3>2. ~MayWrite(v) /\ ~Writes(v)
      BY <1>3 DEF FaceOf, MayWrite, Writes
    <3> HIDE DEF v
    <3>3. ~Yields(v)
      BY <3>1, <3>2 DEF ApartFor, Apart, Shaped
    <3>4. Yields(FaceOf(alias, view)) <=> view.out # NoFlow
      BY <1>1, OnlyOne, ElementsAreNumbers
    <3> QED
      BY <3>3, <3>4 DEF v
  <2>6. FaceOf(alias, local) = FaceOf(alias, view)
    BY <1>3, <2>4, <2>5, ReaderFaces DEF MayNotWrite
  <2> QED
    BY <1>1, <2>6 DEF view, local
<1> QED
  BY <1>2, <1>3

\* Somebody comes to hold a datum, who has not fetched it.
LEMMA HolderCounts ==
  ASSUME Sound, ContextsGoOn, NEW d, NEW t, t \notin Contexts, t \in Contexts',
         \A x : x # t => /\ <<x, d>> \in DOMAIN handles' <=> <<x, d>> \in DOMAIN handles
                         /\ <<x, d>> \in DOMAIN handles => handles'[<<x, d>>] = handles[<<x, d>>],
         <<t, d>> \in DOMAIN handles', ~Fetched(handles'[<<t, d>>].use)
  PROVE  HeldOwn(d)' = HeldOwn(d) \cup {[by |-> t, use |-> handles'[<<t, d>>].use]}
<1>1. DOMAIN handles \subseteq Contexts \X Data /\ Contexts \subseteq Contexts'
  BY DEF Sound, Kept, HoldersKept, ContextsGoOn
<1>2. \A x : <<x, d>> \in DOMAIN handles => x \in Contexts
  BY <1>1
<1>3. t \in Owners(d)' /\ t \notin Owners(d)
  BY DEF Owners, Fetched
<1>4. ASSUME NEW x, x # t
      PROVE  /\ x \in Owners(d)' <=> x \in Owners(d)
             /\ x \in Owners(d) => HeldBy(x, d)' = HeldBy(x, d)
  BY <1>1, <1>2, <1>4 DEF Owners, HeldBy, Fetched
<1>5. HeldBy(t, d)' = [by |-> t, use |-> handles'[<<t, d>>].use]
  BY DEF HeldBy
<1>6. Owners(d)' = Owners(d) \cup {t}
  BY <1>3, <1>4
<1>7. \A u : u \in HeldOwn(d)' <=> \E x \in Owners(d) \cup {t} : u = HeldBy(x, d)'
  BY <1>6 DEF HeldOwn
<1>8. \A u : u \in HeldOwn(d) <=> \E x \in Owners(d) : u = HeldBy(x, d)
  BY DEF HeldOwn
<1> QED
  BY <1>3, <1>4, <1>5, <1>7, <1>8

\* What an index task gets when it is made.
LEMMA IndexTaskMade ==
  ASSUME Sound, NEW w \in Contexts, CreateTaskForIndex(w)
  PROVE  \E t \in IndexTasks(w) \ Contexts :
           /\ Contexts' = Contexts \cup {t}
           /\ w \in DOMAIN collections
           /\ \A x : \A d : x # t =>
                /\ <<x, d>> \in DOMAIN handles' <=> <<x, d>> \in DOMAIN handles
                /\ <<x, d>> \in DOMAIN handles => handles'[<<x, d>>] = handles[<<x, d>>]
           /\ \A d \in Data : <<t, d>> \in DOMAIN handles' <=>
                \/ d = Parameter /\ <<w, Parameter>> \in DOMAIN handles
                \/ d \in LocalElements(t)
           /\ <<w, Parameter>> \in DOMAIN handles => HandleShared(w, <<t, Parameter>>)
           /\ \A d \in LocalElements(t) : d \in Elements /\ HandleLocal(w, <<t, d>>)
<1>1. Kept /\ ContextsKept /\ Named /\ IsWork(w) /\ DOMAIN handles \subseteq Contexts \X Data
  BY DEF Sound, Kept, ContextsKept, CreateTaskForIndex, HoldersKept
<1>2. PICK t \in IndexTasks(w) \ Contexts :
        /\ handles' =
             With(IF <<w, Parameter>> \in DOMAIN handles
                  THEN With(handles,
                            Single(<<t, Parameter>>, SharedReadUse(handles[<<w, Parameter>>])))
                  ELSE handles,
                  [k \in {<<t, e>> : e \in LocalElements(t)} |-> LocalUse(collections[w], k[2])])
        /\ status' = With(status, Single(t, "pending"))
  BY DEF CreateTaskForIndex
<1>3. Contexts' = Contexts \cup {t}
  BY <1>2 DEF With, Single, Contexts
<1>4. LocalElements(t) \subseteq Elements
  BY <1>1, <1>2, TakersOfElements
<1>5. w \in DOMAIN collections
  BY <1>1, <1>2 DEF Kept, CollectionsHeld, Over
<1>6. \A x, d : <<x, d>>[1] = x /\ <<x, d>>[2] = d
  OBVIOUS
<1>7. \A k \in DOMAIN handles : k[1] # t
  BY <1>1, <1>2
<1> DEFINE locals == {<<t, e>> : e \in LocalElements(t)}
           shared == IF <<w, Parameter>> \in DOMAIN handles THEN {<<t, Parameter>>} ELSE {}
<1>8. <<t, Parameter>> \notin locals
  BY <1>4, ElementsAreNumbers
<1>9. DOMAIN handles' = DOMAIN handles \cup shared \cup locals
  BY <1>2 DEF With, Single
<1>10. \A k \in DOMAIN handles : handles'[k] = handles[k]
  <2>1. \A k \in DOMAIN handles : k \notin locals /\ k # <<t, Parameter>>
    BY <1>6, <1>7
  <2> QED
    BY <1>2, <2>1 DEF With, Single
<1>11. <<w, Parameter>> \in DOMAIN handles =>
         handles'[<<t, Parameter>>] = SharedReadUse(handles[<<w, Parameter>>])
  BY <1>2, <1>8 DEF With, Single
<1>12. \A k \in locals : handles'[k] = LocalUse(collections[w], k[2])
  BY <1>2 DEF With, Single
<1>13. \A d \in LocalElements(t) : handles'[<<t, d>>] = LocalUse(collections[w], d)
  BY <1>6, <1>12
<1> HIDE DEF locals, shared
<1>14. \A x : \A d : x # t =>
         /\ <<x, d>> \in DOMAIN handles' <=> <<x, d>> \in DOMAIN handles
         /\ <<x, d>> \in DOMAIN handles => handles'[<<x, d>>] = handles[<<x, d>>]
  <2>1. \A x : \A d : x # t => <<x, d>> \notin locals \cup shared
    BY DEF locals, shared
  <2> QED
    BY <1>9, <1>10, <2>1
<1>15. \A d \in Data : <<t, d>> \in DOMAIN handles' <=>
         \/ d = Parameter /\ <<w, Parameter>> \in DOMAIN handles
         \/ d \in LocalElements(t)
  <2>1. \A d : <<t, d>> \in locals <=> d \in LocalElements(t)
    BY DEF locals
  <2>2. \A d : <<t, d>> \in shared <=> d = Parameter /\ <<w, Parameter>> \in DOMAIN handles
    BY DEF shared
  <2>3. \A d : <<t, d>> \notin DOMAIN handles
    BY <1>6, <1>7
  <2> QED
    BY <1>9, <2>1, <2>2, <2>3
<1>16. <<w, Parameter>> \in DOMAIN handles => HandleShared(w, <<t, Parameter>>)
  BY <1>1, <1>2, <1>6, <1>11 DEF HandleShared
<1>17. \A d \in LocalElements(t) : d \in Elements /\ HandleLocal(w, <<t, d>>)
  <2>1. ASSUME NEW d \in LocalElements(t) PROVE d \in Elements /\ HandleLocal(w, <<t, d>>)
    <3>1. d \in Elements /\ d # Parameter
      BY <1>4, ElementsAreNumbers
    <3> QED
      BY <1>1, <1>2, <1>6, <1>13, <3>1 DEF HandleLocal
  <2> QED
    BY <2>1
<1> QED
  BY <1>2, <1>3, <1>5, <1>14, <1>15, <1>16, <1>17

\* Index tasks get what is known by the flows it was known by: of the parameter
\* another reader, of an element what stands for the whole collection.
LEMMA IndexTaskApart ==
  ASSUME Sound, Sound', AnyStep, ContextsGoOn, NoneRuns,
         NEW w \in Contexts, CreateTaskForIndex(w), NEW d \in Data, ApartFor(d)
  PROVE  ApartFor(d)'
<1>1. /\ Kept /\ ContextsKept /\ Named /\ IsWork(w)
      /\ program' = program /\ alias' = alias /\ publications' = publications
      /\ collections' = collections
  BY DEF Sound, Kept, ContextsKept, CreateTaskForIndex
<1>2. PICK t \in IndexTasks(w) \ Contexts :
        /\ Contexts' = Contexts \cup {t}
        /\ w \in DOMAIN collections
        /\ \A x : \A e : x # t =>
             /\ <<x, e>> \in DOMAIN handles' <=> <<x, e>> \in DOMAIN handles
             /\ <<x, e>> \in DOMAIN handles => handles'[<<x, e>>] = handles[<<x, e>>]
        /\ \A e \in Data : <<t, e>> \in DOMAIN handles' <=>
             \/ e = Parameter /\ <<w, Parameter>> \in DOMAIN handles
             \/ e \in LocalElements(t)
        /\ <<w, Parameter>> \in DOMAIN handles => HandleShared(w, <<t, Parameter>>)
        /\ \A e \in LocalElements(t) : e \in Elements /\ HandleLocal(w, <<t, e>>)
  BY IndexTaskMade
<1>3. \A x, e : <<x, e>>[1] = x /\ <<x, e>>[2] = e
  OBVIOUS
<1>4. ~Running(t)
  BY <1>2 DEF Running
<1>5. PublishedOf(d)' = PublishedOf(d)
  BY <1>1, PublishedStays
<1>6. Own(d)' = HeldOwn(d)' \cup SharedOwn(d)' \cup PublishedOf(d)'
  BY DEF Own
<1>7. ASSUME d # Parameter
      PROVE  /\ d \in Elements
             /\ d \in LocalElements(t) <=> TakerOf(w, d) = t
             /\ ~HandedOut(w, d) \/ d \notin LocalElements(t)
             /\ HandedOut(w, d)' <=> HandedOut(w, d) \/ d \in LocalElements(t)
             /\ \A x : x # w => (HandedOut(x, d)' <=> HandedOut(x, d))
  <2>1. d \in Elements
    BY <1>7 DEF Data
  <2>2. d \in LocalElements(t) <=> TakerOf(w, d) = t
    BY <1>1, <1>2, <2>1, TakersOfElements
  <2>3. \A x : IsWork(x)' <=> IsWork(x)
    BY <1>1 DEF IsWork
  <2>4. ASSUME NEW x, x # w, IsWork(x) PROVE TakerOf(x, d) # t
    <3>1. TakerOf(x, d) \in IndexTasks(x)
      BY <1>1, <2>1, <2>4, TakersOfElements
    <3>2. Front(TakerOf(x, d)) = x
      BY <1>1, <2>4, <3>1, IndexNames
    <3>3. Front(t) = w
      BY <1>1, <1>2, IndexNames
    <3> QED
      BY <2>4, <3>2, <3>3
  <2>5. \A x : HandedOut(x, d)' <=> IsWork(x) /\ TakerOf(x, d) \in Contexts \cup {t}
    BY <1>1, <1>2, <2>3 DEF HandedOut, TakerOf
  <2>6. \A x : HandedOut(x, d) <=> IsWork(x) /\ TakerOf(x, d) \in Contexts
    BY DEF HandedOut, TakerOf
  <2> QED
    BY <1>1, <1>2, <2>1, <2>2, <2>4, <2>5, <2>6
<1>8. CASE d = Parameter
  <2>1. SharedOwn(d)' = SharedOwn(d)
    BY <1>8 DEF SharedOwn
  <2>2. d \notin LocalElements(t)
    BY <1>2, <1>8, ElementsAreNumbers
  <2>3. CASE <<w, d>> \in DOMAIN handles
    <3>1. PICK k : k = <<t, d>>
      OBVIOUS
    <3>2. HandleShared(w, k) /\ k \in DOMAIN handles'
      BY <1>2, <1>8, <2>3, <3>1
    <3> DEFINE shared == handles'[k].use
               h == handles[<<w, d>>].use
    <3>3. /\ ~Fetched(h) /\ MayNotWrite(h) /\ shared.out = NoFlow
          /\ shared.in = h.in /\ shared.anti_out = h.anti_out
          /\ shared.scheduling = h.scheduling /\ shared.immediate = h.immediate
      BY <1>8, <3>2, SharedFrom
    <3>4. HeldBy(w, d) \in HeldOwn(d) /\ HeldBy(w, d).use = h
      BY <2>3, <3>3 DEF HeldOwn, Owners, HeldBy
    <3>5. HeldOwn(d)' = HeldOwn(d) \cup {[by |-> t, use |-> shared]}
      BY <1>2, <3>1, <3>2, <3>3, HolderCounts DEF Fetched
    <3>6. HeldBy(w, d) \in Own(d) /\ Own(d)' = (Own(d) \ {}) \cup {[by |-> t, use |-> shared]}
      BY <1>5, <1>6, <2>1, <3>4, <3>5 DEF Own
    <3> HIDE DEF shared, h
    <3>7. h.out = NoFlow
      <4> DEFINE v == FaceOf(alias, h)
      <4>1. v \in FacesOf(alias, Own(d))
        BY <3>4, <3>6 DEF FacesOf
      <4>2. ~MayWrite(v) /\ ~Writes(v)
        BY <3>3 DEF MayNotWrite, FaceOf, MayWrite, Writes
      <4> HIDE DEF v
      <4>3. ~Yields(v)
        BY <4>1, <4>2 DEF ApartFor, Apart, Shaped
      <4>4. Yields(FaceOf(alias, h)) <=> h.out # NoFlow
        BY <3>4, <3>6, OnlyOne
      <4> QED
        BY <4>3, <4>4 DEF v
    <3>8. FaceOf(alias, shared) = FaceOf(alias, h)
      <4>1. MayNotWrite(shared)
        BY <3>3 DEF MayNotWrite
      <4> QED
        BY <3>3, <3>7, <4>1, ReaderFaces
    <3>9. PICK n : n = [by |-> t, use |-> shared]
      OBVIOUS
    <3>10. n.by = t /\ n.use = shared
      BY <3>9
    <3>11. PICK gone \in SUBSET {HeldBy(w, d)} : gone = {}
      OBVIOUS
    <3> QED
      BY <1>1, <1>4, <3>4, <3>6, <3>8, <3>9, <3>10, <3>11, SameFace
  <2>4. CASE <<w, d>> \notin DOMAIN handles
    <3>1. <<t, d>> \notin DOMAIN handles' /\ <<t, d>> \notin DOMAIN handles
      <4>1. DOMAIN handles \subseteq Contexts \X Data
        BY <1>1 DEF Kept, HoldersKept
      <4> QED
        BY <1>2, <1>8, <2>2, <2>4, <4>1
    <3>2. HoldersSame(d)
      BY <1>2, <3>1 DEF HoldersSame
    <3>3. HeldOwn(d)' = HeldOwn(d)
      BY <1>1, <3>2, HeldStays
    <3>4. Own(d)' = Own(d)
      BY <1>5, <1>6, <2>1, <3>3 DEF Own
    <3> QED
      BY <1>1, <3>4, OwnSame
  <2> QED
    BY <2>3, <2>4
<1>9. CASE d # Parameter /\ d \in LocalElements(t)
  <2>1. PICK k : k = <<t, d>>
    OBVIOUS
  <2>2. HandleLocal(w, k) /\ k \in DOMAIN handles' /\ d \in Elements /\ k[2] = d
    BY <1>2, <1>3, <1>9, <2>1
  <2>3. handles'[k] = LocalUse(collections[w], d)
    BY <2>2 DEF HandleLocal
  <2>4. ~Fetched(handles'[k].use)
    <3>1. /\ IsHolderOf(collections[w], WholeFlows)
          /\ handles'[k].use.in = Indexed(collections[w].use.in, d)
      BY <2>2, LocalFrom
    <3>2. collections[w].use.in \in WholeFlows
      BY <3>1 DEF IsHolderOf, HasFlows
    <3>3. << >> \in Seq(Nat)
      BY EmptySeq
    <3>4. Indexed(collections[w].use.in, d) \in {NoFlow} \cup ElementFlows
      BY <2>2, <3>2, <3>3, PartsAreFlows
    <3> QED
      BY <3>1, <3>4, FlowSetsApart DEF Fetched
  <2>5. HeldOwn(d)' = HeldOwn(d) \cup {[by |-> t, use |-> handles'[k].use]}
    BY <1>2, <2>1, <2>2, <2>4, HolderCounts
  <2>6. SharedBy(w, d) \in SharedOwn(d) /\ w \in Keepers(d)
    BY <1>2, <1>7, <1>9 DEF SharedOwn, Keepers
  <2>7. SharedOwn(d)' = SharedOwn(d) \ {SharedBy(w, d)}
    <3>1. Keepers(d)' = Keepers(d) \ {w}
      BY <1>1, <1>7, <1>9 DEF Keepers
    <3>2. \A x : SharedBy(x, d)' = SharedBy(x, d)
      BY <1>1 DEF SharedBy
    <3>3. \A x : SharedBy(x, d) = SharedBy(w, d) => x = w
      BY DEF SharedBy
    <3>4. \A u : u \in SharedOwn(d)' <=> \E x \in Keepers(d) \ {w} : u = SharedBy(x, d)
      BY <1>9, <3>1, <3>2 DEF SharedOwn
    <3>5. \A u : u \in SharedOwn(d) <=> \E x \in Keepers(d) : u = SharedBy(x, d)
      BY <1>9 DEF SharedOwn
    <3> QED
      BY <3>3, <3>4, <3>5
  <2>8. SharedBy(w, d) \notin HeldOwn(d) \cup PublishedOf(d)
    BY <2>6, OwnParts
  <2>9. PICK n : n = [by |-> t, use |-> handles'[k].use]
    OBVIOUS
  <2>10. n.by = t /\ n.use = LocalUse(collections[w], d).use
    BY <2>3, <2>9
  <2>11. /\ SharedBy(w, d) \in Own(d)
         /\ Own(d)' = (Own(d) \ {SharedBy(w, d)}) \cup {n}
    BY <1>5, <1>6, <2>5, <2>6, <2>7, <2>8, <2>9 DEF Own
  <2>12. FaceOf(alias, n.use) = FaceOf(alias, SharedBy(w, d).use)
    BY <1>2, <2>2, <2>10, <2>11, LocalFace
  <2>13. PICK gone \in SUBSET {SharedBy(w, d)} : gone = {SharedBy(w, d)}
    OBVIOUS
  <2> QED
    BY <1>1, <1>4, <2>10, <2>11, <2>12, <2>13, SameFace
<1>10. CASE d # Parameter /\ d \notin LocalElements(t)
  <2>1. HoldersSame(d)
    <3>1. <<t, d>> \notin DOMAIN handles' /\ <<t, d>> \notin DOMAIN handles
      <4>1. DOMAIN handles \subseteq Contexts \X Data
        BY <1>1 DEF Kept, HoldersKept
      <4> QED
        BY <1>2, <1>10, <4>1
    <3> QED
      BY <1>2, <3>1 DEF HoldersSame
  <2>2. HeldOwn(d)' = HeldOwn(d)
    BY <1>1, <2>1, HeldStays
  <2>3. SharedOwn(d)' = SharedOwn(d)
    <3>1. Keepers(d)' = Keepers(d)
      BY <1>1, <1>7, <1>10 DEF Keepers
    <3>2. \A x : SharedBy(x, d)' = SharedBy(x, d)
      BY <1>1 DEF SharedBy
    <3> QED
      BY <3>1, <3>2 DEF SharedOwn
  <2>4. Own(d)' = Own(d)
    BY <1>5, <1>6, <2>2, <2>3 DEF Own
  <2> QED
    BY <1>1, <2>4, OwnSame
<1> QED
  BY <1>8, <1>9, <1>10

(***************************************************************************)
(* The end of a task                                                       *)
(***************************************************************************)
\* What is published has data flows where these belong, and anti-flows.
KindsPublished == \A p \in DOMAIN publications : KindsKept(publications[p].use)

\* Every step keeps what is published of its kind.
LEMMA KindsStayPublished ==
  ASSUME Sound, AnyStep, KindsPublished
  PROVE  KindsPublished'
<1>1. ASSUME NEW p, p \in DOMAIN publications' PROVE KindsKept(publications'[p].use)
  <2>1. CASE PublicationStays(p)
    <3>1. "use" \in DOMAIN publications[p]
      BY <2>1 DEF Sound, OutsKept, PublicationsMade, PublicationStays
    <3>2. publications'[p].use = publications[p].use
      BY <2>1, <3>1 DEF PublicationStays
    <3> QED
      BY <2>1, <3>2 DEF PublicationStays, KindsPublished
  <2>2. CASE \E t : PublicationMade(t, p)
    <3>1. PICK t : PublicationMade(t, p)
      BY <2>2
    <3>2. p[2] \in PublishedElements(t) /\ Publishes(t) /\ publications'[p] = PublicationOf(t, p[2])
      BY <3>1 DEF PublicationMade
    <3>3. /\ <<t, p[2]>> \in DOMAIN handles
          /\ <<PermissionsOf(handles[<<t, p[2]>>].use), Perms(None, Read)>> \in DOMAIN CaseFor
      BY <3>2 DEF Publishes, Served
    <3>4. KindsKept(handles[<<t, p[2]>>].use)
      BY <3>3 DEF Sound, OutsKept, KindsOfHolders
    <3>5. KindsKept(PublicationOf(t, p[2]).use)
      BY <3>3, <3>4, OutcomeProduces DEF PublicationOf
    <3> QED
      BY <3>2, <3>5
  <2> QED
    BY <1>1, <2>1, <2>2, PublicationsCome DEF Sound
<1> QED
  BY <1>1 DEF KindsPublished

\* So has what counts of a datum.
LEMMA KindsOwn ==
  ASSUME Sound, KindsPublished, NEW d \in Data, NEW u \in Own(d)
  PROVE  KindsKept(u.use)
<1>1. KindsOfHolders
  BY DEF Sound, OutsKept
<1>2. CASE u \in HeldOwn(d)
  <2>1. PICK c \in Owners(d) : u = HeldBy(c, d)
    BY <1>2 DEF HeldOwn
  <2>2. <<c, d>> \in DOMAIN handles /\ u.use = handles[<<c, d>>].use
    BY <2>1 DEF Owners, HeldBy
  <2> QED
    BY <1>1, <2>2 DEF KindsOfHolders
<1>3. CASE u \in SharedOwn(d)
  <2>1. PICK c \in DOMAIN collections : u = SharedBy(c, d)
    BY <1>3 DEF SharedOwn, Keepers
  <2>2. KindsKept(collections[c].use) /\ d \in Elements
    BY <1>1, <1>3 DEF KindsOfHolders, SharedOwn, Data
  <2>3. /\ u.use.in = Indexed(collections[c].use.in, d)
        /\ u.use.out = Indexed(collections[c].use.out, d)
        /\ u.use.anti_in = Indexed(collections[c].use.anti_in, d)
        /\ u.use.anti_out = Indexed(collections[c].use.anti_out, d)
    <3>1. HoldersHave(collections, WholeFlows)
      BY DEF Sound, Kept, HoldersKept
    <3>2. IsHolderOf(collections[c], WholeFlows)
      BY <3>1 DEF HoldersHave
    <3> QED
      BY <2>1, <2>2, <3>2, ViewOf DEF SharedBy
  <2> QED
    BY <2>2, <2>3, PartKinds DEF KindsKept
<1>4. CASE u \in PublishedOf(d)
  BY <1>4 DEF PublishedOf, PublishedUse, Unreleased, KindsPublished
<1> QED
  BY <1>2, <1>3, <1>4 DEF Own

\* What counts of a datum when a task has ended is what others hold of it.
LEMMA OwnAfterEnd ==
  ASSUME Sound, ContextsGoOn, NEW c \in Contexts, EndTask(c), NEW d \in Data
  PROVE  Own(d)' = {u \in Own(d) : u.by # c}
<1>1. /\ Kept /\ ContextsKept /\ Named
      /\ program' = program /\ publications' = publications /\ status[c] = "running"
      /\ handles' = Without(handles, HoldersOf(c))
  BY DEF Sound, Kept, ContextsKept, EndTask
<1>2. Contexts' = Contexts
  BY DEF EndTask, Contexts
<1>3. PublishedOf(d)' = {u \in PublishedOf(d) : u.by # c}
  <2>1. PublishedOf(d)' = PublishedOf(d)
    BY <1>1, PublishedStays
  <2>2. \A u \in PublishedOf(d) : u.by # c
    BY PublicationsApart DEF PublishedOf, PublishedUse, Unreleased
  <2> QED
    BY <2>1, <2>2
<1>4. HeldOwn(d)' = {u \in HeldOwn(d) : u.by # c}
  <2>1. /\ DOMAIN handles' = DOMAIN handles \ HoldersOf(c)
        /\ \A k \in DOMAIN handles' : handles'[k] = handles[k]
    BY <1>1 DEF Without
  <2>2. \A x : /\ <<x, d>> \in DOMAIN handles' <=> x # c /\ <<x, d>> \in DOMAIN handles
               /\ <<x, d>> \in DOMAIN handles' => handles'[<<x, d>>] = handles[<<x, d>>]
    <3>1. \A x : <<x, d>>[1] = x
      OBVIOUS
    <3> QED
      BY <2>1, <3>1 DEF HoldersOf
  <2>3. Owners(d)' = Owners(d) \ {c}
    BY <1>2, <2>2 DEF Owners
  <2>4. \A x \in Owners(d) \ {c} : HeldBy(x, d)' = HeldBy(x, d)
    BY <2>2 DEF Owners, HeldBy
  <2>5. \A x : HeldBy(x, d).by = x
    BY DEF HeldBy
  <2>6. \A u : u \in HeldOwn(d)' <=> \E x \in Owners(d) \ {c} : u = HeldBy(x, d)'
    BY <2>3 DEF HeldOwn
  <2>7. \A u : u \in HeldOwn(d) <=> \E x \in Owners(d) : u = HeldBy(x, d)
    BY DEF HeldOwn
  <2> QED
    BY <2>4, <2>5, <2>6, <2>7
<1>5. ASSUME d # Parameter PROVE SharedOwn(d)' = {u \in SharedOwn(d) : u.by # c}
  <2>1. d \in Elements
    BY <1>5 DEF Data
  <2>2. \A x : HandedOut(x, d)' <=> HandedOut(x, d)
    BY <1>1, <1>2 DEF HandedOut, IsWork
  <2>3. \A x : HandedOut(x, d) \/ x = c \/
          /\ x \in DOMAIN collections' <=> x \in DOMAIN collections
          /\ x \in DOMAIN collections => collections'[x] = collections[x]
    <3>1. CASE ~(IsIndexTask(c) /\ DropsCollection(Front(c), c))
      <4>1. collections' = Without(collections, {c})
        BY <3>1 DEF EndTask
      <4> QED
        BY <4>1 DEF Without
    <3>2. CASE IsIndexTask(c) /\ DropsCollection(Front(c), c)
      <4>1. collections' = Without(collections, {c, Front(c)})
        BY <3>2 DEF EndTask
      <4>2. TakerOf(Front(c), d) \in IndexTasks(Front(c))
        BY <1>1, <2>1, <3>2, TakersOfElements DEF IsIndexTask
      <4>3. TakerOf(Front(c), d) \in Contexts
        BY <3>2, <4>2 DEF DropsCollection
      <4>4. HandedOut(Front(c), d)
        BY <3>2, <4>3 DEF HandedOut, TakerOf, IsIndexTask
      <4> QED
        BY <4>1, <4>4 DEF Without
    <3> QED
      BY <3>1, <3>2
  <2>4. c \notin DOMAIN collections'
    BY DEF EndTask, Without
  <2>5. Keepers(d)' = Keepers(d) \ {c}
    BY <2>2, <2>3, <2>4 DEF Keepers
  <2>6. \A x \in Keepers(d) \ {c} : SharedBy(x, d)' = SharedBy(x, d)
    BY <2>3 DEF Keepers, SharedBy
  <2>7. \A x : SharedBy(x, d).by = x
    BY DEF SharedBy
  <2>8. \A u : u \in SharedOwn(d)' <=> \E x \in Keepers(d) \ {c} : u = SharedBy(x, d)'
    BY <1>5, <2>5 DEF SharedOwn
  <2>9. \A u : u \in SharedOwn(d) <=> \E x \in Keepers(d) : u = SharedBy(x, d)
    BY <1>5 DEF SharedOwn
  <2> QED
    BY <2>6, <2>7, <2>8, <2>9
<1>6. SharedOwn(d)' = {u \in SharedOwn(d) : u.by # c}
  BY <1>5 DEF SharedOwn
<1> QED
  BY <1>3, <1>4, <1>6 DEF Own

\* What the end of a task tells of flows it tells of something it held, which may
\* only schedule writers.
LEMMA EndLinkIs ==
  ASSUME Sound, NEW c \in Contexts, status[c] = "running", NEW l \in EndLinks(c),
         NoFlow \notin {l[1], l[2]}
  PROVE  \E e \in Data : \E u \in Own(e) :
           /\ u.by = c /\ "write" \in u.use.scheduling /\ "write" \notin u.use.immediate
           /\ \/ l[1] = u.use.out /\ l[2] = u.use.in
              \/ l[1] = u.use.anti_in /\ l[2] = u.use.anti_out
<1>1. /\ HoldersHave(collections, WholeFlows) /\ HoldersHave(handles, AllFlows)
      /\ DOMAIN handles \subseteq Contexts \X Data /\ ContextsKept
  BY DEF Sound, Kept, HoldersKept
<1>2. ASSUME NEW k \in HoldersOf(c), l \in Links(handles[k])
      PROVE  \E u \in Own(k[2]) :
               /\ k[2] \in Data
               /\ u.by = c /\ "write" \in u.use.scheduling /\ "write" \notin u.use.immediate
               /\ \/ l[1] = u.use.out /\ l[2] = u.use.in
                  \/ l[1] = u.use.anti_in /\ l[2] = u.use.anti_out
  <2>1. k \in DOMAIN handles /\ k[1] = c /\ k[2] \in Data /\ k = <<c, k[2]>>
    BY <1>1 DEF HoldersOf
  <2>2. IsHolderOf(handles[k], AllFlows) /\ IsHolderInShape(handles[k])
    BY <1>1, <2>1 DEF HoldersHave, Sound, HoldersInShape
  <2>3. /\ handles[k].could_be_alias
        /\ \/ l[1] = handles[k].use.out /\ l[2] = handles[k].use.in
           \/ l[1] = handles[k].use.anti_in /\ l[2] = handles[k].use.anti_out
    BY <1>2, <2>2, LinksTyped
  <2>4. "write" \in handles[k].use.scheduling /\ "write" \notin handles[k].use.immediate
    BY <2>2, <2>3 DEF IsHolderInShape
  <2>5. ~Fetched(handles[k].use)
    BY <2>1, <2>4 DEF Sound, FetchedAsPublished, IsFetchedAs, MayNotWrite
  <2>6. HeldBy(c, k[2]) \in Own(k[2])
    <3>1. c \in Owners(k[2])
      BY <2>1, <2>5 DEF Owners
    <3> QED
      BY <3>1 DEF HeldOwn, Own
  <2>7. HeldBy(c, k[2]).by = c /\ HeldBy(c, k[2]).use = handles[k].use
    BY <2>1 DEF HeldBy
  <2> QED
    BY <2>1, <2>3, <2>4, <2>6, <2>7
<1>3. ASSUME c \in DOMAIN collections, l \in ElementLinks(collections[c])
      PROVE  \E e \in Data : \E u \in Own(e) :
               /\ u.by = c /\ "write" \in u.use.scheduling /\ "write" \notin u.use.immediate
               /\ \/ l[1] = u.use.out /\ l[2] = u.use.in
                  \/ l[1] = u.use.anti_in /\ l[2] = u.use.anti_out
  <2> DEFINE h == collections[c]
  <2>1. IsHolderOf(h, WholeFlows) /\ IsHolderInShape(h)
    BY <1>1, <1>3 DEF HoldersHave, Sound, HoldersInShape
  <2>2. h.could_be_alias /\ \E e \in Elements :
          \/ l[1] = Indexed(h.use.out, e) /\ l[2] = Indexed(h.use.in, e)
          \/ l[1] = Indexed(h.use.anti_in, e) /\ l[2] = Indexed(h.use.anti_out, e)
    BY <1>3, <2>1, ElementLinksTyped
  <2>3. PICK e \in Elements :
          \/ l[1] = Indexed(h.use.out, e) /\ l[2] = Indexed(h.use.in, e)
          \/ l[1] = Indexed(h.use.anti_in, e) /\ l[2] = Indexed(h.use.anti_out, e)
    BY <2>2
  <2>4. "write" \in h.use.scheduling /\ "write" \notin h.use.immediate
    BY <2>1, <2>2 DEF IsHolderInShape
  <2>5. e \in Data /\ e # Parameter
    BY ElementsAreNumbers
  <2>6. SharedBy(c, e) \in Own(e)
    <3>1. ~HandedOut(c, e)
      BY <1>1, NamesApart DEF HandedOut
    <3>2. c \in Keepers(e)
      BY <1>3, <3>1 DEF Keepers
    <3> QED
      BY <2>5, <3>2 DEF SharedOwn, Own
  <2>7. /\ SharedBy(c, e).by = c
        /\ SharedBy(c, e).use.in = Indexed(h.use.in, e)
        /\ SharedBy(c, e).use.out = Indexed(h.use.out, e)
        /\ SharedBy(c, e).use.anti_in = Indexed(h.use.anti_in, e)
        /\ SharedBy(c, e).use.anti_out = Indexed(h.use.anti_out, e)
        /\ SharedBy(c, e).use.scheduling = h.use.scheduling
        /\ SharedBy(c, e).use.immediate = h.use.immediate
    BY <2>1, ViewOf DEF SharedBy
  <2> QED
    BY <2>3, <2>4, <2>5, <2>6, <2>7
<1> QED
  BY <1>2, <1>3 DEF EndLinks

\* It tells of everything of which that is so.
LEMMA EndLinksOf ==
  ASSUME Sound, NEW c \in Contexts, NEW d \in Data, NEW u \in Own(d), u.by = c,
         "write" \in u.use.scheduling, "write" \notin u.use.immediate
  PROVE  {<<u.use.out, u.use.in>>, <<u.use.anti_in, u.use.anti_out>>} \subseteq EndLinks(c)
<1>1. /\ HoldersHave(collections, WholeFlows) /\ HoldersHave(handles, AllFlows)
      /\ DOMAIN handles \subseteq Contexts \X Data
  BY DEF Sound, Kept, HoldersKept
<1>2. CASE u \in HeldOwn(d)
  <2>1. PICK x \in Owners(d) : u = HeldBy(x, d)
    BY <1>2 DEF HeldOwn
  <2>2. x = c /\ <<c, d>> \in DOMAIN handles /\ u.use = handles[<<c, d>>].use
    BY <2>1 DEF HeldBy, Owners
  <2>3. handles[<<c, d>>].could_be_alias
    BY <2>2 DEF Sound, HoldersInShape, IsHolderInShape
  <2>4. <<c, d>> \in HoldersOf(c)
    BY <2>2 DEF HoldersOf
  <2>5. {<<u.use.out, u.use.in>>, <<u.use.anti_in, u.use.anti_out>>} = Links(handles[<<c, d>>])
    BY <2>2, <2>3 DEF Links
  <2> QED
    BY <2>4, <2>5 DEF EndLinks
<1>3. CASE u \in SharedOwn(d)
  <2>1. d \in Elements /\ d # Parameter
    BY <1>3 DEF SharedOwn, Data
  <2>2. PICK x \in DOMAIN collections : u = SharedBy(x, d)
    BY <1>3, <2>1 DEF SharedOwn, Keepers
  <2>3. c \in DOMAIN collections /\ u.use = ElementView(collections[c].use, d)
    BY <2>2 DEF SharedBy
  <2> DEFINE h    == collections[c]
             part == [h EXCEPT !.use = ElementView(@, d)]
  <2>4. IsHolderOf(h, WholeFlows) /\ IsHolderInShape(h)
    BY <1>1, <2>3 DEF HoldersHave, Sound, HoldersInShape
  <2>5. u.use.scheduling = h.use.scheduling /\ u.use.immediate = h.use.immediate
    BY <2>1, <2>3, <2>4, ViewOf
  <2>6. h.could_be_alias /\ DOMAIN h = {"use", "could_be_alias"}
    BY <2>4, <2>5 DEF IsHolderInShape, IsHolderOf, HasFields
  <2>7. part.use = u.use /\ part.could_be_alias
    BY <2>3, <2>6
  <2>8. Links(part) = {<<u.use.out, u.use.in>>, <<u.use.anti_in, u.use.anti_out>>}
    BY <2>7 DEF Links
  <2>9. Links(part) \subseteq ElementLinks(h)
    BY <2>1 DEF ElementLinks
  <2> QED
    BY <2>3, <2>8, <2>9 DEF EndLinks
<1>4. CASE u \in PublishedOf(d)
  BY <1>4, PublicationsApart DEF PublishedOf, PublishedUse, Unreleased
<1> QED
  BY <1>2, <1>3, <1>4 DEF Own

\* The links that concern a flow of a datum are those of what was held of it.
LEMMA EndLinksFor ==
  ASSUME Sound, NEW c \in Contexts, status[c] = "running", NEW d \in Data,
         NEW f, IsFlowOf(f, d), NEW l \in LinksFor(EndLinks(c), f)
  PROVE  \E u \in Own(d) :
           /\ u.by = c /\ "write" \in u.use.scheduling /\ "write" \notin u.use.immediate
           /\ \/ l[1] = u.use.out /\ l[2] = u.use.in
              \/ l[1] = u.use.anti_in /\ l[2] = u.use.anti_out
<1>1. l \in EndLinks(c) /\ NoFlow \notin {l[1], l[2]} /\ Equivalent(alias, l[1], f)
  BY DEF LinksFor
<1>2. PICK e \in Data : \E u \in Own(e) :
        /\ u.by = c /\ "write" \in u.use.scheduling /\ "write" \notin u.use.immediate
        /\ \/ l[1] = u.use.out /\ l[2] = u.use.in
           \/ l[1] = u.use.anti_in /\ l[2] = u.use.anti_out
  BY <1>1, EndLinkIs
<1>3. IsFlowOf(l[1], e)
  BY <1>1, <1>2, OwnFlows DEF HasFlowsOf
<1>4. AliasesOwned
  BY DEF Sound, FlowsOwned, AliasesOwned
<1>5. IsFlowOf(Representative(alias, f), d) /\ l[1] \notin FetchFlows
  BY <1>3, <1>4, StandsForOwned, OwnedIsApart
<1>6. IsFlowOf(Representative(alias, l[1]), d)
  BY <1>1, <1>5 DEF Equivalent
<1>7. IsFlowOf(l[1], d)
  BY <1>4, <1>5, <1>6, StandsForOwned
<1>8. e = d
  BY <1>3, <1>7, OwnedIsApart
<1> QED
  BY <1>2, <1>8

\* If there is no such thing, the flows of the datum stand for what they stood for.
LEMMA EndLeaves ==
  ASSUME Sound, NEW c \in Contexts, EndTask(c), NEW d \in Data,
         \A u \in Own(d) : u.by = c => "write" \notin u.use.scheduling \/ "write" \in u.use.immediate,
         NEW f, IsFlowOf(f, d)
  PROVE  Representative(alias', f) = Representative(alias, f)
<1>1. status[c] = "running" /\ alias' = EstablishAliases(EndLinks(c))
  BY DEF EndTask, EndLinks
<1>2. LinksFor(EndLinks(c), f) = {}
  BY <1>1, EndLinksFor
<1> QED
  BY <1>1, <1>2, LinkedIs

\* The null flow keeps having no other name.
LEMMA NoFlowStandsAfter == Sound' => (NoFlow \notin DOMAIN alias)'
BY NoFlowStands, PTL

\* What is known of something that may only schedule writers.
LEMMA AliasFlows ==
  ASSUME Sound, NEW d \in Data, ApartFor(d), NEW s \in Own(d),
         "write" \in s.use.scheduling, "write" \notin s.use.immediate
  PROVE  /\ MayWrite(FaceOf(alias, s.use)) /\ ~Writes(FaceOf(alias, s.use))
         /\ s.use.in # NoFlow /\ s.use.out # NoFlow
         /\ ~Equivalent(alias, s.use.in, s.use.out)
         /\ FaceOf(alias, s.use).out = s.use.out
         /\ Backend = "anti_flows" => s.use.anti_out # NoFlow
<1> DEFINE v == FaceOf(alias, s.use)
<1>1. /\ v \in FacesOf(alias, Own(d)) /\ NoFlow \notin DOMAIN alias
      /\ MayWrite(v) /\ ~Writes(v)
  BY NoFlowStands DEF FacesOf, MayWrite, Writes, FaceOf
<1>2. v.in = Representative(alias, s.use.in) /\ v.out = Representative(alias, s.use.out)
  BY DEF FaceOf
<1>3. Backend = "anti_flows" => v.level = Representative(alias, s.use.anti_out)
  BY DEF FaceOf, LevelOf
<1> HIDE DEF v
<1>4. Apart(FacesOf(alias, Own(d)), FacesOf(alias, Active(d)))
  BY DEF ApartFor
<1>5. v.in # NoFlow /\ v.level # NoFlow /\ Yields(v)
  BY <1>1, <1>4 DEF Apart, Shaped
<1>6. v.out # v.in
  BY <1>1, <1>4, <1>5, NoneOwnInput
<1>7. s.use.in # NoFlow /\ s.use.out # NoFlow
  BY <1>1, <1>2, <1>5 DEF Yields, Representative
<1>8. Backend = "anti_flows" => s.use.anti_out # NoFlow
  BY <1>1, <1>3, <1>5 DEF Representative
<1>9. v.out = s.use.out
  BY <1>7, OnlyOne DEF v
<1> QED
  BY <1>1, <1>2, <1>6, <1>7, <1>8, <1>9 DEF Equivalent, v

\* If there is, its output stands for its input then, and its anti-in flow for its
\* anti-out flow.
LEMMA EndRenames ==
  ASSUME Sound, NEW c \in Contexts, EndTask(c), NEW d \in Data, ApartFor(d),
         NEW s \in Own(d), s.by = c, KindsKept(s.use),
         "write" \in s.use.scheduling, "write" \notin s.use.immediate,
         NEW f, IsFlowOf(f, d)
  PROVE  /\ IsDataFlow(f) =>
              Representative(alias', f) =
                IF Equivalent(alias, f, s.use.out) THEN Representative(alias, s.use.in)
                ELSE Representative(alias, f)
         /\ IsAntiFlow(f) =>
              Representative(alias', f) =
                IF NoFlow \notin {s.use.anti_in, s.use.anti_out} /\ Equivalent(alias, f, s.use.anti_in)
                THEN Representative(alias, s.use.anti_out)
                ELSE Representative(alias, f)
<1> DEFINE links == LinksFor(EndLinks(c), f)
           data  == <<s.use.out, s.use.in>>
           anti  == <<s.use.anti_in, s.use.anti_out>>
<1>1. status[c] = "running" /\ alias' = EstablishAliases(EndLinks(c))
  BY DEF EndTask, EndLinks
<1>2. ASSUME NEW l \in links
      PROVE  \/ l[1] = s.use.out /\ l[2] = s.use.in
             \/ l[1] = s.use.anti_in /\ l[2] = s.use.anti_out
  BY <1>1, EndLinksFor, OneUse
<1>3. Representative(alias', f) =
        IF links = {} THEN Representative(alias, f)
        ELSE Representative(alias, (CHOOSE l \in links : TRUE)[2])
  BY <1>1, LinkedIs
<1>4. \A l \in links : NoFlow \notin {l[1], l[2]} /\ ~Equivalent(alias, l[1], l[2])
                       /\ Equivalent(alias, l[1], f)
  BY DEF LinksFor
<1>5. data \in EndLinks(c) /\ anti \in EndLinks(c)
  BY EndLinksOf
<1>6. /\ s.use.in # NoFlow /\ s.use.out # NoFlow
      /\ ~Equivalent(alias, s.use.in, s.use.out)
  BY AliasFlows
<1>7. /\ data[1] = s.use.out /\ data[2] = s.use.in
      /\ anti[1] = s.use.anti_in /\ anti[2] = s.use.anti_out
  OBVIOUS
<1>8. \A g : g # NoFlow => (IsDataFlow(g) => Representative(alias, g).place \in DataPlaces)
                           /\ (IsAntiFlow(g) => Representative(alias, g).place \in AntiPlaces)
  BY DEF Sound, OutsKept, KindsOfHolders, SameKind, Representative, IsDataFlow, IsAntiFlow, DataPlaces,
         AntiPlaces
<1>9. DataPlaces \cap AntiPlaces = {}
  BY DEF DataPlaces, AntiPlaces
<1>10. f # NoFlow
  BY OwnedIsApart
<1>11. ASSUME IsDataFlow(f)
       PROVE  Representative(alias', f) =
                IF Equivalent(alias, f, s.use.out) THEN Representative(alias, s.use.in)
                ELSE Representative(alias, f)
  <2>1. \A l \in links : l[1] = s.use.out /\ l[2] = s.use.in
    BY <1>2, <1>4, <1>8, <1>9, <1>10, <1>11 DEF Equivalent, KindsKept
  <2>2. CASE Equivalent(alias, f, s.use.out)
    <3>1. data \in links
      BY <1>5, <1>6, <1>7, <2>2 DEF LinksFor, Equivalent
    <3>2. (CHOOSE l \in links : TRUE) \in links
      BY <3>1
    <3> HIDE DEF links
    <3> QED
      BY <1>3, <2>1, <2>2, <3>1, <3>2
  <2>3. CASE ~Equivalent(alias, f, s.use.out)
    <3>1. links = {}
      BY <1>4, <2>1, <2>3 DEF Equivalent
    <3> QED
      BY <1>3, <2>3, <3>1
  <2> QED
    BY <2>2, <2>3
<1>12. ASSUME IsAntiFlow(f)
       PROVE  Representative(alias', f) =
                IF NoFlow \notin {s.use.anti_in, s.use.anti_out} /\ Equivalent(alias, f, s.use.anti_in)
                THEN Representative(alias, s.use.anti_out)
                ELSE Representative(alias, f)
  <2>1. \A l \in links : l[1] = s.use.anti_in /\ l[2] = s.use.anti_out
    BY <1>2, <1>4, <1>6, <1>8, <1>9, <1>10, <1>12 DEF Equivalent, KindsKept
  <2>2. CASE NoFlow \notin {s.use.anti_in, s.use.anti_out} /\ Equivalent(alias, f, s.use.anti_in)
    <3>1. CASE Equivalent(alias, s.use.anti_in, s.use.anti_out)
      <4>1. links = {}
        BY <1>4, <2>1, <3>1
      <4> QED
        BY <1>3, <2>2, <3>1, <4>1 DEF Equivalent
    <3>2. CASE ~Equivalent(alias, s.use.anti_in, s.use.anti_out)
      <4>1. anti \in links
        BY <1>5, <1>7, <2>2, <3>2 DEF LinksFor, Equivalent
      <4>2. (CHOOSE l \in links : TRUE) \in links
        BY <4>1
      <4> HIDE DEF links
      <4> QED
        BY <1>3, <2>1, <2>2, <4>1, <4>2
    <3> QED
      BY <3>1, <3>2
  <2>3. CASE ~(NoFlow \notin {s.use.anti_in, s.use.anti_out} /\ Equivalent(alias, f, s.use.anti_in))
    <3>1. links = {}
      BY <1>4, <2>1, <2>3 DEF Equivalent
    <3> QED
      BY <1>3, <2>3, <3>1
  <2> QED
    BY <2>2, <2>3
<1> QED
  BY <1>11, <1>12

\* So what others are known by is renamed.
LEMMA EndRenamesFaces ==
  ASSUME Sound, Sound', NEW c \in Contexts, EndTask(c), NEW d \in Data, ApartFor(d),
         KindsPublished, NEW s \in Own(d), s.by = c,
         "write" \in s.use.scheduling, "write" \notin s.use.immediate,
         NEW u \in Own(d), u # s
  PROVE  FaceOf(alias', u.use) = AfterAlias(FaceOf(alias, s.use), FaceOf(alias, u.use))
<1> DEFINE S == FaceOf(alias, s.use)
           v == FaceOf(alias, u.use)
           w == FaceOf(alias', u.use)
           level(f) == IF HasNext(S) /\ f = S.next THEN S.level ELSE f
           r(f) == Representative(alias, f)
           q(f) == Representative(alias', f)
<1>1. KindsKept(s.use) /\ KindsKept(u.use)
  BY KindsOwn
<1>2. HasFlowsOf(u.use, d)
  BY OwnFlows
<1>3. NoFlow \notin DOMAIN alias /\ NoFlow \notin DOMAIN alias'
  BY NoFlowStands, NoFlowStandsAfter
<1>4. r(NoFlow) = NoFlow /\ q(NoFlow) = NoFlow
  BY <1>3 DEF Representative
<1>5. /\ s.use.in # NoFlow /\ s.use.out # NoFlow /\ r(s.use.out) = s.use.out
      /\ Backend = "anti_flows" => s.use.anti_out # NoFlow
  BY AliasFlows DEF FaceOf
<1>6. \A f \in {u.use.in, u.use.out} : q(f) = IF r(f) = r(s.use.out) THEN r(s.use.in) ELSE r(f)
  <2>1. ASSUME NEW f \in {u.use.in, u.use.out}, f # NoFlow
        PROVE  q(f) = IF r(f) = r(s.use.out) THEN r(s.use.in) ELSE r(f)
    <3>1. IsFlowOf(f, d) /\ IsDataFlow(f)
      BY <1>1, <1>2, <2>1 DEF HasFlowsOf, KindsKept
    <3> QED
      BY <1>1, <3>1, EndRenames DEF Equivalent
  <2>2. q(NoFlow) = IF r(NoFlow) = r(s.use.out) THEN r(s.use.in) ELSE r(NoFlow)
    BY <1>4, <1>5
  <2> QED
    BY <2>1, <2>2
<1>7. ASSUME Backend = "anti_flows", NEW f \in {u.use.anti_in, u.use.anti_out}
      PROVE  q(f) = IF s.use.anti_in # NoFlow /\ r(f) = r(s.use.anti_in) THEN r(s.use.anti_out) ELSE r(f)
  <2>1. CASE f # NoFlow
    <3>1. IsFlowOf(f, d) /\ IsAntiFlow(f)
      BY <1>1, <1>2, <1>7, <2>1 DEF HasFlowsOf, KindsKept
    <3> QED
      BY <1>1, <1>5, <1>7, <3>1, EndRenames DEF Equivalent
  <2>2. CASE f = NoFlow
    <3>1. s.use.anti_in # NoFlow => r(s.use.anti_in) # NoFlow
      BY <1>1 DEF Sound, OutsKept, KindsOfHolders, SameKind, Representative, KindsKept, IsAntiFlow,
                  NoFlow, Flow, AntiPlaces, DataPlaces
    <3> QED
      BY <1>4, <2>2, <3>1
  <2> QED
    BY <2>1, <2>2
<1>8. r(u.use.out) # r(s.use.out) \/ u.use.out = NoFlow
  <2>1. FaceOf(alias, s.use).out = r(s.use.out) /\ FaceOf(alias, u.use).out = r(u.use.out)
    BY DEF FaceOf
  <2> QED
    BY <1>5, <2>1, OnlyOne
<1>9. q(u.use.out) = r(u.use.out) /\ r(u.use.out) # r(s.use.out)
  BY <1>4, <1>5, <1>6, <1>8
<1>10. w.in = IF v.in = S.out THEN S.in ELSE v.in
  BY <1>6 DEF FaceOf
<1>11. w.out = v.out
  BY <1>9 DEF FaceOf
<1>12. w.level = level(v.level) /\ w.next = level(v.next) /\ w.counted = level(v.counted)
  <2>1. CASE Backend = "flows"
    <3>1. S.level = r(s.use.in) /\ S.next = r(s.use.out) /\ HasNext(S)
      BY <1>5, <2>1 DEF FaceOf, LevelOf, NextOf, HasNext
    <3>2. /\ v.level = r(u.use.in) /\ v.counted = r(u.use.in)
          /\ w.level = q(u.use.in) /\ w.counted = q(u.use.in)
          /\ v.next = (IF "write" \in u.use.scheduling THEN r(u.use.out) ELSE NoFlow)
          /\ w.next = (IF "write" \in u.use.scheduling THEN q(u.use.out) ELSE NoFlow)
      BY <2>1 DEF FaceOf, LevelOf, NextOf, CountedOf
    <3>3. v.next # S.next /\ w.next = v.next
      BY <1>5, <1>9, <3>1, <3>2
    <3> HIDE DEF S, v, w, r, q
    <3> QED
      BY <1>6, <3>1, <3>2, <3>3
  <2>2. CASE Backend = "anti_flows"
    <3>1. S.level = r(s.use.anti_out) /\ S.next = r(s.use.anti_in)
      BY <2>2 DEF FaceOf, LevelOf, NextOf
    <3>2. HasNext(S) <=> s.use.anti_in # NoFlow
      <4>1. s.use.anti_in # NoFlow => r(s.use.anti_in) # NoFlow
        BY <1>1 DEF Sound, OutsKept, KindsOfHolders, SameKind, Representative, KindsKept, IsAntiFlow,
                    NoFlow, Flow, AntiPlaces, DataPlaces
      <4> QED
        BY <1>4, <3>1, <4>1 DEF HasNext
    <3>3. \A f \in {u.use.anti_in, u.use.anti_out} : q(f) = level(r(f))
      BY <1>7, <2>2, <3>1, <3>2
    <3>4. level(NoFlow) = NoFlow
      BY DEF HasNext
    <3>5. v.counted = r(u.use.anti_out) /\ w.counted = q(u.use.anti_out)
      BY <2>2 DEF FaceOf, CountedOf
    <3>6. \E f \in {u.use.anti_in, u.use.anti_out} : v.level = r(f) /\ w.level = q(f)
      BY <2>2 DEF FaceOf, LevelOf
    <3>7. \/ v.next = NoFlow /\ w.next = NoFlow
          \/ \E f \in {u.use.anti_in, u.use.anti_out} : v.next = r(f) /\ w.next = q(f)
      BY <2>2 DEF FaceOf, NextOf
    <3> HIDE DEF S, v, w, r, q, level
    <3> QED
      BY <3>3, <3>4, <3>5, <3>6, <3>7
  <2> QED
    BY <2>1, <2>2, BackendAssumption DEF BackendKinds
<1>13. /\ w.scheduling = v.scheduling /\ w.immediate = v.immediate
       /\ w = [in |-> w.in, out |-> w.out, level |-> w.level, next |-> w.next, counted |-> w.counted,
               scheduling |-> w.scheduling, immediate |-> w.immediate]
  BY DEF FaceOf
<1> HIDE DEF S, v, w
<1>14. w = AfterAlias(S, v)
  BY <1>10, <1>11, <1>12, <1>13 DEF AfterAlias
<1> QED
  BY <1>14 DEF S, v, w

\* If what it held may not only schedule writers, others are known as before.
LEMMA EndLeavesFaces ==
  ASSUME Sound, Sound', NEW c \in Contexts, EndTask(c), NEW d \in Data,
         \A u \in Own(d) : u.by = c => "write" \notin u.use.scheduling \/ "write" \in u.use.immediate
  PROVE  \A u \in Own(d) : FaceOf(alias', u.use) = FaceOf(alias, u.use)
<1>1. NoFlow \notin DOMAIN alias /\ NoFlow \notin DOMAIN alias'
  BY NoFlowStands, NoFlowStandsAfter
<1>2. ASSUME NEW u \in Own(d), NEW f \in {u.use.in, u.use.out, u.use.anti_in, u.use.anti_out}
      PROVE  Representative(alias', f) = Representative(alias, f)
  <2>1. CASE f = NoFlow
    BY <1>1, <2>1 DEF Representative
  <2>2. CASE f # NoFlow
    <3>1. IsFlowOf(f, d)
      BY <1>2, <2>2, OwnFlows DEF HasFlowsOf
    <3> QED
      BY <3>1, EndLeaves
  <2> QED
    BY <2>1, <2>2
<1> QED
  BY <1>2 DEF FaceOf, LevelOf, NextOf, CountedOf

\* A task that ends takes what it held of a datum: its output is produced, or is
\* another name of its input.
LEMMA EndApart ==
  ASSUME Sound, Sound', AnyStep, ContextsGoOn, NoneRuns, KindsPublished,
         NEW c \in Contexts, EndTask(c), NEW d \in Data, ApartFor(d)
  PROVE  ApartFor(d)'
<1>1. Own(d)' = {u \in Own(d) : u.by # c}
  BY OwnAfterEnd
<1>2. Running(c)
  BY DEF EndTask, Running
<1>4. ASSUME \A u \in Own(d) : u.by = c => "write" \notin u.use.scheduling \/ "write" \in u.use.immediate
      PROVE  \A u \in Own(d) : FaceOf(alias', u.use) = FaceOf(alias, u.use)
  BY <1>4, EndLeavesFaces
<1>5. CASE \A u \in Own(d) : u.by # c
  <2>1. Own(d)' = Own(d)
    BY <1>1, <1>5
  <2> QED
    BY <1>4, <1>5, <2>1, OwnSame
<1>6. ASSUME NEW s \in Own(d), s.by = c PROVE ApartFor(d)'
  <2>1. \A u \in Own(d) : u.by = c <=> u = s
    BY <1>6, OneUse
  <2>2. Own(d)' = Own(d) \ {s}
    BY <1>1, <2>1
  <2>3. s \in Active(d)
    BY <1>2, <1>6 DEF Active
  <2> DEFINE S == FaceOf(alias, s.use)
  <2>4. CASE "write" \notin s.use.scheduling \/ "write" \in s.use.immediate
    <3>1. \A u \in Own(d) : FaceOf(alias', u.use) = FaceOf(alias, u.use)
      BY <1>4, <2>1, <2>4
    <3>2. Yields(S) => Writes(S)
      <4>1. S \in FacesOf(alias, Own(d))
        BY <1>6 DEF FacesOf
      <4>2. MayWrite(S) => Writes(S)
        BY <2>4 DEF MayWrite, Writes, FaceOf
      <4> HIDE DEF S
      <4> QED
        BY <4>1, <4>2 DEF ApartFor, Apart, Shaped
    <3> QED
      BY <1>6, <2>2, <2>3, <3>1, <3>2, FaceLost
  <2>5. CASE "write" \in s.use.scheduling /\ "write" \notin s.use.immediate
    <3>1. \A u \in Own(d) \ {s} : FaceOf(alias', u.use) = AfterAlias(S, FaceOf(alias, u.use))
      BY <1>6, <2>5, EndRenamesFaces
    <3>2. MayWrite(S) /\ ~Writes(S) /\ S.out = s.use.out /\ s.use.out # NoFlow
      BY <1>6, <2>5, AliasFlows
    <3>3. S \in FacesOf(alias, Active(d)) /\ S \in FacesOf(alias, Own(d))
      BY <1>6, <2>3 DEF FacesOf
    <3>4. \A u \in Own(d) : FaceOf(alias, u.use) = S => u = s
      <4>1. Yields(S)
        BY <3>2 DEF Yields
      <4> QED
        BY <1>6, <4>1, OnlyOne
    <3> DEFINE faces   == FacesOf(alias, Own(d))
               running == FacesOf(alias, Active(d))
               left    == {AfterAlias(S, v) : v \in faces \ {S}}
               still   == {AfterAlias(S, v) : v \in running \ {S}}
    <3>5. Apart(faces, running)
      BY DEF ApartFor
    <3>6. FacesOf(alias', Own(d)') = left
      <4>1. \A x : x \in FacesOf(alias', Own(d)') <=> \E u \in Own(d) \ {s} : x = FaceOf(alias', u.use)
        BY <2>2 DEF FacesOf
      <4>2. \A x : x \in faces <=> \E u \in Own(d) : x = FaceOf(alias, u.use)
        BY DEF FacesOf
      <4> HIDE DEF S, faces
      <4> QED
        BY <3>1, <3>4, <4>1, <4>2 DEF S
    <3>7. FacesOf(alias', Active(d)') \subseteq still
      <4>1. ASSUME NEW u, u \in Active(d)' PROVE FaceOf(alias', u.use) \in still
        <5>1. u \in Own(d)'
          BY <4>1, ActiveComes
        <5>2. u \in Own(d) \ {s}
          BY <2>2, <5>1
        <5>3. u \in Active(d)
          BY <4>1, <5>2, ActiveComes
        <5>4. FaceOf(alias, u.use) \in running \ {S}
          BY <3>4, <5>2, <5>3 DEF FacesOf
        <5>5. FaceOf(alias', u.use) = AfterAlias(S, FaceOf(alias, u.use))
          BY <3>1, <5>2
        <5> HIDE DEF S, running
        <5> QED
          BY <5>4, <5>5
      <4> QED
        BY <4>1 DEF FacesOf
    <3> HIDE DEF S, faces, running, left, still
    <3>8. Apart(left, still)
      <4>1. S \in running
        BY <3>3 DEF running
      <4> QED
        BY <3>2, <3>5, <4>1, FaceRenames DEF left, still
    <3>9. Apart(left, FacesOf(alias', Active(d)'))
      BY <3>7, <3>8, FewerRun
    <3>10. Apart(FacesOf(alias', Own(d)'), FacesOf(alias', Active(d)'))
      BY <3>6, <3>9
    <3> QED
      BY <3>10 DEF ApartFor
  <2> QED
    BY <2>4, <2>5
<1> QED
  BY <1>5, <1>6

(***************************************************************************)
(* What comes to run                                                       *)
(***************************************************************************)
\* What counts is in the way of whoever is not its holder.
LEMMA OthersCount ==
  ASSUME Sound, NEW d \in Data, NEW x \in Own(d), NEW c, x.by # c
  PROVE  x.use \in UsesBut(c, d)
<1>1. x \in UsesOf(d)
  BY OwnAreUses
<1> QED
  BY <1>1 DEF UsesBut

\* Permissions of what counts.
LEMMA OwnInShape ==
  ASSUME Sound, NEW d \in Data, NEW u \in Own(d)
  PROVE  InShape(u.use)
<1>1. CASE u \in HeldOwn(d)
  <2>1. PICK c \in Owners(d) : u = HeldBy(c, d)
    BY <1>1 DEF HeldOwn
  <2>2. <<c, d>> \in DOMAIN handles /\ u.use = handles[<<c, d>>].use
    BY <2>1 DEF Owners, HeldBy
  <2> QED
    BY <2>2 DEF Sound, HoldersInShape, IsHolderInShape
<1>2. CASE u \in SharedOwn(d)
  <2>1. d \in Elements
    BY <1>2 DEF SharedOwn, Data
  <2>2. PICK c \in DOMAIN collections : u = SharedBy(c, d)
    BY <1>2, <2>1 DEF SharedOwn, Keepers
  <2>3. IsHolderOf(collections[c], WholeFlows) /\ IsHolderInShape(collections[c])
    BY <2>2 DEF Sound, Kept, HoldersKept, HoldersHave, HoldersInShape
  <2>4. /\ u.use.scheduling = collections[c].use.scheduling
        /\ u.use.immediate = collections[c].use.immediate
    BY <2>1, <2>2, <2>3, ViewOf DEF SharedBy
  <2> QED
    BY <2>3, <2>4 DEF IsHolderInShape, InShape, PermissionsOf
<1>3. CASE u \in PublishedOf(d)
  <2>1. PermissionsOf(u.use) = Perms(None, Read)
    BY <1>3 DEF PublishedOf, Unreleased, PublishedUse, Sound, HoldersInShape
  <2> QED
    BY <2>1 DEF InShape, FrontEndPairs, PermissionsAmong, FrontEndPermissions, Perms
<1> QED
  BY <1>1, <1>2, <1>3 DEF Own

\* Somebody runs who has what it needs: its input is there, and nothing that it
\* would have to wait for is left.
LEMMA RunnableOwn ==
  ASSUME Sound, NEW d \in Data, ApartFor(d), NEW u \in Own(d), Runnable(u.by)
  PROVE  LET v == FaceOf(alias, u.use)
         IN  /\ Touches(v) => Ready(FacesOf(alias, Own(d)), v)
             /\ Writes(v) => \A w \in FacesOf(alias, Own(d)) \ {v} : w.counted # v.level
<1> DEFINE v     == FaceOf(alias, u.use)
           faces == FacesOf(alias, Own(d))
<1>1. u.use \in UsesBy(u.by, d)
  <2>1. u \in UsesOf(d)
    BY OwnAreUses
  <2> QED
    BY <2>1 DEF UsesBy
<1>2. Satisfied(Backend, alias, UsesBut(u.by, d), u.use)
  BY <1>1 DEF Runnable
<1>3. \A x \in Own(d) : x # u => x.use \in UsesBut(u.by, d)
  BY OneUse, OthersCount
<1>4. v \in faces /\ NoFlow \notin DOMAIN alias
  BY NoFlowStands DEF FacesOf
<1>5. Apart(faces, FacesOf(alias, Active(d)))
  BY DEF ApartFor
<1>6. v.level # NoFlow
  BY <1>4, <1>5 DEF Apart, Shaped
<1>7. ASSUME Touches(v) PROVE Ready(faces, v)
  <2>1. is_dependency(u.use)
    <3>1. u.use.immediate # None
      BY <1>7 DEF Touches, FaceOf
    <3>2. InShape(u.use)
      BY OwnInShape
    <3> QED
      BY <3>1, <3>2 DEF InShape, FrontEndPairs, PermissionsAmong, FrontEndPermissions, is_dependency,
                        PermissionsOf, Perms, None, Read, Modify
  <2>2. Available(alias, UsesBut(u.by, d), u.use.in)
    BY <1>2, <2>1 DEF Satisfied
  <2>3. ASSUME NEW x \in Own(d), Yields(FaceOf(alias, x.use))
        PROVE  FaceOf(alias, x.use).out # v.in
    <3>1. CASE x = u
      BY <1>4, <1>5, <2>3, <3>1, NoneOwnInput
    <3>2. CASE x # u
      <4>1. ~Equivalent(alias, x.use.out, u.use.in)
        BY <1>3, <2>2, <3>2 DEF Available
      <4> QED
        BY <4>1 DEF Equivalent, FaceOf
    <3> QED
      BY <3>1, <3>2
  <2> QED
    BY <2>3 DEF Ready, FacesOf
<1>8. ASSUME Writes(v), NEW w \in faces \ {v} PROVE w.counted # v.level
  <2>1. PICK x \in Own(d) : w = FaceOf(alias, x.use)
    BY <1>8 DEF FacesOf
  <2>2. x # u
    BY <1>8, <2>1
  <2>3. x.use \in UsesBut(u.by, d)
    BY <1>3, <2>2
  <2>4. "write" \in u.use.immediate /\ is_anti_dependency(u.use)
    BY <1>8 DEF Writes, FaceOf, is_anti_dependency
  <2>5. CASE Backend = "flows"
    <3>1. ~Equivalent(alias, x.use.in, u.use.in)
      BY <1>2, <2>3, <2>4, <2>5 DEF Satisfied, InputUnused
    <3> QED
      BY <2>1, <2>5, <3>1 DEF Equivalent, FaceOf, CountedOf, LevelOf
  <2>6. CASE Backend = "anti_flows"
    <3>1. v.level = Representative(alias, u.use.anti_in)
      BY <2>4, <2>6 DEF FaceOf, LevelOf
    <3>2. w.counted = Representative(alias, x.use.anti_out)
      BY <2>1, <2>6 DEF FaceOf, CountedOf
    <3>3. u.use.anti_in # NoFlow
      BY <1>4, <1>6, <3>1 DEF Representative
    <3>4. ~Equivalent(alias, x.use.anti_out, u.use.anti_in)
      BY <1>2, <2>3, <2>4, <2>6, <3>3 DEF Satisfied, AntiFlowCleared
    <3> QED
      BY <3>1, <3>2, <3>4 DEF Equivalent
  <2> QED
    BY <2>5, <2>6, BackendAssumption DEF BackendKinds
<1> QED
  BY <1>7, <1>8

\* A reader of what it has fetched comes to run: the publication has its input.
LEMMA RunnableReading ==
  ASSUME Sound, NEW d \in Data, NEW contexts, RunsReady(contexts), NEW k \in DOMAIN handles,
         k[2] = d, k[1] \in contexts, Fetched(handles[k].use), handles[k].use.immediate # None
  PROVE  Ready(FacesOf(alias, Own(d)), FaceOf(alias, PublishedUse(VersionOf(k)).use))
<1> DEFINE c == k[1]
           u == handles[k].use
           p == VersionOf(k)
           v == FaceOf(alias, PublishedUse(p).use)
<1>1. p \in DOMAIN publications
  BY RunsPublished
<1>2. IsFetchedAs(u, u.in.version, d)
  BY DEF Sound, FetchedAsPublished
<1>3. Equivalent(alias, u.in, publications[p].use.in)
  BY <1>1, <1>2 DEF IsFetchedAs, VersionOf
<1>4. v.in = Representative(alias, u.in)
  BY <1>3 DEF FaceOf, PublishedUse, Equivalent
<1>5. is_dependency(u)
  BY <1>2, ReadIsDependency DEF Sound, HoldersInShape, IsHolderInShape, IsFetchedAs
<1>6. u \in UsesBy(c, d)
  <2>1. [by |-> c, use |-> u] \in Held(d)
    BY DEF Held
  <2>2. [by |-> c, use |-> u] \in UsesOf(d)
    BY <2>1 DEF UsesOf
  <2> QED
    BY <2>2 DEF UsesBy
<1>7. c \in Contexts /\ Runnable(c)
  BY DEF RunsReady, RunsPending
<1>8. Available(alias, UsesBut(c, d), u.in)
  BY <1>5, <1>6, <1>7 DEF Runnable, Satisfied
<1>9. k = <<c, d>> /\ d # Parameter /\ (IsIndexTask(c) \/ IsBeneath(c))
  <2>1. k \in Contexts \X Data
    BY DEF Sound, Kept, HoldersKept
  <2> QED
    BY <2>1 DEF Sound, HoldersApart
<1>10. ASSUME NEW x \in Own(d) PROVE x.by # c
  <2>1. CASE x \in HeldOwn(d)
    <3>1. PICK y \in Owners(d) : x = HeldBy(y, d)
      BY <2>1 DEF HeldOwn
    <3>2. x.by = y /\ ~Fetched(handles[<<y, d>>].use)
      BY <3>1 DEF HeldBy, Owners
    <3>3. y # c
      BY <1>9, <3>2
    <3> QED
      BY <3>2, <3>3
  <2>2. CASE x \in SharedOwn(d)
    BY <1>9, <2>2 DEF SharedOwn, SharedBy, Keepers, Sound, HoldersApart
  <2>3. CASE x \in PublishedOf(d)
    BY <1>7, <2>3, PublicationsApart DEF PublishedOf, PublishedUse, Unreleased
  <2> QED
    BY <2>1, <2>2, <2>3 DEF Own
<1>11. ASSUME NEW x \in Own(d) PROVE FaceOf(alias, x.use).out # v.in
  <2>1. x.use \in UsesBut(c, d)
    BY <1>10, OthersCount
  <2>2. ~Equivalent(alias, x.use.out, u.in)
    BY <1>8, <2>1 DEF Available
  <2> QED
    BY <1>4, <2>2 DEF Equivalent, FaceOf
<1> QED
  BY <1>11 DEF Ready, FacesOf

\* Contexts come to run, and what they fetched comes to be read.
LEMMA RunsApart ==
  ASSUME Sound, Sound', NEW contexts, RunsReady(contexts), NEW d \in Data, ApartFor(d)
  PROVE  ApartFor(d)'
<1>1. /\ contexts \subseteq Contexts /\ \A c \in contexts : Runnable(c)
      /\ program' = program /\ collections' = collections /\ handles' = handles /\ alias' = alias
      /\ publications' = publications
      /\ status' = With(status, [c \in contexts |-> "running"])
  BY DEF RunsReady, RunsPending, Run
<1>2. Contexts' = Contexts
  BY <1>1 DEF Contexts, With
<1>3. \A c : Running(c)' <=> Running(c) \/ c \in contexts
  BY <1>1, <1>2 DEF Running, With, Contexts
<1>4. Own(d)' = Own(d)
  BY <1>1, <1>2 DEF Own, HeldOwn, SharedOwn, PublishedOf, HeldBy, SharedBy, PublishedUse, Owners, Keepers,
                    Unreleased, HandedOut, IsWork
<1>5. \A k : k \in ReadingKeys(d)' <=> \/ k \in ReadingKeys(d)
                                       \/ /\ k \in DOMAIN handles /\ k[2] = d /\ k[1] \in contexts
                                          /\ Fetched(handles[k].use) /\ handles[k].use.immediate # None
  BY <1>1, <1>3 DEF ReadingKeys
<1>6. \A k \in DOMAIN handles : PublishedUse(VersionOf(k))' = PublishedUse(VersionOf(k))
  BY <1>1 DEF PublishedUse, VersionOf
<1>7. \A u : u \in Readings(d)' <=> \E k \in ReadingKeys(d)' : u = PublishedUse(VersionOf(k))'
  BY DEF Readings
<1>8. \A u : u \in Readings(d) <=> \E k \in ReadingKeys(d) : u = PublishedUse(VersionOf(k))
  BY DEF Readings
<1>9. \A u : u \in Active(d)' <=> (u \in Own(d) /\ Running(u.by)') \/ u \in Readings(d)'
  BY <1>4 DEF Active
<1>10. Active(d) \subseteq Active(d)'
  <2>1. Readings(d) \subseteq Readings(d)'
    BY <1>5, <1>6, <1>7, <1>8 DEF ReadingKeys
  <2> QED
    BY <1>3, <1>9, <2>1 DEF Active
<1>11. Active(d)' \subseteq Own(d)
  BY <1>4, ActiveStayOwn
<1>12. ASSUME NEW u, u \in Active(d)', u \notin Active(d)
       PROVE  LET v == FaceOf(alias, u.use)
              IN  /\ Touches(v) => Ready(FacesOf(alias, Own(d)), v)
                  /\ Writes(v) => \A w \in FacesOf(alias, Own(d)) \ {v} : w.counted # v.level
  <2>1. u \in Own(d)
    BY <1>11, <1>12
  <2>2. CASE Running(u.by)'
    <3>1. u.by \in contexts
      BY <1>3, <1>12, <2>1, <2>2 DEF Active
    <3> QED
      BY <1>1, <2>1, <3>1, RunnableOwn
  <2>3. CASE u \in Readings(d)'
    <3>1. PICK k \in DOMAIN handles :
            /\ k[2] = d /\ k[1] \in contexts /\ Fetched(handles[k].use)
            /\ handles[k].use.immediate # None /\ u = PublishedUse(VersionOf(k))
      BY <1>5, <1>6, <1>7, <1>8, <1>12, <2>3 DEF Active, ReadingKeys
    <3>2. Ready(FacesOf(alias, Own(d)), FaceOf(alias, u.use))
      BY <3>1, RunnableReading
    <3>3. "write" \notin u.use.immediate
      <4>1. VersionOf(k) \in DOMAIN publications
        BY <3>1, RunsPublished
      <4>2. PermissionsOf(u.use) = Perms(None, Read)
        BY <3>1, <4>1 DEF Sound, HoldersInShape, PublishedUse
      <4> QED
        BY <4>2 DEF PermissionsOf, Perms, Read
    <3> QED
      BY <3>2, <3>3 DEF Writes, FaceOf
  <2> QED
    BY <1>9, <1>12, <2>2, <2>3
<1> DEFINE faces   == FacesOf(alias, Own(d))
           running == FacesOf(alias, Active(d))
           more    == FacesOf(alias, Active(d)')
<1>13. Apart(faces, running)
  BY DEF ApartFor
<1>14. running \subseteq more /\ more \subseteq faces
  BY <1>10, <1>11 DEF FacesOf
<1>15. ASSUME NEW v \in more \ running
       PROVE  /\ Touches(v) => Ready(faces, v)
              /\ Writes(v) => \A w \in faces \ {v} : w.counted # v.level
  <2>1. PICK u : u \in Active(d)' /\ v = FaceOf(alias, u.use)
    BY <1>15 DEF FacesOf
  <2>2. u \notin Active(d)
    BY <1>15, <2>1 DEF FacesOf
  <2> HIDE DEF faces
  <2> QED
    BY <1>12, <2>1, <2>2 DEF faces
<1> HIDE DEF faces, running, more
<1>16. Apart(faces, more)
  BY <1>13, <1>14, <1>15, MoreRun
<1> QED
  BY <1>1, <1>4, <1>16 DEF ApartFor, faces, more

(***************************************************************************)
(* The generations of each datum are apart in every state                  *)
(***************************************************************************)
Excluded == Sound /\ KindsPublished /\ Exclusion

\* What alone is known of a datum, and touches nothing.
LEMMA OneFaceApart ==
  ASSUME NEW v, v.in # NoFlow, v.level # NoFlow, v.out # NoFlow, v.in # v.out,
         MayWrite(v), v.immediate = None, v.counted = v.level, v.next # v.level,
         NEW faces, faces = {v}
  PROVE  Apart(faces, faces)
<1>1. ~Writes(v) /\ ~Touches(v) /\ Yields(v)
  BY DEF Writes, Touches, Yields, None
<1>2. Shaped(faces)
  BY <1>1 DEF Shaped
<1>3. OutputsApart(faces) /\ InputsReady(faces, faces) /\ WritersAlone(faces, faces)
  BY <1>1 DEF OutputsApart, InputsReady, WritersAlone
<1>4. ReadyTogether(faces) /\ OneReadyProducer(faces) /\ SameInput(faces)
  BY DEF ReadyTogether, OneReadyProducer, SameInput
<1>5. NextGeneration(faces) /\ NextGenerationsDiffer(faces)
  BY DEF NextGeneration, NextGenerationsDiffer
<1>6. InputsOrdered(faces)
  <2>1. PICK before : before = {}
    OBVIOUS
  <2>2. before \in SUBSET (Outputs(faces) \X Outputs(faces)) /\ Order(before)
    BY <2>1 DEF Order
  <2>3. InputsFollow(faces, before)
    BY DEF InputsFollow
  <2> QED
    BY <2>2, <2>3 DEF InputsOrdered
<1> QED
  BY <1>2, <1>3, <1>4, <1>5, <1>6 DEF Apart

\* At first the initial task has every datum, to schedule writers of it.
LEMMA ExcludedInit == Init => Excluded
<1> SUFFICES ASSUME Init PROVE Excluded
  OBVIOUS
<1>1. Sound
  BY SoundInit
<1>2. /\ collections = Single(Root, Initially(Root))
      /\ handles = Single(<<Root, Parameter>>, Initially(Append(Root, Parameter)))
      /\ alias = << >> /\ publications = << >>
      /\ status = Single(Root, "running")
  BY DEF Init
<1>3. /\ DOMAIN collections = {Root} /\ collections[Root] = Initially(Root)
      /\ DOMAIN handles = {<<Root, Parameter>>}
      /\ handles[<<Root, Parameter>>] = Initially(Append(Root, Parameter))
      /\ DOMAIN alias = {} /\ DOMAIN publications = {}
      /\ Contexts = {Root} /\ status[Root] = "running"
  BY <1>2 DEF Single, Contexts
<1>4. KindsPublished
  BY <1>3 DEF KindsPublished
<1>5. Root \in Seq(Nat) /\ Append(Root, Parameter) \in Seq(Nat)
  <2>1. Root \in Seq(Nat) /\ Parameter \in Nat
    BY EmptySeq, ElementsAreNumbers DEF Root
  <2> QED
    BY <2>1, NamesMade
<1>6. ASSUME NEW owner \in Seq(Nat)
      PROVE  /\ Initially(owner).use.scheduling = Modify /\ Initially(owner).use.immediate = None
             /\ Initially(owner).use.in = Flow(owner, "in")
             /\ Initially(owner).use.out = Flow(owner, "out")
             /\ Initially(owner).use.anti_in = NoFlow
             /\ Initially(owner).use.anti_out = Flow(owner, "anti_out")
  BY <1>6, InitialIs DEF Initially, Holder, MakeUse, Perms
<1>7. ASSUME NEW d \in Data
      PROVE  \E s : /\ s.by = Root /\ Own(d) = {s}
                    /\ s.use.scheduling = Modify /\ s.use.immediate = None
                    /\ s.use.in # NoFlow /\ s.use.out # NoFlow
                    /\ s.use.anti_in = NoFlow /\ s.use.anti_out # NoFlow
                    /\ s.use.in # s.use.out
  <2>1. PublishedOf(d) = {}
    BY <1>3 DEF PublishedOf, Unreleased
  <2>2. CASE d = Parameter
    <3>1. ~Fetched(handles[<<Root, Parameter>>].use)
      BY <1>1, <1>3 DEF Sound, HoldersApart
    <3>2. Owners(d) = {Root}
      BY <1>3, <2>2, <3>1 DEF Owners
    <3>3. Own(d) = {HeldBy(Root, d)}
      BY <2>1, <2>2, <3>2 DEF Own, HeldOwn, SharedOwn
    <3>4. HeldBy(Root, d).use = Initially(Append(Root, Parameter)).use /\ HeldBy(Root, d).by = Root
      BY <1>3, <2>2 DEF HeldBy
    <3>5. \A owner : /\ Flow(owner, "in") # NoFlow /\ Flow(owner, "out") # NoFlow
                     /\ Flow(owner, "anti_out") # NoFlow /\ Flow(owner, "in") # Flow(owner, "out")
      BY DEF Flow, NoFlow
    <3>6. /\ HeldBy(Root, d).use.scheduling = Modify /\ HeldBy(Root, d).use.immediate = None
          /\ HeldBy(Root, d).use.in = Flow(Append(Root, Parameter), "in")
          /\ HeldBy(Root, d).use.out = Flow(Append(Root, Parameter), "out")
          /\ HeldBy(Root, d).use.anti_in = NoFlow
          /\ HeldBy(Root, d).use.anti_out = Flow(Append(Root, Parameter), "anti_out")
      BY <1>5, <1>6, <3>4
    <3> QED
      BY <3>3, <3>4, <3>5, <3>6
  <2>3. CASE d # Parameter
    <3>1. d \in Elements
      BY <2>3 DEF Data
    <3>2. Owners(d) = {}
      <4>1. \A c : <<c, d>> # <<Root, Parameter>>
        BY <2>3
      <4> QED
        BY <1>3, <4>1 DEF Owners
    <3>3. ~IsWork(Root)
      BY <1>1, WorkNames DEF Sound, Kept, ContextsKept
    <3>4. Keepers(d) = {Root}
      BY <1>3, <3>3 DEF Keepers, HandedOut
    <3>5. Own(d) = {SharedBy(Root, d)}
      BY <2>1, <2>3, <3>2, <3>4 DEF Own, HeldOwn, SharedOwn
    <3> DEFINE u == Initially(Root).use
    <3>6. /\ SharedBy(Root, d).by = Root
          /\ SharedBy(Root, d).use.in = Indexed(u.in, d)
          /\ SharedBy(Root, d).use.out = Indexed(u.out, d)
          /\ SharedBy(Root, d).use.anti_in = Indexed(u.anti_in, d)
          /\ SharedBy(Root, d).use.anti_out = Indexed(u.anti_out, d)
          /\ SharedBy(Root, d).use.scheduling = u.scheduling
          /\ SharedBy(Root, d).use.immediate = u.immediate
      <4>1. IsHolderOf(Initially(Root), WholeFlows)
        BY <1>5, InitialIs
      <4> QED
        BY <1>3, <3>1, <4>1, ViewOf DEF SharedBy
    <3>7. /\ u.scheduling = Modify /\ u.immediate = None
          /\ u.in = Flow(Root, "in") /\ u.out = Flow(Root, "out")
          /\ u.anti_in = NoFlow /\ u.anti_out = Flow(Root, "anti_out")
      BY <1>5, <1>6
    <3> HIDE DEF u
    <3>8. /\ Indexed(u.in, d).place = "in" /\ Indexed(u.out, d).place = "out"
          /\ Indexed(u.anti_in, d) = NoFlow /\ Indexed(u.anti_out, d).place = "anti_out"
      BY <3>7 DEF Indexed, Flow, NoFlow
    <3>9. NoFlow.place = "none"
      BY DEF NoFlow, Flow
    <3> QED
      BY <3>5, <3>6, <3>7, <3>8, <3>9
  <2> QED
    BY <2>2, <2>3
<1>8. ASSUME NEW d \in Data PROVE ApartFor(d)
  <2>1. PICK s : /\ s.by = Root /\ Own(d) = {s}
                 /\ s.use.scheduling = Modify /\ s.use.immediate = None
                 /\ s.use.in # NoFlow /\ s.use.out # NoFlow
                 /\ s.use.anti_in = NoFlow /\ s.use.anti_out # NoFlow
                 /\ s.use.in # s.use.out
    BY <1>7, <1>8
  <2>2. Active(d) = {s}
    <3>1. Running(Root)
      BY <1>3 DEF Running
    <3>2. Active(d) \subseteq Own(d)
      BY <1>1, ActiveAreOwn
    <3> QED
      BY <2>1, <3>1, <3>2 DEF Active
  <2> DEFINE v == FaceOf(alias, s.use)
  <2>3. \A f : Representative(alias, f) = f
    BY <1>3 DEF Representative
  <2>4. /\ v.in = s.use.in /\ v.out = s.use.out
        /\ "write" \in v.scheduling /\ v.immediate = None
    BY <2>1, <2>3 DEF FaceOf, Modify
  <2>5. v.level # NoFlow /\ v.counted = v.level /\ v.next # v.level
    BY <2>1, <2>3, BackendAssumption DEF FaceOf, LevelOf, NextOf, CountedOf, None, Modify, BackendKinds
  <2>6. FacesOf(alias, Own(d)) = {v} /\ FacesOf(alias, Active(d)) = {v}
    BY <2>1, <2>2 DEF FacesOf
  <2> HIDE DEF v
  <2>7. Apart(FacesOf(alias, Own(d)), FacesOf(alias, Own(d)))
    BY <2>1, <2>4, <2>5, <2>6, OneFaceApart DEF MayWrite
  <2> QED
    BY <2>6, <2>7 DEF ApartFor
<1> QED
  BY <1>1, <1>4, <1>8 DEF Excluded, Exclusion

\* Every step keeps the generations apart, if what is captured is captured by a
\* case that is enough for the backend.
LEMMA ExcludedPreserved == Excluded /\ CapturesSuffice /\ [Next]_vars => Excluded'
<1> SUFFICES ASSUME Excluded, CapturesSuffice, [Next]_vars PROVE Excluded'
  OBVIOUS
<1>1. Sound /\ KindsPublished /\ Exclusion /\ Kept /\ OutsKept
  BY DEF Excluded, Sound
<1>2. Sound'
  BY <1>1, SoundPreserved
<1>3. AnyStep /\ ContextsGoOn
  <2>1. AnyStep
    BY <1>1, StepCases
  <2> QED
    BY <1>1, <2>1, ContextsOfStep
<1>4. KindsPublished'
  BY <1>1, <1>3, KindsStayPublished
<1>5. ASSUME NEW d \in Data PROVE ApartFor(d)'
  <2>1. ApartFor(d)
    BY <1>1 DEF Exclusion
  <2>2. CASE \E contexts : RunsReady(contexts)
    BY <1>1, <1>2, <2>1, <2>2, RunsApart
  <2>3. CASE NoneRuns
    <3>1. ASSUME NEW c, NEW state, Creates(c, state) PROVE ApartFor(d)'
      BY <1>1, <1>2, <1>3, <2>1, <2>3, <3>1, CreatesApart
    <3>2. ASSUME NEW t, CreatesBeneath(t) PROVE ApartFor(d)'
      BY <1>1, <1>2, <1>3, <2>1, <2>3, <3>2, CreatesBeneathApart
    <3>3. ASSUME NEW t, Publishes(t) PROVE ApartFor(d)'
      BY <1>1, <1>2, <1>3, <2>1, <2>3, <3>3, PublishesApart
    <3>4. ASSUME NEW t \in Contexts, Fetch(t) PROVE ApartFor(d)'
      BY <1>1, <1>2, <1>3, <2>1, <2>3, <3>4, FetchApart
    <3>5. ASSUME NEW w \in Contexts, CreateTaskForIndex(w) PROVE ApartFor(d)'
      BY <1>1, <1>2, <1>3, <2>1, <2>3, <3>5, IndexTaskApart
    <3>6. ASSUME NEW w \in Contexts, DropTaskCollection(w) PROVE ApartFor(d)'
      BY <1>1, <1>2, <1>3, <2>1, <2>3, <3>6, DropApart
    <3>7. ASSUME NEW c \in Contexts, EndTask(c) PROVE ApartFor(d)'
      BY <1>1, <1>2, <1>3, <2>1, <2>3, <3>7, EndApart
    <3>8. ASSUME NEW p \in DOMAIN publications, ReleasePublication(p) PROVE ApartFor(d)'
      BY <1>1, <1>2, <1>3, <2>1, <2>3, <3>8, ReleaseApart
    <3>9. CASE UNCHANGED vars
      <4>1. Own(d)' = Own(d) /\ alias' = alias
        BY <3>9 DEF vars, Own, HeldOwn, SharedOwn, PublishedOf, HeldBy, SharedBy, PublishedUse, Owners,
                    Keepers, Unreleased, HandedOut, IsWork, Contexts
      <4>2. \A u \in Own(d) : FaceOf(alias', u.use) = FaceOf(alias, u.use)
        BY <4>1
      <4> QED
        BY <1>1, <1>2, <1>3, <2>1, <2>3, <4>1, <4>2, OwnSame
    <3> QED
      BY <1>3, <2>3, <3>1, <3>2, <3>3, <3>4, <3>5, <3>6, <3>7, <3>8, <3>9 DEF AnyStep, NoneRuns
  <2> QED
    BY <2>2, <2>3 DEF NoneRuns
<1>6. Exclusion'
  BY <1>5 DEF Exclusion
<1> QED
  BY <1>2, <1>4, <1>6 DEF Excluded

\* Aliases, captures and releases leave apart the generations of each datum: at
\* most one producer has its input, with the readers of what it had before.
THEOREM ExclusionHolds == Spec /\ []CapturesSuffice => []Exclusion
<1>1. Excluded => Exclusion
  BY DEF Excluded
<1> QED
  BY <1>1, ExcludedInit, ExcludedPreserved, PTL DEF Spec

\* What a holder holds counts, unless it was fetched.
LEMMA HeldCounts ==
  ASSUME Sound, NEW d \in Data, NEW u \in Held(d)
  PROVE  /\ u.by \in Contexts /\ <<u.by, d>> \in DOMAIN handles
         /\ u.use = handles[<<u.by, d>>].use
         /\ ~Fetched(u.use) => u \in Own(d)
<1>1. PICK k \in DOMAIN handles : k[2] = d /\ u = [by |-> k[1], use |-> handles[k].use]
  BY DEF Held
<1>2. k \in Contexts \X Data
  BY DEF Sound, Kept, HoldersKept
<1>3. k = <<u.by, d>> /\ u.by \in Contexts /\ u.use = handles[k].use
  BY <1>1, <1>2
<1>4. u = HeldBy(u.by, d)
  BY <1>1, <1>3 DEF HeldBy
<1>5. ASSUME ~Fetched(u.use) PROVE u \in Own(d)
  <2>1. u.by \in Owners(d)
    BY <1>3, <1>5 DEF Owners
  <2> QED
    BY <1>4, <2>1 DEF HeldOwn, Own
<1> QED
  BY <1>3, <1>5

\* Next to a running writer nothing has its input that runs, that is read by what
\* runs, or that is offered.
LEMMA ApartAreExclusive == Excluded => ExclusiveAccess
<1> SUFFICES ASSUME Excluded, NEW d \in Data,
                    NEW u \in Held(d) \cup (IF d = Parameter THEN {} ELSE Offered(d)),
                    NEW v \in Held(d) \cup (IF d = Parameter THEN {} ELSE Offered(d)),
                    u.by # v.by, u.by \in Contexts, status[u.by] = "running",
                    v.by \in Contexts => status[v.by] = "running",
                    "write" \in u.use.immediate,
                    v.use.immediate # None
             PROVE  FALSE
  BY DEF ExclusiveAccess
<1>1. Sound /\ ApartFor(d)
  BY DEF Excluded, Exclusion
<1> DEFINE faces   == FacesOf(alias, Own(d))
           running == FacesOf(alias, Active(d))
           U       == FaceOf(alias, u.use)
<1>2. Apart(faces, running)
  BY <1>1 DEF ApartFor
<1>3. ASSUME NEW x, d # Parameter, x \in Offered(d)
      PROVE  /\ x \in PublishedOf(d) /\ x \in Own(d) /\ x.by \notin Contexts
             /\ "write" \notin x.use.immediate
             /\ Ready(faces, FaceOf(alias, x.use))
  <2>1. x \in Published(d) /\ Available(alias, {w.use : w \in UsesOf(d)}, x.use.in)
    BY <1>3 DEF Offered
  <2>2. PICK p \in Unreleased(d) : x = PublishedUse(p)
    BY <2>1 DEF Published, Unreleased, PublishedUse
  <2>3. x \in PublishedOf(d)
    BY <1>3, <2>2 DEF PublishedOf
  <2>4. PermissionsOf(x.use) = Perms(None, Read)
    BY <1>1, <2>2 DEF Unreleased, PublishedUse, Sound, HoldersInShape
  <2>5. x.by \notin Contexts
    BY <1>1, <2>2, PublicationsApart DEF Unreleased, PublishedUse
  <2>6. ASSUME NEW y \in Own(d) PROVE FaceOf(alias, y.use).out # FaceOf(alias, x.use).in
    <3>1. y \in UsesOf(d)
      BY OwnAreUses
    <3>2. ~Equivalent(alias, y.use.out, x.use.in)
      BY <2>1, <3>1 DEF Available
    <3> QED
      BY <3>2 DEF Equivalent, FaceOf
  <2> QED
    BY <2>3, <2>4, <2>5, <2>6 DEF Own, PermissionsOf, Perms, Read, Ready, FacesOf
<1>4. u \in Own(d) /\ u \in Active(d)
  <2>1. u \in Held(d)
    BY <1>3
  <2>2. u.use = handles[<<u.by, d>>].use /\ <<u.by, d>> \in DOMAIN handles
    BY <1>1, <2>1, HeldCounts
  <2>3. ~Fetched(u.use)
    BY <1>1, <2>2 DEF Sound, FetchedAsPublished, IsFetchedAs, MayNotWrite
  <2>4. u \in Own(d)
    BY <1>1, <2>1, <2>3, HeldCounts
  <2> QED
    BY <2>4 DEF Active, Running
<1>5. U \in running /\ Writes(U)
  BY <1>4 DEF FacesOf, Writes, FaceOf
<1>6. Yields(U)
  <2>1. U \in faces
    BY <1>4 DEF FacesOf
  <2> HIDE DEF U, faces, running
  <2> QED
    BY <1>2, <1>5, <2>1 DEF Apart, Shaped
<1>7. ASSUME NEW x \in Own(d), Ready(faces, FaceOf(alias, x.use)) PROVE x = u
  <2> DEFINE X == FaceOf(alias, x.use)
  <2>1. X \in faces
    BY DEF FacesOf
  <2>2. Ready(faces, X)
    BY <1>7
  <2> HIDE DEF X, U, faces, running
  <2>3. X = U
    BY <1>2, <1>5, <2>1, <2>2, NothingElseReady
  <2> QED
    BY <1>1, <1>4, <1>6, <2>3, OnlyOne DEF X, U
<1>8. ASSUME NEW x \in Active(d), x.use.immediate # None PROVE x = u
  <2>1. x \in Own(d)
    BY <1>1, ActiveAreOwn
  <2> DEFINE X == FaceOf(alias, x.use)
  <2>2. X \in running /\ Touches(X)
    BY <1>8 DEF FacesOf, Touches, FaceOf
  <2>3. Ready(faces, X)
    <3> HIDE DEF X, faces, running
    <3> QED
      BY <1>2, <2>2 DEF Apart, InputsReady
  <2> QED
    BY <1>7, <2>1, <2>3
<1>9. CASE v \in Held(d) /\ ~Fetched(v.use)
  <2>1. v \in Own(d) /\ v.by \in Contexts
    BY <1>1, <1>9, HeldCounts
  <2>2. v \in Active(d)
    BY <2>1 DEF Active, Running
  <2> QED
    BY <1>8, <2>2
<1>10. CASE v \in Held(d) /\ Fetched(v.use)
  <2> DEFINE k == <<v.by, d>>
  <2>1. v.by \in Contexts /\ k \in DOMAIN handles /\ v.use = handles[k].use /\ k[1] = v.by /\ k[2] = d
    BY <1>1, <1>10, HeldCounts
  <2> HIDE DEF k
  <2>2. k \in ReadingKeys(d)
    BY <1>10, <2>1 DEF ReadingKeys, Running
  <2>3. PublishedUse(VersionOf(k)) \in Active(d)
    BY <2>2 DEF Active, Readings
  <2>4. VersionOf(k) \in DOMAIN publications
    BY <1>1, <2>2 DEF ReadingKeys, Sound, FetchedAsPublished
  <2>5. PermissionsOf(PublishedUse(VersionOf(k)).use) = Perms(None, Read)
    BY <1>1, <2>4 DEF PublishedUse, Sound, HoldersInShape
  <2>6. PublishedUse(VersionOf(k)).use.immediate = Read
    BY <2>5 DEF PermissionsOf, Perms
  <2>7. PublishedUse(VersionOf(k)) = u
    BY <1>8, <2>3, <2>6 DEF Read, None
  <2> QED
    BY <2>6, <2>7 DEF Read
<1>11. CASE d # Parameter /\ v \in Offered(d)
  BY <1>3, <1>7, <1>11
<1> QED
  BY <1>9, <1>10, <1>11

\* While a task runs with the right to write an element, or the parameter, no other
\* running task can touch it, and no publication offers it to fetchers: for every
\* collection, all programs and both kinds of backends, if what is captured is
\* captured by a case that is enough for the backend.
THEOREM AccessIsExclusive == Spec /\ []CapturesSuffice => []ExclusiveAccess
BY ApartAreExclusive, ExcludedInit, ExcludedPreserved, PTL DEF Spec

(***************************************************************************)
(* When captures suffice for a backend that goes by input flows            *)
(***************************************************************************)
\* A program without tasks that can only schedule writers of a single datum.
\* They would have to be told from the readers their source leaves behind.
NoneOnlySchedules(prog) ==
  /\ \A p \in DOMAIN prog :
       prog[p].do = "task" => prog[p].parameter # Perms(Modify, None)
  /\ \A w \in DOMAIN prog : prog[w].do = "work" =>
       \A n \in DOMAIN prog[w].body :
         prog[w].body[n].do = "child" => prog[w].body[n].request # Perms(Modify, None)

\* Who can schedule writers of the whole collection does nothing else with it,
\* but for works.
OnlySchedules(c) ==
  "write" \in collections[c].use.scheduling => collections[c].use.immediate = None

WholesOnlySchedule == \A c \in DOMAIN collections : ~IsWork(c) => OnlySchedules(c)

\* By input flows, only one case is not enough.
LEMMA SufficesByInputs ==
  ASSUME Backend = "flows", NEW holders, NEW from, NEW request,
         from \in DOMAIN holders =>
           \/ request # Perms(Modify, None)
           \/ PermissionsOf(holders[from].use) # Perms(Modify, Read)
  PROVE  Suffices(holders, from, request)
<1> SUFFICES ASSUME Served(holders, from, request)
             PROVE  CaseFor[<<PermissionsOf(holders[from].use), request>>]
                      \in SufficientCases(Backend)
  BY DEF Suffices
<1> DEFINE source == PermissionsOf(holders[from].use)
           case   == CaseFor[<<source, request>>]
<1>1. from \in DOMAIN holders /\ <<source, request>> \in DOMAIN CaseFor
  BY DEF Served
<1> HIDE DEF source
<1>2. /\ case \in CaptureCases /\ Matches(case, "Sequential", source, request)
      /\ source \in PermissionPairs /\ request \in PermissionPairs
  BY <1>1, CaseServes
<1>3. ASSUME case = ScheduleModifyFromModifyRead PROVE FALSE
  <2>1. Matches(ScheduleModifyFromModifyRead, "Sequential", source, request)
    BY <1>2, <1>3
  <2>2. source.scheduling = Modify /\ source.immediate = Read
        /\ request.scheduling = Modify /\ request.immediate = None
    BY <2>1 DEF Matches, ScheduleModifyFromModifyRead, CaptureCase, PermissionsAmong
  <2>3. source = Perms(Modify, Read) /\ request = Perms(Modify, None)
    BY <1>2, <2>2 DEF PermissionPairs, Perms
  <2> QED
    BY <1>1, <2>3 DEF source
<1> HIDE DEF case
<1>4. case \in SufficientCases(Backend)
  BY <1>2, <1>3 DEF SufficientCases
<1> QED
  BY <1>4 DEF case, source

\* What a running context asks of single data.
LEMMA SinglesRequested ==
  ASSUME Kept, NoneOnlySchedules(program), NEW c \in Contexts,
         status[c] = "running", HasOperation(c), NEW d \in DOMAIN RequestsOf(c)
  PROVE  RequestsOf(c)[d] # Perms(Modify, None)
<1> DEFINE do == Operation(c).do
<1>1. About(c, do)
  BY DEF About
<1>2. Modify # Read /\ Modify # None /\ Perms(None, Modify) # Perms(Modify, None)
      /\ Perms(None, Read) # Perms(Modify, None)
  BY DEF Modify, Read, None, Perms
<1>3. /\ ContextsKept
      /\ program \in Programs
  BY DEF Kept, ContextsKept, Named
<1>4. CASE do = "task"
  <2>1. Place(c) \in DOMAIN program /\ Operation(c) = program[Place(c)]
    BY <1>1, <1>3, <1>4, AboutProgram
  <2>2. RequestsOf(c) = Single(Parameter, Operation(c).parameter)
    BY <1>4 DEF RequestsOf
  <2>3. RequestsOf(c)[d] = program[Place(c)].parameter
    BY <2>1, <2>2 DEF Single
  <2> QED
    BY <1>4, <2>1, <2>3 DEF NoneOnlySchedules
<1>5. CASE do = "reduce"
  <2>1. RequestsOf(c) = Single(Parameter, Perms(None, Modify))
    BY <1>5 DEF RequestsOf
  <2> QED
    BY <1>2, <2>1 DEF Single
<1>6. CASE do = "work"
  <2>1. Place(c) \in DOMAIN program /\ Operation(c) = program[Place(c)]
    BY <1>1, <1>3, <1>6, AboutProgram
  <2>2. RequestsOf(c) = Single(Parameter, Operation(c).shared)
    BY <1>6 DEF RequestsOf
  <2>3. RequestsOf(c)[d] = program[Place(c)].shared
    BY <2>1, <2>2 DEF Single
  <2>4. "write" \notin program[Place(c)].shared.scheduling
    BY <1>3, <1>6, <2>1, ProgramsAssumption
  <2> QED
    BY <2>3, <2>4 DEF Perms, Modify
<1>7. CASE do = "child"
  <2>1. /\ IsWork(Front(c)) /\ ops[c] + 1 \in DOMAIN program[Front(c)].body
        /\ Operation(c) = program[Front(c)].body[ops[c] + 1]
    BY <1>1, <1>3, <1>7, AboutIndex
  <2>2. RequestsOf(c) =
          [e \in IF Operation(c).of = "fetched" THEN FetchedElements(c) ELSE LocalElements(c) |->
             Operation(c).request]
    BY <1>7 DEF RequestsOf
  <2>3. RequestsOf(c)[d] = program[Front(c)].body[ops[c] + 1].request
    BY <2>1, <2>2
  <2> QED
    BY <1>7, <2>1, <2>3 DEF NoneOnlySchedules, IsWork
<1>8. CASE do = "allreduce"
  <2>1. RequestsOf(c) = [e \in LocalElements(c) |-> Perms(None, Modify)]
    BY <1>8 DEF RequestsOf
  <2> QED
    BY <1>2, <2>1
<1>9. CASE do = "publish"
  <2>1. RequestsOf(c) = [e \in PublishedElements(c) |-> Perms(None, Read)]
    BY <1>9 DEF RequestsOf
  <2> QED
    BY <1>2, <2>1
<1>10. CASE do \notin {"task", "reduce", "work", "child", "allreduce", "publish"}
  <2>1. RequestsOf(c) = << >>
    BY <1>10 DEF RequestsOf
  <2> QED
    BY <2>1
<1> QED
  BY <1>4, <1>5, <1>6, <1>7, <1>8, <1>9, <1>10

\* The captures of a program that has no such task suffice.
LEMMA FlowsSufficeNow ==
  ASSUME Kept, Backend = "flows", \A prog \in Programs : NoneOnlySchedules(prog),
         WholesOnlySchedule
  PROVE  CapturesSuffice
<1>1. program \in Programs
  BY DEF Kept, ContextsKept, Named
<1> SUFFICES ASSUME NEW c \in Contexts, status[c] = "running", HasOperation(c)
             PROVE  /\ Suffices(collections, c, RequestOfWhole(c))
                    /\ \A d \in DOMAIN RequestsOf(c) : Suffices(handles, <<c, d>>, RequestsOf(c)[d])
  BY DEF CapturesSuffice
<1>2. ASSUME NEW d \in DOMAIN RequestsOf(c) PROVE Suffices(handles, <<c, d>>, RequestsOf(c)[d])
  <2>1. RequestsOf(c)[d] # Perms(Modify, None)
    BY <1>1, SinglesRequested
  <2> QED
    BY <2>1, SufficesByInputs
<1>3. ASSUME c \in DOMAIN collections
      PROVE  PermissionsOf(collections[c].use) # Perms(Modify, Read)
  <2>1. ~IsWork(c)
    BY PlaceIsNew DEF Kept
  <2>2. OnlySchedules(c)
    BY <1>3, <2>1 DEF WholesOnlySchedule
  <2> QED
    BY <2>2 DEF OnlySchedules, PermissionsOf, Perms, Modify, Read, None
<1>4. Suffices(collections, c, RequestOfWhole(c))
  BY <1>3, SufficesByInputs
<1> QED
  BY <1>2, <1>4

\* What is captured of a whole collection by tasks and reductions.
LEMMA WholeRequests ==
  ASSUME Kept, NEW c, NEW state, Creates(c, state), ~IsWork(Place(c))
  PROVE  "write" \in RequestOfWhole(c).scheduling => RequestOfWhole(c).immediate = None
<1>1. /\ Place(c) \in DOMAIN program /\ Operation(c) = program[Place(c)]
      /\ program \in Programs /\ program[Place(c)].do \in {"task", "reduce", "work"}
  BY ProgramNames DEF Creates, Kept, ContextsKept, Named
<1>2. program[Place(c)].do # "work"
  BY <1>1 DEF IsWork
<1>3. CASE Operation(c).do = "task"
  <2>1. RequestOfWhole(c) = program[Place(c)].collection
    BY <1>1, <1>3 DEF RequestOfWhole
  <2> QED
    BY <1>1, <1>3, <2>1, ProgramsAssumption
<1>4. CASE Operation(c).do = "reduce"
  <2>1. RequestOfWhole(c) = Perms(None, Read)
    BY <1>4 DEF RequestOfWhole
  <2> QED
    BY <2>1 DEF Perms, None
<1> QED
  BY <1>1, <1>2, <1>3, <1>4

\* Who only schedules others with the whole collection goes on like that: what a
\* capture leaves of it follows what was captured.
LEMMA WholesStay ==
  ASSUME Sound, AnyStep, ContextsGoOn, WholesOnlySchedule,
         Backend = "flows", \A prog \in Programs : NoneOnlySchedules(prog)
  PROVE  WholesOnlySchedule'
<1>1. Kept /\ HoldersInShape
  BY DEF Sound
<1>2. program' = program
  BY DEF ContextsGoOn
<1>3. ASSUME NEW x, x \in DOMAIN collections', ~IsWork(x) PROVE OnlySchedules(x)'
  <2>1. CollectionCame(x)
    BY <1>1, <1>3, CollectionsCome
  <2>2. CASE x \in DOMAIN collections /\ collections'[x] = collections[x]
    <3>1. OnlySchedules(x)
      BY <1>3, <2>2 DEF WholesOnlySchedule
    <3> QED
      BY <2>2, <3>1 DEF OnlySchedules
  <2>3. CASE WholeCaptured(x) /\ collections'[x] = WholeCapture(x).source
    <3>1. x \in DOMAIN collections
          /\ <<PermissionsOf(collections[x].use), RequestOfWhole(x)>> \in DOMAIN CaseFor
      BY <2>3 DEF WholeCaptured, Served
    <3>2. OnlySchedules(x)
      BY <1>3, <3>1 DEF WholesOnlySchedule
    <3>3. CapturesSuffice /\ x \in Contexts /\ status[x] = "running" /\ HasOperation(x)
      BY <1>1, <2>3, FlowsSufficeNow DEF WholeCaptured, Creates, Operates
    <3>4. CaseFor[<<PermissionsOf(collections[x].use), RequestOfWhole(x)>>]
            \in SufficientCases(Backend)
      BY <2>3, <3>3 DEF CapturesSuffice, Suffices, WholeCaptured
    <3>5. Takes(collections[x].use, WholeCapture(x).captured.use,
                WholeCapture(x).source.use, MadeFor(Place(x)))
      BY <3>1, <3>4, OutcomeTakes DEF WholeCapture
    <3> DEFINE s == collections[x].use
               n == WholeCapture(x).captured.use
               rest == WholeCapture(x).source.use
               fresh == MadeFor(Place(x))
    <3> HIDE DEF s, n, rest, fresh
    <3>6. Takes(s, n, rest, fresh)
      BY <3>5 DEF s, n, rest, fresh
    <3>7. "write" \in s.scheduling => s.immediate = None
      BY <3>2 DEF OnlySchedules, s
    <3>8. "write" \in rest.scheduling => rest.immediate = None
      <4>1. CASE rest = s
        BY <3>7, <4>1
      <4>2. CASE "write" \in s.scheduling /\ ContinuedWith(s, n, rest, fresh)
        BY <3>7, <4>2 DEF ContinuedWith, None
      <4> QED
        BY <3>6, <4>1, <4>2 DEF Takes
    <3>9. collections'[x].use = rest
      BY <2>3 DEF rest
    <3> QED
      BY <3>8, <3>9 DEF OnlySchedules
  <2>4. ASSUME NEW c, WholeCaptured(c), x = Place(c), collections'[x] = WholeCapture(c).captured
        PROVE  OnlySchedules(x)'
    <3>1. PICK state : Creates(c, state)
      BY <2>4 DEF WholeCaptured
    <3>2. "write" \in RequestOfWhole(c).scheduling => RequestOfWhole(c).immediate = None
      BY <1>1, <1>3, <2>4, <3>1, WholeRequests
    <3>3. PermissionsOf(WholeCapture(c).captured.use) = RequestOfWhole(c)
      BY <1>1, <2>4, WholeCaptureShaped DEF OutcomeInShape
    <3>4. /\ WholeCapture(c).captured.use.scheduling = RequestOfWhole(c).scheduling
          /\ WholeCapture(c).captured.use.immediate = RequestOfWhole(c).immediate
      BY <3>3 DEF PermissionsOf, Perms
    <3>5. collections'[x].use = WholeCapture(c).captured.use
      BY <2>4
    <3> QED
      BY <3>2, <3>4, <3>5 DEF OnlySchedules
  <2> QED
    BY <2>1, <2>2, <2>3, <2>4 DEF CollectionCame
<1>4. ASSUME NEW x, x \in DOMAIN collections', ~IsWork(x)' PROVE OnlySchedules(x)'
  BY <1>2, <1>3, <1>4 DEF IsWork
<1> QED
  BY <1>4 DEF WholesOnlySchedule

\* The backend that goes by input flows can tell all captures of the programs.
FlowsEnough ==
  Backend = "flows" /\ \A prog \in Programs : NoneOnlySchedules(prog)

\* The whole collection is only scheduled at first, and stays so.
LEMMA FlowsSufficeInit == FlowsEnough /\ Init => Sound /\ WholesOnlySchedule
<1> SUFFICES ASSUME Init PROVE WholesOnlySchedule
  BY SoundInit
<1>1. DOMAIN collections = {Root} /\ collections[Root] = Initially(Root)
  BY DEF Init, Single
<1>2. Initially(Root).use.immediate = None
  BY DEF Initially, Holder, MakeUse, Perms
<1> QED
  BY <1>1, <1>2 DEF WholesOnlySchedule, OnlySchedules

\* Every step keeps it, and what is captured suffices.
LEMMA FlowsSufficeNext ==
  FlowsEnough /\ Sound /\ WholesOnlySchedule /\ [Next]_vars => Sound' /\ WholesOnlySchedule'
<1> SUFFICES ASSUME FlowsEnough, Sound, WholesOnlySchedule, [Next]_vars
             PROVE  Sound' /\ WholesOnlySchedule'
  OBVIOUS
<1>1. Kept /\ OutsKept
  BY DEF Sound
<1>2. AnyStep
  BY <1>1, StepCases
<1>3. ContextsGoOn
  BY <1>1, <1>2, ContextsOfStep
<1> QED
  BY <1>2, <1>3, SoundPreserved, WholesStay DEF FlowsEnough

\* What suffices at once.
LEMMA FlowsSufficeThen == FlowsEnough /\ Sound /\ WholesOnlySchedule => CapturesSuffice
BY FlowsSufficeNow DEF FlowsEnough, Sound

\* By input flows all captures suffice, if no task can only schedule writers of a
\* single datum: nobody who reads the whole collection schedules writers of it.
THEOREM FlowsSuffice ==
  ASSUME FlowsEnough
  PROVE  Spec => []CapturesSuffice
<1>1. Init => Sound /\ WholesOnlySchedule
  BY FlowsSufficeInit
<1>2. Sound /\ WholesOnlySchedule /\ [Next]_vars => Sound' /\ WholesOnlySchedule'
  BY FlowsSufficeNext
<1>3. Sound /\ WholesOnlySchedule => CapturesSuffice
  BY FlowsSufficeThen
<1> QED
  BY <1>1, <1>2, <1>3, PTL DEF Spec

\* By input flows nobody touches what a running task writes, in all programs
\* without tasks that can only schedule writers of a single datum.
THEOREM AccessIsExclusiveByInputs ==
  ASSUME FlowsEnough
  PROVE  Spec => []ExclusiveAccess
BY AccessIsExclusive, FlowsSuffice, PTL

(***************************************************************************)
(* What is made beneath an index task follows one another                  *)
(***************************************************************************)
\* Who holds a datum beneath an index task: the index task itself, what it has
\* made, and what it has published.
IsOf(t, c) == c = t \/ (c # Root /\ Front(c) = t)

OwnOf(t, e) == {u \in Own(e) : IsOf(t, u.by)}

\* In the order of its operations; what it goes on with comes last.
Earlier(t, u, v) == u.by # t /\ (v.by = t \/ Last(u.by) < Last(v.by))

\* The later one waits for the output of the earlier one, is of its generation, or
\* waits for the output of one between them.
LeadsTo(a, own, t, u, v) ==
  LET U == FaceOf(a, u.use)
      V == FaceOf(a, v.use)
  IN  \/ Yields(U) /\ V.in = U.out
      \/ ~Yields(U) /\ V.level = U.level
      \/ \E w \in own : /\ Earlier(t, u, w) /\ Earlier(t, w, v)
                        /\ Yields(FaceOf(a, w.use)) /\ V.in = FaceOf(a, w.use).out

Chained(a, own, t) == \A u, v \in own : Earlier(t, u, v) => LeadsTo(a, own, t, u, v)

\* Nothing that is earlier than a running writer is left.
LEMMA NothingEarlier ==
  ASSUME NEW a, NEW all, NEW active \in SUBSET all,
         Apart(FacesOf(a, all), FacesOf(a, active)),
         NEW own \in SUBSET all, NEW t, Chained(a, own, t),
         NEW v \in own, v \in active, NEW u \in own, Earlier(t, u, v)
  PROVE  /\ Touches(FaceOf(a, v.use)) => ~Yields(FaceOf(a, u.use)) /\ FaceOf(a, v.use).level = FaceOf(a, u.use).level
         /\ ~Writes(FaceOf(a, v.use))
<1> DEFINE faces   == FacesOf(a, all)
           running == FacesOf(a, active)
           F(x)    == FaceOf(a, x.use)
<1>1. F(u) \in faces /\ F(v) \in faces /\ F(v) \in running /\ \A w \in own : F(w) \in faces
  BY DEF FacesOf
<1>2. LeadsTo(a, own, t, u, v)
  BY DEF Chained
<1>3. \/ Yields(F(u)) /\ F(v).in = F(u).out
      \/ ~Yields(F(u)) /\ F(v).level = F(u).level
      \/ \E w \in own : Yields(F(w)) /\ F(v).in = F(w).out
  BY <1>2 DEF LeadsTo
<1> HIDE DEF faces, running, F
<1>4. Apart(faces, running)
  BY DEF faces, running
<1>5. ASSUME Touches(F(v)) PROVE ~Yields(F(u)) /\ F(v).level = F(u).level
  <2>1. Ready(faces, F(v))
    BY <1>1, <1>4, <1>5 DEF Apart, InputsReady
  <2> QED
    BY <1>1, <1>3, <2>1 DEF Ready
<1>6. ASSUME Writes(F(v)) PROVE FALSE
  <2>1. Touches(F(v)) /\ Yields(F(v))
    BY <1>1, <1>4, <1>6 DEF Writes, Touches, None, Apart, Shaped
  <2>2. ~Yields(F(u)) /\ F(v).level = F(u).level
    BY <1>5, <2>1
  <2>3. F(u).counted = F(u).level
    BY <1>1, <1>4, <2>2 DEF Apart, Shaped
  <2> QED
    BY <1>1, <1>4, <1>6, <2>1, <2>2, <2>3 DEF Apart, WritersAlone
<1> QED
  BY <1>5, <1>6 DEF F

\* What goes had no output, or nothing was left before it.
LEMMA ChainedStay ==
  ASSUME NEW a, NEW own, NEW t, Chained(a, own, t), NEW a2, NEW own2 \in SUBSET own,
         \A u \in own2 : FaceOf(a2, u.use) = FaceOf(a, u.use),
         \A x \in own \ own2 : Yields(FaceOf(a, x.use)) => \A u \in own2 : ~Earlier(t, u, x)
  PROVE  Chained(a2, own2, t)
<1> SUFFICES ASSUME NEW u \in own2, NEW v \in own2, Earlier(t, u, v)
             PROVE  LeadsTo(a2, own2, t, u, v)
  BY DEF Chained
<1> DEFINE F(x) == FaceOf(a, x.use)
           G(x) == FaceOf(a2, x.use)
<1>1. LeadsTo(a, own, t, u, v)
  BY DEF Chained
<1>2. \A x \in own2 : G(x) = F(x)
  OBVIOUS
<1>3. CASE \E w \in own : /\ Earlier(t, u, w) /\ Earlier(t, w, v)
                          /\ Yields(F(w)) /\ F(v).in = F(w).out
  <2>1. PICK w \in own : Earlier(t, u, w) /\ Earlier(t, w, v) /\ Yields(F(w)) /\ F(v).in = F(w).out
    BY <1>3
  <2>2. w \in own2
    BY <2>1
  <2>3. Yields(G(w)) /\ G(v).in = G(w).out
    BY <1>2, <2>1, <2>2
  <2> QED
    BY <2>1, <2>2, <2>3 DEF LeadsTo
<1>4. CASE Yields(F(u)) /\ F(v).in = F(u).out
  <2>1. Yields(G(u)) /\ G(v).in = G(u).out
    BY <1>2, <1>4
  <2> QED
    BY <2>1 DEF LeadsTo
<1>5. CASE ~Yields(F(u)) /\ F(v).level = F(u).level
  <2>1. ~Yields(G(u)) /\ G(v).level = G(u).level
    BY <1>2, <1>5
  <2> QED
    BY <2>1 DEF LeadsTo
<1> QED
  BY <1>1, <1>3, <1>4, <1>5 DEF LeadsTo

\* What is released as an alias leaves its place in the order to what was before.
LEMMA ChainedRename ==
  ASSUME NEW a, NEW all, NEW active, Apart(FacesOf(a, all), FacesOf(a, active)),
         NEW own \in SUBSET all, NEW t, Chained(a, own, t),
         \A u \in own : u.by # t => Last(u.by) \in Nat,
         NEW m \in all, MayWrite(FaceOf(a, m.use)), NEW own2, own2 = own \ {m},
         \A u \in all : FaceOf(a, u.use).out = FaceOf(a, m.use).out => u = m,
         NEW a2, \A u \in own2 : FaceOf(a2, u.use) = AfterAlias(FaceOf(a, m.use), FaceOf(a, u.use))
  PROVE  Chained(a2, own2, t)
<1> SUFFICES ASSUME NEW u \in own2, NEW v \in own2, Earlier(t, u, v)
             PROVE  LeadsTo(a2, own2, t, u, v)
  BY DEF Chained
<1> DEFINE faces == FacesOf(a, all)
           F(x)  == FaceOf(a, x.use)
           G(x)  == FaceOf(a2, x.use)
           S     == F(m)
           level(f) == IF HasNext(S) /\ f = S.next THEN S.level ELSE f
<1>1. S \in faces /\ (\A x \in own : F(x) \in faces) /\ NextGeneration(faces)
  BY DEF FacesOf, Apart
<1>2. \A x \in own2 : /\ G(x).in = IF F(x).in = S.out THEN S.in ELSE F(x).in
                      /\ G(x).out = F(x).out
                      /\ G(x).level = level(F(x).level)
                      /\ Yields(G(x)) <=> Yields(F(x))
                      /\ F(x).out # S.out
  <2> SUFFICES ASSUME NEW x \in own2
               PROVE  /\ G(x).in = IF F(x).in = S.out THEN S.in ELSE F(x).in
                      /\ G(x).out = F(x).out
                      /\ G(x).level = level(F(x).level)
                      /\ Yields(G(x)) <=> Yields(F(x))
                      /\ F(x).out # S.out
    OBVIOUS
  <2>1. x \in own /\ x # m /\ G(x) = AfterAlias(S, F(x))
    OBVIOUS
  <2>2. F(x).out # S.out
    BY <2>1
  <2> QED
    BY <2>1, <2>2 DEF AfterAlias, Yields
<1>3. LeadsTo(a, own, t, u, v)
  BY DEF Chained
<1>4. \A x \in own : Earlier(t, u, x) =>
        \/ Yields(F(u)) /\ F(x).in = F(u).out
        \/ ~Yields(F(u)) /\ F(x).level = F(u).level
        \/ \E w \in own : Earlier(t, u, w) /\ Earlier(t, w, x) /\ Yields(F(w)) /\ F(x).in = F(w).out
  BY DEF Chained, LeadsTo
<1>5. ASSUME m \in own, NEW w \in own, Earlier(t, w, m), Earlier(t, m, v) PROVE Earlier(t, w, v)
  <2>1. w.by # t /\ m.by # t /\ Last(w.by) < Last(m.by) /\ m \in own /\ v \in own
    BY <1>5 DEF Earlier
  <2>2. CASE v.by = t
    BY <2>1, <2>2 DEF Earlier
  <2>3. CASE v.by # t
    <3>1. Last(m.by) < Last(v.by)
      BY <1>5, <2>3 DEF Earlier
    <3>2. Last(w.by) \in Nat /\ Last(m.by) \in Nat /\ Last(v.by) \in Nat
      BY <2>1, <2>3
    <3>3. \A i, j, k \in Nat : i < j /\ j < k => i < k
      OBVIOUS
    <3> QED
      BY <2>1, <3>1, <3>2, <3>3 DEF Earlier
  <2> QED
    BY <2>2, <2>3
<1>6. ASSUME F(v).in = S.out PROVE G(v).in = S.in /\ G(v).level = S.level
  <2>1. HasNext(S) /\ F(v).level = S.next
    BY <1>1, <1>6 DEF NextGeneration
  <2> QED
    BY <1>2, <1>6, <2>1
<1>7. level(S.level) = S.level
  OBVIOUS
<1> HIDE DEF faces, F, G, S, level
<1>8. \/ Yields(G(u)) /\ G(v).in = G(u).out
      \/ ~Yields(G(u)) /\ G(v).level = G(u).level
      \/ \E w \in own2 : Earlier(t, u, w) /\ Earlier(t, w, v) /\ Yields(G(w)) /\ G(v).in = G(w).out
  <2>1. CASE Yields(F(u)) /\ F(v).in = F(u).out
    BY <1>2, <2>1
  <2>2. CASE ~Yields(F(u)) /\ F(v).level = F(u).level
    BY <1>2, <2>2
  <2>3. ASSUME NEW w \in own, Earlier(t, u, w), Earlier(t, w, v), Yields(F(w)), F(v).in = F(w).out
        PROVE  \/ Yields(G(u)) /\ G(v).in = G(u).out
               \/ ~Yields(G(u)) /\ G(v).level = G(u).level
               \/ \E x \in own2 : Earlier(t, u, x) /\ Earlier(t, x, v) /\ Yields(G(x)) /\ G(v).in = G(x).out
    <3>1. CASE w # m
      <4>1. w \in own2
        BY <3>1
      <4>2. Yields(G(w)) /\ G(v).in = G(w).out
        BY <1>2, <2>3, <4>1
      <4> QED
        BY <2>3, <4>1, <4>2
    <3>2. CASE w = m
      <4>1. F(v).in = S.out /\ Earlier(t, u, m) /\ Earlier(t, m, v) /\ m \in own
        BY <2>3, <3>2 DEF S
      <4>2. G(v).in = S.in /\ G(v).level = S.level
        BY <1>6, <4>1
      <4>3. CASE Yields(F(u)) /\ S.in = F(u).out
        BY <1>2, <4>2, <4>3
      <4>4. CASE ~Yields(F(u)) /\ S.level = F(u).level
        BY <1>2, <1>7, <4>2, <4>4
      <4>5. ASSUME NEW x \in own, Earlier(t, u, x), Earlier(t, x, m), Yields(F(x)), S.in = F(x).out
            PROVE  \E y \in own2 : Earlier(t, u, y) /\ Earlier(t, y, v) /\ Yields(G(y)) /\ G(v).in = G(y).out
        <5>1. x # m
          <6>1. \A i \in Nat : ~(i < i)
            OBVIOUS
          <6> QED
            BY <4>5, <6>1 DEF Earlier
        <5>2. x \in own2 /\ Earlier(t, x, v)
          BY <1>5, <4>1, <4>5, <5>1
        <5>3. Yields(G(x)) /\ G(v).in = G(x).out
          BY <1>2, <4>2, <4>5, <5>2
        <5> QED
          BY <4>5, <5>2, <5>3
      <4> QED
        BY <1>4, <4>1, <4>3, <4>4, <4>5 DEF S
    <3> QED
      BY <3>1, <3>2
  <2> QED
    BY <1>3, <2>1, <2>2, <2>3 DEF LeadsTo, F
<1> QED
  BY <1>8 DEF LeadsTo, G

\* What an index task captures comes after what it made before, and what is left of
\* the source after it.
LEMMA ChainedCapture ==
  ASSUME NEW a, NoFlow \notin DOMAIN a,
         NEW all, NEW active \in SUBSET all, Apart(FacesOf(a, all), FacesOf(a, active)),
         NEW own \in SUBSET all, NEW t, Chained(a, own, t),
         NEW s \in own, s \in active, s.by = t,
         NEW n, n.by # t, Last(n.by) \in Nat,
         \A u \in own \ {s} : u.by # t /\ Last(u.by) \in Nat /\ Last(u.by) < Last(n.by),
         NEW rest, rest.by = t, rest.use = s.use => rest = s,
         NEW fresh, Takes(s.use, n.use, rest.use, fresh),
         \A place \in FlowPlaces : fresh[place] \notin DOMAIN a /\ UnseenBy(FacesOf(a, all), fresh[place]),
         \A x, y \in FlowPlaces : fresh[x] = fresh[y] => x = y,
         NEW own2, own2 = (own \ {s}) \cup {n, rest}
  PROVE  Chained(a, own2, t)
<1> DEFINE faces == FacesOf(a, all)
           F(x)  == FaceOf(a, x.use)
<1>1. F(s) \in faces /\ Apart(faces, FacesOf(a, active)) /\ Shaped(faces)
  BY DEF FacesOf, Apart
<1>2. \/ rest.use = s.use /\ ~Writes(F(s)) /\ IsReaderOf(F(s), F(n))
      \/ MayWrite(F(s)) /\ Succeeds(faces, F(s), F(n), F(rest))
  <2> HIDE DEF faces
  <2>1. FaceOf(a, s.use) \in faces
    BY <1>1
  <2>2. \A place \in FlowPlaces : fresh[place] \notin DOMAIN a /\ UnseenBy(faces, fresh[place])
    BY DEF faces
  <2> QED
    BY <1>1, <2>1, <2>2, TakenFaces
<1> DEFINE between(u, v, w) == Earlier(t, u, w) /\ Earlier(t, w, v) /\ Yields(F(w)) /\ F(v).in = F(w).out
           leads(u, v) == \/ Yields(F(u)) /\ F(v).in = F(u).out
                          \/ ~Yields(F(u)) /\ F(v).level = F(u).level
<1>3. \A u, v \in own : Earlier(t, u, v) => leads(u, v) \/ \E w \in own : between(u, v, w)
  BY DEF Chained, LeadsTo
<1>4. \A u \in own \ {s} : Earlier(t, u, s) /\ Earlier(t, u, n) /\ Earlier(t, u, rest)
  BY DEF Earlier
<1>5. Earlier(t, n, rest)
  BY DEF Earlier
<1>6. \A u \in own \ {s} : ~Writes(F(s)) /\ (Touches(F(s)) => ~Yields(F(u)) /\ F(s).level = F(u).level)
  BY <1>4, NothingEarlier
<1>7. \A u, v, w : between(u, v, w) => w.by # t
  BY DEF Earlier
<1>8. n \in own2 /\ rest \in own2 /\ \A u \in own \ {s} : u \in own2
  OBVIOUS
<1>9. ASSUME NEW u \in own \ {s}
      PROVE  leads(u, n) \/ \E w \in own2 : between(u, n, w)
  <2>1. leads(u, s) \/ \E w \in own : between(u, s, w)
    BY <1>3, <1>4
  <2>2. CASE F(n).in = F(s).in /\ F(n).level = F(s).level
    <3>1. CASE leads(u, s)
      BY <2>2, <3>1
    <3>2. ASSUME NEW w \in own, between(u, s, w) PROVE \E x \in own2 : between(u, n, x)
      <4>1. w \in own \ {s}
        BY <1>7, <3>2
      <4>2. between(u, n, w)
        BY <1>4, <2>2, <3>2, <4>1
      <4> QED
        BY <1>8, <4>1, <4>2
    <3> QED
      BY <2>1, <3>1, <3>2
  <2>3. CASE F(n).level = F(s).level /\ Touches(F(s))
    BY <1>6, <2>3
  <2> QED
    BY <1>2, <1>6, <2>2, <2>3 DEF IsReaderOf, Succeeds
<1>10. ASSUME NEW u \in own \ {s}
       PROVE  leads(u, rest) \/ \E w \in own2 : between(u, rest, w)
  <2>1. CASE rest.use = s.use
    <3>1. rest = s
      BY <2>1
    <3>2. leads(u, s) \/ \E w \in own : between(u, s, w)
      BY <1>3, <1>4
    <3>3. \A w \in own : between(u, s, w) => w \in own2
      BY <1>7
    <3> QED
      BY <3>1, <3>2, <3>3
  <2>2. CASE Yields(F(n)) /\ F(rest).in = F(n).out
    <3>1. between(u, rest, n)
      BY <1>4, <1>5, <2>2
    <3> QED
      BY <1>8, <3>1
  <2> QED
    BY <1>2, <1>6, <2>1, <2>2 DEF Succeeds
<1>11. leads(n, rest)
  <2>1. CASE rest.use = s.use /\ IsReaderOf(F(s), F(n))
    BY <2>1 DEF IsReaderOf
  <2> QED
    BY <1>2, <2>1 DEF Succeeds
<1>12. ASSUME NEW u \in own \ {s}, NEW v \in own \ {s}, Earlier(t, u, v)
       PROVE  leads(u, v) \/ \E w \in own2 : between(u, v, w)
  <2>1. \A w \in own : between(u, v, w) => w \in own2
    BY <1>7
  <2> QED
    BY <1>3, <1>12, <2>1
<1>13. ASSUME NEW u \in own \ {s} PROVE ~Earlier(t, n, u)
  <2>1. \A i, j \in Nat : i < j => ~(j < i)
    OBVIOUS
  <2> QED
    BY <2>1 DEF Earlier
<1>14. \A u, v \in own2 : Earlier(t, u, v) => leads(u, v) \/ \E w \in own2 : between(u, v, w)
  <2> HIDE DEF F, between, leads
  <2> SUFFICES ASSUME NEW u \in own2, NEW v \in own2, Earlier(t, u, v)
               PROVE  leads(u, v) \/ \E w \in own2 : between(u, v, w)
    OBVIOUS
  <2>1. u # rest /\ ~(u = n /\ v = n)
    <3>1. \A i \in Nat : ~(i < i)
      OBVIOUS
    <3> QED
      BY <3>1 DEF Earlier
  <2>2. CASE u = n
    BY <1>11, <1>13, <2>1, <2>2
  <2>3. CASE u \in own \ {s}
    BY <1>9, <1>10, <1>12, <2>3
  <2> QED
    BY <2>1, <2>2, <2>3
<1> QED
  BY <1>14 DEF Chained, LeadsTo

(***************************************************************************)
(* Every step keeps the order beneath index tasks                          *)
(***************************************************************************)
InOrder ==
  \A t \in Contexts : IsIndexTask(t) => \A e \in Elements : Chained(alias, OwnOf(t, e), t)

\* What is held beneath an index task counts, and is no part of a collection.
LEMMA OwnOfParts ==
  Sound => \A t : IsIndexTask(t) => \A e \in Elements :
             /\ OwnOf(t, e) = {u \in HeldOwn(e) \cup PublishedOf(e) : IsOf(t, u.by)}
             /\ OwnOf(t, e) \subseteq Own(e)
<1> SUFFICES ASSUME Sound, NEW t, IsIndexTask(t), NEW e \in Elements
             PROVE  /\ OwnOf(t, e) = {u \in HeldOwn(e) \cup PublishedOf(e) : IsOf(t, u.by)}
                    /\ OwnOf(t, e) \subseteq Own(e)
  OBVIOUS
<1>1. \A u \in SharedOwn(e) : u.by \in DOMAIN collections
  BY DEF SharedOwn, SharedBy, Keepers
<1>2. \A c \in DOMAIN collections : ~IsOf(t, c)
  BY DEF Sound, HoldersApart, IsOf, IsBeneath
<1>3. \A u \in SharedOwn(e) : ~IsOf(t, u.by)
  BY <1>1, <1>2
<1> QED
  BY <1>3 DEF OwnOf, Own

\* Before and after a step.
LEMMA OwnOfPartsAfter ==
  Sound' => (\A t : IsIndexTask(t) => \A e \in Elements :
               OwnOf(t, e) = {u \in HeldOwn(e) \cup PublishedOf(e) : IsOf(t, u.by)})'
<1>1. Sound => \A t : IsIndexTask(t) => \A e \in Elements :
                 OwnOf(t, e) = {u \in HeldOwn(e) \cup PublishedOf(e) : IsOf(t, u.by)}
  BY OwnOfParts
<1> QED
  BY <1>1, PTL

\* What is of an index task but not its own has the number of an operation that it
\* has performed.
LEMMA OwnOfNames ==
  ASSUME Sound, NEW t \in Contexts, IsIndexTask(t), NEW e \in Elements, NEW u \in OwnOf(t, e)
  PROVE  /\ u \in Own(e)
         /\ u.by # t => Front(u.by) = t /\ Last(u.by) \in Nat /\ Last(u.by) <= ops[t]
<1>1. Kept /\ ContextsKept /\ Numbered /\ ~IsWork(t) /\ ops[t] \in Nat /\ t \in Seq(Nat) /\ t # Root
  <2>1. Kept /\ ContextsKept /\ Numbered
    BY DEF Sound, Kept, ContextsKept
  <2>2. ~IsWork(t) /\ ops[t] \in Nat /\ t \in Seq(Nat)
    BY <2>1, NamesApart, ContextNames
  <2> QED
    BY <2>1, <2>2 DEF IsIndexTask
<1>2. u \in Own(e) /\ u \in HeldOwn(e) \cup PublishedOf(e) /\ IsOf(t, u.by)
  BY OwnOfParts
<1>3. ASSUME u.by # t, u \in HeldOwn(e) PROVE Front(u.by) = t /\ Last(u.by) \in Nat /\ Last(u.by) <= ops[t]
  <2> PICK c \in Owners(e) : u = HeldBy(c, e)
    BY <1>3 DEF HeldOwn
  <2>1. u.by \in Contexts /\ u.by # Root /\ Front(u.by) = t
    BY <1>2, <1>3 DEF HeldBy, Owners, IsOf
  <2>2. u.by \in Seq(Nat) /\ u.by # << >>
    BY <1>1, <2>1, ContextNames DEF Root
  <2>3. Last(u.by) \in Nat
    BY <2>2 DEF Last
  <2>4. Last(u.by) <= ops[t]
    BY <1>1, <2>1 DEF Numbered
  <2> QED
    BY <2>1, <2>3, <2>4
<1>4. ASSUME u.by # t, u \in PublishedOf(e) PROVE Front(u.by) = t /\ Last(u.by) \in Nat /\ Last(u.by) <= ops[t]
  <2>1. Front(u.by) = t
    BY <1>2, <1>4 DEF IsOf
  <2>2. PICK q \in DOMAIN publications : u.by = publications[q].at
    BY <1>4 DEF PublishedOf, PublishedUse, Unreleased
  <2>3. PICK n \in 1 .. ops[TakerOf(q[1], q[2])] : Last(u.by) = n /\ Front(u.by) = TakerOf(q[1], q[2])
    BY <2>2, PublicationAt
  <2> QED
    BY <1>1, <2>1, <2>3
<1> QED
  BY <1>2, <1>3, <1>4

\* What there is beneath an index task after a step.
LEMMA OwnOfAfter ==
  ASSUME Sound', program' = program, NEW t, IsIndexTask(t), NEW e \in Elements
  PROVE  /\ OwnOf(t, e)' = {u \in Own(e)' : IsOf(t, u.by)}
         /\ OwnOf(t, e)' = {u \in HeldOwn(e)' \cup PublishedOf(e)' : IsOf(t, u.by)}
<1>1. IsIndexTask(t)'
  BY NamesStay
<1>2. OwnOf(t, e)' = {u \in HeldOwn(e)' \cup PublishedOf(e)' : IsOf(t, u.by)}
  BY <1>1, OwnOfPartsAfter DEF IsOf
<1> QED
  BY <1>2 DEF OwnOf, IsOf

\* Nothing changes beneath an index task if nothing is held or published anew.
LEMMA OrderSame ==
  ASSUME Sound, Sound', program' = program, alias' = alias,
         NEW t, IsIndexTask(t), NEW e \in Elements, Chained(alias, OwnOf(t, e), t),
         \A u : IsOf(t, u.by) =>
           (u \in HeldOwn(e)' \cup PublishedOf(e)' <=> u \in HeldOwn(e) \cup PublishedOf(e))
  PROVE  Chained(alias', OwnOf(t, e)', t)
<1>1. OwnOf(t, e)' = {u \in HeldOwn(e)' \cup PublishedOf(e)' : IsOf(t, u.by)}
  BY OwnOfAfter
<1>2. OwnOf(t, e) = {u \in HeldOwn(e) \cup PublishedOf(e) : IsOf(t, u.by)}
  BY OwnOfParts
<1>3. OwnOf(t, e)' = OwnOf(t, e)
  BY <1>1, <1>2
<1> QED
  BY <1>3

\* An index task that was just made has made nothing yet.
LEMMA NewTasksAlone ==
  ASSUME Sound, Sound', AnyStep, ContextsGoOn, NEW t, t \in Contexts', t \notin Contexts,
         IsIndexTask(t), NEW e \in Elements, NEW u, u \in OwnOf(t, e)'
  PROVE  u.by = t
<1>1. program' = program /\ Kept /\ OutsKept /\ ContextsKept /\ Numbered
  BY DEF ContextsGoOn, Sound, Kept, ContextsKept
<1>2. u \in HeldOwn(e)' \cup PublishedOf(e)' /\ IsOf(t, u.by)
  BY <1>1, OwnOfAfter
<1> SUFFICES ASSUME u.by # t PROVE FALSE
  OBVIOUS
<1>3. u.by # Root /\ Front(u.by) = t
  BY <1>2 DEF IsOf
<1>4. ASSUME u \in HeldOwn(e)' PROVE FALSE
  <2>1. u.by \in Contexts'
    <3>1. PICK c : c \in Owners(e)' /\ u = HeldBy(c, e)'
      BY <1>4 DEF HeldOwn
    <3> QED
      BY <3>1 DEF HeldBy, Owners
  <2>2. CASE u.by \in Contexts
    BY <1>1, <1>3, <2>2 DEF Numbered
  <2>3. CASE u.by \notin Contexts
    <3>1. MadeAt(u.by)
      BY <2>1, <2>3 DEF ContextsGoOn
    <3>2. Front(u.by) \in Contexts
      <4>1. CASE \E x \in Contexts : u.by = Place(x)
        BY <1>1, <4>1, ContextNames
      <4>2. CASE \E w \in Contexts : IsWork(w) /\ u.by \in IndexTasks(w)
        BY <1>1, <4>2, NamesApart
      <4> QED
        BY <3>1, <4>1, <4>2 DEF MadeAt
    <3> QED
      BY <1>3, <3>2
  <2> QED
    BY <2>2, <2>3
<1>5. ASSUME u \in PublishedOf(e)' PROVE FALSE
  <2>1. PICK p : p \in DOMAIN publications' /\ u.by = publications'[p].at
    BY <1>5 DEF PublishedOf, PublishedUse, Unreleased
  <2>2. CASE PublicationStays(p)
    <3>1. p \in DOMAIN publications /\ publications'[p].at = publications[p].at
      <4>1. p \in DOMAIN publications /\ "at" \in DOMAIN publications[p]
        BY <1>1, <2>2 DEF PublicationStays, OutsKept, PublicationsMade
      <4> QED
        BY <2>2, <4>1 DEF PublicationStays
    <3>2. Front(publications[p].at) \in Contexts
      BY <3>1, PublicationAt
    <3> QED
      BY <1>3, <2>1, <3>1, <3>2
  <2>3. ASSUME NEW x, PublicationMade(x, p) PROVE FALSE
    <3>1. Publishes(x) /\ u.by = Place(x)
      BY <2>1, <2>3 DEF PublicationMade, PublicationOf
    <3>2. x \in Contexts
      BY <1>1, <3>1, CapturingIs DEF Capturing
    <3> QED
      BY <1>1, <1>3, <3>1, <3>2, ContextNames
  <2> QED
    BY <1>1, <2>1, <2>2, <2>3, PublicationsCome
<1> QED
  BY <1>2, <1>4, <1>5

\* Who keeps what it has of a datum counts as it did.
LEMMA HeldAlike ==
  ASSUME Kept, ContextsGoOn, NEW d, NEW x,
         <<x, d>> \in DOMAIN handles' <=> <<x, d>> \in DOMAIN handles,
         <<x, d>> \in DOMAIN handles => handles'[<<x, d>>] = handles[<<x, d>>]
  PROVE  \A u : u.by = x => (u \in HeldOwn(d)' <=> u \in HeldOwn(d))
<1>1. Contexts \subseteq Contexts' /\ DOMAIN handles \subseteq Contexts \X Data
  BY DEF ContextsGoOn, Kept, HoldersKept
<1>2. <<x, d>> \in DOMAIN handles => x \in Contexts /\ x \in Contexts'
  BY <1>1
<1>3. x \in Owners(d)' <=> x \in Owners(d)
  BY <1>2 DEF Owners, Fetched
<1>4. x \in Owners(d) => HeldBy(x, d)' = HeldBy(x, d)
  BY DEF Owners, HeldBy
<1>5. \A u : u \in HeldOwn(d) <=> \E c \in Owners(d) : u = HeldBy(c, d)
  BY DEF HeldOwn
<1>6. \A u : u \in HeldOwn(d)' <=> \E c \in Owners(d)' : u = HeldBy(c, d)'
  BY DEF HeldOwn
<1>7. \A c : HeldBy(c, d).by = c /\ HeldBy(c, d)'.by = c
  BY DEF HeldBy
<1> QED
  BY <1>3, <1>4, <1>5, <1>6, <1>7

\* Steps that neither capture an element, nor end or release anything, leave what
\* there is beneath an index task.
LEMMA QuietOrder ==
  ASSUME Sound, Sound', ContextsGoOn,
         \/ \E c : \E state : Creates(c, state)
         \/ \E x \in Contexts : Fetch(x)
         \/ \E w \in Contexts : CreateTaskForIndex(w) \/ DropTaskCollection(w)
         \/ \E contexts : RunsReady(contexts)
         \/ UNCHANGED vars,
         NEW t \in Contexts, IsIndexTask(t), NEW e \in Elements, Chained(alias, OwnOf(t, e), t)
  PROVE  Chained(alias', OwnOf(t, e)', t)
<1>1. /\ Kept /\ ContextsKept /\ Named /\ program' = program
      /\ e \in Data /\ e # Parameter
  BY ElementsAreNumbers DEF Sound, Kept, ContextsKept, ContextsGoOn, Data
<1>2. SUFFICES /\ alias' = alias /\ publications' = publications
               /\ \A u : IsOf(t, u.by) => (u \in HeldOwn(e)' <=> u \in HeldOwn(e))
  <2>1. ASSUME alias' = alias, publications' = publications,
               \A u : IsOf(t, u.by) => (u \in HeldOwn(e)' <=> u \in HeldOwn(e))
        PROVE  Chained(alias', OwnOf(t, e)', t)
    <3>1. PublishedOf(e)' = PublishedOf(e)
      BY <2>1, PublishedStays
    <3> QED
      BY <1>1, <2>1, <3>1, OrderSame
  <2> QED
    BY <2>1
<1>3. ASSUME NEW c, NEW state, Creates(c, state)
      PROVE  alias' = alias /\ publications' = publications /\ HeldOwn(e)' = HeldOwn(e)
  <2>1. Capturing(c) /\ e \notin Requested(c)
    BY <1>1, <1>3 DEF Capturing, Making, Creates
  <2>2. HeldOwn(e)' = HeldOwn(e)
    BY <1>1, <2>1, HeldAfter
  <2> QED
    BY <1>3, <2>2 DEF Creates
<1>4. ASSUME NEW x \in Contexts, Fetch(x)
      PROVE  alias' = alias /\ publications' = publications /\ HeldOwn(e)' = HeldOwn(e)
  BY <1>1, <1>4, FetchStays, FetchedUncounted
<1>5. ASSUME NEW w \in Contexts, CreateTaskForIndex(w)
      PROVE  /\ alias' = alias /\ publications' = publications
             /\ \A u : IsOf(t, u.by) => (u \in HeldOwn(e)' <=> u \in HeldOwn(e))
  <2>1. PICK x \in IndexTasks(w) \ Contexts :
          \A y : \A d : y # x =>
            /\ <<y, d>> \in DOMAIN handles' <=> <<y, d>> \in DOMAIN handles
            /\ <<y, d>> \in DOMAIN handles => handles'[<<y, d>>] = handles[<<y, d>>]
    BY <1>5, IndexTaskMade
  <2>2. ~IsOf(t, x)
    <3>1. IsWork(w) /\ Front(x) = w /\ ~IsWork(t)
      BY <1>1, <1>5, <2>1, NamesApart, IndexTasksNamed DEF CreateTaskForIndex
    <3> QED
      BY <2>1, <3>1 DEF IsOf
  <2>3. \A u : IsOf(t, u.by) => (u \in HeldOwn(e)' <=> u \in HeldOwn(e))
    <3> SUFFICES ASSUME NEW u, IsOf(t, u.by) PROVE u \in HeldOwn(e)' <=> u \in HeldOwn(e)
      OBVIOUS
    <3>1. u.by # x
      BY <2>2
    <3> QED
      BY <1>1, <2>1, <3>1, HeldAlike
  <2> QED
    BY <1>5, <2>3 DEF CreateTaskForIndex
<1>6. ASSUME NEW w \in Contexts, DropTaskCollection(w)
      PROVE  alias' = alias /\ publications' = publications /\ HeldOwn(e)' = HeldOwn(e)
  <2>1. handles' = Without(handles, {<<w, Parameter>>}) /\ alias' = alias /\ publications' = publications
    BY <1>6 DEF DropTaskCollection
  <2>2. \A x : <<x, e>> # <<w, Parameter>>
    BY <1>1
  <2>3. HoldersSame(e)
    BY <2>1, <2>2 DEF HoldersSame, Without
  <2> QED
    BY <1>1, <2>1, <2>3, HeldStays
<1>7. ASSUME \/ \E contexts : RunsReady(contexts)
             \/ UNCHANGED vars
      PROVE  alias' = alias /\ publications' = publications /\ HeldOwn(e)' = HeldOwn(e)
  <2>1. alias' = alias /\ publications' = publications /\ handles' = handles
    BY <1>7 DEF RunsReady, RunsPending, Run, vars
  <2>2. HoldersSame(e)
    BY <2>1 DEF HoldersSame
  <2> QED
    BY <1>1, <2>1, <2>2, HeldStays
<1> QED
  BY <1>3, <1>4, <1>5, <1>6, <1>7

\* What an index task captures of an element follows what it has made before.
LEMMA TakenOrder ==
  ASSUME Sound, Sound', CapturesSuffice, ContextsGoOn,
         NEW x, Capturing(x), NEW e \in Elements, ApartFor(e), e \in Requested(x),
         HeldBy(x, e) \in HeldOwn(e),
         HeldOwn(e)' \cup PublishedOf(e)' =
           ((HeldOwn(e) \cup PublishedOf(e)) \ {HeldBy(x, e)}) \cup {CapturedUseOf(x, e), LeftUseOf(x, e)},
         NEW t \in Contexts, IsIndexTask(t), Chained(alias, OwnOf(t, e), t), IsIndexTask(x)
  PROVE  Chained(alias, OwnOf(t, e)', t)
<1> DEFINE s     == HeldBy(x, e)
           n     == CapturedUseOf(x, e)
           rest  == LeftUseOf(x, e)
           fresh == MadeFor(Append(Place(x), e))
           own2  == OwnOf(t, e)'
           parts == HeldOwn(e) \cup PublishedOf(e)
<1>1. /\ Kept /\ ContextsKept /\ Named /\ program' = program /\ e \in Data
  BY DEF Sound, Kept, ContextsKept, ContextsGoOn, Data
<1>2. x \in Contexts /\ status[x] = "running" /\ Place(x) \notin Contexts
      /\ Front(Place(x)) = x /\ Last(Place(x)) = ops[x] + 1 /\ ops[x] \in Nat
  <2>1. x \in Contexts /\ status[x] = "running"
    BY <1>1, CapturingIs
  <2> QED
    BY <1>1, <2>1, PlaceIsNew, ContextNames
<1>3. s.by = x /\ n.by = Place(x) /\ rest.by = x
  BY DEF HeldBy, CapturedUseOf, LeftUseOf
<1>4. /\ own2 = {u \in (parts \ {s}) \cup {n, rest} : IsOf(t, u.by)}
      /\ OwnOf(t, e) = {u \in parts : IsOf(t, u.by)}
      /\ OwnOf(t, e) \subseteq Own(e)
  BY <1>1, OwnOfAfter, OwnOfParts
<1>5. CASE t # x
  <2>1. ~IsOf(t, x)
    <3>1. IsWork(Front(x)) /\ Front(x) \in Contexts /\ ~IsWork(t)
      BY <1>1, <1>2, NamesApart, IndexTasksNamed
    <3> QED
      BY <1>5, <3>1 DEF IsOf
  <2>2. ~IsOf(t, Place(x))
    BY <1>2, <1>5 DEF IsOf
  <2> HIDE DEF s, n, rest, parts, own2
  <2>3. own2 = OwnOf(t, e)
    BY <1>3, <1>4, <2>1, <2>2
  <2> QED
    BY <2>3 DEF own2
<1>6. CASE t = x
  <2>1. IsOf(t, x) /\ IsOf(t, Place(x))
    <3>1. Place(x) # Root
      BY <1>1, <1>2, ContextNames
    <3> QED
      BY <1>2, <1>6, <3>1 DEF IsOf
  <2>2. s \in parts
    OBVIOUS
  <2>3. own2 = (OwnOf(t, e) \ {s}) \cup {n, rest} /\ s \in OwnOf(t, e)
    <3> HIDE DEF s, n, rest, parts, own2
    <3> QED
      BY <1>3, <1>4, <2>1, <2>2
  <2>4. s \in Own(e) /\ s \in Active(e)
    <3>1. s \in Own(e)
      BY <1>4, <2>3
    <3> QED
      BY <1>2, <1>3, <3>1 DEF Active, Running
  <2>5. IsFresh(fresh, e) /\ Takes(s.use, n.use, rest.use, fresh)
    BY <1>1, CaptureTaken
  <2>6. rest.use = s.use => rest = s
    BY DEF HeldBy, LeftUseOf
  <2>7. \A u \in OwnOf(t, e) \ {s} : u.by # t /\ Last(u.by) \in Nat /\ Last(u.by) < Last(n.by)
    <3> SUFFICES ASSUME NEW u \in OwnOf(t, e), u # s
                 PROVE  u.by # t /\ Last(u.by) \in Nat /\ Last(u.by) < Last(n.by)
      BY DEF OwnOf
    <3>1. u \in Own(e)
      BY <1>4
    <3>2. u.by # t
      BY <1>1, <1>3, <1>6, <2>4, <3>1, OneUse
    <3>3. Last(u.by) \in Nat /\ Last(u.by) <= ops[t]
      BY <3>2, OwnOfNames
    <3>4. \A i, j \in Nat : i <= j => i < j + 1
      OBVIOUS
    <3> QED
      BY <1>2, <1>3, <1>6, <3>2, <3>3, <3>4
  <2>8. n.by # t /\ Last(n.by) \in Nat
    BY <1>2, <1>3, <1>6
  <2>9. NoFlow \notin DOMAIN alias /\ Active(e) \subseteq Own(e)
    BY <1>1, NoFlowStands, ActiveAreOwn
  <2>10. Apart(FacesOf(alias, Own(e)), FacesOf(alias, Active(e)))
    BY DEF ApartFor
  <2> HIDE DEF s, n, rest, fresh, parts, own2
  <2>11. Chained(alias, own2, t)
    BY <1>3, <1>4, <1>6, <2>3, <2>4, <2>5, <2>6, <2>7, <2>8, <2>9, <2>10, ChainedCapture DEF IsFresh
  <2> QED
    BY <2>11 DEF own2
<1> QED
  BY <1>5, <1>6

\* So whatever index tasks make or publish keeps the order.
LEMMA CaptureOrder ==
  ASSUME Sound, Sound', CapturesSuffice, ContextsGoOn,
         NEW x, CreatesBeneath(x) \/ Publishes(x), NEW e \in Elements, ApartFor(e),
         NEW t \in Contexts, IsIndexTask(t), Chained(alias, OwnOf(t, e), t)
  PROVE  Chained(alias', OwnOf(t, e)', t)
<1>1. /\ Kept /\ ContextsKept /\ program' = program /\ e \in Data /\ e # Parameter
      /\ Capturing(x) /\ IsIndexTask(x)
  BY ElementsAreNumbers DEF Sound, Kept, ContextsKept, ContextsGoOn, Data, Capturing, Making,
                            CreatesBeneath, Publishes
<1> DEFINE before == HeldOwn(e) \cup PublishedOf(e)
           after  == HeldOwn(e)' \cup PublishedOf(e)'
           taken  == (before \ {HeldBy(x, e)}) \cup {CapturedUseOf(x, e), LeftUseOf(x, e)}
<1>2. \/ e \in Requested(x) /\ HeldBy(x, e) \in HeldOwn(e) /\ after = taken
      \/ after = before
  <2>1. CASE CreatesBeneath(x)
    <3>1. PublishedOf(e)' = PublishedOf(e) /\ Making(x)
      BY <2>1, PublishedStays DEF CreatesBeneath, Making
    <3>2. CASE e \in Requested(x) /\ ~Fetched(handles[<<x, e>>].use)
      <4>1. /\ HeldBy(x, e) \in HeldOwn(e)
            /\ HeldOwn(e)' = (HeldOwn(e) \ {HeldBy(x, e)}) \cup {LeftUseOf(x, e)} \cup {CapturedUseOf(x, e)}
        BY <1>1, <3>1, <3>2, HeldAfter
      <4>2. HeldBy(x, e) \notin PublishedOf(e)
        BY <1>1, <4>1, OwnParts
      <4> QED
        BY <3>1, <3>2, <4>1, <4>2
    <3>3. CASE ~(e \in Requested(x) /\ ~Fetched(handles[<<x, e>>].use))
      BY <1>1, <3>1, <3>3, HeldAfter
    <3> QED
      BY <3>2, <3>3
  <2>2. CASE Publishes(x)
    <3>1. Requested(x) = PublishedElements(x)
      BY <1>1, <2>2, CapturingIs
    <3>2. ~Making(x)
      <4>1. ~CreatesBeneath(x)
        BY <2>2 DEF Publishes, CreatesBeneath
      <4> QED
        BY <1>1, <4>1 DEF Making, Creates
    <3>3. CASE e \in Requested(x)
      <4>1. ~Fetched(handles[<<x, e>>].use)
        BY <2>2, <3>1, <3>3, PublicationIs
      <4>2. /\ HeldBy(x, e) \in HeldOwn(e)
            /\ HeldOwn(e)' = (HeldOwn(e) \ {HeldBy(x, e)}) \cup {LeftUseOf(x, e)}
        BY <1>1, <3>2, <3>3, <4>1, HeldAfter
      <4>3. PublishedOf(e)' = PublishedOf(e) \cup {CapturedUseOf(x, e)}
        BY <1>1, <2>2, <3>1, <3>3, PublishedAfter
      <4>4. HeldBy(x, e) \notin PublishedOf(e)
        BY <1>1, <4>2, OwnParts
      <4> QED
        BY <3>3, <4>2, <4>3, <4>4
    <3>4. CASE e \notin Requested(x)
      BY <1>1, <2>2, <3>1, <3>4, HeldAfter, PublishedAfter
    <3> QED
      BY <3>3, <3>4
  <2> QED
    BY <2>1, <2>2
<1>3. Chained(alias, OwnOf(t, e)', t)
  <2>1. CASE e \in Requested(x) /\ HeldBy(x, e) \in HeldOwn(e) /\ after = taken
    BY <1>1, <2>1, TakenOrder
  <2>2. CASE after = before
    <3>1. OwnOf(t, e)' = OwnOf(t, e)
      BY <1>1, <2>2, OwnOfAfter, OwnOfParts
    <3> QED
      BY <3>1
  <2> QED
    BY <1>2, <2>1, <2>2
<1>4. \A u \in OwnOf(t, e)' : FaceOf(alias', u.use) = FaceOf(alias, u.use)
  <2>1. CASE alias' = alias
    BY <2>1
  <2>2. CASE Publishes(x)
    <3>1. OwnOf(t, e)' \subseteq Own(e)'
      BY <1>1, OwnOfAfter
    <3> QED
      BY <1>1, <2>2, <3>1, PublishedFacesStay
  <2> QED
    BY <2>1, <2>2 DEF CreatesBeneath
<1>5. PICK own : own = OwnOf(t, e)'
  OBVIOUS
<1>6. Chained(alias, own, t) /\ \A u \in own : FaceOf(alias', u.use) = FaceOf(alias, u.use)
  BY <1>3, <1>4, <1>5
<1>7. PICK a2 : a2 = alias'
  OBVIOUS
<1>8. Chained(a2, own, t)
  BY <1>6, <1>7, ChainedStay
<1> QED
  BY <1>5, <1>7, <1>8

\* A task that ends takes what it had of an element: it was an alias, or nothing
\* earlier was left.
LEMMA EndOrder ==
  ASSUME Sound, Sound', ContextsGoOn, KindsPublished,
         NEW c \in Contexts, EndTask(c), NEW e \in Elements, ApartFor(e),
         NEW t \in Contexts, IsIndexTask(t), Chained(alias, OwnOf(t, e), t)
  PROVE  Chained(alias', OwnOf(t, e)', t)
<1>1. program' = program /\ e \in Data /\ Running(c)
  BY DEF ContextsGoOn, Data, EndTask, Running
<1>2. Own(e)' = {u \in Own(e) : u.by # c}
  BY <1>1, OwnAfterEnd
<1>3. OwnOf(t, e)' = {u \in OwnOf(t, e) : u.by # c}
  BY <1>1, <1>2, OwnOfAfter DEF OwnOf
<1>4. PICK own2, a2 : own2 = OwnOf(t, e)' /\ a2 = alias'
  OBVIOUS
<1>5. /\ OwnOf(t, e) \subseteq Own(e) /\ Active(e) \subseteq Own(e)
      /\ Apart(FacesOf(alias, Own(e)), FacesOf(alias, Active(e)))
  BY <1>1, ActiveAreOwn DEF OwnOf, ApartFor
<1>6. \A u, v \in Own(e) : u.by = v.by => u = v
  BY <1>1, OneUse
<1>7. ASSUME NEW s \in Own(e), s.by = c, "write" \in s.use.scheduling, "write" \notin s.use.immediate
      PROVE  Chained(alias', OwnOf(t, e)', t)
  <2>1. own2 = OwnOf(t, e) \ {s}
    BY <1>3, <1>4, <1>5, <1>6, <1>7
  <2>2. MayWrite(FaceOf(alias, s.use)) /\ s.use.out # NoFlow
    BY <1>1, <1>7, AliasFlows
  <2>3. \A u \in Own(e) : FaceOf(alias, u.use).out = FaceOf(alias, s.use).out => u = s
    <3>1. Yields(FaceOf(alias, s.use))
      BY <1>1, <1>7, <2>2, OnlyOne
    <3> QED
      BY <1>1, <1>7, <3>1, OnlyOne
  <2>4. \A u \in OwnOf(t, e) : u.by # t => Last(u.by) \in Nat
    BY OwnOfNames
  <2>5. \A u \in own2 : FaceOf(a2, u.use) = AfterAlias(FaceOf(alias, s.use), FaceOf(alias, u.use))
    <3> SUFFICES ASSUME NEW u \in own2
                 PROVE  FaceOf(alias', u.use) = AfterAlias(FaceOf(alias, s.use), FaceOf(alias, u.use))
      BY <1>4
    <3>1. u \in Own(e) /\ u # s
      BY <1>5, <2>1
    <3> QED
      BY <1>1, <1>7, <3>1, EndRenamesFaces
  <2>6. Chained(a2, own2, t)
    BY <1>5, <1>7, <2>1, <2>2, <2>3, <2>4, <2>5, ChainedRename
  <2> QED
    BY <1>4, <2>6
<1>8. CASE \A u \in Own(e) : u.by = c => "write" \notin u.use.scheduling \/ "write" \in u.use.immediate
  <2>1. \A u \in own2 : FaceOf(a2, u.use) = FaceOf(alias, u.use)
    BY <1>1, <1>3, <1>4, <1>5, <1>8, EndLeavesFaces
  <2>2. ASSUME NEW x \in OwnOf(t, e) \ own2, Yields(FaceOf(alias, x.use)), NEW u \in own2, Earlier(t, u, x)
        PROVE  FALSE
    <3>1. x \in Own(e) /\ x.by = c /\ u \in OwnOf(t, e)
      BY <1>3, <1>4, <1>5, <2>2
    <3>2. x \in Active(e) /\ x \in OwnOf(t, e)
      BY <1>1, <3>1, <2>2 DEF Active
    <3>3. Writes(FaceOf(alias, x.use))
      <4>1. FaceOf(alias, x.use) \in FacesOf(alias, Own(e))
        BY <3>1 DEF FacesOf
      <4>2. MayWrite(FaceOf(alias, x.use)) => Writes(FaceOf(alias, x.use))
        BY <1>8, <3>1 DEF MayWrite, Writes, FaceOf
      <4> QED
        BY <1>5, <2>2, <4>1, <4>2 DEF Apart, Shaped
    <3> QED
      BY <1>5, <2>2, <3>1, <3>2, <3>3, NothingEarlier
  <2>3. own2 \subseteq OwnOf(t, e)
    BY <1>3, <1>4
  <2>4. Chained(a2, own2, t)
    BY <2>1, <2>2, <2>3, ChainedStay
  <2> QED
    BY <1>4, <2>4
<1> QED
  BY <1>7, <1>8

\* A publication that is released had no output that anybody could wait for.
LEMMA ReleaseOrder ==
  ASSUME Sound, Sound', ContextsGoOn,
         NEW p \in DOMAIN publications, ReleasePublication(p), NEW e \in Elements,
         NEW t \in Contexts, IsIndexTask(t), Chained(alias, OwnOf(t, e), t)
  PROVE  Chained(alias', OwnOf(t, e)', t)
<1>1. /\ Kept /\ program' = program /\ alias' = alias /\ handles' = handles
      /\ publications' = [publications EXCEPT ![p].released = TRUE]
      /\ e \in Data /\ e # Parameter
  BY ElementsAreNumbers DEF Sound, ReleasePublication, Data
<1>2. HeldOwn(e)' = HeldOwn(e)
  BY <1>1, HeldStays DEF HoldersSame
<1>3. \A q \in DOMAIN publications : DOMAIN publications[q] = {"at", "use", "n_fetchers", "anti_out", "released"}
  BY DEF Sound, OutsKept, PublicationsMade
<1>4. /\ DOMAIN publications' = DOMAIN publications
      /\ publications'[p].released
      /\ \A q \in DOMAIN publications \ {p} : publications'[q] = publications[q]
  BY <1>1, <1>3
<1>5. PublishedOf(e)' \subseteq PublishedOf(e)
  <2>1. Unreleased(e)' = Unreleased(e) \ {p}
    BY <1>4 DEF Unreleased
  <2>2. \A q \in Unreleased(e) \ {p} : PublishedUse(q)' = PublishedUse(q)
    BY <1>4 DEF Unreleased, PublishedUse
  <2>3. \A u : u \in PublishedOf(e)' <=> \E q \in Unreleased(e) \ {p} : u = PublishedUse(q)'
    BY <1>1, <2>1 DEF PublishedOf
  <2>4. \A u : u \in PublishedOf(e) <=> \E q \in Unreleased(e) : u = PublishedUse(q)
    BY <1>1 DEF PublishedOf
  <2> QED
    BY <2>2, <2>3, <2>4
<1>6. PICK own2, a2 : own2 = OwnOf(t, e)' /\ a2 = alias'
  OBVIOUS
<1>7. /\ own2 = {u \in HeldOwn(e)' \cup PublishedOf(e)' : IsOf(t, u.by)}
      /\ OwnOf(t, e) = {u \in HeldOwn(e) \cup PublishedOf(e) : IsOf(t, u.by)}
  BY <1>1, <1>6, OwnOfAfter, OwnOfParts
<1>8. own2 \subseteq OwnOf(t, e) /\ \A x \in OwnOf(t, e) \ own2 : x \in PublishedOf(e)
  BY <1>2, <1>5, <1>7
<1>9. \A x \in PublishedOf(e) : ~Yields(FaceOf(alias, x.use))
  <2> SUFFICES ASSUME NEW x \in PublishedOf(e) PROVE ~Yields(FaceOf(alias, x.use))
    OBVIOUS
  <2>1. PICK q \in DOMAIN publications : x = PublishedUse(q)
    BY <1>1 DEF PublishedOf, Unreleased
  <2>2. x.use.out = NoFlow
    BY <2>1 DEF PublishedUse, Sound, OutsKept, PublicationsMade
  <2>3. x \in Own(e)
    BY DEF Own
  <2> QED
    BY <1>1, <2>2, <2>3, OnlyOne
<1>10. Chained(a2, own2, t)
  BY <1>1, <1>6, <1>8, <1>9, ChainedStay
<1> QED
  BY <1>6, <1>10

\* Every step keeps what there is beneath index tasks in order.
LEMMA OrderPreserved ==
  Excluded /\ InOrder /\ CapturesSuffice /\ [Next]_vars => InOrder'
<1> SUFFICES ASSUME Excluded, InOrder, CapturesSuffice, [Next]_vars,
                    NEW t, t \in Contexts', IsIndexTask(t)', NEW e \in Elements
             PROVE  Chained(alias', OwnOf(t, e)', t)
  BY DEF InOrder
<1>1. Sound /\ KindsPublished /\ Exclusion /\ Kept /\ OutsKept /\ e \in Data /\ ApartFor(e)
  BY DEF Excluded, Sound, Data, Exclusion
<1>2. Sound'
  BY <1>1, SoundPreserved
<1>3. AnyStep /\ ContextsGoOn /\ program' = program
  <2>1. AnyStep
    BY <1>1, StepCases
  <2> QED
    BY <1>1, <2>1, ContextsOfStep DEF ContextsGoOn
<1>4. IsIndexTask(t)
  BY <1>3, NamesStay
<1>5. CASE t \notin Contexts
  <2>1. \A u : u \in OwnOf(t, e)' => u.by = t
    BY <1>1, <1>2, <1>3, <1>4, <1>5, NewTasksAlone
  <2> QED
    BY <2>1 DEF Chained, Earlier
<1>6. CASE t \in Contexts
  <2>1. Chained(alias, OwnOf(t, e), t)
    BY <1>4, <1>6 DEF InOrder
  <2>2. ASSUME NEW x, CreatesBeneath(x) \/ Publishes(x) PROVE Chained(alias', OwnOf(t, e)', t)
    BY <1>1, <1>2, <1>3, <1>4, <1>6, <2>1, <2>2, CaptureOrder
  <2>3. ASSUME NEW c \in Contexts, EndTask(c) PROVE Chained(alias', OwnOf(t, e)', t)
    BY <1>1, <1>2, <1>3, <1>4, <1>6, <2>1, <2>3, EndOrder
  <2>4. ASSUME NEW p \in DOMAIN publications, ReleasePublication(p) PROVE Chained(alias', OwnOf(t, e)', t)
    BY <1>1, <1>2, <1>3, <1>4, <1>6, <2>1, <2>4, ReleaseOrder
  <2>5. CASE \/ \E c : \E state : Creates(c, state)
             \/ \E x \in Contexts : Fetch(x)
             \/ \E w \in Contexts : CreateTaskForIndex(w) \/ DropTaskCollection(w)
             \/ \E contexts : RunsReady(contexts)
             \/ UNCHANGED vars
    BY <1>1, <1>2, <1>3, <1>4, <1>6, <2>1, <2>5, QuietOrder
  <2> QED
    BY <1>3, <2>2, <2>3, <2>4, <2>5 DEF AnyStep
<1> QED
  BY <1>5, <1>6

\* At first there is no index task.
LEMMA OrderInit == Init => InOrder
<1> SUFFICES ASSUME Init, NEW t \in Contexts, IsIndexTask(t) PROVE FALSE
  BY DEF InOrder
<1>1. Contexts = {Root}
  BY DEF Init, Single, Contexts
<1> QED
  BY <1>1 DEF IsIndexTask

\* Whoever writes an element beneath an index task runs when nothing that was made
\* before is left.
RunningAlone ==
  \A c \in Contexts : \A e \in Elements :
    /\ Running(c) /\ IsBeneath(c) /\ Front(c) \in Contexts
    /\ <<c, e>> \in DOMAIN handles /\ "write" \in handles[<<c, e>>].use.immediate
    => \A u \in OwnOf(Front(c), e) : u.by # Front(c) => ~(Last(u.by) < Last(c))

\* So it is as long as generations are apart and in order.
LEMMA RunsAlone == Excluded /\ InOrder => RunningAlone
<1> SUFFICES ASSUME Excluded, InOrder, NEW c \in Contexts, NEW e \in Elements,
                    Running(c), IsBeneath(c), Front(c) \in Contexts,
                    <<c, e>> \in DOMAIN handles, "write" \in handles[<<c, e>>].use.immediate,
                    NEW u \in OwnOf(Front(c), e), u.by # Front(c), Last(u.by) < Last(c)
             PROVE  FALSE
  BY DEF RunningAlone
<1> DEFINE t == Front(c)
           v == HeldBy(c, e)
<1>1. Sound /\ e \in Data /\ ApartFor(e)
  BY DEF Excluded, Exclusion, Data
<1>2. IsIndexTask(t) /\ Chained(alias, OwnOf(t, e), t)
  BY DEF IsBeneath, InOrder
<1>3. ~Fetched(handles[<<c, e>>].use)
  <2>1. <<c, e>>[1] = c /\ <<c, e>>[2] = e
    OBVIOUS
  <2> QED
    BY <1>1, <2>1 DEF Sound, FetchedAsPublished, IsFetchedAs, MayNotWrite
<1>4. v \in Own(e) /\ v.by = c /\ v.use = handles[<<c, e>>].use
  BY <1>3 DEF Own, HeldOwn, Owners, HeldBy
<1>5. v \in OwnOf(t, e) /\ v \in Active(e)
  BY <1>4 DEF OwnOf, IsOf, IsBeneath, Active
<1>6. Earlier(t, u, v)
  BY <1>4 DEF Earlier
<1>7. OwnOf(t, e) \subseteq Own(e) /\ Active(e) \subseteq Own(e)
  BY <1>1, ActiveAreOwn DEF OwnOf
<1>8. Writes(FaceOf(alias, v.use))
  BY <1>4 DEF Writes, FaceOf
<1> QED
  BY <1>1, <1>2, <1>5, <1>6, <1>7, <1>8, NothingEarlier DEF ApartFor

(***************************************************************************)
(* What index tasks have done so far                                       *)
(***************************************************************************)
\* What an index task has published is known since, by the element.
PublishedInTime ==
  \A t \in Contexts : IsIndexTask(t) => \A n \in 1 .. ops[t] :
    program[Front(t)].body[n].do = "publish" =>
      \A e \in PublishedElements(t) : <<Front(t), e>> \in DOMAIN publications

\* What is made beneath an index task has elements that are local to it, or that
\* it has fetched.
HeldBeneath ==
  \A k \in DOMAIN handles : IsBeneath(k[1]) =>
    /\ k[2] \in Elements
    /\ ~Fetched(handles[k].use) => k[2] \in LocalElements(Front(k[1]))

\* What an index task has fetched it has fetched by an operation that came before.
FetcherOf(c) == IF IsIndexTask(c) THEN c ELSE Front(c)

FetchedInTime ==
  \A k \in DOMAIN handles : Fetched(handles[k].use) =>
    LET t == FetcherOf(k[1])
    IN  /\ t \in Contexts /\ IsIndexTask(t)
        /\ handles[k].use.in.version = Front(t) /\ k[2] \in FetchedElements(t)
        /\ \E j \in 1 .. ops[t] :
             /\ program[Front(t)].body[j].do = "fetch"
             /\ k[1] # t => j < Last(k[1])

\* What index tasks contribute holds their elements to write them, until it is over.
ContributionsHold ==
  \A c \in Contexts : IsContribution(c) /\ ~Over(c) =>
    \A e \in LocalElements(Front(c)) :
      <<c, e>> \in DOMAIN handles /\ "write" \in handles[<<c, e>>].use.immediate

\* The operations that an index task has performed after a step: those from before,
\* and the one of the step.
LEMMA OperationsCome ==
  ASSUME Kept, AnyStep, NEW t, t \in Contexts', IsIndexTask(t), NEW n, n \in 1 .. ops'[t]
  PROVE  /\ t \in Contexts
         /\ \/ n \in 1 .. ops[t]
            \/ /\ n = ops[t] + 1 /\ ops'[t] = ops[t] + 1
               /\ CreatesBeneath(t) \/ Publishes(t) \/ Fetch(t)
<1>1. ContextsKept /\ Named /\ DOMAIN ops = Contexts
  BY DEF Kept, ContextsKept
<1> DEFINE came == /\ t \in Contexts
                   /\ \/ n \in 1 .. ops[t]
                      \/ /\ n = ops[t] + 1 /\ ops'[t] = ops[t] + 1
                         /\ CreatesBeneath(t) \/ Publishes(t) \/ Fetch(t)
<1>2. ASSUME NEW c, NEW made, NEW state, Operates(c, made, state),
             \A x \in made : ~IsIndexTask(x),
             c = t => CreatesBeneath(t) \/ Publishes(t) \/ Fetch(t)
      PROVE  came
  <2>1. t \in Contexts
    BY <1>1, <1>2, OperatesGoOn
  <2>2. ops'[t] = IF t = c THEN ops[c] + 1 ELSE ops[t]
    BY <1>2, <2>1, OperatesGoOn
  <2>3. ops[t] \in Nat
    BY <1>1, <2>1 DEF ContextsKept
  <2>4. CASE t = c
    <3>1. n \in 1 .. ops[t] \/ n = ops[t] + 1
      BY <2>2, <2>3, <2>4
    <3> QED
      BY <1>2, <2>1, <2>2, <2>4, <3>1
  <2>5. CASE t # c
    BY <2>1, <2>2, <2>5
  <2> QED
    BY <2>4, <2>5
<1>3. ASSUME NEW c, NEW state, Creates(c, state) PROVE came
  <2>1. Operates(c, {Place(c)}, state) /\ c # t /\ c \in Contexts /\ status[c] = "running"
    BY <1>3 DEF Creates, Operates
  <2>2. ~IsIndexTask(Place(c))
    BY <1>1, <2>1, NamesApart
  <2>3. \A x \in {Place(c)} : ~IsIndexTask(x)
    BY <2>2
  <2> HIDE DEF came
  <2> QED
    BY <1>2, <2>1, <2>3
<1>4. ASSUME NEW c, CreatesBeneath(c) PROVE came
  <2>1. Operates(c, {Place(c)}, "pending") /\ c \in Contexts /\ status[c] = "running"
    BY <1>4 DEF CreatesBeneath, Operates
  <2>2. ~IsIndexTask(Place(c))
    BY <1>1, <2>1, NamesApart
  <2>3. \A x \in {Place(c)} : ~IsIndexTask(x)
    BY <2>2
  <2> HIDE DEF came
  <2> QED
    BY <1>2, <1>4, <2>1, <2>3
<1>5. ASSUME NEW c, Publishes(c) PROVE came
  <2>1. PICK made : made = {}
    OBVIOUS
  <2>2. Operates(c, made, "pending") /\ \A x \in made : ~IsIndexTask(x)
    BY <1>5, <2>1 DEF Publishes
  <2> HIDE DEF came
  <2> QED
    BY <1>2, <1>5, <2>2
<1>6. ASSUME NEW c \in Contexts, Fetch(c) PROVE came
  <2>1. PICK made : made = {}
    OBVIOUS
  <2>2. Operates(c, made, "pending") /\ \A x \in made : ~IsIndexTask(x)
    <3>1. About(c, "fetch") /\ Proceed(c, made, "pending") /\ program' = program
      BY <1>6, <2>1 DEF Fetch
    <3> QED
      BY <1>1, <2>1, <3>1, AboutIndex DEF Operates
  <2> HIDE DEF came
  <2> QED
    BY <1>2, <1>6, <2>2
<1>7. ASSUME NEW w \in Contexts, CreateTaskForIndex(w) PROVE came
  <2>1. PICK x \in IndexTasks(w) \ Contexts :
          status' = With(status, Single(x, "pending")) /\ ops' = With(ops, Single(x, 0))
    BY <1>7 DEF CreateTaskForIndex
  <2>2. ops'[x] = 0 /\ \A y \in Contexts : y # x => ops'[y] = ops[y]
    BY <1>1, <2>1 DEF With, Single
  <2>3. t \in Contexts \/ t = x
    BY <2>1 DEF Contexts, With, Single
  <2>4. t # x
    BY <2>2
  <2> QED
    BY <2>2, <2>3, <2>4
<1>8. ASSUME ops' = ops, Contexts' = Contexts PROVE came
  BY <1>8
<1>9. CASE \/ \E w \in Contexts : DropTaskCollection(w)
           \/ \E c \in Contexts : EndTask(c)
           \/ \E contexts : RunsReady(contexts)
           \/ \E p \in DOMAIN publications : ReleasePublication(p)
           \/ UNCHANGED vars
  <2>1. ops' = ops
    BY <1>9 DEF DropTaskCollection, EndTask, RunsReady, RunsPending, Run, ReleasePublication, vars
  <2>2. Contexts' = Contexts
    BY <1>9 DEF DropTaskCollection, EndTask, RunsReady, RunsPending, Run, ReleasePublication, vars,
                Contexts, With
  <2> QED
    BY <1>8, <2>1, <2>2
<1> QED
  BY <1>3, <1>4, <1>5, <1>6, <1>7, <1>9 DEF AnyStep

\* Each of these is known from the step by which it comes to be.
LEMMA PublishedInTimeStays ==
  ASSUME Sound, AnyStep, ContextsGoOn, PublishedInTime
  PROVE  PublishedInTime'
<1>1. Kept /\ OutsKept /\ ContextsKept /\ program' = program
  BY DEF Sound, Kept, ContextsGoOn
<1>2. \A t : PublishedElements(t)' = PublishedElements(t)
  BY <1>1 DEF PublishedElements, LocalElements
<1> SUFFICES ASSUME NEW t, t \in Contexts', IsIndexTask(t)', NEW n, n \in 1 .. ops'[t],
                    (program[Front(t)].body[n].do = "publish")', NEW e, e \in PublishedElements(t)'
             PROVE  <<Front(t), e>> \in DOMAIN publications'
  BY DEF PublishedInTime
<1>3. /\ IsIndexTask(t) /\ program[Front(t)].body[n].do = "publish" /\ e \in PublishedElements(t)
      /\ DOMAIN publications \subseteq DOMAIN publications'
  BY <1>1, <1>2, NamesStay, PublicationsCome
<1>4. CASE t \in Contexts /\ n \in 1 .. ops[t]
  BY <1>3, <1>4 DEF PublishedInTime
<1>5. CASE t \in Contexts /\ n = ops[t] + 1 /\ (CreatesBeneath(t) \/ Publishes(t) \/ Fetch(t))
  <2>1. ~CreatesBeneath(t)
    BY <1>3, <1>5 DEF CreatesBeneath
  <2>2. ~Fetch(t)
    <3> SUFFICES ASSUME Fetch(t) PROVE FALSE
      OBVIOUS
    <3>1. About(t, "fetch")
      BY DEF Fetch
    <3>2. Operation(t) = program[Front(t)].body[ops[t] + 1] /\ Operation(t).do = "fetch"
      BY <1>1, <3>1, AboutIndex
    <3> QED
      BY <1>3, <1>5, <3>2
  <2>3. Publishes(t)
    BY <1>5, <2>1, <2>2
  <2> QED
    BY <1>3, <2>3 DEF Publishes
<1> QED
  BY <1>1, <1>3, <1>4, <1>5, OperationsCome

\* What is captured was fetched exactly if its source was, and so was what is left.
LEMMA FetchedCaptured ==
  ASSUME Sound, ContextsGoOn, NEW c, Capturing(c), NEW d \in Requested(c),
         Served(handles, <<c, d>>, RequestsOf(c)[d]),
         NEW h, h \in {CaptureOf(c, d).captured, CaptureOf(c, d).source}
  PROVE  /\ Fetched(h.use) <=> Fetched(handles[<<c, d>>].use)
         /\ Fetched(h.use) => h.use.in = handles[<<c, d>>].use.in
<1>1. CASE Fetched(handles[<<c, d>>].use)
  <2>1. h.use.in = handles[<<c, d>>].use.in
    BY <1>1, FetchedStays
  <2> QED
    BY <1>1, <2>1 DEF Fetched
<1>2. CASE ~Fetched(handles[<<c, d>>].use)
  <2>1. HasFlowsOf(handles[<<c, d>>].use, d)
    BY <1>2, FetchedStays
  <2>2. PICK u : u = h.use
    OBVIOUS
  <2>3. HasFlowsOf(u, d)'
    BY <2>1, <2>2, CaptureOwned DEF Sound
  <2> QED
    BY <1>2, <2>2, <2>3, OwnedNotFetched
<1> QED
  BY <1>1, <1>2

\* What is captured beneath an index task is captured by it, of what it has.
LEMMA CapturedBeneath ==
  ASSUME Kept, NEW c, NEW k, HandleLeft(c, k) \/ HandleCaptured(c, k)
  PROVE  /\ c \in Contexts /\ Capturing(c) /\ k[2] \in Requested(c)
         /\ <<c, k[2]>> \in DOMAIN handles
         /\ Served(handles, <<c, k[2]>>, RequestsOf(c)[k[2]])
         /\ IsIndexTask(c) => k[2] \in Elements
         /\ ~IsIndexTask(c) => k[2] = Parameter
         /\ HandleLeft(c, k) => k = <<c, k[2]>> /\ handles'[k] = CaptureOf(c, k[2]).source
         /\ HandleCaptured(c, k) =>
              /\ k = <<Place(c), k[2]>> /\ handles'[k] = CaptureOf(c, k[2]).captured
              /\ IsBeneath(k[1]) <=> IsIndexTask(c)
              /\ ~IsIndexTask(k[1]) /\ k[1] \notin Contexts
              /\ Front(k[1]) = c /\ Last(k[1]) = ops[c] + 1
<1>1. ContextsKept
  BY DEF Kept
<1>2. Capturing(c) /\ k[2] \in Requested(c) /\ Served(handles, <<c, k[2]>>, RequestsOf(c)[k[2]])
  BY DEF HandleLeft, HandleCaptured, Capturing
<1>3. /\ c \in Contexts /\ status[c] = "running"
      /\ Requested(c) \subseteq (IF IsIndexTask(c) THEN Elements ELSE {Parameter})
  BY <1>2, CapturingIs
<1>4. <<c, k[2]>> \in DOMAIN handles
  BY <1>2 DEF Served
<1>5. HandleCaptured(c, k) => k[1] = Place(c)
  BY DEF HandleCaptured
<1>6. /\ Front(Place(c)) = c /\ Last(Place(c)) = ops[c] + 1 /\ Place(c) \notin Contexts
      /\ ~IsIndexTask(Place(c)) /\ (IsBeneath(Place(c)) <=> IsIndexTask(c))
  BY <1>1, <1>3, NamesApart
<1> QED
  BY <1>2, <1>3, <1>4, <1>5, <1>6 DEF HandleLeft, HandleCaptured

\* Index tasks that fetch, and that are made.
LEMMA HeldByIndexTasks ==
  ASSUME Kept, NEW k, (\E t : HandleFetched(t, k)) \/ \E w : HandleShared(w, k) \/ HandleLocal(w, k)
  PROVE  IsIndexTask(k[1]) /\ ~IsBeneath(k[1])
<1>1. ContextsKept /\ Named
  BY DEF Kept, ContextsKept
<1>2. ASSUME NEW t, HandleFetched(t, k) PROVE IsIndexTask(k[1]) /\ ~IsBeneath(k[1])
  <2>1. k[1] = t /\ t \in Contexts /\ IsIndexTask(t)
    BY <1>1, <1>2, FetchStays DEF HandleFetched
  <2>2. Front(t) \in Contexts /\ IsWork(Front(t)) /\ t \in IndexTasks(Front(t))
    BY <1>1, <2>1, IndexTasksNamed
  <2> QED
    BY <1>1, <2>1, <2>2, NamesApart
<1>3. ASSUME NEW w, HandleShared(w, k) \/ HandleLocal(w, k) PROVE IsIndexTask(k[1]) /\ ~IsBeneath(k[1])
  <2>1. w \in Contexts /\ IsWork(w) /\ k[1] \in IndexTasks(w)
    BY <1>3 DEF HandleShared, HandleLocal
  <2> QED
    BY <1>1, <2>1, NamesApart
<1> QED
  BY <1>2, <1>3

\* What is made beneath an index task has what it captured, as it was held.
LEMMA HeldBeneathStays ==
  ASSUME Sound, AnyStep, ContextsGoOn, HeldBeneath
  PROVE  HeldBeneath'
<1>1. Kept /\ OutsKept /\ ContextsKept /\ program' = program /\ HoldersApart
  BY DEF Sound, Kept, ContextsGoOn
<1> SUFFICES ASSUME NEW k, k \in DOMAIN handles', IsBeneath(k[1])'
             PROVE  /\ k[2] \in Elements
                    /\ ~Fetched(handles'[k].use) => k[2] \in LocalElements(Front(k[1]))'
  BY DEF HeldBeneath, Fetched
<1>2. IsBeneath(k[1]) /\ LocalElements(Front(k[1]))' = LocalElements(Front(k[1]))
  BY <1>1, NamesStay
<1>3. HandleCame(k)
  BY <1>1, HandlesCome
<1>4. CASE HandleStays(k)
  BY <1>2, <1>4 DEF HandleStays, HeldBeneath
<1>5. ASSUME NEW c, HandleLeft(c, k)
      PROVE  /\ k[2] \in Elements
             /\ ~Fetched(handles'[k].use) => k[2] \in LocalElements(Front(k[1]))'
  <2>1. /\ k = <<c, k[2]>> /\ <<c, k[2]>> \in DOMAIN handles /\ Capturing(c) /\ k[2] \in Requested(c)
        /\ handles'[k] = CaptureOf(c, k[2]).source /\ Served(handles, <<c, k[2]>>, RequestsOf(c)[k[2]])
    BY <1>1, <1>5, CapturedBeneath
  <2>2. Fetched(handles'[k].use) <=> Fetched(handles[k].use)
    BY <2>1, FetchedCaptured
  <2> QED
    BY <1>2, <2>1, <2>2 DEF HeldBeneath
<1>6. ASSUME NEW c, HandleCaptured(c, k)
      PROVE  /\ k[2] \in Elements
             /\ ~Fetched(handles'[k].use) => k[2] \in LocalElements(Front(k[1]))'
  <2>1. /\ k = <<Place(c), k[2]>> /\ <<c, k[2]>> \in DOMAIN handles /\ Capturing(c) /\ k[2] \in Requested(c)
        /\ handles'[k] = CaptureOf(c, k[2]).captured /\ Served(handles, <<c, k[2]>>, RequestsOf(c)[k[2]])
        /\ Front(k[1]) = c /\ IsIndexTask(c) /\ k[2] \in Elements
    BY <1>1, <1>2, <1>6, CapturedBeneath
  <2>2. Fetched(handles'[k].use) <=> Fetched(handles[<<c, k[2]>>].use)
    BY <2>1, FetchedCaptured
  <2>3. ~Fetched(handles[<<c, k[2]>>].use) => k[2] \in LocalElements(c)
    <3>1. k[2] # Parameter /\ <<c, k[2]>>[1] = c /\ <<c, k[2]>>[2] = k[2]
      BY <2>1, ElementsAreNumbers
    <3> QED
      BY <1>1, <2>1, <3>1 DEF HoldersApart
  <2> QED
    BY <1>2, <2>1, <2>2, <2>3
<1>7. CASE (\E t : HandleFetched(t, k)) \/ \E w : HandleShared(w, k) \/ HandleLocal(w, k)
  BY <1>1, <1>2, <1>7, HeldByIndexTasks
<1> QED
  BY <1>3, <1>4, <1>5, <1>6, <1>7 DEF HandleCame

\* What was fetched is passed on to what is made later.
LEMMA FetchedInTimeStays ==
  ASSUME Sound, Sound', AnyStep, ContextsGoOn, FetchedInTime
  PROVE  FetchedInTime'
<1>1. /\ Kept /\ OutsKept /\ ContextsKept /\ Named /\ FetchesKept /\ program' = program
      /\ Contexts \subseteq Contexts' /\ HoldersApart
  BY DEF Sound, Kept, ContextsKept, ContextsGoOn
<1> DEFINE InTime(t, c, in, d, n) ==
             /\ IsIndexTask(t)
             /\ in.version = Front(t) /\ d \in FetchedElements(t)
             /\ \E j \in 1 .. n :
                  /\ program[Front(t)].body[j].do = "fetch"
                  /\ c # t => j < Last(c)
<1>2. \A k \in DOMAIN handles : Fetched(handles[k].use) =>
        LET t == FetcherOf(k[1]) IN t \in Contexts /\ InTime(t, k[1], handles[k].use.in, k[2], ops[t])
  BY DEF FetchedInTime
<1>3. \A t \in Contexts : \A c, in, d : InTime(t, c, in, d, ops[t]) => InTime(t, c, in, d, ops'[t])
  <2> SUFFICES ASSUME NEW t \in Contexts, NEW c, NEW in, NEW d, InTime(t, c, in, d, ops[t])
               PROVE  InTime(t, c, in, d, ops'[t])
    OBVIOUS
  <2>1. ops[t] \in Nat /\ ops'[t] \in Nat /\ ops[t] <= ops'[t]
    BY <1>1 DEF ContextsGoOn, ContextsKept
  <2>2. \A j : j \in 1 .. ops[t] => j \in 1 .. ops'[t]
    BY <2>1
  <2> QED
    BY <2>2
<1>4. \A t, c, in, d, n : InTime(t, c, in, d, n) => InTime(t, c, in, d, n)'
  BY <1>1 DEF IsIndexTask, IsWork, FetchedElements
<1>5. \A c : FetcherOf(c)' = FetcherOf(c)
  BY <1>1, NamesStay DEF FetcherOf
<1>6. SUFFICES ASSUME NEW k, k \in DOMAIN handles', Fetched(handles'[k].use)
               PROVE  LET t == FetcherOf(k[1])
                      IN  t \in Contexts /\ InTime(t, k[1], handles'[k].use.in, k[2], ops'[t])
  <2>1. ASSUME \A k : k \in DOMAIN handles' /\ Fetched(handles'[k].use) =>
                 LET t == FetcherOf(k[1])
                 IN  t \in Contexts /\ InTime(t, k[1], handles'[k].use.in, k[2], ops'[t])
        PROVE  FetchedInTime'
    <3> DEFINE known(k) ==
                 LET t == FetcherOf(k[1])
                 IN  /\ t \in Contexts /\ IsIndexTask(t)
                     /\ handles[k].use.in.version = Front(t) /\ k[2] \in FetchedElements(t)
                     /\ \E j \in 1 .. ops[t] :
                          /\ program[Front(t)].body[j].do = "fetch"
                          /\ k[1] # t => j < Last(k[1])
    <3> SUFFICES ASSUME NEW k, k \in DOMAIN handles', Fetched(handles'[k].use)
                 PROVE  known(k)'
      BY DEF FetchedInTime, Fetched
    <3>1. PICK t : t = FetcherOf(k[1])
      OBVIOUS
    <3>2. t = FetcherOf(k[1])' /\ t \in Contexts /\ InTime(t, k[1], handles'[k].use.in, k[2], ops'[t])
      BY <1>5, <2>1, <3>1
    <3> QED
      BY <1>1, <3>2 DEF IsIndexTask, IsWork, FetchedElements
  <2> QED
    BY <2>1
<1> DEFINE goal(x) == LET t == FetcherOf(k[1])
                      IN  t \in Contexts /\ InTime(t, k[1], handles'[k].use.in, k[2], ops'[t])
<1>7. HandleCame(k)
  BY <1>1, <1>6, HandlesCome
<1>8. CASE HandleStays(k)
  <2>1. k \in DOMAIN handles /\ Fetched(handles[k].use) /\ handles'[k] = handles[k]
    BY <1>6, <1>8 DEF HandleStays
  <2> HIDE DEF InTime
  <2> QED
    BY <1>2, <1>3, <2>1
<1>9. ASSUME NEW c, HandleLeft(c, k) PROVE goal(k)
  <2>1. /\ k = <<c, k[2]>> /\ <<c, k[2]>> \in DOMAIN handles /\ Capturing(c) /\ k[2] \in Requested(c)
        /\ handles'[k] = CaptureOf(c, k[2]).source /\ Served(handles, <<c, k[2]>>, RequestsOf(c)[k[2]])
    BY <1>1, <1>9, CapturedBeneath
  <2>2. k \in DOMAIN handles /\ Fetched(handles[k].use) /\ handles'[k].use.in = handles[k].use.in
    BY <1>6, <2>1, FetchedCaptured
  <2> HIDE DEF InTime
  <2> QED
    BY <1>2, <1>3, <2>2
<1>10. ASSUME NEW c, HandleCaptured(c, k) PROVE goal(k)
  <2>1. /\ k = <<Place(c), k[2]>> /\ <<c, k[2]>> \in DOMAIN handles /\ Capturing(c) /\ k[2] \in Requested(c)
        /\ handles'[k] = CaptureOf(c, k[2]).captured /\ Served(handles, <<c, k[2]>>, RequestsOf(c)[k[2]])
        /\ Front(k[1]) = c /\ Last(k[1]) = ops[c] + 1 /\ ~IsIndexTask(k[1]) /\ k[1] \notin Contexts
        /\ c \in Contexts
    BY <1>1, <1>10, CapturedBeneath
  <2>2. Fetched(handles[<<c, k[2]>>].use) /\ handles'[k].use.in = handles[<<c, k[2]>>].use.in
    BY <1>6, <2>1, FetchedCaptured
  <2>3. IsIndexTask(c)
    <3>1. \A x : <<x, Parameter>>[2] = Parameter
      OBVIOUS
    <3>2. k[2] # Parameter
      BY <1>1, <2>1, <2>2, <3>1 DEF HoldersApart
    <3> QED
      BY <1>1, <1>10, <3>2, CapturedBeneath
  <2>4. FetcherOf(c) = c /\ FetcherOf(k[1]) = c /\ k[1] # c
    BY <2>1, <2>3 DEF FetcherOf
  <2>5. InTime(c, c, handles'[k].use.in, k[2], ops[c])
    <3>1. <<c, k[2]>>[1] = c /\ <<c, k[2]>>[2] = k[2]
      OBVIOUS
    <3> HIDE DEF InTime
    <3> QED
      BY <1>2, <2>1, <2>2, <2>4, <3>1
  <2>6. InTime(c, k[1], handles'[k].use.in, k[2], ops[c])
    <3>1. ops[c] \in Nat
      BY <1>1, <2>1 DEF ContextsKept
    <3>2. \A j \in 1 .. ops[c] : j < ops[c] + 1
      BY <3>1
    <3> QED
      BY <2>1, <2>5, <3>2
  <2> HIDE DEF InTime
  <2> QED
    BY <1>3, <2>1, <2>4, <2>6
<1>11. ASSUME NEW t, HandleFetched(t, k) PROVE goal(k)
  <2>1. /\ t \in Contexts /\ Fetch(t) /\ k[1] = t /\ k[2] \in FetchedElements(t)
        /\ handles'[k] = FetchedUse(collections[Front(t)], Front(t), k[2])
    BY <1>11 DEF HandleFetched
  <2>2. /\ IsIndexTask(t) /\ handles'[k].use.in = VersionIn(Front(t), k[2])
        /\ VersionIn(Front(t), k[2]).version = Front(t)
    BY <1>1, <2>1, FetchIs
  <2>3. FetcherOf(k[1]) = t
    BY <2>1, <2>2 DEF FetcherOf
  <2>4. About(t, "fetch")
    BY <2>1 DEF Fetch
  <2>5. program[Front(t)].body[ops[t] + 1].do = "fetch" /\ ops[t] \in Nat
    BY <1>1, <2>1, <2>4, AboutIndex DEF ContextsKept
  <2>6. ops'[t] = ops[t] + 1
    BY <1>1, <2>1 DEF Fetch, Proceed, ContextsKept
  <2>7. ops[t] + 1 \in 1 .. ops'[t]
    BY <2>5, <2>6
  <2>8. InTime(t, k[1], handles'[k].use.in, k[2], ops'[t])
    BY <2>1, <2>2, <2>5, <2>7
  <2> HIDE DEF InTime
  <2> QED
    BY <2>1, <2>3, <2>8
<1>12. ASSUME NEW w, HandleShared(w, k) \/ HandleLocal(w, k) PROVE goal(k)
  <2>1. IsIndexTask(k[1])
    BY <1>1, <1>12, HeldByIndexTasks
  <2>2. k[2] # Parameter /\ k[2] \notin LocalElements(k[1])
    <3>1. IF k[2] = Parameter THEN ~Fetched(handles'[k].use)
          ELSE IsIndexTask(k[1])' => (k[2] \in LocalElements(k[1])' <=> ~Fetched(handles'[k].use))
      BY <1>6 DEF Sound, HoldersApart, Fetched
    <3> QED
      BY <1>1, <1>6, <2>1, <3>1, NamesStay
  <2> QED
    BY <1>12, <2>2 DEF HandleShared, HandleLocal
<1> QED
  BY <1>7, <1>8, <1>9, <1>10, <1>11, <1>12 DEF HandleCame

\* A name that is made from another tells how.
LEMMA NamesSplit ==
  ASSUME NEW c \in Seq(Nat), c # << >>
  PROVE  c = Append(Front(c), Last(c)) /\ Last(c) \in Nat /\ Front(c) \in Seq(Nat)
<1>1. Len(c) \in Nat /\ Len(c) # 0
  OBVIOUS
<1>2. Front(c) = SubSeq(c, 1, Len(c) - 1) /\ Last(c) = c[Len(c)]
  BY DEF Front, Last
<1>3. Last(c) \in Nat
  BY <1>1, <1>2
<1>4. /\ Front(c) \in Seq(Nat) /\ Len(Front(c)) = Len(c) - 1
      /\ \A i \in 1 .. (Len(c) - 1) : Front(c)[i] = c[i]
  <2> DEFINE n == Len(c) - 1
  <2>1. n \in Int /\ 1 \in Int /\ \A i \in 1 .. n : c[i] \in Nat
    BY <1>1
  <2>2. /\ SubSeq(c, 1, n) \in Seq(Nat) /\ Len(SubSeq(c, 1, n)) = IF 1 <= n THEN n - 1 + 1 ELSE 0
        /\ \A i \in 1 .. n - 1 + 1 : SubSeq(c, 1, n)[i] = c[1 + i - 1]
    <3> HIDE DEF n
    <3> QED
      BY <2>1, SubSeqProperties
  <2>3. n \in Nat
    BY <1>1
  <2> HIDE DEF n
  <2>4. Front(c) = SubSeq(c, 1, n)
    BY <1>2 DEF n
  <2>5. Len(SubSeq(c, 1, n)) = n
    BY <2>2, <2>3
  <2>6. \A i \in 1 .. n : SubSeq(c, 1, n)[i] = c[i]
    <3>1. \A m \in Nat : m - 1 + 1 = m /\ \A i \in 1 .. m : 1 + i - 1 = i
      OBVIOUS
    <3>2. n - 1 + 1 = n /\ \A i \in 1 .. n : 1 + i - 1 = i
      BY <2>3, <3>1
    <3> QED
      BY <2>2, <3>2
  <2> QED
    BY <2>2, <2>4, <2>5, <2>6 DEF n
<1>5. PICK f : f = Front(c)
  OBVIOUS
<1>6. PICK n : n = Last(c)
  OBVIOUS
<1>7. /\ Append(f, n) \in Seq(Nat) /\ Len(Append(f, n)) = Len(c)
      /\ \A i \in 1 .. Len(c) : Append(f, n)[i] = c[i]
  BY <1>1, <1>2, <1>3, <1>4, <1>5, <1>6
<1>8. Append(f, n) = c
  BY <1>7
<1> QED
  BY <1>3, <1>4, <1>5, <1>6, <1>8

\* What an index task made was made by one of its operations, and makes nothing.
LEMMA BeneathIs ==
  ASSUME ContextsKept, NEW c \in Contexts, IsBeneath(c)
  PROVE  /\ Front(c) \in Contexts /\ IsIndexTask(Front(c))
         /\ IsWork(Front(Front(c))) /\ Front(c) \in IndexTasks(Front(Front(c)))
         /\ Front(Front(c)) \in Contexts
         /\ c \in Seq(Nat) /\ c = Append(Front(c), Last(c)) /\ Last(c) \in Nat /\ Last(c) <= ops[Front(c)]
         /\ ~IsWork(c) /\ ~IsIndexTask(c) /\ Place(c) \notin DOMAIN program
<1>1. Named /\ Numbered /\ ops[c] \in Nat
  BY DEF ContextsKept
<1>2. c # Root /\ c # << >> /\ IsIndexTask(Front(c)) /\ c \in Seq(Nat)
  BY ContextNames DEF IsBeneath, Root
<1>3. Front(c) \in Contexts
  BY <1>1, <1>2 DEF Numbered
<1>4. PICK w \in Contexts : w = Front(Front(c)) /\ IsWork(w) /\ Front(c) \in IndexTasks(w)
  BY <1>1, <1>2, <1>3, IndexTasksNamed
<1>5. c = Append(Front(c), Last(c)) /\ Last(c) \in Nat
  BY <1>2, NamesSplit
<1>6. ~IsWork(Front(c))
  BY <1>1, <1>4, IndexNames
<1>7. ~IsWork(c) /\ ~IsIndexTask(c) /\ Place(c) \notin DOMAIN program
  <2>1. ops[c] + 1 \in Nat
    BY <1>1
  <2> QED
    BY <1>1, <1>4, <1>5, <2>1, ChildNames DEF Place
<1> QED
  BY <1>1, <1>2, <1>3, <1>4, <1>5, <1>6, <1>7 DEF Numbered

\* Who captures is no contribution: what an index task makes makes nothing.
LEMMA ContributionsCaptureNothing ==
  ASSUME Kept, NEW c, Capturing(c)
  PROVE  ~IsContribution(c)
<1> SUFFICES ASSUME IsContribution(c) PROVE FALSE
  OBVIOUS
<1>1. ContextsKept /\ Named /\ Numbered /\ c \in Contexts /\ HasOperation(c)
  BY CapturingIs DEF Kept, ContextsKept
<1>2. IsBeneath(c)
  BY DEF IsContribution, IsBeneath
<1> QED
  BY <1>1, <1>2, BeneathIs DEF HasOperation

\* What an allreduce captures it captures to write.
LEMMA ContributionsWrite ==
  ASSUME Kept, NEW c, Making(c), NEW x, x = Place(c), IsContribution(x)
  PROVE  \A e \in LocalElements(Front(x)) :
           <<x, e>> \in DOMAIN handles' /\ "write" \in handles'[<<x, e>>].use.immediate
<1> SUFFICES ASSUME NEW e \in LocalElements(Front(x))
             PROVE  <<x, e>> \in DOMAIN handles' /\ "write" \in handles'[<<x, e>>].use.immediate
  OBVIOUS
<1>1. ContextsKept /\ Capturing(c)
  BY DEF Kept, Capturing
<1>2. c \in Contexts /\ status[c] = "running"
  BY <1>1, CapturingIs
<1>3. Front(x) = c /\ Last(x) = ops[c] + 1
  BY <1>1, <1>2, NamesApart
<1>4. IsIndexTask(c) /\ program[Front(c)].body[ops[c] + 1].do = "allreduce"
  BY <1>3 DEF IsContribution
<1>5. CreatesBeneath(c)
  BY <1>4 DEF Making, Creates
<1>6. Operation(c).do = "allreduce"
  BY <1>4, <1>5 DEF CreatesBeneath
<1>7. RequestsOf(c) = [d \in LocalElements(c) |-> Perms(None, Modify)]
  BY <1>6 DEF RequestsOf
<1>8. Perms(None, Modify) # NoRequest
  BY DEF Perms, NoRequest, None, Modify
<1>9. e \in Requested(c) /\ RequestsOf(c)[e] = Perms(None, Modify)
  BY <1>3, <1>7, <1>8 DEF Requested
<1>10. /\ Served(handles, <<c, e>>, Perms(None, Modify))
       /\ <<x, e>> \in DOMAIN handles' /\ handles'[<<x, e>>] = CaptureOf(c, e).captured
  BY <1>1, <1>9, CapturedHolders DEF HoldersAfter
<1>11. PICK case \in CaptureCases :
         MadeBy(case, handles[<<c, e>>], Perms(None, Modify), Append(Place(c), e), CaptureOf(c, e))
  BY <1>9, <1>10, OutcomeMade DEF CaptureOf, Served
<1>12. CaptureOf(c, e).captured.use.immediate = Modify
  BY <1>11 DEF MadeBy, CapturedUse, MakeUse, Perms
<1> QED
  BY <1>10, <1>12 DEF Modify

\* A contribution holds what it captured until it is over.
LEMMA ContributionsHoldStays ==
  ASSUME Sound, Sound', AnyStep, ContextsGoOn, ContributionsHold
  PROVE  ContributionsHold'
<1>1. Kept /\ ContextsKept /\ Named /\ program' = program /\ Kept'
  BY DEF Sound, Kept, ContextsKept, ContextsGoOn
<1>2. \A c : (IsContribution(c)' <=> IsContribution(c)) /\ LocalElements(Front(c))' = LocalElements(Front(c))
  BY <1>1, NamesStay DEF IsContribution
<1> SUFFICES ASSUME NEW c, c \in Contexts', IsContribution(c), ~Over(c)',
                    NEW e \in LocalElements(Front(c))
             PROVE  <<c, e>> \in DOMAIN handles' /\ "write" \in handles'[<<c, e>>].use.immediate
  BY <1>2 DEF ContributionsHold
<1>3. CASE c \in Contexts
  <2> DEFINE k == <<c, e>>
  <2>1. ~Over(c) /\ c \in Seq(Nat) /\ c # Root /\ k[1] = c /\ k[2] = e
    BY <1>1, <1>3, ContextNames DEF ContextsGoOn, IsContribution
  <2>2. <<c, e>> \in DOMAIN handles /\ "write" \in handles[<<c, e>>].use.immediate
    BY <1>3, <2>1 DEF ContributionsHold
  <2>3. IsIndexTask(Front(c)) /\ IsBeneath(c)
    BY <2>1 DEF IsContribution, IsBeneath
  <2>4. Front(c) \in Contexts /\ ~IsWork(c) /\ ~IsIndexTask(c)
    BY <1>1, <1>3, <2>3, BeneathIs
  <2> HIDE DEF k
  <2>5. k \in DOMAIN handles'
    BY <2>1, <2>2, <2>4, HandlesGo DEF k
  <2>6. HandleCame(k)
    BY <1>1, <2>5, HandlesCome
  <2>7. \A x : ~HandleLeft(x, k)
    <3> SUFFICES ASSUME NEW x, HandleLeft(x, k) PROVE FALSE
      OBVIOUS
    <3>1. Capturing(x) /\ k = <<x, k[2]>>
      BY DEF HandleLeft
    <3>2. x = c
      BY <2>1, <3>1 DEF k
    <3> QED
      BY <1>1, <3>1, <3>2, ContributionsCaptureNothing
  <2>8. \A x : ~HandleCaptured(x, k)
    <3> SUFFICES ASSUME NEW x, HandleCaptured(x, k) PROVE FALSE
      OBVIOUS
    <3> QED
      BY <1>1, <1>3, <2>1, CapturedBeneath
  <2>9. HandleStays(k)
    BY <1>1, <2>1, <2>4, <2>6, <2>7, <2>8, HeldByIndexTasks DEF HandleCame
  <2>10. <<c, e>> \in DOMAIN handles' /\ handles'[<<c, e>>] = handles[<<c, e>>]
    BY <2>5, <2>9 DEF HandleStays, k
  <2> QED
    BY <2>2, <2>10
<1>4. CASE c \notin Contexts
  <2>1. MadeAt(c)
    BY <1>4 DEF ContextsGoOn
  <2>2. ASSUME NEW x \in Contexts, c = Place(x), Making(x)
        PROVE  <<c, e>> \in DOMAIN handles' /\ "write" \in handles'[<<c, e>>].use.immediate
    BY <1>1, <2>2, ContributionsWrite
  <2>3. ASSUME NEW w \in Contexts, IsWork(w), c \in IndexTasks(w) PROVE FALSE
    <3>1. Front(c) = w /\ ~IsIndexTask(w)
      BY <1>1, <2>3, NamesApart
    <3> QED
      BY <3>1 DEF IsContribution
  <2> QED
    BY <2>1, <2>2, <2>3 DEF MadeAt, Making
<1> QED
  BY <1>3, <1>4

\* What an index task has performed is what its work has it do.
PerformedInBody ==
  \A t \in Contexts : IsIndexTask(t) => \A n \in 1 .. ops[t] : n \in DOMAIN program[Front(t)].body

\* It is so for every operation that is performed.
LEMMA PerformedInBodyStays ==
  ASSUME Sound, AnyStep, ContextsGoOn, PerformedInBody
  PROVE  PerformedInBody'
<1>1. Kept /\ ContextsKept /\ Named /\ program' = program
  BY DEF Sound, Kept, ContextsKept, ContextsGoOn
<1> SUFFICES ASSUME NEW t, t \in Contexts', IsIndexTask(t), NEW n, n \in 1 .. ops'[t]
             PROVE  n \in DOMAIN program[Front(t)].body
  BY <1>1, NamesStay DEF PerformedInBody
<1>2. CASE t \in Contexts /\ n \in 1 .. ops[t]
  BY <1>2 DEF PerformedInBody
<1>3. CASE t \in Contexts /\ n = ops[t] + 1 /\ (CreatesBeneath(t) \/ Publishes(t) \/ Fetch(t))
  <2>1. HasOperation(t)
    BY <1>3 DEF CreatesBeneath, Publishes, Fetch, About
  <2>2. ops[t] < Len(program[Front(t)].body) /\ ops[t] \in Nat
    BY <1>1, <1>3, <2>1 DEF HasOperation, ContextsKept
  <2>3. program[Front(t)].body \in Seq(BodyOperations)
    BY <1>1, <1>3, IndexTasksNamed, WorkNames
  <2> QED
    BY <1>3, <2>2, <2>3
<1> QED
  BY <1>1, <1>2, <1>3, OperationsCome

(***************************************************************************)
(* What allreduces are made of                                             *)
(***************************************************************************)
\* Index tasks publish before they fetch.
PublishesFirst(prog) ==
  \A w \in DOMAIN prog : prog[w].do = "work" =>
    \A n \in DOMAIN prog[w].body : prog[w].body[n].do = "fetch" =>
      \E m \in 1 .. (n - 1) : prog[w].body[m].do = "publish"

\* All index tasks of a work are past an operation, and nothing is left of what
\* they made before it.
IsReached(w, m) ==
  \A t \in IndexTasks(w) :
    /\ t \in Contexts
    /\ ops[t] >= m
    /\ \A n \in 1 .. (m - 1) : HoldersOf(Append(t, n)) = {}

\* All contributions to an allreduce run.
Contributing(w, m) ==
  /\ IsWork(w) /\ m \in DOMAIN program[w].body /\ program[w].body[m].do = "allreduce"
  /\ \A c \in Contributions(w, m) : Running(c)

ContributionsReach ==
  \A w \in Contexts : \A m \in DOMAIN program[w].body : Contributing(w, m) => IsReached(w, m)

\* When all contributions to an allreduce run, each of them alone with its elements,
\* nothing is left of what was made before: of what is local, as it was made before
\* the contribution that has it; of what was fetched, as it was published before the
\* contribution of the one who did.
LEMMA EverythingReached ==
  (\A prog \in Programs : PublishesFirst(prog)) =>
    (/\ Sound /\ PublishedInTime /\ HeldBeneath /\ FetchedInTime /\ ContributionsHold
     /\ PerformedInBody /\ RunningAlone
     => ContributionsReach)
<1> SUFFICES ASSUME \A prog \in Programs : PublishesFirst(prog),
                    Sound, PublishedInTime, HeldBeneath, FetchedInTime, ContributionsHold,
                    PerformedInBody, RunningAlone,
                    NEW w \in Contexts, NEW m \in DOMAIN program[w].body,
                    IsWork(w), program[w].body[m].do = "allreduce",
                    \A c \in Contributions(w, m) : Running(c)
             PROVE  IsReached(w, m)
  BY DEF ContributionsReach, Contributing
<1>1. /\ Kept /\ ContextsKept /\ Named /\ Numbered /\ program \in Programs /\ HoldersKept
      /\ FetchedAsPublished
  BY DEF Sound, Kept, ContextsKept, Named
<1>2. /\ program[w].body \in Seq(BodyOperations) /\ DOMAIN program[w].body = 1 .. Len(program[w].body)
      /\ Len(program[w].body) \in Nat /\ m \in Nat /\ w \in DOMAIN program
  BY <1>1, WorkNames
<1>3. ASSUME NEW t \in IndexTasks(w), NEW c, c = Append(t, m)
      PROVE  /\ t \in Contexts /\ IsIndexTask(t) /\ Front(t) = w /\ t \in Seq(Nat)
             /\ c \in Contexts /\ Running(c) /\ ~Over(c) /\ IsBeneath(c) /\ IsContribution(c)
             /\ Front(c) = t /\ Last(c) = m /\ m <= ops[t]
  <2>1. t \in Seq(Nat) /\ Front(t) = w /\ IsIndexTask(t) /\ ~IsWork(t)
    BY <1>1, IndexNames
  <2>2. c # Root /\ Front(c) = t /\ Last(c) = m
    BY <1>1, <1>2, <1>3, ChildNames
  <2>3. c \in Contributions(w, m)
    BY <1>3 DEF Contributions
  <2>4. Running(c) /\ c \in Contexts /\ ~Over(c)
    BY <2>3 DEF Running, Over
  <2>5. t \in Contexts /\ m <= ops[t]
    BY <1>1, <2>1, <2>2, <2>4 DEF Numbered
  <2> QED
    BY <2>1, <2>2, <2>4, <2>5 DEF IsBeneath, IsContribution
<1>4. ASSUME NEW t \in IndexTasks(w), NEW e \in LocalElements(t), NEW u \in OwnOf(t, e), u.by # t
      PROVE  ~(Last(u.by) < m)
  <2> DEFINE c == Append(t, m)
  <2>1. /\ t \in Contexts /\ Running(c) /\ c \in Contexts /\ ~Over(c) /\ IsBeneath(c) /\ IsContribution(c)
        /\ Front(c) = t /\ Last(c) = m
    BY <1>3
  <2>2. e \in Elements
    BY <1>1, TakersOfElements
  <2> HIDE DEF c
  <2>3. <<c, e>> \in DOMAIN handles /\ "write" \in handles[<<c, e>>].use.immediate
    BY <2>1 DEF ContributionsHold
  <2> QED
    BY <1>4, <2>1, <2>2, <2>3 DEF RunningAlone
<1>5. ASSUME NEW t2 \in IndexTasks(w), NEW n \in 1 .. (m - 1), NEW k \in DOMAIN handles, k[1] = Append(t2, n)
      PROVE  FALSE
  <2> DEFINE c2 == Append(t2, n)
             e  == k[2]
  <2>1. n \in Nat /\ n < m /\ n \in DOMAIN program[w].body
    BY <1>2
  <2>2. t2 \in Seq(Nat) /\ Front(t2) = w /\ IsIndexTask(t2) /\ t2 \in Contexts
    BY <1>1, <1>3, IndexNames
  <2>3. c2 # Root /\ Front(c2) = t2 /\ Last(c2) = n /\ ~IsIndexTask(c2) /\ c2 # t2
    BY <1>1, <2>1, <2>2, ChildNames, NamesMade
  <2> HIDE DEF c2, e
  <2>4. k[1] = c2 /\ k[2] = e
    BY <1>5 DEF c2, e
  <2>5. IsBeneath(c2) /\ c2 \in Contexts /\ k = <<c2, e>>
    <3>1. k \in Contexts \X Data
      BY <1>1 DEF HoldersKept
    <3>2. k[1] \in Contexts /\ k = <<k[1], k[2]>>
      BY <3>1
    <3> QED
      BY <2>2, <2>3, <2>4, <3>2 DEF IsBeneath
  <2>6. e \in Elements /\ (~Fetched(handles[k].use) => e \in LocalElements(t2))
    BY <2>3, <2>5, <2>5 DEF HeldBeneath
  <2>7. CASE ~Fetched(handles[k].use)
    <3>1. c2 \in Owners(e)
      BY <2>5, <2>7 DEF Owners
    <3>2. PICK u : u = HeldBy(c2, e) /\ u \in HeldOwn(e)
      BY <3>1 DEF HeldOwn
    <3>3. u \in OwnOf(t2, e) /\ u.by = c2
      BY <2>3, <3>2 DEF OwnOf, Own, HeldBy, IsOf
    <3> QED
      BY <1>4, <2>1, <2>3, <2>6, <2>7, <3>3
  <2>8. CASE Fetched(handles[k].use)
    <3>1. FetcherOf(c2) = t2
      BY <2>3 DEF FetcherOf
    <3>2. /\ handles[k].use.in.version = w /\ e \in FetchedElements(t2)
          /\ \E j \in 1 .. ops[t2] : program[w].body[j].do = "fetch" /\ j < n
      BY <2>2, <2>3, <2>4, <2>8, <3>1 DEF FetchedInTime
    <3>3. PICK j \in 1 .. ops[t2] : program[w].body[j].do = "fetch" /\ j < n
      BY <3>2
    <3>4. ops[t2] \in Nat
      BY <1>1, <2>2 DEF ContextsKept
    <3>5. j \in Nat /\ j \in DOMAIN program[w].body
      BY <1>2, <2>1, <3>3, <3>4
    <3>6. PICK i \in 1 .. (j - 1) : program[w].body[i].do = "publish"
      BY <1>1, <1>2, <3>3, <3>5 DEF PublishesFirst, IsWork
    <3>7. i \in Nat /\ i < m /\ i \in DOMAIN program[w].body /\ 1 <= i
      BY <1>2, <2>1, <3>3, <3>5, <3>6
    <3> DEFINE t3 == TakerOf(w, e)
               q  == <<w, e>>
    <3>8. t3 \in IndexTasks(w) /\ e \in LocalElements(t3)
      BY <1>1, <2>6, TakersOfElements
    <3>9. t3 \in Contexts /\ IsIndexTask(t3) /\ Front(t3) = w /\ m <= ops[t3] /\ ops[t3] \in Nat
      BY <1>1, <1>3, <3>8 DEF ContextsKept
    <3>10. i \in 1 .. ops[t3]
      BY <1>2, <3>7, <3>9
    <3> HIDE DEF t3
    <3>11. program[w].readers[e] # {}
      BY <2>2, <3>2 DEF FetchedElements
    <3>12. e \in PublishedElements(t3)
      BY <3>8, <3>9, <3>11 DEF PublishedElements
    <3>13. q \in DOMAIN publications
      BY <3>6, <3>9, <3>10, <3>12 DEF PublishedInTime
    <3>14. ~publications[q].released
      <4>1. IsFetchedAs(handles[k].use, w, e)
        BY <1>1, <2>4, <2>8, <3>2 DEF FetchedAsPublished
      <4> QED
        BY <3>13, <4>1 DEF IsFetchedAs
    <3>15. q[1] = w /\ q[2] = e
      OBVIOUS
    <3> HIDE DEF q
    <3>16. PICK l \in 1 .. ops[t3] :
             /\ program[w].body[l].do = "publish"
             /\ Front(publications[q].at) = t3 /\ Last(publications[q].at) = l /\ publications[q].at # Root
      BY <3>13, <3>15, PublicationAt DEF t3
    <3>17. l = i
      <4>1. l \in DOMAIN program[w].body
        BY <3>9, <3>16 DEF PerformedInBody
      <4> QED
        BY <1>1, <1>2, <3>6, <3>7, <3>16, <4>1, ProgramsAssumption DEF IsWork
    <3>18. PICK u : u = PublishedUse(q) /\ u \in PublishedOf(e)
      BY <2>6, <3>13, <3>14, <3>15, ElementsAreNumbers DEF PublishedOf, Unreleased
    <3>19. u \in OwnOf(t3, e) /\ u.by = publications[q].at
      BY <3>16, <3>18 DEF OwnOf, Own, PublishedUse, IsOf
    <3>20. u.by # t3
      <4> SUFFICES ASSUME publications[q].at = t3 PROVE FALSE
        BY <3>19
      <4>1. Front(t3) = t3
        BY <3>16
      <4> QED
        BY <1>1, <3>9, <4>1, NamesApart
    <3> QED
      BY <1>4, <3>7, <3>8, <3>16, <3>17, <3>19, <3>20
  <2> QED
    BY <2>7, <2>8
<1>6. \A t \in IndexTasks(w) : t \in Contexts /\ ops[t] >= m
  <2> SUFFICES ASSUME NEW t \in IndexTasks(w) PROVE t \in Contexts /\ ops[t] >= m
    OBVIOUS
  <2>1. t \in Contexts /\ m <= ops[t]
    BY <1>3
  <2>2. ops[t] \in Nat
    BY <1>1, <2>1 DEF ContextsKept
  <2> QED
    BY <1>2, <2>1, <2>2
<1> QED
  BY <1>5, <1>6 DEF IsReached, HoldersOf

\* What is reached stays reached: what is made later is made by operations that
\* come later.
LEMMA ReachedStays ==
  ASSUME Kept, AnyStep, ContextsGoOn,
         NEW w \in Contexts, IsWork(w), NEW m \in Nat, IsReached(w, m)
  PROVE  IsReached(w, m)'
<1>1. ContextsKept /\ Named /\ program' = program /\ Contexts \subseteq Contexts'
  BY DEF Kept, ContextsKept, ContextsGoOn
<1>2. IndexTasks(w)' = IndexTasks(w)
  BY <1>1 DEF IndexTasks
<1>3. ASSUME NEW t \in IndexTasks(w) PROVE t \in Contexts' /\ ops'[t] >= m
  <2>1. t \in Contexts /\ ops[t] >= m
    BY <1>3 DEF IsReached
  <2>2. ops[t] \in Nat /\ ops'[t] \in Nat /\ ops[t] <= ops'[t]
    BY <1>1, <2>1 DEF ContextsKept, ContextsGoOn
  <2> QED
    BY <1>1, <2>1, <2>2
<1>4. ASSUME NEW t \in IndexTasks(w), NEW n \in 1 .. (m - 1), NEW k, k \in DOMAIN handles', k[1] = Append(t, n)
      PROVE  FALSE
  <2>1. t \in Contexts /\ ops[t] >= m /\ HoldersOf(Append(t, n)) = {}
    BY <1>4 DEF IsReached
  <2>2. k \notin DOMAIN handles
    BY <1>4, <2>1 DEF HoldersOf
  <2>3. n \in Nat /\ n < m
    OBVIOUS
  <2>4. Front(k[1]) = t /\ Last(k[1]) = n /\ ~IsIndexTask(k[1])
    BY <1>1, <1>4, <2>3, ChildNames
  <2>5. HandleCame(k)
    BY <1>4, HandlesCome
  <2>6. \A c : ~HandleLeft(c, k)
    <3> SUFFICES ASSUME NEW c, HandleLeft(c, k) PROVE FALSE
      OBVIOUS
    <3>1. <<c, k[2]>> \in DOMAIN handles /\ k = <<c, k[2]>>
      BY CapturedBeneath
    <3> QED
      BY <2>2, <3>1
  <2>7. \A c : ~HandleCaptured(c, k)
    <3> SUFFICES ASSUME NEW c, HandleCaptured(c, k) PROVE FALSE
      OBVIOUS
    <3>1. Front(k[1]) = c /\ Last(k[1]) = ops[c] + 1
      BY CapturedBeneath
    <3>2. n = ops[t] + 1 /\ ops[t] \in Nat
      BY <1>1, <2>1, <2>4, <3>1 DEF ContextsKept
    <3> QED
      BY <2>1, <2>3, <3>2
  <2> QED
    BY <2>2, <2>4, <2>5, <2>6, <2>7, HeldByIndexTasks DEF HandleCame, HandleStays
<1> QED
  <2> SUFFICES ASSUME NEW t \in IndexTasks(w)
               PROVE  /\ t \in Contexts' /\ ops'[t] >= m
                      /\ \A n \in 1 .. (m - 1) : HoldersOf(Append(t, n))' = {}
    BY <1>2 DEF IsReached
  <2>1. \A n \in 1 .. (m - 1) : HoldersOf(Append(t, n))' = {}
    BY <1>4 DEF HoldersOf
  <2> QED
    BY <1>3, <2>1

\* Contributions run when all of them can, and only so.
LEMMA ContributionsRunTogether ==
  ASSUME Kept, [Next]_vars, NEW c \in Contexts, IsContribution(c),
         status[c] = "pending", status'[c] # "pending"
  PROVE  \E w \in Contexts : \E m \in DOMAIN program[w].body :
           /\ w = Front(Front(c)) /\ m = Last(c)
           /\ program' = program /\ Contributing(w, m)'
<1>1. ContextsKept /\ Named
  BY DEF Kept, ContextsKept
<1>2. ASSUME NEW x, NEW made, NEW state, Proceed(x, made, state), \A y \in made : y \notin Contexts
      PROVE  FALSE
  <2>1. c \notin DOMAIN [y \in made |-> state] /\ c \in DOMAIN status
    BY <1>2 DEF Contexts
  <2>2. status'[c] = status[c]
    BY <1>2, <2>1 DEF Proceed, With
  <2> QED
    BY <2>2
<1>3. \A x, do : About(x, do) => Place(x) \notin Contexts
  BY <1>1, PlaceIsNew DEF About
<1>4. PICK none : none = {}
  OBVIOUS
<1>5. ASSUME NEW x \in Contexts PROVE ~ContextStep(x)
  <2>1. ~CreateTask(x) /\ ~Reduce(x) /\ ~CreateConcurrentWork(x)
    <3>1. \A state : About(x, "task") \/ About(x, "reduce") \/ About(x, "work") => ~Proceed(x, {Place(x)}, state)
      BY <1>2, <1>3
    <3> QED
      BY <3>1 DEF CreateTask, Reduce, CreateConcurrentWork
  <2>2. ~CreateChild(x) /\ ~Allreduce(x)
    <3>1. \A state : About(x, "child") \/ About(x, "allreduce") => ~Proceed(x, {Place(x)}, state)
      BY <1>2, <1>3
    <3> QED
      BY <3>1 DEF CreateChild, Allreduce
  <2>3. ~Publish(x) /\ ~Fetch(x)
    <3>1. \A state : ~Proceed(x, none, state)
      BY <1>2, <1>4
    <3> QED
      BY <1>4, <3>1 DEF Publish, Fetch
  <2>4. ~EndTask(x)
    <3> SUFFICES ASSUME EndTask(x) PROVE FALSE
      OBVIOUS
    <3>1. status[x] = "running" /\ status' = [status EXCEPT ![x] = "done"]
      BY DEF EndTask
    <3> QED
      BY <3>1 DEF Contexts
  <2> QED
    BY <2>1, <2>2, <2>3, <2>4 DEF ContextStep
<1>6. ASSUME NEW x \in Contexts PROVE ~CreateTaskForIndex(x) /\ ~DropTaskCollection(x) /\ ~RunTask(x)
  <2>1. ~CreateTaskForIndex(x)
    <3> SUFFICES ASSUME CreateTaskForIndex(x) PROVE FALSE
      OBVIOUS
    <3>1. PICK t : t \notin Contexts /\ status' = With(status, Single(t, "pending"))
      BY DEF CreateTaskForIndex
    <3> QED
      BY <3>1 DEF Contexts, With, Single
  <2>2. ~DropTaskCollection(x)
    <3> SUFFICES ASSUME DropTaskCollection(x) PROVE FALSE
      OBVIOUS
    <3>1. status[x] = "registered" /\ status' = [status EXCEPT ![x] = "done"]
      BY DEF DropTaskCollection
    <3> QED
      BY <3>1 DEF Contexts
  <2>3. ~RunTask(x)
    <3> SUFFICES ASSUME RunTask(x) PROVE FALSE
      OBVIOUS
    <3>1. status' = With(status, [y \in {x} |-> "running"]) /\ ~IsContribution(x)
      BY DEF RunTask, Run
    <3> QED
      BY <3>1 DEF Contexts, With
  <2> QED
    BY <2>1, <2>2, <2>3
<1>7. \A p : ~ReleasePublication(p)
  BY DEF ReleasePublication
<1>8. ~Terminated /\ ~UNCHANGED vars
  BY DEF Terminated, vars
<1>9. PICK w \in Contexts : PerformAllreduce(w)
  BY <1>5, <1>6, <1>7, <1>8 DEF Next, BackendStep
<1>10. PICK n \in DOMAIN program[w].body :
         /\ program[w].body[n].do = "allreduce"
         /\ Contributions(w, n) \subseteq Contexts
         /\ Run(Contributions(w, n))
  BY <1>9 DEF PerformAllreduce
<1>11. IsWork(w)
  BY <1>9 DEF PerformAllreduce
<1>12. program' = program /\ status' = With(status, [x \in Contributions(w, n) |-> "running"])
  BY <1>10 DEF Run
<1>13. n \in Nat
  BY <1>1, <1>10, <1>11, WorkNames
<1>14. c \in Contributions(w, n)
  <2> SUFFICES ASSUME c \notin Contributions(w, n) PROVE FALSE
    OBVIOUS
  <2>1. status'[c] = status[c]
    BY <1>12 DEF Contexts, With
  <2> QED
    BY <2>1
<1>15. w = Front(Front(c)) /\ n = Last(c)
  <2>1. PICK t \in IndexTasks(w) : c = Append(t, n)
    BY <1>14 DEF Contributions
  <2> QED
    BY <1>1, <1>11, <1>13, <2>1, IndexNames, ChildNames
<1>16. \A x \in Contributions(w, n) : Running(x)'
  <2>1. \A x \in Contributions(w, n) : x \in DOMAIN status' /\ status'[x] = "running"
    BY <1>12 DEF With
  <2> QED
    BY <2>1 DEF Running, Contexts
<1>17. Contributing(w, n)'
  <2>1. Contributions(w, n)' = Contributions(w, n) /\ IsWork(w)'
    BY <1>11, <1>12 DEF Contributions, IndexTasks, IsWork
  <2> QED
    BY <1>10, <1>12, <1>16, <2>1 DEF Contributing
<1> QED
  BY <1>12, <1>15, <1>17

\* What was said of what index tasks have done so far, in every state.
DoneSoFar == PublishedInTime /\ HeldBeneath /\ FetchedInTime /\ ContributionsHold /\ PerformedInBody

\* It is so at first, as there are no index tasks.
LEMMA DoneSoFarInit == Init => DoneSoFar
<1> SUFFICES ASSUME Init PROVE DoneSoFar
  OBVIOUS
<1>1. /\ Contexts = {Root} /\ ~IsIndexTask(Root) /\ ~IsBeneath(Root) /\ ~IsContribution(Root)
      /\ DOMAIN handles = {<<Root, Parameter>>}
  BY DEF Init, Contexts, Single, IsIndexTask, IsBeneath, IsContribution
<1>2. <<Root, Parameter>>[1] = Root /\ <<Root, Parameter>>[2] = Parameter
  OBVIOUS
<1>3. Sound
  BY SoundInit
<1>4. ~Fetched(handles[<<Root, Parameter>>].use)
  BY <1>1, <1>2, <1>3 DEF Sound, HoldersApart
<1>5. PublishedInTime /\ ContributionsHold /\ PerformedInBody
  BY <1>1 DEF PublishedInTime, ContributionsHold, PerformedInBody
<1>6. HeldBeneath /\ FetchedInTime
  BY <1>1, <1>2, <1>4 DEF HeldBeneath, FetchedInTime
<1> QED
  BY <1>5, <1>6 DEF DoneSoFar

\* Every step keeps it.
LEMMA DoneSoFarPreserved == Sound /\ DoneSoFar /\ [Next]_vars => DoneSoFar'
<1> SUFFICES ASSUME Sound, DoneSoFar, [Next]_vars PROVE DoneSoFar'
  OBVIOUS
<1>1. Kept /\ OutsKept /\ Sound'
  BY SoundPreserved DEF Sound
<1>2. AnyStep
  BY <1>1, StepCases
<1>3. ContextsGoOn
  BY <1>1, <1>2, ContextsOfStep
<1>4. PublishedInTime' /\ HeldBeneath'
  BY <1>2, <1>3, PublishedInTimeStays, HeldBeneathStays DEF DoneSoFar
<1>5. FetchedInTime' /\ ContributionsHold'
  BY <1>1, <1>2, <1>3, FetchedInTimeStays, ContributionsHoldStays DEF DoneSoFar
<1>6. PerformedInBody'
  BY <1>2, <1>3, PerformedInBodyStays DEF DoneSoFar
<1> QED
  BY <1>4, <1>5, <1>6 DEF DoneSoFar

\* An allreduce is performed when everything is reached, which then stays so.
LEMMA ReducesEverythingStays ==
  ASSUME Sound, Sound', [Next]_vars, ContributionsReach', ReducesEverything
  PROVE  ReducesEverything'
<1>1. Kept /\ OutsKept /\ ContextsKept /\ Stages' /\ ContextsKept'
  BY DEF Sound, Kept, ContextsKept
<1>2. AnyStep
  BY <1>1, StepCases
<1>3. ContextsGoOn /\ program' = program
  BY <1>1, <1>2, ContextsOfStep DEF ContextsGoOn
<1>4. \A c : IsContribution(c)' <=> IsContribution(c)
  BY <1>3, NamesStay DEF IsContribution
<1>5. SUFFICES ASSUME NEW c, c \in Contexts', IsContribution(c), status'[c] # "pending"
               PROVE  IsReached(Front(Front(c)), Last(c))'
  BY <1>4 DEF ReducesEverything, IsReached
<1>6. CASE c \in Contexts
  <2>1. /\ IsWork(Front(Front(c))) /\ Front(Front(c)) \in Contexts /\ Last(c) \in Nat
    BY <1>1, <1>5, <1>6, BeneathIs DEF IsContribution, IsBeneath
  <2>2. CASE status[c] # "pending"
    <3>1. IsReached(Front(Front(c)), Last(c))
      BY <1>5, <1>6, <2>2 DEF ReducesEverything, IsReached
    <3> QED
      BY <1>1, <1>2, <1>3, <2>1, <3>1, ReachedStays
  <2>3. CASE status[c] = "pending"
    <3>1. PICK w \in Contexts : \E m \in DOMAIN program[w].body :
            w = Front(Front(c)) /\ m = Last(c) /\ Contributing(w, m)'
      BY <1>1, <1>5, <1>6, <2>3, ContributionsRunTogether
    <3>4. PICK m \in DOMAIN program[w].body :
            w = Front(Front(c)) /\ m = Last(c) /\ Contributing(w, m)'
      BY <3>1
    <3>2. w \in Contexts' /\ m \in DOMAIN program'[w].body
      BY <1>3 DEF ContextsGoOn
    <3>3. IsReached(w, m)'
      BY <3>4, <3>2 DEF ContributionsReach
    <3> QED
      BY <3>4, <3>3
  <2> QED
    BY <2>2, <2>3
<1>7. CASE c \notin Contexts
  <2>1. ~Running(c)' /\ ~Over(c)'
    BY <1>3, <1>5, <1>7 DEF ContextsGoOn
  <2>2. status'[c] # "running" /\ status'[c] # "done"
    BY <1>5, <2>1 DEF Running, Over
  <2>4. ~IsWork(c)
    <3>1. MadeAt(c)
      BY <1>3, <1>5, <1>7 DEF ContextsGoOn
    <3>2. ASSUME NEW y \in Contexts, c = Place(y), Making(y) PROVE ~IsWork(c)
      <4>1. status[y] = "running" /\ Capturing(y)
        BY <1>1, <3>2, CapturingIs DEF Capturing
      <4>2. IsIndexTask(Front(c)) /\ Front(c) = y
        BY <1>1, <1>5, <3>2, <4>1, NamesApart DEF IsContribution
      <4> QED
        BY <1>1, <3>2, <4>1, <4>2, NamesApart
    <3>3. ASSUME NEW w \in Contexts, IsWork(w), c \in IndexTasks(w) PROVE ~IsWork(c)
      BY <1>1, <3>3, NamesApart
    <3> QED
      BY <3>1, <3>2, <3>3 DEF MadeAt, Making
  <2>5. status'[c] \in {"pending", "running", "done"}
    BY <1>1, <1>3, <1>5, <2>4, NamesStay DEF Stages
  <2> QED
    BY <1>5, <2>2, <2>5
<1> QED
  BY <1>6, <1>7

\* At first nothing was contributed.
LEMMA ReducesEverythingInit == Init => ReducesEverything
<1> SUFFICES ASSUME Init, NEW c \in Contexts, IsContribution(c) PROVE FALSE
  BY DEF ReducesEverything
<1>1. Contexts = {Root}
  BY DEF Init, Single, Contexts
<1> QED
  BY <1>1 DEF IsContribution

\* What an allreduce gives to every index task has in it all that any of them did
\* before, whatever the programs are in which index tasks publish before they
\* fetch: as long as captures suffice, contributions have their elements alone.
THEOREM EverythingIsReduced ==
  ASSUME \A prog \in Programs : PublishesFirst(prog)
  PROVE  Spec /\ []CapturesSuffice => []ReducesEverything
<1>1. Init => Excluded /\ InOrder /\ DoneSoFar /\ ReducesEverything
  BY ExcludedInit, OrderInit, DoneSoFarInit, ReducesEverythingInit
<1>2. Excluded /\ InOrder /\ CapturesSuffice /\ [Next]_vars => Excluded' /\ InOrder'
  BY ExcludedPreserved, OrderPreserved
<1>3. Excluded /\ DoneSoFar /\ [Next]_vars => DoneSoFar'
  BY DoneSoFarPreserved DEF Excluded
<1>4. Excluded /\ InOrder /\ DoneSoFar => ContributionsReach
  BY RunsAlone, EverythingReached DEF Excluded, DoneSoFar
<1>5. /\ Excluded /\ Excluded' /\ [Next]_vars /\ ContributionsReach' /\ ReducesEverything
      => ReducesEverything'
  BY ReducesEverythingStays DEF Excluded
<1> QED
  BY <1>1, <1>2, <1>3, <1>4, <1>5, PTL DEF Spec

\* By input flows it is so in all programs without tasks that can only schedule
\* writers of a single datum.
THEOREM EverythingIsReducedByInputs ==
  ASSUME FlowsEnough, \A prog \in Programs : PublishesFirst(prog)
  PROVE  Spec => []ReducesEverything
BY EverythingIsReduced, FlowsSuffice, PTL

=============================================================================
