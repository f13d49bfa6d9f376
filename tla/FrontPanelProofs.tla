--------------------------- MODULE FrontPanelProofs ---------------------------
(***************************************************************************)
(* The safety properties of FrontPanel, for every panel, legend and size of *)
(* the ring.  The invariant is a promise: applying in order every event of  *)
(* the ring and then every waiting message would bring the machine to what  *)
(* the fingers ask for now, as far as the window has heard of them.         *)
(***************************************************************************)
EXTENDS FrontPanel, SequenceTheorems, WellFoundedInduction, TLAPS

Panels ==
  [capture : BOOLEAN, evq : [0 .. EVQ_SIZE - 1 -> Event \cup {NONE}],
   head : 0 .. EVQ_SIZE - 1, tail : 0 .. EVQ_SIZE - 1,
   mouse_widget : Widgets \cup {NONE}, held : SUBSET (Keys \cup Buttons),
   kbd : SUBSET Keys, latch : SUBSET Switches, running : BOOLEAN,
   owed : SUBSET Actuators, lost : BOOLEAN]

(* What the promise is about: the matrix, the widget the mouse holds, and the *)
(* actuators a call is owed.                                                 *)
Cores == [kbd : SUBSET Keys, mouse : Widgets \cup {NONE}, owed : SUBSET Actuators]

Core(f) == [kbd |-> f.kbd, mouse |-> f.mouse_widget, owed |-> f.owed]

Effect(c, ev) ==
  [kbd   |-> IF ev.kind \in {"KEYDOWN", "MOUSEDOWN"} /\ ev.widget \in Keys
             THEN c.kbd \cup {ev.widget}
             ELSE IF ev.kind = "KEYUP" THEN c.kbd \ {ev.widget}
             ELSE IF ev.kind = "MOUSEUP" THEN c.kbd \ {c.mouse} ELSE c.kbd,
   mouse |-> IF ev.kind = "MOUSEDOWN" THEN ev.widget
             ELSE IF ev.kind = "MOUSEUP" THEN NONE ELSE c.mouse,
   owed  |-> IF ev.kind \in {"KEYDOWN", "MOUSEDOWN"} /\ ev.widget \in Actuators
             THEN Toggle(c.owed, ev.widget) ELSE c.owed]

(* A press of w makes one more call owed. *)
Owing(c, w) ==
  [kbd |-> c.kbd, mouse |-> c.mouse,
   owed |-> IF w \in Actuators THEN Toggle(c.owed, w) ELSE c.owed]

(* The messages of s, applied in order to c, give d. *)
IsChain(r, s) ==
  /\ r \in [0 .. Len(s) -> Cores]
  /\ \A i \in 1 .. Len(s) : r[i] = Effect(r[i - 1], s[i])

Yields(c, s, d) == \E r : IsChain(r, s) /\ r[0] = c /\ r[Len(s)] = d

(* The i-th slot from slot t on, and: the ring of f holds the events of s. *)
At(t, i) == IF t + i < EVQ_SIZE THEN t + i ELSE t + i - EVQ_SIZE

Holds(f, s) ==
  /\ s \in Seq(Event) /\ Len(s) < EVQ_SIZE
  /\ f.head = At(f.tail, Len(s))
  /\ \A i \in 1 .. Len(s) : f.evq[At(f.tail, i - 1)] = s[i]

(* What the fingers ask for: a key of the matrix is down only for the mouse,  *)
(* for a host key still down whose press was heard, or because its release   *)
(* was a WM_SYSKEYUP.                                                        *)
Wanted(w) == pointer = w \/ w \in left \/ \E k \in heard : Legend[k] = w

Settled(c) ==
  /\ \A w \in c.kbd : Wanted(w)
  /\ c.owed \subseteq {Legend[k] : k \in SystemKeys}
  /\ c.mouse = IF pointer = "up" THEN NONE ELSE pointer

Promised(s) ==
  \E d, e : Yields(Core(Now), s, d) /\ Yields(d, messages, e) /\ Settled(e)

PanelInv == TypeOK /\ \E s : Holds(Now, s) /\ (~lost => Promised(s))

-----------------------------------------------------------------------------
(* The effects of messages. *)
LEMMA EffectType ==
  ASSUME NEW c \in Cores, NEW ev \in Message
  PROVE  Effect(c, ev) \in Cores
BY PanelAssumption DEF Cores, Effect, Message, Toggle, Widgets, Actuators

LEMMA OwingType ==
  ASSUME NEW c \in Cores, NEW w
  PROVE  Owing(c, w) \in Cores
BY DEF Cores, Owing, Toggle

LEMMA EffectOwing ==
  ASSUME NEW c \in Cores, NEW ev, NEW w
  PROVE  Effect(Owing(c, w), ev) = Owing(Effect(c, ev), w)
BY DEF Cores, Owing, Toggle, Effect

LEMMA EventsAreMessages == Event \subseteq Message
BY DEF Event, Message

LEMMA YieldsNone ==
  ASSUME NEW c \in Cores
  PROVE  Yields(c, << >>, c)
<1> DEFINE r == [i \in 0 .. 0 |-> c]
<1>1. r \in [0 .. 0 -> Cores] /\ r[0] = c
  OBVIOUS
<1>2. Len(<< >>) = 0 /\ 1 .. 0 = {}
  OBVIOUS
<1> HIDE DEF r
<1>3. IsChain(r, << >>)
  BY <1>1, <1>2 DEF IsChain
<1> QED BY <1>1, <1>2, <1>3 DEF Yields

LEMMA YieldsType ==
  ASSUME NEW c, NEW s \in Seq(Message), NEW d, Yields(c, s, d)
  PROVE  c \in Cores /\ d \in Cores
<1>1. Len(s) \in Nat
  BY LenProperties
<1> QED BY <1>1 DEF Yields, IsChain

LEMMA NoneYields ==
  ASSUME NEW c, NEW d, Yields(c, << >>, d)
  PROVE  d = c
BY DEF Yields

LEMMA YieldsThen ==
  ASSUME NEW s \in Seq(Message), NEW c, NEW d, Yields(c, s, d), NEW ev \in Message
  PROVE  Yields(c, Append(s, ev), Effect(d, ev))
<1> DEFINE t == Append(s, ev)  n == Len(s)
<1>1. n \in Nat /\ Len(t) = n + 1 /\ t[n + 1] = ev /\ \A i \in 1 .. n : t[i] = s[i]
  BY LenProperties, AppendProperties
<1>2. PICK r : IsChain(r, s) /\ r[0] = c /\ r[n] = d
  BY DEF Yields
<1>3. d \in Cores /\ Effect(d, ev) \in Cores
  BY YieldsType, EffectType
<1> DEFINE q == [i \in 0 .. n + 1 |-> IF i = n + 1 THEN Effect(d, ev) ELSE r[i]]
<1> HIDE DEF n, t
<1>4. /\ r \in [0 .. n -> Cores]
      /\ \A i \in 1 .. n : r[i] = Effect(r[i - 1], s[i])
  BY <1>2 DEF IsChain, n
<1>5. q \in [0 .. n + 1 -> Cores]
  BY <1>1, <1>3, <1>4
<1>6. /\ q[n + 1] = Effect(d, ev) /\ q[0] = c /\ q[n] = d
      /\ \A i \in 0 .. n : q[i] = r[i]
  BY <1>1, <1>2
<1>7. ASSUME NEW i \in 1 .. n + 1
      PROVE  q[i] = Effect(q[i - 1], t[i])
  <2>1. CASE i = n + 1
    BY <1>1, <1>6, <2>1
  <2>2. CASE i # n + 1
    <3>1. i \in 1 .. n /\ i \in 0 .. n /\ i - 1 \in 0 .. n
      BY <1>1, <2>2
    <3>2. q[i] = r[i] /\ q[i - 1] = r[i - 1] /\ t[i] = s[i] /\ r[i] = Effect(r[i - 1], s[i])
      BY <1>1, <1>4, <1>6, <3>1
    <3> QED BY <3>2
  <2> QED BY <2>1, <2>2
<1> HIDE DEF q
<1>8. IsChain(q, t) /\ q[0] = c /\ q[Len(t)] = Effect(d, ev)
  BY <1>1, <1>5, <1>6, <1>7 DEF IsChain
<1> QED BY <1>8 DEF Yields, t

LEMMA YieldsAfter ==
  ASSUME NEW s \in Seq(Message), s # << >>, NEW c, NEW d, Yields(c, s, d)
  PROVE  Yields(Effect(c, Head(s)), Tail(s), d)
<1> DEFINE t == Tail(s)  n == Len(s)
<1>1. /\ n \in Nat /\ n > 0 /\ Len(t) = n - 1 /\ Head(s) = s[1]
      /\ \A i \in 1 .. n - 1 : t[i] = s[i + 1]
  BY LenProperties, HeadTailProperties, EmptySeq
<1>2. PICK r : IsChain(r, s) /\ r[0] = c /\ r[n] = d
  BY DEF Yields
<1> DEFINE q == [i \in 0 .. n - 1 |-> r[i + 1]]
<1> HIDE DEF n, t
<1>3. /\ r \in [0 .. n -> Cores]
      /\ \A i \in 1 .. n : r[i] = Effect(r[i - 1], s[i])
  BY <1>2 DEF IsChain, n
<1>4. q \in [0 .. n - 1 -> Cores] /\ \A i \in 0 .. n - 1 : q[i] = r[i + 1]
  BY <1>1, <1>3
<1>5. q[0] = r[1] /\ q[n - 1] = r[n] /\ r[1] = Effect(r[0], s[1])
  BY <1>1, <1>3
<1>6. ASSUME NEW i \in 1 .. n - 1
      PROVE  q[i] = Effect(q[i - 1], t[i])
  <2>1. q[i] = r[i + 1] /\ q[i - 1] = r[i] /\ t[i] = s[i + 1]
    BY <1>1, <1>4
  <2>2. r[i + 1] = Effect(r[i], s[i + 1])
    BY <1>1, <1>3
  <2> QED BY <2>1, <2>2
<1> HIDE DEF q
<1>7. IsChain(q, t) /\ q[0] = Effect(c, Head(s)) /\ q[Len(t)] = d
  BY <1>1, <1>2, <1>4, <1>5, <1>6 DEF IsChain
<1> QED BY <1>7 DEF Yields, t

LEMMA YieldsOwing ==
  ASSUME NEW s \in Seq(Message), NEW c, NEW d, Yields(c, s, d), NEW w
  PROVE  Yields(Owing(c, w), s, Owing(d, w))
<1> DEFINE n == Len(s)
<1>1. n \in Nat
  BY LenProperties
<1>2. PICK r : IsChain(r, s) /\ r[0] = c /\ r[n] = d
  BY DEF Yields
<1> DEFINE q == [i \in 0 .. n |-> Owing(r[i], w)]
<1> HIDE DEF n
<1>3. r \in [0 .. n -> Cores] /\ \A i \in 1 .. n : r[i] = Effect(r[i - 1], s[i])
  BY <1>2 DEF IsChain, n
<1>4. q \in [0 .. n -> Cores] /\ q[0] = Owing(c, w) /\ q[n] = Owing(d, w)
  BY <1>1, <1>2, <1>3, OwingType
<1>5. ASSUME NEW i \in 1 .. n
      PROVE  q[i] = Effect(q[i - 1], s[i])
  <2>1. i \in 0 .. n /\ i - 1 \in 0 .. n
    BY <1>1
  <2>2. q[i] = Owing(Effect(r[i - 1], s[i]), w) /\ q[i - 1] = Owing(r[i - 1], w)
    BY <1>3, <2>1
  <2> QED BY <1>3, <2>1, <2>2, EffectOwing
<1> HIDE DEF q
<1>6. IsChain(q, s)
  BY <1>4, <1>5 DEF IsChain, n
<1> QED BY <1>4, <1>6 DEF Yields, n

-----------------------------------------------------------------------------
(* The ring. *)
LEMMA FollowingIs ==
  ASSUME NEW i \in 0 .. EVQ_SIZE - 1
  PROVE  Following(i) = IF i + 1 = EVQ_SIZE THEN 0 ELSE i + 1
BY PanelAssumption DEF Following

LEMMA AtType ==
  ASSUME NEW t \in 0 .. EVQ_SIZE - 1, NEW i \in 0 .. EVQ_SIZE - 1
  PROVE  /\ At(t, i) \in 0 .. EVQ_SIZE - 1
         /\ Following(At(t, i)) \in 0 .. EVQ_SIZE - 1
         /\ i + 1 < EVQ_SIZE => Following(At(t, i)) = At(t, i + 1)
         /\ i + 1 < EVQ_SIZE => Following(At(t, i)) # t
         /\ i + 1 = EVQ_SIZE => Following(At(t, i)) = t
         /\ i + 1 < EVQ_SIZE => At(t, i + 1) = At(Following(t), i)
<1>1. EVQ_SIZE \in Nat /\ EVQ_SIZE > 1
  BY PanelAssumption
<1>2. At(t, i) \in 0 .. EVQ_SIZE - 1
  BY <1>1 DEF At
<1>3. /\ Following(At(t, i)) = IF At(t, i) + 1 = EVQ_SIZE THEN 0 ELSE At(t, i) + 1
      /\ Following(t) = IF t + 1 = EVQ_SIZE THEN 0 ELSE t + 1
  BY <1>2, FollowingIs
<1> QED BY <1>1, <1>2, <1>3 DEF At

LEMMA AtApart ==
  ASSUME NEW t \in 0 .. EVQ_SIZE - 1, NEW i \in 0 .. EVQ_SIZE - 1,
         NEW j \in 0 .. EVQ_SIZE - 1, i # j
  PROVE  At(t, i) # At(t, j) /\ At(t, i) \in 0 .. EVQ_SIZE - 1
BY PanelAssumption DEF At

(* An event is put behind the others, or the ring is full and it is lost. *)
LEMMA Pushed ==
  ASSUME NEW f \in Panels, NEW s, Holds(f, s), NEW kind \in EventKind,
         NEW widget \in Widgets \cup {NONE}, NEW g, g = ev_push(f, kind, widget)
  PROVE  /\ g \in Panels /\ Core(g) = Core(f)
         /\ \/ g.lost = TRUE /\ Holds(g, s)
            \/ /\ g.lost = f.lost
               /\ Holds(g, Append(s, [kind |-> kind, widget |-> widget]))
<1> DEFINE n == Len(s)  ev == [kind |-> kind, widget |-> widget]  t == Append(s, ev)
<1>1. /\ s \in Seq(Event) /\ n \in 0 .. EVQ_SIZE - 1 /\ EVQ_SIZE \in Nat
      /\ f.head = At(f.tail, n) /\ \A i \in 1 .. n : f.evq[At(f.tail, i - 1)] = s[i]
  BY PanelAssumption, LenProperties DEF Holds
<1>2. f.tail \in 0 .. EVQ_SIZE - 1 /\ f.head \in 0 .. EVQ_SIZE - 1
  BY DEF Panels
<1> HIDE DEF n
<1>3. /\ Following(f.head) \in 0 .. EVQ_SIZE - 1
      /\ n + 1 < EVQ_SIZE => Following(f.head) = At(f.tail, n + 1)
      /\ n + 1 = EVQ_SIZE => Following(f.head) = f.tail
      /\ n + 1 < EVQ_SIZE => Following(f.head) # f.tail
  <2>1. /\ Following(At(f.tail, n)) \in 0 .. EVQ_SIZE - 1
        /\ n + 1 < EVQ_SIZE => Following(At(f.tail, n)) = At(f.tail, n + 1)
        /\ n + 1 = EVQ_SIZE => Following(At(f.tail, n)) = f.tail
        /\ n + 1 < EVQ_SIZE => Following(At(f.tail, n)) # f.tail
    BY <1>1, <1>2, AtType
  <2> QED BY <1>1, <2>1
<1>4. CASE n + 1 = EVQ_SIZE
  <2>1. g = [f EXCEPT !.lost = TRUE]
    BY <1>3, <1>4 DEF ev_push
  <2>2. /\ g \in Panels /\ g.lost = TRUE /\ Core(g) = Core(f)
        /\ g.head = f.head /\ g.tail = f.tail /\ g.evq = f.evq
    BY <2>1 DEF Panels, Core
  <2> QED BY <2>2 DEF Holds
<1>5. CASE n + 1 # EVQ_SIZE
  <2>1. g = [f EXCEPT !.evq[f.head] = ev, !.head = Following(f.head)]
    BY <1>1, <1>3, <1>5 DEF ev_push
  <2>2. ev \in Event
    BY DEF Event
  <2>4. f.evq \in [0 .. EVQ_SIZE - 1 -> Event \cup {NONE}]
    BY DEF Panels
  <2> HIDE DEF ev
  <2>9. [f.evq EXCEPT ![f.head] = ev] \in [0 .. EVQ_SIZE - 1 -> Event \cup {NONE}]
    BY <2>2, <2>4
  <2>3. /\ g \in Panels /\ g.lost = f.lost /\ Core(g) = Core(f)
        /\ g.head = Following(f.head) /\ g.tail = f.tail
        /\ g.evq = [f.evq EXCEPT ![f.head] = ev]
    BY <1>3, <2>1, <2>9 DEF Panels, Core
  <2>5. /\ t \in Seq(Event) /\ Len(t) = n + 1 /\ t[n + 1] = ev
        /\ \A i \in 1 .. n : t[i] = s[i]
    BY <1>1, <2>2, AppendProperties DEF n
  <2> HIDE DEF ev, t
  <2>6. g.head = At(g.tail, n + 1) /\ n + 1 < EVQ_SIZE
    BY <1>1, <1>3, <1>5, <2>3
  <2>7. ASSUME NEW i \in 1 .. n + 1
        PROVE  g.evq[At(g.tail, i - 1)] = t[i]
    <3>1. CASE i = n + 1
      <4>1. At(g.tail, i - 1) = f.head /\ t[i] = ev
        BY <1>1, <2>3, <2>5, <3>1
      <4> QED BY <1>2, <2>3, <2>4, <4>1
    <3>2. CASE i # n + 1
      <4>1. i \in 1 .. n /\ i - 1 \in 0 .. EVQ_SIZE - 1 /\ i - 1 # n
        BY <1>1, <3>2
      <4>2. At(f.tail, i - 1) # f.head /\ At(f.tail, i - 1) \in 0 .. EVQ_SIZE - 1
        <5>1. n \in 0 .. EVQ_SIZE - 1
          BY <1>1
        <5>2. At(f.tail, i - 1) # At(f.tail, n) /\ At(f.tail, i - 1) \in 0 .. EVQ_SIZE - 1
          BY <1>2, <4>1, <5>1, AtApart
        <5> QED BY <1>1, <5>2
      <4>3. g.evq[At(f.tail, i - 1)] = f.evq[At(f.tail, i - 1)]
        BY <2>3, <2>4, <4>2
      <4> QED BY <1>1, <2>3, <2>5, <4>1, <4>3
    <3> QED BY <3>1, <3>2
  <2>8. Holds(g, t)
    BY <2>5, <2>6, <2>7 DEF Holds
  <2> QED BY <2>3, <2>8 DEF t, ev
<1> QED BY <1>4, <1>5

(* A ring that is not empty gives up the first of its events. *)
LEMMA TakenIs ==
  ASSUME NEW f \in Panels, NEW s, Holds(f, s), f.head # f.tail
  PROVE  /\ s \in Seq(Event) /\ s # << >> /\ f.evq[f.tail] = Head(s)
         /\ Taken(f) \in Panels /\ Core(Taken(f)) = Core(f) /\ Taken(f).lost = f.lost
         /\ Holds(Taken(f), Tail(s))
<1> DEFINE n == Len(s)  g == Taken(f)  t == Tail(s)
<1>1. /\ s \in Seq(Event) /\ n \in 0 .. EVQ_SIZE - 1 /\ EVQ_SIZE \in Nat
      /\ f.head = At(f.tail, n) /\ \A i \in 1 .. n : f.evq[At(f.tail, i - 1)] = s[i]
  BY PanelAssumption, LenProperties DEF Holds
<1>2. f.tail \in 0 .. EVQ_SIZE - 1 /\ At(f.tail, 0) = f.tail
  BY <1>1 DEF Panels, At
<1>3. n # 0
  BY <1>1, <1>2
<1>4. /\ s # << >> /\ Head(s) = s[1] /\ t \in Seq(Event) /\ Len(t) = n - 1
      /\ \A i \in 1 .. n - 1 : t[i] = s[i + 1]
  BY <1>1, <1>3, HeadTailProperties, EmptySeq
<1>5. f.evq[f.tail] = Head(s)
  <2>1. 1 \in 1 .. n /\ 1 - 1 = 0
    BY <1>1, <1>3
  <2>2. f.evq[At(f.tail, 1 - 1)] = s[1]
    BY <1>1, <2>1
  <2> QED BY <1>2, <1>4, <2>1, <2>2
<1>6. Following(f.tail) \in 0 .. EVQ_SIZE - 1
  BY <1>1, <1>2, FollowingIs
<1>7. /\ g \in Panels /\ Core(g) = Core(f) /\ g.lost = f.lost
      /\ g.head = f.head /\ g.tail = Following(f.tail)
      /\ g.evq = [f.evq EXCEPT ![f.tail] = NONE]
  BY <1>6 DEF Panels, Taken, Core
<1>8. f.evq \in [0 .. EVQ_SIZE - 1 -> Event \cup {NONE}]
  BY DEF Panels
<1> HIDE DEF n, g, t
<1>9. ASSUME NEW i \in 1 .. n
      PROVE  At(f.tail, i) = At(g.tail, i - 1)
  <2>1. i - 1 \in 0 .. EVQ_SIZE - 1 /\ (i - 1) + 1 < EVQ_SIZE /\ (i - 1) + 1 = i
    BY <1>1
  <2>2. At(f.tail, (i - 1) + 1) = At(Following(f.tail), i - 1)
    BY <1>2, <2>1, AtType
  <2> QED BY <1>7, <2>1, <2>2
<1>10. g.head = At(g.tail, n - 1)
  <2>1. n \in 1 .. n
    BY <1>1, <1>3
  <2> QED BY <1>1, <1>7, <1>9, <2>1
<1>11. ASSUME NEW i \in 1 .. n - 1
       PROVE  g.evq[At(g.tail, i - 1)] = t[i]
  <2>1. i \in 1 .. n /\ i + 1 \in 1 .. n /\ (i + 1) - 1 = i
    BY <1>1
  <2>2. At(g.tail, i - 1) = At(f.tail, i)
    BY <1>9, <2>1
  <2>3. f.evq[At(f.tail, i)] = s[i + 1]
    BY <1>1, <2>1
  <2>4. At(f.tail, i) # f.tail /\ At(f.tail, i) \in 0 .. EVQ_SIZE - 1
    <3>1. i \in 0 .. EVQ_SIZE - 1 /\ 0 \in 0 .. EVQ_SIZE - 1 /\ i # 0
      BY <1>1, <2>1
    <3>2. At(f.tail, i) # At(f.tail, 0) /\ At(f.tail, i) \in 0 .. EVQ_SIZE - 1
      BY <1>2, <3>1, AtApart
    <3> QED BY <1>2, <3>2
  <2>5. g.evq[At(f.tail, i)] = f.evq[At(f.tail, i)]
    BY <1>7, <1>8, <2>4
  <2> QED BY <1>4, <2>2, <2>3, <2>5
<1>12. Holds(g, t)
  BY <1>1, <1>4, <1>10, <1>11 DEF Holds
<1> QED BY <1>1, <1>4, <1>5, <1>7, <1>12 DEF g, t

-----------------------------------------------------------------------------
(* What a widget and an event do to the machine. *)
SameBeside(f, g) ==
  /\ g.capture = f.capture /\ g.running = f.running /\ g.lost = f.lost
  /\ g.evq = f.evq /\ g.head = f.head /\ g.tail = f.tail

Pressed(f, w, g) ==
  /\ g \in Panels /\ SameBeside(f, g) /\ g.mouse_widget = f.mouse_widget
  /\ g.kbd = IF w \in Keys THEN f.kbd \cup {w} ELSE f.kbd
  /\ g.owed = IF w \in Actuators THEN Toggle(f.owed, w) ELSE f.owed

LetGo(f, w, g) ==
  /\ g \in Panels /\ SameBeside(f, g) /\ g.mouse_widget = f.mouse_widget
  /\ g.kbd = f.kbd \ {w} /\ g.owed = f.owed

LEMMA KeyPressed ==
  ASSUME NEW f \in Panels, NEW w \in Widgets \cup {NONE},
         NEW g, g = key_action(f, w, TRUE)
  PROVE  Pressed(f, w, g)
<1> USE DEF Pressed
<1> DEFINE S == IF w \notin Switches THEN f.held \cup {w} ELSE f.held \ {w}
           h == [f EXCEPT !.held = S]
<1>1. NONE \notin Keys \cup Actuators /\ Keys \cap Actuators = {}
  BY PanelAssumption DEF Widgets, Actuators
<1>2. CASE w = NONE
  BY <1>1, <1>2 DEF key_action, SameBeside
<1>3. CASE w # NONE
  <2>1. w \in Keys \cup Actuators /\ S \subseteq Keys \cup Buttons
    BY <1>3 DEF Widgets, Actuators, Panels
  <2>2. h \in Panels /\ SameBeside(f, h) /\ h.mouse_widget = f.mouse_widget
        /\ h.kbd = f.kbd /\ h.owed = f.owed /\ h.latch = f.latch
    BY <2>1 DEF Panels, SameBeside
  <2>3. h = [f EXCEPT !.held = IF TRUE /\ w \notin Switches THEN @ \cup {w} ELSE @ \ {w}]
    OBVIOUS
  <2> HIDE DEF h, S
  <2>4. CASE w \in Keys
    <3>1. g = [h EXCEPT !.kbd = h.kbd \cup {w}]
      BY <1>3, <2>2, <2>3, <2>4 DEF key_action
    <3>2. /\ g \in Panels /\ SameBeside(f, g) /\ g.mouse_widget = f.mouse_widget
          /\ g.kbd = f.kbd \cup {w} /\ g.owed = f.owed
      <4>1. h.kbd \cup {w} \in SUBSET Keys /\ h \in Panels
        BY <2>2, <2>4 DEF Panels
      <4>2. g \in Panels
        BY <3>1, <4>1 DEF Panels
      <4>3. /\ SameBeside(h, g) /\ g.mouse_widget = h.mouse_widget
            /\ g.kbd = h.kbd \cup {w} /\ g.owed = h.owed
        BY <3>1, <4>1 DEF Panels, SameBeside
      <4> QED BY <2>2, <4>2, <4>3 DEF SameBeside
    <3> QED BY <1>1, <2>4, <3>2
  <2>5. CASE w \notin Keys
    <3> DEFINE L == IF w \in Switches THEN Toggle(h.latch, w) ELSE h.latch
    <3>1. g = [h EXCEPT !.owed = Toggle(h.owed, w), !.latch = L]
      BY <1>3, <2>2, <2>3, <2>5 DEF key_action
    <3>2. w \in Actuators
      BY <2>1, <2>5
    <3>3. L \subseteq Switches /\ Toggle(h.owed, w) \subseteq Actuators
      BY <2>2, <3>2 DEF Toggle, Panels
    <3> HIDE DEF L
    <3>4. /\ g \in Panels /\ SameBeside(f, g) /\ g.mouse_widget = f.mouse_widget
          /\ g.kbd = f.kbd /\ g.owed = Toggle(f.owed, w)
      BY <2>2, <3>1, <3>3 DEF Panels, SameBeside
    <3> QED BY <2>5, <3>2, <3>4
  <2> QED BY <2>4, <2>5
<1> QED BY <1>2, <1>3

LEMMA KeyReleased ==
  ASSUME NEW f \in Panels, NEW w \in Widgets \cup {NONE},
         NEW g, g = key_action(f, w, FALSE)
  PROVE  LetGo(f, w, g)
<1> USE DEF LetGo
<1> DEFINE h == [f EXCEPT !.held = f.held \ {w}]
<1>1. NONE \notin Keys /\ f.kbd \subseteq Keys
  BY PanelAssumption DEF Widgets, Panels
<1>2. CASE w = NONE
  <2>1. f.kbd \ {w} = f.kbd
    BY <1>1, <1>2
  <2> QED BY <1>2, <2>1 DEF key_action, SameBeside
<1>3. CASE w # NONE
  <2>1. h \in Panels /\ SameBeside(f, h) /\ h.mouse_widget = f.mouse_widget
        /\ h.kbd = f.kbd /\ h.owed = f.owed
    BY DEF Panels, SameBeside
  <2>2. h = [f EXCEPT !.held = IF FALSE /\ w \notin Switches THEN @ \cup {w} ELSE @ \ {w}]
    OBVIOUS
  <2> HIDE DEF h
  <2>3. CASE w \in Keys
    <3>1. g = [h EXCEPT !.kbd = h.kbd \ {w}]
      BY <1>3, <2>1, <2>2, <2>3 DEF key_action
    <3> QED BY <2>1, <3>1 DEF Panels, SameBeside
  <2>4. CASE w \notin Keys
    <3>1. g = h
      BY <1>3, <2>2, <2>4 DEF key_action
    <3>2. f.kbd \ {w} = f.kbd
      BY <1>1, <2>4
    <3> QED BY <2>1, <3>1, <3>2
  <2> QED BY <2>3, <2>4
<1> QED BY <1>2, <1>3

LEMMA HandledIs ==
  ASSUME NEW f \in Panels, NEW ev \in Event, NEW g, g = handle(f, ev)
  PROVE  /\ g \in Panels /\ Core(g) = Effect(Core(f), ev)
         /\ g.lost = f.lost /\ g.evq = f.evq /\ g.head = f.head /\ g.tail = f.tail
<1>1. ev.kind \in EventKind /\ ev.widget \in Widgets \cup {NONE}
  BY DEF Event
<1>2. f.mouse_widget \in Widgets \cup {NONE} /\ f.kbd \subseteq Keys /\ Keys \cap Switches = {}
  BY PanelAssumption DEF Panels, Actuators
<1>3. CASE ev.kind = "QUIT"
  <2>1. g = [f EXCEPT !.running = FALSE]
    BY <1>3 DEF handle
  <2> QED BY <1>3, <2>1 DEF Panels, Core, Effect
<1>4. CASE ev.kind = "KEYDOWN"
  <2> DEFINE w == ev.widget
  <2>1. g = key_action(f, w, TRUE) /\ w \in Widgets \cup {NONE}
    BY <1>1, <1>4 DEF handle, host_key
  <2> HIDE DEF w
  <2>2. Pressed(f, w, g)
    BY <2>1, KeyPressed
  <2> QED BY <1>4, <2>2 DEF Core, Effect, Pressed, SameBeside, w
<1>5. CASE ev.kind = "KEYUP"
  <2>1. CASE ev.widget \in Switches
    <3>1. g = f
      BY <1>5, <2>1 DEF handle, host_key
    <3>2. f.kbd \ {ev.widget} = f.kbd
      BY <1>2, <2>1
    <3> QED BY <1>5, <3>1, <3>2 DEF Core, Effect
  <2>2. CASE ev.widget \notin Switches
    <3> DEFINE h == key_action(f, ev.widget, FALSE)
    <3>1. g = h
      BY <1>5, <2>2 DEF handle, host_key
    <3>2. LetGo(f, ev.widget, h)
      BY <1>1, KeyReleased
    <3> HIDE DEF h
    <3> QED BY <1>5, <3>1, <3>2 DEF Core, Effect, LetGo, SameBeside
  <2> QED BY <2>1, <2>2
<1>6. CASE ev.kind = "MOUSEDOWN"
  <2> DEFINE w == ev.widget  h == [f EXCEPT !.mouse_widget = w]
  <2>1. g = key_action(h, w, TRUE) /\ w \in Widgets \cup {NONE}
    BY <1>1, <1>6 DEF handle
  <2>2. /\ h \in Panels /\ SameBeside(f, h) /\ h.kbd = f.kbd /\ h.owed = f.owed
        /\ h.mouse_widget = w
    BY <1>1 DEF Panels, SameBeside
  <2> HIDE DEF h, w
  <2>3. Pressed(h, w, g)
    BY <2>1, <2>2, KeyPressed
  <2> QED BY <1>6, <2>2, <2>3 DEF Core, Effect, Pressed, SameBeside, w
<1>7. CASE ev.kind = "MOUSEUP"
  <2> DEFINE h == key_action(f, f.mouse_widget, FALSE)
  <2>1. g = [h EXCEPT !.mouse_widget = NONE]
    BY <1>7 DEF handle
  <2>2. LetGo(f, f.mouse_widget, h)
    BY <1>2, KeyReleased
  <2> HIDE DEF h
  <2>3. /\ g \in Panels /\ SameBeside(h, g) /\ g.kbd = h.kbd /\ g.owed = h.owed
        /\ g.mouse_widget = NONE
    BY <2>1, <2>2 DEF Panels, LetGo, SameBeside
  <2> QED BY <1>7, <2>2, <2>3 DEF Core, Effect, LetGo, SameBeside
<1> QED BY <1>1, <1>3, <1>4, <1>5, <1>6, <1>7 DEF EventKind

(* A message becomes an event behind the others, unless it is none or lost. *)
LEMMA DispatchedIs ==
  ASSUME NEW f \in Panels, NEW s, Holds(f, s), NEW msg \in Message,
         NEW g, g = wndproc(f, msg), NEW c, NEW d, f.lost \/ Yields(c, s, d)
  PROVE  /\ g \in Panels /\ Core(g) = Core(f)
         /\ f.lost => g.lost
         /\ \E t : Holds(g, t) /\ (g.lost \/ Yields(c, t, Effect(d, msg)))
<1>1. /\ msg.widget \in Widgets \cup {NONE}
      /\ msg = [kind |-> msg.kind, widget |-> msg.widget]
  BY DEF Message
<1>2. s \in Seq(Message)
  BY EventsAreMessages DEF Holds
<1>3. CASE msg.kind \notin EventKind
  <2>1. g = f
    BY <1>3 DEF wndproc
  <2>2. ASSUME d \in Cores PROVE Effect(d, msg) = d
    BY <1>3, <2>2 DEF Effect, EventKind, Cores
  <2>3. f.lost \/ Yields(c, s, Effect(d, msg))
    BY <1>2, <2>2, YieldsType
  <2> QED BY <2>1, <2>3
<1>4. CASE msg.kind \in EventKind
  <2> DEFINE h == Captured(f, msg.kind)
  <2>1. g = ev_push(h, msg.kind, msg.widget)
    BY <1>4 DEF wndproc
  <2>2. /\ h \in Panels /\ Core(h) = Core(f) /\ h.lost = f.lost
        /\ h.evq = f.evq /\ h.head = f.head /\ h.tail = f.tail
    BY DEF Captured, Panels, Core
  <2> HIDE DEF h
  <2>3. Holds(h, s)
    BY <2>2 DEF Holds
  <2>4. /\ g \in Panels /\ Core(g) = Core(h)
        /\ \/ g.lost = TRUE /\ Holds(g, s)
           \/ /\ g.lost = h.lost
              /\ Holds(g, Append(s, [kind |-> msg.kind, widget |-> msg.widget]))
    BY <1>1, <1>4, <2>1, <2>2, <2>3, Pushed
  <2>5. CASE g.lost = TRUE /\ Holds(g, s)
    BY <2>2, <2>4, <2>5
  <2>6. CASE /\ g.lost = h.lost
             /\ Holds(g, Append(s, [kind |-> msg.kind, widget |-> msg.widget]))
    <3>1. f.lost \/ Yields(c, Append(s, msg), Effect(d, msg))
      BY <1>2, YieldsThen
    <3>2. Holds(g, Append(s, msg))
      BY <1>1, <2>6
    <3> QED BY <2>2, <2>4, <2>6, <3>1, <3>2
  <2> QED BY <2>4, <2>5, <2>6
<1> QED BY <1>3, <1>4

LEMMA WndprocType ==
  ASSUME NEW f \in Panels, NEW msg \in Message
  PROVE  wndproc(f, msg) \in Panels
<1> DEFINE h == Captured(f, msg.kind)
           ev == [kind |-> msg.kind, widget |-> msg.widget]
<1>1. h \in Panels
  BY DEF Captured, Panels
<1>2. CASE msg.kind \notin EventKind
  BY <1>2 DEF wndproc
<1>3. CASE msg.kind \in EventKind
  <2>1. ev \in Event
    BY <1>3 DEF Message, Event
  <2>2. wndproc(f, msg) = ev_push(h, msg.kind, msg.widget)
    BY <1>3 DEF wndproc
  <2> HIDE DEF h, ev
  <2>3. CASE Following(h.head) = h.tail
    <3>1. wndproc(f, msg) = [h EXCEPT !.lost = TRUE]
      BY <2>2, <2>3 DEF ev_push
    <3> QED BY <1>1, <3>1 DEF Panels
  <2>4. CASE Following(h.head) # h.tail
    <3>1. wndproc(f, msg) = [h EXCEPT !.evq[h.head] = ev, !.head = Following(h.head)]
      BY <2>2, <2>4 DEF ev_push, ev
    <3>2. h.head \in 0 .. EVQ_SIZE - 1 /\ h.evq \in [0 .. EVQ_SIZE - 1 -> Event \cup {NONE}]
      BY <1>1 DEF Panels
    <3>3. Following(h.head) \in 0 .. EVQ_SIZE - 1
      BY <3>2, FollowingIs, PanelAssumption
    <3>4. [h.evq EXCEPT ![h.head] = ev] \in [0 .. EVQ_SIZE - 1 -> Event \cup {NONE}]
      BY <2>1, <3>2
    <3> QED BY <1>1, <3>1, <3>3, <3>4 DEF Panels
  <2> QED BY <2>3, <2>4
<1> QED BY <1>2, <1>3

-----------------------------------------------------------------------------
(* Induction, and functions defined by recursion. *)
LEMMA Least ==
  ASSUME NEW W, W \subseteq Nat, W # {}
  PROVE  \E k \in W : \A j \in W : k <= j
<1>1. IsWellFoundedOn(OpToRel(<, Nat), Nat)
  BY NatLessThanWellFounded
<1>2. PICK k \in W : \A j \in W : ~ (<<j, k>> \in OpToRel(<, Nat))
  BY <1>1, WFMin
<1>3. \A j \in W : ~(j < k)
  BY <1>2 DEF OpToRel
<1> QED BY <1>3

LEMMA Upwards ==
  ASSUME NEW c \in Nat, NEW W, 0 \in W, \A n \in 1 .. c : n - 1 \in W => n \in W
  PROVE  \A n \in 0 .. c : n \in W
<1> DEFINE Bad == {n \in 0 .. c : n \notin W}
<1>1. SUFFICES ASSUME Bad # {} PROVE FALSE
  OBVIOUS
<1>2. PICK k \in Bad : \A j \in Bad : k <= j
  <2>1. Bad \subseteq Nat
    OBVIOUS
  <2> QED BY <1>1, <2>1, Least
<1>3. k \in 1 .. c /\ k - 1 \in 0 .. c /\ ~(k <= k - 1)
  BY <1>2
<1>4. k - 1 \in W
  BY <1>2, <1>3
<1> QED BY <1>2, <1>3, <1>4

(* The panel after each message, by its recursion. *)
IsRun(done, f, msgs) ==
  done = [n \in 0 .. Len(msgs) |-> IF n = 0 THEN f ELSE wndproc(done[n - 1], msgs[n])]

LEMMA DispatchedRun ==
  ASSUME NEW f \in Panels, NEW msgs \in Seq(Message)
  PROVE  /\ Dispatched(f, msgs)[0] = f
         /\ \A i \in 1 .. Len(msgs) :
              Dispatched(f, msgs)[i] = wndproc(Dispatched(f, msgs)[i - 1], msgs[i])
<1> DEFINE c == Len(msgs)
           Runs(r, k) == /\ r \in [0 .. k -> Panels]
                         /\ r = [n \in 0 .. k |-> IF n = 0 THEN f ELSE wndproc(r[n - 1], msgs[n])]
           W == {k \in 0 .. c : \E r : Runs(r, k)}
<1>1. c \in Nat /\ \A i \in 1 .. c : msgs[i] \in Message
  BY LenProperties, ElementOfSeq
<1> HIDE DEF c
<1>2. 0 \in W
  <2> DEFINE r == [n \in 0 .. 0 |-> f]
  <2>1. /\ r \in [0 .. 0 -> Panels]
        /\ r = [n \in 0 .. 0 |-> IF n = 0 THEN f ELSE wndproc(r[n - 1], msgs[n])]
    OBVIOUS
  <2>2. Runs(r, 0) /\ 0 \in 0 .. c
    BY <1>1, <2>1
  <2> QED BY <2>2
<1>3. ASSUME NEW k \in 1 .. c, k - 1 \in W
      PROVE  k \in W
  <2>1. PICK r : Runs(r, k - 1)
    BY <1>3
  <2> DEFINE g == [n \in 0 .. k |-> IF n = 0 THEN f ELSE wndproc(r[n - 1], msgs[n])]
  <2>2. \A n \in 0 .. k : n # 0 => n - 1 \in 0 .. k - 1 /\ n \in 1 .. c
    BY <1>1
  <2>3. \A n \in 0 .. k - 1 : g[n] = r[n]
    BY <1>1, <2>1
  <2>4. \A n \in 1 .. k : wndproc(r[n - 1], msgs[n]) \in Panels
    BY <1>1, <2>1, <2>2, WndprocType
  <2>5. g \in [0 .. k -> Panels]
    BY <2>2, <2>4
  <2>6. g = [n \in 0 .. k |-> IF n = 0 THEN f ELSE wndproc(g[n - 1], msgs[n])]
    BY <2>2, <2>3
  <2> HIDE DEF g
  <2>7. Runs(g, k)
    BY <2>5, <2>6
  <2>8. k \in 0 .. c
    BY <1>1
  <2> QED BY <2>7, <2>8
<1> HIDE DEF W
<1>4. \A n \in 1 .. c : n - 1 \in W => n \in W
  BY <1>3
<1>5. c \in W
  <2>1. \A n \in 0 .. c : n \in W
    BY <1>1, <1>2, <1>4, Upwards
  <2> QED BY <1>1, <2>1
<1>6. \E r : IsRun(r, f, msgs)
  BY <1>5 DEF W, IsRun, c
<1> DEFINE done == Dispatched(f, msgs)
<1>7. done = CHOOSE r : IsRun(r, f, msgs)
  BY DEF Dispatched, IsRun
<1> HIDE DEF done
<1>8. IsRun(done, f, msgs)
  BY <1>6, <1>7
<1>9. done[0] = f /\ \A i \in 1 .. c : done[i] = wndproc(done[i - 1], msgs[i])
  BY <1>1, <1>8 DEF IsRun, c
<1> QED BY <1>9 DEF done, c

(* Dispatching the messages leaves what the events of the ring come to. *)
LEMMA PumpedIs ==
  ASSUME NEW f \in Panels, NEW msgs \in Seq(Message), NEW s, Holds(f, s), NEW d, NEW e,
         f.lost \/ (Yields(Core(f), s, d) /\ Yields(d, msgs, e)),
         NEW g, g = Dispatched(f, msgs)[Len(msgs)]
  PROVE  /\ g \in Panels /\ Core(g) = Core(f)
         /\ f.lost => g.lost
         /\ \E t : Holds(g, t) /\ (g.lost \/ Yields(Core(f), t, e))
<1> DEFINE n == Len(msgs)  done == Dispatched(f, msgs)
<1>1. PICK q : f.lost \/ (IsChain(q, msgs) /\ q[0] = d /\ q[n] = e)
  BY DEF Yields
<1>2. /\ n \in Nat /\ \A i \in 1 .. n : msgs[i] \in Message
      /\ done[0] = f /\ \A i \in 1 .. n : done[i] = wndproc(done[i - 1], msgs[i])
  BY LenProperties, ElementOfSeq, DispatchedRun
<1>3. \A i \in 1 .. n : f.lost \/ q[i] = Effect(q[i - 1], msgs[i])
  BY <1>1 DEF IsChain
<1> DEFINE Good(i) == /\ done[i] \in Panels /\ Core(done[i]) = Core(f)
                      /\ f.lost => done[i].lost
                      /\ \E t : Holds(done[i], t) /\ (done[i].lost \/ Yields(Core(f), t, q[i]))
           W == {i \in 0 .. n : Good(i)}
<1> HIDE DEF done, n
<1>4. 0 \in W
  <2>1. f.lost \/ Yields(Core(f), s, q[0])
    BY <1>1
  <2>2. Good(0)
    BY <1>2, <2>1
  <2> QED BY <1>2, <2>2
<1>5. ASSUME NEW i \in 1 .. n, i - 1 \in W
      PROVE  i \in W
  <2>1. Good(i - 1)
    BY <1>5
  <2>2. PICK t : Holds(done[i - 1], t) /\ (done[i - 1].lost \/ Yields(Core(f), t, q[i - 1]))
    BY <2>1
  <2>3. /\ done[i] \in Panels /\ Core(done[i]) = Core(done[i - 1])
        /\ done[i - 1].lost => done[i].lost
        /\ \E u : Holds(done[i], u)
                  /\ (done[i].lost \/ Yields(Core(f), u, Effect(q[i - 1], msgs[i])))
    <3> DEFINE p == done[i - 1]  h == done[i]  msg == msgs[i]  c == Core(f)  y == q[i - 1]
    <3>1. p \in Panels /\ h = wndproc(p, msg) /\ msg \in Message
      BY <1>2, <2>1
    <3>2. Holds(p, t) /\ (p.lost \/ Yields(c, t, y))
      BY <2>2
    <3> HIDE DEF p, h, msg, c, y
    <3>3. /\ h \in Panels /\ Core(h) = Core(p)
          /\ p.lost => h.lost
          /\ \E u : Holds(h, u) /\ (h.lost \/ Yields(c, u, Effect(y, msg)))
      BY <3>1, <3>2, DispatchedIs
    <3> QED BY <3>3 DEF p, h, msg, c, y
  <2>4. PICK u : /\ Holds(done[i], u)
                 /\ done[i].lost \/ Yields(Core(f), u, Effect(q[i - 1], msgs[i]))
    BY <2>3
  <2>5. done[i].lost \/ Yields(Core(f), u, q[i])
    BY <1>3, <2>1, <2>3, <2>4
  <2>6. Good(i)
    BY <2>1, <2>3, <2>4, <2>5
  <2> QED BY <2>6
<1> HIDE DEF W
<1>6. \A i \in 1 .. n : i - 1 \in W => i \in W
  BY <1>5
<1>7. \A i \in 0 .. n : i \in W
  BY <1>2, <1>4, <1>6, Upwards
<1>8. n \in W
  BY <1>2, <1>7
<1>9. Good(n)
  BY <1>8 DEF W
<1>10. g = done[n]
  BY DEF done, n
<1> QED BY <1>1, <1>9, <1>10

-----------------------------------------------------------------------------
(* The invariant. *)
Rest ==
  /\ pressed \subseteq HostKeys /\ pointer \in Widgets \cup {NONE, "up"}
  /\ alt \in BOOLEAN /\ heard \subseteq pressed /\ left \subseteq Keys
  /\ focus \in BOOLEAN /\ messages \in Seq(Message)
  /\ pc \in {"poll", "slice", "modal", "exit"}

LEMMA TypeIs == TypeOK <=> Now \in Panels /\ Rest
BY DEF TypeOK, Now, Panels, Rest

LEMMA TypeThen == TypeOK' <=> (Now' \in Panels /\ Rest')
BY DEF TypeOK, Now, Panels, Rest

LEMMA NowFields ==
  /\ Now.kbd = kbd /\ Now.owed = owed /\ Now.mouse_widget = mouse_widget
  /\ Now.lost = lost /\ Now.evq = g_evq /\ Now.head = g_ev_head /\ Now.tail = g_ev_tail
  /\ Core(Now) = [kbd |-> kbd, mouse |-> mouse_widget, owed |-> owed]
BY DEF Now, Core

LEMMA NowThen ==
  ASSUME NEW g \in Panels, Becomes(g)
  PROVE  Now' = g /\ lost' = g.lost
BY DEF Panels, Becomes, Now

LEMMA CoreType ==
  ASSUME NEW f \in Panels
  PROVE  Core(f) \in Cores
BY DEF Panels, Core, Cores

(* A step reaches the invariant as soon as the promise holds after it. *)
LEMMA InvThen ==
  ASSUME NEW f \in Panels, Now' = f, Rest', NEW s, Holds(f, s),
         ~f.lost => \E d, e : /\ Yields(Core(f), s, d)
                              /\ Yields(d, messages', e) /\ Settled(e)'
  PROVE  PanelInv'
<1>1. TypeOK' /\ f.lost = lost'
  BY TypeThen DEF Now
<1> QED BY <1>1 DEF PanelInv, Promised

(* A step of the fingers that the window does not see. *)
LEMMA Unseen ==
  ASSUME PanelInv, UNCHANGED <<messages, owed>>,
         UNCHANGED <<g_evq, g_ev_head, g_ev_tail, mouse_widget, held, kbd, latch, running>>,
         capture' \in BOOLEAN, lost' \in BOOLEAN, lost => lost', Rest',
         \A e \in Cores : Settled(e) /\ ~lost' => Settled(e)'
  PROVE  PanelInv'
<1> DEFINE f == Now
           g == [capture |-> capture', evq |-> g_evq, head |-> g_ev_head,
                 tail |-> g_ev_tail, mouse_widget |-> mouse_widget, held |-> held,
                 kbd |-> kbd, latch |-> latch, running |-> running, owed |-> owed,
                 lost |-> lost']
<1>1. f \in Panels /\ f.lost = lost /\ messages \in Seq(Message)
  BY TypeIs, NowFields DEF PanelInv, Rest
<1>2. Now' = g
  BY DEF Now
<1>3. PICK s : Holds(f, s) /\ (~lost => Promised(s))
  BY DEF PanelInv
<1>4. /\ g \in Panels /\ Core(g) = Core(f) /\ g.lost = lost'
      /\ g.evq = f.evq /\ g.head = f.head /\ g.tail = f.tail
  BY <1>1, NowFields DEF Panels, Core, Now
<1> HIDE DEF f
<1> HIDE DEF g
<1>5. Holds(g, s)
  BY <1>3, <1>4 DEF Holds
<1>6. ASSUME ~g.lost
      PROVE  \E d, e : /\ Yields(Core(g), s, d)
                       /\ Yields(d, messages', e) /\ Settled(e)'
  <2>1. ~lost /\ ~lost'
    BY <1>4, <1>6
  <2>2. PICK d, e : Yields(Core(f), s, d) /\ Yields(d, messages, e) /\ Settled(e)
    BY <1>3, <2>1 DEF Promised, f
  <2>3. Settled(e)'
    BY <1>1, <2>1, <2>2, YieldsType
  <2> QED BY <1>4, <2>2, <2>3
<1> QED BY <1>2, <1>4, <1>5, <1>6, InvThen

(* A step of the fingers that posts a message, and may make a call owed. *)
LEMMA Posted ==
  ASSUME PanelInv, NEW msg \in Message, NEW w, messages' = Append(messages, msg),
         owed' = Owe(w), UNCHANGED <<lost, loop>>, Rest',
         \A e \in Cores : Settled(e) => Settled(Effect(Owing(e, w), msg))'
  PROVE  PanelInv'
<1> DEFINE f == Now  g == [Now EXCEPT !.owed = Owe(w)]
<1>1. f \in Panels /\ f.lost = lost /\ f.owed = owed /\ messages \in Seq(Message)
  BY TypeIs, NowFields DEF PanelInv, Rest
<1>2. Now' = g
  BY DEF Now, loop
<1>3. PICK s : Holds(f, s) /\ (~lost => Promised(s))
  BY DEF PanelInv
<1>4. Owe(w) = IF w \in Actuators THEN Toggle(f.owed, w) ELSE f.owed
  BY <1>1 DEF Owe
<1> HIDE DEF f
<1>5. Owe(w) \in SUBSET Actuators
  BY <1>1, <1>4 DEF Panels, Toggle
<1>6. /\ g \in Panels /\ Core(g) = Owing(Core(f), w) /\ g.lost = f.lost
      /\ g.evq = f.evq /\ g.head = f.head /\ g.tail = f.tail
  BY <1>1, <1>4, <1>5 DEF Panels, Core, Owing, f
<1> HIDE DEF g
<1>7. Holds(g, s)
  BY <1>3, <1>6 DEF Holds
<1>8. ASSUME ~g.lost
      PROVE  \E d, e : /\ Yields(Core(g), s, d)
                       /\ Yields(d, messages', e) /\ Settled(e)'
  <2>1. ~lost
    BY <1>1, <1>6, <1>8
  <2>2. PICK d, e : Yields(Core(f), s, d) /\ Yields(d, messages, e) /\ Settled(e)
    BY <1>3, <2>1 DEF Promised, f
  <2>3. s \in Seq(Message)
    BY <1>3, EventsAreMessages DEF Holds
  <2>4. e \in Cores
    BY <1>1, <2>2, YieldsType
  <2>5. Yields(Core(g), s, Owing(d, w))
    BY <1>6, <2>2, <2>3, YieldsOwing
  <2>6. Yields(Owing(d, w), messages, Owing(e, w))
    BY <1>1, <2>2, YieldsOwing
  <2>7. Yields(Owing(d, w), messages', Effect(Owing(e, w), msg))
    BY <1>1, <2>6, YieldsThen
  <2>8. Settled(Effect(Owing(e, w), msg))'
    BY <2>2, <2>4
  <2> QED BY <2>5, <2>7, <2>8
<1> QED BY <1>2, <1>6, <1>7, <1>8, InvThen

(* With no actuator, nothing more is owed. *)
LEMMA OwingNone ==
  /\ Owe(NONE) = owed
  /\ \A c \in Cores : Owing(c, NONE) = c
<1>1. NONE \notin Actuators
  BY PanelAssumption DEF Widgets, Actuators
<1> QED BY <1>1 DEF Owe, Owing, Cores

LEMMA RestNow ==
  ASSUME PanelInv
  PROVE  Rest /\ capture \in BOOLEAN /\ lost \in BOOLEAN
BY DEF PanelInv, TypeOK, Rest

LEMMA LegendType ==
  ASSUME NEW k \in HostKeys
  PROVE  Legend[k] \in Widgets /\ Legend[k] # NONE
BY PanelAssumption

(* A toggle that is undone. *)
LEMMA ToggleTwice ==
  ASSUME NEW S, NEW x
  PROVE  Toggle(Toggle(S, x), x) = S
BY DEF Toggle

LEMMA RestPosted ==
  ASSUME Rest, NEW msg \in Message, messages' = Append(messages, msg),
         pressed' \subseteq HostKeys, pointer' \in Widgets \cup {NONE, "up"},
         heard' \subseteq pressed', left' \subseteq Keys,
         focus' \in BOOLEAN, UNCHANGED <<alt, pc>>
  PROVE  Rest'
<1>1. messages' \in Seq(Message)
  BY AppendProperties DEF Rest
<1> QED BY <1>1 DEF Rest

LEMMA AltKeeps ==
  ASSUME PanelInv, AltDown \/ AltUp
  PROVE  PanelInv'
<1>1. /\ UNCHANGED <<pressed, pointer, focus, heard, left, messages, owed, lost, loop>>
      /\ alt' \in BOOLEAN
  BY DEF AltDown, AltUp
<1>2. Rest /\ capture \in BOOLEAN /\ lost \in BOOLEAN
  BY RestNow
<1>3. UNCHANGED <<capture, g_evq, g_ev_head, g_ev_tail, mouse_widget, held, kbd, latch, pc,
                  running>>
  BY <1>1 DEF loop
<1>4. Rest'
  BY <1>1, <1>2, <1>3 DEF Rest
<1>5. \A e \in Cores : Settled(e) /\ ~lost' => Settled(e)'
  BY <1>1 DEF Settled, Wanted
<1>6. capture' \in BOOLEAN /\ lost' \in BOOLEAN /\ (lost => lost')
  BY <1>1, <1>2, <1>3
<1> QED BY <1>1, <1>3, <1>4, <1>5, <1>6, Unseen

LEMMA KeyDownKeeps ==
  ASSUME PanelInv, NEW k \in HostKeys, KeyDown(k)
  PROVE  PanelInv'
<1>1. Rest /\ capture \in BOOLEAN /\ lost \in BOOLEAN
  BY RestNow
<1>2. /\ pressed' = pressed \cup {k} /\ k \notin pressed
      /\ UNCHANGED <<alt, pointer, focus, left, lost, loop>>
  BY DEF KeyDown
<1>3. CASE UNCHANGED <<messages, heard, owed>>
  <2>1. UNCHANGED <<capture, g_evq, g_ev_head, g_ev_tail, mouse_widget, held, kbd, latch, pc,
                    running>>
    BY <1>2 DEF loop
  <2>2. Rest'
    BY <1>1, <1>2, <1>3, <2>1 DEF Rest
  <2>3. \A e \in Cores : Settled(e) /\ ~lost' => Settled(e)'
    BY <1>2, <1>3 DEF Settled, Wanted
  <2>4. capture' \in BOOLEAN /\ lost' \in BOOLEAN /\ (lost => lost')
    BY <1>1, <1>2, <2>1
  <2> QED BY <1>3, <2>1, <2>2, <2>3, <2>4, Unseen
<1> DEFINE w == Legend[k]
<1>5. PICK msg, a : /\ msg = [kind |-> IF Sys(k) THEN "SYSKEYDOWN" ELSE "KEYDOWN", widget |-> w]
                    /\ a = IF alt THEN NONE ELSE w
  OBVIOUS
<1>4. CASE /\ messages' = Append(messages, msg)
           /\ heard' = IF Sys(k) THEN heard ELSE heard \cup {k}
           /\ owed' = IF alt THEN owed ELSE Owe(w)
  <2>1. w \in Widgets /\ msg \in Message
    BY <1>5, LegendType DEF Message, EventKind
  <2>2. Rest'
    <3>1. UNCHANGED <<alt, pc>>
      BY <1>2 DEF loop
    <3>2. /\ pressed' \subseteq HostKeys /\ pointer' \in Widgets \cup {NONE, "up"}
          /\ focus' \in BOOLEAN /\ heard' \subseteq pressed' /\ left' \subseteq Keys
      BY <1>1, <1>2, <1>4 DEF Rest
    <3> QED BY <1>1, <1>4, <2>1, <3>1, <3>2, RestPosted
  <2>3. owed' = Owe(a)
    BY <1>4, <1>5, OwingNone
  <2>4. ASSUME NEW e \in Cores, Settled(e)
        PROVE  Settled(Effect(Owing(e, a), msg))'
    <3> DEFINE x == Effect(Owing(e, a), msg)
    <3>1. \A v : Wanted(v) => Wanted(v)'
      BY <1>2, <1>4 DEF Wanted
    <3>2. CASE Sys(k)
      <4>1. /\ x.kbd = e.kbd /\ x.mouse = e.mouse
            /\ x.owed \subseteq e.owed \cup {Legend[j] : j \in SystemKeys}
        <5>1. CASE alt
          <6>1. Owing(e, a) = e
            BY <1>5, <5>1, OwingNone
          <6> QED BY <1>5, <3>2, <6>1 DEF Effect
        <5>2. CASE ~alt
          BY <1>5, <3>2, <5>2 DEF Effect, Owing, Toggle, Sys
        <5> QED BY <5>1, <5>2
      <4>2. \A v \in x.kbd : Wanted(v)'
        BY <2>4, <3>1, <4>1 DEF Settled
      <4>3. x.owed \subseteq {Legend[j] : j \in SystemKeys}
        BY <2>4, <4>1 DEF Settled
      <4>4. x.mouse = IF pointer' = "up" THEN NONE ELSE pointer'
        BY <1>2, <2>4, <4>1 DEF Settled
      <4> HIDE DEF x
      <4>5. Settled(x)'
        BY <4>2, <4>3, <4>4 DEF Settled
      <4> QED BY <4>5 DEF x
    <3>3. CASE ~Sys(k)
      <4>1. a = w /\ heard' = heard \cup {k}
        BY <1>4, <1>5, <3>3 DEF Sys
      <4>2. /\ x.kbd \subseteq e.kbd \cup {w} /\ x.mouse = e.mouse
            /\ x.owed = e.owed
        BY <1>5, <3>3, <4>1, ToggleTwice DEF Effect, Owing
      <4>3. \A v \in x.kbd : Wanted(v)'
        <5>1. Wanted(w)'
          BY <4>1 DEF Wanted
        <5> QED BY <2>4, <3>1, <4>2, <5>1 DEF Settled
      <4>4. x.owed \subseteq {Legend[j] : j \in SystemKeys}
        BY <2>4, <4>2 DEF Settled
      <4>5. x.mouse = IF pointer' = "up" THEN NONE ELSE pointer'
        BY <1>2, <2>4, <4>2 DEF Settled
      <4> HIDE DEF x
      <4>6. Settled(x)'
        BY <4>3, <4>4, <4>5 DEF Settled
      <4> QED BY <4>6 DEF x
    <3> QED BY <3>2, <3>3
  <2> HIDE DEF w
  <2> QED BY <1>2, <1>4, <2>1, <2>2, <2>3, <2>4, Posted
<1> QED BY <1>3, <1>4, <1>5 DEF KeyDown, Post

LEMMA KeyRepeatKeeps ==
  ASSUME PanelInv, NEW k \in HostKeys, KeyRepeat(k)
  PROVE  PanelInv'
<1>0. PICK msg : msg = [kind |-> IF Sys(k) THEN "SYSKEYDOWN" ELSE "REPEAT",
                        widget |-> Legend[k]]
  OBVIOUS
<1>1. Rest /\ UNCHANGED <<pressed, alt, pointer, focus, heard, left, owed, lost, loop>>
  BY RestNow DEF KeyRepeat, fingers
<1>2. messages' = Append(messages, msg)
  BY <1>0 DEF KeyRepeat, Post
<1>3. msg \in Message
  BY <1>0, LegendType DEF Message
<1>4. ASSUME NEW e \in Cores PROVE Effect(e, msg) = e
  BY <1>0 DEF Effect, Cores
<1>5. Rest'
  <2>1. UNCHANGED <<alt, pc>>
    BY <1>1 DEF loop
  <2> QED BY <1>1, <1>2, <1>3, <2>1, RestPosted DEF Rest
<1>6. ASSUME NEW e \in Cores, Settled(e)
      PROVE  Settled(Effect(Owing(e, NONE), msg))'
  <2>1. Settled(e)'
    BY <1>1, <1>6 DEF Settled, Wanted
  <2> QED BY <1>4, <2>1, OwingNone
<1>7. owed' = Owe(NONE)
  BY <1>1, OwingNone
<1> QED BY <1>1, <1>2, <1>3, <1>5, <1>6, <1>7, Posted

LEMMA KeyUpKeeps ==
  ASSUME PanelInv, NEW k \in HostKeys, KeyUp(k)
  PROVE  PanelInv'
<1>1. Rest /\ capture \in BOOLEAN /\ lost \in BOOLEAN
  BY RestNow
<1>2. /\ pressed' = pressed \ {k} /\ k \in pressed /\ heard' = heard \ {k}
      /\ UNCHANGED <<alt, pointer, focus, owed, loop>>
  BY DEF KeyUp
<1>3. CASE lost' = TRUE /\ UNCHANGED <<messages, left>>
  <2>1. UNCHANGED <<capture, g_evq, g_ev_head, g_ev_tail, mouse_widget, held, kbd, latch, pc,
                    running>>
    BY <1>2 DEF loop
  <2>2. Rest'
    BY <1>1, <1>2, <1>3, <2>1 DEF Rest
  <2>3. capture' \in BOOLEAN /\ lost' \in BOOLEAN /\ (lost => lost')
    BY <1>1, <1>3, <2>1
  <2>4. \A e \in Cores : Settled(e) /\ ~lost' => Settled(e)'
    BY <1>3
  <2> QED BY <1>2, <1>3, <2>1, <2>2, <2>3, <2>4, Unseen
<1> DEFINE w == Legend[k]
<1>5. PICK msg : msg = [kind |-> IF Sys(k) THEN "SYSKEYUP" ELSE "KEYUP", widget |-> w]
  OBVIOUS
<1>4. CASE /\ messages' = Append(messages, msg) /\ UNCHANGED lost
           /\ left' = IF ~Sys(k) THEN left \ {w}
                      ELSE IF k \in heard THEN left \cup ({w} \cap Keys) ELSE left
  <2>1. w \in Widgets /\ msg \in Message
    BY <1>5, LegendType DEF Message, EventKind
  <2>2. Rest'
    <3>1. UNCHANGED <<alt, pc>>
      BY <1>2 DEF loop
    <3>2. /\ pressed' \subseteq HostKeys /\ pointer' \in Widgets \cup {NONE, "up"}
          /\ focus' \in BOOLEAN /\ heard' \subseteq pressed' /\ left' \subseteq Keys
      BY <1>1, <1>2, <1>4 DEF Rest
    <3> QED BY <1>1, <1>4, <2>1, <3>1, <3>2, RestPosted
  <2>3. ASSUME NEW e \in Cores, Settled(e)
        PROVE  Settled(Effect(Owing(e, NONE), msg))'
    <3> DEFINE x == Effect(e, msg)
    <3>1. /\ x.mouse = e.mouse /\ x.owed = e.owed
          /\ x.kbd = IF Sys(k) THEN e.kbd ELSE e.kbd \ {w}
      BY <1>5 DEF Effect
    <3> HIDE DEF x
    <3>2. ASSUME NEW v \in x.kbd PROVE Wanted(v)'
      <4>1. v \in Keys /\ Wanted(v) /\ (Sys(k) \/ v # w)
        BY <2>3, <3>1, <3>2 DEF Settled, Cores
      <4>2. CASE Sys(k)
        <5>1. left' = IF k \in heard THEN left \cup ({w} \cap Keys) ELSE left
          BY <1>4, <4>2
        <5> QED BY <1>2, <4>1, <5>1 DEF Wanted
      <4>3. CASE ~Sys(k)
        <5>1. left' = left \ {w} /\ v # w
          BY <1>4, <4>1, <4>3
        <5> QED BY <1>2, <4>1, <5>1 DEF Wanted
      <4> QED BY <4>2, <4>3
    <3>3. x.owed \subseteq {Legend[j] : j \in SystemKeys}
      BY <2>3, <3>1 DEF Settled
    <3>4. x.mouse = IF pointer' = "up" THEN NONE ELSE pointer'
      BY <1>2, <2>3, <3>1 DEF Settled
    <3>5. Settled(x)'
      BY <3>2, <3>3, <3>4 DEF Settled
    <3> QED BY <3>5, OwingNone DEF x
  <2>4. owed' = Owe(NONE)
    BY <1>2, OwingNone
  <2> HIDE DEF w
  <2> QED BY <1>2, <1>4, <2>1, <2>2, <2>3, <2>4, Posted
<1> QED BY <1>3, <1>4, <1>5 DEF KeyUp, Post

LEMMA MouseDownKeeps ==
  ASSUME PanelInv, NEW w \in Widgets \cup {NONE}, MouseDown(w)
  PROVE  PanelInv'
<1> DEFINE msg == [kind |-> "MOUSEDOWN", widget |-> w]
<1>1. /\ Rest /\ pointer = "up" /\ pointer' = w /\ focus' = TRUE
      /\ messages' = Append(messages, msg) /\ owed' = Owe(w)
      /\ UNCHANGED <<pressed, alt, heard, left, lost, loop>>
  BY RestNow DEF MouseDown, Post
<1>2. msg \in Message
  BY DEF Message, EventKind
<1>3. NONE # "up" /\ w # "up" /\ NONE \notin Actuators
  BY PanelAssumption DEF Widgets, Actuators
<1>4. Rest'
  <2>1. UNCHANGED <<alt, pc>>
    BY <1>1 DEF loop
  <2>2. /\ pressed' \subseteq HostKeys /\ pointer' \in Widgets \cup {NONE, "up"}
        /\ focus' \in BOOLEAN /\ heard' \subseteq pressed' /\ left' \subseteq Keys
    BY <1>1 DEF Rest
  <2> HIDE DEF msg
  <2> QED BY <1>1, <1>2, <2>1, <2>2, RestPosted
<1>5. ASSUME NEW e \in Cores, Settled(e)
      PROVE  Settled(Effect(Owing(e, w), msg))'
  <2> DEFINE x == Effect(Owing(e, w), msg)
  <2>1. /\ x.kbd \subseteq e.kbd \cup {w} /\ x.mouse = w /\ x.owed = e.owed
    BY ToggleTwice DEF Effect, Owing
  <2> HIDE DEF x
  <2>2. ASSUME NEW v \in x.kbd PROVE Wanted(v)'
    <3>1. CASE v = w
      BY <1>1, <3>1 DEF Wanted
    <3>2. CASE v # w
      <4>1. v \in e.kbd /\ v \in Keys
        BY <2>1, <2>2, <3>2 DEF Cores
      <4>2. v # "up" /\ Wanted(v)
        BY <1>5, <4>1, PanelAssumption DEF Widgets, Settled
      <4> QED BY <1>1, <4>2 DEF Wanted
    <3> QED BY <3>1, <3>2
  <2>3. x.owed \subseteq {Legend[j] : j \in SystemKeys}
    BY <1>5, <2>1 DEF Settled
  <2>4. x.mouse = IF pointer' = "up" THEN NONE ELSE pointer'
    BY <1>1, <1>3, <2>1
  <2>5. Settled(x)'
    BY <2>2, <2>3, <2>4 DEF Settled
  <2> QED BY <2>5 DEF x
<1> HIDE DEF msg
<1> QED BY <1>1, <1>2, <1>4, <1>5, Posted

LEMMA MouseUpKeeps ==
  ASSUME PanelInv, NEW at \in Widgets \cup {NONE}, NEW inside \in BOOLEAN, MouseUp(at, inside)
  PROVE  PanelInv'
<1> DEFINE msg == [kind |-> "MOUSEUP", widget |-> at]
<1>1. /\ Rest /\ capture \in BOOLEAN /\ lost \in BOOLEAN
      /\ pointer # "up" /\ pointer' = "up"
      /\ UNCHANGED <<pressed, alt, heard, focus, owed, loop>>
  BY RestNow DEF MouseUp
<1>2. CASE lost' = TRUE /\ UNCHANGED <<messages, left>>
  <2>1. UNCHANGED <<capture, g_evq, g_ev_head, g_ev_tail, mouse_widget, held, kbd, latch, pc,
                    running>>
    BY <1>1 DEF loop
  <2>2. Rest'
    BY <1>1, <1>2, <2>1 DEF Rest
  <2>3. capture' \in BOOLEAN /\ lost' \in BOOLEAN /\ (lost => lost')
    BY <1>1, <1>2, <2>1
  <2>4. \A e \in Cores : Settled(e) /\ ~lost' => Settled(e)'
    BY <1>2
  <2> QED BY <1>1, <1>2, <2>1, <2>2, <2>3, <2>4, Unseen
<1>3. CASE messages' = Append(messages, msg) /\ left' = left \ {pointer} /\ UNCHANGED lost
  <2>1. msg \in Message
    BY DEF Message, EventKind
  <2>2. Rest'
    <3>1. UNCHANGED <<alt, pc>>
      BY <1>1 DEF loop
    <3>2. /\ pressed' \subseteq HostKeys /\ pointer' \in Widgets \cup {NONE, "up"}
          /\ focus' \in BOOLEAN /\ heard' \subseteq pressed' /\ left' \subseteq Keys
      BY <1>1, <1>3 DEF Rest
    <3> HIDE DEF msg
    <3> QED BY <1>1, <1>3, <2>1, <3>1, <3>2, RestPosted
  <2>3. ASSUME NEW e \in Cores, Settled(e)
        PROVE  Settled(Effect(Owing(e, NONE), msg))'
    <3> DEFINE x == Effect(e, msg)
    <3>1. /\ x.kbd = e.kbd \ {e.mouse} /\ x.mouse = NONE /\ x.owed = e.owed
      BY DEF Effect
    <3> HIDE DEF x
    <3>2. e.mouse = pointer
      BY <1>1, <2>3 DEF Settled
    <3>3. ASSUME NEW v \in x.kbd PROVE Wanted(v)'
      <4>1. v # pointer /\ Wanted(v)
        BY <2>3, <3>1, <3>2, <3>3 DEF Settled
      <4> QED BY <1>1, <1>3, <4>1 DEF Wanted
    <3>4. x.owed \subseteq {Legend[j] : j \in SystemKeys}
      BY <2>3, <3>1 DEF Settled
    <3>5. x.mouse = IF pointer' = "up" THEN NONE ELSE pointer'
      BY <1>1, <3>1
    <3>6. Settled(x)'
      BY <3>3, <3>4, <3>5 DEF Settled
    <3> QED BY <3>6, OwingNone DEF x
  <2>4. owed' = Owe(NONE)
    BY <1>1, OwingNone
  <2> HIDE DEF msg
  <2> QED BY <1>1, <1>3, <2>1, <2>2, <2>3, <2>4, Posted
<1> QED BY <1>2, <1>3 DEF MouseUp, Post

LEMMA SwitchKeeps ==
  ASSUME PanelInv, SwitchAway \/ SwitchBack \/ LeaveModalLoop
  PROVE  PanelInv'
<1>1. /\ UNCHANGED <<pressed, alt, pointer, heard, left, messages, owed, lost>>
      /\ UNCHANGED <<g_evq, g_ev_head, g_ev_tail, mouse_widget, held, kbd, latch, running>>
      /\ (focus' \in BOOLEAN \/ focus' = focus) /\ (capture' = FALSE \/ capture' = capture)
      /\ (pc' = pc \/ pc' = "poll")
  BY DEF SwitchAway, SwitchBack, LeaveModalLoop, loop, fingers
<1>2. Rest /\ capture \in BOOLEAN /\ lost \in BOOLEAN
  BY RestNow
<1>3. Rest'
  BY <1>1, <1>2 DEF Rest
<1>4. capture' \in BOOLEAN /\ lost' \in BOOLEAN /\ (lost => lost')
  BY <1>1, <1>2
<1>5. \A e \in Cores : Settled(e) /\ ~lost' => Settled(e)'
  BY <1>1 DEF Settled, Wanted
<1> QED BY <1>1, <1>3, <1>4, <1>5, Unseen

LEMMA CloseKeeps ==
  ASSUME PanelInv, Close
  PROVE  PanelInv'
<1> DEFINE msg == [kind |-> "QUIT", widget |-> NONE]
<1>1. /\ Rest /\ UNCHANGED <<pressed, alt, pointer, focus, heard, left, owed, lost, loop>>
      /\ messages' = Append(messages, msg)
  BY RestNow DEF Close, Post, fingers
<1>2. msg \in Message
  BY DEF Message, EventKind
<1>3. ASSUME NEW e \in Cores PROVE Effect(e, msg) = e
  BY DEF Effect, Cores
<1> HIDE DEF msg
<1>4. Rest'
  <2>1. UNCHANGED <<alt, pc>>
    BY <1>1 DEF loop
  <2> QED BY <1>1, <1>2, <2>1, RestPosted DEF Rest
<1>5. ASSUME NEW e \in Cores, Settled(e)
      PROVE  Settled(Effect(Owing(e, NONE), msg))'
  <2>1. Settled(e)'
    BY <1>1, <1>5 DEF Settled, Wanted
  <2> QED BY <1>3, <2>1, OwingNone
<1>6. owed' = Owe(NONE)
  BY <1>1, OwingNone
<1> QED BY <1>1, <1>2, <1>4, <1>5, <1>6, Posted

(* Dispatching the messages keeps the promise, and leaves none of them. *)
LEMMA PumpKeeps ==
  ASSUME PanelInv
  PROVE  /\ Pumped \in Panels
         /\ \E s, e : /\ Holds(Pumped, s)
                      /\ ~Pumped.lost => Yields(Core(Pumped), s, e) /\ Settled(e)
<1> DEFINE f == Now  g == Dispatched(f, messages)[Len(messages)]
<1>1. f \in Panels /\ f.lost = lost /\ messages \in Seq(Message) /\ lost \in BOOLEAN
  BY TypeIs, NowFields, RestNow DEF PanelInv, Rest
<1>2. PICK s : Holds(f, s) /\ (~lost => Promised(s))
  BY DEF PanelInv
<1>3. \E d, e : f.lost \/ (Yields(Core(f), s, d) /\ Yields(d, messages, e) /\ Settled(e))
  BY <1>1, <1>2 DEF Promised
<1> HIDE DEF f
<1>4. PICK d, e : f.lost \/ (Yields(Core(f), s, d) /\ Yields(d, messages, e) /\ Settled(e))
  BY <1>3
<1>5. /\ g \in Panels /\ Core(g) = Core(f)
      /\ f.lost => g.lost
      /\ \E t : Holds(g, t) /\ (g.lost \/ Yields(Core(f), t, e))
  <2>1. f.lost \/ (Yields(Core(f), s, d) /\ Yields(d, messages, e))
    BY <1>4
  <2> HIDE DEF g
  <2>2. g = Dispatched(f, messages)[Len(messages)]
    BY DEF g
  <2> QED BY <1>1, <1>2, <2>1, <2>2, PumpedIs
<1> HIDE DEF g
<1>6. PICK t : Holds(g, t) /\ (g.lost \/ Yields(Core(f), t, e))
  BY <1>5
<1>7. ~g.lost => Yields(Core(g), t, e) /\ Settled(e)
  BY <1>4, <1>5, <1>6
<1>8. g = Pumped
  BY DEF Pumped, f, g
<1> QED BY <1>5, <1>6, <1>7, <1>8

LEMMA PollEventKeeps ==
  ASSUME PanelInv, PollEvent
  PROVE  PanelInv'
<1> DEFINE f == Pumped  h == Taken(f)  ev == f.evq[f.tail]  g == handle(h, ev)
<1>1. /\ messages' = << >> /\ f.head # f.tail /\ Becomes(g)
      /\ UNCHANGED <<pressed, alt, pointer, focus, heard, left, pc>>
  BY DEF PollEvent, fingers
<1>2. /\ f \in Panels
      /\ \E s, e : Holds(f, s) /\ (~f.lost => Yields(Core(f), s, e) /\ Settled(e))
  BY PumpKeeps
<1>3. PICK s, e : Holds(f, s) /\ (~f.lost => Yields(Core(f), s, e) /\ Settled(e))
  BY <1>2
<1> HIDE DEF f
<1>4. /\ s \in Seq(Event) /\ s # << >> /\ ev = Head(s)
      /\ h \in Panels /\ Core(h) = Core(f) /\ h.lost = f.lost
      /\ Holds(h, Tail(s))
  BY <1>1, <1>2, <1>3, TakenIs
<1>5. ev \in Event
  BY <1>4, HeadTailProperties
<1> HIDE DEF h, ev
<1>6. /\ g \in Panels /\ Core(g) = Effect(Core(h), ev)
      /\ g.lost = h.lost /\ g.evq = h.evq /\ g.head = h.head /\ g.tail = h.tail
  BY <1>4, <1>5, HandledIs
<1> HIDE DEF g
<1>7. Now' = g
  BY <1>1, <1>6, NowThen
<1>8. Rest'
  <2>1. << >> \in Seq(Message)
    OBVIOUS
  <2> QED BY <1>1, <2>1, RestNow DEF Rest
<1>9. Holds(g, Tail(s))
  BY <1>4, <1>6 DEF Holds
<1>10. ASSUME ~g.lost
       PROVE  \E c, d : /\ Yields(Core(g), Tail(s), c)
                        /\ Yields(c, messages', d) /\ Settled(d)'
  <2>1. Yields(Core(f), s, e) /\ Settled(e)
    BY <1>3, <1>4, <1>6, <1>10
  <2>2. s \in Seq(Message)
    BY <1>4, EventsAreMessages
  <2>3. Yields(Core(g), Tail(s), e)
    BY <1>4, <1>6, <2>1, <2>2, YieldsAfter
  <2>4. e \in Cores
    BY <2>1, <2>2, YieldsType
  <2>5. Yields(e, messages', e)
    BY <1>1, <2>4, YieldsNone
  <2>6. Settled(e)'
    BY <1>1, <2>1 DEF Settled, Wanted
  <2> QED BY <2>3, <2>5, <2>6
<1> QED BY <1>6, <1>7, <1>8, <1>9, <1>10, InvThen

LEMMA PollEmptyKeeps ==
  ASSUME PanelInv, PollEmpty
  PROVE  PanelInv'
<1> DEFINE f == Pumped
<1>1. /\ messages' = << >> /\ Becomes(f) /\ pc' = "slice"
      /\ UNCHANGED <<pressed, alt, pointer, focus, heard, left>>
  BY DEF PollEmpty, fingers
<1>2. /\ f \in Panels
      /\ \E s, e : Holds(f, s) /\ (~f.lost => Yields(Core(f), s, e) /\ Settled(e))
  BY PumpKeeps
<1>3. PICK s, e : Holds(f, s) /\ (~f.lost => Yields(Core(f), s, e) /\ Settled(e))
  BY <1>2
<1> HIDE DEF f
<1>4. Now' = f
  BY <1>1, <1>2, NowThen
<1>5. Rest'
  <2>1. << >> \in Seq(Message)
    OBVIOUS
  <2> QED BY <1>1, <2>1, RestNow DEF Rest
<1>6. ASSUME ~f.lost
      PROVE  \E c, d : /\ Yields(Core(f), s, c)
                       /\ Yields(c, messages', d) /\ Settled(d)'
  <2>1. Yields(Core(f), s, e) /\ Settled(e)
    BY <1>3, <1>6
  <2>2. s \in Seq(Message)
    BY <1>3, EventsAreMessages DEF Holds
  <2>3. e \in Cores
    BY <2>1, <2>2, YieldsType
  <2>4. Yields(e, messages', e)
    BY <1>1, <2>3, YieldsNone
  <2>5. Settled(e)'
    BY <1>1, <2>1 DEF Settled, Wanted
  <2> QED BY <2>1, <2>4, <2>5
<1> QED BY <1>2, <1>3, <1>4, <1>5, <1>6, InvThen

LEMMA ModalKeeps ==
  ASSUME PanelInv, EnterModalLoop
  PROVE  PanelInv'
<1> DEFINE f == Pumped  g == [f EXCEPT !.capture = FALSE]
<1>1. /\ messages' = << >> /\ Becomes(g) /\ pc' = "modal"
      /\ UNCHANGED <<pressed, alt, pointer, focus, heard, left>>
  BY DEF EnterModalLoop, fingers
<1>2. /\ f \in Panels
      /\ \E s, e : Holds(f, s) /\ (~f.lost => Yields(Core(f), s, e) /\ Settled(e))
  BY PumpKeeps
<1>3. PICK s, e : Holds(f, s) /\ (~f.lost => Yields(Core(f), s, e) /\ Settled(e))
  BY <1>2
<1> HIDE DEF f
<1>4. /\ g \in Panels /\ Core(g) = Core(f) /\ g.lost = f.lost
      /\ g.evq = f.evq /\ g.head = f.head /\ g.tail = f.tail
  BY <1>2 DEF Panels, Core
<1> HIDE DEF g
<1>5. Now' = g /\ Holds(g, s)
  BY <1>1, <1>3, <1>4, NowThen DEF Holds
<1>6. Rest'
  <2>1. << >> \in Seq(Message)
    OBVIOUS
  <2> QED BY <1>1, <2>1, RestNow DEF Rest
<1>7. ASSUME ~g.lost
      PROVE  \E c, d : /\ Yields(Core(g), s, c)
                       /\ Yields(c, messages', d) /\ Settled(d)'
  <2>1. Yields(Core(f), s, e) /\ Settled(e)
    BY <1>3, <1>4, <1>7
  <2>2. s \in Seq(Message)
    BY <1>3, EventsAreMessages DEF Holds
  <2>3. e \in Cores
    BY <2>1, <2>2, YieldsType
  <2>4. Yields(e, messages', e)
    BY <1>1, <2>3, YieldsNone
  <2>5. Settled(e)'
    BY <1>1, <2>1 DEF Settled, Wanted
  <2> QED BY <1>4, <2>1, <2>4, <2>5
<1> QED BY <1>4, <1>5, <1>6, <1>7, InvThen

LEMMA OperatorKeeps ==
  ASSUME PanelInv, Operator
  PROVE  PanelInv'
BY AltKeeps, KeyDownKeeps, KeyRepeatKeeps, KeyUpKeeps, MouseDownKeeps, MouseUpKeeps,
   SwitchKeeps, ModalKeeps, CloseKeeps DEF Operator

LEMMA TimeSliceKeeps ==
  ASSUME PanelInv, TimeSlice
  PROVE  PanelInv'
<1>1. /\ UNCHANGED <<pressed, alt, pointer, focus, heard, left, messages, owed, lost, capture>>
      /\ UNCHANGED <<g_evq, g_ev_head, g_ev_tail, mouse_widget, held, kbd, latch, running>>
      /\ pc' \in {"poll", "exit"}
  BY DEF TimeSlice, fingers
<1>2. Rest /\ capture \in BOOLEAN /\ lost \in BOOLEAN
  BY RestNow
<1>3. Rest'
  BY <1>1, <1>2 DEF Rest
<1>4. capture' \in BOOLEAN /\ lost' \in BOOLEAN /\ (lost => lost')
  BY <1>1, <1>2
<1>5. \A e \in Cores : Settled(e) /\ ~lost' => Settled(e)'
  BY <1>1 DEF Settled, Wanted
<1> QED BY <1>1, <1>3, <1>4, <1>5, Unseen

-----------------------------------------------------------------------------
LEMMA InvInit ==
  ASSUME Init
  PROVE  PanelInv
<1>1. /\ pressed = {} /\ pointer = "up" /\ messages = << >> /\ mouse_widget = NONE
      /\ kbd = {} /\ owed = {} /\ g_ev_head = 0 /\ g_ev_tail = 0
  BY DEF Init
<1>2. 0 \in 0 .. EVQ_SIZE - 1 /\ EVQ_SIZE \in Nat /\ EVQ_SIZE > 1
  BY PanelAssumption
<1>3. TypeOK
  <2>1. g_evq \in [0 .. EVQ_SIZE - 1 -> Event \cup {NONE}]
    BY DEF Init
  <2>2. messages \in Seq(Message)
    BY <1>1
  <2> QED BY <1>2, <2>1, <2>2 DEF Init, TypeOK
<1>4. Holds(Now, << >>)
  <2>1. << >> \in Seq(Event) /\ Len(<< >>) = 0 /\ 1 .. 0 = {}
    OBVIOUS
  <2>2. At(0, 0) = 0
    BY <1>2 DEF At
  <2> QED BY <1>1, <1>2, <2>1, <2>2, NowFields DEF Holds
<1>5. Promised(<< >>)
  <2> DEFINE c == [kbd |-> {}, mouse |-> NONE, owed |-> {}]
  <2>1. c \in Cores /\ Core(Now) = c
    BY <1>1, NowFields DEF Cores
  <2>2. Settled(c)
    BY <1>1 DEF Settled
  <2> HIDE DEF c
  <2>3. Yields(c, << >>, c)
    BY <2>1, YieldsNone
  <2> QED BY <1>1, <2>1, <2>2, <2>3 DEF Promised
<1> QED BY <1>3, <1>4, <1>5 DEF PanelInv

LEMMA InvNext ==
  ASSUME PanelInv, [Next]_vars
  PROVE  PanelInv'
<1>1. CASE UNCHANGED vars
  <2>1. Now' = Now /\ UNCHANGED <<pressed, alt, pointer, focus, heard, left, messages, pc, lost>>
    BY <1>1 DEF vars, Now
  <2>2. Rest' /\ \A e : Settled(e)' <=> Settled(e)
    BY <2>1, RestNow DEF Rest, Settled, Wanted
  <2>3. Now \in Panels /\ Now.lost = lost
    BY TypeIs, NowFields DEF PanelInv
  <2>4. PICK s : Holds(Now, s) /\ (~lost => Promised(s))
    BY DEF PanelInv
  <2>5. ~Now.lost => \E d, e : /\ Yields(Core(Now), s, d)
                               /\ Yields(d, messages', e) /\ Settled(e)'
    BY <2>1, <2>2, <2>3, <2>4 DEF Promised
  <2> QED BY <2>1, <2>2, <2>3, <2>4, <2>5, InvThen
<1>2. CASE Operator
  BY <1>2, OperatorKeeps
<1>3. CASE Main
  BY <1>3, PollEventKeeps, PollEmptyKeeps, TimeSliceKeeps DEF Main
<1> QED BY <1>1, <1>2, <1>3 DEF Next

LEMMA PanelInvariant == Spec => []PanelInv
<1>1. Init => PanelInv
  BY InvInit
<1>2. PanelInv /\ [Next]_vars => PanelInv'
  BY InvNext
<1> QED BY <1>1, <1>2, PTL DEF Spec

(* Nothing waits: the machine is already what the fingers ask for. *)
LEMMA QuietSettled ==
  ASSUME PanelInv, Quiet, ~lost
  PROVE  Settled(Core(Now))
<1>1. PICK s : Holds(Now, s) /\ Promised(s)
  BY DEF PanelInv
<1>2. PICK d, e : Yields(Core(Now), s, d) /\ Yields(d, messages, e) /\ Settled(e)
  BY <1>1 DEF Promised
<1>3. Len(s) = 0
  <2>1. /\ s \in Seq(Event) /\ Len(s) \in Nat /\ Len(s) < EVQ_SIZE
        /\ g_ev_head = At(g_ev_tail, Len(s))
    BY <1>1, NowFields, LenProperties DEF Holds
  <2>2. g_ev_head = g_ev_tail /\ g_ev_tail \in 0 .. EVQ_SIZE - 1
    BY DEF Quiet, PanelInv, TypeOK
  <2> QED BY <2>1, <2>2, PanelAssumption DEF At
<1>4. s = << >> /\ messages = << >>
  BY <1>1, <1>3, EmptySeq DEF Holds, Quiet
<1>5. d = Core(Now) /\ e = d
  BY <1>2, <1>4, NoneYields
<1> QED BY <1>2, <1>5

(* The statics of the platform layer, the ring and its indices, and the       *)
(* state of main stay in their types.                                        *)
THEOREM PanelTypes == Spec => []TypeOK
<1>1. PanelInv => TypeOK
  BY DEF PanelInv
<1> QED BY <1>1, PanelInvariant, PTL

(* No order of clicks, keys, drags, repeats and Alt leaves a key of the       *)
(* matrix down without a finger on it, unless a message is lost or the key   *)
(* was let go while Alt was held (key_action, main, the default of wndproc).  *)
THEOREM KeysAreStuckOnlyAfterLoss == Spec => []StuckOnlyAfterLoss
<1>1. PanelInv => StuckOnlyAfterLoss
  <2>1. ASSUME PanelInv, Quiet, ~lost, NEW w \in kbd
        PROVE  Fingered(w) \/ w \in left
    <3>1. Wanted(w) /\ heard \subseteq pressed
      BY <2>1, QuietSettled, NowFields, RestNow DEF Settled, Rest
    <3> QED BY <3>1 DEF Wanted, Fingered
  <2> QED BY <2>1 DEF StuckOnlyAfterLoss
<1> QED BY <1>1, PanelInvariant, PTL

(* Every press of a button or a switch is one call, unless Windows keeps the  *)
(* key that works it for itself (ev_push, wndproc, key_action).               *)
THEOREM EveryPressIsOneCall == Spec => []OncePerPress
<1>1. PanelInv => OncePerPress
  <2>1. ASSUME PanelInv, Quiet, ~lost
        PROVE  owed \subseteq {Legend[k] : k \in SystemKeys}
    BY <2>1, QuietSettled, NowFields DEF Settled
  <2> QED BY <2>1 DEF OncePerPress
<1> QED BY <1>1, PanelInvariant, PTL
=============================================================================
