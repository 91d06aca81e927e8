--------------------------- MODULE AgentRunProofs ---------------------------
(***************************************************************************)
(* Two facts about events, for every configuration and every input.        *)
(*                                                                         *)
(* What reacts to an event reacts to one that is in the file               *)
(* (AgentRun!CausesWritten).  An event's number leaves #persist only       *)
(* through the promise of its emit, and with persist_fail "throw" that     *)
(* promise resolves only after the append.  The invariant RunInv says so   *)
(* of everything that can still carry a number: the lines, the emits that  *)
(* wait and all that their owners emit after them, the jobs of the bus,    *)
(* the handlers that await an answer, and the requests VekInbox was asked  *)
(* to create.                                                              *)
(*                                                                         *)
(* What a web view shows is what was committed, in order and once          *)
(* (EventStream!ShownInOrder).  The invariant StreamInv cuts what a lease  *)
(* is owed at two places: where the view has parsed, and where its stream  *)
(* has read.                                                               *)
(***************************************************************************)
EXTENDS AgentRun, EventStream, FiniteSetTheorems, TLAPS

\* A sequence, of whatever it holds.
IsSeq(q) == q \in Seq(Range(q))

EmitFields == {"name", "cause", "data", "on", "ctx", "next"}
TaskFields == {"k", "ev", "on"}
JobFields  == {"emit", "seq", "step", "todo"}
MemFields  == {"created", "resolved", "beliefs", "recorded"}

\* The numbers of the lines of the file.
Numbers == {x.seq : x \in Range(Written)}

\* The causes a line may have when the numbers S are written, and an event.
Known(S) == S \union {None, Given}
Causes(S) == Known(S) \union {Own}

\* What is caused by one of the numbers S: an event,
Item(e, S) == e = [f \in EmitFields |-> e[f]] /\ e.cause \in Causes(S)
Items(es, S) == IsSeq(es) /\ \A e \in Range(es) : Item(e, S)

\* an emit and all that its owner emits after it,
Sound(e, S) == Item(e, S) /\ Items(e.next, S)
Sounds(es, S) == IsSeq(es) /\ \A e \in Range(es) : Sound(e, S)

\* a job, whose own line is written once it has got so far,
Job(j, S) ==
    /\ j = [f \in JobFields |-> j[f]] /\ Sound(j.emit, S)
    /\ j.step \in {"diagnose", "done"} => j.seq \in S

\* a handler that awaits, and of an event where it was started for one.
Task(t, S) ==
    /\ t = [f \in TaskFields |-> t[f]] /\ t.ev \in S \union {0}
    /\ t.k \in {"verify", "create", "poll"} => t.ev \in S

\* The file, the bus and the adapters.
Lines == IsSeq(file) /\ IsSeq(old) /\ \A x \in Range(Written) : x.cause \in Known(Numbers)

BusSound == Lines /\ Sounds(queue, Numbers) /\ \A j \in cur : Job(j, Numbers)

Reacts ==
    /\ mem = [f \in MemFields |-> mem[f]] /\ mem.created \subseteq Numbers
    /\ \A t \in tasks : Task(t, Numbers)

RunInv == persistFail = "throw" => BusSound /\ Reacts

-----------------------------------------------------------------------------
(***************************************************************************)
(* Sequences of anything: an emit's data and cause have no type in common. *)
(***************************************************************************)
\* A sequence over some set is one over its own elements.
LEMMA SeqIsSeq == ASSUME NEW S, NEW q \in Seq(S) PROVE IsSeq(q)
<1>1. DOMAIN q = 1..Len(q) /\ q = [i \in 1..Len(q) |-> q[i]] /\ Len(q) \in Nat
  OBVIOUS
<1>2. q \in Seq(Range(q))
  BY <1>1 DEF Range
<1> QED BY <1>2 DEF IsSeq

\* Append adds an element.
LEMMA Appended ==
    ASSUME NEW q, IsSeq(q), NEW x
    PROVE  IsSeq(Append(q, x)) /\ Range(Append(q, x)) = Range(q) \union {x}
<1> DEFINE S == Range(q) \union {x}
           r == Append(q, x)
<1>1. q \in Seq(S) /\ x \in S
  <2>1. q \in Seq(Range(q))
    BY DEF IsSeq
  <2> QED BY <2>1
<1> HIDE DEF S
<1>2. r \in Seq(S) /\ Len(r) = Len(q) + 1 /\ DOMAIN r = 1..(Len(q) + 1) /\ DOMAIN q = 1..Len(q) /\ Len(q) \in Nat
      /\ (\A i \in 1..Len(q) : r[i] = q[i]) /\ r[Len(q) + 1] = x
  BY <1>1
<1> HIDE DEF r
<1>3. Range(r) = Range(q) \union {x}
  BY <1>2 DEF Range
<1>4. IsSeq(r)
  BY <1>2, SeqIsSeq
<1> QED BY <1>3, <1>4 DEF r

\* A concatenation holds what its parts hold.
LEMMA Concatenated ==
    ASSUME NEW p, NEW q, IsSeq(p), IsSeq(q)
    PROVE  IsSeq(p \o q) /\ Range(p \o q) = Range(p) \union Range(q)
<1> DEFINE S == Range(p) \union Range(q)
           r == p \o q
<1>1. p \in Seq(S) /\ q \in Seq(S)
  <2>1. p \in Seq(Range(p)) /\ q \in Seq(Range(q))
    BY DEF IsSeq
  <2> QED BY <2>1
<1> HIDE DEF S
<1>2. /\ r \in Seq(S) /\ Len(p) \in Nat /\ Len(q) \in Nat /\ DOMAIN r = 1..(Len(p) + Len(q))
      /\ DOMAIN p = 1..Len(p) /\ DOMAIN q = 1..Len(q)
      /\ \A i \in 1..Len(p) : r[i] = p[i]
      /\ \A i \in 1..Len(q) : r[Len(p) + i] = q[i]
  BY <1>1
<1> HIDE DEF r
<1>3. \A i \in DOMAIN r : r[i] \in Range(p) \union Range(q)
  <2> SUFFICES ASSUME NEW i \in 1..(Len(p) + Len(q)) PROVE r[i] \in Range(p) \union Range(q)
    BY <1>2
  <2>1. CASE i \in 1..Len(p)
    BY <1>2, <2>1 DEF Range
  <2>2. CASE i \notin 1..Len(p)
    <3>1. i - Len(p) \in 1..Len(q) /\ i = Len(p) + (i - Len(p))
      BY <1>2, <2>2
    <3> QED BY <1>2, <3>1 DEF Range
  <2> QED BY <2>1, <2>2
<1>4. \A i \in 1..Len(p) : i \in DOMAIN r
  BY <1>2
<1>5. \A i \in 1..Len(q) : Len(p) + i \in DOMAIN r
  BY <1>2
<1>6. Range(r) = Range(p) \union Range(q)
  BY <1>2, <1>3, <1>4, <1>5 DEF Range
<1>7. IsSeq(r)
  BY <1>2, SeqIsSeq
<1> QED BY <1>6, <1>7 DEF r

\* Head and Tail of a sequence that is not empty.
LEMMA Parted ==
    ASSUME NEW q, IsSeq(q), q # <<>>
    PROVE  IsSeq(Tail(q)) /\ Range(Tail(q)) \subseteq Range(q) /\ Head(q) \in Range(q)
<1> DEFINE S == Range(q)
           r == Tail(q)
<1>1. q \in Seq(S)
  BY DEF IsSeq
<1> HIDE DEF S
<1>2. /\ r \in Seq(S) /\ Len(q) \in Nat /\ DOMAIN q = 1..Len(q) /\ 1 \in DOMAIN q /\ Head(q) = q[1]
      /\ DOMAIN r = 1..(Len(q) - 1)
      /\ \A i \in 1..(Len(q) - 1) : r[i] = q[i + 1]
  BY <1>1
<1> HIDE DEF r
<1>3. Range(r) \subseteq Range(q)
  <2>1. \A i \in DOMAIN r : i + 1 \in DOMAIN q /\ r[i] = q[i + 1]
    BY <1>2
  <2> QED BY <2>1 DEF Range
<1>4. IsSeq(r)
  BY <1>2, SeqIsSeq
<1> QED BY <1>2, <1>3, <1>4 DEF r, Range

\* The empty sequence.
LEMMA Nothing == IsSeq(<<>>) /\ Range(<<>>) = {}
<1>1. <<>> \in Seq({}) /\ DOMAIN <<>> = {}
  OBVIOUS
<1> QED BY <1>1, SeqIsSeq DEF Range

\* A sequence of one.
LEMMA Single == ASSUME NEW x PROVE IsSeq(<<x>>) /\ Range(<<x>>) = {x}
<1> DEFINE q == <<x>>
<1>1. q \in Seq({x}) /\ DOMAIN q = {1} /\ q[1] = x
  OBVIOUS
<1>2. IsSeq(q)
  BY <1>1, SeqIsSeq
<1>3. Range(q) = {x}
  BY <1>1 DEF Range
<1> QED BY <1>2, <1>3

-----------------------------------------------------------------------------
(***************************************************************************)
(* Emits.                                                                  *)
(***************************************************************************)

\* Two lists of emits, one after the other.
LEMMA SoundsJoin ==
    ASSUME NEW S, NEW p, NEW q, Sounds(p, S), Sounds(q, S) PROVE Sounds(p \o q, S)
BY Concatenated DEF Sounds

\* More lines are written: what was sound is sound.
LEMMA Grows ==
    ASSUME NEW S, NEW T, S \subseteq T
    PROVE  /\ \A e : Item(e, S) => Item(e, T)
           /\ \A es : Items(es, S) => Items(es, T)
           /\ \A e : Sound(e, S) => Sound(e, T)
           /\ \A es : Sounds(es, S) => Sounds(es, T)
           /\ \A j : Job(j, S) => Job(j, T)
           /\ \A t : Task(t, S) => Task(t, T)
<1>1. \A e : Item(e, S) => Item(e, T)
  BY DEF Item, Causes, Known
<1>2. \A es : Items(es, S) => Items(es, T)
  BY <1>1 DEF Items
<1>3. \A e : Sound(e, S) => Sound(e, T)
  BY <1>1, <1>2 DEF Sound
<1>4. \A es : Sounds(es, S) => Sounds(es, T)
  BY <1>3 DEF Sounds
<1>5. \A j : Job(j, S) => Job(j, T)
  BY <1>3 DEF Job
<1>6. \A t : Task(t, S) => Task(t, T)
  BY DEF Task
<1> QED BY <1>1, <1>2, <1>3, <1>4, <1>5, <1>6

\* The causes there are.
LEMMA CausesAre ==
    ASSUME NEW S
    PROVE  /\ None \in Causes(S) /\ Given \in Causes(S) /\ Own \in Causes(S)
           /\ \A n \in S : n \in Causes(S)
           /\ \A n : \A c \in Causes(S) : Named(c, n) \in Known(S) \union {n}
BY DEF Causes, Known, Named

\* An event caused by what is written, by itself, or by nothing known.
LEMMA EventItem ==
    ASSUME NEW S, NEW name, NEW cause \in Causes(S), NEW data
    PROVE  Item(Event(name, cause, data), S) /\ Sound(Event(name, cause, data), S)
<1>1. Item(Event(name, cause, data), S)
  BY DEF Item, Event, EmitFields
<1>2. Items(<<>>, S)
  BY Nothing DEF Items
<1> QED BY <1>1, <1>2 DEF Sound, Event

\* The events of a plan are emitted one after the other.
LEMMA PlanSounds ==
    ASSUME NEW S, NEW es, Items(es, S), NEW on, NEW ctx
    PROVE  Sounds(Plan(es, on, ctx), S)
<1>1. CASE es = <<>>
  BY <1>1, Nothing DEF Plan, Sounds
<1>2. CASE es # <<>>
  <2> DEFINE h == Head(es)
             x == [h EXCEPT !.on = on, !.ctx = ctx, !.next = Tail(es)]
  <2>1. Item(h, S) /\ Items(Tail(es), S)
    BY <1>2, Parted DEF Items
  <2>2. x = [f \in EmitFields |-> x[f]] /\ x.cause = h.cause /\ x.next = Tail(es)
    <3>1. h = [f \in EmitFields |-> h[f]]
      BY <2>1 DEF Item
    <3> HIDE DEF h
    <3> QED BY <3>1 DEF EmitFields
  <2>3. Sound(x, S)
    <3> HIDE DEF x, h
    <3> QED BY <2>1, <2>2 DEF Sound, Item
  <2>4. Plan(es, on, ctx) = <<x>>
    BY <1>2 DEF Plan
  <2> HIDE DEF x
  <2> QED BY <2>3, <2>4, Single DEF Sounds
<1> QED BY <1>1, <1>2

\* The adapter_error of a handler.
LEMMA ErrorSounds ==
    ASSUME NEW S, NEW cause \in Causes(S), NEW on
    PROVE  Sounds(AdapterError(cause, on), S)
<1> DEFINE e == Event("adapter_error", cause, None)
           x == [e EXCEPT !.on = on]
<1>1. Sound(e, S)
  BY EventItem
<1>2. x = [f \in EmitFields |-> x[f]] /\ x.cause = e.cause /\ x.next = e.next
  <2>1. e = [f \in EmitFields |-> e[f]]
    BY <1>1 DEF Sound, Item
  <2> HIDE DEF e
  <2> QED BY <2>1 DEF EmitFields
<1>3. Sound(x, S)
  <2> HIDE DEF x, e
  <2> QED BY <1>1, <1>2 DEF Sound, Item
<1>4. AdapterError(cause, on) = <<x>>
  BY DEF AdapterError
<1> HIDE DEF x
<1> QED BY <1>3, <1>4, Single DEF Sounds

\* Nothing to emit.
LEMMA SoundsNothing == ASSUME NEW S PROVE Sounds(<<>>, S)
BY Nothing DEF Sounds

\* One event, emitted alone or planned.
LEMMA OneSounds == ASSUME NEW S, NEW name, NEW cause \in Causes(S), NEW data
                   PROVE  Sounds(<<Event(name, cause, data)>>, S) /\ Items(<<Event(name, cause, data)>>, S)
BY EventItem, Single DEF Sounds, Items

\* The events of an approval are caused by what asked for it.
LEMMA ApprovalItems == ASSUME NEW S, NEW v \in S PROVE Items(Approval(v), S)
<1> DEFINE a == <<Event("approval_granted", v, None)>>
           b == <<Event("receipt_issued", v, None), Event("compensation_executed", v, None)>>
<1>1. Items(a, S)
  BY CausesAre, OneSounds
<1>2. Items(b, S)
  <2> DEFINE x == Event("receipt_issued", v, None)
             y == Event("compensation_executed", v, None)
  <2>1. Item(x, S) /\ Item(y, S)
    BY CausesAre, EventItem
  <2> HIDE DEF x, y
  <2>2. <<x, y>> \in Seq({x, y}) /\ DOMAIN <<x, y>> = {1, 2} /\ <<x, y>>[1] = x /\ <<x, y>>[2] = y
    OBVIOUS
  <2>3. IsSeq(<<x, y>>) /\ Range(<<x, y>>) = {x, y}
    BY <2>2, SeqIsSeq DEF Range
  <2> QED BY <2>1, <2>3 DEF Items, x, y
<1>3. Items(a \o <<>>, S) /\ Items(a \o b, S)
  <2> HIDE DEF a, b
  <2> QED BY <1>1, <1>2, Concatenated, Nothing DEF Items
<1> QED BY <1>3 DEF Approval

\* A list given as a function.
LEMMA ListItems ==
    ASSUME NEW S, NEW n \in Nat, NEW es, es = [i \in 1..n |-> es[i]], \A i \in 1..n : Item(es[i], S)
    PROVE  Items(es, S)
<1>1. es \in Seq(Range(es)) /\ DOMAIN es = 1..n
  BY DEF Range
<1>2. IsSeq(es)
  BY <1>1 DEF IsSeq
<1>3. \A e \in Range(es) : Item(e, S)
  BY <1>1 DEF Range
<1> QED BY <1>2, <1>3 DEF Items

\* A batch is caused by its own first event, or by nothing.
LEMMA CausedItems ==
    ASSUME NEW S, NEW n \in Nat, NEW items, DOMAIN items = 1..n
    PROVE  Items(Caused(items), S)
<1> DEFINE cause == IF items # <<>> /\ items[1].name = "belief_extracted" THEN Own ELSE None
           es == Caused(items)
<1>1. cause \in Causes(S)
  BY CausesAre
<1> HIDE DEF cause
<1>2. es = [i \in 1..n |-> Event(items[i].name, cause, items[i].id)]
  BY DEF Caused, cause
<1> HIDE DEF es
<1>3. es = [i \in 1..n |-> es[i]] /\ \A i \in 1..n : es[i] = Event(items[i].name, cause, items[i].id)
  BY <1>2
<1>4. \A i \in 1..n : Item(es[i], S)
  BY <1>1, <1>3, EventItem
<1>5. Items(es, S)
  BY <1>3, <1>4, ListItems
<1> QED BY <1>5 DEF es

\* The fixture's batch.
LEMMA FixtureItems == ASSUME NEW S PROVE Items(FixtureBatch, S)
<1>1. Len(BatchItems) \in Nat /\ DOMAIN BatchItems = 1..Len(BatchItems)
  BY AgentRunAssumption
<1> QED BY <1>1, CausedItems DEF FixtureBatch

\* What was planned on the id of an event, once that is a number of the file.
LEMMA AfterItems ==
    ASSUME NEW S, NEW es, Items(es, S), NEW k \in S
    PROVE  Items(After(es, k), S)
<1> DEFINE more == After(es, k)
<1>1. IsSeq(es) /\ \A e \in Range(es) : Item(e, S)
  BY DEF Items
<1>2. PICK n \in Nat : DOMAIN es = 1..n
  <2>1. es \in Seq(Range(es))
    BY <1>1 DEF IsSeq
  <2> QED BY <2>1
<1>3. more = [i \in 1..n |-> more[i]] /\ \A i \in 1..n : more[i] = [es[i] EXCEPT !.cause = Named(@, k)]
  BY <1>2 DEF After
<1> HIDE DEF more
<1>4. ASSUME NEW i \in 1..n PROVE Item(more[i], S)
  <2>1. PICK e : e = es[i]
    OBVIOUS
  <2>2. Item(e, S)
    BY <1>1, <1>2, <2>1 DEF Range
  <2>3. PICK c : c = Named(e.cause, k)
    OBVIOUS
  <2>4. c \in Causes(S)
    BY <2>2, <2>3, CausesAre DEF Item, Causes, Known
  <2>5. more[i] = [e EXCEPT !.cause = c]
    BY <1>3, <2>1, <2>3
  <2>6. more[i] = [f \in EmitFields |-> more[i][f]] /\ more[i].cause = c
    BY <2>2, <2>5 DEF Item, EmitFields
  <2> QED BY <2>4, <2>6 DEF Item
<1>5. Items(more, S)
  BY <1>3, <1>4, ListItems
<1> QED BY <1>5 DEF more

-----------------------------------------------------------------------------
(***************************************************************************)
(* The bus.                                                                *)
(***************************************************************************)
\* emit only puts what is sound behind #tail.
LEMMA EmitKeeps ==
    ASSUME BusSound, NEW es, Sounds(es, Numbers), Emit(es)
    PROVE  BusSound' /\ Numbers' = Numbers
<1>1. file' = file /\ old' = old /\ cur' = cur /\ queue' = queue \o es
  BY DEF Emit
<1>2. Numbers' = Numbers /\ Lines'
  BY <1>1 DEF Numbers, Written, BusSound, Lines
<1>3. Sounds(queue, Numbers)'
  BY <1>1, <1>2, SoundsJoin DEF BusSound
<1> QED BY <1>1, <1>2, <1>3 DEF BusSound

\* A promise settles and its owner goes on with what is sound.
LEMMA SettleKeeps ==
    ASSUME BusSound, NEW es, NEW j \in cur, Sounds(es, Numbers), Settle(j, es)
    PROVE  BusSound' /\ Numbers' = Numbers
<1>1. file' = file /\ old' = old /\ cur' \subseteq cur /\ queue' = queue \o es
  BY DEF Settle
<1>2. Numbers' = Numbers /\ Lines'
  BY <1>1 DEF Numbers, Written, BusSound, Lines
<1>3. Sounds(queue, Numbers)'
  BY <1>1, <1>2, SoundsJoin DEF BusSound
<1> QED BY <1>1, <1>2, <1>3 DEF BusSound

\* The same, when the job threw before it appended.
LEMMA RefuseKeeps ==
    ASSUME BusSound, NEW es, Sounds(es, Numbers), Refuse(es)
    PROVE  BusSound' /\ Numbers' = Numbers
<1>1. file' = file /\ old' = old /\ cur' = cur /\ queue # <<>> /\ queue' = Tail(queue) \o es
  BY DEF Refuse
<1>2. Numbers' = Numbers /\ Lines'
  BY <1>1 DEF Numbers, Written, BusSound, Lines
<1>3. Sounds(Tail(queue), Numbers)
  BY <1>1, Parted DEF BusSound, Sounds
<1>4. Sounds(queue, Numbers)'
  BY <1>1, <1>2, <1>3, SoundsJoin
<1> QED BY <1>1, <1>2, <1>4 DEF BusSound

\* A line whose cause is written joins the file, or does not.
LEMMA LineKeeps ==
    ASSUME Lines, NEW line, line.cause \in Known(Numbers) \union {line.seq}, NEW ok, AppendLine(line, ok)
    PROVE  /\ Lines' /\ Numbers \subseteq Numbers'
           /\ ok => line.seq \in Numbers'
<1>1. IsSeq(Append(file, line)) /\ Range(Append(file, line)) = Range(file) \union {line}
  BY Appended DEF Lines
<1>2. Range(Written) = Range(old) \union Range(file)
  BY Concatenated DEF Lines, Written
<1>3. /\ IsSeq(file') /\ IsSeq(old')
      /\ Range(Written)' \in {Range(Written), Range(Written) \union {line}}
      /\ ok => Range(Written)' = Range(Written) \union {line}
  <2>1. CASE ok /\ file' = Append(file, line) /\ old' = old
    <3>1. Range(old' \o file') = Range(old') \union Range(file') /\ IsSeq(file') /\ IsSeq(old')
      BY <1>1, <2>1, Concatenated DEF Lines
    <3> QED BY <1>1, <1>2, <2>1, <3>1 DEF Written
  <2>2. CASE ok /\ file' = <<>> /\ old' = old \o Append(file, line)
    <3>1. IsSeq(old') /\ Range(old') = Range(old) \union Range(Append(file, line))
      BY <1>1, <2>2, Concatenated DEF Lines
    <3>2. IsSeq(file') /\ Range(old' \o file') = Range(old') \union {}
      BY <2>2, <3>1, Nothing, Concatenated
    <3> QED BY <1>1, <1>2, <2>2, <3>1, <3>2 DEF Written
  <2>3. CASE ~ok /\ file' \in {file, Append(file, line)} /\ old' = old
    <3>1. Range(old' \o file') = Range(old') \union Range(file') /\ IsSeq(file') /\ IsSeq(old')
      BY <1>1, <2>3, Concatenated DEF Lines
    <3> QED BY <1>1, <1>2, <2>3, <3>1 DEF Written
  <2> QED BY <2>1, <2>2, <2>3 DEF AppendLine
<1>4. Numbers \subseteq Numbers' /\ (ok => line.seq \in Numbers')
  BY <1>3 DEF Numbers
<1>5. \A x \in Range(Written)' : x.cause \in Known(Numbers')
  <2>1. ASSUME NEW x \in Range(Written)' PROVE x \in Range(Written) \/ (x = line /\ line.seq \in Numbers')
    BY <1>3 DEF Numbers
  <2>2. \A x \in Range(Written) : x.cause \in Known(Numbers')
    BY <1>4 DEF Lines, Known
  <2>3. line.seq \in Numbers' => line.cause \in Known(Numbers')
    BY <1>4 DEF Known
  <2> QED BY <2>1, <2>2, <2>3
<1> QED BY <1>3, <1>4, <1>5 DEF Lines

\* The bus's own steps: the append is where a number becomes one of the file's.
LEMMA BusKeeps ==
    ASSUME BusSound, persistFail = "throw", BusStep
    PROVE  BusSound' /\ Numbers \subseteq Numbers'
<1>1. CASE BeginPersist
  <2> DEFINE todo_1 == IF ring >= RingCap THEN <<"capacity">> ELSE <<>>
             j == [emit |-> Head(queue), seq |-> seq + 1, step |-> "append", todo |-> todo_1]
  <2>1. file' = file /\ old' = old /\ queue # <<>> /\ queue' = Tail(queue) /\ cur' = cur \union {j}
    BY <1>1 DEF BeginPersist
  <2>2. Numbers' = Numbers /\ Lines'
    BY <2>1 DEF Numbers, Written, BusSound, Lines
  <2>3. Sounds(Tail(queue), Numbers) /\ Sound(Head(queue), Numbers)
    BY <2>1, Parted DEF BusSound, Sounds
  <2>4. Job(j, Numbers)
    BY <2>3 DEF Job, JobFields
  <2> QED BY <2>1, <2>2, <2>3, <2>4 DEF BusSound
<1>2. ASSUME NEW j \in cur, AppendEvent(j) PROVE BusSound' /\ Numbers \subseteq Numbers'
  <2>1. PICK ok \in BOOLEAN :
          /\ j.step = "append" /\ AppendLine(Line(j.emit, j.seq), ok) /\ queue' = queue
          /\ LET left == IF ok /\ Len(file) + 1 > LogCap THEN Append(j.todo, "rotate") ELSE j.todo
             IN cur' = (cur \ {j}) \union {[j EXCEPT !.todo = left, !.step = AfterAppend(ok, left)]}
    BY <1>2 DEF AppendEvent
  <2>2. Job(j, Numbers)
    BY DEF BusSound
  <2>3. Line(j.emit, j.seq).cause \in Known(Numbers) \union {j.seq} /\ Line(j.emit, j.seq).seq = j.seq
    BY <2>2, CausesAre DEF Job, Sound, Item, Line
  <2>4. Lines' /\ Numbers \subseteq Numbers' /\ (ok => j.seq \in Numbers')
    BY <2>1, <2>3, LineKeeps DEF BusSound
  <2> DEFINE left == IF ok /\ Len(file) + 1 > LogCap THEN Append(j.todo, "rotate") ELSE j.todo
             k == [j EXCEPT !.todo = left, !.step = AfterAppend(ok, left)]
  <2>5. k = [f \in JobFields |-> k[f]] /\ k.emit = j.emit /\ k.seq = j.seq /\ k.step = AfterAppend(ok, left)
    BY <2>2 DEF Job, JobFields
  <2>6. k.step \in {"diagnose", "done"} => ok
    <3>1. ~ok => AfterAppend(ok, left) = "failed"
      BY DEF AfterAppend
    <3> HIDE DEF k, left
    <3> QED BY <2>5, <3>1
  <2>7. cur' = (cur \ {j}) \union {k}
    BY <2>1
  <2> HIDE DEF k, left
  <2>8. Job(k, Numbers')
    BY <2>2, <2>4, <2>5, <2>6, Grows DEF Job
  <2> QED BY <2>1, <2>4, <2>7, <2>8, Grows DEF BusSound
<1>3. ASSUME NEW j \in cur, WriteDiagnostic(j) PROVE BusSound' /\ Numbers \subseteq Numbers'
  <2> DEFINE line == [seq |-> seq + 1, name |-> "bus_overflow", cause |-> j.seq, data |-> Head(j.todo)]
  <2>1. PICK ok \in BOOLEAN :
          /\ j.step = "diagnose" /\ AppendLine(line, ok) /\ queue' = queue
          /\ cur' = (cur \ {j}) \union {[j EXCEPT !.todo = Tail(j.todo), !.step = AfterAppend(ok, Tail(j.todo))]}
    BY <1>3 DEF WriteDiagnostic
  <2>2. Job(j, Numbers) /\ j.seq \in Numbers
    BY <2>1 DEF BusSound, Job
  <2>3. line.cause \in Known(Numbers) \union {line.seq}
    BY <2>2 DEF Known
  <2>4. Lines' /\ Numbers \subseteq Numbers'
    BY <2>1, <2>3, LineKeeps DEF BusSound
  <2> DEFINE k == [j EXCEPT !.todo = Tail(j.todo), !.step = AfterAppend(ok, Tail(j.todo))]
  <2>5. k = [f \in JobFields |-> k[f]] /\ k.emit = j.emit /\ k.seq = j.seq
    BY <2>2 DEF Job, JobFields
  <2>6. cur' = (cur \ {j}) \union {k}
    BY <2>1
  <2> HIDE DEF k
  <2>7. Job(k, Numbers')
    BY <2>2, <2>4, <2>5, Grows DEF Job
  <2> QED BY <2>1, <2>4, <2>6, <2>7, Grows DEF BusSound
<1> QED BY <1>1, <1>2, <1>3 DEF BusStep

-----------------------------------------------------------------------------
(***************************************************************************)
(* The steps of the run.                                                   *)
(***************************************************************************)
\* More lines, no more tasks.
LEMMA ReactsSame ==
    ASSUME Reacts, Numbers \subseteq Numbers', mem' = mem, tasks' \subseteq tasks PROVE Reacts'
BY Grows DEF Reacts

\* A crash leaves everything as it is.
LEMMA CrashKeeps == ASSUME RunInv, Crash PROVE RunInv'
<1>1. /\ persistFail' = persistFail /\ queue' = queue /\ cur' = cur /\ file' = file /\ old' = old
      /\ mem' = mem /\ tasks' = tasks
  BY DEF Crash, busVars, adapterVars
<1>2. Numbers' = Numbers /\ (Lines => Lines')
  BY <1>1 DEF Numbers, Written, Lines
<1> QED BY <1>1, <1>2 DEF RunInv, BusSound, Reacts

\* A step that emits, and tells the adapters' sets and the tasks.
LEMMA Emitting ==
    ASSUME RunInv, persistFail = "throw", persistFail' = persistFail,
           BusSound', Numbers' = Numbers,
           mem' = [f \in MemFields |-> mem'[f]], mem'.created = mem.created,
           \A t \in tasks' : t \in tasks \/ Task(t, Numbers)
    PROVE  RunInv'
BY DEF RunInv, Reacts

\* resolveApproved, for a number of the file.
LEMMA ApprovedEmits ==
    ASSUME NEW v \in Numbers, NEW on, ResolveApproved(v, on), BusSound, Reacts
    PROVE  /\ BusSound' /\ Numbers' = Numbers /\ mem' = [f \in MemFields |-> mem'[f]]
           /\ mem'.created = mem.created /\ persistFail' = persistFail
<1>1. CASE UNCHANGED <<busVars, mem>>
  <2>1. /\ persistFail' = persistFail /\ queue' = queue
        /\ cur' = cur /\ file' = file /\ old' = old /\ mem' = mem
    BY <1>1 DEF busVars
  <2>2. Numbers' = Numbers /\ Lines'
    BY <2>1 DEF Numbers, Written, BusSound, Lines
  <2> QED BY <2>1, <2>2 DEF BusSound, Reacts
<1>2. CASE mem' = [mem EXCEPT !.resolved = @ \union {v}] /\ Emit(Plan(Approval(v), on, "vekinbox"))
  <2>1. Sounds(Plan(Approval(v), on, "vekinbox"), Numbers)
    BY ApprovalItems, PlanSounds
  <2>2. mem' = [f \in MemFields |-> mem'[f]] /\ mem'.created = mem.created
    BY <1>2 DEF Reacts, MemFields
  <2>3. persistFail' = persistFail
    BY <1>2 DEF Emit
  <2> QED BY <1>2, <2>1, <2>2, <2>3, EmitKeeps
<1> QED BY <1>1, <1>2 DEF ResolveApproved

\* emitBeliefBatch: its events are caused by the first of them, or by nothing.
LEMMA BatchEmits ==
    ASSUME NEW on, EmitBatch(BatchItems, on), BusSound, Reacts
    PROVE  /\ BusSound' /\ Numbers' = Numbers /\ mem' = [f \in MemFields |-> mem'[f]]
           /\ mem'.created = mem.created /\ persistFail' = persistFail
<1> DEFINE fresh == {i \in DOMAIN BatchItems : BatchItems[i].id \notin mem.beliefs}
           Nth(n) == BatchItems[CHOOSE i \in fresh : Cardinality({j \in fresh : j <= i}) = n]
           items == [n \in 1..Cardinality(fresh) |-> Nth(n)]
           es == Caused(items)
<1>1. Cardinality(fresh) \in Nat
  <2>1. Len(BatchItems) \in Nat /\ DOMAIN BatchItems = 1..Len(BatchItems)
    BY AgentRunAssumption
  <2>2. IsFiniteSet(1..Len(BatchItems))
    BY <2>1, FS_Interval
  <2>3. IsFiniteSet(fresh)
    <3>1. fresh \subseteq 1..Len(BatchItems)
      BY <2>1
    <3> HIDE DEF fresh
    <3> QED BY <2>2, <3>1, FS_Subset
  <2> QED BY <2>3, FS_CardinalityType
<1>2. DOMAIN items = 1..Cardinality(fresh)
  OBVIOUS
<1>3. mem' = [mem EXCEPT !.beliefs = @ \union {BatchItems[i].id : i \in fresh}] /\ Emit(Plan(es, on, None))
  BY DEF EmitBatch
<1>4. Items(es, Numbers)
  <2> HIDE DEF items, fresh
  <2> QED BY <1>1, <1>2, CausedItems
<1> HIDE DEF es, fresh
<1>5. BusSound' /\ Numbers' = Numbers
  BY <1>3, <1>4, PlanSounds, EmitKeeps
<1>6. mem' = [f \in MemFields |-> mem'[f]] /\ mem'.created = mem.created
  BY <1>3 DEF Reacts, MemFields
<1>7. persistFail' = persistFail
  BY <1>3 DEF Emit
<1> QED BY <1>5, <1>6, <1>7

\* What arrives from the child, the products and the files.
LEMMA ArrivalKeeps ==
    ASSUME RunInv, persistFail = "throw",
           \/ \E name, data : \E cause \in {None, Given} : Post(name, cause, data)
           \/ Webhook \/ PollAxion \/ SessionTimer
           \/ \E f \in Files : SaveSession(f)
           \/ \E v \in mem.created : Hook(v)
    PROVE  RunInv'
<1>1. BusSound /\ Reacts
  BY DEF RunInv
<1>2. mem = [f \in MemFields |-> mem[f]]
  BY <1>1 DEF Reacts
<1>3. ASSUME NEW name, NEW cause \in {None, Given}, NEW data, Post(name, cause, data) PROVE RunInv'
  <2>1. /\ Emit(Plan(<<Event(name, cause, data)>>, "http", None))
        /\ mem' = mem /\ tasks' = tasks /\ persistFail' = persistFail
    BY <1>3 DEF Post, adapterVars, Emit
  <2>2. Sounds(Plan(<<Event(name, cause, data)>>, "http", None), Numbers)
    BY CausesAre, OneSounds, PlanSounds
  <2> QED BY <1>1, <1>2, <2>1, <2>2, EmitKeeps, Emitting
<1>4. CASE Webhook
  <2>1. EmitBatch(BatchItems, "http") /\ tasks' = tasks
    BY <1>4 DEF Webhook
  <2> QED BY <1>1, <2>1, BatchEmits, Emitting
<1>5. CASE PollAxion
  <2> DEFINE t == [k |-> "beliefs", ev |-> 0, on |-> "void"]
  <2>1. UNCHANGED busVars /\ mem' = mem /\ tasks' = tasks \union {t}
    BY <1>5 DEF PollAxion
  <2>2. Task(t, Numbers)
    BY DEF Task, TaskFields
  <2>3. /\ persistFail' = persistFail /\ queue' = queue /\ cur' = cur /\ file' = file /\ old' = old
    BY <2>1 DEF busVars
  <2>4. Numbers' = Numbers /\ BusSound'
    BY <1>1, <2>3 DEF Numbers, Written, BusSound, Lines
  <2> HIDE DEF t
  <2> QED BY <1>1, <1>2, <2>1, <2>2, <2>3, <2>4, Emitting
<1>6. CASE SessionTimer
  <2>1. CASE UNCHANGED <<busVars, mem>>
    <3>1. /\ persistFail' = persistFail /\ queue' = queue
          /\ cur' = cur /\ file' = file /\ old' = old /\ mem' = mem /\ tasks' = tasks
      BY <1>6, <2>1 DEF SessionTimer, busVars
    <3>2. Numbers' = Numbers /\ BusSound'
      BY <1>1, <3>1 DEF Numbers, Written, BusSound, Lines
    <3> QED BY <1>1, <1>2, <3>1, <3>2, Emitting
  <2>2. CASE /\ mem' = [mem EXCEPT !.recorded = @ \union {timer}]
             /\ Emit(<<Event("session_recorded", None, timer)>>)
    <3>1. persistFail' = persistFail /\ tasks' = tasks /\ mem' = [f \in MemFields |-> mem'[f]] /\ mem'.created = mem.created
      BY <1>2, <1>6, <2>2 DEF SessionTimer, Emit, MemFields
    <3>2. Numbers' = Numbers /\ BusSound'
      BY <1>1, <2>2, CausesAre, OneSounds, EmitKeeps
    <3> QED BY <1>1, <3>1, <3>2, Emitting
  <2> QED BY <1>6, <2>1, <2>2 DEF SessionTimer
<1>7. ASSUME NEW f \in Files, SaveSession(f) PROVE RunInv'
  <2>1. /\ persistFail' = persistFail /\ queue' = queue
        /\ cur' = cur /\ file' = file /\ old' = old /\ mem' = mem /\ tasks' = tasks
    BY <1>7 DEF SaveSession, busVars
  <2>2. Numbers' = Numbers /\ BusSound'
    BY <1>1, <2>1 DEF Numbers, Written, BusSound, Lines
  <2> QED BY <1>1, <1>2, <2>1, <2>2, Emitting
<1>8. ASSUME NEW v \in mem.created, Hook(v) PROVE RunInv'
  <2>1. ResolveApproved(v, "http") /\ tasks' = tasks /\ v \in Numbers
    BY <1>1, <1>8 DEF Hook, Reacts
  <2> QED BY <1>1, <2>1, ApprovedEmits, Emitting
<1> QED BY <1>3, <1>4, <1>5, <1>6, <1>7, <1>8
\* A handler's answer: what it emits is caused by the event it awaited for.
LEMMA AnswerKeeps ==
    ASSUME RunInv, persistFail = "throw", NEW t \in tasks, TaskAnswered(t)
    PROVE  RunInv'
<1>1. BusSound /\ Reacts /\ mem = [f \in MemFields |-> mem[f]] /\ Task(t, Numbers)
  BY DEF RunInv, Reacts
<1>2. CASE Crash
  BY <1>2, CrashKeeps
<1>3. ASSUME t.k = "verify", NEW v, VerifyAnswered(t, v) PROVE RunInv'
  <2> DEFINE es == IF v = "fail" THEN AdapterError(t.ev, "void")
                   ELSE Plan(<<Event("verdict", t.ev, v)>>, "verdict", None)
  <2>1. tasks' = tasks \ {t} /\ mem' = mem /\ Emit(es)
    BY <1>3 DEF VerifyAnswered
  <2>2. t.ev \in Numbers
    BY <1>1, <1>3 DEF Task
  <2>3. Sounds(AdapterError(t.ev, "void"), Numbers)
    BY <2>2, CausesAre, ErrorSounds
  <2>4. Sounds(Plan(<<Event("verdict", t.ev, v)>>, "verdict", None), Numbers)
    BY <2>2, CausesAre, OneSounds, PlanSounds
  <2>5. Sounds(es, Numbers)
    BY <2>3, <2>4
  <2> HIDE DEF es
  <2>6. BusSound' /\ Numbers' = Numbers /\ persistFail' = persistFail
    BY <1>1, <2>1, <2>5, EmitKeeps DEF Emit
  <2> QED BY <1>1, <2>1, <2>6, Emitting
<1>4. ASSUME t.k = "create", NEW ok \in BOOLEAN, CreateAnswered(t, ok) PROVE RunInv'
  <2>1. t.ev \in Numbers
    BY <1>1, <1>4 DEF Task
  <2>2. \A s \in tasks' : s \in tasks \/ Task(s, Numbers)
    <3> DEFINE p == [t EXCEPT !.k = "poll"]
    <3>1. \A s \in tasks' : s \in tasks \/ s = p
      BY <1>4 DEF CreateAnswered
    <3>2. p = [f \in TaskFields |-> p[f]] /\ p.ev = t.ev
      BY <1>1 DEF Task, TaskFields
    <3> HIDE DEF p
    <3>3. Task(p, Numbers)
      BY <2>1, <3>2 DEF Task
    <3> QED BY <3>1, <3>3
  <2>3. CASE UNCHANGED <<busVars, mem>>
    <3>1. /\ persistFail' = persistFail /\ queue' = queue
          /\ cur' = cur /\ file' = file /\ old' = old /\ mem' = mem
      BY <2>3 DEF busVars
    <3>2. Numbers' = Numbers /\ BusSound'
      BY <1>1, <3>1 DEF Numbers, Written, BusSound, Lines
    <3> QED BY <1>1, <2>2, <3>1, <3>2, Emitting
  <2>4. CASE ResolveApproved(t.ev, "auto")
    BY <1>1, <2>1, <2>2, <2>4, ApprovedEmits, Emitting
  <2>5. CASE /\ mem' = [mem EXCEPT !.resolved = @ \union {t.ev}]
             /\ Emit(<<Event("approval_granted", t.ev, None)>>)
    <3>1. persistFail' = persistFail /\ mem' = [f \in MemFields |-> mem'[f]] /\ mem'.created = mem.created
      BY <1>1, <2>5 DEF Emit, MemFields
    <3>2. Numbers' = Numbers /\ BusSound'
      BY <1>1, <2>1, <2>5, CausesAre, OneSounds, EmitKeeps
    <3> QED BY <1>1, <2>2, <3>1, <3>2, Emitting
  <2> QED BY <1>4, <2>3, <2>4, <2>5 DEF CreateAnswered
<1>5. ASSUME t.k = "poll", NEW approved \in BOOLEAN, PollAnswered(t, approved) PROVE RunInv'
  <2>1. t.ev \in Numbers /\ tasks' = tasks \ {t}
    BY <1>1, <1>5 DEF Task, PollAnswered
  <2>2. CASE ResolveApproved(t.ev, "poll")
    BY <1>1, <2>1, <2>2, ApprovedEmits, Emitting
  <2>3. CASE UNCHANGED <<busVars, mem>>
    <3>1. /\ persistFail' = persistFail /\ queue' = queue
          /\ cur' = cur /\ file' = file /\ old' = old /\ mem' = mem
      BY <2>3 DEF busVars
    <3>2. Numbers' = Numbers /\ BusSound'
      BY <1>1, <3>1 DEF Numbers, Written, BusSound, Lines
    <3> QED BY <1>1, <2>1, <3>1, <3>2, Emitting
  <2> QED BY <1>5, <2>2, <2>3 DEF PollAnswered
<1>6. ASSUME NEW ok \in BOOLEAN, Projected(t, ok) PROVE RunInv'
  <2> DEFINE es == IF ok THEN Plan(<<Event("diff_computed", None, None)>>, t.on, None)
                   ELSE AdapterError(None, t.on)
  <2>1. tasks' = tasks \ {t} /\ mem' = mem /\ Emit(es)
    BY <1>6 DEF Projected
  <2>2. Sounds(AdapterError(None, t.on), Numbers)
    BY CausesAre, ErrorSounds
  <2>3. Sounds(Plan(<<Event("diff_computed", None, None)>>, t.on, None), Numbers)
    BY CausesAre, OneSounds, PlanSounds
  <2>4. Sounds(es, Numbers)
    BY <2>2, <2>3
  <2> HIDE DEF es
  <2>5. BusSound' /\ Numbers' = Numbers /\ persistFail' = persistFail
    BY <1>1, <2>1, <2>4, EmitKeeps DEF Emit
  <2> QED BY <1>1, <2>1, <2>5, Emitting
<1>7. ASSUME tasks' = tasks \ {t}, EmitBatch(BatchItems, "void") PROVE RunInv'
  BY <1>1, <1>7, BatchEmits, Emitting
<1> QED BY <1>2, <1>3, <1>4, <1>5, <1>6, <1>7 DEF TaskAnswered
\* What the owner of an emit emits when its promise settles.
LEMMA OwnerSounds ==
    ASSUME NEW S, NEW e, Sound(e, S), NEW n, NEW ok \in BOOLEAN, ok => n \in S
    PROVE  Sounds(OwnerEmits(e, n, ok), S)
<1>1. ok => Sounds(Plan(After(e.next, n), e.on, None), S)
  BY AfterItems, PlanSounds DEF Sound
<1>2. Sounds(AdapterError(e.cause, "void"), S)
  BY ErrorSounds DEF Sound, Item
<1>3. \A on : Sounds(AdapterError(None, on), S)
  BY CausesAre, ErrorSounds
<1>4. Sounds(<<>>, S)
  BY SoundsNothing
<1> QED BY <1>1, <1>2, <1>3, <1>4 DEF OwnerEmits, Continues

\* The approval of a fixture's row.
LEMMA RowSounds ==
    ASSUME NEW S, NEW e, NEW n, NEW ok \in BOOLEAN, ok => n \in S PROVE Sounds(RowEmits(e, n, ok), S)
<1>1. \A ctx : ok => Sounds(Plan(Approval(n), "void", ctx), S)
  BY ApprovalItems, PlanSounds
<1> QED BY <1>1, SoundsNothing DEF RowEmits

\* The subscribers of an event that is written.
LEMMA SubscribersReact ==
    ASSUME Reacts, Numbers' = Numbers, NEW e, NEW n, NEW ok \in BOOLEAN, ok => n \in Numbers,
           Subscribers(e, n, ok)
    PROVE  Reacts'
<1> DEFINE verify  == [k |-> "verify", ev |-> n, on |-> "void"]
           create  == [k |-> "create", ev |-> n, on |-> "void"]
           project == [k |-> "project", ev |-> 0, on |-> "session"]
<1>1. ok => Task(verify, Numbers) /\ Task(create, Numbers)
  BY DEF Task, TaskFields
<1>2. Task(project, Numbers)
  BY DEF Task, TaskFields
<1>3. \A t \in tasks' : t \in tasks \/ (ok /\ t \in {verify, create}) \/ t = project
  BY DEF Subscribers
<1> HIDE DEF verify, create, project
<1>4. \A t \in tasks' : Task(t, Numbers)
  BY <1>1, <1>2, <1>3 DEF Reacts
<1>5. mem' = [f \in MemFields |-> mem'[f]] /\ mem'.created \subseteq Numbers
  <2>1. mem = [f \in MemFields |-> mem[f]] /\ mem.created \subseteq Numbers
    BY DEF Reacts
  <2>2. \/ mem' = mem
        \/ ok /\ mem' = [mem EXCEPT !.created = @ \union {n},
                                  !.resolved = @ \union (IF TakesRow(e) THEN {n} ELSE {})]
    BY DEF Subscribers
  <2>3. CASE mem' = mem
    BY <2>1, <2>3
  <2>4. CASE ok /\ n \in Numbers /\ mem' # mem
    <3> DEFINE more == IF TakesRow(e) THEN {n} ELSE {}
               after == [mem EXCEPT !.created = @ \union {n}, !.resolved = @ \union more]
    <3>1. mem' = after
      BY <2>2, <2>4
    <3> HIDE DEF more
    <3>2. after = [f \in MemFields |-> after[f]] /\ after.created = mem.created \union {n}
      BY <2>1 DEF MemFields
    <3> HIDE DEF after
    <3> QED BY <2>1, <2>4, <3>1, <3>2
  <2> QED BY <2>2, <2>3, <2>4
<1> QED BY <1>4, <1>5 DEF Reacts

\* An emit settles: the subscribers get a number only of a line that is written.
LEMMA SettlingKeeps ==
    ASSUME RunInv, persistFail = "throw", NEW j \in cur, EmitSettles(j) PROVE RunInv'
<1> DEFINE e == j.emit
           ok == j.step = "done"
           es == OwnerEmits(e, j.seq, ok) \o RowEmits(e, j.seq, ok)
<1>1. BusSound /\ Reacts /\ Job(j, Numbers)
  BY DEF RunInv, BusSound
<1>2. ok \in BOOLEAN /\ (ok => j.seq \in Numbers) /\ Sound(e, Numbers)
  BY <1>1 DEF Job
<1>3. Sounds(es, Numbers)
  <2> HIDE DEF e, ok
  <2> QED BY <1>2, OwnerSounds, RowSounds, SoundsJoin
<1>4. Crash \/ (Settle(j, es) /\ Subscribers(e, j.seq, ok))
  BY DEF EmitSettles
<1> HIDE DEF e, ok, es
<1>5. CASE Crash
  BY <1>5, CrashKeeps
<1>6. CASE Settle(j, es) /\ Subscribers(e, j.seq, ok)
  <2>1. BusSound' /\ Numbers' = Numbers
    BY <1>1, <1>3, <1>6, SettleKeeps
  <2>2. Reacts'
    BY <1>1, <1>2, <1>6, <2>1, SubscribersReact
  <2> QED BY <2>1, <2>2 DEF RunInv
<1> QED BY <1>4, <1>5, <1>6

\* An emit is refused: no subscriber hears of it.
LEMMA RefusalKeeps == ASSUME RunInv, persistFail = "throw", EmitRefused PROVE RunInv'
<1>1. BusSound /\ Reacts
  BY DEF RunInv
<1>2. CASE Crash
  BY <1>2, CrashKeeps
<1>3. CASE Refuse(OwnerEmits(Head(queue), None, FALSE)) /\ UNCHANGED <<tasks, mem, rows>>
  <2>1. queue # <<>>
    BY <1>3 DEF Refuse
  <2>2. Sound(Head(queue), Numbers)
    BY <1>1, <2>1, Parted DEF BusSound, Sounds
  <2>3. BusSound' /\ Numbers' = Numbers
    BY <1>1, <1>3, <2>2, OwnerSounds, RefuseKeeps
  <2> QED BY <1>1, <1>3, <2>3, ReactsSame DEF RunInv
<1> QED BY <1>2, <1>3 DEF EmitRefused

\* The steps of the run's start and end.
LEMMA CourseKeeps ==
    ASSUME RunInv, persistFail = "throw",
           \/ StartIngest \/ StartAdapter \/ Spawn \/ BusRuns
           \/ \E how \in {"zero", "fail", "signal"} : ChildExits(how)
           \/ Finish \/ StopProjects \/ StopRest \/ CloseRunBus \/ End
    PROVE  RunInv'
<1>1. BusSound /\ Reacts
  BY DEF RunInv
<1>2. ASSUME file' = file, old' = old, queue' = queue, cur' = cur, mem' = mem,
             \A t \in tasks' : t \in tasks \/ Task(t, Numbers)
      PROVE  RunInv'
  <2>1. Numbers' = Numbers /\ BusSound'
    BY <1>1, <1>2 DEF Numbers, Written, BusSound, Lines
  <2>2. Reacts'
    BY <1>1, <1>2, <2>1 DEF Reacts
  <2> QED BY <2>1, <2>2 DEF RunInv
<1>3. ASSUME NEW es, Sounds(es, Numbers), Emit(es), mem' = mem, tasks' = tasks PROVE RunInv'
  BY <1>1, <1>3, EmitKeeps, ReactsSame DEF RunInv
<1>4. CASE FailStart
  BY <1>2, <1>4 DEF FailStart, busVars, adapterVars
<1>5. CASE StartIngest
  BY <1>2, <1>4, <1>5 DEF StartIngest, busVars, adapterVars
<1>6. CASE StartAdapter
  <2> DEFINE es == IF Head(todo) = "axion" /\ cfg.fixtures THEN Plan(FixtureBatch, "start", None) ELSE <<>>
  <2>1. FailStart \/ (Emit(es) /\ mem' = mem /\ tasks' = tasks)
    BY <1>6 DEF StartAdapter, adapterVars
  <2>2. Sounds(es, Numbers)
    BY FixtureItems, PlanSounds, SoundsNothing
  <2> HIDE DEF es
  <2> QED BY <1>3, <1>4, <2>1, <2>2
<1>7. CASE Spawn \/ Finish \/ End \/ \E how \in {"zero", "fail", "signal"} : ChildExits(how)
  BY <1>2, <1>7 DEF Spawn, Finish, End, ChildExits, busVars, adapterVars
<1>8. CASE BusRuns
  <2>1. BusStep /\ mem' = mem /\ tasks' = tasks
    BY <1>8 DEF BusRuns, adapterVars
  <2>2. BusSound' /\ Numbers \subseteq Numbers'
    BY <1>1, <2>1, BusKeeps
  <2> QED BY <1>1, <2>1, <2>2, ReactsSame DEF RunInv
<1>9. CASE StopProjects
  <2> DEFINE t == [k |-> "project", ev |-> 0, on |-> "stop"]
  <2>1. Task(t, Numbers)
    BY DEF Task, TaskFields
  <2>2. /\ file' = file /\ old' = old /\ queue' = queue /\ cur' = cur /\ mem' = mem
        /\ tasks' = tasks \union {t}
    BY <1>9 DEF StopProjects, busVars
  <2> HIDE DEF t
  <2> QED BY <1>2, <2>1, <2>2
<1>10. CASE StopRest
  BY <1>2, <1>10 DEF StopRest, busVars
<1>11. CASE CloseRunBus
  BY <1>2, <1>11 DEF CloseRunBus, CloseBus, adapterVars
<1> QED BY <1>5, <1>6, <1>7, <1>8, <1>9, <1>10, <1>11

-----------------------------------------------------------------------------
(***************************************************************************)
(* The theorem.                                                            *)
(***************************************************************************)
\* At first nothing is emitted and nothing waits.
LEMMA RunStarts == Init => RunInv
<1> SUFFICES ASSUME Init PROVE RunInv
  OBVIOUS
<1>1. queue = <<>> /\ cur = {} /\ file = <<>> /\ old = <<>> /\ tasks = {}
      /\ mem = [created |-> {}, resolved |-> {}, beliefs |-> {}, recorded |-> {}]
  BY DEF Init, BusInit
<1>2. Lines
  BY <1>1, Nothing, Concatenated DEF Lines, Written
<1>3. BusSound
  BY <1>1, <1>2, SoundsNothing DEF BusSound
<1>4. Reacts
  BY <1>1 DEF Reacts, MemFields
<1> QED BY <1>3, <1>4 DEF RunInv

\* No step changes the options of the bus.
LEMMA OptionsStay == ASSUME [Next]_vars PROVE persistFail' = persistFail
<1>1. \A es : Emit(es) => persistFail' = persistFail
  BY DEF Emit
<1>2. \A es : Refuse(es) => persistFail' = persistFail
  BY DEF Refuse
<1>3. \A j, es : Settle(j, es) => persistFail' = persistFail
  BY DEF Settle
<1>4. UNCHANGED busVars => persistFail' = persistFail
  BY DEF busVars
<1>5. (Crash \/ FailStart) => persistFail' = persistFail
  BY <1>4 DEF Crash, FailStart
<1>6. \A v, on : ResolveApproved(v, on) => persistFail' = persistFail
  BY <1>1, <1>4 DEF ResolveApproved
<1>7. \A items, on : EmitBatch(items, on) => persistFail' = persistFail
  BY <1>1 DEF EmitBatch
<1>8. StartIngest \/ StartAdapter \/ Spawn => persistFail' = persistFail
  BY <1>1, <1>4, <1>5 DEF StartIngest, StartAdapter, Spawn
<1>9. \A name, cause, data : Post(name, cause, data) => persistFail' = persistFail
  BY <1>1 DEF Post
<1>10. Webhook \/ PollAxion \/ SessionTimer => persistFail' = persistFail
  BY <1>1, <1>4, <1>7 DEF Webhook, PollAxion, SessionTimer
<1>11. \A x : SaveSession(x) \/ Hook(x) \/ ChildExits(x) => persistFail' = persistFail
  BY <1>4, <1>6 DEF SaveSession, Hook, ChildExits
<1>12. \A t : TaskAnswered(t) => persistFail' = persistFail
  <2>1. \A t, v : VerifyAnswered(t, v) => persistFail' = persistFail
    BY <1>1 DEF VerifyAnswered
  <2>2. \A t, ok : CreateAnswered(t, ok) => persistFail' = persistFail
    BY <1>1, <1>4, <1>6 DEF CreateAnswered
  <2>3. \A t, ok : PollAnswered(t, ok) => persistFail' = persistFail
    BY <1>4, <1>6 DEF PollAnswered
  <2>4. \A t, ok : Projected(t, ok) => persistFail' = persistFail
    BY <1>1 DEF Projected
  <2> QED BY <1>5, <1>7, <2>1, <2>2, <2>3, <2>4 DEF TaskAnswered
<1>13. BusRuns => persistFail' = persistFail
  BY DEF BusRuns, BusStep, BeginPersist, AppendEvent, WriteDiagnostic
<1>14. EmitRefused => persistFail' = persistFail
  BY <1>2, <1>5 DEF EmitRefused
<1>15. \A j : EmitSettles(j) => persistFail' = persistFail
  BY <1>3, <1>5 DEF EmitSettles
<1>16. Finish \/ StopProjects \/ StopRest \/ CloseRunBus \/ End => persistFail' = persistFail
  BY <1>4 DEF Finish, StopProjects, StopRest, CloseRunBus, CloseBus, End
<1>17. UNCHANGED vars => persistFail' = persistFail
  BY <1>4 DEF vars
<1> QED BY <1>8, <1>9, <1>10, <1>11, <1>12, <1>13, <1>14, <1>15, <1>16, <1>17 DEF Next

\* RunInv is inductive.
LEMMA RunKeeps == RunInv /\ [Next]_vars => RunInv'
<1> SUFFICES ASSUME RunInv, [Next]_vars, persistFail' = "throw" PROVE RunInv'
  BY DEF RunInv
<1>1. persistFail' = persistFail
  BY OptionsStay
<1>2. CASE UNCHANGED vars
  <2>1. /\ persistFail' = persistFail /\ queue' = queue /\ cur' = cur /\ file' = file /\ old' = old
        /\ mem' = mem /\ tasks' = tasks
    BY <1>2 DEF vars, busVars, adapterVars
  <2> QED BY <2>1 DEF RunInv, BusSound, Reacts, Lines, Numbers, Written
<1>3. CASE Next
  BY <1>1, <1>3, ArrivalKeeps, AnswerKeeps, SettlingKeeps, RefusalKeeps, CourseKeeps DEF Next
<1> QED BY <1>2, <1>3

\* With persist_fail "throw", whatever reacts to an event reacts to one that is in the
\* file: every cause of a line and every event a handler awaits the network for.
THEOREM ReactsToWritten == Spec => []CausesWritten
<1>1. RunInv => CausesWritten
  <2> SUFFICES ASSUME RunInv, persistFail = "throw" PROVE CausesWritten
    BY DEF CausesWritten
  <2>1. \A x \in Range(Written) : x.cause \in Known(Numbers)
    BY DEF RunInv, BusSound, Lines
  <2>2. \A t \in tasks : t.ev \in Numbers \union {0}
    BY DEF RunInv, Reacts, Task
  <2> QED BY <2>1, <2>2 DEF CausesWritten, Numbers, Known
<1> QED BY <1>1, RunStarts, RunKeeps, PTL DEF Spec

-----------------------------------------------------------------------------
(* What a web view shows: the inductive invariant. *)

ViewFields == {"phase", "sess", "sub", "start", "lastId", "rows"}
SubFields == {"owner", "topics", "position", "cursor", "delivered", "expires", "state"}

\* c is the cursor of order n, or the one before every record.
At(c, n) == (c = ZeroCursor /\ n = 0) \/ (n \in DOMAIN log /\ c = Cursor(n))

\* What a view is to be shown after order a and up to b.
Due(a, b) == {i \in DOMAIN log : a < i /\ i <= b /\ Indexed(i) /\ log[i].topic \in ViewTopics}

\* q is S in ascending order.
Rising(q, S) ==
    /\ q \in Seq(Nat) /\ Range(q) = S
    /\ \A a, b \in DOMAIN q : a < b => q[a] < q[b]

\* A lane has one directory, and no two records of it one line.
LogSound ==
    /\ IsSeq(log) /\ IsSeq(lanes) /\ lines \in Seq(Nat) /\ Len(lines) = Len(lanes)
    /\ \A l, m \in DOMAIN lanes : lanes[l] = lanes[m] => l = m
    /\ \A i \in DOMAIN log : \E l \in DOMAIN lanes : lanes[l] = log[i].lane /\ log[i].line \in 1..lines[l]
    /\ \A i, j \in DOMAIN log : log[i].lane = log[j].lane /\ log[i].line = log[j].line => i = j

Leased(row) == row = [f \in SubFields |-> row[f]] /\ row.topics = ViewTopics

SubsSound == subs = [id \in SubIds |-> subs[id]] /\ \A id \in SubIds : Leased(subs[id])

\* A subscription under way is the only one of its view.
CallSound(k) ==
    /\ calls[k].op \in {"idle", "publish", "subscribe", "ack", "revoke"}
    /\ calls[k].op = "subscribe" =>
          /\ calls[k].view \in Views /\ views[calls[k].view].phase = "subscribing"
          /\ \A j \in Calls : calls[j].op = "subscribe" /\ calls[j].view = calls[k].view => j = k
          /\ Leased(calls[k].row) /\ calls[k].row.position \in Nat
          /\ At(calls[k].row.cursor, calls[k].row.position)
    /\ calls[k].op = "ack" => calls[k].id \in SubIds /\ Leased(calls[k].row)
    /\ calls[k].op = "revoke" => \A id \in DOMAIN calls[k].rows : Leased(calls[k].rows[id])

\* What the view has shown is what it was owed up to its last event,
Showing(v, n) ==
    /\ At(views[v].lastId, n) /\ views[v].start \in Nat /\ views[v].start <= n
    /\ Rising(views[v].rows, Due(views[v].start, n))

\* and what is on the wire is the rest of what the stream has read.
Flowing(v, n) ==
    /\ streams[v] = [sub |-> views[v].sub, cursor |-> streams[v].cursor]
    /\ \E m \in Nat : At(streams[v].cursor, m) /\ n <= m /\ Rising(wire[v], Due(n, m))

Streaming == {"connecting", "retry", "open"}

ViewSound(v) ==
    /\ views[v] = [f \in ViewFields |-> views[v][f]]
    /\ views[v].phase \in Streaming => views[v].sub \in SubIds
    /\ views[v].phase \in Streaming \/ views[v].sub # Absent => \E n \in Nat : Showing(v, n)
    /\ views[v].phase = "open" => \E n \in Nat : Showing(v, n) /\ Flowing(v, n)
    /\ views[v].phase # "open" => streams[v] = Absent
    /\ views[v].phase = "subscribing" => views[v].rows = <<>>

Shapes ==
    /\ views = [v \in Views |-> views[v]] /\ streams = [v \in Views |-> streams[v]]
    /\ wire = [v \in Views |-> wire[v]] /\ calls = [k \in Calls |-> calls[k]]

\* A step leaves the records there are, and their cursors, and adds one at most.
Grown ==
    /\ \A i \in DOMAIN log : i \in DOMAIN log' /\ log'[i] = log[i] /\ Cursor(i)' = Cursor(i)
    /\ \A i \in DOMAIN log' : i \in DOMAIN log \/ i = Len(log) + 1

StreamInv ==
    /\ LogSound /\ SubsSound /\ Shapes
    /\ \A k \in Calls : CallSound(k)
    /\ \A v \in Views : ViewSound(v)

-----------------------------------------------------------------------------
(* Sets of orders and their enumerations. *)

\* Smaller elements have smaller ranks.
LEMMA Ranks ==
    ASSUME NEW S \in SUBSET Nat, IsFiniteSet(S)
    PROVE  /\ \A i \in S : Rank(i, S) \in 1..Cardinality(S)
           /\ \A i, j \in S : i <= j => Rank(i, S) <= Rank(j, S)
           /\ \A i, j \in S : Rank(i, S) = Rank(j, S) => i = j
<1> DEFINE Below(i) == {j \in S : j <= i}
<1>1. \A i : Below(i) \in SUBSET S /\ IsFiniteSet(Below(i)) /\ Cardinality(Below(i)) \in Nat
             /\ Cardinality(Below(i)) <= Cardinality(S)
  BY FS_Subset, FS_CardinalityType
<1>2. \A i, j \in S : i <= j => Below(i) \in SUBSET Below(j)
  <2> SUFFICES ASSUME NEW i \in S, NEW j \in S, i <= j, NEW k \in S, k <= i PROVE k <= j
    OBVIOUS
  <2> QED OBVIOUS
<1>3. \A i, j \in S : i <= j => Cardinality(Below(i)) <= Cardinality(Below(j))
  BY <1>1, <1>2, FS_Subset
<1>4. \A i \in S : Cardinality(Below(i)) # 0
  <2> TAKE i \in S
  <2>1. i \in Below(i)
    OBVIOUS
  <2> QED BY <1>1, <2>1, FS_EmptySet
<1>5. \A i, j \in S : i <= j /\ Cardinality(Below(i)) = Cardinality(Below(j)) => i = j
  <2> SUFFICES ASSUME NEW i \in S, NEW j \in S, i <= j, Cardinality(Below(i)) = Cardinality(Below(j))
               PROVE  i = j
    OBVIOUS
  <2>1. Below(j) = Below(i)
    BY <1>1, <1>2, FS_Subset
  <2>2. j \in Below(j)
    OBVIOUS
  <2> QED BY <2>1, <2>2
<1>6. \A i : Rank(i, S) = Cardinality(Below(i))
  BY DEF Rank
<1>7. Cardinality(S) \in Nat
  BY FS_CardinalityType
<1> HIDE DEF Below
<1>8. \A i \in S : Rank(i, S) \in 1..Cardinality(S)
  BY <1>1, <1>4, <1>6, <1>7
<1>9. \A i, j \in S : Rank(i, S) = Rank(j, S) => i = j
  <2> SUFFICES ASSUME NEW i \in S, NEW j \in S, Rank(i, S) = Rank(j, S) PROVE i = j
    OBVIOUS
  <2>1. i <= j \/ j <= i
    OBVIOUS
  <2> QED BY <1>5, <1>6, <2>1
<1> QED BY <1>3, <1>6, <1>8, <1>9

\* Every rank is taken.
LEMMA RanksOnto ==
    ASSUME NEW S \in SUBSET Nat, IsFiniteSet(S)
    PROVE  \A n \in 1..Cardinality(S) : \E i \in S : Rank(i, S) = n
<1> DEFINE n == Cardinality(S)
           f == [i \in S |-> Rank(i, S)]
<1>1. n \in Nat /\ IsFiniteSet(1..n) /\ Cardinality(1..n) = n
  BY FS_CardinalityType, FS_Interval
<1>2. f \in Injection(S, 1..n)
  BY Ranks DEF Injection, IsInjective
<1>3. f \in Surjection(S, 1..n)
  BY <1>1, <1>2, FS_Injection
<1> QED BY <1>3 DEF Surjection

\* The set in ascending order has its elements, rising.
LEMMA AscendingRises ==
    ASSUME NEW S \in SUBSET Nat, IsFiniteSet(S)
    PROVE  Rising(Ascending(S), S) /\ Len(Ascending(S)) = Cardinality(S)
<1> DEFINE q == Ascending(S)
           n == Cardinality(S)
<1>1. n \in Nat /\ q = [k \in 1..n |-> CHOOSE i \in S : Rank(i, S) = k]
  BY FS_CardinalityType DEF Ascending
<1>2. \A k \in 1..n : q[k] \in S /\ Rank(q[k], S) = k
  BY <1>1, RanksOnto
<1> HIDE DEF q
<1>3. q \in Seq(Nat) /\ Len(q) = n /\ DOMAIN q = 1..n
  <2> HIDE DEF n
  <2>1. DOMAIN q = 1..n /\ q = [k \in 1..n |-> q[k]]
    BY <1>1
  <2>2. \A k \in 1..n : q[k] \in Nat
    BY <1>2
  <2> QED BY <1>1, <2>1, <2>2
<1>4. \A i \in S : Rank(i, S) \in 1..n /\ i = q[Rank(i, S)]
  <2> SUFFICES ASSUME NEW i \in S PROVE Rank(i, S) \in 1..n /\ i = q[Rank(i, S)]
    OBVIOUS
  <2>1. Rank(i, S) \in 1..n
    BY Ranks
  <2>2. q[Rank(i, S)] \in S /\ Rank(q[Rank(i, S)], S) = Rank(i, S)
    BY <1>2, <2>1
  <2> QED BY <2>1, <2>2, Ranks
<1>5. Range(q) = S
  <2> HIDE DEF n
  <2> QED BY <1>2, <1>3, <1>4 DEF Range
<1>6. \A a, b \in 1..n : a < b => q[a] < q[b]
  <2> SUFFICES ASSUME NEW a \in 1..n, NEW b \in 1..n, a < b, ~(q[a] < q[b]) PROVE FALSE
    OBVIOUS
  <2>1. q[a] \in S /\ q[b] \in S /\ Rank(q[a], S) = a /\ Rank(q[b], S) = b
    BY <1>2
  <2>2. q[a] \in Nat /\ q[b] \in Nat
    BY <2>1
  <2>3. q[b] <= q[a]
    BY <2>2
  <2>4. Rank(q[b], S) <= Rank(q[a], S)
    BY <2>1, <2>3, Ranks
  <2> QED BY <2>1, <2>4
<1> QED BY <1>3, <1>5, <1>6 DEF Rising, q

\* With an element the first n of a set hold all before it.
LEMMA FirstDown ==
    ASSUME NEW S \in SUBSET Nat, IsFiniteSet(S), NEW n \in Nat, NEW j \in FirstOf(n, S), NEW i \in S, i <= j
    PROVE  i \in FirstOf(n, S)
BY Ranks DEF FirstOf

\* Nothing in order.
LEMMA EmptyRises == Rising(<<>>, {})
BY DEF Rising, Range

\* The values of a sequence.
LEMMA RangeIs ==
    ASSUME NEW q, NEW S, \A k \in DOMAIN q : q[k] \in S, \A i \in S : \E k \in DOMAIN q : i = q[k]
    PROVE  Range(q) = S
BY DEF Range

\* Enumerations of neighbouring stretches join.
LEMMA RisesOn ==
    ASSUME NEW q, NEW r, NEW S, NEW T, Rising(q, S), Rising(r, T), \A i \in S, j \in T : i < j
    PROVE  Rising(q \o r, S \union T)
<1>1. q \in Seq(Nat) /\ r \in Seq(Nat) /\ q \o r \in Seq(Nat) /\ Len(q \o r) = Len(q) + Len(r)
      /\ Len(q) \in Nat /\ Len(r) \in Nat /\ DOMAIN q = 1..Len(q) /\ DOMAIN r = 1..Len(r)
  BY DEF Rising
<1>2. \A k \in 1..(Len(q) + Len(r)) : (q \o r)[k] = IF k <= Len(q) THEN q[k] ELSE r[k - Len(q)]
  BY <1>1
<1>3. (\A k \in 1..Len(q) : (q \o r)[k] = q[k]) /\ \A k \in 1..Len(r) : (q \o r)[Len(q) + k] = r[k]
  BY <1>1, <1>2
<1>4. \A k \in 1..(Len(q) + Len(r)) : k \in 1..Len(q) \/ (k - Len(q) \in 1..Len(r) /\ k = Len(q) + (k - Len(q)))
  BY <1>1
<1>5. DOMAIN (q \o r) = 1..(Len(q) + Len(r))
  BY <1>1
<1>6. (\A k \in 1..Len(q) : k \in 1..(Len(q) + Len(r))) /\ \A k \in 1..Len(r) : Len(q) + k \in 1..(Len(q) + Len(r))
  BY <1>1
<1>7. Range(q) = S /\ Range(r) = T
  BY DEF Rising
<1>8. Range(q \o r) = S \union T
  <2>1. (\A k \in 1..Len(q) : q[k] \in S) /\ \A k \in 1..Len(r) : r[k] \in T
    BY <1>1, <1>7 DEF Range
  <2>2. \A k \in 1..(Len(q) + Len(r)) : (q \o r)[k] \in S \union T
    BY <1>2, <1>4, <2>1
  <2>3. (\A i \in S : \E k \in 1..Len(q) : i = q[k]) /\ \A i \in T : \E k \in 1..Len(r) : i = r[k]
    BY <1>1, <1>7 DEF Range
  <2>4. \A i \in S \union T : \E k \in 1..(Len(q) + Len(r)) : i = (q \o r)[k]
    <3> SUFFICES ASSUME NEW i \in S \union T PROVE \E k \in 1..(Len(q) + Len(r)) : i = (q \o r)[k]
      OBVIOUS
    <3>1. CASE i \in S
      <4>1. PICK k \in 1..Len(q) : i = q[k]
        BY <2>3, <3>1
      <4> QED BY <1>3, <1>6, <4>1
    <3>2. CASE i \in T
      <4>1. PICK k \in 1..Len(r) : i = r[k]
        BY <2>3, <3>2
      <4> QED BY <1>3, <1>6, <4>1
    <3> QED BY <3>1, <3>2
  <2> QED BY <1>5, <2>2, <2>4, RangeIs
<1>9. \A a, b \in DOMAIN (q \o r) : a < b => (q \o r)[a] < (q \o r)[b]
  <2> SUFFICES ASSUME NEW a \in 1..(Len(q) + Len(r)), NEW b \in 1..(Len(q) + Len(r)), a < b
               PROVE  (q \o r)[a] < (q \o r)[b]
    BY <1>5
  <2>1. CASE a \in 1..Len(q) /\ b \in 1..Len(q)
    BY <1>1, <1>3, <2>1 DEF Rising
  <2>2. CASE a \in 1..Len(q) /\ b - Len(q) \in 1..Len(r)
    <3>1. q[a] \in S /\ r[b - Len(q)] \in T
      BY <1>1, <1>7, <2>2 DEF Range
    <3> QED BY <1>1, <1>2, <2>2, <3>1
  <2>3. CASE a - Len(q) \in 1..Len(r) /\ b - Len(q) \in 1..Len(r)
    <3>1. a - Len(q) < b - Len(q) /\ (q \o r)[a] = r[a - Len(q)] /\ (q \o r)[b] = r[b - Len(q)]
      BY <1>1, <1>2, <2>3
    <3> QED BY <1>1, <2>3, <3>1 DEF Rising
  <2> QED BY <1>1, <1>4, <2>1, <2>2, <2>3
<1> QED BY <1>1, <1>8, <1>9 DEF Rising

\* The head of an enumeration is the least of its set, and the tail the rest.
LEMMA RisesFrom ==
    ASSUME NEW q, NEW S, Rising(q, S), q # <<>>
    PROVE  /\ Head(q) \in S /\ Head(q) \in Nat /\ \A i \in S : i = Head(q) \/ (i \in Nat /\ Head(q) < i)
           /\ Rising(Tail(q), S \ {Head(q)}) /\ Rising(<<Head(q)>>, {Head(q)})
<1> DEFINE n == Len(q)
           t == Tail(q)
<1>1. q \in Seq(Nat) /\ n \in Nat /\ n > 0 /\ DOMAIN q = 1..n /\ Head(q) = q[1]
  BY DEF Rising
<1>2. t \in Seq(Nat) /\ Len(t) = n - 1 /\ DOMAIN t = 1..(n - 1) /\ \A k \in 1..(n - 1) : t[k] = q[k + 1]
  BY <1>1
<1> HIDE DEF n, t
<1>3. Range(q) = S /\ \A a, b \in 1..n : a < b => q[a] < q[b]
  BY <1>1 DEF Rising
<1>4. (\A k \in 1..n : q[k] \in S /\ q[k] \in Nat) /\ \A i \in S : \E k \in 1..n : i = q[k]
  BY <1>1, <1>3 DEF Range
<1>5. 1 \in 1..n /\ (\A k \in 1..(n - 1) : k + 1 \in 1..n /\ 1 < k + 1)
      /\ \A k \in 1..n : k = 1 \/ (k - 1 \in 1..(n - 1) /\ 1 < k /\ (k - 1) + 1 = k)
  BY <1>1
<1>6. \A i \in S : i = q[1] \/ (i \in Nat /\ q[1] < i)
  BY <1>3, <1>4, <1>5
<1>7. Range(t) = S \ {q[1]}
  <2>1. \A k \in 1..(n - 1) : t[k] \in S /\ q[1] < t[k] /\ t[k] \in Nat /\ q[1] \in Nat
    BY <1>2, <1>3, <1>4, <1>5
  <2>2. \A k \in 1..(n - 1) : t[k] # q[1]
    BY <2>1
  <2>3. \A i \in S \ {q[1]} : \E k \in 1..(n - 1) : i = t[k]
    <3> SUFFICES ASSUME NEW i \in S, i # q[1] PROVE \E k \in 1..(n - 1) : i = t[k]
      OBVIOUS
    <3>1. PICK k \in 1..n : i = q[k]
      BY <1>4
    <3>2. k - 1 \in 1..(n - 1) /\ (k - 1) + 1 = k
      BY <1>5, <3>1
    <3> QED BY <1>2, <3>1, <3>2
  <2> DEFINE R == S \ {q[1]}
  <2>4. (\A k \in DOMAIN t : t[k] \in R) /\ \A i \in R : \E k \in DOMAIN t : i = t[k]
    BY <1>2, <2>1, <2>2, <2>3
  <2> HIDE DEF R
  <2>5. Range(t) = R
    BY <2>4, RangeIs
  <2> QED BY <2>5 DEF R
<1>8. \A a, b \in 1..(n - 1) : a < b => t[a] < t[b]
  <2> TAKE a, b \in 1..(n - 1)
  <2> HAVE a < b
  <2>1. a + 1 \in 1..n /\ b + 1 \in 1..n /\ a + 1 < b + 1
    BY <1>1
  <2> QED BY <1>2, <1>3, <2>1
<1>9. Rising(t, S \ {q[1]})
  BY <1>2, <1>7, <1>8 DEF Rising
<1>10. Rising(<<q[1]>>, {q[1]})
  <2>1. q[1] \in Nat
    BY <1>4, <1>5
  <2> QED BY <2>1 DEF Rising, Range
<1> QED BY <1>1, <1>4, <1>5, <1>6, <1>9, <1>10 DEF t

-----------------------------------------------------------------------------
(* Cursors and orders. *)

\* The log and the lanes are sequences.
LEMMA LogTyped ==
    ASSUME LogSound
    PROVE  /\ Len(log) \in Nat /\ DOMAIN log = 1..Len(log)
           /\ Len(lanes) \in Nat /\ DOMAIN lanes = 1..Len(lanes)
           /\ Len(lines) = Len(lanes) /\ DOMAIN lines = 1..Len(lanes)
           /\ \A l \in 1..Len(lanes) : lines[l] \in Nat
BY DEF LogSound, IsSeq, Range

\* A record's lane has its directory, whose place is the ordinal.
LEMMA Ordinals ==
    ASSUME LogSound
    PROVE  /\ \A l \in DOMAIN lanes : LaneOrdinal(lanes[l]) = l
           /\ \A i \in DOMAIN log : /\ LaneOrdinal(log[i].lane) \in DOMAIN lanes
                                    /\ lanes[LaneOrdinal(log[i].lane)] = log[i].lane
                                    /\ log[i].line \in 1..lines[LaneOrdinal(log[i].lane)]
<1>1. ASSUME NEW l \in DOMAIN lanes PROVE LaneOrdinal(lanes[l]) = l
  <2>1. Contains(lanes, lanes[l])
    BY LogTyped DEF Contains
  <2>2. \A m \in DOMAIN lanes : lanes[m] = lanes[l] => m = l
    BY DEF LogSound
  <2> QED BY <2>1, <2>2 DEF LaneOrdinal
<1>2. ASSUME NEW i \in DOMAIN log
      PROVE  /\ LaneOrdinal(log[i].lane) \in DOMAIN lanes
             /\ lanes[LaneOrdinal(log[i].lane)] = log[i].lane
             /\ log[i].line \in 1..lines[LaneOrdinal(log[i].lane)]
  <2>1. PICK l \in DOMAIN lanes : lanes[l] = log[i].lane /\ log[i].line \in 1..lines[l]
    BY DEF LogSound
  <2>2. LaneOrdinal(log[i].lane) = l
    BY <1>1, <2>1
  <2> QED BY <2>1, <2>2
<1> QED BY <1>1, <1>2

\* A cursor names one record, and never the place before all.
LEMMA CursorsDiffer ==
    ASSUME LogSound
    PROVE  /\ \A i, j \in DOMAIN log : Cursor(i) = Cursor(j) => i = j
           /\ \A i \in DOMAIN log : Cursor(i)[1] # 0
<1>1. ASSUME NEW i \in DOMAIN log, NEW j \in DOMAIN log, Cursor(i) = Cursor(j)
      PROVE  i = j
  <2>1. LaneOrdinal(log[i].lane) = LaneOrdinal(log[j].lane) /\ log[i].line = log[j].line
    BY <1>1 DEF Cursor
  <2>2. log[i].lane = log[j].lane
    BY <2>1, Ordinals
  <2> QED BY <2>1, <2>2 DEF LogSound
<1>2. ASSUME NEW i \in DOMAIN log PROVE Cursor(i)[1] # 0
  <2>1. LaneOrdinal(log[i].lane) \in DOMAIN lanes
    BY Ordinals
  <2> QED BY <2>1, LogTyped DEF Cursor
<1> QED BY <1>1, <1>2

\* The stream finds the order a cursor stands for.
LEMMA OrderAt ==
    ASSUME LogSound, NEW c, NEW n, At(c, n)
    PROVE  OrderOf(c) = n /\ n \in 0..Len(log)
<1>1. CASE c = ZeroCursor /\ n = 0
  <2>1. \A i \in DOMAIN log : Cursor(i)[1] # c[1] /\ Cursor(i) # c
    BY <1>1, CursorsDiffer DEF ZeroCursor
  <2>2. ResolveCursor(c) = Absent
    BY <2>1 DEF ResolveCursor
  <2> QED BY <1>1, <2>2, LogTyped DEF OrderOf
<1>2. CASE n \in DOMAIN log /\ c = Cursor(n)
  <2>1. \A i \in DOMAIN log : Cursor(i) = c => i = n
    BY <1>2, CursorsDiffer
  <2>2. ResolveCursor(c) = n
    BY <1>2, <2>1 DEF ResolveCursor
  <2>3. n \in Nat
    BY <1>2, LogTyped
  <2> QED BY <1>2, <2>2, <2>3, LogTyped, StreamAssumption DEF OrderOf
<1> QED BY <1>1, <1>2 DEF At

\* The head is where a lease begins.
LEMMA HeadAt ==
    ASSUME LogSound
    PROVE  At(GlobalHead.cursor, GlobalHead.order) /\ GlobalHead.order \in Nat
BY LogTyped DEF GlobalHead, At

\* What is due is a finite set of orders.
LEMMA DueIn ==
    ASSUME LogSound, NEW a, NEW b
    PROVE  Due(a, b) \in SUBSET Nat /\ IsFiniteSet(Due(a, b))
<1>1. Len(log) \in Nat /\ Due(a, b) \in SUBSET (1..Len(log))
  BY LogTyped DEF Due
<1>2. IsFiniteSet(1..Len(log)) /\ \A i \in 1..Len(log) : i \in Nat
  BY <1>1, FS_Interval
<1> QED BY <1>1, <1>2, FS_Subset

\* Stretches of what is due join.
LEMMA DueJoins ==
    ASSUME LogSound, NEW a \in Nat, NEW b \in Nat, NEW c \in Nat, a <= b, b <= c
    PROVE  /\ Due(a, b) \union Due(b, c) = Due(a, c)
           /\ \A i \in Due(a, b), j \in Due(b, c) : i < j
<1>1. DOMAIN log \in SUBSET Nat
  BY LogTyped
<1>2. ASSUME NEW i \in DOMAIN log
      PROVE  (i \in Due(a, b) \/ i \in Due(b, c)) <=> i \in Due(a, c)
  <2>1. i \in Nat
    BY <1>1
  <2> QED BY <2>1 DEF Due
<1>3. ASSUME NEW i \in Due(a, b), NEW j \in Due(b, c) PROVE i < j
  <2>1. i \in Nat /\ j \in Nat /\ i <= b /\ b < j
    BY <1>1 DEF Due
  <2> QED BY <2>1
<1>4. Due(a, b) \in SUBSET DOMAIN log /\ Due(b, c) \in SUBSET DOMAIN log /\ Due(a, c) \in SUBSET DOMAIN log
  BY DEF Due
<1> QED BY <1>2, <1>3, <1>4

\* A read of a stream finds what is due up to the last of its frames.
LEMMA FramesDue ==
    ASSUME LogSound, NEW sub, sub.topics = ViewTopics, NEW n \in Nat, Frames(sub, n) # <<>>
    PROVE  LET m == Last(Frames(sub, n))
           IN  m \in DOMAIN log /\ n <= m /\ Rising(Frames(sub, n), Due(n, m))
<1> DEFINE E == EventsAfter(n)
           F == {i \in FirstOf(ScanMax, E) : Wanted(sub, i)}
           B == FirstOf(Batch, F)
           q == Frames(sub, n)
           m == Last(q)
<1>1. IsFiniteSet(DOMAIN log) /\ DOMAIN log \in SUBSET Nat
  <2>1. Len(log) \in Nat /\ DOMAIN log = 1..Len(log)
    BY LogTyped
  <2>2. IsFiniteSet(1..Len(log)) /\ \A i \in 1..Len(log) : i \in Nat
    BY <2>1, FS_Interval
  <2> QED BY <2>1, <2>2
<1>2. E \in SUBSET Nat /\ IsFiniteSet(E) /\ E \in SUBSET DOMAIN log
  <2>1. E \in SUBSET DOMAIN log
    BY DEF EventsAfter
  <2> QED BY <1>1, <2>1, FS_Subset
<1>3. F \in SUBSET Nat /\ IsFiniteSet(F) /\ F \in SUBSET E
  <2>1. F \in SUBSET E
    BY DEF FirstOf
  <2> HIDE DEF E, F
  <2> QED BY <1>2, <2>1, FS_Subset
<1>4. B \in SUBSET Nat /\ IsFiniteSet(B) /\ B \in SUBSET F
  <2>1. B \in SUBSET F
    BY DEF FirstOf
  <2> HIDE DEF F, B
  <2> QED BY <1>3, <2>1, FS_Subset
<1>5. Rising(q, B)
  BY <1>4, AscendingRises DEF Frames
<1>6. \A i \in E : \A j \in FirstOf(ScanMax, E) : i <= j => i \in FirstOf(ScanMax, E)
  BY <1>2, FirstDown, StreamAssumption
<1>7. \A i \in F : \A j \in B : i <= j => i \in B
  BY <1>3, FirstDown, StreamAssumption
<1>8. \A j \in B : j \in FirstOf(ScanMax, E)
  BY <1>4
<1>9. \A i \in E : i \in FirstOf(ScanMax, E) /\ log[i].topic \in ViewTopics => i \in F
  BY DEF Wanted
<1>10. \A i \in B : i \in E /\ log[i].topic \in ViewTopics
  BY <1>3, <1>4 DEF Wanted
<1> HIDE DEF B, F
<1>11. q # <<>>
  OBVIOUS
<1> HIDE DEF q
<1>12. m \in B /\ \A i \in B : i <= m
  <2>1. q \in Seq(Nat) /\ Range(q) = B /\ \A a, b \in DOMAIN q : a < b => q[a] < q[b]
    BY <1>5 DEF Rising
  <2>2. Len(q) \in Nat /\ Len(q) > 0 /\ DOMAIN q = 1..Len(q) /\ m = q[Len(q)] /\ Len(q) \in DOMAIN q
    BY <1>11, <2>1 DEF Last
  <2>3. m \in B
    BY <2>1, <2>2 DEF Range
  <2>4. ASSUME NEW i \in B PROVE i <= m
    <3>1. PICK k \in DOMAIN q : i = q[k]
      BY <2>1 DEF Range
    <3>2. k = Len(q) \/ k < Len(q)
      BY <2>2, <3>1
    <3>3. i \in Nat /\ m \in Nat
      BY <1>4, <2>3
    <3> QED BY <2>1, <2>2, <3>1, <3>2, <3>3
  <2> QED BY <2>3, <2>4
<1> HIDE DEF m, E
<1>13. m \in DOMAIN log /\ m \in E /\ m \in Nat /\ n < m
  BY <1>1, <1>2, <1>10, <1>12 DEF EventsAfter, E
<1>14. B = Due(n, m)
  <2>1. ASSUME NEW i \in B PROVE i \in Due(n, m)
    <3>1. i \in E /\ log[i].topic \in ViewTopics /\ i <= m
      BY <1>10, <1>12
    <3>2. i \in DOMAIN log /\ i > n /\ Indexed(i) /\ i \in Nat
      BY <1>1, <3>1 DEF E, EventsAfter
    <3> QED BY <3>1, <3>2 DEF Due
  <2>2. ASSUME NEW i \in Due(n, m) PROVE i \in B
    <3>1. i \in E /\ i <= m /\ log[i].topic \in ViewTopics
      BY <1>1 DEF Due, E, EventsAfter
    <3>2. i \in FirstOf(ScanMax, E)
      BY <1>6, <1>8, <1>12, <3>1
    <3>3. i \in F
      BY <1>9, <3>1, <3>2
    <3> QED BY <1>7, <1>12, <3>1, <3>3
  <2> QED BY <2>1, <2>2
<1>15. n <= m
  BY <1>13
<1>16. m \in DOMAIN log /\ n <= m /\ Rising(q, Due(n, m))
  BY <1>5, <1>13, <1>14, <1>15
<1> QED BY <1>16 DEF m, q

-----------------------------------------------------------------------------
(* The log grows. *)

\* A sequence and one more.
LEMMA Longer ==
    ASSUME NEW q, IsSeq(q), NEW x
    PROVE  /\ IsSeq(Append(q, x)) /\ Len(q) \in Nat /\ Len(Append(q, x)) = Len(q) + 1
           /\ DOMAIN q = 1..Len(q) /\ DOMAIN Append(q, x) = 1..(Len(q) + 1)
           /\ Append(q, x)[Len(q) + 1] = x /\ \A i \in 1..Len(q) : Append(q, x)[i] = q[i]
<1> DEFINE S == {q[i] : i \in DOMAIN q}
           T == S \union {x}
<1>1. q \in Seq(T) /\ x \in T
  <2>1. q \in Seq(S)
    BY DEF IsSeq, Range
  <2> QED BY <2>1
<1> HIDE DEF T
<1>2. Append(q, x) \in Seq(T)
  BY <1>1
<1>3. /\ Len(q) \in Nat /\ DOMAIN q = 1..Len(q) /\ Len(Append(q, x)) = Len(q) + 1
      /\ Append(q, x)[Len(q) + 1] = x /\ \A i \in 1..Len(q) : Append(q, x)[i] = q[i]
  BY <1>1
<1>4. DOMAIN Append(q, x) = 1..(Len(q) + 1)
  BY <1>2, <1>3
<1>5. IsSeq(Append(q, x))
  BY <1>2, SeqIsSeq
<1> QED BY <1>3, <1>4, <1>5

\* A step that leaves the log leaves its cursors.
LEMMA SameLog ==
    ASSUME LogSound, log' = log, lanes' = lanes, lines' = lines
    PROVE  LogSound' /\ Grown
BY DEF LogSound, IsSeq, Range, Grown, Cursor, LaneOrdinal, Contains

\* A lane's directory and its next line, as Append1 and Orphan make them.
LEMMA LaneGrows ==
    ASSUME LogSound, NEW lane,
           LET l == LaneOrdinal(lane)
           IN  /\ lanes' = IF l > Len(lanes) THEN Append(lanes, lane) ELSE lanes
               /\ lines' = IF l > Len(lanes) THEN Append(lines, 1) ELSE [lines EXCEPT ![l] = @ + 1]
    PROVE  /\ IsSeq(lanes') /\ lines' \in Seq(Nat) /\ Len(lines') = Len(lanes')
           /\ \A l, m \in DOMAIN lanes' : lanes'[l] = lanes'[m] => l = m
           /\ \A l \in DOMAIN lanes : l \in DOMAIN lanes' /\ lanes'[l] = lanes[l] /\ lines'[l] >= lines[l]
           /\ \E l \in DOMAIN lanes' :
                 /\ l = LaneOrdinal(lane) /\ lanes'[l] = lane
                 /\ lines'[l] = (IF l > Len(lanes) THEN 1 ELSE lines[l] + 1)
                 /\ l \in DOMAIN lanes => lines'[l] = lines[l] + 1
                 /\ l \notin DOMAIN lanes => \A m \in DOMAIN lanes : lanes[m] # lane
<1> DEFINE l == LaneOrdinal(lane)
           n == Len(lanes)
<1>1. n \in Nat /\ DOMAIN lanes = 1..n /\ Len(lines) = n /\ DOMAIN lines = 1..n
      /\ (\A m \in 1..n : lines[m] \in Nat) /\ lines \in Seq(Nat)
  BY LogTyped DEF LogSound
<1>2. (l \in 1..n /\ lanes[l] = lane) \/ (l = n + 1 /\ \A m \in 1..n : lanes[m] # lane)
  <2>1. CASE Contains(lanes, lane)
    <3>1. \E m \in DOMAIN lanes : lanes[m] = lane
      BY <1>1, <2>1 DEF Contains
    <3>2. l \in DOMAIN lanes /\ lanes[l] = lane
      BY <2>1, <3>1 DEF LaneOrdinal
    <3> QED BY <1>1, <3>2
  <2>2. CASE ~Contains(lanes, lane)
    BY <1>1, <2>2 DEF Contains, LaneOrdinal
  <2> QED BY <2>1, <2>2
<1>3. /\ lanes' = IF l > n THEN Append(lanes, lane) ELSE lanes
      /\ lines' = IF l > n THEN Append(lines, 1) ELSE [lines EXCEPT ![l] = @ + 1]
  OBVIOUS
<1> HIDE DEF l, n
<1>4. CASE l \in 1..n /\ lanes[l] = lane
  <2>1. ~(l > n)
    BY <1>1, <1>4
  <2>2. lanes' = lanes /\ lines' = [lines EXCEPT ![l] = @ + 1]
    BY <1>3, <2>1
  <2>3. /\ lines' \in Seq(Nat) /\ Len(lines') = n /\ lines'[l] = lines[l] + 1
        /\ \A m \in 1..n : m # l => lines'[m] = lines[m]
    BY <1>1, <1>4, <2>2
  <2>4. /\ IsSeq(lanes') /\ \A a, b \in DOMAIN lanes' : lanes'[a] = lanes'[b] => a = b
    BY <2>2 DEF LogSound, IsSeq, Range
  <2>5. \A m \in DOMAIN lanes : m \in DOMAIN lanes' /\ lanes'[m] = lanes[m] /\ lines'[m] >= lines[m]
    BY <1>1, <2>2, <2>3
  <2> QED BY <1>1, <1>4, <2>1, <2>2, <2>3, <2>4, <2>5 DEF l, n
<1>5. CASE l = n + 1 /\ \A m \in 1..n : lanes[m] # lane
  <2>1. l > n
    BY <1>1, <1>5
  <2>2. lanes' = Append(lanes, lane) /\ lines' = Append(lines, 1)
    BY <1>3, <2>1
  <2>3. /\ lines' \in Seq(Nat) /\ Len(lines') = n + 1 /\ lines'[n + 1] = 1
        /\ \A m \in 1..n : lines'[m] = lines[m]
    BY <1>1, <2>2
  <2>5. /\ DOMAIN lanes' = 1..(n + 1) /\ Len(lanes') = n + 1 /\ lanes'[n + 1] = lane
        /\ \A m \in 1..n : lanes'[m] = lanes[m]
    <3>1. IsSeq(lanes)
      BY DEF LogSound
    <3>2. /\ DOMAIN Append(lanes, lane) = 1..(Len(lanes) + 1) /\ Len(Append(lanes, lane)) = Len(lanes) + 1
          /\ Append(lanes, lane)[Len(lanes) + 1] = lane
          /\ \A m \in 1..Len(lanes) : Append(lanes, lane)[m] = lanes[m]
      BY <3>1, Longer
    <3> QED BY <2>2, <3>2 DEF n
  <2>6. IsSeq(lanes')
    BY <2>2, Longer DEF LogSound
  <2>7. \A a, b \in DOMAIN lanes' : lanes'[a] = lanes'[b] => a = b
    <3> SUFFICES ASSUME NEW a \in 1..(n + 1), NEW b \in 1..(n + 1), lanes'[a] = lanes'[b] PROVE a = b
      BY <2>5
    <3>1. (a \in 1..n \/ a = n + 1) /\ (b \in 1..n \/ b = n + 1)
      BY <1>1
    <3>2. \A x, y \in 1..n : lanes[x] = lanes[y] => x = y
      BY <1>1 DEF LogSound
    <3> QED BY <1>5, <2>5, <3>1, <3>2
  <2>8. l \in DOMAIN lanes' /\ lanes'[l] = lane /\ lines'[l] = 1 /\ l \notin DOMAIN lanes
    BY <1>1, <1>5, <2>1, <2>3, <2>5
  <2>9. \A m \in DOMAIN lanes : m \in DOMAIN lanes' /\ lanes'[m] = lanes[m] /\ lines'[m] >= lines[m]
    BY <1>1, <2>3, <2>5
  <2> QED BY <1>1, <1>5, <2>1, <2>3, <2>5, <2>6, <2>7, <2>8, <2>9 DEF l, n
<1> QED BY <1>2, <1>4, <1>5

\* A directory keeps its place when one is made after it.
LEMMA OrdinalsStay ==
    ASSUME LogSound, LogSound',
           \A l \in DOMAIN lanes : l \in DOMAIN lanes' /\ lanes'[l] = lanes[l]
    PROVE  \A i \in DOMAIN log : i \in DOMAIN log' /\ log'[i] = log[i] => Cursor(i)' = Cursor(i)
<1> SUFFICES ASSUME NEW i \in DOMAIN log, i \in DOMAIN log', log'[i] = log[i]
             PROVE  Cursor(i)' = Cursor(i)
  OBVIOUS
<1>1. PICK l \in DOMAIN lanes : lanes[l] = log[i].lane
  BY DEF LogSound
<1>2. LaneOrdinal(lanes[l]) = l
  BY Ordinals
<1>3. l \in DOMAIN lanes' /\ lanes'[l] = log[i].lane /\ DOMAIN lanes' = 1..Len(lanes')
      /\ \A m \in DOMAIN lanes' : lanes'[m] = lanes'[l] => m = l
  <2>1. IsSeq(lanes') /\ \A a, b \in DOMAIN lanes' : lanes'[a] = lanes'[b] => a = b
    BY DEF LogSound, IsSeq, Range
  <2>2. DOMAIN lanes' = 1..Len(lanes')
    BY <2>1 DEF IsSeq, Range
  <2>3. l \in DOMAIN lanes' /\ lanes'[l] = log[i].lane
    BY <1>1
  <2> QED BY <2>1, <2>2, <2>3
<1>4. LaneOrdinal(log[i].lane)' = l
  BY <1>3 DEF LaneOrdinal, Contains
<1> QED BY <1>1, <1>2, <1>4 DEF Cursor

\* A commit adds one record with a line of its own.
LEMMA AppendGrows ==
    ASSUME LogSound, NEW content, Append1(content)
    PROVE  LogSound' /\ Grown
<1> DEFINE r == [lane |-> content.lane, topic |-> content.topic, slot |-> content.slot, raw |-> content.raw,
                 line |-> IF LaneOrdinal(content.lane) > Len(lanes) THEN 1 ELSE lines[LaneOrdinal(content.lane)] + 1,
                 row |-> ~\E i \in EventSlot(content) : log[i].raw = content.raw]
           lane == content.lane
<1>1. /\ lanes' = IF LaneOrdinal(lane) > Len(lanes) THEN Append(lanes, lane) ELSE lanes
      /\ lines' = IF LaneOrdinal(lane) > Len(lanes) THEN Append(lines, 1)
                  ELSE [lines EXCEPT ![LaneOrdinal(lane)] = @ + 1]
      /\ log' = Append(log, r)
  BY DEF Append1
<1>2. r.lane = lane /\ r.line = IF LaneOrdinal(lane) > Len(lanes) THEN 1 ELSE lines[LaneOrdinal(lane)] + 1
  OBVIOUS
<1> HIDE DEF r, lane
<1>3. /\ IsSeq(lanes') /\ lines' \in Seq(Nat) /\ Len(lines') = Len(lanes')
      /\ \A l, m \in DOMAIN lanes' : lanes'[l] = lanes'[m] => l = m
      /\ \A l \in DOMAIN lanes : l \in DOMAIN lanes' /\ lanes'[l] = lanes[l] /\ lines'[l] >= lines[l]
  BY <1>1, LaneGrows
<1>4. PICK k \in DOMAIN lanes' :
          /\ k = LaneOrdinal(lane) /\ lanes'[k] = lane
          /\ lines'[k] = (IF k > Len(lanes) THEN 1 ELSE lines[k] + 1)
          /\ k \in DOMAIN lanes => lines'[k] = lines[k] + 1
          /\ k \notin DOMAIN lanes => \A m \in DOMAIN lanes : lanes[m] # lane
  BY <1>1, LaneGrows
<1>13. lines'[k] = r.line
  BY <1>2, <1>4
<1>5. /\ IsSeq(log') /\ Len(log) \in Nat /\ DOMAIN log = 1..Len(log) /\ DOMAIN log' = 1..(Len(log) + 1)
      /\ log'[Len(log) + 1] = r /\ \A i \in 1..Len(log) : log'[i] = log[i]
  BY <1>1, Longer DEF LogSound
<1>6. /\ DOMAIN lines = DOMAIN lanes /\ DOMAIN lines' = DOMAIN lanes'
      /\ (\A l \in DOMAIN lanes : lines[l] \in Nat) /\ \A l \in DOMAIN lanes' : lines'[l] \in Nat
  BY <1>3, LogTyped DEF IsSeq, Range
<1>7. ASSUME NEW i \in 1..Len(log)
      PROVE  \E l \in DOMAIN lanes : lanes[l] = log[i].lane /\ log[i].line \in 1..lines[l]
  BY <1>5 DEF LogSound
<1>8. ASSUME NEW i \in DOMAIN log'
      PROVE  \E l \in DOMAIN lanes' : lanes'[l] = log'[i].lane /\ log'[i].line \in 1..lines'[l]
  <2>1. CASE i \in 1..Len(log)
    <3>1. PICK l \in DOMAIN lanes : lanes[l] = log[i].lane /\ log[i].line \in 1..lines[l]
      BY <1>7, <2>1
    <3>2. log[i].line \in 1..lines'[l] /\ l \in DOMAIN lanes' /\ lanes'[l] = log'[i].lane /\ log'[i] = log[i]
      BY <1>3, <1>5, <1>6, <2>1, <3>1
    <3> QED BY <3>2
  <2>2. CASE i = Len(log) + 1
    <3>1. r.line \in 1..lines'[k]
      <4>1. k \in DOMAIN lanes \/ k > Len(lanes)
        BY <1>3, <1>4, LogTyped DEF IsSeq, Range
      <4>2. r.line >= 1 /\ lines'[k] \in Nat
        BY <1>4, <1>6, <1>13, <4>1
      <4> QED BY <1>13, <4>2
    <3> QED BY <1>2, <1>4, <1>5, <2>2, <3>1
  <2> QED BY <1>5, <2>1, <2>2
<1>9. ASSUME NEW i \in 1..Len(log), log[i].lane = r.lane
      PROVE  log[i].line # r.line
  <2>1. PICK l \in DOMAIN lanes : lanes[l] = log[i].lane /\ log[i].line \in 1..lines[l]
    BY <1>7
  <2>2. l = k
    BY <1>2, <1>3, <1>4, <1>9, <2>1
  <2>3. k \in DOMAIN lanes /\ lines[k] \in Nat /\ r.line = lines[k] + 1
    BY <1>4, <1>6, <1>13, <2>1, <2>2
  <2> QED BY <2>1, <2>2, <2>3
<1>10. \A i, j \in DOMAIN log' : log'[i].lane = log'[j].lane /\ log'[i].line = log'[j].line => i = j
  <2> SUFFICES ASSUME NEW i \in 1..(Len(log) + 1), NEW j \in 1..(Len(log) + 1),
                      log'[i].lane = log'[j].lane, log'[i].line = log'[j].line
               PROVE  i = j
    BY <1>5
  <2>1. (i \in 1..Len(log) \/ i = Len(log) + 1) /\ (j \in 1..Len(log) \/ j = Len(log) + 1)
    BY <1>5
  <2>2. \A x, y \in 1..Len(log) : log[x].lane = log[y].lane /\ log[x].line = log[y].line => x = y
    BY <1>5 DEF LogSound
  <2> QED BY <1>5, <1>9, <2>1, <2>2
<1>11. LogSound'
  BY <1>3, <1>5, <1>8, <1>10, <1>6 DEF LogSound, IsSeq, Range
<1>12. \A i \in DOMAIN log : Cursor(i)' = Cursor(i)
  BY <1>3, <1>5, <1>11, OrdinalsStay
<1> QED BY <1>5, <1>11, <1>12 DEF Grown

\* A line nobody committed moves no record.
LEMMA OrphanGrows ==
    ASSUME LogSound, NEW content, Orphan(content)
    PROVE  LogSound' /\ Grown
<1> DEFINE lane == content.lane
<1>1. /\ lanes' = IF LaneOrdinal(lane) > Len(lanes) THEN Append(lanes, lane) ELSE lanes
      /\ lines' = IF LaneOrdinal(lane) > Len(lanes) THEN Append(lines, 1)
                  ELSE [lines EXCEPT ![LaneOrdinal(lane)] = @ + 1]
      /\ log' = log
  BY DEF Orphan
<1> HIDE DEF lane
<1>3. /\ IsSeq(lanes') /\ lines' \in Seq(Nat) /\ Len(lines') = Len(lanes')
      /\ \A l, m \in DOMAIN lanes' : lanes'[l] = lanes'[m] => l = m
      /\ \A l \in DOMAIN lanes : l \in DOMAIN lanes' /\ lanes'[l] = lanes[l] /\ lines'[l] >= lines[l]
  BY <1>1, LaneGrows
<1>6. /\ DOMAIN lines = DOMAIN lanes /\ DOMAIN lines' = DOMAIN lanes'
      /\ (\A l \in DOMAIN lanes : lines[l] \in Nat) /\ \A l \in DOMAIN lanes' : lines'[l] \in Nat
  BY <1>3, LogTyped DEF IsSeq, Range
<1>8. ASSUME NEW i \in DOMAIN log
      PROVE  \E l \in DOMAIN lanes' : lanes'[l] = log[i].lane /\ log[i].line \in 1..lines'[l]
  <2>1. PICK l \in DOMAIN lanes : lanes[l] = log[i].lane /\ log[i].line \in 1..lines[l]
    BY DEF LogSound
  <2> QED BY <1>3, <1>6, <2>1
<1>9. IsSeq(log') /\ \A i, j \in DOMAIN log' : log'[i].lane = log'[j].lane /\ log'[i].line = log'[j].line => i = j
  BY <1>1 DEF LogSound, IsSeq, Range
<1>11. LogSound'
  BY <1>1, <1>3, <1>8, <1>9 DEF LogSound, IsSeq, Range
<1>12. \A i \in DOMAIN log : Cursor(i)' = Cursor(i)
  BY <1>1, <1>3, <1>11, OrdinalsStay
<1> QED BY <1>1, <1>11, <1>12 DEF Grown

-----------------------------------------------------------------------------
(* What a longer log leaves. *)

\* A cursor stands for the same order after a step.
LEMMA AtStays ==
    ASSUME Grown, NEW c, NEW n, At(c, n)
    PROVE  At(c, n)'
BY DEF Grown, At

\* What was due up to an order of the log stays so.
LEMMA DueStays ==
    ASSUME LogSound, Grown, NEW a, NEW b \in 0..Len(log)
    PROVE  Due(a, b)' = Due(a, b)
<1>1. Len(log) \in Nat /\ DOMAIN log = 1..Len(log)
  BY LogTyped
<1>2. ASSUME NEW i \in Due(a, b) PROVE i \in Due(a, b)'
  <2>1. i \in DOMAIN log' /\ log'[i] = log[i]
    BY DEF Due, Grown
  <2> QED BY <2>1 DEF Due, Indexed
<1>3. ASSUME NEW i \in Due(a, b)' PROVE i \in Due(a, b)
  <2>1. i \in DOMAIN log' /\ i <= b
    BY DEF Due
  <2>2. i \in DOMAIN log /\ log'[i] = log[i]
    BY <1>1, <2>1 DEF Grown
  <2> QED BY <2>2 DEF Due, Indexed
<1> QED BY <1>2, <1>3

\* A view that a step does not touch.
LEMMA ViewStays ==
    ASSUME LogSound, Grown, NEW v \in Views, ViewSound(v), SubIds \subseteq SubIds',
           views'[v] = [f \in ViewFields |-> views'[v][f]],
           \A f \in ViewFields \ {"sess"} : views'[v][f] = views[v][f],
           streams'[v] = streams[v], wire'[v] = wire[v]
    PROVE  ViewSound(v)'
<1>1. /\ views'[v].phase = views[v].phase /\ views'[v].sub = views[v].sub /\ views'[v].start = views[v].start
      /\ views'[v].lastId = views[v].lastId /\ views'[v].rows = views[v].rows
  BY DEF ViewFields
<1>2. \A n \in Nat : Showing(v, n) => Showing(v, n)'
  <2> SUFFICES ASSUME NEW n \in Nat, Showing(v, n) PROVE Showing(v, n)'
    OBVIOUS
  <2>1. At(views[v].lastId, n) /\ n \in 0..Len(log)
    BY OrderAt DEF Showing
  <2>2. At(views[v].lastId, n)'
    BY <1>1, <2>1 DEF At, Grown
  <2>3. Due(views[v].start, n)' = Due(views[v].start, n)
    BY <1>1, <2>1, DueStays DEF Due
  <2> QED BY <1>1, <2>2, <2>3 DEF Showing, Rising
<1>3. \A n \in Nat : Flowing(v, n) => Flowing(v, n)'
  <2> SUFFICES ASSUME NEW n \in Nat, Flowing(v, n) PROVE Flowing(v, n)'
    OBVIOUS
  <2>1. PICK m \in Nat : At(streams[v].cursor, m) /\ n <= m /\ Rising(wire[v], Due(n, m))
    BY DEF Flowing
  <2>2. m \in 0..Len(log)
    BY <2>1, OrderAt
  <2>3. At(streams[v].cursor, m)'
    BY <2>1 DEF At, Grown
  <2>4. Due(n, m)' = Due(n, m)
    BY <2>2, DueStays
  <2> QED BY <1>1, <2>1, <2>3, <2>4 DEF Flowing, Rising
<1> QED BY <1>1, <1>2, <1>3 DEF ViewSound

\* A view that a step leaves without a stream, and its rows as they were.
LEMMA ViewStops ==
    ASSUME LogSound, Grown, NEW v \in Views, ViewSound(v), SubIds \subseteq SubIds',
           views'[v] = [f \in ViewFields |-> views'[v][f]],
           \A f \in ViewFields \ {"phase"} : views'[v][f] = views[v][f],
           views'[v].phase # "open", views'[v].phase \in Streaming => views[v].phase \in Streaming,
           views'[v].phase # "subscribing",
           streams'[v] = Absent
    PROVE  ViewSound(v)'
<1>1. /\ views'[v].sub = views[v].sub /\ views'[v].start = views[v].start
      /\ views'[v].lastId = views[v].lastId /\ views'[v].rows = views[v].rows
  BY DEF ViewFields
<1>2. \A n \in Nat : Showing(v, n) => Showing(v, n)'
  <2> SUFFICES ASSUME NEW n \in Nat, Showing(v, n) PROVE Showing(v, n)'
    OBVIOUS
  <2>1. At(views[v].lastId, n) /\ n \in 0..Len(log)
    BY OrderAt DEF Showing
  <2>2. At(views[v].lastId, n)'
    BY <1>1, <2>1 DEF At, Grown
  <2>3. Due(views[v].start, n)' = Due(views[v].start, n)
    BY <1>1, <2>1, DueStays DEF Due
  <2> QED BY <1>1, <2>2, <2>3 DEF Showing, Rising
<1> QED BY <1>1, <1>2 DEF ViewSound

\* A call that a step does not touch.
LEMMA CallStays ==
    ASSUME Grown, NEW k \in Calls, CallSound(k), SubIds \subseteq SubIds', calls'[k] = calls[k],
           \A j \in Calls : calls'[j].op = "subscribe" => calls'[j] = calls[j] \/ calls'[j].view # calls[k].view,
           calls[k].op = "subscribe" => views'[calls[k].view].phase = "subscribing"
    PROVE  CallSound(k)'
<1>1. calls[k].op = "subscribe" => At(calls[k].row.cursor, calls[k].row.position)'
  BY DEF CallSound, At, Grown
<1>2. \A j \in Calls : calls'[j].op = "subscribe" /\ calls'[j].view = calls'[k].view =>
          calls[j].op = "subscribe" /\ calls[j].view = calls[k].view
  OBVIOUS
<1> QED BY <1>1, <1>2 DEF CallSound, Leased

-----------------------------------------------------------------------------
(* The steps. *)

Shaped(vs) == vs = [v \in Views |-> vs[v]] /\ \A v \in Views : vs[v] = [f \in ViewFields |-> vs[v][f]]

\* Steps that leave the tables, the calls, the streams and, but for a view's
\* session, the views.
LEMMA QuietKeeps ==
    ASSUME StreamInv, log' = log, lanes' = lanes, lines' = lines, subs' = subs, calls' = calls,
           streams' = streams, wire' = wire, Shaped(views'),
           \A v \in Views : \A f \in ViewFields \ {"sess"} : views'[v][f] = views[v][f]
    PROVE  StreamInv'
<1>1. LogSound /\ LogSound' /\ Grown
  BY SameLog DEF StreamInv
<1>0. SubsSound' /\ SubIds \subseteq SubIds'
  BY DEF StreamInv, SubsSound, SubIds, Leased
<1>2. Shapes'
  BY DEF StreamInv, Shapes, Shaped
<1>3. ASSUME NEW v \in Views PROVE ViewSound(v)'
  <2>1. ViewSound(v) /\ streams'[v] = streams[v] /\ wire'[v] = wire[v]
        /\ views'[v] = [f \in ViewFields |-> views'[v][f]]
        /\ \A f \in ViewFields \ {"sess"} : views'[v][f] = views[v][f]
    BY DEF StreamInv, Shaped
  <2> QED BY <1>0, <1>1, <2>1, ViewStays
<1>4. ASSUME NEW k \in Calls PROVE CallSound(k)'
  <2>1. CallSound(k)
    BY DEF StreamInv
  <2>2. calls[k].op = "subscribe" => views'[calls[k].view].phase = "subscribing"
    BY <2>1 DEF CallSound, ViewFields
  <2>3. calls'[k] = calls[k] /\ \A j \in Calls : calls'[j].op = "subscribe" => calls'[j] = calls[j]
    OBVIOUS
  <2> QED BY <1>0, <1>1, <2>1, <2>2, <2>3, CallStays
<1> QED BY <1>0, <1>1, <1>2, <1>3, <1>4 DEF StreamInv

\* A call other than a subscription decides, and awaits its commit.
LEMMA AwaitKeeps ==
    ASSUME StreamInv, log' = log, lanes' = lanes, lines' = lines, subs' = subs,
           streams' = streams, wire' = wire, views' = views,
           NEW k \in Calls, NEW call, calls' = [calls EXCEPT ![k] = call], call.op \in {"publish", "ack", "revoke"},
           call.op = "ack" => call.id \in SubIds /\ Leased(call.row),
           call.op = "revoke" => \A id \in DOMAIN call.rows : Leased(call.rows[id])
    PROVE  StreamInv'
<1>1. LogSound /\ LogSound' /\ Grown
  BY SameLog DEF StreamInv
<1>0. SubsSound' /\ SubIds \subseteq SubIds'
  BY DEF StreamInv, SubsSound, SubIds, Leased
<1>2. calls = [j \in Calls |-> calls[j]]
  BY DEF StreamInv, Shapes
<1>3. calls'[k] = call /\ \A j \in Calls : j # k => calls'[j] = calls[j]
  BY <1>2
<1>4. Shapes'
  BY <1>2 DEF StreamInv, Shapes
<1>5. ASSUME NEW v \in Views PROVE ViewSound(v)'
  <2>1. ViewSound(v) /\ streams'[v] = streams[v] /\ wire'[v] = wire[v]
        /\ views'[v] = [f \in ViewFields |-> views'[v][f]]
        /\ \A f \in ViewFields \ {"sess"} : views'[v][f] = views[v][f]
    BY DEF StreamInv, ViewSound
  <2> QED BY <1>0, <1>1, <2>1, ViewStays
<1>6. ASSUME NEW j \in Calls PROVE CallSound(j)'
  <2>1. CASE j = k
    <3>1. calls'[j] = call /\ SubIds' = SubIds
      BY <1>3, <2>1 DEF SubIds
    <3> QED BY <3>1 DEF CallSound, Leased
  <2>2. CASE j # k
    <3>1. CallSound(j) /\ calls'[j] = calls[j]
      BY <1>3, <2>2 DEF StreamInv
    <3>2. \A i \in Calls : calls'[i].op = "subscribe" => calls'[i] = calls[i]
      BY <1>3
    <3>3. calls[j].op = "subscribe" => views'[calls[j].view].phase = "subscribing"
      BY <3>1 DEF CallSound
    <3> QED BY <1>0, <1>1, <3>1, <3>2, <3>3, CallStays
  <2> QED BY <2>1, <2>2
<1> QED BY <1>0, <1>1, <1>4, <1>5, <1>6 DEF StreamInv

\* ui.session.revoke.
LEMMA RevokeKeeps ==
    ASSUME StreamInv, NEW k \in Calls, NEW s, SessionRevoke(k, s)
    PROVE  StreamInv'
<1> DEFINE open == {id \in SubIds : subs[id].owner = sessions[s].owner /\ subs[id].state = "OPEN"}
           call == [op |-> "revoke", rows |-> [id \in open |-> [subs[id] EXCEPT !.state = "CLOSED"]]]
<1>1. log' = log /\ lanes' = lanes /\ lines' = lines /\ subs' = subs
      /\ streams' = streams /\ wire' = wire /\ views' = views
  BY DEF SessionRevoke, tables, server
<1>2. CASE calls' = calls
  <2>1. Shaped(views')
    BY <1>1 DEF StreamInv, Shapes, ViewSound, Shaped
  <2> QED BY <1>1, <1>2, <2>1, QuietKeeps
<1>3. CASE calls' = [calls EXCEPT ![k] = call]
  <2>1. \A id \in DOMAIN call.rows : Leased(call.rows[id])
    <3> SUFFICES ASSUME NEW id \in open PROVE Leased([subs[id] EXCEPT !.state = "CLOSED"])
      OBVIOUS
    <3>1. Leased(subs[id])
      BY DEF StreamInv, SubsSound
    <3> QED BY <3>1 DEF Leased, SubFields
  <2>2. call.op = "revoke"
    OBVIOUS
  <2> HIDE DEF call
  <2> QED BY <1>1, <1>3, <2>1, <2>2, AwaitKeeps
<1> QED BY <1>2, <1>3 DEF SessionRevoke, Await

\* events.ack.
LEMMA AckKeeps ==
    ASSUME StreamInv, NEW k \in Calls, NEW id \in SubIds, NEW c, Ack(k, id, c)
    PROVE  StreamInv'
<1> DEFINE row == [subs[id] EXCEPT !.position = IF ResolveCursor(c) > @ THEN ResolveCursor(c) ELSE @, !.cursor = c]
           call == [op |-> "ack", id |-> id, row |-> row]
<1>1. log' = log /\ lanes' = lanes /\ lines' = lines /\ subs' = subs
      /\ streams' = streams /\ wire' = wire /\ views' = views
  BY DEF Ack, tables, server
<1>2. calls' = [calls EXCEPT ![k] = call]
  BY DEF Ack, Await
<1>3. Leased(row)
  <2>1. Leased(subs[id])
    BY DEF StreamInv, SubsSound
  <2> QED BY <2>1 DEF Leased, SubFields
<1>4. call.op = "ack" /\ call.id = id /\ call.row = row
  OBVIOUS
<1> HIDE DEF call, row
<1> QED BY <1>1, <1>2, <1>3, <1>4, AwaitKeeps

\* events.publish and the receipt writer.
LEMMA PublishKeeps ==
    ASSUME StreamInv, NEW k \in Calls, (\E call \in Contents : Publish(k, call)) \/ (\E n \in 1..MaxLog : WriteReceipt(k, n))
    PROVE  StreamInv'
<1>1. log' = log /\ lanes' = lanes /\ lines' = lines /\ subs' = subs
      /\ streams' = streams /\ wire' = wire /\ views' = views
  BY DEF Publish, WriteReceipt, tables, server
<1>2. PICK content : calls' = [calls EXCEPT ![k] = [op |-> "publish", content |-> content]]
  BY DEF Publish, WriteReceipt, Await
<1> DEFINE call == [op |-> "publish", content |-> content]
<1>3. call.op = "publish" /\ calls' = [calls EXCEPT ![k] = call]
  BY <1>2
<1> HIDE DEF call
<1> QED BY <1>1, <1>3, AwaitKeeps

\* Nothing is due where a lease begins.
LEMMA NothingDue ==
    ASSUME LogSound, NEW n \in Nat
    PROVE  Due(n, n) = {} /\ Rising(<<>>, Due(n, n))
<1>1. \A i \in Due(n, n) : i \in Nat /\ n < i /\ i <= n
  BY LogTyped DEF Due
<1>2. Due(n, n) = {}
  BY <1>1
<1> QED BY <1>2, EmptyRises

\* events.subscribe: the view has no rows and no stream.
LEMMA SubscribeKeeps ==
    ASSUME StreamInv, NEW k \in Calls, NEW v \in Views, Subscribe(k, v)
    PROVE  StreamInv'
<1> DEFINE row == [owner |-> views[v].sess, topics |-> ViewTopics,
                   position |-> GlobalHead.order, cursor |-> GlobalHead.cursor,
                   delivered |-> GlobalHead.order, expires |-> clock + Lease, state |-> "OPEN"]
           call == [op |-> "subscribe", id |-> NewSubId, view |-> v, row |-> row]
<1>1. /\ log' = log /\ lanes' = lanes /\ lines' = lines /\ subs' = subs
      /\ streams' = streams /\ wire' = wire
      /\ views' = [views EXCEPT ![v].phase = "subscribing", ![v].sub = Absent, ![v].rows = <<>>]
      /\ views[v].phase \in {"idle", "gap"}
  BY DEF Subscribe, tables, server
<1>2. calls' = [calls EXCEPT ![k] = call]
  BY DEF Subscribe, Await
<1>3. /\ call.op = "subscribe" /\ call.view = v /\ call.row = row
      /\ row.position = GlobalHead.order /\ row.cursor = GlobalHead.cursor
  OBVIOUS
<1>4. Leased(row)
  BY DEF Leased, SubFields
<1> HIDE DEF call, row
<1>5. LogSound /\ LogSound' /\ Grown
  BY <1>1, SameLog DEF StreamInv
<1>6. SubsSound' /\ SubIds \subseteq SubIds'
  BY <1>1 DEF StreamInv, SubsSound, SubIds, Leased
<1>7. /\ views = [u \in Views |-> views[u]] /\ calls = [j \in Calls |-> calls[j]]
      /\ \A u \in Views : views[u] = [f \in ViewFields |-> views[u][f]]
  BY DEF StreamInv, Shapes, ViewSound
<1>8. /\ views' = [u \in Views |-> views'[u]] /\ \A u \in Views : u # v => views'[u] = views[u]
      /\ views'[v] = [f \in ViewFields |-> views'[v][f]]
      /\ views'[v].phase = "subscribing" /\ views'[v].sub = Absent /\ views'[v].rows = <<>>
  BY <1>1, <1>7 DEF ViewFields
<1>9. /\ calls' = [j \in Calls |-> calls'[j]] /\ calls'[k] = call
      /\ \A j \in Calls : j # k => calls'[j] = calls[j]
  BY <1>2, <1>7
<1>10. Shapes'
  BY <1>1, <1>8, <1>9 DEF StreamInv, Shapes
<1>11. ASSUME NEW u \in Views PROVE ViewSound(u)'
  <2>1. ViewSound(u)
    BY DEF StreamInv
  <2>2. CASE u = v
    <3>1. streams'[v] = Absent
      BY <1>1, <2>1, <2>2 DEF ViewSound
    <3> QED BY <1>8, <2>2, <3>1 DEF ViewSound, Streaming
  <2>3. CASE u # v
    <3>1. /\ streams'[u] = streams[u] /\ wire'[u] = wire[u] /\ views'[u] = [f \in ViewFields |-> views'[u][f]]
          /\ \A f \in ViewFields \ {"sess"} : views'[u][f] = views[u][f]
      BY <1>1, <1>7, <1>8, <2>3
    <3> QED BY <1>5, <1>6, <2>1, <3>1, ViewStays
  <2> QED BY <2>2, <2>3
<1>12. \A j \in Calls : calls[j].op = "subscribe" => calls[j].view # v
  BY <1>1 DEF StreamInv, CallSound
<1>13. ASSUME NEW j \in Calls PROVE CallSound(j)'
  <2>1. CallSound(j)
    BY DEF StreamInv
  <2>2. CASE j = k
    <3>1. At(GlobalHead.cursor, GlobalHead.order) /\ GlobalHead.order \in Nat
      BY <1>5, HeadAt
    <3>2. PICK r : r = row
      OBVIOUS
    <3>3. At(r.cursor, r.position) /\ r.position \in Nat
      BY <1>3, <3>1, <3>2
    <3>4. At(r.cursor, r.position)' /\ Leased(r)
      BY <1>4, <1>5, <3>2, <3>3, AtStays
    <3>5. \A i \in Calls : calls'[i].op = "subscribe" /\ calls'[i].view = v => i = k
      BY <1>9, <1>12
    <3>6. calls'[k].row = r /\ calls'[k].op = "subscribe" /\ calls'[k].view = v
      BY <1>3, <1>9, <3>2
    <3> QED BY <1>8, <2>2, <3>3, <3>4, <3>5, <3>6 DEF CallSound, Leased, At
  <2>3. CASE j # k
    <3>1. calls'[j] = calls[j]
      BY <1>9, <2>3
    <3>2. CASE calls[j].op = "subscribe"
      <4>1. \A i \in Calls : calls'[i].op = "subscribe" => calls'[i] = calls[i] \/ calls'[i].view # calls[j].view
        BY <1>3, <1>9, <1>12, <3>2
      <4>2. views'[calls[j].view].phase = "subscribing"
        BY <1>8, <1>12, <2>1, <3>2 DEF CallSound
      <4> QED BY <1>5, <1>6, <2>1, <3>1, <4>1, <4>2, CallStays
    <3>3. CASE calls[j].op # "subscribe"
      BY <1>6, <2>1, <3>1, <3>3 DEF CallSound, Leased
    <3> QED BY <3>2, <3>3
  <2> QED BY <2>2, <2>3
<1> QED BY <1>5, <1>6, <1>10, <1>11, <1>13 DEF StreamInv

\* The commit of a call lands or fails.
LEMMA SettleShows ==
    ASSUME StreamInv, NEW k \in Calls, calls' = [calls EXCEPT ![k] = Free],
           LogSound', Grown, SubsSound', SubIds \subseteq SubIds', streams' = streams, wire' = wire,
           Shaped(views'),
           \A v \in Views :
               \/ views'[v] = views[v]
               \/ calls[k].op = "subscribe" /\ calls[k].view = v /\ ViewSound(v)'
    PROVE  StreamInv'
<1>1. LogSound /\ calls = [j \in Calls |-> calls[j]]
  BY DEF StreamInv, Shapes
<1>2. Shapes'
  BY <1>1 DEF StreamInv, Shapes, Shaped
<1>3. ASSUME NEW v \in Views PROVE ViewSound(v)'
  <2>1. CASE views'[v] = views[v]
    <3>1. /\ ViewSound(v) /\ streams'[v] = streams[v] /\ wire'[v] = wire[v]
          /\ views'[v] = [f \in ViewFields |-> views'[v][f]]
          /\ \A f \in ViewFields \ {"sess"} : views'[v][f] = views[v][f]
      BY <2>1 DEF StreamInv, Shaped
    <3> QED BY <1>1, <3>1, ViewStays
  <2> QED BY <2>1
<1>4. calls'[k] = Free /\ \A j \in Calls : j # k => calls'[j] = calls[j]
  BY <1>1
<1>5. ASSUME NEW j \in Calls PROVE CallSound(j)'
  <2>1. CASE j = k
    BY <1>4, <2>1 DEF CallSound, Free
  <2>2. CASE j # k
    <3>1. CallSound(j) /\ CallSound(k) /\ calls'[j] = calls[j]
      BY <1>4, <2>2 DEF StreamInv
    <3>2. \A i \in Calls : calls'[i].op = "subscribe" => calls'[i] = calls[i] \/ calls'[i].view # calls[j].view
      BY <1>4 DEF Free
    <3>3. calls[j].op = "subscribe" => views'[calls[j].view].phase = "subscribing"
      BY <2>2, <3>1 DEF CallSound
    <3> QED BY <3>1, <3>2, <3>3, CallStays
  <2> QED BY <2>1, <2>2
<1> QED BY <1>2, <1>3, <1>5 DEF StreamInv

\* One view's connection goes on or ends.
LEMMA ClientKeeps ==
    ASSUME StreamInv, log' = log, lanes' = lanes, lines' = lines, calls' = calls,
           SubsSound', SubIds \subseteq SubIds', NEW v \in Views, ViewSound(v)', Shaped(views'),
           \A u \in Views : u # v => views'[u] = views[u] /\ streams'[u] = streams[u] /\ wire'[u] = wire[u],
           views[v].phase # "subscribing",
           streams' = [u \in Views |-> streams'[u]], wire' = [u \in Views |-> wire'[u]]
    PROVE  StreamInv'
<1>1. LogSound /\ LogSound' /\ Grown
  BY SameLog DEF StreamInv
<1>2. Shapes'
  BY DEF StreamInv, Shapes, Shaped
<1>3. ASSUME NEW u \in Views PROVE ViewSound(u)'
  <2>1. CASE u # v
    <3>1. /\ ViewSound(u) /\ streams'[u] = streams[u] /\ wire'[u] = wire[u]
          /\ views'[u] = [f \in ViewFields |-> views'[u][f]]
          /\ \A f \in ViewFields \ {"sess"} : views'[u][f] = views[u][f]
      BY <2>1 DEF StreamInv, Shaped
    <3> QED BY <1>1, <3>1, ViewStays
  <2> QED BY <2>1
<1>4. ASSUME NEW j \in Calls PROVE CallSound(j)'
  <2>1. CallSound(j)
    BY DEF StreamInv
  <2>2. calls[j].op = "subscribe" => views'[calls[j].view].phase = "subscribing"
    BY <2>1 DEF CallSound
  <2>3. calls'[j] = calls[j] /\ \A i \in Calls : calls'[i].op = "subscribe" => calls'[i] = calls[i]
    OBVIOUS
  <2> QED BY <1>1, <2>1, <2>2, <2>3, CallStays
<1> QED BY <1>1, <1>2, <1>3, <1>4 DEF StreamInv

\* The commit of a call lands.
LEMMA CommitShows ==
    ASSUME StreamInv, NEW k \in Calls, Commit(k)
    PROVE  StreamInv'
<1> DEFINE call == calls[k]
<1>1. /\ calls' = [calls EXCEPT ![k] = Free] /\ streams' = streams /\ wire' = wire
      /\ LogSound /\ SubsSound /\ CallSound(k) /\ Shaped(views)
  BY DEF Commit, server, StreamInv, Shapes, Shaped, ViewSound
<1>2. CASE call.op = "publish"
  <2>1. Append1(call.content) /\ subs' = subs /\ views' = views
    BY <1>2 DEF Commit
  <2>2. LogSound' /\ Grown
    BY <1>1, <2>1, AppendGrows
  <2>3. SubsSound' /\ SubIds \subseteq SubIds' /\ Shaped(views')
    BY <1>1, <2>1 DEF SubsSound, SubIds, Leased, Shaped
  <2> QED BY <1>1, <2>1, <2>2, <2>3, SettleShows
<1>3. CASE call.op = "subscribe"
  <2>1. PICK v, r, i : v = call.view /\ r = call.row /\ i = call.id
    OBVIOUS
  <2>2. /\ subs' = [id \in SubIds \union {i} |-> IF id = i THEN r ELSE subs[id]]
        /\ views' = [views EXCEPT ![v].phase = "connecting", ![v].sub = i, ![v].start = r.position, ![v].lastId = r.cursor]
        /\ log' = log /\ lanes' = lanes /\ lines' = lines
    BY <1>3, <2>1 DEF Commit
  <2>3. LogSound' /\ Grown
    BY <1>1, <2>2, SameLog
  <2>4. v \in Views /\ views[v].phase = "subscribing" /\ Leased(r) /\ r.position \in Nat /\ At(r.cursor, r.position)
    BY <1>1, <1>3, <2>1 DEF CallSound
  <2>5. SubsSound' /\ SubIds \subseteq SubIds' /\ i \in SubIds'
    BY <1>1, <2>2, <2>4 DEF SubsSound, SubIds, Leased
  <2>6. /\ \A u \in Views : views[u] = [f \in ViewFields |-> views[u][f]]
        /\ views = [u \in Views |-> views[u]]
    BY <1>1 DEF Shaped
  <2>7. /\ views' = [u \in Views |-> views'[u]] /\ \A u \in Views : u # v => views'[u] = views[u]
        /\ views'[v] = [views[v] EXCEPT !.phase = "connecting", !.sub = i, !.start = r.position, !.lastId = r.cursor]
    BY <2>2, <2>4, <2>6
  <2>8. /\ views'[v] = [f \in ViewFields |-> views'[v][f]]
        /\ views'[v].phase = "connecting" /\ views'[v].sub = i /\ views'[v].start = r.position
        /\ views'[v].lastId = r.cursor /\ views'[v].rows = views[v].rows
    BY <2>4, <2>6, <2>7 DEF ViewFields
  <2>9. Shaped(views')
    BY <2>6, <2>7, <2>8 DEF Shaped
  <2>10. ViewSound(v) /\ streams'[v] = Absent /\ views'[v].rows = <<>>
    BY <1>1, <2>4, <2>8 DEF StreamInv, ViewSound
  <2>11. At(r.cursor, r.position)' /\ Due(r.position, r.position)' = Due(r.position, r.position)
    BY <1>1, <2>3, <2>4, AtStays, OrderAt, DueStays
  <2>12. Rising(<<>>, Due(r.position, r.position)')
    BY <1>1, <2>4, <2>11, NothingDue
  <2>13. Showing(v, r.position)'
    <3>1. r.position <= r.position
      BY <2>4
    <3> QED BY <2>4, <2>8, <2>10, <2>11, <2>12, <3>1 DEF Showing, Rising, At, Due
  <2>14. ViewSound(v)'
    BY <2>4, <2>5, <2>8, <2>10, <2>13 DEF ViewSound, Streaming
  <2>15. ASSUME NEW w \in Views
         PROVE  views'[w] = views[w] \/ (calls[k].op = "subscribe" /\ calls[k].view = w /\ ViewSound(w)')
    <3>1. CASE w # v
      BY <2>7, <3>1
    <3>2. CASE w = v
      BY <1>3, <2>1, <2>14, <3>2, Zenon
    <3> QED BY <3>1, <3>2
  <2>16. /\ calls' = [calls EXCEPT ![k] = Free] /\ streams' = streams /\ wire' = wire
         /\ LogSound' /\ Grown /\ SubsSound' /\ SubIds \subseteq SubIds' /\ Shaped(views')
    BY <1>1, <2>3, <2>5, <2>9, Zenon
  <2> QED BY <2>15, <2>16, SettleShows, Zenon
<1>4. CASE call.op \in {"ack", "revoke"}
  <2>1. log' = log /\ lanes' = lanes /\ lines' = lines /\ views' = views
    BY <1>4 DEF Commit
  <2>2. LogSound' /\ Grown
    BY <1>1, <2>1, SameLog
  <2>3. CASE call.op = "ack"
    <3>1. subs' = [subs EXCEPT ![call.id] = call.row] /\ call.id \in SubIds /\ Leased(call.row)
      BY <1>1, <2>3 DEF Commit, CallSound
    <3>2. SubsSound' /\ SubIds' = SubIds
      BY <1>1, <3>1 DEF SubsSound, SubIds, Leased
    <3> QED BY <1>1, <2>1, <2>2, <3>2, SettleShows DEF Shaped
  <2>4. CASE call.op = "revoke"
    <3>1. /\ subs' = [id \in SubIds |-> IF id \in DOMAIN call.rows THEN call.rows[id] ELSE subs[id]]
          /\ \A id \in DOMAIN call.rows : Leased(call.rows[id])
      BY <1>1, <2>4 DEF Commit, CallSound
    <3>2. SubsSound' /\ SubIds' = SubIds
      BY <1>1, <3>1 DEF SubsSound, SubIds, Leased
    <3> QED BY <1>1, <2>1, <2>2, <3>2, SettleShows DEF Shaped
  <2> QED BY <1>4, <2>3, <2>4
<1> QED BY <1>1, <1>2, <1>3, <1>4 DEF Commit, CallSound

\* The commit of a call fails.
LEMMA LostKeeps ==
    ASSUME StreamInv, NEW k \in Calls, CommitLost(k)
    PROVE  StreamInv'
<1>1. /\ calls' = [calls EXCEPT ![k] = Free] /\ streams' = streams /\ wire' = wire
      /\ LogSound /\ SubsSound /\ CallSound(k) /\ Shaped(views) /\ subs' = subs
  BY DEF CommitLost, server, tables, StreamInv, Shapes, Shaped, ViewSound
<1>2. SubsSound' /\ SubIds \subseteq SubIds'
  BY <1>1 DEF SubsSound, SubIds, Leased
<1>3. LogSound' /\ Grown
  <2>1. CASE Orphan(calls[k].content)
    BY <1>1, <2>1, OrphanGrows
  <2>2. CASE log' = log /\ lanes' = lanes /\ lines' = lines
    BY <1>1, <2>2, SameLog
  <2> QED BY <2>1, <2>2 DEF CommitLost, tables
<1>4. CASE calls[k].op # "subscribe"
  <2>1. views' = views
    BY <1>4 DEF CommitLost
  <2> QED BY <1>1, <1>2, <1>3, <2>1, SettleShows DEF Shaped
<1>5. CASE calls[k].op = "subscribe"
  <2>1. PICK v : v = calls[k].view
    OBVIOUS
  <2>2. v \in Views /\ views' = [views EXCEPT ![v].phase = "error"] /\ views[v].phase = "subscribing" /\ ViewSound(v)
    BY <1>1, <1>5, <2>1 DEF CommitLost, CallSound, StreamInv
  <2>3. /\ views' = [u \in Views |-> views'[u]] /\ \A u \in Views : u # v => views'[u] = views[u]
        /\ views'[v] = [views[v] EXCEPT !.phase = "error"]
    BY <1>1, <2>2 DEF Shaped
  <2>4. /\ views'[v] = [f \in ViewFields |-> views'[v][f]] /\ views'[v].phase = "error"
        /\ \A f \in ViewFields \ {"phase"} : views'[v][f] = views[v][f]
    BY <1>1, <2>2, <2>3 DEF Shaped, ViewFields
  <2>5. Shaped(views')
    BY <1>1, <2>3, <2>4 DEF Shaped
  <2>6. streams'[v] = Absent /\ views'[v].phase \notin Streaming
    BY <1>1, <2>2, <2>4 DEF ViewSound, Streaming
  <2>7. ViewSound(v)'
    BY <1>1, <1>2, <1>3, <2>2, <2>4, <2>6, ViewStops
  <2> QED BY <1>1, <1>2, <1>3, <1>5, <2>1, <2>3, <2>5, <2>7, SettleShows
<1> QED BY <1>4, <1>5

\* A step of one view that ends its connection, or does not make one.
LEMMA StopKeeps ==
    ASSUME StreamInv, NEW v \in Views, NEW ph, ph \notin {"open", "subscribing"},
           ph \in Streaming => views[v].phase \in Streaming, views[v].phase # "subscribing",
           log' = log, lanes' = lanes, lines' = lines, subs' = subs, calls' = calls,
           views' = [views EXCEPT ![v].phase = ph], streams'[v] = Absent,
           streams' = [u \in Views |-> streams'[u]], wire' = [u \in Views |-> wire'[u]],
           \A u \in Views : u # v => streams'[u] = streams[u] /\ wire'[u] = wire[u]
    PROVE  StreamInv'
<1>1. LogSound /\ LogSound' /\ Grown
  BY SameLog DEF StreamInv
<1>2. SubsSound' /\ SubIds \subseteq SubIds'
  BY DEF StreamInv, SubsSound, SubIds, Leased
<1>3. Shaped(views) /\ ViewSound(v)
  BY DEF StreamInv, Shapes, Shaped, ViewSound
<1>4. /\ views' = [u \in Views |-> views'[u]] /\ \A u \in Views : u # v => views'[u] = views[u]
      /\ views'[v] = [views[v] EXCEPT !.phase = ph]
  BY <1>3 DEF Shaped
<1>5. /\ views'[v] = [f \in ViewFields |-> views'[v][f]] /\ views'[v].phase = ph
      /\ \A f \in ViewFields \ {"phase"} : views'[v][f] = views[v][f]
  BY <1>3, <1>4 DEF Shaped, ViewFields
<1>6. Shaped(views')
  <2>1. ASSUME NEW u \in Views PROVE views'[u] = [f \in ViewFields |-> views'[u][f]]
    BY <1>3, <1>4, <1>5 DEF Shaped
  <2> QED BY <1>4, <2>1 DEF Shaped
<1>7. ViewSound(v)'
  BY <1>1, <1>2, <1>3, <1>5, ViewStops
<1> QED BY <1>2, <1>4, <1>6, <1>7, ClientKeeps

\* A connection is made, from the last event the view has parsed.
LEMMA ConnectKeeps ==
    ASSUME StreamInv, NEW v \in Views, Connect(v)
    PROVE  StreamInv'
<1>1. /\ log' = log /\ lanes' = lanes /\ lines' = lines /\ subs' = subs /\ calls' = calls
      /\ views[v].phase \in {"connecting", "retry"} /\ ViewSound(v) /\ Shaped(views) /\ LogSound
      /\ streams = [u \in Views |-> streams[u]] /\ wire = [u \in Views |-> wire[u]]
  BY DEF Connect, tables, StreamInv, Shapes, Shaped, ViewSound
<1>2. CASE \E ph \in {"retry", "gap"} : views' = [views EXCEPT ![v].phase = ph] /\ UNCHANGED server
  <2>1. PICK ph \in {"retry", "gap"} : views' = [views EXCEPT ![v].phase = ph]
    BY <1>2
  <2>2. streams' = streams /\ wire' = wire
    BY <1>2 DEF server
  <2>3. streams'[v] = Absent
    BY <1>1, <2>2 DEF ViewSound
  <2>4. ph \notin {"open", "subscribing"} /\ views[v].phase \in Streaming /\ views[v].phase # "subscribing"
    BY <1>1 DEF Streaming
  <2> QED BY <1>1, <2>1, <2>2, <2>3, <2>4, StopKeeps
<1>3. CASE /\ views' = [views EXCEPT ![v].phase = "open"]
           /\ streams' = [streams EXCEPT ![v] = [sub |-> views[v].sub, cursor |-> views[v].lastId]]
           /\ wire' = [wire EXCEPT ![v] = <<>>]
  <2>1. SubsSound' /\ SubIds = SubIds'
    BY <1>1 DEF StreamInv, SubsSound, SubIds, Leased
  <2>2. /\ views' = [u \in Views |-> views'[u]] /\ \A u \in Views : u # v => views'[u] = views[u]
        /\ views'[v] = [views[v] EXCEPT !.phase = "open"]
    BY <1>1, <1>3 DEF Shaped
  <2>3. /\ views'[v] = [f \in ViewFields |-> views'[v][f]] /\ views'[v].phase = "open"
        /\ views'[v].sub = views[v].sub /\ views'[v].start = views[v].start
        /\ views'[v].lastId = views[v].lastId /\ views'[v].rows = views[v].rows
    BY <1>1, <2>2 DEF Shaped, ViewFields
  <2>4. Shaped(views')
    BY <1>1, <2>2, <2>3 DEF Shaped
  <2>5. /\ streams' = [u \in Views |-> streams'[u]] /\ wire' = [u \in Views |-> wire'[u]]
        /\ streams'[v] = [sub |-> views[v].sub, cursor |-> views[v].lastId] /\ wire'[v] = <<>>
        /\ \A u \in Views : u # v => streams'[u] = streams[u] /\ wire'[u] = wire[u]
    BY <1>1, <1>3
  <2>6. PICK n \in Nat : Showing(v, n)
    BY <1>1 DEF ViewSound, Streaming
  <2>7. Due(n, n)' = Due(n, n) /\ Due(views[v].start, n)' = Due(views[v].start, n)
    BY <1>1, <2>3 DEF Due, Indexed
  <2>8. At(views[v].lastId, n)'
    BY <1>1, <2>3, <2>6 DEF Showing, At, Cursor, LaneOrdinal, Contains
  <2>9. Showing(v, n)'
    BY <2>3, <2>6, <2>7, <2>8 DEF Showing, Rising
  <2>10. Flowing(v, n)'
    <3>1. Rising(<<>>, Due(n, n)) /\ n <= n
      BY <1>1, NothingDue
    <3>2. At(streams[v].cursor, n)' /\ streams'[v] = [sub |-> views'[v].sub, cursor |-> streams'[v].cursor]
      BY <2>3, <2>5, <2>8 DEF At
    <3> QED BY <2>5, <2>7, <3>1, <3>2 DEF Flowing, Rising
  <2>11. ViewSound(v)'
    <3>1. views'[v].sub \in SubIds'
      BY <1>1, <2>1, <2>3 DEF ViewSound, Streaming
    <3> QED BY <2>3, <2>9, <2>10, <3>1 DEF ViewSound
  <2>12. views[v].phase # "subscribing"
    BY <1>1
  <2> QED BY <1>1, <2>1, <2>2, <2>4, <2>5, <2>11, <2>12, ClientKeeps
<1> QED BY <1>2, <1>3 DEF Connect

\* What a read adds to the wire continues it.
LEMMA ReadKeeps ==
    ASSUME StreamInv, NEW v \in Views, StreamRead(v)
    PROVE  StreamInv'
<1> DEFINE st == streams[v]
           out == Frames(subs[st.sub], OrderOf(st.cursor))
           m == Last(out)
<1>1. /\ log' = log /\ lanes' = lanes /\ lines' = lines /\ calls' = calls /\ views' = views
      /\ ViewSound(v) /\ Shaped(views) /\ LogSound /\ SubsSound
      /\ streams = [u \in Views |-> streams[u]] /\ wire = [u \in Views |-> wire[u]]
  BY DEF StreamRead, StreamInv, Shapes, Shaped, ViewSound
<1>2. /\ out # <<>> /\ views[v].phase = "open"
      /\ wire' = [wire EXCEPT ![v] = @ \o out]
      /\ streams' = [streams EXCEPT ![v].cursor = Cursor(m)]
      /\ subs' = IF m > subs[st.sub].delivered THEN [subs EXCEPT ![st.sub].delivered = m] ELSE subs
  BY <1>1 DEF StreamRead, ViewSound
<1>3. PICK n \in Nat : Showing(v, n) /\ Flowing(v, n)
  BY <1>1, <1>2 DEF ViewSound
<1>4. PICK c \in Nat : At(st.cursor, c) /\ n <= c /\ Rising(wire[v], Due(n, c))
  BY <1>3 DEF Flowing
<1>5. OrderOf(st.cursor) = c
  BY <1>1, <1>4, OrderAt
<1>6. st.sub = views[v].sub /\ st.sub \in SubIds /\ Leased(subs[st.sub])
  BY <1>1, <1>2, <1>3 DEF Flowing, ViewSound, Streaming, SubsSound
<1>7. m \in DOMAIN log /\ c <= m /\ Rising(out, Due(c, m))
  <2>1. out = Frames(subs[st.sub], c) /\ subs[st.sub].topics = ViewTopics
    BY <1>5, <1>6 DEF Leased
  <2> HIDE DEF out
  <2> QED BY <1>1, <1>2, <2>1, FramesDue
<1>8. SubsSound' /\ SubIds' = SubIds
  BY <1>1, <1>2, <1>6 DEF SubsSound, SubIds, Leased, SubFields
<1> HIDE DEF out, m
<1>9. /\ streams' = [u \in Views |-> streams'[u]] /\ wire' = [u \in Views |-> wire'[u]]
      /\ wire'[v] = wire[v] \o out /\ streams'[v] = [sub |-> views[v].sub, cursor |-> Cursor(m)]
      /\ \A u \in Views : u # v => streams'[u] = streams[u] /\ wire'[u] = wire[u]
  <2>1. streams[v] = [sub |-> views[v].sub, cursor |-> streams[v].cursor]
    BY <1>3 DEF Flowing
  <2>2. wire' = [u \in Views |-> wire'[u]] /\ wire'[v] = wire[v] \o out /\ \A u \in Views : u # v => wire'[u] = wire[u]
    BY <1>1, <1>2
  <2>3. /\ streams' = [u \in Views |-> streams'[u]] /\ \A u \in Views : u # v => streams'[u] = streams[u]
        /\ streams'[v] = [streams[v] EXCEPT !.cursor = Cursor(m)]
    BY <1>1, <1>2
  <2>4. streams'[v] = [sub |-> views[v].sub, cursor |-> Cursor(m)]
    BY <2>1, <2>3
  <2> QED BY <2>2, <2>3, <2>4
<1>10. Rising(wire'[v], Due(n, m))
  <2>1. m \in Nat
    BY <1>1, <1>7, LogTyped
  <2>2. Due(n, c) \union Due(c, m) = Due(n, m) /\ \A i \in Due(n, c), j \in Due(c, m) : i < j
    BY <1>1, <1>4, <1>7, <2>1, DueJoins
  <2>3. Rising(wire[v] \o out, Due(n, c) \union Due(c, m))
    BY <1>4, <1>7, <2>2, RisesOn
  <2> QED BY <1>9, <2>2, <2>3
<1>11. PICK k : k = m
  OBVIOUS
<1>12. k \in Nat /\ n <= k /\ At(streams'[v].cursor, k)
  <2>1. m \in Nat /\ At(Cursor(m), m)
    BY <1>1, <1>7, LogTyped DEF At
  <2> QED BY <1>3, <1>4, <1>7, <1>9, <1>11, <2>1
<1>13. Flowing(v, n)'
  <2>1. At(streams[v].cursor, k)' /\ Due(n, k)' = Due(n, k)
    BY <1>1, <1>12 DEF At, Cursor, LaneOrdinal, Contains, Due, Indexed
  <2>2. streams'[v] = [sub |-> views'[v].sub, cursor |-> streams'[v].cursor]
    BY <1>1, <1>9
  <2>3. Rising(wire'[v], Due(n, k))
    BY <1>10, <1>11
  <2> QED BY <1>12, <2>1, <2>2, <2>3 DEF Flowing, Rising
<1>14. Showing(v, n)'
  <2>1. At(views[v].lastId, n)' /\ Due(views[v].start, n)' = Due(views[v].start, n)
    BY <1>1, <1>3 DEF Showing, At, Cursor, LaneOrdinal, Contains, Due, Indexed
  <2> QED BY <1>1, <1>3, <2>1 DEF Showing, Rising
<1>15. ViewSound(v)'
  BY <1>1, <1>2, <1>8, <1>13, <1>14 DEF ViewSound
<1> QED BY <1>1, <1>2, <1>8, <1>9, <1>15, ClientKeeps

\* The next frame is the least of what is due after the last.
LEMMA ReceiveKeeps ==
    ASSUME StreamInv, NEW v \in Views, Receive(v)
    PROVE  StreamInv'
<1> DEFINE h == Head(wire[v])
<1>1. /\ log' = log /\ lanes' = lanes /\ lines' = lines /\ calls' = calls /\ subs' = subs /\ streams' = streams
      /\ views[v].phase = "open" /\ wire[v] # <<>>
      /\ wire' = [wire EXCEPT ![v] = Tail(@)]
      /\ views' = [views EXCEPT ![v].lastId = Cursor(h), ![v].rows = Append(@, h)]
  BY DEF Receive, tables
<1>2. /\ ViewSound(v) /\ Shaped(views) /\ LogSound
      /\ streams = [u \in Views |-> streams[u]] /\ wire = [u \in Views |-> wire[u]]
  BY DEF StreamInv, Shapes, Shaped, ViewSound
<1>3. SubsSound' /\ SubIds = SubIds'
  BY <1>1 DEF StreamInv, SubsSound, SubIds, Leased
<1>4. PICK n \in Nat : Showing(v, n) /\ Flowing(v, n)
  BY <1>1, <1>2 DEF ViewSound
<1>5. PICK c \in Nat : At(streams[v].cursor, c) /\ n <= c /\ Rising(wire[v], Due(n, c))
  BY <1>4 DEF Flowing
<1>6. /\ h \in Due(n, c) /\ h \in Nat /\ \A i \in Due(n, c) : i = h \/ (i \in Nat /\ h < i)
      /\ Rising(Tail(wire[v]), Due(n, c) \ {h}) /\ Rising(<<h>>, {h})
  BY <1>1, <1>5, RisesFrom
<1> HIDE DEF h
<1>7. h \in DOMAIN log /\ n < h /\ h <= c
  BY <1>6 DEF Due
<1>8. n <= h
  BY <1>6, <1>7
<1>9. Due(n, h) \union Due(h, c) = Due(n, c) /\ \A i \in Due(n, h), j \in Due(h, c) : i < j
  BY <1>2, <1>5, <1>6, <1>7, <1>8, DueJoins
<1>10. Due(n, h) = {h}
  <2>1. h \in Due(n, h)
    BY <1>6, <1>7 DEF Due
  <2>2. \A i \in Due(n, h) : i \in Due(n, c) /\ i <= h
    BY <1>9 DEF Due
  <2>3. \A i \in Due(n, h) : i = h
    BY <1>6, <2>2
  <2> QED BY <2>1, <2>3
<1>11. Due(n, c) \ {h} = Due(h, c)
  <2>1. h \notin Due(h, c)
    BY <1>6 DEF Due
  <2> QED BY <1>9, <1>10, <2>1
<1>12. Rising(Tail(wire[v]), Due(h, c))
  BY <1>6, <1>11
<1>13. /\ views[v].start \in Nat /\ views[v].start <= n /\ Rising(views[v].rows, Due(views[v].start, n))
  BY <1>4 DEF Showing
<1>14. Rising(Append(views[v].rows, h), Due(views[v].start, h))
  <2>1. /\ Due(views[v].start, n) \union Due(n, h) = Due(views[v].start, h)
        /\ \A i \in Due(views[v].start, n), j \in Due(n, h) : i < j
    BY <1>2, <1>6, <1>8, <1>13, DueJoins
  <2>2. Rising(views[v].rows \o <<h>>, Due(views[v].start, n) \union Due(n, h))
    BY <1>6, <1>10, <1>13, <2>1, RisesOn
  <2>3. views[v].rows \o <<h>> = Append(views[v].rows, h)
    BY <1>6, <1>13 DEF Rising
  <2> QED BY <2>1, <2>2, <2>3
<1>15. /\ views' = [u \in Views |-> views'[u]] /\ \A u \in Views : u # v => views'[u] = views[u]
       /\ views'[v] = [views[v] EXCEPT !.lastId = Cursor(h), !.rows = Append(@, h)]
  BY <1>1, <1>2 DEF Shaped
<1>16. /\ views'[v] = [f \in ViewFields |-> views'[v][f]] /\ views'[v].phase = "open"
       /\ views'[v].sub = views[v].sub /\ views'[v].start = views[v].start
       /\ views'[v].lastId = Cursor(h) /\ views'[v].rows = Append(views[v].rows, h)
  BY <1>1, <1>2, <1>15 DEF Shaped, ViewFields
<1>17. Shaped(views')
  <2>1. ASSUME NEW u \in Views PROVE views'[u] = [f \in ViewFields |-> views'[u][f]]
    BY <1>2, <1>15, <1>16 DEF Shaped
  <2> QED BY <1>15, <2>1 DEF Shaped
<1>18. /\ wire' = [u \in Views |-> wire'[u]] /\ wire'[v] = Tail(wire[v])
       /\ \A u \in Views : u # v => wire'[u] = wire[u]
  BY <1>1, <1>2
<1>19. PICK k, s : k = h /\ s = views[v].start
  OBVIOUS
<1>20. \A a, b : Due(a, b)' = Due(a, b)
  BY <1>1 DEF Due, Indexed
<1>21. k \in Nat /\ At(views[v].lastId, k)' /\ At(streams[v].cursor, c)'
  <2>1. views'[v].lastId = Cursor(k) /\ k \in DOMAIN log
    BY <1>7, <1>16, <1>19
  <2> QED BY <1>1, <1>5, <1>6, <1>19, <2>1 DEF At, Cursor, LaneOrdinal, Contains
<1>22. Showing(v, k)'
  <2>1. Rising(views'[v].rows, Due(s, k)) /\ views'[v].start = s /\ s \in Nat /\ s <= k
    <3>1. views[v].start <= h
      BY <1>6, <1>8, <1>13
    <3>2. Rising(views'[v].rows, Due(views[v].start, h))
      BY <1>14, <1>16
    <3> QED BY <1>13, <1>16, <1>19, <3>1, <3>2
  <2> QED BY <1>20, <1>21, <2>1 DEF Showing, Rising
<1>23. Flowing(v, k)'
  <2>1. Rising(wire'[v], Due(k, c)) /\ k <= c
    BY <1>7, <1>12, <1>18, <1>19
  <2>2. streams'[v] = [sub |-> views'[v].sub, cursor |-> streams'[v].cursor]
    BY <1>1, <1>4, <1>16 DEF Flowing
  <2> QED BY <1>20, <1>21, <2>1, <2>2 DEF Flowing, Rising
<1>24. ViewSound(v)'
  <2>1. views'[v].sub \in SubIds'
    BY <1>1, <1>2, <1>3, <1>16 DEF ViewSound, Streaming
  <2> QED BY <1>16, <1>21, <1>22, <1>23, <2>1 DEF ViewSound
<1>25. views[v].phase # "subscribing" /\ streams' = [u \in Views |-> streams'[u]]
  BY <1>1, <1>2
<1> QED BY <1>1, <1>3, <1>15, <1>17, <1>18, <1>24, <1>25, ClientKeeps

\* A dropped connection, and a view that is left.
LEMMA LeaveKeeps ==
    ASSUME StreamInv, NEW v \in Views, Drop(v) \/ Leave(v)
    PROVE  StreamInv'
<1>1. /\ log' = log /\ lanes' = lanes /\ lines' = lines /\ calls' = calls /\ subs' = subs
      /\ streams' = [streams EXCEPT ![v] = Absent] /\ wire' = [wire EXCEPT ![v] = <<>>]
  BY DEF Drop, Leave, tables
<1>2. /\ ViewSound(v) /\ streams = [u \in Views |-> streams[u]] /\ wire = [u \in Views |-> wire[u]]
  BY DEF StreamInv, Shapes
<1>3. PICK ph \in {"connecting", "closed"} :
          /\ views' = [views EXCEPT ![v].phase = ph]
          /\ ph \in Streaming => views[v].phase \in Streaming
          /\ views[v].phase # "subscribing"
  <2>1. CASE Drop(v)
    <3>1. streams[v] # Absent /\ views' = [views EXCEPT ![v].phase = "connecting"]
      BY <2>1 DEF Drop
    <3>2. views[v].phase = "open"
      BY <1>2, <3>1 DEF ViewSound
    <3> QED BY <3>1, <3>2 DEF Streaming
  <2>2. CASE Leave(v)
    BY <2>2 DEF Leave, Streaming
  <2> QED BY <2>1, <2>2
<1>4. /\ streams' = [u \in Views |-> streams'[u]] /\ wire' = [u \in Views |-> wire'[u]] /\ streams'[v] = Absent
      /\ \A u \in Views : u # v => streams'[u] = streams[u] /\ wire'[u] = wire[u]
  BY <1>1, <1>2
<1>5. ph \notin {"open", "subscribing"}
  OBVIOUS
<1> QED BY <1>1, <1>3, <1>4, <1>5, StopKeeps

\* A restart ends every connection.
LEMMA RestartKeeps ==
    ASSUME StreamInv, Restart
    PROVE  StreamInv'
<1>1. /\ log' = log /\ lanes' = lanes /\ lines' = lines /\ subs' = subs
      /\ calls' = [k \in Calls |-> Free] /\ streams' = [v \in Views |-> Absent] /\ wire' = [v \in Views |-> <<>>]
      /\ views' = [v \in Views |-> [views[v] EXCEPT !.phase =
            IF views[v].phase = "open" THEN "connecting" ELSE IF views[v].phase = "subscribing" THEN "error"
            ELSE views[v].phase]]
  BY DEF Restart, tables
<1>2. LogSound /\ LogSound' /\ Grown
  BY <1>1, SameLog DEF StreamInv
<1>3. SubsSound' /\ SubIds \subseteq SubIds'
  BY <1>1 DEF StreamInv, SubsSound, SubIds, Leased
<1>4. Shapes'
  BY <1>1 DEF Shapes
<1>5. ASSUME NEW k \in Calls PROVE CallSound(k)'
  BY <1>1 DEF CallSound, Free
<1>6. ASSUME NEW v \in Views PROVE ViewSound(v)'
  <2>1. ViewSound(v) /\ views[v] = [f \in ViewFields |-> views[v][f]]
    BY DEF StreamInv, ViewSound
  <2>2. views'[v] = [views[v] EXCEPT !.phase =
            IF views[v].phase = "open" THEN "connecting" ELSE IF views[v].phase = "subscribing" THEN "error"
            ELSE views[v].phase]
    BY <1>1
  <2>3. /\ views'[v] = [f \in ViewFields |-> views'[v][f]]
        /\ views'[v].phase = IF views[v].phase = "open" THEN "connecting"
                             ELSE IF views[v].phase = "subscribing" THEN "error" ELSE views[v].phase
        /\ \A f \in ViewFields \ {"phase"} : views'[v][f] = views[v][f]
    BY <2>1, <2>2 DEF ViewFields
  <2>4. /\ views'[v].phase # "open" /\ views'[v].phase # "subscribing"
        /\ views'[v].phase \in Streaming => views[v].phase \in Streaming
        /\ streams'[v] = Absent
    BY <1>1, <2>3 DEF Streaming
  <2> QED BY <1>2, <1>3, <2>1, <2>3, <2>4, ViewStops
<1> QED BY <1>2, <1>3, <1>4, <1>5, <1>6 DEF StreamInv

\* The bridge's sessions and the clock.
LEMMA SessionKeeps ==
    ASSUME StreamInv, SessionCreate \/ ClockTick \/ (\E b, v, held : SessionExchange(b, v, held)) \/ UNCHANGED streamVars
    PROVE  StreamInv'
<1>1. /\ log' = log /\ lanes' = lanes /\ lines' = lines /\ calls' = calls /\ subs' = subs
      /\ streams' = streams /\ wire' = wire
  BY DEF SessionCreate, ClockTick, SessionExchange, streamVars, tables, server
<1>2. Shaped(views)
  BY DEF StreamInv, Shapes, ViewSound, Shaped
<1>3. CASE views' = views
  BY <1>1, <1>2, <1>3, QuietKeeps DEF Shaped
<1>4. CASE \E v, n : views' = [views EXCEPT ![v].sess = n]
  <2>1. PICK v, n : views' = [views EXCEPT ![v].sess = n]
    BY <1>4
  <2>2. /\ views' = [u \in Views |-> views'[u]] /\ \A u \in Views : u # v => views'[u] = views[u]
        /\ v \in Views => views'[v] = [views[v] EXCEPT !.sess = n]
    BY <1>2, <2>1 DEF Shaped
  <2>3. ASSUME NEW u \in Views
        PROVE  /\ views'[u] = [f \in ViewFields |-> views'[u][f]]
               /\ \A f \in ViewFields \ {"sess"} : views'[u][f] = views[u][f]
    BY <1>2, <2>2 DEF Shaped, ViewFields
  <2>4. Shaped(views')
    BY <2>2, <2>3 DEF Shaped
  <2> QED BY <1>1, <2>3, <2>4, QuietKeeps
<1>5. views' = views \/ \E v, n : views' = [views EXCEPT ![v].sess = n]
  BY DEF SessionCreate, ClockTick, SessionExchange, streamVars
<1> QED BY <1>3, <1>4, <1>5

\* Nothing is shown at the start.
LEMMA StreamBegins ==
    ASSUME StreamInit
    PROVE  StreamInv
<1>1. LogSound /\ SubsSound
  <2>1. IsSeq(<<>>)
    BY DEF IsSeq, Range
  <2> QED BY <2>1 DEF StreamInit, LogSound, SubsSound, SubIds
<1>2. Shapes
  BY DEF StreamInit, Shapes
<1>3. ASSUME NEW k \in Calls PROVE CallSound(k)
  BY DEF StreamInit, CallSound, Free
<1>4. ASSUME NEW v \in Views PROVE ViewSound(v)
  BY DEF StreamInit, NewView, ViewSound, ViewFields, Streaming
<1> QED BY <1>1, <1>2, <1>3, <1>4 DEF StreamInv

\* Every step keeps the invariant.
LEMMA StreamSteps ==
    ASSUME StreamInv, [StreamNext]_streamVars
    PROVE  StreamInv'
<1>1. ASSUME NEW k \in Calls, ServiceCall(k) PROVE StreamInv'
  BY <1>1, PublishKeeps, SubscribeKeeps, AckKeeps, RevokeKeeps, CommitShows, LostKeeps DEF ServiceCall
<1>2. ASSUME NEW v \in Views, View(v) PROVE StreamInv'
  BY <1>2, ConnectKeeps, ReadKeeps, ReceiveKeeps, LeaveKeeps DEF View
<1>3. CASE SessionCreate \/ ClockTick \/ (\E b, v, held : SessionExchange(b, v, held)) \/ UNCHANGED streamVars
  BY <1>3, SessionKeeps
<1>4. CASE Restart
  BY <1>4, RestartKeeps
<1> QED BY <1>1, <1>2, <1>3, <1>4 DEF StreamNext

\* What the invariant says of a view with a lease.
LEMMA StreamShows ==
    ASSUME StreamInv
    PROVE  ShownInOrder
<1> SUFFICES ASSUME NEW v \in Views, views[v].sub # Absent
             PROVE  /\ \A a, b \in DOMAIN views[v].rows : a < b => views[v].rows[a] < views[v].rows[b]
                    /\ Range(views[v].rows) = Owed(v, OrderOf(views[v].lastId))
  BY DEF ShownInOrder
<1>1. PICK n \in Nat : Showing(v, n)
  BY DEF StreamInv, ViewSound
<1>2. OrderOf(views[v].lastId) = n /\ n \in 0..Len(log)
  BY <1>1, OrderAt DEF StreamInv, Showing
<1>3. Owed(v, n) = Due(views[v].start, n)
  <2>1. DOMAIN log = 1..Len(log) /\ Len(log) \in Nat
    BY LogTyped DEF StreamInv
  <2>2. \A i : (i \in 1..n) <=> (i \in DOMAIN log /\ i <= n)
    BY <1>2, <2>1
  <2> QED BY <1>1, <2>1, <2>2 DEF Owed, Due, Showing
<1> QED BY <1>1, <1>2, <1>3 DEF Showing, Rising

\* events-svc.ts, sse.ts and lib/sse.ts: however publishes, acknowledgements,
\* reads, lost connections, resumes and restarts fall, the rows of a view are
\* the committed events of its topics after the lease's start, each once and in
\* commit order, up to the last it has parsed.
THEOREM ShowsInOrder == StreamSpec => []ShownInOrder
<1>1. StreamInit => StreamInv
  BY StreamBegins
<1>2. StreamInv /\ [StreamNext]_streamVars => StreamInv'
  BY StreamSteps
<1>3. StreamInv => ShownInOrder
  BY StreamShows
<1> QED BY <1>1, <1>2, <1>3, PTL DEF StreamSpec
=============================================================================
