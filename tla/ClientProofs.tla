---------------------------- MODULE ClientProofs ----------------------------
(***************************************************************************)
(* Proofs about the threads of the client's process: the input loop and    *)
(* its reader (ClientInput), for every set of strokes and capacity of the  *)
(* channels, and a writer of the outer bridge (OuterWriter), for every     *)
(* length of the queue and number of records, credits and ends of stream.  *)
(***************************************************************************)
EXTENDS OuterWriter, ClientInput, SequenceTheorems, FiniteSetTheorems,
        WellFoundedInduction, TLAPS

----------------------------------------------------------------------------
(* The input loop: what the parsers make of the bytes of a read.           *)

\* Sets of numbers that contain 0 and are closed under the next one are all.
LEMMA EveryNumber ==
    ASSUME NEW S \in SUBSET Nat, 0 \in S, \A n \in S : n + 1 \in S
    PROVE  S = Nat
<1>. DEFINE T == Nat \ S
<1>. SUFFICES ASSUME T # {} PROVE FALSE
  OBVIOUS
<1>1. \E x \in T : \A y \in T : ~(<<y, x>> \in OpToRel(<, Nat))
  BY NatLessThanWellFounded, WFMin, ZenonT(30)
<1>2. PICK x \in T : \A y \in T : ~(<<y, x>> \in OpToRel(<, Nat))
  BY <1>1, Zenon
<1>3. \A y \in T : ~(y < x)
  <2>. TAKE y \in T
  <2>1. <<y, x>> \notin OpToRel(<, Nat)
    BY <1>2, Zenon
  <2>. QED BY <2>1 DEF OpToRel
<1>4. x - 1 \in S
  BY <1>3
<1>. QED BY <1>4

\* f[i] is what the steps make of the first i items.
Trace(step, start, items, n, f) ==
    f = [i \in 0 .. n |-> IF i = 0 THEN start ELSE step[<<f[i - 1], items[i]>>]]

\* Steps on a set make a trace of every sequence of items, and it stays there.
LEMMA TraceExists ==
    ASSUME NEW S, NEW B, NEW step \in [S \X B -> S], NEW start \in S, NEW items \in Seq(B)
    PROVE  \E f \in [0 .. Len(items) -> S] : Trace(step, start, items, Len(items), f)
<1>. DEFINE N == {m \in Nat : m <= Len(items) =>
                     \E f \in [0 .. m -> S] : Trace(step, start, items, m, f)}
<1>0. Len(items) \in Nat /\ \A i \in 1 .. Len(items) : items[i] \in B
  OBVIOUS
<1>1. 0 \in N
  <2>. DEFINE f == [i \in 0 .. 0 |-> start]
  <2>1. Trace(step, start, items, 0, f) /\ f \in [0 .. 0 -> S]
    BY DEF Trace
  <2>. QED BY <2>1
<1>2. ASSUME NEW m \in N PROVE m + 1 \in N
  <2>. SUFFICES ASSUME m + 1 <= Len(items)
                PROVE  \E f \in [0 .. m + 1 -> S] : Trace(step, start, items, m + 1, f)
    OBVIOUS
  <2>0. m \in Nat /\ items[m + 1] \in B
    BY <1>0
  <2>1. PICK f \in [0 .. m -> S] : Trace(step, start, items, m, f)
    BY <1>0
  <2>. DEFINE last == step[<<f[m], items[m + 1]>>]
              next == [i \in 0 .. m + 1 |-> IF i <= m THEN f[i] ELSE last]
  <2>2. last \in S /\ f[m] \in S
    BY <2>0
  <2>. HIDE DEF last
  <2>3. next \in [0 .. m + 1 -> S]
    BY <2>0, <2>2
  <2>4. Trace(step, start, items, m + 1, next)
    <3>1. \A i \in 0 .. m + 1 :
              next[i] = IF i = 0 THEN start ELSE step[<<next[i - 1], items[i]>>]
      <4>. TAKE i \in 0 .. m + 1
      <4>1. CASE i <= m
        <5>1. next[i] = f[i] /\ (i # 0 => next[i - 1] = f[i - 1])
          BY <4>1, <2>0
        <5>2. i \in 0 .. m
          BY <4>1, <2>0
        <5>. HIDE DEF next
        <5>. QED BY <5>1, <5>2, <2>1 DEF Trace
      <4>2. CASE i = m + 1
        <5>1. next[m + 1] = last /\ next[m] = f[m]
          BY <2>0
        <5>. HIDE DEF next
        <5>2. i # 0 /\ i - 1 = m
          BY <4>2, <2>0
        <5>. QED BY <5>1, <5>2, <4>2 DEF last
      <4>. QED BY <4>1, <4>2, <2>0
    <3>. QED BY <3>1 DEF Trace
  <2>. HIDE DEF next
  <2>. QED BY <2>3, <2>4
<1>. HIDE DEF N
<1>3. N = Nat
  <2>1. N \in SUBSET Nat
    BY DEF N
  <2>. QED BY <1>1, <1>2, <2>1, EveryNumber
<1>. QED BY <1>3, <1>0 DEF N

----------------------------------------------------------------------------
(* The bytes of the input among commands. *)

InputCommands ==
    [do : {"input"}, bytes : Seq(Bytes)] \cup [do : {"detach", "mouse"}]
    \cup [do : {"action"}, action : {"close", "focus", "move", "copy"}]

Counted(n, c) == IF c.do = "input" THEN n + Len(c.bytes) ELSE n

CountTrace(f, commands) ==
    f = [i \in 0 .. Len(commands) |->
            IF i = 0 THEN 0
            ELSE CHOOSE next \in {Counted(n, commands[i]) : n \in {f[i - 1]}} : TRUE]

\* A choice from a set of one.
LEMMA ChooseOnly ==
    ASSUME NEW x
    PROVE  (CHOOSE y \in {x} : TRUE) = x
OBVIOUS

\* InputBytes is the last number of its trace.
LEMMA InputBytesIs ==
    ASSUME NEW commands
    PROVE  InputBytes(commands)
             = (CHOOSE f : CountTrace(f, commands))[Len(commands)]
<1>1. Along(Counted, 0, commands) = (CHOOSE f : CountTrace(f, commands))[Len(commands)]
  BY Zenon DEF Along, CountTrace
<1>2. {Along(Counted, 0, s) : s \in {commands}} = {Along(Counted, 0, commands)}
  OBVIOUS
<1>3. Over(Counted, 0, commands) = CHOOSE end \in {Along(Counted, 0, commands)} : TRUE
  BY <1>2, Zenon DEF Over
<1>4. InputBytes(commands) = Over(Counted, 0, commands)
  BY Zenon DEF InputBytes, Over, Along, Counted
<1>. QED BY <1>1, <1>3, <1>4, ChooseOnly, Zenon

\* The trace of InputBytes exists, and each number comes from the one before.
LEMMA CountTraces ==
    ASSUME NEW commands \in Seq(InputCommands)
    PROVE  LET f == CHOOSE f : CountTrace(f, commands)
           IN  /\ f \in [0 .. Len(commands) -> Nat]
               /\ f[0] = 0
               /\ \A i \in 1 .. Len(commands) : f[i] = Counted(f[i - 1], commands[i])
<1>. DEFINE step == [nc \in Nat \X InputCommands |-> Counted(nc[1], nc[2])]
<1>0. Len(commands) \in Nat /\ \A i \in 1 .. Len(commands) : commands[i] \in InputCommands
  OBVIOUS
<1>1. \A n \in Nat, c \in InputCommands : Counted(n, c) \in Nat
  BY DEF Counted, InputCommands
<1>2. step \in [Nat \X InputCommands -> Nat]
  BY <1>1
<1>3. \A n \in Nat, c \in InputCommands : step[<<n, c>>] = Counted(n, c)
  OBVIOUS
<1>. HIDE DEF step
<1>4. PICK f \in [0 .. Len(commands) -> Nat] : Trace(step, 0, commands, Len(commands), f)
  BY <1>2, TraceExists
<1>5. \A n, c : {Counted(m, c) : m \in {n}} = {Counted(n, c)}
  OBVIOUS
<1>6. CountTrace(f, commands)
  <2>1. \A i \in 0 .. Len(commands) :
           f[i] = IF i = 0 THEN 0
                  ELSE CHOOSE next \in {Counted(n, commands[i]) : n \in {f[i - 1]}} : TRUE
    <3>. TAKE i \in 0 .. Len(commands)
    <3>1. CASE i = 0
      BY <3>1, <1>4 DEF Trace
    <3>2. CASE i # 0
      <4>1. f[i - 1] \in Nat /\ commands[i] \in InputCommands
        BY <3>2, <1>0
      <4>2. f[i] = step[<<f[i - 1], commands[i]>>]
        BY <3>2, <1>0, <1>4 DEF Trace
      <4>3. f[i] = Counted(f[i - 1], commands[i])
        BY <4>1, <4>2, <1>3
      <4>. QED BY <4>3, <3>2, <1>5, ChooseOnly, Zenon
    <3>. QED BY <3>1, <3>2
  <2>. QED BY <2>1, <1>4 DEF CountTrace
<1>. DEFINE g == CHOOSE g : CountTrace(g, commands)
<1>7. CountTrace(g, commands)
  BY <1>6, Zenon
<1>. HIDE DEF g
<1>8. g[0] = 0 /\ \A i \in 1 .. Len(commands) : g[i] = Counted(g[i - 1], commands[i])
  <2>1. g[0] = 0
    BY <1>0, <1>7 DEF CountTrace
  <2>2. ASSUME NEW i \in 1 .. Len(commands) PROVE g[i] = Counted(g[i - 1], commands[i])
    <3>1. i \in 0 .. Len(commands) /\ i # 0
      BY <1>0
    <3>2. g[i] = CHOOSE next \in {Counted(n, commands[i]) : n \in {g[i - 1]}} : TRUE
      BY <3>1, <1>7, Zenon DEF CountTrace
    <3>. QED BY <3>2, <1>5, ChooseOnly, Zenon
  <2>. QED BY <2>1, <2>2
<1>9. g \in [0 .. Len(commands) -> Nat]
  <2>. DEFINE N == {m \in Nat : m <= Len(commands) => g[m] \in Nat}
  <2>1. 0 \in N
    BY <1>8
  <2>2. ASSUME NEW m \in N PROVE m + 1 \in N
    <3>. SUFFICES ASSUME m + 1 <= Len(commands) PROVE g[m + 1] \in Nat
      OBVIOUS
    <3>1. m \in Nat /\ g[m] \in Nat /\ m + 1 \in 1 .. Len(commands) /\ (m + 1) - 1 = m
      BY <1>0
    <3>2. g[m + 1] = Counted(g[m], commands[m + 1])
      BY <3>1, <1>8
    <3>. QED BY <3>1, <3>2, <1>0, <1>1
  <2>. HIDE DEF N
  <2>3. N \in SUBSET Nat
    BY DEF N
  <2>4. N = Nat
    BY <2>1, <2>2, <2>3, EveryNumber
  <2>5. \A m \in 0 .. Len(commands) : g[m] \in Nat
    BY <2>4, <1>0 DEF N
  <2>. QED BY <2>5, <1>7 DEF CountTrace
<1>. QED BY <1>8, <1>9 DEF g

\* The length of a sequence, as a number that arithmetic takes for itself.
Size(s) == Len(s)

\* What a byte or a sequence adds to a size.
LEMMA Sizes ==
    /\ Size(<<>>) = 0
    /\ \A s \in Seq(Bytes) : Size(s) \in Nat /\ (s # <<>> => Size(s) > 0)
    /\ \A s \in Seq(Bytes) : \A b \in Bytes :
           Append(s, b) \in Seq(Bytes) /\ Size(Append(s, b)) = Size(s) + 1
    /\ \A s, t \in Seq(Bytes) : s \o t \in Seq(Bytes) /\ Size(s \o t) = Size(s) + Size(t)
BY DEF Size

\* One more command adds its input, if it is input.
LEMMA InputBytesAppend ==
    ASSUME NEW commands \in Seq(InputCommands), NEW c \in InputCommands
    PROVE  /\ InputBytes(commands) \in Nat
           /\ InputBytes(<<>>) = 0
           /\ InputBytes(Append(commands, c))
                = InputBytes(commands) + (IF c.do = "input" THEN Size(c.bytes) ELSE 0)
<1>. DEFINE longer == Append(commands, c)
            f == CHOOSE f : CountTrace(f, commands)
            g == CHOOSE g : CountTrace(g, longer)
            e == CHOOSE e : CountTrace(e, <<>>)
            n == Len(commands)
<1>0. /\ longer \in Seq(InputCommands) /\ <<>> \in Seq(InputCommands) /\ Len(<<>>) = 0
      /\ n \in Nat /\ Len(longer) = n + 1 /\ longer[n + 1] = c
      /\ \A i \in 1 .. n : longer[i] = commands[i]
  OBVIOUS
<1>1. /\ f \in [0 .. n -> Nat] /\ f[0] = 0
      /\ \A i \in 1 .. n : f[i] = Counted(f[i - 1], commands[i])
  BY CountTraces, Zenon
<1>2. /\ g \in [0 .. Len(longer) -> Nat] /\ g[0] = 0
      /\ \A i \in 1 .. Len(longer) : g[i] = Counted(g[i - 1], longer[i])
  <2>. HIDE DEF longer
  <2>. QED BY <1>0, CountTraces, Zenon
<1>3. e[0] = 0
  BY <1>0, CountTraces, Zenon
<1>4. /\ InputBytes(commands) = f[n] /\ InputBytes(longer) = g[Len(longer)]
      /\ InputBytes(<<>>) = e[Len(<<>>)]
  BY InputBytesIs, Zenon
<1>. HIDE DEF longer, f, g, e
<1>5. g[n] = f[n]
  <2>. DEFINE N == {m \in Nat : m <= n => g[m] = f[m]}
  <2>1. 0 \in N
    BY <1>1, <1>2
  <2>2. ASSUME NEW m \in N PROVE m + 1 \in N
    <3>. SUFFICES ASSUME m + 1 <= n PROVE g[m + 1] = f[m + 1]
      OBVIOUS
    <3>1. m \in Nat /\ g[m] = f[m] /\ m + 1 \in 1 .. n /\ (m + 1) - 1 = m
          /\ m + 1 \in 1 .. Len(longer)
      BY <1>0
    <3>. QED BY <3>1, <1>0, <1>1, <1>2
  <2>. HIDE DEF N
  <2>3. N \in SUBSET Nat
    BY DEF N
  <2>4. N = Nat
    BY <2>1, <2>2, <2>3, EveryNumber
  <2>. QED BY <2>4, <1>0 DEF N
<1>6. g[n + 1] = Counted(g[n], c)
  <2>1. n + 1 \in 1 .. Len(longer) /\ (n + 1) - 1 = n
    BY <1>0
  <2>. QED BY <2>1, <1>0, <1>2
<1>7. f[n] \in Nat
  BY <1>0, <1>1
<1>. QED BY <1>0, <1>3, <1>4, <1>5, <1>6, <1>7 DEF Counted, longer, InputCommands, Size

----------------------------------------------------------------------------
(* PrefixParser. *)

Parsers == [prefix : BOOLEAN, sequence : Seq(Bytes), mouse_sequence : Seq(Bytes),
            confirm_close : BOOLEAN]

\* A sequence is held only behind the prefix, and a close waits for its answer
\* alone.
SoundParser(p) ==
    /\ p \in Parsers
    /\ p.sequence # <<>> => p.prefix
    /\ p.confirm_close => ~p.prefix /\ p.sequence = <<>>

Feeding == [parser : {p \in Parsers : SoundParser(p)}, out : Seq(InputCommands),
            ordinary : Seq(Bytes), used : Nat]

HeldByParser(p) ==
    Size(p.mouse_sequence) + Size(p.sequence)
    + (IF p.prefix THEN 1 ELSE 0) + (IF p.confirm_close THEN 2 ELSE 0)

\* The bytes a step carries, each counted where it is.
Weight(st) ==
    st.used + InputBytes(st.out) + Size(st.ordinary) + HeldByParser(st.parser)

\* A parser holds a number of bytes.
LEMMA HeldType ==
    ASSUME NEW p \in Parsers
    PROVE  HeldByParser(p) \in Nat
<1>. DEFINE a == Size(p.mouse_sequence)
            b == Size(p.sequence)
            c == IF p.prefix THEN 1 ELSE 0
            d == IF p.confirm_close THEN 2 ELSE 0
<1>1. a \in Nat /\ b \in Nat
  BY Sizes DEF Parsers
<1>2. c \in Nat /\ d \in Nat
  OBVIOUS
<1>3. HeldByParser(p) = a + b + c + d
  BY Zenon DEF HeldByParser
<1>. HIDE DEF a, b, c, d
<1>. QED BY <1>1, <1>2, <1>3

\* Flush moves bytes from the ordinary ones to a command.
LEMMA FlushWeighs ==
    ASSUME NEW st \in Feeding
    PROVE  /\ Flush(st) \in Feeding
           /\ Flush(st).parser = st.parser /\ Flush(st).used = st.used
           /\ Flush(st).ordinary = <<>>
           /\ InputBytes(Flush(st).out) = InputBytes(st.out) + Size(st.ordinary)
           /\ InputBytes(st.out) \in Nat
<1>. DEFINE c == [do |-> "input", bytes |-> st.ordinary]
<1>1. /\ st.out \in Seq(InputCommands) /\ st.ordinary \in Seq(Bytes) /\ Size(st.ordinary) \in Nat
      /\ st = [parser |-> st.parser, out |-> st.out, ordinary |-> st.ordinary, used |-> st.used]
  BY Sizes DEF Feeding
<1>2. c \in InputCommands /\ c.do = "input" /\ c.bytes = st.ordinary
  BY <1>1 DEF InputCommands
<1>3. InputBytes(Append(st.out, c)) = InputBytes(st.out) + Size(st.ordinary)
      /\ InputBytes(st.out) \in Nat
  BY <1>1, <1>2, InputBytesAppend
<1>4. CASE st.ordinary = <<>>
  <2>1. Flush(st) = st /\ Size(st.ordinary) = 0
    BY <1>4, Sizes DEF Flush
  <2>. HIDE DEF c
  <2>. QED BY <2>1, <1>1, <1>3, <1>4
<1>5. CASE st.ordinary # <<>>
  <2>1. Flush(st) = [parser |-> st.parser, out |-> Append(st.out, c),
                     ordinary |-> <<>>, used |-> st.used]
    BY ONLY <1>5, <1>1 DEF Flush
  <2>2. Append(st.out, c) \in Seq(InputCommands) /\ <<>> \in Seq(Bytes)
    BY <1>1, <1>2
  <2>. HIDE DEF c
  <2>. QED BY <2>1, <2>2, <1>3 DEF Feeding
<1>. QED BY <1>4, <1>5

\* Emit adds a command with the bytes it uses.
LEMMA EmitWeighs ==
    ASSUME NEW st \in Feeding, NEW c \in InputCommands, NEW n \in Nat
    PROVE  /\ Emit(st, c, n) \in Feeding
           /\ Weight(Emit(st, c, n))
                = Weight(st) + n + (IF c.do = "input" THEN Size(c.bytes) ELSE 0)
           /\ Emit(st, c, n).parser = st.parser
<1>. DEFINE fl == Flush(st)
<1>1. /\ fl \in Feeding /\ fl.parser = st.parser /\ fl.used = st.used
      /\ fl.ordinary = <<>>
      /\ InputBytes(fl.out) = InputBytes(st.out) + Size(st.ordinary)
      /\ InputBytes(st.out) \in Nat
  BY FlushWeighs, Zenon
<1>2. Emit(st, c, n) = [fl EXCEPT !.out = Append(@, c), !.used = @ + n]
  BY DEF Emit
<1>. HIDE DEF fl
<1>3. /\ fl.out \in Seq(InputCommands) /\ fl.used \in Nat
      /\ fl = [parser |-> fl.parser, out |-> fl.out, ordinary |-> fl.ordinary, used |-> fl.used]
  BY <1>1 DEF Feeding
<1>4. Emit(st, c, n) = [parser |-> st.parser, out |-> Append(fl.out, c),
                        ordinary |-> <<>>, used |-> st.used + n]
  BY ONLY <1>1, <1>2, <1>3
<1>5. InputBytes(Append(fl.out, c))
        = InputBytes(fl.out) + (IF c.do = "input" THEN Size(c.bytes) ELSE 0)
  BY <1>3, InputBytesAppend
<1>6. Append(fl.out, c) \in Seq(InputCommands) /\ st.parser = fl.parser /\ st.used + n \in Nat
      /\ <<>> \in Seq(Bytes) /\ Size(<<>>) = 0
  BY <1>1, <1>3, Sizes
<1>7. st.used \in Nat /\ Size(st.ordinary) \in Nat /\ HeldByParser(st.parser) \in Nat
  BY HeldType, Sizes DEF Feeding
<1>8. c.do = "input" => Size(c.bytes) \in Nat
  BY Sizes DEF InputCommands
<1>. DEFINE e == Emit(st, c, n)
<1>9. /\ e.parser = st.parser /\ e.out = Append(fl.out, c) /\ e.ordinary = <<>>
      /\ e.used = st.used + n
  BY <1>4
<1>10. e \in Feeding
  <2>1. st.parser \in {p \in Parsers : SoundParser(p)}
    BY DEF Feeding
  <2>. QED BY <2>1, <1>4, <1>6 DEF Feeding
<1>. HIDE DEF e
<1>. DEFINE k == IF c.do = "input" THEN Size(c.bytes) ELSE 0
<1>11. k \in Nat
  BY <1>8
<1>12. InputBytes(e.out) = InputBytes(st.out) + Size(st.ordinary) + k
  BY <1>1, <1>5, <1>9
<1>. HIDE DEF k
<1>13. Weight(e) = Weight(st) + n + k
  <2>. DEFINE h == HeldByParser(st.parser)
              i == InputBytes(st.out)
              o == Size(st.ordinary)
  <2>1. h \in Nat /\ i \in Nat /\ o \in Nat /\ st.used \in Nat
    BY <1>1, <1>7
  <2>2. Weight(e) = (st.used + n) + (i + o + k) + 0 + h
    BY <1>6, <1>9, <1>12, Zenon DEF Weight
  <2>3. Weight(st) = st.used + i + o + h
    BY Zenon DEF Weight
  <2>. HIDE DEF h, i, o
  <2>. QED BY <2>1, <2>2, <2>3, <1>11
<1>. QED BY <1>9, <1>10, <1>13 DEF e, k

Shapes == [parser : Parsers, out : Seq(InputCommands), ordinary : Seq(Bytes), used : Nat]

\* The parts of what a step carries have their types.
LEMMA FeedingIs ==
    /\ \A st \in Feeding : st \in Shapes /\ SoundParser(st.parser)
    /\ \A st \in Shapes : SoundParser(st.parser) => st \in Feeding
BY DEF Feeding, Shapes

\* What a parser holds, by where it is.
LEMMA HeldIs ==
    ASSUME NEW p \in Parsers
    PROVE  /\ ~p.prefix /\ ~p.confirm_close =>
                 HeldByParser(p) = Size(p.mouse_sequence) + Size(p.sequence)
           /\ p.prefix /\ ~p.confirm_close =>
                 HeldByParser(p) = Size(p.mouse_sequence) + Size(p.sequence) + 1
           /\ ~p.prefix /\ p.confirm_close =>
                 HeldByParser(p) = Size(p.mouse_sequence) + Size(p.sequence) + 2
           /\ Size(p.mouse_sequence) \in Nat /\ Size(p.sequence) \in Nat
<1>1. Size(p.mouse_sequence) \in Nat /\ Size(p.sequence) \in Nat
  BY Sizes DEF Parsers
<1>2. CASE ~p.prefix /\ ~p.confirm_close
  <2>1. HeldByParser(p) = Size(p.mouse_sequence) + Size(p.sequence) + 0 + 0
    BY <1>2, Zenon DEF HeldByParser
  <2>2. HeldByParser(p) = Size(p.mouse_sequence) + Size(p.sequence)
    BY <1>1, <2>1
  <2>. QED BY <1>1, <1>2, <2>2, Zenon
<1>3. CASE p.prefix /\ ~p.confirm_close
  <2>1. HeldByParser(p) = Size(p.mouse_sequence) + Size(p.sequence) + 1 + 0
    BY <1>3, Zenon DEF HeldByParser
  <2>. QED BY <1>1, <1>3, <2>1
<1>4. CASE ~p.prefix /\ p.confirm_close
  <2>1. HeldByParser(p) = Size(p.mouse_sequence) + Size(p.sequence) + 0 + 2
    BY <1>4, Zenon DEF HeldByParser
  <2>. QED BY <1>1, <1>4, <2>1
<1>5. CASE p.prefix /\ p.confirm_close
  BY <1>1, <1>5
<1>. QED BY <1>2, <1>3, <1>4, <1>5

\* The weight is a sum of numbers.
LEMMA WeightIs ==
    ASSUME NEW st \in Shapes
    PROVE  /\ Weight(st) = st.used + InputBytes(st.out) + Size(st.ordinary)
                             + HeldByParser(st.parser)
           /\ st.parser \in Parsers
           /\ InputBytes(st.out) \in Nat /\ Size(st.ordinary) \in Nat
           /\ HeldByParser(st.parser) \in Nat /\ st.used \in Nat /\ Weight(st) \in Nat
<1>1. st.parser \in Parsers /\ st.used \in Nat /\ Size(st.ordinary) \in Nat
      /\ st.out \in Seq(InputCommands)
  BY Sizes DEF Shapes
<1>2. [do |-> "detach"] \in InputCommands
  BY DEF InputCommands
<1>3. InputBytes(st.out) \in Nat
  BY <1>1, <1>2, InputBytesAppend
<1>. QED BY <1>1, <1>3, HeldType DEF Weight

\* A step that emits nothing moves weight between its parts.
LEMMA WeightMoves ==
    ASSUME NEW st \in Shapes, NEW e \in Shapes, e.out = st.out, NEW k \in Int,
           e.used + Size(e.ordinary) + HeldByParser(e.parser)
             = st.used + Size(st.ordinary) + HeldByParser(st.parser) + k
    PROVE  Weight(e) = Weight(st) + k /\ Weight(st) \in Nat
<1>. DEFINE i == InputBytes(st.out)
            a == Size(st.ordinary)
            b == Size(e.ordinary)
            c == HeldByParser(st.parser)
            d == HeldByParser(e.parser)
<1>1. /\ i \in Nat /\ a \in Nat /\ b \in Nat /\ c \in Nat /\ d \in Nat
      /\ e.used \in Nat /\ st.used \in Nat
      /\ Weight(st) = st.used + i + a + c /\ Weight(e) = e.used + i + b + d
  BY WeightIs, Zenon
<1>2. e.used + b + d = st.used + a + c + k
  OBVIOUS
<1>. DEFINE u == e.used
            v == st.used
            W == Weight(st)
            X == Weight(e)
<1>3. k \in Int /\ u \in Nat /\ v \in Nat /\ W = v + i + a + c /\ X = u + i + b + d
      /\ u + b + d = v + a + c + k
  BY <1>1, <1>2
<1>. HIDE DEF i, a, b, c, d, u, v, W, X
<1>4. X = W + k /\ W \in Nat
  BY ONLY <1>1, <1>3
<1>. QED BY <1>4 DEF W, X

\* The answer to a close uses the three bytes of it.
LEMMA InCloseWeighs ==
    ASSUME NEW st \in Feeding, NEW b \in Bytes, st.parser.confirm_close
    PROVE  InClose(st, b) \in Feeding /\ Weight(InClose(st, b)) = Weight(st) + 1
<1>. DEFINE c == [do |-> "action", action |-> "close"]
            next == [st EXCEPT !.parser.confirm_close = FALSE]
            more == [next EXCEPT !.used = @ + 3]
<1>1. st \in Shapes /\ st.parser \in Parsers /\ SoundParser(st.parser)
  BY FeedingIs DEF Shapes
<1>2. /\ next \in Shapes /\ ~next.parser.confirm_close
      /\ next.parser.prefix = st.parser.prefix
      /\ next.parser.sequence = st.parser.sequence
      /\ next.parser.mouse_sequence = st.parser.mouse_sequence
      /\ next.out = st.out /\ next.ordinary = st.ordinary /\ next.used = st.used
  BY <1>1 DEF Shapes, Parsers
<1>. HIDE DEF next
<1>3. /\ more \in Shapes /\ more.parser = next.parser
      /\ more.out = st.out /\ more.ordinary = st.ordinary /\ more.used = st.used + 3
  BY <1>2 DEF Shapes
<1>. HIDE DEF more
<1>4. SoundParser(next.parser) /\ ~st.parser.prefix /\ st.parser.sequence = <<>>
  BY <1>1, <1>2 DEF SoundParser, Shapes
<1>5. next \in Feeding /\ more \in Feeding
  BY <1>2, <1>3, <1>4, FeedingIs
<1>6. /\ Weight(next) + 2 = Weight(st) /\ Weight(more) = Weight(next) + 3
      /\ Weight(next) \in Nat
  <2>1. HeldByParser(next.parser) + 2 = HeldByParser(st.parser)
    <3>1. next.parser \in Parsers
      BY <1>2 DEF Shapes
    <3>. QED BY <1>1, <1>2, <1>4, <3>1, HeldIs
  <2>2. /\ next.used + Size(next.ordinary) + HeldByParser(next.parser)
             = st.used + Size(st.ordinary) + HeldByParser(st.parser) + (-2)
        /\ more.used + Size(more.ordinary) + HeldByParser(more.parser)
             = st.used + Size(st.ordinary) + HeldByParser(st.parser) + 1
    BY <1>1, <1>2, <1>3, <2>1, WeightIs
  <2>3. Weight(next) = Weight(st) + (-2) /\ Weight(st) \in Nat
    BY <1>1, <1>2, <2>2, WeightMoves
  <2>4. Weight(more) = Weight(st) + 1
    BY <1>1, <1>3, <2>2, WeightMoves
  <2>5. Weight(next) \in Nat
    BY <1>2, WeightIs
  <2>. QED BY <2>3, <2>4, <2>5
<1>7. c \in InputCommands /\ c.do # "input"
  BY DEF InputCommands
<1>8. InClose(st, b) = IF b = "y" THEN Emit(next, c, 3) ELSE more
  BY DEF InClose, next, more
<1>. HIDE DEF c
<1>9. Emit(next, c, 3) \in Feeding /\ Weight(Emit(next, c, 3)) = Weight(next) + 3 + 0
  BY <1>5, <1>7, EmitWeighs
<1>. QED BY <1>5, <1>6, <1>8, <1>9

\* A byte behind the prefix is held, or ends its sequence.
LEMMA InSequenceWeighs ==
    ASSUME NEW st \in Feeding, NEW b \in Bytes,
           ~st.parser.confirm_close, st.parser.sequence # <<>>
    PROVE  InSequence(st, b) \in Feeding /\ Weight(InSequence(st, b)) = Weight(st) + 1
<1>. DEFINE s == Append(st.parser.sequence, b)
            c == [do |-> "action", action |-> "focus"]
            rest == [st EXCEPT !.parser.sequence = <<>>, !.parser.prefix = FALSE]
            used == [rest EXCEPT !.used = @ + 1 + Len(s)]
            longer == [st EXCEPT !.parser.sequence = s]
            n == Size(st.parser.sequence)
            m == Size(st.parser.mouse_sequence)
<1>1. /\ st \in Shapes /\ st.parser \in Parsers /\ SoundParser(st.parser)
      /\ st.parser.sequence \in Seq(Bytes) /\ st.used \in Nat
  BY FeedingIs DEF Shapes, Parsers
<1>2. st.parser.prefix
  BY <1>1 DEF SoundParser
<1>3. s \in Seq(Bytes) /\ Size(s) = n + 1 /\ n \in Nat /\ Len(s) = n + 1
  <2>1. s \in Seq(Bytes) /\ Size(s) = n + 1 /\ n \in Nat
    BY <1>1, Sizes
  <2>. QED BY <2>1 DEF Size
<1>4. s = <<"Esc", "[", "A">> => n = 2
  <2>1. Len(<<"Esc", "[", "A">>) = 3
    OBVIOUS
  <2>. HIDE DEF s
  <2>. QED BY <2>1, <1>3
<1>5. /\ rest \in Shapes /\ ~rest.parser.prefix /\ ~rest.parser.confirm_close
      /\ rest.parser.sequence = <<>>
      /\ rest.parser.mouse_sequence = st.parser.mouse_sequence
      /\ rest.out = st.out /\ rest.ordinary = st.ordinary /\ rest.used = st.used
  <2>1. <<>> \in Seq(Bytes)
    OBVIOUS
  <2>. QED BY <1>1, <2>1 DEF Shapes, Parsers
<1>. HIDE DEF s
<1>6. /\ longer \in Shapes /\ longer.parser.prefix = st.parser.prefix
      /\ longer.parser.confirm_close = st.parser.confirm_close
      /\ longer.parser.sequence = s
      /\ longer.parser.mouse_sequence = st.parser.mouse_sequence
      /\ longer.out = st.out /\ longer.ordinary = st.ordinary /\ longer.used = st.used
  BY <1>1, <1>3 DEF Shapes, Parsers
<1>. HIDE DEF rest, longer
<1>7. /\ used \in Shapes /\ used.parser = rest.parser /\ used.out = st.out
      /\ used.ordinary = st.ordinary /\ used.used = st.used + (n + 2)
  <2>1. rest.used + 1 + Len(s) \in Nat /\ rest.used + 1 + Len(s) = st.used + (n + 2)
    BY <1>1, <1>3, <1>5
  <2>. HIDE DEF n
  <2>. QED BY <2>1, <1>5 DEF Shapes
<1>. HIDE DEF used
<1>8. rest.parser \in Parsers /\ longer.parser \in Parsers
  BY <1>5, <1>6 DEF Shapes
<1>9. /\ HeldByParser(st.parser) = m + n + 1 /\ m \in Nat
      /\ HeldByParser(rest.parser) = m /\ HeldByParser(longer.parser) = m + n + 2
  <2>1. HeldByParser(st.parser) = m + n + 1 /\ m \in Nat
    BY <1>1, <1>2, HeldIs
  <2>2. HeldByParser(rest.parser) = m + 0
    BY <1>5, <1>8, HeldIs, Sizes
  <2>3. HeldByParser(longer.parser) = m + Size(s) + 1
    BY <1>2, <1>6, <1>8, HeldIs
  <2>. HIDE DEF m, n
  <2>. QED BY <2>1, <2>2, <2>3, <1>3
<1>10. /\ Weight(rest) + n + 1 = Weight(st)
       /\ Weight(used) = Weight(st) + 1 /\ Weight(longer) = Weight(st) + 1
       /\ Weight(rest) \in Nat /\ Weight(st) \in Nat
  <2>. DEFINE i == InputBytes(st.out)
              o == Size(st.ordinary)
              u == st.used
  <2>1. /\ Weight(st) = u + i + o + HeldByParser(st.parser)
        /\ Weight(rest) = u + i + o + HeldByParser(rest.parser)
        /\ Weight(longer) = u + i + o + HeldByParser(longer.parser)
        /\ Weight(used) = (u + (n + 2)) + i + o + HeldByParser(rest.parser)
        /\ u \in Nat /\ i \in Nat /\ o \in Nat
    BY <1>1, <1>5, <1>6, <1>7, WeightIs
  <2>. HIDE DEF u, i, o, m, n
  <2>. QED BY <2>1, <1>3, <1>9
<1>11. rest \in Feeding /\ used \in Feeding /\ longer \in Feeding
  <2>1. SoundParser(rest.parser) /\ SoundParser(longer.parser)
    BY <1>2, <1>5, <1>6, <1>8 DEF SoundParser
  <2>. QED BY <2>1, <1>5, <1>6, <1>7, FeedingIs
<1>12. c \in InputCommands /\ c.do # "input"
  BY DEF InputCommands
<1>13. InSequence(st, b) =
          IF s = <<"Esc", "[", "A">> THEN Emit(rest, c, 4)
          ELSE IF Len(s) >= SequenceCap THEN used ELSE longer
  BY DEF InSequence, s, rest, used, longer
<1>. HIDE DEF c
<1>14. Emit(rest, c, 4) \in Feeding /\ Weight(Emit(rest, c, 4)) = Weight(rest) + 4 + 0
  BY <1>11, <1>12, EmitWeighs
<1>15. CASE s = <<"Esc", "[", "A">>
  <2>1. InSequence(st, b) = Emit(rest, c, 4) /\ n = 2
    BY <1>4, <1>13, <1>15
  <2>. HIDE DEF n
  <2>. QED BY <2>1, <1>10, <1>14
<1>16. CASE s # <<"Esc", "[", "A">>
  BY <1>10, <1>11, <1>13, <1>16
<1>. QED BY <1>15, <1>16

\* An ordinary byte is kept, or begins something.
LEMMA PlainWeighs ==
    ASSUME NEW st \in Feeding, NEW b \in Bytes, ~st.parser.confirm_close,
           ~st.parser.prefix, st.parser.sequence = <<>>, st.parser.mouse_sequence = <<>>
    PROVE  Plain(st, b) \in Feeding /\ Weight(Plain(st, b)) = Weight(st) + 1
<1>. DEFINE fl == Flush(st)
            mouse == [st EXCEPT !.parser.mouse_sequence = <<b>>]
            chord == [fl EXCEPT !.parser.prefix = TRUE]
            text == [st EXCEPT !.ordinary = Append(@, b)]
            i == InputBytes(st.out)
            o == Size(st.ordinary)
            u == st.used
<1>1. /\ st \in Shapes /\ st.parser \in Parsers /\ SoundParser(st.parser)
      /\ st.ordinary \in Seq(Bytes)
  BY FeedingIs DEF Shapes
<1>2. /\ fl \in Shapes /\ fl.parser = st.parser /\ fl.used = st.used /\ fl.ordinary = <<>>
      /\ InputBytes(fl.out) = i + o
  BY FlushWeighs, FeedingIs
<1>3. <<b>> \in Seq(Bytes) /\ Size(<<b>>) = 1
  BY DEF Size
<1>4. /\ mouse \in Shapes /\ ~mouse.parser.prefix /\ ~mouse.parser.confirm_close
      /\ mouse.parser.sequence = <<>> /\ mouse.parser.mouse_sequence = <<b>>
      /\ mouse.out = st.out /\ mouse.ordinary = st.ordinary /\ mouse.used = st.used
  BY <1>1, <1>3 DEF Shapes, Parsers
<1>5. /\ text \in Shapes /\ text.parser = st.parser
      /\ text.out = st.out /\ Size(text.ordinary) = o + 1 /\ text.used = st.used
  <2>1. Append(st.ordinary, b) \in Seq(Bytes) /\ Size(Append(st.ordinary, b)) = o + 1
    BY <1>1, Sizes
  <2>. HIDE DEF o
  <2>. QED BY <1>1, <2>1 DEF Shapes
<1>. HIDE DEF fl, mouse, text
<1>6. /\ chord \in Shapes /\ chord.parser.prefix /\ ~chord.parser.confirm_close
      /\ chord.parser.sequence = <<>> /\ chord.parser.mouse_sequence = <<>>
      /\ chord.out = fl.out /\ chord.ordinary = <<>> /\ chord.used = st.used
  BY <1>1, <1>2 DEF Shapes, Parsers
<1>. HIDE DEF chord
<1>7. /\ mouse.parser \in Parsers /\ chord.parser \in Parsers
  BY <1>4, <1>6 DEF Shapes
<1>8. /\ HeldByParser(st.parser) = 0 /\ HeldByParser(mouse.parser) = 1
      /\ HeldByParser(chord.parser) = 1
  <2>1. HeldByParser(st.parser) = 0 + 0 /\ HeldByParser(mouse.parser) = 1 + 0
        /\ HeldByParser(chord.parser) = 0 + 0 + 1
    BY <1>1, <1>3, <1>4, <1>6, <1>7, HeldIs, Sizes
  <2>. QED BY <2>1
<1>9. /\ Weight(mouse) = Weight(st) + 1 /\ Weight(chord) = Weight(st) + 1
      /\ Weight(text) = Weight(st) + 1
  <2>1. /\ Weight(st) = u + i + o + 0 /\ Weight(mouse) = u + i + o + 1
        /\ Weight(text) = u + i + (o + 1) + 0
        /\ Weight(chord) = u + (i + o) + 0 + 1
        /\ u \in Nat /\ i \in Nat /\ o \in Nat
    <3>1. Weight(st) = u + i + o + 0 /\ u \in Nat /\ i \in Nat /\ o \in Nat
      BY <1>1, <1>8, WeightIs, Zenon
    <3>2. Weight(mouse) = u + i + o + 1
      BY <1>4, <1>8, WeightIs, Zenon
    <3>3. Weight(text) = u + i + (o + 1) + 0
      BY <1>5, <1>8, WeightIs, Zenon
    <3>4. Weight(chord) = u + (i + o) + 0 + 1
      BY <1>2, <1>6, <1>8, WeightIs, Sizes, Zenon
    <3>. HIDE DEF u, i, o
    <3>. QED BY <3>1, <3>2, <3>3, <3>4
  <2>. HIDE DEF u, i, o
  <2>. QED BY <2>1
<1>10. mouse \in Feeding /\ chord \in Feeding /\ text \in Feeding
  <2>1. SoundParser(mouse.parser) /\ SoundParser(chord.parser) /\ SoundParser(text.parser)
    BY <1>1, <1>4, <1>5, <1>6, <1>7 DEF SoundParser
  <2>. QED BY <2>1, <1>4, <1>5, <1>6, FeedingIs
<1>11. Plain(st, b) = mouse \/ Plain(st, b) = chord \/ Plain(st, b) = text
  BY DEF Plain, mouse, chord, text, fl
<1>. QED BY <1>9, <1>10, <1>11

\* The byte after the prefix makes a command, or is used up with it.
LEMMA AfterPrefixWeighs ==
    ASSUME NEW st \in Feeding, NEW b \in Bytes, ~st.parser.confirm_close,
           st.parser.prefix, st.parser.sequence = <<>>
    PROVE  AfterPrefix(st, b) \in Feeding /\ Weight(AfterPrefix(st, b)) = Weight(st) + 1
<1>. DEFINE rest == [st EXCEPT !.parser.prefix = FALSE]
            close == [rest EXCEPT !.parser.confirm_close = TRUE]
            escape == [st EXCEPT !.parser.sequence = <<b>>]
            used == [rest EXCEPT !.used = @ + 2]
            i == InputBytes(st.out)
            o == Size(st.ordinary)
            u == st.used
            m == Size(st.parser.mouse_sequence)
            input == [do |-> "input", bytes |-> <<b>>]
            action(a) == [do |-> "action", action |-> a]
            detach == [do |-> "detach"]
<1>1. /\ st \in Shapes /\ st.parser \in Parsers /\ SoundParser(st.parser) /\ u \in Nat
      /\ i \in Nat /\ o \in Nat
  BY FeedingIs, WeightIs DEF Shapes
<1>2. <<b>> \in Seq(Bytes) /\ Size(<<b>>) = 1
  BY DEF Size
<1>3. /\ rest \in Shapes /\ ~rest.parser.prefix /\ ~rest.parser.confirm_close
      /\ rest.parser.sequence = <<>>
      /\ rest.parser.mouse_sequence = st.parser.mouse_sequence
      /\ rest.out = st.out /\ rest.ordinary = st.ordinary /\ rest.used = st.used
  BY <1>1 DEF Shapes, Parsers
<1>4. /\ escape \in Shapes /\ escape.parser.prefix /\ ~escape.parser.confirm_close
      /\ escape.parser.sequence = <<b>>
      /\ escape.parser.mouse_sequence = st.parser.mouse_sequence
      /\ escape.out = st.out /\ escape.ordinary = st.ordinary /\ escape.used = st.used
  BY <1>1, <1>2 DEF Shapes, Parsers
<1>. HIDE DEF rest, escape
<1>5. /\ close \in Shapes /\ ~close.parser.prefix /\ close.parser.confirm_close
      /\ close.parser.sequence = <<>>
      /\ close.parser.mouse_sequence = st.parser.mouse_sequence
      /\ close.out = st.out /\ close.ordinary = st.ordinary /\ close.used = st.used
  BY <1>3 DEF Shapes, Parsers
<1>6. /\ used \in Shapes /\ used.parser = rest.parser
      /\ used.out = st.out /\ used.ordinary = st.ordinary /\ used.used = u + 2
  BY <1>1, <1>3 DEF Shapes
<1>. HIDE DEF close, used
<1>7. /\ rest.parser \in Parsers /\ close.parser \in Parsers /\ escape.parser \in Parsers
  BY <1>3, <1>4, <1>5 DEF Shapes
<1>8. /\ HeldByParser(st.parser) = m + 0 + 1 /\ HeldByParser(rest.parser) = m + 0
      /\ HeldByParser(close.parser) = m + 0 + 2 /\ HeldByParser(escape.parser) = m + 1 + 1
      /\ m \in Nat
  <2>1. HeldByParser(st.parser) = m + 0 + 1 /\ m \in Nat
    BY <1>1, HeldIs, Sizes
  <2>2. HeldByParser(rest.parser) = m + 0
    BY <1>3, <1>7, HeldIs, Sizes
  <2>3. HeldByParser(close.parser) = m + 0 + 2
    BY <1>5, <1>7, HeldIs, Sizes
  <2>4. HeldByParser(escape.parser) = m + 1 + 1
    BY <1>2, <1>4, <1>7, HeldIs
  <2>. QED BY <2>1, <2>2, <2>3, <2>4
<1>9. /\ Weight(st) = Weight(rest) + 1 /\ Weight(close) = Weight(st) + 1
      /\ Weight(escape) = Weight(st) + 1 /\ Weight(used) = Weight(st) + 1
      /\ Weight(rest) \in Nat
  <2>1. /\ Weight(st) = u + i + o + (m + 0 + 1)
    BY <1>1, <1>8, WeightIs, Zenon
  <2>2. Weight(rest) = u + i + o + (m + 0)
    BY <1>3, <1>8, WeightIs, Zenon
  <2>3. Weight(close) = u + i + o + (m + 0 + 2)
    BY <1>5, <1>8, WeightIs, Zenon
  <2>4. Weight(escape) = u + i + o + (m + 1 + 1)
    BY <1>4, <1>8, WeightIs, Zenon
  <2>5. Weight(used) = (u + 2) + i + o + (m + 0)
    BY <1>6, <1>8, WeightIs, Zenon
  <2>6. u \in Nat /\ i \in Nat /\ o \in Nat /\ m \in Nat
    BY <1>1, <1>8
  <2>. HIDE DEF u, i, o, m
  <2>. QED BY <2>1, <2>2, <2>3, <2>4, <2>5, <2>6
<1>10. rest \in Feeding /\ close \in Feeding /\ escape \in Feeding /\ used \in Feeding
  <2>1. SoundParser(rest.parser) /\ SoundParser(close.parser) /\ SoundParser(escape.parser)
    BY <1>3, <1>4, <1>5, <1>7 DEF SoundParser
  <2>. QED BY <2>1, <1>3, <1>4, <1>5, <1>6, FeedingIs
<1>11. /\ input \in InputCommands /\ input.do = "input" /\ Size(input.bytes) = 1
       /\ detach \in InputCommands /\ detach.do # "input"
       /\ \A a \in {"move", "copy"} : action(a) \in InputCommands /\ action(a).do # "input"
  BY <1>2 DEF InputCommands
<1>12. \/ AfterPrefix(st, b) = Emit(rest, input, 1)
       \/ \E a \in {"move", "copy"} : AfterPrefix(st, b) = Emit(rest, action(a), 2)
       \/ AfterPrefix(st, b) = Emit(rest, detach, 2)
       \/ AfterPrefix(st, b) \in {close, escape, used}
  BY DEF AfterPrefix, close, escape, used, rest
<1>. HIDE DEF input, detach, action
<1>13. CASE AfterPrefix(st, b) = Emit(rest, input, 1)
  <2>1. Emit(rest, input, 1) \in Feeding
        /\ Weight(Emit(rest, input, 1)) = Weight(rest) + 1 + 1
    <3>1. rest \in Feeding /\ input \in InputCommands /\ 1 \in Nat
          /\ input.do = "input" /\ Size(input.bytes) = 1
      <4>1. 1 \in Nat
        OBVIOUS
      <4>. QED BY <1>10, <1>11, <4>1, Zenon
    <3>2. /\ Emit(rest, input, 1) \in Feeding
          /\ Weight(Emit(rest, input, 1))
               = Weight(rest) + 1 + (IF input.do = "input" THEN Size(input.bytes) ELSE 0)
      BY <3>1, EmitWeighs, Zenon
    <3>. QED BY <3>1, <3>2, Zenon
  <2>. QED BY <2>1, <1>9, <1>13
<1>14. CASE \E a \in {"move", "copy"} : AfterPrefix(st, b) = Emit(rest, action(a), 2)
  <2>1. PICK a \in {"move", "copy"} : AfterPrefix(st, b) = Emit(rest, action(a), 2)
    BY <1>14
  <2>2. Emit(rest, action(a), 2) \in Feeding
        /\ Weight(Emit(rest, action(a), 2)) = Weight(rest) + 2 + 0
    <3>1. rest \in Feeding /\ action(a) \in InputCommands /\ 2 \in Nat
          /\ action(a).do # "input"
      BY <1>10, <1>11
    <3>. QED BY <3>1, EmitWeighs, Zenon
  <2>. QED BY <2>1, <2>2, <1>9
<1>15. CASE AfterPrefix(st, b) = Emit(rest, detach, 2)
  <2>1. Emit(rest, detach, 2) \in Feeding
        /\ Weight(Emit(rest, detach, 2)) = Weight(rest) + 2 + 0
    <3>1. rest \in Feeding /\ detach \in InputCommands /\ 2 \in Nat
          /\ detach.do # "input"
      BY <1>10, <1>11
    <3>. QED BY <3>1, EmitWeighs, Zenon
  <2>. QED BY <2>1, <1>9, <1>15
<1>. QED BY <1>9, <1>10, <1>12, <1>13, <1>14, <1>15

\* A byte of a mouse report is held, ends it, or shows it is none.
LEMMA InMouseWeighs ==
    ASSUME NEW st \in Feeding, NEW b \in Bytes, ~st.parser.confirm_close,
           ~st.parser.prefix, st.parser.sequence = <<>>
    PROVE  InMouse(st, b) \in Feeding /\ Weight(InMouse(st, b)) = Weight(st) + 1
<1>. DEFINE s == Append(st.parser.mouse_sequence, b)
            rest == [st EXCEPT !.parser.mouse_sequence = <<>>]
            asText == [rest EXCEPT !.ordinary = @ \o s]
            fl == Flush(rest)
            input == [fl EXCEPT !.ordinary = s]
            longer == [st EXCEPT !.parser.mouse_sequence = s]
            i == InputBytes(st.out)
            o == Size(st.ordinary)
            u == st.used
            m == Size(st.parser.mouse_sequence)
            c == [do |-> "mouse"]
<1>1. /\ st \in Shapes /\ st.parser \in Parsers /\ SoundParser(st.parser) /\ u \in Nat
      /\ i \in Nat /\ o \in Nat /\ st.ordinary \in Seq(Bytes)
      /\ st.parser.mouse_sequence \in Seq(Bytes)
  BY FeedingIs, WeightIs DEF Shapes, Parsers
<1>2. /\ s \in Seq(Bytes) /\ Size(s) = m + 1 /\ m \in Nat /\ Len(s) = Size(s)
      /\ <<>> \in Seq(Bytes)
  BY <1>1, Sizes DEF Size
<1>3. st.ordinary \o s \in Seq(Bytes) /\ Size(st.ordinary \o s) = o + (m + 1)
  BY <1>1, <1>2, Sizes
<1>. HIDE DEF s
<1>4. /\ rest \in Shapes /\ ~rest.parser.prefix /\ ~rest.parser.confirm_close
      /\ rest.parser.sequence = <<>> /\ rest.parser.mouse_sequence = <<>>
      /\ rest.out = st.out /\ rest.ordinary = st.ordinary /\ rest.used = st.used
  BY <1>1, <1>2 DEF Shapes, Parsers
<1>5. /\ longer \in Shapes /\ ~longer.parser.prefix /\ ~longer.parser.confirm_close
      /\ longer.parser.sequence = <<>> /\ longer.parser.mouse_sequence = s
      /\ longer.out = st.out /\ longer.ordinary = st.ordinary /\ longer.used = st.used
  BY <1>1, <1>2 DEF Shapes, Parsers
<1>. HIDE DEF rest, longer
<1>6. /\ asText \in Shapes /\ asText.parser = rest.parser
      /\ asText.out = st.out /\ Size(asText.ordinary) = o + (m + 1) /\ asText.used = st.used
  <2>. HIDE DEF o, m
  <2>. QED BY <1>3, <1>4 DEF Shapes
<1>. HIDE DEF asText
<1>7. rest.parser \in Parsers /\ longer.parser \in Parsers
  BY <1>4, <1>5 DEF Shapes
<1>8. rest \in Feeding /\ longer \in Feeding /\ asText \in Feeding
  <2>1. SoundParser(rest.parser) /\ SoundParser(longer.parser)
    BY <1>4, <1>5, <1>7 DEF SoundParser
  <2>. QED BY <2>1, <1>4, <1>5, <1>6, FeedingIs
<1>9. /\ fl \in Feeding /\ fl.parser = rest.parser /\ fl.used = st.used
      /\ InputBytes(fl.out) = i + o
  BY <1>4, <1>8, FlushWeighs
<1>. HIDE DEF fl
<1>10. /\ input \in Shapes /\ input.parser = rest.parser /\ input.used = st.used
       /\ input.out = fl.out /\ input.ordinary = s
  BY <1>2, <1>9, FeedingIs DEF Shapes
<1>. HIDE DEF input
<1>11. input \in Feeding
  BY <1>8, <1>10, FeedingIs
<1>12. /\ HeldByParser(st.parser) = m + 0 /\ HeldByParser(rest.parser) = 0
       /\ HeldByParser(longer.parser) = (m + 1) + 0
  <2>1. HeldByParser(st.parser) = m + 0
    BY <1>1, HeldIs, Sizes
  <2>2. HeldByParser(rest.parser) = 0 + 0
    BY <1>4, <1>7, HeldIs, Sizes
  <2>3. HeldByParser(longer.parser) = (m + 1) + 0
    BY <1>2, <1>5, <1>7, HeldIs, Sizes
  <2>. QED BY <2>1, <2>2, <2>3
<1>13. /\ Weight(rest) + m = Weight(st) /\ Weight(asText) = Weight(st) + 1
       /\ Weight(input) = Weight(st) + 1 /\ Weight(longer) = Weight(st) + 1
       /\ Weight(rest) \in Nat
  <2>1. Weight(st) = u + i + o + (m + 0)
    BY <1>1, <1>12, WeightIs, Zenon
  <2>2. Weight(rest) = u + i + o + 0
    BY <1>4, <1>12, WeightIs, Zenon
  <2>3. Weight(asText) = u + i + (o + (m + 1)) + 0
    BY <1>6, <1>12, WeightIs, Zenon
  <2>4. Weight(longer) = u + i + o + ((m + 1) + 0)
    BY <1>5, <1>12, WeightIs, Zenon
  <2>5. Weight(input) = u + (i + o) + (m + 1) + 0
    BY <1>2, <1>9, <1>10, <1>12, WeightIs, Zenon
  <2>6. u \in Nat /\ i \in Nat /\ o \in Nat /\ m \in Nat
    BY <1>1, <1>2
  <2>. HIDE DEF u, i, o, m
  <2>. QED BY <2>1, <2>2, <2>3, <2>4, <2>5, <2>6
<1>14. c \in InputCommands /\ c.do # "input"
  BY DEF InputCommands
<1>15. InMouse(st, b) = Emit(rest, c, Len(s)) \/ InMouse(st, b) \in {asText, input, longer}
  BY DEF InMouse, s, rest, asText, fl, input, longer
<1>. HIDE DEF c
<1>16. CASE InMouse(st, b) = Emit(rest, c, Len(s))
  <2>1. /\ Emit(rest, c, Len(s)) \in Feeding
        /\ Weight(Emit(rest, c, Len(s))) = Weight(rest) + (m + 1) + 0
    <3>1. Len(s) = m + 1 /\ m + 1 \in Nat
      BY <1>2
    <3>. HIDE DEF m
    <3>. QED BY <3>1, <1>8, <1>14, EmitWeighs
  <2>2. m \in Nat
    BY <1>2
  <2>. HIDE DEF m
  <2>. QED BY <2>1, <2>2, <1>13, <1>16
<1>. QED BY <1>8, <1>11, <1>13, <1>15, <1>16

\* A step of PrefixParser accounts for its byte.
LEMMA FeedByteWeighs ==
    ASSUME NEW st \in Feeding, NEW b \in Bytes
    PROVE  FeedByte(st, b) \in Feeding /\ Weight(FeedByte(st, b)) = Weight(st) + 1
<1>1. SoundParser(st.parser)
  BY FeedingIs
<1>2. CASE st.parser.confirm_close
  BY <1>2, InCloseWeighs DEF FeedByte
<1>3. CASE ~st.parser.confirm_close /\ st.parser.sequence # <<>>
  BY <1>3, InSequenceWeighs DEF FeedByte
<1>4. CASE ~st.parser.confirm_close /\ st.parser.sequence = <<>>
  <2>1. FeedByte(st, b) = IF st.parser.prefix THEN AfterPrefix(st, b)
            ELSE IF st.parser.mouse_sequence # <<>> THEN InMouse(st, b)
            ELSE Plain(st, b)
    BY <1>4 DEF FeedByte
  <2>. QED BY <2>1, <1>4, AfterPrefixWeighs, InMouseWeighs, PlainWeighs
<1>. QED BY <1>2, <1>3, <1>4

FeedTrace(f, start, bytes) ==
    f = [i \in 0 .. Len(bytes) |->
            IF i = 0 THEN start
            ELSE CHOOSE next \in {FeedByte(st, bytes[i]) : st \in {f[i - 1]}} : TRUE]

\* The bytes of a read are fed along a trace.
LEMMA OverFeed ==
    ASSUME NEW start, NEW bytes
    PROVE  Over(FeedByte, start, bytes)
             = (CHOOSE f : FeedTrace(f, start, bytes))[Len(bytes)]
<1>1. Along(FeedByte, start, bytes) = (CHOOSE f : FeedTrace(f, start, bytes))[Len(bytes)]
  BY Zenon DEF Along, FeedTrace
<1>2. {Along(FeedByte, start, s) : s \in {bytes}} = {Along(FeedByte, start, bytes)}
  OBVIOUS
<1>3. Over(FeedByte, start, bytes) = CHOOSE end \in {Along(FeedByte, start, bytes)} : TRUE
  BY <1>2, Zenon DEF Over
<1>. QED BY <1>1, <1>3, ChooseOnly, Zenon

\* What is made of the first i bytes accounts for i bytes.
LEMMA FeedTraces ==
    ASSUME NEW start \in Feeding, NEW bytes \in Seq(Bytes)
    PROVE  LET over == Over(FeedByte, start, bytes)
           IN  over \in Feeding /\ Weight(over) = Weight(start) + Len(bytes)
<1>. DEFINE step == [sb \in Feeding \X Bytes |-> FeedByte(sb[1], sb[2])]
<1>0. Len(bytes) \in Nat /\ \A i \in 1 .. Len(bytes) : bytes[i] \in Bytes
  OBVIOUS
<1>1. \A st \in Feeding, b \in Bytes :
          FeedByte(st, b) \in Feeding /\ Weight(FeedByte(st, b)) = Weight(st) + 1
  BY FeedByteWeighs
<1>2. step \in [Feeding \X Bytes -> Feeding]
  BY <1>1
<1>3. \A st \in Feeding, b \in Bytes : step[<<st, b>>] = FeedByte(st, b)
  OBVIOUS
<1>. HIDE DEF step
<1>4. PICK f \in [0 .. Len(bytes) -> Feeding] : Trace(step, start, bytes, Len(bytes), f)
  BY <1>2, TraceExists
<1>5. \A st, b : {FeedByte(s, b) : s \in {st}} = {FeedByte(st, b)}
  OBVIOUS
<1>6. FeedTrace(f, start, bytes)
  <2>1. \A i \in 0 .. Len(bytes) :
           f[i] = IF i = 0 THEN start
                  ELSE CHOOSE next \in {FeedByte(st, bytes[i]) : st \in {f[i - 1]}} : TRUE
    <3>. TAKE i \in 0 .. Len(bytes)
    <3>1. CASE i = 0
      BY <3>1, <1>4 DEF Trace
    <3>2. CASE i # 0
      <4>1. f[i - 1] \in Feeding /\ bytes[i] \in Bytes
        BY <3>2, <1>0
      <4>2. f[i] = step[<<f[i - 1], bytes[i]>>]
        BY <3>2, <1>0, <1>4 DEF Trace
      <4>3. f[i] = FeedByte(f[i - 1], bytes[i])
        BY <4>1, <4>2, <1>3
      <4>. QED BY <4>3, <3>2, <1>5, ChooseOnly, Zenon
    <3>. QED BY <3>1, <3>2
  <2>. QED BY <2>1, <1>4 DEF FeedTrace
<1>. DEFINE g == CHOOSE g : FeedTrace(g, start, bytes)
<1>7. FeedTrace(g, start, bytes)
  BY <1>6, Zenon
<1>8. Over(FeedByte, start, bytes) = g[Len(bytes)]
  BY OverFeed, Zenon
<1>. HIDE DEF g
<1>9. g[0] = start /\ \A i \in 1 .. Len(bytes) : g[i] = FeedByte(g[i - 1], bytes[i])
  <2>1. g[0] = start
    BY <1>0, <1>7 DEF FeedTrace
  <2>2. ASSUME NEW i \in 1 .. Len(bytes) PROVE g[i] = FeedByte(g[i - 1], bytes[i])
    <3>1. i \in 0 .. Len(bytes) /\ i # 0
      BY <1>0
    <3>2. g[i] = CHOOSE next \in {FeedByte(st, bytes[i]) : st \in {g[i - 1]}} : TRUE
      BY <3>1, <1>7, Zenon DEF FeedTrace
    <3>. QED BY <3>2, <1>5, ChooseOnly, Zenon
  <2>. QED BY <2>1, <2>2
<1>. DEFINE N == {m \in Nat : m <= Len(bytes) =>
                     g[m] \in Feeding /\ Weight(g[m]) = Weight(start) + m}
<1>10. Weight(start) \in Nat
  BY FeedingIs, WeightIs
<1>11. 0 \in N
  BY <1>9, <1>10
<1>12. ASSUME NEW m \in N PROVE m + 1 \in N
  <2>. SUFFICES ASSUME m + 1 <= Len(bytes)
                PROVE  g[m + 1] \in Feeding /\ Weight(g[m + 1]) = Weight(start) + (m + 1)
    OBVIOUS
  <2>1. /\ m \in Nat /\ g[m] \in Feeding /\ Weight(g[m]) = Weight(start) + m
        /\ m + 1 \in 1 .. Len(bytes) /\ (m + 1) - 1 = m
    BY <1>0
  <2>2. g[m + 1] = FeedByte(g[m], bytes[m + 1]) /\ bytes[m + 1] \in Bytes
    BY <2>1, <1>0, <1>9
  <2>3. g[m + 1] \in Feeding /\ Weight(g[m + 1]) = (Weight(start) + m) + 1
    BY <2>1, <2>2, <1>1, Zenon
  <2>. QED BY <2>1, <2>3, <1>10
<1>. HIDE DEF N
<1>13. N \in SUBSET Nat
  BY DEF N
<1>14. N = Nat
  BY <1>11, <1>12, <1>13, EveryNumber
<1>. QED BY <1>0, <1>8, <1>14 DEF N

\* The bytes given to PrefixParser are input of its commands, used by them, or
\* held.
LEMMA FeedAccounts ==
    ASSUME NEW p \in Parsers, SoundParser(p), NEW bytes \in Seq(Bytes)
    PROVE  LET fed == feed(p, bytes)
           IN  /\ fed.parser \in Parsers /\ SoundParser(fed.parser)
               /\ fed.out \in Seq(InputCommands) /\ fed.used \in Nat
               /\ InputBytes(fed.out) \in Nat
               /\ fed.used + InputBytes(fed.out) + HeldByParser(fed.parser)
                    = Size(bytes) + HeldByParser(p)
<1>. DEFINE start == [parser |-> p, out |-> <<>>, ordinary |-> <<>>, used |-> 0]
            over == Over(FeedByte, start, bytes)
            fed == feed(p, bytes)
<1>1. start \in Feeding /\ start.parser = p /\ start.out = <<>> /\ start.ordinary = <<>>
      /\ start.used = 0
  BY DEF Feeding
<1>2. Weight(start) = HeldByParser(p) /\ HeldByParser(p) \in Nat
  <2>0. [do |-> "detach"] \in InputCommands /\ <<>> \in Seq(InputCommands)
    BY DEF InputCommands
  <2>1. InputBytes(<<>>) = 0
    BY <2>0, InputBytesAppend
  <2>2. Weight(start) = 0 + 0 + 0 + HeldByParser(p)
    <3>. HIDE DEF start
    <3>. QED BY <1>1, <2>1, Sizes, Zenon DEF Weight
  <2>. QED BY <2>2, HeldType
<1>. HIDE DEF start
<1>3. over \in Feeding /\ Weight(over) = Weight(start) + Len(bytes)
  BY <1>1, FeedTraces
<1>4. fed = Flush(over)
  BY DEF feed, start
<1>. HIDE DEF over
<1>5. /\ fed \in Feeding /\ fed.parser = over.parser /\ fed.used = over.used
      /\ InputBytes(fed.out) = InputBytes(over.out) + Size(over.ordinary)
  BY <1>3, <1>4, FlushWeighs
<1>. HIDE DEF fed
<1>6. /\ fed.parser \in Parsers /\ SoundParser(fed.parser)
      /\ fed.out \in Seq(InputCommands) /\ fed.used \in Nat
      /\ InputBytes(fed.out) \in Nat
  BY <1>5, FeedingIs, WeightIs DEF Shapes
<1>7. fed.used + InputBytes(fed.out) + HeldByParser(fed.parser)
        = Size(bytes) + HeldByParser(p)
  <2>. DEFINE u == over.used
              i == InputBytes(over.out)
              o == Size(over.ordinary)
              h == HeldByParser(over.parser)
              n == Size(bytes)
              w == HeldByParser(p)
  <2>1. u + i + o + h = w + n /\ u \in Nat /\ i \in Nat /\ o \in Nat /\ h \in Nat
        /\ w \in Nat
    <3>1. Weight(over) = u + i + o + h /\ u \in Nat /\ i \in Nat /\ o \in Nat /\ h \in Nat
      BY <1>3, FeedingIs, WeightIs, Zenon
    <3>2. Weight(over) = w + n
      BY <1>2, <1>3, Zenon DEF Size
    <3>. QED BY <3>1, <3>2, <1>2, Zenon
  <2>2. n \in Nat
    BY Sizes
  <2>3. fed.used + InputBytes(fed.out) + HeldByParser(fed.parser) = u + (i + o) + h
    BY <1>5, Zenon
  <2>. HIDE DEF u, i, o, h, n, w
  <2>4. u + (i + o) + h = n + w
    BY <2>1, <2>2
  <2>. QED BY <2>3, <2>4 DEF n, w
<1>. QED BY <1>6, <1>7 DEF fed

----------------------------------------------------------------------------
(* FloatEditScanner. *)

Scanning == [pending : Seq(Bytes), commands : Seq({"commit", "step"}),
             forward : Seq(Bytes), used : Nat, done : BOOLEAN]

\* A commit ends the scan with nothing held.
SoundScan(st) ==
    /\ st \in Scanning
    /\ st.done => st.pending = <<>>
    /\ (\E i \in DOMAIN st.commands : st.commands[i] = "commit") => st.done

ScanWeight(st) == st.used + Size(st.forward) + Size(st.pending)

\* A byte given to the scanner is forwarded, used or held.
LEMMA ScanByteWeighs ==
    ASSUME NEW st, SoundScan(st), NEW b \in Bytes
    PROVE  SoundScan(ScanByte(st, b)) /\ ScanWeight(ScanByte(st, b)) = ScanWeight(st) + 1
<1>. DEFINE s == Append(st.pending, b)
            text == [st EXCEPT !.forward = Append(@, b)]
            commit == [st EXCEPT !.commands = Append(@, "commit"), !.used = @ + 1,
                                 !.done = TRUE]
            step == [st EXCEPT !.commands = Append(@, "step"), !.used = @ + 3,
                               !.pending = <<>>]
            held == [st EXCEPT !.pending = s]
            back == [st EXCEPT !.forward = @ \o s, !.pending = <<>>]
            steps == Append(st.commands, "step")
            commits == Append(st.commands, "commit")
            u == st.used
            f == Size(st.forward)
            n == Size(st.pending)
<1>1. /\ st \in Scanning /\ st.pending \in Seq(Bytes) /\ st.forward \in Seq(Bytes)
      /\ st.commands \in Seq({"commit", "step"}) /\ st.done \in BOOLEAN
      /\ u \in Nat /\ f \in Nat /\ n \in Nat
  BY Sizes DEF SoundScan, Scanning
<1>2. /\ s \in Seq(Bytes) /\ Size(s) = n + 1 /\ <<>> \in Seq(Bytes)
      /\ Append(st.forward, b) \in Seq(Bytes) /\ Size(Append(st.forward, b)) = f + 1
  BY <1>1, Sizes
<1>3. st.forward \o s \in Seq(Bytes) /\ Size(st.forward \o s) = f + (n + 1)
  <2>1. st.forward \o s \in Seq(Bytes) /\ Size(st.forward \o s) = f + Size(s)
    <3>. HIDE DEF s
    <3>. QED BY <1>1, <1>2, Sizes, Zenon
  <2>. QED BY <2>1, <1>2, Zenon
<1>4. s = <<"Esc", "[", "A">> => n = 2
  <2>1. Len(<<"Esc", "[", "A">>) = 3
    OBVIOUS
  <2>2. Len(s) = n + 1 /\ n \in Nat
    BY <1>1, <1>2, Zenon DEF Size
  <2>. HIDE DEF s, n
  <2>. QED BY <2>1, <2>2
<1>5. /\ steps \in Seq({"commit", "step"}) /\ commits \in Seq({"commit", "step"})
      /\ (\E i \in DOMAIN steps : steps[i] = "commit")
           => \E i \in DOMAIN st.commands : st.commands[i] = "commit"
  BY <1>1
<1>6. ScanWeight(st) = u + f + n
  BY Zenon DEF ScanWeight
<1>. HIDE DEF s, f, n, steps, commits
<1>7. CASE ScanByte(st, b) = text
  <2>1. /\ text \in Scanning /\ text.pending = st.pending /\ text.commands = st.commands
        /\ text.forward = Append(st.forward, b) /\ text.used = st.used
        /\ text.done = st.done
    BY <1>1, <1>2 DEF Scanning
  <2>. HIDE DEF text, u
  <2>2. SoundScan(text)
    BY <2>1 DEF SoundScan
  <2>3. ScanWeight(text) = u + (f + 1) + n
    BY <2>1, <1>2, Zenon DEF ScanWeight, u, n
  <2>. QED BY <2>2, <2>3, <1>1, <1>6, <1>7
<1>8. CASE ScanByte(st, b) = commit /\ st.pending = <<>>
  <2>1. /\ commit \in Scanning /\ commit.pending = st.pending
        /\ commit.forward = st.forward /\ commit.used = u + 1
        /\ commit.done
    <3>1. commit = [st EXCEPT !.commands = commits, !.used = u + 1, !.done = TRUE]
      BY DEF commits
    <3>2. u + 1 \in Nat
      BY <1>1
    <3>. HIDE DEF commit, u
    <3>. QED BY <3>1, <3>2, <1>1, <1>5 DEF Scanning
  <2>. HIDE DEF commit, u
  <2>2. SoundScan(commit)
    BY <2>1, <1>8 DEF SoundScan
  <2>3. ScanWeight(commit) = (u + 1) + f + n
    BY <2>1, Zenon DEF ScanWeight, f, n
  <2>. QED BY <2>2, <2>3, <1>1, <1>6, <1>8
<1>9. CASE ScanByte(st, b) = step /\ s = <<"Esc", "[", "A">>
  <2>1. /\ step \in Scanning /\ step.pending = <<>>
        /\ step.forward = st.forward /\ step.used = u + 3
        /\ step.done = st.done /\ step.commands = steps
    <3>1. step = [st EXCEPT !.commands = steps, !.used = u + 3, !.pending = <<>>]
      BY DEF steps
    <3>2. u + 3 \in Nat
      BY <1>1
    <3>. HIDE DEF step, u
    <3>. QED BY <3>1, <3>2, <1>1, <1>2, <1>5 DEF Scanning
  <2>. HIDE DEF step, u
  <2>2. SoundScan(step)
    BY <2>1, <1>5 DEF SoundScan
  <2>3. ScanWeight(step) = (u + 3) + f + 0
    BY <2>1, Sizes, Zenon DEF ScanWeight, f
  <2>. QED BY <2>2, <2>3, <1>1, <1>4, <1>6, <1>9
<1>10. CASE ScanByte(st, b) = held /\ ~st.done
  <2>1. /\ held \in Scanning /\ held.pending = s
        /\ held.forward = st.forward /\ held.used = st.used
        /\ held.done = st.done /\ held.commands = st.commands
    BY <1>1, <1>2 DEF Scanning
  <2>. HIDE DEF held, u
  <2>2. SoundScan(held)
    BY <2>1, <1>10 DEF SoundScan
  <2>3. ScanWeight(held) = u + f + (n + 1)
    BY <2>1, <1>2, Zenon DEF ScanWeight, f, u
  <2>. QED BY <2>2, <2>3, <1>1, <1>6, <1>10
<1>11. CASE ScanByte(st, b) = back
  <2>1. /\ back \in Scanning /\ back.pending = <<>>
        /\ back.forward = st.forward \o s /\ back.used = st.used
        /\ back.done = st.done /\ back.commands = st.commands
    BY <1>1, <1>2, <1>3 DEF Scanning
  <2>. HIDE DEF back, u
  <2>2. SoundScan(back)
    BY <2>1 DEF SoundScan
  <2>3. ScanWeight(back) = u + (f + (n + 1)) + 0
    BY <2>1, <1>3, Sizes, Zenon DEF ScanWeight, u
  <2>. QED BY <2>2, <2>3, <1>1, <1>6, <1>11
<1>12. \/ ScanByte(st, b) = text
       \/ ScanByte(st, b) = commit /\ st.pending = <<>>
       \/ ScanByte(st, b) = step /\ s = <<"Esc", "[", "A">>
       \/ ScanByte(st, b) = held /\ ~st.done
       \/ ScanByte(st, b) = back
  BY DEF ScanByte, s, steps, commits
<1>. QED BY <1>7, <1>8, <1>9, <1>10, <1>11, <1>12

SoundScans == {st \in Scanning : SoundScan(st)}

\* The weight of a scan is a number.
LEMMA ScanWeightIs ==
    ASSUME NEW st \in SoundScans
    PROVE  /\ ScanWeight(st) \in Nat
           /\ st.used \in Nat /\ Size(st.forward) \in Nat /\ Size(st.pending) \in Nat
<1>1. st.used \in Nat /\ Size(st.forward) \in Nat /\ Size(st.pending) \in Nat
  BY Sizes DEF SoundScans, Scanning
<1>. QED BY <1>1 DEF ScanWeight

ScanTrace(f, start, bytes) ==
    f = [i \in 0 .. Len(bytes) |->
            IF i = 0 THEN start
            ELSE CHOOSE next \in {ScanByte(st, bytes[i]) : st \in {f[i - 1]}} : TRUE]

\* The bytes of a read are scanned along a trace.
LEMMA OverScan ==
    ASSUME NEW start, NEW bytes
    PROVE  Over(ScanByte, start, bytes)
             = (CHOOSE f : ScanTrace(f, start, bytes))[Len(bytes)]
<1>1. Along(ScanByte, start, bytes) = (CHOOSE f : ScanTrace(f, start, bytes))[Len(bytes)]
  BY Zenon DEF Along, ScanTrace
<1>2. {Along(ScanByte, start, s) : s \in {bytes}} = {Along(ScanByte, start, bytes)}
  OBVIOUS
<1>3. Over(ScanByte, start, bytes) = CHOOSE end \in {Along(ScanByte, start, bytes)} : TRUE
  BY <1>2, Zenon DEF Over
<1>. QED BY <1>1, <1>3, ChooseOnly, Zenon

\* What is made of the first i bytes accounts for i bytes.
LEMMA ScanTraces ==
    ASSUME NEW start \in SoundScans, NEW bytes \in Seq(Bytes)
    PROVE  LET over == Over(ScanByte, start, bytes)
           IN  over \in SoundScans /\ ScanWeight(over) = ScanWeight(start) + Len(bytes)
<1>. DEFINE step == [sb \in SoundScans \X Bytes |-> ScanByte(sb[1], sb[2])]
<1>0. Len(bytes) \in Nat /\ \A i \in 1 .. Len(bytes) : bytes[i] \in Bytes
  OBVIOUS
<1>1. \A st \in SoundScans, b \in Bytes :
          ScanByte(st, b) \in SoundScans /\ ScanWeight(ScanByte(st, b)) = ScanWeight(st) + 1
  <2>. TAKE st \in SoundScans, b \in Bytes
  <2>1. SoundScan(st)
    BY DEF SoundScans
  <2>2. SoundScan(ScanByte(st, b)) /\ ScanWeight(ScanByte(st, b)) = ScanWeight(st) + 1
    BY <2>1, ScanByteWeighs
  <2>3. ScanByte(st, b) \in Scanning
    BY <2>2 DEF SoundScan
  <2>. QED BY <2>2, <2>3 DEF SoundScans
<1>2. step \in [SoundScans \X Bytes -> SoundScans]
  BY <1>1
<1>3. \A st \in SoundScans, b \in Bytes : step[<<st, b>>] = ScanByte(st, b)
  OBVIOUS
<1>. HIDE DEF step
<1>4. PICK f \in [0 .. Len(bytes) -> SoundScans] : Trace(step, start, bytes, Len(bytes), f)
  BY <1>2, TraceExists
<1>5. \A st, b : {ScanByte(s, b) : s \in {st}} = {ScanByte(st, b)}
  OBVIOUS
<1>6. ScanTrace(f, start, bytes)
  <2>1. \A i \in 0 .. Len(bytes) :
           f[i] = IF i = 0 THEN start
                  ELSE CHOOSE next \in {ScanByte(st, bytes[i]) : st \in {f[i - 1]}} : TRUE
    <3>. TAKE i \in 0 .. Len(bytes)
    <3>1. CASE i = 0
      BY <3>1, <1>4 DEF Trace
    <3>2. CASE i # 0
      <4>1. f[i - 1] \in SoundScans /\ bytes[i] \in Bytes
        BY <3>2, <1>0
      <4>2. f[i] = step[<<f[i - 1], bytes[i]>>]
        BY <3>2, <1>0, <1>4 DEF Trace
      <4>3. f[i] = ScanByte(f[i - 1], bytes[i])
        BY <4>1, <4>2, <1>3
      <4>. QED BY <4>3, <3>2, <1>5, ChooseOnly, Zenon
    <3>. QED BY <3>1, <3>2
  <2>. QED BY <2>1, <1>4 DEF ScanTrace
<1>. DEFINE g == CHOOSE g : ScanTrace(g, start, bytes)
<1>7. ScanTrace(g, start, bytes)
  BY <1>6, Zenon
<1>8. Over(ScanByte, start, bytes) = g[Len(bytes)]
  BY OverScan, Zenon
<1>. HIDE DEF g
<1>9. g[0] = start /\ \A i \in 1 .. Len(bytes) : g[i] = ScanByte(g[i - 1], bytes[i])
  <2>1. g[0] = start
    BY <1>0, <1>7 DEF ScanTrace
  <2>2. ASSUME NEW i \in 1 .. Len(bytes) PROVE g[i] = ScanByte(g[i - 1], bytes[i])
    <3>1. i \in 0 .. Len(bytes) /\ i # 0
      BY <1>0
    <3>2. g[i] = CHOOSE next \in {ScanByte(st, bytes[i]) : st \in {g[i - 1]}} : TRUE
      BY <3>1, <1>7, Zenon DEF ScanTrace
    <3>. QED BY <3>2, <1>5, ChooseOnly, Zenon
  <2>. QED BY <2>1, <2>2
<1>. DEFINE N == {m \in Nat : m <= Len(bytes) =>
                     g[m] \in SoundScans /\ ScanWeight(g[m]) = ScanWeight(start) + m}
<1>10. ScanWeight(start) \in Nat
  BY ScanWeightIs
<1>11. 0 \in N
  BY <1>9, <1>10
<1>12. ASSUME NEW m \in N PROVE m + 1 \in N
  <2>. SUFFICES ASSUME m + 1 <= Len(bytes)
                PROVE  g[m + 1] \in SoundScans /\ ScanWeight(g[m + 1]) = ScanWeight(start) + (m + 1)
    OBVIOUS
  <2>1. /\ m \in Nat /\ g[m] \in SoundScans /\ ScanWeight(g[m]) = ScanWeight(start) + m
        /\ m + 1 \in 1 .. Len(bytes) /\ (m + 1) - 1 = m
    BY <1>0
  <2>2. g[m + 1] = ScanByte(g[m], bytes[m + 1]) /\ bytes[m + 1] \in Bytes
    BY <2>1, <1>0, <1>9
  <2>3. g[m + 1] \in SoundScans /\ ScanWeight(g[m + 1]) = (ScanWeight(start) + m) + 1
    BY <2>1, <2>2, <1>1, Zenon
  <2>. QED BY <2>1, <2>3, <1>10
<1>. HIDE DEF N
<1>13. N \in SUBSET Nat
  BY DEF N
<1>14. N = Nat
  BY <1>11, <1>12, <1>13, EveryNumber
<1>. QED BY <1>0, <1>8, <1>14 DEF N

\* The bytes given to the scanner are forwarded, used by an edit, or held; a
\* commit leaves none held.
LEMMA ScanAccounts ==
    ASSUME NEW held \in Seq(Bytes), NEW bytes \in Seq(Bytes)
    PROVE  LET scanned == scan(held, bytes)
           IN  /\ scanned.commands \in Seq({"commit", "step"})
               /\ scanned.forward \in Seq(Bytes) /\ scanned.pending \in Seq(Bytes)
               /\ scanned.used \in Nat
               /\ scanned.used + Size(scanned.forward) + Size(scanned.pending)
                    = Size(bytes) + Size(held)
               /\ (\E i \in DOMAIN scanned.commands : scanned.commands[i] = "commit")
                    => scanned.pending = <<>>
<1>. DEFINE start == [pending |-> held, commands |-> <<>>, forward |-> <<>>,
                      used |-> 0, done |-> FALSE]
            scanned == scan(held, bytes)
<1>1. start \in SoundScans
  <2>1. start \in Scanning /\ start.commands = <<>> /\ ~start.done
    BY DEF Scanning
  <2>. HIDE DEF start
  <2>2. SoundScan(start)
    BY <2>1 DEF SoundScan
  <2>. QED BY <2>1, <2>2 DEF SoundScans
<1>2. ScanWeight(start) = Size(held) /\ Size(held) \in Nat /\ Size(bytes) \in Nat
  <2>1. start.pending = held /\ start.forward = <<>> /\ start.used = 0
    OBVIOUS
  <2>. HIDE DEF start
  <2>2. ScanWeight(start) = 0 + 0 + Size(held)
    BY <2>1, Sizes, Zenon DEF ScanWeight
  <2>. QED BY <2>2, Sizes
<1>3. scanned = Over(ScanByte, start, bytes)
  BY DEF scan, start
<1>. HIDE DEF start
<1>4. scanned \in SoundScans /\ ScanWeight(scanned) = ScanWeight(start) + Len(bytes)
  BY <1>1, <1>3, ScanTraces
<1>. HIDE DEF scanned
<1>5. /\ scanned.commands \in Seq({"commit", "step"})
      /\ scanned.forward \in Seq(Bytes) /\ scanned.pending \in Seq(Bytes)
      /\ scanned.used \in Nat
      /\ (\E i \in DOMAIN scanned.commands : scanned.commands[i] = "commit")
           => scanned.pending = <<>>
  BY <1>4 DEF SoundScans, SoundScan, Scanning
<1>6. scanned.used + Size(scanned.forward) + Size(scanned.pending) = Size(held) + Size(bytes)
  BY <1>2, <1>4, Zenon DEF ScanWeight, Size
<1>7. Size(held) + Size(bytes) = Size(bytes) + Size(held)
  BY <1>2
<1>. QED BY <1>5, <1>6, <1>7, Zenon DEF scanned

----------------------------------------------------------------------------
(* The inductive invariant. *)

Edits == [do : {"edit"}, mode : Nat, command : {"commit", "step", "cancel"}]
UpMessages == InputCommands \cup Edits \cup [do : {"resize"}]
Changes == [mode : Nat, active : BOOLEAN]
DownMessages == [say : {"mode"}, change : Changes] \cup [say : {"detached"}]
Actors == [attached : BOOLEAN, closed : BOOLEAN, modal : Nat, next : Nat,
           floating : BOOLEAN, copy : BOOLEAN]

InputTypes ==
    /\ tty \in [bytes : Seq(Bytes), eof : BOOLEAN]
    /\ main \in {"drain", "read", "ack", "join", "exited"}
    /\ parser \in Parsers
    /\ pending \in Seq(Bytes)
    /\ float_mode \in Nat
    /\ stopped \in BOOLEAN
    /\ reader \in [at : {"recv", "send", "ended"}, held : Changes]
    /\ modes \in Seq(Changes) /\ Len(modes) <= ModeCap
    /\ up \in Seq(UpMessages) /\ down \in Seq(DownMessages)
    /\ actor \in Actors
    /\ behind \in Nat

\* Bytes are dropped only by a loop that reads no more.
DroppedAtTheEnd == behind # 0 => main \notin {"drain", "read"}

\* The scanner holds bytes only while there is a mode.
NothingHeldOutside == float_mode = 0 => pending = <<>>

\* The messages about modes are numbered as they are sent: that a mode begins has
\* an odd number, that it ends the next one.
IsNumbered(change, n) ==
    /\ change.active => n = 2 * change.mode - 1
    /\ ~change.active => n = 2 * change.mode

Count(s) == Len(s)

Numbered(changes, n) == \A i \in 1 .. Count(changes) : IsNumbered(changes[i], n + i)

Telling(messages, count, n) ==
    \A i \in 1 .. count :
        messages[i].say = "mode" /\ IsNumbered(messages[i].change, n + i)

InHand == IF reader.at = "send" THEN 1 ELSE 0

\* What the session has said of modes and the reader has not taken: the last word
\* to a client that is not attached any more is the detach.
Untold == IF actor.attached THEN Count(down) ELSE Count(down) - 1

\* The loop has taken r of the t messages; the others are on their way, in order.
Line(r, t) ==
    /\ t = r + Count(modes) + InHand + Untold
    /\ Numbered(modes, r)
    /\ reader.at = "send" => IsNumbered(reader.held, r + Count(modes) + 1)
    /\ Telling(down, Untold, r + Count(modes) + InHand)
    /\ ~actor.attached => Count(down) > 0 /\ down[Count(down)].say = "detached"

\* The last message sent is about the session's mode.
Current(t) ==
    actor.attached => \/ actor.modal = 0 /\ t = 2 * actor.next
                      \/ actor.modal = actor.next /\ actor.next # 0
                         /\ t = 2 * actor.next - 1

\* A message that will end the mode is on its way to the session.
Ending(messages, mode) ==
    \E i \in DOMAIN messages :
        /\ messages[i].do = "edit" /\ messages[i].mode = mode
        /\ messages[i].command # "step"

\* The mode the loop believes in is that of the last message it took, or the loop
\* has ended the mode itself and the session will hear of it.
Believed(r, t) ==
    /\ float_mode # 0 => r = 2 * float_mode - 1
    /\ actor.attached /\ actor.modal # 0 /\ float_mode = 0 /\ r = t
         => Ending(up, actor.modal)

ModesFollow == \E r, t \in Nat : Line(r, t) /\ Current(t) /\ Believed(r, t)

InputInv ==
    /\ InputTypes /\ SoundParser(parser)
    /\ undecided = HeldBack + behind
    /\ DroppedAtTheEnd
    /\ NothingHeldOutside
    /\ ModesFollow

\* What the two parsers hold is the sum of what each holds.
LEMMA HeldBackIs ==
    ASSUME NEW p \in Parsers, NEW q \in Seq(Bytes)
    PROVE  /\ Len(p.mouse_sequence) + Len(q) + Len(p.sequence)
                + (IF p.prefix THEN 1 ELSE 0) + (IF p.confirm_close THEN 2 ELSE 0)
                = Size(q) + HeldByParser(p)
           /\ Size(q) \in Nat /\ HeldByParser(p) \in Nat
<1>. DEFINE a == Len(p.mouse_sequence)
            b == Len(q)
            c == Len(p.sequence)
            d == IF p.prefix THEN 1 ELSE 0
            e == IF p.confirm_close THEN 2 ELSE 0
<1>1. a \in Nat /\ b \in Nat /\ c \in Nat /\ d \in Nat /\ e \in Nat
  BY DEF Parsers
<1>2. HeldByParser(p) = a + c + d + e /\ Size(q) = b
  BY Zenon DEF HeldByParser, Size
<1>3. HeldByParser(p) \in Nat
  BY HeldType
<1>. HIDE DEF a, b, c, d, e
<1>4. a + b + c + d + e = b + (a + c + d + e)
  BY <1>1
<1>. QED BY <1>1, <1>2, <1>3, <1>4 DEF a, b, c, d, e

\* A queue without its first item.
LEMMA QueueTail ==
    ASSUME NEW S, NEW s \in Seq(S), s # <<>>
    PROVE  /\ Count(s) \in Nat /\ Count(s) >= 1 /\ Count(Tail(s)) = Count(s) - 1
           /\ Tail(s) \in Seq(S) /\ Head(s) = s[1] /\ Head(s) \in S
           /\ \A i \in 1 .. Count(s) - 1 : Tail(s)[i] = s[i + 1]
BY DEF Count

\* A queue with one more item.
LEMMA QueueAppend ==
    ASSUME NEW S, NEW s \in Seq(S), NEW x \in S
    PROVE  /\ Count(s) \in Nat /\ Count(Append(s, x)) = Count(s) + 1
           /\ Append(s, x) \in Seq(S) /\ Append(s, x)[Count(s) + 1] = x
           /\ \A i \in 1 .. Count(s) : Append(s, x)[i] = s[i]
           /\ s \o <<x>> = Append(s, x) /\ s \o <<>> = s
BY DEF Count

\* The head of a numbered channel has the first number, the rest the ones after it.
LEMMA NumberedTail ==
    ASSUME NEW s \in Seq(Changes), s # <<>>, NEW n \in Nat, Numbered(s, n)
    PROVE  IsNumbered(Head(s), n + 1) /\ Numbered(Tail(s), n + 1)
<1>1. /\ Count(s) \in Nat /\ Count(s) >= 1 /\ Count(Tail(s)) = Count(s) - 1
      /\ Head(s) = s[1]
      /\ \A i \in 1 .. Count(s) - 1 : Tail(s)[i] = s[i + 1]
  BY QueueTail
<1>2. 1 \in 1 .. Count(s)
  BY <1>1
<1>3. IsNumbered(Head(s), n + 1)
  BY <1>1, <1>2, Zenon DEF Numbered
<1>4. ASSUME NEW i \in 1 .. Count(Tail(s)) PROVE IsNumbered(Tail(s)[i], (n + 1) + i)
  <2>0. i \in 1 .. Count(s) - 1
    BY <1>1, Zenon
  <2>1. i + 1 \in 1 .. Count(s) /\ Tail(s)[i] = s[i + 1] /\ n + (i + 1) = (n + 1) + i
    <3>1. Tail(s)[i] = s[i + 1]
      BY <1>1, <2>0, Zenon
    <3>2. Count(s) \in Nat /\ n \in Nat
      BY <1>1
    <3>3. i + 1 \in 1 .. Count(s) /\ n + (i + 1) = (n + 1) + i
      BY ONLY <2>0, <3>2
    <3>. QED BY <3>1, <3>3, Zenon
  <2>2. IsNumbered(s[i + 1], n + (i + 1))
    BY <2>1, Zenon DEF Numbered
  <2>. QED BY <2>1, <2>2, Zenon
<1>. QED BY <1>3, <1>4, Zenon DEF Numbered

\* A message with the next number keeps a channel numbered.
LEMMA NumberedAppend ==
    ASSUME NEW s \in Seq(Changes), NEW n \in Nat, Numbered(s, n), NEW x \in Changes,
           IsNumbered(x, n + Count(s) + 1)
    PROVE  Numbered(Append(s, x), n)
<1>1. /\ Count(s) \in Nat /\ Count(Append(s, x)) = Count(s) + 1
      /\ Append(s, x)[Count(s) + 1] = x
      /\ \A i \in 1 .. Count(s) : Append(s, x)[i] = s[i]
  BY QueueAppend
<1>2. ASSUME NEW i \in 1 .. Count(Append(s, x)) PROVE IsNumbered(Append(s, x)[i], n + i)
  <2>0. i \in 1 .. Count(s) \/ i = Count(s) + 1
    <3>1. i \in 1 .. Count(s) + 1
      BY <1>1, Zenon
    <3>2. Count(s) \in Nat
      BY <1>1
    <3>. QED BY ONLY <3>1, <3>2
  <2>1. CASE i \in 1 .. Count(s)
    BY <2>1, <1>1, Zenon DEF Numbered
  <2>2. CASE i = Count(s) + 1
    <3>1. n + i = n + Count(s) + 1
      BY <1>1, <2>2
    <3>. QED BY <1>1, <2>2, <3>1, Zenon
  <2>. QED BY <2>0, <2>1, <2>2, Zenon
<1>. QED BY <1>2, Zenon DEF Numbered

\* The head of what is told has the first number, the rest the ones after it.
LEMMA TellingTail ==
    ASSUME NEW s \in Seq(DownMessages), s # <<>>, NEW n \in Nat, NEW count \in Nat,
           count >= 1, count <= Count(s), Telling(s, count, n)
    PROVE  /\ Head(s).say = "mode" /\ IsNumbered(Head(s).change, n + 1)
           /\ Telling(Tail(s), count - 1, n + 1)
<1>1. /\ Count(s) \in Nat /\ Head(s) = s[1]
      /\ \A i \in 1 .. Count(s) - 1 : Tail(s)[i] = s[i + 1]
  BY QueueTail
<1>2. 1 \in 1 .. count
  OBVIOUS
<1>3. Head(s).say = "mode" /\ IsNumbered(Head(s).change, n + 1)
  BY <1>1, <1>2, Zenon DEF Telling
<1>4. ASSUME NEW i \in 1 .. count - 1
      PROVE  Tail(s)[i].say = "mode" /\ IsNumbered(Tail(s)[i].change, (n + 1) + i)
  <2>1. /\ i + 1 \in 1 .. count /\ i \in 1 .. Count(s) - 1
        /\ n + (i + 1) = (n + 1) + i
    BY <1>1
  <2>2. Tail(s)[i] = s[i + 1]
    BY <1>1, <2>1, Zenon
  <2>3. s[i + 1].say = "mode" /\ IsNumbered(s[i + 1].change, n + (i + 1))
    BY <2>1, Zenon DEF Telling
  <2>. QED BY <2>1, <2>2, <2>3, Zenon
<1>. QED BY <1>3, <1>4, Zenon DEF Telling

\* One more message, about modes or not, keeps what was told in order.
LEMMA TellingAppend ==
    ASSUME NEW s \in Seq(DownMessages), NEW n \in Nat, Telling(s, Count(s), n),
           NEW x \in DownMessages
    PROVE  /\ Telling(Append(s, x), Count(s), n)
           /\ x.say = "mode" /\ IsNumbered(x.change, n + Count(s) + 1)
                => Telling(Append(s, x), Count(s) + 1, n)
<1>1. /\ Count(s) \in Nat
      /\ Append(s, x)[Count(s) + 1] = x
      /\ \A i \in 1 .. Count(s) : Append(s, x)[i] = s[i]
  BY QueueAppend
<1>2. Telling(Append(s, x), Count(s), n)
  BY <1>1, Zenon DEF Telling
<1>3. ASSUME x.say = "mode", IsNumbered(x.change, n + Count(s) + 1),
             NEW i \in 1 .. Count(s) + 1
      PROVE  Append(s, x)[i].say = "mode" /\ IsNumbered(Append(s, x)[i].change, n + i)
  <2>0. i \in 1 .. Count(s) \/ i = Count(s) + 1
    <3>1. i \in 1 .. Count(s) + 1 /\ Count(s) \in Nat
      BY <1>1
    <3>. QED BY ONLY <3>1
  <2>1. CASE i \in 1 .. Count(s)
    BY <2>1, <1>2, Zenon DEF Telling
  <2>2. CASE i = Count(s) + 1
    <3>1. n + i = n + Count(s) + 1
      BY <1>1, <2>2
    <3>. QED BY <1>1, <1>3, <2>2, <3>1, Zenon
  <2>. QED BY <2>0, <2>1, <2>2, Zenon
<1>. QED BY <1>2, <1>3, Zenon DEF Telling

----------------------------------------------------------------------------
(* What the session says. *)

\* A message about a mode is one.
LEMMA ModeMessageType ==
    ASSUME NEW id \in Nat, NEW active \in BOOLEAN
    PROVE  /\ ModeMessage(id, active) \in DownMessages
           /\ ModeMessage(id, active).say = "mode"
           /\ ModeMessage(id, active).change = [mode |-> id, active |-> active]
           /\ [mode |-> id, active |-> active] \in Changes
BY DEF ModeMessage, DownMessages, Changes

\* After end_float_mode the session has said as much as if it had no mode.
LEMMA EndIsTold ==
    ASSUME InputTypes, actor.attached, NEW n \in Nat, NEW t \in Nat,
           Telling(down, Count(down), n), t = n + Count(down), Current(t)
    PROVE  LET told == down \o EndMessages
           IN  /\ told \in Seq(DownMessages) /\ Telling(told, Count(told), n)
               /\ 2 * actor.next = n + Count(told)
<1>. DEFINE x == ModeMessage(actor.modal, FALSE)
<1>1. /\ down \in Seq(DownMessages) /\ actor.modal \in Nat /\ actor.next \in Nat
  BY DEF InputTypes, Actors
<1>2. /\ x \in DownMessages /\ x.say = "mode" /\ x.change = [mode |-> actor.modal, active |-> FALSE]
  BY <1>1, ModeMessageType
<1>. HIDE DEF x
<1>3. Count(down) \in Nat /\ Count(Append(down, x)) = Count(down) + 1
      /\ Append(down, x) \in Seq(DownMessages)
      /\ down \o <<x>> = Append(down, x) /\ down \o <<>> = down
  BY <1>1, <1>2, QueueAppend
<1>4. CASE actor.modal = 0
  <2>1. down \o EndMessages = down
    BY <1>3, <1>4 DEF EndMessages
  <2>2. t = 2 * actor.next
    BY <1>4 DEF Current
  <2>. QED BY <1>1, <2>1, <2>2
<1>5. CASE actor.modal # 0
  <2>1. down \o EndMessages = Append(down, x)
    BY <1>3, <1>5 DEF EndMessages, x
  <2>2. actor.modal = actor.next /\ t = 2 * actor.next - 1
    BY <1>5 DEF Current
  <2>3. IsNumbered(x.change, n + Count(down) + 1)
    <3>1. n + Count(down) + 1 = 2 * actor.modal
      BY <1>1, <1>3, <2>2
    <3>2. ~x.change.active /\ x.change.mode = actor.modal
      BY <1>2
    <3>. QED BY <3>1, <3>2 DEF IsNumbered
  <2>4. Telling(Append(down, x), Count(down) + 1, n)
    BY <1>1, <1>2, <2>3, TellingAppend
  <2>5. 2 * actor.next = n + (Count(down) + 1)
    BY <1>1, <1>3, <2>2
  <2>. QED BY <1>3, <2>1, <2>4, <2>5, Zenon
<1>. QED BY <1>4, <1>5

\* What the line is while the client is attached.
LEMMA LineAttached ==
    ASSUME InputTypes, actor.attached, NEW r \in Nat, NEW t \in Nat, Line(r, t)
    PROVE  LET n == r + Count(modes) + InHand
           IN  n \in Nat /\ Telling(down, Count(down), n) /\ t = n + Count(down)
<1>1. Count(modes) \in Nat /\ InHand \in Nat
  BY DEF Count, InHand, InputTypes
<1>2. Untold = Count(down)
  BY DEF Untold
<1>. QED BY <1>1, <1>2 DEF Line

\* The mode of the session has ended, and the client was told.
LEMMA ModeEnds ==
    ASSUME InputTypes, ModesFollow, actor.attached, actor'.attached, actor'.modal = 0,
           actor'.next = actor.next, down' = down \o EndMessages,
           UNCHANGED <<modes, reader, float_mode>>
    PROVE  ModesFollow' /\ down' \in Seq(DownMessages)
<1>1. PICK r \in Nat, t \in Nat : Line(r, t) /\ Current(t) /\ Believed(r, t)
  BY DEF ModesFollow
<1>0. PICK s \in Nat : s = 2 * actor.next
  BY DEF InputTypes, Actors
<1>. DEFINE n == r + Count(modes) + InHand
<1>2. n \in Nat /\ Telling(down, Count(down), n) /\ t = n + Count(down)
  BY <1>1, LineAttached
<1>. HIDE DEF n
<1>3. /\ down' \in Seq(DownMessages) /\ Telling(down', Count(down'), n)
      /\ s = n + Count(down')
  BY <1>0, <1>1, <1>2, EndIsTold
<1>4. Untold' = Count(down') /\ InHand' = InHand
  BY DEF Untold, InHand
<1>5. Line(r, s)'
  <2>1. n = r + Count(modes') + InHand'
    BY <1>4 DEF n
  <2>2. Numbered(modes', r) /\ (reader'.at = "send" =>
                                  IsNumbered(reader'.held, r + Count(modes') + 1))
    BY <1>1 DEF Line
  <2>3. s = r + Count(modes') + InHand' + Untold'
        /\ Telling(down', Untold', r + Count(modes') + InHand')
    BY <1>3, <1>4, <2>1, Zenon
  <2>. QED BY <2>2, <2>3, Zenon DEF Line
<1>6. Current(s)' /\ Believed(r, s)'
  BY <1>0, <1>1 DEF Current, Believed
<1>. QED BY <1>3, <1>5, <1>6, Zenon DEF ModesFollow

\* The session entered a mode, having ended the one before.
LEMMA ModeBegins ==
    ASSUME InputTypes, ModesFollow, actor.attached, actor'.attached,
           actor'.modal = actor.next + 1, actor'.next = actor.next + 1,
           down' = (down \o EndMessages) \o <<ModeMessage(actor.next + 1, TRUE)>>,
           UNCHANGED <<modes, reader, float_mode>>
    PROVE  ModesFollow' /\ down' \in Seq(DownMessages)
<1>1. PICK r \in Nat, t \in Nat : Line(r, t) /\ Current(t) /\ Believed(r, t)
  BY DEF ModesFollow
<1>0. PICK k \in Nat : k = actor.next + 1
  BY DEF InputTypes, Actors
<1>. DEFINE n == r + Count(modes) + InHand
            told == down \o EndMessages
            x == ModeMessage(k, TRUE)
            s == 2 * k - 1
<1>2. n \in Nat /\ Telling(down, Count(down), n) /\ t = n + Count(down)
  BY <1>1, LineAttached
<1>3. n >= r
  BY DEF Count, InHand, InputTypes
<1>. HIDE DEF n
<1>4. /\ told \in Seq(DownMessages) /\ Telling(told, Count(told), n)
      /\ 2 * actor.next = n + Count(told)
  BY <1>1, <1>2, EndIsTold
<1>5. /\ x \in DownMessages /\ x.say = "mode" /\ x.change = [mode |-> k, active |-> TRUE]
  BY ModeMessageType
<1>. HIDE DEF x, told
<1>6. /\ down' = Append(told, x) /\ down' \in Seq(DownMessages)
      /\ Count(told) \in Nat /\ Count(down') = Count(told) + 1
  <2>1. down' = told \o <<x>>
    BY <1>0 DEF told, x
  <2>2. /\ Count(told) \in Nat /\ Count(Append(told, x)) = Count(told) + 1
        /\ Append(told, x) \in Seq(DownMessages) /\ told \o <<x>> = Append(told, x)
    BY <1>4, <1>5, QueueAppend
  <2>. QED BY <2>1, <2>2, Zenon
<1>7. s = n + Count(told) + 1 /\ s \in Nat /\ s = n + (Count(told) + 1)
  <2>1. actor.next \in Nat
    BY DEF InputTypes, Actors
  <2>2. k \in Nat /\ Count(told) \in Nat
    BY <1>6
  <2>3. s = 2 * k - 1
    OBVIOUS
  <2>. HIDE DEF s
  <2>4. PICK c \in Nat : c = Count(told)
    BY <2>2
  <2>5. PICK v \in Nat : v = actor.next
    BY <2>1
  <2>6. k = v + 1 /\ 2 * v = n + c
    BY <1>0, <1>4, <2>4, <2>5, Zenon
  <2>7. s = n + c + 1 /\ s \in Nat /\ s = n + (c + 1)
    BY ONLY <2>2, <2>3, <1>2, <2>4, <2>5, <2>6
  <2>. QED BY <2>7, <2>4, Zenon
<1>8. Telling(down', Count(down'), n)
  <2>1. IsNumbered(x.change, n + Count(told) + 1)
    <3>1. x.change.active /\ x.change.mode = k
      BY <1>5
    <3>. QED BY <1>7, <3>1 DEF IsNumbered
  <2>2. Telling(Append(told, x), Count(told) + 1, n)
    BY <1>2, <1>4, <1>5, <2>1, TellingAppend
  <2>. QED BY <2>2, <1>6, Zenon
<1>9. Untold' = Count(down') /\ InHand' = InHand
  BY DEF Untold, InHand
<1>10. Line(r, s)'
  <2>1. n = r + Count(modes') + InHand'
    BY <1>9 DEF n
  <2>2. Numbered(modes', r) /\ (reader'.at = "send" =>
                                  IsNumbered(reader'.held, r + Count(modes') + 1))
    BY <1>1 DEF Line
  <2>3. s = r + Count(modes') + InHand' + Untold'
        /\ Telling(down', Untold', r + Count(modes') + InHand')
    BY <1>6, <1>7, <1>8, <1>9, <2>1, Zenon
  <2>. HIDE DEF s
  <2>. QED BY <2>2, <2>3, Zenon DEF Line
<1>11. Current(s)'
  BY <1>0 DEF Current, InputTypes, Actors
<1>12. Believed(r, s)'
  <2>1. r # s
    BY <1>2, <1>3, <1>6, <1>7
  <2>2. float_mode' # 0 => r = 2 * float_mode' - 1
    BY <1>1 DEF Believed
  <2>. HIDE DEF s
  <2>. QED BY <2>1, <2>2, Zenon DEF Believed
<1>. HIDE DEF s
<1>. QED BY <1>6, <1>7, <1>10, <1>11, <1>12, Zenon DEF ModesFollow

\* The client is no longer attached: the detach is the last word to it.
LEMMA ModeDetached ==
    ASSUME InputTypes, ModesFollow, actor.attached, ~actor'.attached,
           NEW told \in Seq(DownMessages),
           told = down \/ told = down \o EndMessages,
           down' = Append(told, [say |-> "detached"]),
           UNCHANGED <<modes, reader, float_mode>>
    PROVE  ModesFollow' /\ down' \in Seq(DownMessages)
<1>1. PICK r \in Nat, t \in Nat : Line(r, t) /\ Current(t) /\ Believed(r, t)
  BY DEF ModesFollow
<1>. DEFINE n == r + Count(modes) + InHand
            x == [say |-> "detached"]
<1>2. n \in Nat /\ Telling(down, Count(down), n) /\ t = n + Count(down)
  BY <1>1, LineAttached
<1>. HIDE DEF n
<1>3. Telling(told, Count(told), n)
  BY <1>1, <1>2, EndIsTold
<1>4. x \in DownMessages /\ x.say = "detached"
  BY DEF DownMessages
<1>. HIDE DEF x
<1>5. /\ Count(told) \in Nat /\ Count(down') = Count(told) + 1
      /\ down' \in Seq(DownMessages) /\ down'[Count(told) + 1] = x
      /\ Telling(down', Count(told), n)
  <2>1. down' = Append(told, x)
    BY DEF x
  <2>2. /\ Count(told) \in Nat /\ Count(Append(told, x)) = Count(told) + 1
        /\ Append(told, x) \in Seq(DownMessages)
        /\ Append(told, x)[Count(told) + 1] = x
    BY <1>4, QueueAppend
  <2>3. Telling(Append(told, x), Count(told), n)
    BY <1>2, <1>3, <1>4, TellingAppend
  <2>. QED BY <2>1, <2>2, <2>3, Zenon
<1>6. PICK s \in Nat : s = n + Count(told)
  BY <1>2, <1>5
<1>7. Untold' = Count(told) /\ InHand' = InHand
  BY <1>5 DEF Untold, InHand
<1>8. Line(r, s)'
  <2>1. n = r + Count(modes') + InHand'
    BY <1>7 DEF n
  <2>2. Numbered(modes', r) /\ (reader'.at = "send" =>
                                  IsNumbered(reader'.held, r + Count(modes') + 1))
    BY <1>1 DEF Line
  <2>3. s = r + Count(modes') + InHand' + Untold'
        /\ Telling(down', Untold', r + Count(modes') + InHand')
    BY <1>5, <1>6, <1>7, <2>1, Zenon
  <2>4. Count(down') > 0 /\ down'[Count(down')].say = "detached"
    <3>1. Count(told) + 1 > 0
      BY ONLY <1>5
    <3>. QED BY <1>4, <1>5, <3>1, Zenon
  <2>. QED BY <2>2, <2>3, <2>4, Zenon DEF Line
<1>9. Current(s)' /\ Believed(r, s)'
  BY <1>1 DEF Current, Believed
<1>. QED BY <1>5, <1>8, <1>9, Zenon DEF ModesFollow

\* Nothing about modes happened, and what will end the mode is still on its way.
LEMMA ModesKept ==
    ASSUME ModesFollow, UNCHANGED <<modes, down, float_mode>>,
           reader' = reader \/ (reader.at = "recv" /\ reader'.at = "ended"),
           actor'.attached = actor.attached, actor'.modal = actor.modal,
           actor'.next = actor.next,
           actor.attached => (Ending(up, actor.modal) => Ending(up', actor.modal))
    PROVE  ModesFollow'
<1>1. PICK r \in Nat, t \in Nat : Line(r, t) /\ Current(t) /\ Believed(r, t)
  BY DEF ModesFollow
<1>2. Untold' = Untold /\ InHand' = InHand
  BY DEF Untold, InHand
<1>3. Line(r, t)'
  BY <1>1, <1>2 DEF Line
<1>4. Current(t)' /\ Believed(r, t)'
  BY <1>1 DEF Current, Believed
<1>. QED BY <1>3, <1>4, Zenon DEF ModesFollow

\* Messages sent after or before it leave the end of a mode on its way.
LEMMA EndingMore ==
    ASSUME NEW s \in Seq(UpMessages), NEW more \in Seq(UpMessages), NEW mode
    PROVE  /\ s \o more \in Seq(UpMessages)
           /\ Ending(s, mode) => Ending(s \o more, mode)
           /\ Ending(more, mode) => Ending(s \o more, mode)
<1>1. ASSUME NEW i \in DOMAIN s
      PROVE  i \in DOMAIN (s \o more) /\ (s \o more)[i] = s[i]
  OBVIOUS
<1>2. ASSUME NEW i \in DOMAIN more
      PROVE  Len(s) + i \in DOMAIN (s \o more) /\ (s \o more)[Len(s) + i] = more[i]
  OBVIOUS
<1>3. Ending(s, mode) => Ending(s \o more, mode)
  BY <1>1, Zenon DEF Ending
<1>4. Ending(more, mode) => Ending(s \o more, mode)
  BY <1>2, Zenon DEF Ending
<1>. QED BY <1>3, <1>4

\* So does one message.
LEMMA EndingAppend ==
    ASSUME NEW s \in Seq(UpMessages), NEW x \in UpMessages, NEW mode
    PROVE  /\ Append(s, x) \in Seq(UpMessages)
           /\ Ending(s, mode) => Ending(Append(s, x), mode)
<1>1. <<x>> \in Seq(UpMessages) /\ s \o <<x>> = Append(s, x)
  OBVIOUS
<1>. QED BY <1>1, EndingMore, Zenon

\* And so does taking a message that is not the end.
LEMMA EndingTail ==
    ASSUME NEW s \in Seq(UpMessages), s # <<>>, NEW mode,
           ~(Head(s).do = "edit" /\ Head(s).mode = mode /\ Head(s).command # "step")
    PROVE  /\ Tail(s) \in Seq(UpMessages) /\ Head(s) \in UpMessages
           /\ Ending(s, mode) => Ending(Tail(s), mode)
<1>1. Tail(s) \in Seq(UpMessages) /\ Head(s) \in UpMessages /\ Head(s) = s[1]
  OBVIOUS
<1>2. ASSUME NEW i \in DOMAIN s, i # 1
      PROVE  i - 1 \in DOMAIN Tail(s) /\ Tail(s)[i - 1] = s[i]
  <2>1. /\ Len(s) \in Nat /\ DOMAIN s = 1 .. Len(s) /\ Len(Tail(s)) = Len(s) - 1
        /\ DOMAIN Tail(s) = 1 .. Len(Tail(s))
    OBVIOUS
  <2>2. i - 1 \in 1 .. Len(s) - 1 /\ (i - 1) + 1 = i
    BY <1>2, <2>1
  <2>3. Tail(s)[i - 1] = s[(i - 1) + 1]
    BY <2>1, <2>2
  <2>. QED BY <2>1, <2>2, <2>3, Zenon
<1>3. ASSUME NEW i \in DOMAIN s, s[i].do = "edit", s[i].mode = mode, s[i].command # "step"
      PROVE  Ending(Tail(s), mode)
  <2>1. i # 1
    BY <1>1, <1>3, Zenon
  <2>. QED BY <1>2, <1>3, <2>1, Zenon DEF Ending
<1>. QED BY <1>1, <1>3, Zenon DEF Ending

\* What is left to show where the loop's parsers do not move.
LEMMA ParsersKept ==
    ASSUME InputInv, InputTypes', ModesFollow',
           UNCHANGED <<parser, pending, float_mode, undecided, behind>>,
           main' \in {"drain", "read"} => main \in {"drain", "read"}
    PROVE  InputInv'
<1>1. HeldBack' = HeldBack
  BY DEF HeldBack
<1>. QED BY <1>1 DEF InputInv, DroppedAtTheEnd, NothingHeldOutside, SoundParser

----------------------------------------------------------------------------
(* The steps that say nothing of modes. *)

\* The loop starts a read, detaches, leaves or joins its reader.
LEMMA LoopMoves ==
    ASSUME InputInv, StartRead \/ LeaveLoop \/ Join \/ ReadEnds
    PROVE  InputInv'
<1>1. InputTypes /\ ModesFollow
  BY DEF InputInv
<1>2. UNCHANGED <<parser, pending, float_mode, undecided, behind, modes, down, reader,
                  actor, tty>>
  BY DEF StartRead, LeaveLoop, Join, ReadEnds
<1>3. /\ main' \in {"drain", "read", "ack", "join", "exited"} /\ stopped' \in BOOLEAN
      /\ up' = up \/ up' = Append(up, [do |-> "detach"])
  BY <1>1 DEF StartRead, LeaveLoop, Join, ReadEnds, InputTypes
<1>4. [do |-> "detach"] \in UpMessages
  BY DEF UpMessages, InputCommands
<1>5. up \in Seq(UpMessages)
  BY <1>1 DEF InputTypes
<1>6. /\ up' \in Seq(UpMessages)
      /\ Ending(up, actor.modal) => Ending(up', actor.modal)
  BY <1>3, <1>4, <1>5, EndingAppend, Zenon
<1>7. InputTypes'
  <2>1. up' \in Seq(UpMessages) /\ main' \in {"drain", "read", "ack", "join", "exited"}
        /\ stopped' \in BOOLEAN
    BY <1>3, <1>6, Zenon
  <2>. QED BY ONLY <1>1, <1>2, <2>1, Zenon DEF InputTypes
<1>8. ModesFollow'
  <2>1. UNCHANGED <<modes, down, float_mode>>
    BY ONLY <1>2
  <2>2. reader' = reader
    BY ONLY <1>2
  <2>3. actor'.attached = actor.attached /\ actor'.modal = actor.modal /\ actor'.next = actor.next
    BY ONLY <1>2
  <2>. QED BY ONLY <1>1, <2>1, <2>2, <2>3, <1>6, ModesKept
<1>9. main' \in {"drain", "read"} => main \in {"drain", "read"}
  BY DEF StartRead, LeaveLoop, Join, ReadEnds
<1>. QED BY <1>2, <1>7, <1>8, <1>9, ParsersKept

\* The user types, the terminal ends, a signal arrives, the server is gone.
LEMMA EnvironmentMoves ==
    ASSUME InputInv,
           TerminalEnds \/ Signal \/ ServerGone \/ \E stroke \in Strokes : Type(stroke)
    PROVE  InputInv'
<1>1. InputTypes /\ ModesFollow
  BY DEF InputInv
<1>2. UNCHANGED <<main, parser, pending, float_mode, undecided, behind, modes, down,
                  reader, up>>
  BY DEF TerminalEnds, Signal, ServerGone, Type
<1>3. tty' \in [bytes : Seq(Bytes), eof : BOOLEAN] /\ stopped' \in BOOLEAN
  <2>1. ASSUME NEW stroke \in Strokes, Type(stroke)
        PROVE  tty' \in [bytes : Seq(Bytes), eof : BOOLEAN] /\ stopped' = stopped
    <3>1. tty \in [bytes : Seq(Bytes), eof : BOOLEAN] /\ stroke \in Seq(Bytes)
      BY <1>1, InputAssumption DEF InputTypes
    <3>2. tty.bytes \o stroke \in Seq(Bytes)
      BY <3>1
    <3>3. tty' = [tty EXCEPT !.bytes = tty.bytes \o stroke] /\ stopped' = stopped
      BY <2>1 DEF Type
    <3>. QED BY <3>1, <3>2, <3>3
  <2>2. ASSUME TerminalEnds \/ Signal \/ ServerGone
        PROVE  tty' \in [bytes : Seq(Bytes), eof : BOOLEAN] /\ stopped' \in BOOLEAN
    BY <1>1, <2>2 DEF TerminalEnds, Signal, ServerGone, InputTypes
  <2>. QED BY <1>1, <2>1, <2>2 DEF InputTypes
<1>4. /\ actor' \in Actors /\ actor'.attached = actor.attached
      /\ actor'.modal = actor.modal /\ actor'.next = actor.next
  <2>1. actor \in Actors
    BY <1>1 DEF InputTypes
  <2>2. actor' = actor \/ actor' = [actor EXCEPT !.closed = TRUE]
    BY DEF TerminalEnds, Signal, ServerGone, Type
  <2>. QED BY <2>1, <2>2 DEF Actors
<1>5. InputTypes'
  BY ONLY <1>1, <1>2, <1>3, <1>4, Zenon DEF InputTypes
<1>6. ModesFollow'
  <2>1. UNCHANGED <<modes, down, float_mode>>
    BY ONLY <1>2
  <2>2. reader' = reader
    BY ONLY <1>2
  <2>4. Ending(up, actor.modal) => Ending(up', actor.modal)
    BY ONLY <1>2, Zenon
  <2>. QED BY ONLY <1>1, <2>1, <2>2, <2>4, <1>4, ModesKept
<1>. QED BY <1>2, <1>5, <1>6, ParsersKept

\* The reader ends.
LEMMA ReaderStops ==
    ASSUME InputInv, ReaderEnds
    PROVE  InputInv'
<1>1. InputTypes /\ ModesFollow
  BY DEF InputInv
<1>2. UNCHANGED <<tty, main, parser, pending, float_mode, undecided, behind, modes, down,
                  up, actor>>
  BY DEF ReaderEnds
<1>3. /\ reader' \in [at : {"recv", "send", "ended"}, held : Changes]
      /\ reader.at = "recv" /\ reader'.at = "ended" /\ stopped' = TRUE
  BY <1>1 DEF ReaderEnds, InputTypes
<1>4. InputTypes'
  BY <1>1, <1>2, <1>3 DEF InputTypes
<1>5. ModesFollow'
  BY <1>1, <1>2, <1>3, ModesKept
<1>. QED BY <1>2, <1>4, <1>5, ParsersKept

----------------------------------------------------------------------------
(* The steps of the session. *)

SessionKeeps == UNCHANGED <<tty, main, parser, pending, float_mode, stopped, reader,
                            modes, undecided, behind>>

\* What is left to show of a step of the session.
LEMMA SessionFrame ==
    ASSUME InputInv, SessionKeeps, actor' \in Actors,
           up' \in Seq(UpMessages), down' \in Seq(DownMessages), ModesFollow'
    PROVE  InputInv'
<1>1. InputTypes
  BY DEF InputInv
<1>2. UNCHANGED <<tty, main, parser, pending, float_mode, stopped, reader, modes,
                  undecided, behind>>
  BY DEF SessionKeeps
<1>3. InputTypes'
  BY ONLY <1>1, <1>2, actor' \in Actors, up' \in Seq(UpMessages),
          down' \in Seq(DownMessages), Zenon DEF InputTypes
<1>. QED BY <1>2, <1>3, ParsersKept

\* A handler takes the first message of its client.
LEMMA Taken ==
    ASSUME InputInv, NEW kind, Handles(kind), NotActor
    PROVE  SessionKeeps /\ up' \in Seq(UpMessages)
<1>1. up \in Seq(UpMessages) /\ up # <<>> /\ up' = Tail(up)
  BY DEF InputInv, InputTypes, Handles
<1>. QED BY <1>1 DEF NotActor, SessionKeeps

\* The session has ended its mode, if it had one, and told its client.
LEMMA SessionEnds ==
    ASSUME InputInv, SessionKeeps, up' \in Seq(UpMessages), actor' \in Actors,
           actor.attached, actor'.attached, actor'.modal = 0, actor'.next = actor.next,
           down' = down \o EndMessages
    PROVE  InputInv'
<1>1. InputTypes /\ ModesFollow
  BY DEF InputInv
<1>2. UNCHANGED <<modes, reader, float_mode>>
  BY DEF SessionKeeps
<1>3. ModesFollow' /\ down' \in Seq(DownMessages)
  BY <1>1, <1>2, ModeEnds
<1>. QED BY <1>3, SessionFrame

\* The types of the session's parts.
LEMMA ActorIs ==
    ASSUME InputInv
    PROVE  /\ actor \in Actors /\ actor.attached \in BOOLEAN /\ actor.modal \in Nat
           /\ actor.next \in Nat
BY DEF InputInv, InputTypes, Actors

\* A message of a client that is no longer attached.
LEMMA StaleHandled ==
    ASSUME InputInv, HandleStale
    PROVE  InputInv'
<1>1. up \in Seq(UpMessages) /\ up # <<>> /\ up' = Tail(up) /\ ModesFollow /\ ~actor.attached
  BY DEF InputInv, InputTypes, HandleStale
<1>2. up' \in Seq(UpMessages) /\ down' = down /\ actor' = actor /\ SessionKeeps
  BY <1>1 DEF HandleStale, NotActor, SessionKeeps
<1>3. UNCHANGED <<modes, down, float_mode>> /\ reader' = reader
  BY <1>2 DEF SessionKeeps
<1>4. ModesFollow'
  BY <1>1, <1>2, <1>3, ModesKept
<1>5. actor' \in Actors /\ down' \in Seq(DownMessages)
  BY <1>2 DEF InputInv, InputTypes
<1>. QED BY <1>2, <1>4, <1>5, SessionFrame

\* The key that enters the mode.
LEMMA FloatModeEntered ==
    ASSUME InputInv, EnterFloatMode
    PROVE  InputInv'
<1>1. Handles("action") /\ actor.attached /\ NotActor
  BY DEF EnterFloatMode
<1>2. SessionKeeps /\ up' \in Seq(UpMessages)
  BY <1>1, Taken
<1>3. actor \in Actors /\ actor.next \in Nat
  BY ActorIs
<1>4. CASE ~actor.floating
  <2>1. actor' = [actor EXCEPT !.modal = 0] /\ down' = down \o EndMessages
    BY <1>4 DEF EnterFloatMode
  <2>2. actor' \in Actors /\ actor'.attached /\ actor'.modal = 0 /\ actor'.next = actor.next
    BY <1>1, <1>3, <2>1 DEF Actors
  <2>. QED BY <1>1, <1>2, <2>1, <2>2, SessionEnds
<1>5. CASE actor.floating
  <2>1. /\ actor' = [actor EXCEPT !.modal = actor.next + 1, !.next = @ + 1]
        /\ down' = (down \o EndMessages) \o <<ModeMessage(actor.next + 1, TRUE)>>
    BY <1>5 DEF EnterFloatMode
  <2>2. /\ actor' \in Actors /\ actor'.attached
        /\ actor'.modal = actor.next + 1 /\ actor'.next = actor.next + 1
    <3>1. PICK k \in Nat : k = actor.next + 1
      BY <1>3
    <3>2. actor' = [actor EXCEPT !.modal = k, !.next = k]
      BY <1>3, <2>1, <3>1 DEF Actors
    <3>3. actor' \in Actors
      BY ONLY <1>3, <3>1, <3>2 DEF Actors
    <3>4. actor'.attached = actor.attached /\ actor'.modal = k /\ actor'.next = k
      BY ONLY <1>3, <3>1, <3>2 DEF Actors
    <3>. QED BY <1>1, <3>1, <3>3, <3>4
  <2>3. InputTypes /\ ModesFollow /\ UNCHANGED <<modes, reader, float_mode>>
    BY <1>2 DEF InputInv, SessionKeeps
  <2>4. ModesFollow' /\ down' \in Seq(DownMessages)
    BY <1>1, <2>1, <2>2, <2>3, ModeBegins
  <2>. QED BY <1>2, <2>2, <2>4, SessionFrame
<1>. QED BY <1>4, <1>5

\* What a session without its mode is like.
WithoutMode(before, after) ==
    \/ after = [before EXCEPT !.modal = 0]
    \/ after = [before EXCEPT !.modal = 0, !.copy = TRUE]
    \/ \E floating \in BOOLEAN :
           after = [before EXCEPT !.modal = 0, !.floating = floating, !.copy = FALSE]

\* Its types.
LEMMA ModeIsNone ==
    ASSUME NEW before \in Actors, NEW after, WithoutMode(before, after)
    PROVE  /\ after \in Actors /\ after.attached = before.attached
           /\ after.modal = 0 /\ after.next = before.next
<1>1. CASE after = [before EXCEPT !.modal = 0]
  BY <1>1 DEF Actors
<1>2. CASE after = [before EXCEPT !.modal = 0, !.copy = TRUE]
  BY <1>2 DEF Actors
<1>3. ASSUME NEW floating \in BOOLEAN,
             after = [before EXCEPT !.modal = 0, !.floating = floating, !.copy = FALSE]
      PROVE  /\ after \in Actors /\ after.attached = before.attached
             /\ after.modal = 0 /\ after.next = before.next
  BY <1>3 DEF Actors
<1>. QED BY <1>1, <1>2, <1>3 DEF WithoutMode

\* Copy mode, a resize or another focus ends the mode.
LEMMA ModeEnded ==
    ASSUME InputInv,
           EnterCopyMode \/ HandleResize \/ \E floating \in BOOLEAN : ChangeFocus(floating)
    PROVE  InputInv'
<1>1. SessionKeeps /\ up' \in Seq(UpMessages)
  BY Taken DEF EnterCopyMode, HandleResize, ChangeFocus
<1>2. actor \in Actors /\ actor.attached /\ down' = down \o EndMessages
  BY ActorIs DEF EnterCopyMode, HandleResize, ChangeFocus
<1>3. WithoutMode(actor, actor')
  BY DEF WithoutMode, EnterCopyMode, HandleResize, ChangeFocus
<1>4. actor' \in Actors /\ actor'.attached /\ actor'.modal = 0 /\ actor'.next = actor.next
  BY <1>2, <1>3, ModeIsNone
<1>. QED BY <1>1, <1>2, <1>4, SessionEnds

\* What leaves the mode alone, and does not end it either.
LEMMA SessionStays ==
    ASSUME InputInv, SessionKeeps, up # <<>>, up' = Tail(up), down' = down, actor' \in Actors,
           actor'.attached = actor.attached, actor'.modal = actor.modal,
           actor'.next = actor.next,
           ~(Head(up).do = "edit" /\ Head(up).mode = actor.modal /\ Head(up).command # "step")
    PROVE  InputInv'
<1>1. ModesFollow /\ up \in Seq(UpMessages) /\ down' \in Seq(DownMessages)
  BY DEF InputInv, InputTypes
<1>2. UNCHANGED <<modes, down, float_mode>> /\ reader' = reader
  BY DEF SessionKeeps
<1>3. /\ up' \in Seq(UpMessages)
      /\ Ending(up, actor.modal) => Ending(up', actor.modal)
  BY <1>1, EndingTail, Zenon
<1>4. ModesFollow'
  BY <1>1, <1>2, <1>3, ModesKept
<1>. QED BY <1>1, <1>3, <1>4, SessionFrame

\* A mouse report.
LEMMA MouseHandled ==
    ASSUME InputInv, NEW other \in BOOLEAN, HandleMouse(other)
    PROVE  InputInv'
<1>1. Handles("mouse") /\ actor.attached /\ NotActor
  BY DEF HandleMouse
<1>2. SessionKeeps /\ up' \in Seq(UpMessages)
  BY <1>1, Taken
<1>3. CASE other
  <2>1. actor' = [actor EXCEPT !.modal = 0, !.copy = FALSE] /\ down' = down \o EndMessages
    BY <1>3 DEF HandleMouse
  <2>2. actor' \in Actors /\ actor'.attached /\ actor'.modal = 0 /\ actor'.next = actor.next
    BY <1>1, <2>1, ActorIs DEF Actors
  <2>. QED BY <1>1, <1>2, <2>1, <2>2, SessionEnds
<1>4. CASE ~other
  <2>1. actor' = actor /\ down' = down
    BY <1>4 DEF HandleMouse
  <2>2. up # <<>> /\ up' = Tail(up) /\ Head(up).do # "edit"
    BY <1>1 DEF Handles
  <2>3. actor' \in Actors
    BY <2>1, ActorIs
  <2>. QED BY <1>2, <2>1, <2>2, <2>3, SessionStays
<1>. QED BY <1>3, <1>4

\* An edit: a step, the end of the mode, or one that raced its end.
LEMMA EditHandled ==
    ASSUME InputInv, FloatEdit
    PROVE  InputInv'
<1>1. Handles("edit") /\ actor.attached /\ NotActor
  BY DEF FloatEdit
<1>2. SessionKeeps /\ up' \in Seq(UpMessages)
  BY <1>1, Taken
<1>3. CASE actor.modal = Head(up).mode /\ Head(up).command # "step"
  <2>1. actor' = [actor EXCEPT !.modal = 0] /\ down' = down \o EndMessages
    BY <1>3 DEF FloatEdit
  <2>2. actor' \in Actors /\ actor'.attached /\ actor'.modal = 0 /\ actor'.next = actor.next
    BY <1>1, <2>1, ActorIs DEF Actors
  <2>. QED BY <1>1, <1>2, <2>1, <2>2, SessionEnds
<1>4. CASE ~(actor.modal = Head(up).mode /\ Head(up).command # "step")
  <2>1. actor' = actor /\ down' = down
    BY <1>4 DEF FloatEdit
  <2>2. up # <<>> /\ up' = Tail(up)
    BY <1>1 DEF Handles
  <2>3. actor' \in Actors
    BY <2>1, ActorIs
  <2>. QED BY <1>2, <1>4, <2>1, <2>2, <2>3, SessionStays
<1>. QED BY <1>3, <1>4

\* Input for the pane in focus.
LEMMA InputHandled ==
    ASSUME InputInv, HandleInput
    PROVE  InputInv'
<1>1. Handles("input") /\ actor.attached /\ NotActor /\ down' = down
  BY DEF HandleInput
<1>2. SessionKeeps /\ up' \in Seq(UpMessages)
  BY <1>1, Taken
<1>3. PICK copy \in BOOLEAN : actor' = [actor EXCEPT !.copy = copy]
  BY DEF HandleInput
<1>4. /\ actor' \in Actors /\ actor'.attached = actor.attached
      /\ actor'.modal = actor.modal /\ actor'.next = actor.next
  BY <1>3, ActorIs DEF Actors
<1>5. up # <<>> /\ up' = Tail(up) /\ Head(up).do # "edit"
  BY <1>1 DEF Handles
<1>. QED BY <1>1, <1>2, <1>4, <1>5, SessionStays

\* The client detaches.
LEMMA DetachHandled ==
    ASSUME InputInv, HandleDetach
    PROVE  InputInv'
<1>1. Handles("detach") /\ actor.attached /\ NotActor
  BY DEF HandleDetach
<1>2. SessionKeeps /\ up' \in Seq(UpMessages)
  BY <1>1, Taken
<1>3. /\ actor' = [actor EXCEPT !.attached = FALSE, !.modal = 0]
      /\ down' = Append(down, [say |-> "detached"])
  BY DEF HandleDetach
<1>4. actor' \in Actors /\ ~actor'.attached
  BY <1>3, ActorIs DEF Actors
<1>5. InputTypes /\ ModesFollow /\ UNCHANGED <<modes, reader, float_mode>>
  BY <1>2 DEF InputInv, SessionKeeps
<1>6. down \in Seq(DownMessages)
  BY <1>5 DEF InputTypes
<1>7. ModesFollow' /\ down' \in Seq(DownMessages)
  BY <1>1, <1>3, <1>4, <1>5, <1>6, ModeDetached
<1>. QED BY <1>2, <1>4, <1>7, SessionFrame

\* Another client takes the session.
LEMMA SessionTaken ==
    ASSUME InputInv, Replaced
    PROVE  InputInv'
<1>1. InputTypes /\ ModesFollow /\ actor.attached /\ actor \in Actors
  BY ActorIs DEF InputInv, Replaced
<1>2. SessionKeeps /\ up' = up
  BY DEF Replaced, SessionKeeps
<1>3. PICK told : told = down \o EndMessages
  OBVIOUS
<1>4. /\ actor' = [actor EXCEPT !.attached = FALSE, !.modal = 0]
      /\ down' = told \o <<[say |-> "detached"]>>
  BY <1>3 DEF Replaced
<1>5. actor' \in Actors /\ ~actor'.attached
  BY <1>1, <1>4 DEF Actors
<1>6. told \in Seq(DownMessages)
  <2>1. PICK x \in DownMessages : x = ModeMessage(actor.modal, FALSE)
    BY ActorIs, ModeMessageType
  <2>2. EndMessages = <<x>> \/ EndMessages = <<>>
    BY <2>1, Zenon DEF EndMessages
  <2>3. down \in Seq(DownMessages)
    BY <1>1 DEF InputTypes
  <2>4. <<x>> \in Seq(DownMessages) /\ <<>> \in Seq(DownMessages)
    BY ONLY x \in DownMessages
  <2>5. EndMessages \in Seq(DownMessages)
    BY <2>2, <2>4, Zenon
  <2>. QED BY ONLY <1>3, <2>3, <2>5
<1>7. down' = Append(told, [say |-> "detached"])
  BY <1>4, <1>6
<1>8. UNCHANGED <<modes, reader, float_mode>>
  BY <1>2 DEF SessionKeeps
<1>9. ModesFollow' /\ down' \in Seq(DownMessages)
  BY <1>1, <1>3, <1>5, <1>6, <1>7, <1>8, ModeDetached
<1>10. up' \in Seq(UpMessages)
  BY <1>1, <1>2 DEF InputTypes
<1>. QED BY <1>2, <1>5, <1>9, <1>10, SessionFrame

\* The pane exits, or another client is refused.
LEMMA ModeLost ==
    ASSUME InputInv, Refused \/ \E floating \in BOOLEAN : PaneExits(floating)
    PROVE  InputInv'
<1>1. actor \in Actors /\ actor.attached /\ down' = down \o EndMessages
  BY ActorIs DEF Refused, PaneExits
<1>2. SessionKeeps /\ up' = up
  BY DEF Refused, PaneExits, SessionKeeps
<1>3. WithoutMode(actor, actor')
  BY DEF WithoutMode, Refused, PaneExits
<1>4. actor' \in Actors /\ actor'.attached /\ actor'.modal = 0 /\ actor'.next = actor.next
  BY <1>1, <1>3, ModeIsNone
<1>5. up' \in Seq(UpMessages)
  BY <1>2 DEF InputInv, InputTypes
<1>. QED BY <1>1, <1>2, <1>4, <1>5, SessionEnds

----------------------------------------------------------------------------
(* The steps of the reader. *)

\* A message moves from the connection to the reader's hand.
LEMMA ModeTaken ==
    ASSUME InputInv, ReaderTakesMode
    PROVE  InputInv'
<1>1. InputTypes /\ ModesFollow
  BY DEF InputInv
<1>2. /\ UNCHANGED <<tty, main, parser, pending, float_mode, stopped, modes, up, actor,
                     undecided, behind>>
      /\ reader.at = "recv" /\ down # <<>> /\ Head(down).say = "mode"
      /\ reader' = [at |-> "send", held |-> Head(down).change] /\ down' = Tail(down)
  BY DEF ReaderTakesMode
<1>3. down \in Seq(DownMessages) /\ Count(modes) \in Nat
  BY <1>1 DEF InputTypes, Count
<1>4. /\ Count(down) \in Nat /\ Count(down) >= 1 /\ Count(Tail(down)) = Count(down) - 1
      /\ Tail(down) \in Seq(DownMessages) /\ Head(down) = down[1]
      /\ Head(down) \in DownMessages
      /\ \A i \in 1 .. Count(down) - 1 : Tail(down)[i] = down[i + 1]
  BY <1>2, <1>3, QueueTail
<1>5. Head(down).change \in Changes
  BY <1>2, <1>4 DEF DownMessages
<1>6. InputTypes'
  <2>1. reader' \in [at : {"recv", "send", "ended"}, held : Changes]
    BY <1>2, <1>5
  <2>2. down' \in Seq(DownMessages)
    BY <1>2, <1>4
  <2>. QED BY ONLY <1>1, <1>2, <2>1, <2>2, Zenon DEF InputTypes
<1>7. PICK r \in Nat, t \in Nat : Line(r, t) /\ Current(t) /\ Believed(r, t)
  BY <1>1 DEF ModesFollow
<1>8. InHand = 0 /\ InHand' = 1 /\ reader'.at = "send" /\ reader'.held = Head(down).change
  BY <1>2 DEF InHand
<1>9. PICK n \in Nat : n = r + Count(modes)
  BY <1>3
<1>10. PICK u \in Int : u = Untold
  <2>1. Untold \in Int
    BY <1>4 DEF Untold
  <2>. QED BY <2>1
<1>11. t = n + u /\ Telling(down, u, n) /\ Numbered(modes, r)
  <2>1. r + Count(modes) + InHand = n /\ n + Untold = n + u
    BY ONLY <1>3, <1>8, <1>9, <1>10
  <2>2. t = r + Count(modes) + InHand + Untold
        /\ Telling(down, Untold, r + Count(modes) + InHand) /\ Numbered(modes, r)
    BY <1>7, Zenon DEF Line
  <2>. QED BY <1>10, <2>1, <2>2, Zenon
<1>12. u >= 1 /\ u <= Count(down)
  <2>1. CASE actor.attached
    BY <1>4, <1>10, <2>1 DEF Untold
  <2>2. CASE ~actor.attached
    <3>1. down[Count(down)].say = "detached" /\ u = Count(down) - 1
      BY <1>7, <1>10, <2>2, Zenon DEF Line, Untold
    <3>2. Count(down) # 1
      <4>1. "detached" # "mode"
        OBVIOUS
      <4>. QED BY <1>2, <1>4, <3>1, <4>1, Zenon
    <3>. QED BY ONLY <1>4, <3>1, <3>2
  <2>. QED BY <2>1, <2>2
<1>13. /\ IsNumbered(Head(down).change, n + 1)
       /\ Telling(Tail(down), u - 1, n + 1)
  <2>1. u \in Nat
    BY <1>12
  <2>. QED BY ONLY <1>2, <1>3, <1>9, <1>11, <1>12, <2>1, TellingTail
<1>14. Untold' = u - 1
  <2>1. Count(down') = Count(down) - 1
    BY <1>2, <1>4
  <2>2. CASE actor.attached
    BY ONLY <1>2, <1>4, <1>10, <2>1, <2>2 DEF Untold
  <2>3. CASE ~actor.attached
    BY ONLY <1>2, <1>4, <1>10, <2>1, <2>3 DEF Untold
  <2>. QED BY <2>2, <2>3
<1>15. Line(r, t)'
  <2>1. r + Count(modes') + 1 = n + 1 /\ r + Count(modes') + InHand' = n + 1
    BY <1>2, <1>8, <1>9
  <2>2. t = (n + 1) + (u - 1)
    BY <1>11
  <2>3. t = r + Count(modes') + InHand' + Untold'
    BY <1>14, <2>1, <2>2, Zenon
  <2>4. Numbered(modes', r)
    BY <1>2, <1>11, Zenon
  <2>5. reader'.at = "send" => IsNumbered(reader'.held, r + Count(modes') + 1)
    BY <1>8, <1>13, <2>1, Zenon
  <2>6. Telling(down', Untold', r + Count(modes') + InHand')
    BY <1>2, <1>13, <1>14, <2>1, Zenon
  <2>7. ~actor'.attached => Count(down') > 0 /\ down'[Count(down')].say = "detached"
    <3>. SUFFICES ASSUME ~actor.attached
                  PROVE  Count(Tail(down)) > 0 /\ Tail(down)[Count(Tail(down))].say = "detached"
      BY <1>2
    <3>1. down[Count(down)].say = "detached" /\ u = Count(down) - 1
      BY <1>7, <1>10, Zenon DEF Line, Untold
    <3>2. PICK k \in Nat : k = Count(down) - 1 /\ k >= 1 /\ k \in 1 .. Count(down) - 1
                           /\ k + 1 = Count(down)
      <4>1. Count(down) \in Nat /\ u >= 1 /\ u = Count(down) - 1
        BY <1>4, <1>12, <3>1
      <4>. QED BY ONLY <4>1, u \in Int
    <3>3. Tail(down)[k] = down[k + 1]
      BY <1>4, <3>2, Zenon
    <3>4. Tail(down)[Count(Tail(down))].say = "detached"
      BY <1>4, <3>1, <3>2, <3>3, Zenon
    <3>5. Count(Tail(down)) > 0
      BY ONLY <1>4, <3>2
    <3>. QED BY <3>4, <3>5
  <2>. QED BY <2>3, <2>4, <2>5, <2>6, <2>7, Zenon DEF Line
<1>16. Current(t)' /\ Believed(r, t)'
  BY <1>2, <1>7 DEF Current, Believed
<1>17. ModesFollow'
  BY <1>15, <1>16, Zenon DEF ModesFollow
<1>. QED BY <1>2, <1>6, <1>17, ParsersKept

\* And from there to the channel.
LEMMA ModeSent ==
    ASSUME InputInv, ReaderSends
    PROVE  InputInv'
<1>1. InputTypes /\ ModesFollow
  BY DEF InputInv
<1>2. /\ UNCHANGED <<tty, main, parser, pending, float_mode, stopped, up, down, actor,
                     undecided, behind>>
      /\ reader.at = "send" /\ Len(modes) < ModeCap
      /\ reader' = [at |-> "recv", held |-> NoMode] /\ modes' = Append(modes, reader.held)
  BY DEF ReaderSends
<1>3. modes \in Seq(Changes) /\ reader.held \in Changes /\ Count(modes) \in Nat
  BY <1>1 DEF InputTypes, Count
<1>4. Count(modes') = Count(modes) + 1 /\ modes' \in Seq(Changes)
  BY <1>2, <1>3, QueueAppend
<1>5. InputTypes'
  <2>1. reader' \in [at : {"recv", "send", "ended"}, held : Changes]
    BY <1>2 DEF NoMode, Changes
  <2>2. Len(modes') <= ModeCap
    BY <1>2, <1>3, InputAssumption
  <2>. QED BY ONLY <1>1, <1>2, <1>4, <2>1, <2>2, Zenon DEF InputTypes
<1>6. PICK r \in Nat, t \in Nat : Line(r, t) /\ Current(t) /\ Believed(r, t)
  BY <1>1 DEF ModesFollow
<1>7. InHand = 1 /\ InHand' = 0 /\ Untold' = Untold /\ reader'.at = "recv"
  BY <1>2 DEF InHand, Untold
<1>8. Numbered(modes', r)
  <2>1. Numbered(modes, r) /\ IsNumbered(reader.held, r + Count(modes) + 1)
    BY <1>2, <1>6, Zenon DEF Line
  <2>. QED BY <1>2, <1>3, <2>1, NumberedAppend, Zenon
<1>9. r + Count(modes') + InHand' = r + Count(modes) + InHand
  BY ONLY <1>3, <1>4, <1>7, <1>6
<1>10. Line(r, t)'
  <2>1. t = r + Count(modes') + InHand' + Untold'
        /\ Telling(down', Untold', r + Count(modes') + InHand')
    BY <1>2, <1>6, <1>7, <1>9, Zenon DEF Line
  <2>2. reader'.at # "send"
    BY <1>7
  <2>3. ~actor'.attached => Count(down') > 0 /\ down'[Count(down')].say = "detached"
    BY <1>2, <1>6, Zenon DEF Line
  <2>. QED BY <1>8, <2>1, <2>2, <2>3, Zenon DEF Line
<1>11. Current(t)' /\ Believed(r, t)'
  BY <1>2, <1>6 DEF Current, Believed
<1>12. ModesFollow'
  BY <1>10, <1>11, Zenon DEF ModesFollow
<1>. QED BY <1>2, <1>5, <1>12, ParsersKept

----------------------------------------------------------------------------
(* The steps of the loop that change a mode or move bytes. *)

\* What is held, as a sum of two.
LEMMA HeldIsSum ==
    ASSUME InputTypes
    PROVE  /\ HeldBack = Size(pending) + HeldByParser(parser)
           /\ Size(pending) \in Nat /\ HeldByParser(parser) \in Nat
BY HeldBackIs, Zenon DEF InputTypes, HeldBack

\* A loop that goes on has dropped nothing.
LEMMA UndecidedIsHeld ==
    ASSUME InputInv, behind = 0
    PROVE  undecided = HeldBack
<1>1. HeldBack \in Nat
  BY HeldIsSum DEF InputInv
<1>. QED BY <1>1 DEF InputInv

\* After a step that keeps the types as well.
LEMMA HeldBackIsNumber ==
    ASSUME InputTypes'
    PROVE  HeldBack' \in Nat
<1>1. /\ HeldBack' = Size(pending') + HeldByParser(parser')
      /\ Size(pending') \in Nat /\ HeldByParser(parser') \in Nat
  BY HeldBackIs, Zenon DEF InputTypes, HeldBack
<1>. QED BY <1>1

\* A message of the channel is taken by the loop.
LEMMA ModeDrained ==
    ASSUME InputInv, DrainMode
    PROVE  InputInv'
<1>0. behind = 0
  BY DEF InputInv, DroppedAtTheEnd, DrainMode
<1>1. InputTypes /\ ModesFollow /\ undecided = HeldBack /\ NothingHeldOutside
      /\ SoundParser(parser)
  BY <1>0, UndecidedIsHeld DEF InputInv
<1>. DEFINE m == Head(modes)
            ends == ~m.active /\ float_mode = m.mode
<1>2. /\ UNCHANGED <<tty, main, parser, stopped, reader, down, actor, behind>>
      /\ modes # <<>> /\ modes' = Tail(modes)
      /\ float_mode' = IF m.active THEN m.mode ELSE IF ends THEN 0 ELSE float_mode
      /\ pending' = IF m.active \/ ends THEN <<>> ELSE pending
      /\ up' = IF ends /\ pending # <<>>
               THEN Append(up, [do |-> "input", bytes |-> pending]) ELSE up
      /\ undecided' = IF ends THEN undecided - Len(pending) ELSE undecided
  BY DEF DrainMode
<1>3. /\ modes \in Seq(Changes) /\ pending \in Seq(Bytes) /\ float_mode \in Nat
      /\ up \in Seq(UpMessages) /\ Len(modes) <= ModeCap
  BY <1>1 DEF InputTypes
<1>4. m \in Changes /\ m.mode \in Nat /\ m.active \in BOOLEAN
  <2>1. m \in Changes
    BY <1>2, <1>3, QueueTail, Zenon
  <2>. HIDE DEF m
  <2>. QED BY <2>1 DEF Changes
<1>5. Tail(modes) \in Seq(Changes) /\ Len(Tail(modes)) <= ModeCap
  BY <1>2, <1>3, InputAssumption
<1>6. PICK r \in Nat, t \in Nat : Line(r, t) /\ Current(t) /\ Believed(r, t)
  BY <1>1 DEF ModesFollow
<1>7. IsNumbered(m, r + 1) /\ Numbered(modes', r + 1)
  <2>1. Numbered(modes, r)
    BY <1>6, Zenon DEF Line
  <2>. QED BY <1>2, <1>3, <2>1, NumberedTail
<1>. HIDE DEF m
<1>8. float_mode # 0 => r = 2 * float_mode - 1
  BY <1>6, Zenon DEF Believed
<1>9. ~(ends /\ m.active)
  OBVIOUS
<1>10. m.active \/ (~ends /\ ~m.active) => float_mode = 0 /\ pending = <<>>
  <2>1. ASSUME m.active PROVE float_mode = 0
    <3>1. r + 1 = 2 * m.mode - 1
      BY <1>7, <2>1 DEF IsNumbered
    <3>2. PICK j \in Nat, k \in Nat : j = m.mode /\ k = float_mode
      BY <1>3, <1>4
    <3>3. r + 1 = 2 * j - 1 /\ (k # 0 => r = 2 * k - 1)
      BY <1>8, <3>1, <3>2, Zenon
    <3>4. k = 0
      BY ONLY <3>3, j \in Nat, k \in Nat, r \in Nat
    <3>. QED BY <3>2, <3>4, Zenon
  <2>2. ASSUME ~ends, ~m.active PROVE float_mode = 0
    <3>1. r + 1 = 2 * m.mode
      BY <1>7, <2>2 DEF IsNumbered
    <3>2. float_mode # m.mode
      BY <2>2
    <3>. QED BY ONLY <1>3, <1>4, <1>8, <3>1, <3>2, r \in Nat
  <2>. QED BY <1>1, <2>1, <2>2 DEF NothingHeldOutside
<1>11. InputTypes'
  <2>1. float_mode' \in Nat
    BY <1>2, <1>3, <1>4
  <2>2. pending' \in Seq(Bytes)
    BY <1>2, <1>3
  <2>3. up' \in Seq(UpMessages)
    <3>1. PICK x : x = [do |-> "input", bytes |-> pending]
      OBVIOUS
    <3>2. x \in UpMessages
      BY <1>3, <3>1 DEF UpMessages, InputCommands
    <3>3. Append(up, x) \in Seq(UpMessages)
      BY <1>3, <3>2, EndingAppend
    <3>4. up' = Append(up, x) \/ up' = up
      BY <1>2, <3>1, Zenon
    <3>. QED BY <1>3, <3>3, <3>4, Zenon
  <2>4. /\ UNCHANGED <<tty, main, parser, stopped, reader, down, actor, behind>>
        /\ modes' \in Seq(Changes) /\ Len(modes') <= ModeCap
    BY <1>2, <1>5, Zenon
  <2>. QED BY ONLY <1>1, <2>1, <2>2, <2>3, <2>4 DEF InputTypes
<1>12. undecided' = HeldBack'
  <2>1. HeldBack' = Size(pending') + HeldByParser(parser')
    BY <1>11, HeldBackIs, Zenon DEF InputTypes, HeldBack
  <2>2. HeldBack = Size(pending) + HeldByParser(parser)
        /\ Size(pending) \in Nat /\ HeldByParser(parser) \in Nat
    BY <1>1, HeldIsSum
  <2>3. CASE ends
    <3>1. pending' = <<>> /\ undecided' = undecided - Size(pending) /\ parser' = parser
      BY <1>2, <2>3 DEF Size
    <3>2. Size(pending') = 0
      BY <3>1, Sizes, Zenon
    <3>3. HeldByParser(parser') = HeldByParser(parser)
      BY <3>1, Zenon
    <3>. QED BY ONLY <1>1, <2>1, <2>2, <3>1, <3>2, <3>3
  <2>4. CASE ~ends
    <3>1. pending' = pending /\ undecided' = undecided /\ parser' = parser
      BY <1>2, <1>10, <2>4
    <3>. QED BY <1>1, <2>1, <2>2, <3>1, Zenon
  <2>. QED BY <2>3, <2>4
<1>13. NothingHeldOutside'
  BY <1>1, <1>2, <1>10 DEF NothingHeldOutside
<1>14. Line(r + 1, t)'
  <2>1. Count(modes) \in Nat /\ Count(modes') = Count(modes) - 1
    BY <1>2, <1>3, QueueTail
  <2>2. InHand' = InHand /\ Untold' = Untold /\ InHand \in Nat
    BY <1>2 DEF InHand, Untold
  <2>3. (r + 1) + Count(modes') = r + Count(modes)
    BY ONLY <2>1, r \in Nat
  <2>4. (r + 1) + Count(modes') + InHand' + Untold' = r + Count(modes) + InHand + Untold
        /\ (r + 1) + Count(modes') + InHand' = r + Count(modes) + InHand
        /\ (r + 1) + Count(modes') + 1 = r + Count(modes) + 1
    BY <2>2, <2>3, Zenon
  <2>5. t = (r + 1) + Count(modes') + InHand' + Untold'
    BY <1>6, <2>4, Zenon DEF Line
  <2>6. reader'.at = "send" => IsNumbered(reader'.held, (r + 1) + Count(modes') + 1)
    BY <1>2, <1>6, <2>4, Zenon DEF Line
  <2>7. Telling(down', Untold', (r + 1) + Count(modes') + InHand')
    BY <1>2, <1>6, <2>2, <2>4, Zenon DEF Line
  <2>8. ~actor'.attached => Count(down') > 0 /\ down'[Count(down')].say = "detached"
    BY <1>2, <1>6, Zenon DEF Line
  <2>. QED BY <1>7, <2>5, <2>6, <2>7, <2>8, Zenon DEF Line
<1>15. Current(t)'
  BY <1>2, <1>6 DEF Current
<1>16. float_mode' # 0 => r + 1 = 2 * float_mode' - 1
  <2>. SUFFICES ASSUME float_mode' # 0 PROVE r + 1 = 2 * float_mode' - 1
    OBVIOUS
  <2>1. m.active /\ float_mode' = m.mode
    BY <1>2, <1>10
  <2>. QED BY <1>7, <2>1 DEF IsNumbered
<1>17. ~(actor'.attached /\ actor'.modal # 0 /\ float_mode' = 0 /\ r + 1 = t)
  <2>. SUFFICES ASSUME actor.attached, actor.modal # 0, float_mode' = 0, r + 1 = t
                PROVE  FALSE
    BY <1>2
  <2>1. PICK k \in Nat : k = actor.next /\ t = 2 * k - 1
    BY <1>6, ActorIs DEF Current
  <2>2. CASE m.active
    <3>1. m.mode = 0 /\ r + 1 = 2 * m.mode - 1
      BY <1>2, <1>7, <2>2 DEF IsNumbered
    <3>. QED BY ONLY <3>1, r \in Nat
  <2>3. CASE ~m.active
    <3>1. r + 1 = 2 * m.mode
      BY <1>7, <2>3 DEF IsNumbered
    <3>2. PICK j \in Nat : j = m.mode
      BY <1>4
    <3>3. 2 * j = 2 * k - 1
      BY <2>1, <3>1, <3>2
    <3>. QED BY ONLY <3>3, j \in Nat, k \in Nat
  <2>. QED BY <2>2, <2>3
<1>18. Believed(r + 1, t)'
  BY <1>16, <1>17, Zenon DEF Believed
<1>19. ModesFollow'
  <2>1. r + 1 \in Nat
    OBVIOUS
  <2>. QED BY <1>14, <1>15, <1>18, <2>1, Zenon DEF ModesFollow
<1>20. SoundParser(parser)'
  BY <1>1, <1>2 DEF SoundParser
<1>21. undecided' = HeldBack' + behind' /\ DroppedAtTheEnd'
  <2>1. behind' = 0
    BY <1>0, <1>2
  <2>2. HeldBack' \in Nat
    BY <1>11, HeldBackIsNumber
  <2>3. undecided' = HeldBack' + behind'
    <3>1. PICK h \in Nat : h = HeldBack'
      BY <2>2, Zenon
    <3>2. h = h + 0
      BY ONLY h \in Nat
    <3>. QED BY <1>12, <2>1, <3>1, <3>2, Zenon
  <2>4. DroppedAtTheEnd'
    BY <2>1, Zenon DEF DroppedAtTheEnd
  <2>. QED BY <2>3, <2>4
<1>. QED BY <1>11, <1>13, <1>19, <1>20, <1>21 DEF InputInv

\* The loop has ended the mode itself.
LEMMA LoopEnds ==
    ASSUME ModesFollow, float_mode \in Nat, actor.modal \in Nat,
           UNCHANGED <<modes, down, reader, actor>>,
           float_mode' = 0, float_mode # 0 => Ending(up', float_mode),
           Ending(up, actor.modal) => Ending(up', actor.modal)
    PROVE  ModesFollow'
<1>1. PICK r \in Nat, t \in Nat : Line(r, t) /\ Current(t) /\ Believed(r, t)
  BY DEF ModesFollow
<1>2. Untold' = Untold /\ InHand' = InHand
  BY DEF Untold, InHand
<1>3. Line(r, t)'
  BY <1>1, <1>2 DEF Line
<1>4. Current(t)'
  BY <1>1 DEF Current
<1>5. ASSUME actor.attached, actor.modal # 0, r = t PROVE Ending(up', actor.modal)
  <2>1. CASE float_mode = 0
    BY <1>1, <1>5, <2>1, Zenon DEF Believed
  <2>2. CASE float_mode # 0
    <3>1. t = 2 * actor.modal - 1 /\ r = 2 * float_mode - 1
      BY <1>1, <1>5, <2>2, Zenon DEF Believed, Current
    <3>2. PICK j \in Nat, k \in Nat : j = float_mode /\ k = actor.modal
      OBVIOUS
    <3>3. 2 * k - 1 = 2 * j - 1
      BY <1>5, <3>1, <3>2, Zenon
    <3>4. j = k
      BY ONLY <3>3, j \in Nat, k \in Nat
    <3>. QED BY <2>2, <3>2, <3>4, Zenon
  <2>. QED BY <2>1, <2>2
<1>6. Believed(r, t)'
  BY <1>5, Zenon DEF Believed
<1>. QED BY <1>3, <1>4, <1>6, Zenon DEF ModesFollow

\* A resize is sent or not.
LEMMA ResizeType ==
    ASSUME NEW resized
    PROVE  Resize(resized) \in Seq(UpMessages)
<1>1. PICK x \in UpMessages : x = [do |-> "resize"]
  BY DEF UpMessages
<1>2. Resize(resized) = <<x>> \/ Resize(resized) = <<>>
  BY <1>1, Zenon DEF Resize
<1>3. <<x>> \in Seq(UpMessages) /\ <<>> \in Seq(UpMessages)
  BY ONLY x \in UpMessages
<1>. QED BY <1>2, <1>3, Zenon

\* The escape that is alone cancels the edit, or there is nothing to do.
LEMMA TimedOut ==
    ASSUME InputInv, NEW resized \in BOOLEAN, ReadTimesOut(resized)
    PROVE  InputInv'
<1>0. behind = 0 /\ main = "read"
  BY DEF InputInv, DroppedAtTheEnd, ReadTimesOut
<1>1. InputTypes /\ ModesFollow /\ undecided = HeldBack /\ NothingHeldOutside
      /\ SoundParser(parser)
  BY <1>0, UndecidedIsHeld DEF InputInv
<1>2. /\ UNCHANGED <<tty, parser, stopped, reader, modes, down, actor, behind>>
      /\ main' = "drain"
  BY DEF ReadTimesOut
<1>3. /\ up \in Seq(UpMessages) /\ pending \in Seq(Bytes) /\ float_mode \in Nat
      /\ actor.modal \in Nat
  BY <1>1, ActorIs DEF InputTypes
<1>4. PICK more \in Seq(UpMessages) : more = Resize(resized)
  BY ResizeType
<1>5. CASE expire
  <2>1. PICK x \in UpMessages : x = EditMessage("cancel")
    BY <1>3 DEF EditMessage, UpMessages, Edits
  <2>2. /\ up' = Append(up, x) \o more /\ pending' = <<>> /\ float_mode' = 0
        /\ undecided' = undecided - 1 /\ pending = <<"Esc">>
    BY <1>4, <1>5, <2>1, Zenon DEF ReadTimesOut, expire
  <2>3. Append(up, x) \in Seq(UpMessages) /\ up' \in Seq(UpMessages)
        /\ (Ending(up, actor.modal) => Ending(up', actor.modal))
    BY <1>3, <2>2, EndingAppend, EndingMore, Zenon
  <2>4. Ending(up', float_mode)
    <3>1. x.do = "edit" /\ x.mode = float_mode /\ x.command # "step"
      BY <2>1 DEF EditMessage
    <3>2. Len(up) + 1 \in DOMAIN Append(up, x) /\ Append(up, x)[Len(up) + 1] = x
      BY <1>3
    <3>3. Ending(Append(up, x), float_mode)
      BY <3>1, <3>2, Zenon DEF Ending
    <3>. QED BY <2>2, <2>3, <3>3, EndingMore, Zenon
  <2>5. InputTypes'
    <3>1. pending' \in Seq(Bytes) /\ float_mode' \in Nat
      BY <2>2
    <3>2. main' \in {"drain", "read", "ack", "join", "exited"}
      BY <1>2
    <3>. QED BY ONLY <1>1, <1>2, <2>3, <3>1, <3>2, Zenon DEF InputTypes
  <2>6. UNCHANGED <<modes, down, reader, actor>>
    BY <1>2
  <2>7. ModesFollow'
    <3>1. float_mode' = 0
      BY <2>2
    <3>2. float_mode # 0 => Ending(up', float_mode)
      BY <2>4
    <3>3. Ending(up, actor.modal) => Ending(up', actor.modal)
      BY <2>3, Zenon
    <3>. QED BY ONLY <1>1, <1>3, <3>1, <3>2, <3>3, <2>6, LoopEnds
  <2>8. undecided' = HeldBack'
    <3>1. HeldBack' = Size(pending') + HeldByParser(parser')
      BY <2>5, HeldBackIs, Zenon DEF InputTypes, HeldBack
    <3>2. HeldBack = Size(pending) + HeldByParser(parser) /\ HeldByParser(parser) \in Nat
      BY <1>1, HeldIsSum
    <3>3. Size(pending') = 0 /\ Size(pending) = 1
      BY <2>2 DEF Size
    <3>4. HeldByParser(parser') = HeldByParser(parser)
      BY <1>2, Zenon
    <3>. QED BY ONLY <1>1, <2>2, <3>1, <3>2, <3>3, <3>4
  <2>9. NothingHeldOutside' /\ SoundParser(parser)'
    BY <1>1, <1>2, <2>2 DEF NothingHeldOutside, SoundParser
  <2>10. undecided' = HeldBack' + behind' /\ DroppedAtTheEnd'
    <3>1. behind' = 0 /\ HeldBack' \in Nat
      BY <1>0, <1>2, <2>5, HeldBackIsNumber
    <3>2. undecided' = HeldBack' + behind'
      <4>1. PICK h \in Nat : h = HeldBack'
        BY <3>1, Zenon
      <4>2. h = h + 0
        BY ONLY h \in Nat
      <4>. QED BY <2>8, <3>1, <4>1, <4>2, Zenon
    <3>3. DroppedAtTheEnd'
      BY <3>1, Zenon DEF DroppedAtTheEnd
    <3>. QED BY <3>2, <3>3
  <2>. QED BY <2>5, <2>7, <2>9, <2>10 DEF InputInv
<1>6. CASE ~expire
  <2>1. up' = up \o more /\ UNCHANGED <<pending, float_mode, undecided>>
    BY <1>4, <1>6 DEF ReadTimesOut
  <2>2. up' \in Seq(UpMessages)
        /\ (Ending(up, actor.modal) => Ending(up', actor.modal))
    BY <1>3, <2>1, EndingMore, Zenon
  <2>3. main' \in {"drain", "read", "ack", "join", "exited"}
    BY <1>2
  <2>4. InputTypes'
    BY ONLY <1>1, <1>2, <2>1, <2>2, <2>3, Zenon DEF InputTypes
  <2>5. /\ UNCHANGED <<modes, down, float_mode>> /\ reader' = reader
        /\ actor'.attached = actor.attached /\ actor'.modal = actor.modal
        /\ actor'.next = actor.next
    BY <1>2, <2>1
  <2>6. ModesFollow'
    BY ONLY <1>1, <2>2, <2>5, ModesKept
  <2>7. UNCHANGED <<parser, pending, float_mode, undecided, behind>> /\ main = "read"
    BY <1>0, <1>2, <2>1
  <2>. QED BY <2>4, <2>6, <2>7, ParsersKept
<1>. QED BY <1>5, <1>6

----------------------------------------------------------------------------
(* A read. *)

\* A set of numbers that is not empty has a least one.
LEMMA LeastOf ==
    ASSUME NEW S \in SUBSET Nat, S # {}
    PROVE  \E i \in S : \A j \in S : i <= j
<1>1. PICK x \in S : \A y \in S : ~(<<y, x>> \in OpToRel(<, Nat))
  BY NatLessThanWellFounded, WFMin, ZenonT(30)
<1>2. ASSUME NEW y \in S PROVE x <= y
  <2>1. <<y, x>> \notin OpToRel(<, Nat)
    BY <1>1, Zenon
  <2>. QED BY <2>1 DEF OpToRel
<1>. QED BY <1>2

\* The loop acts on a first part of the bytes, which ends with a detach unless it
\* is all of them.
LEMMA UpToDetachIs ==
    ASSUME NEW p, NEW bytes \in Seq(Bytes), NEW followed, followed = UpToDetach(p, bytes)
    PROVE  /\ followed \in Seq(Bytes)
           /\ Len(followed) \in Nat /\ Len(bytes) \in Nat /\ Len(followed) <= Len(bytes)
           /\ Len(followed) # Len(bytes) => Detaches(feed(p, followed).out)
<1>. DEFINE detached == {i \in DOMAIN bytes :
                           bytes[i] = "d" /\ Detaches(feed(p, SubSeq(bytes, 1, i)).out)}
            k == CHOOSE i \in detached : \A j \in detached : i <= j
<1>1. CASE detached = {}
  <2>1. followed = bytes
    BY <1>1, Zenon DEF UpToDetach
  <2>. QED BY <2>1
<1>2. CASE detached # {}
  <2>1. detached \in SUBSET Nat /\ detached \subseteq 1 .. Len(bytes)
    <3>1. DOMAIN bytes = 1 .. Len(bytes) /\ 1 .. Len(bytes) \in SUBSET Nat
      OBVIOUS
    <3>. QED BY <3>1, Zenon
  <2>2. k \in detached
    BY <1>2, <2>1, LeastOf, Zenon
  <2>3. followed = SubSeq(bytes, 1, k)
    BY <1>2, Zenon DEF UpToDetach
  <2>4. k \in 1 .. Len(bytes) /\ Detaches(feed(p, SubSeq(bytes, 1, k)).out)
    BY <2>1, <2>2, Zenon
  <2>. HIDE DEF k, detached
  <2>5. SubSeq(bytes, 1, k) \in Seq(Bytes) /\ Len(SubSeq(bytes, 1, k)) = k /\ Len(bytes) \in Nat
    BY <2>4
  <2>. QED BY <2>3, <2>4, <2>5
<1>. QED BY <1>1, <1>2

\* The edits of a read are for the mode the loop is in.
LEMMA EditsType ==
    ASSUME float_mode \in Nat, NEW commands \in Seq({"commit", "step"})
    PROVE  LET edits == [i \in DOMAIN commands |-> EditMessage(commands[i])]
           IN  /\ edits \in Seq(UpMessages)
               /\ (\E i \in DOMAIN commands : commands[i] = "commit")
                    => Ending(edits, float_mode)
<1>. DEFINE edits == [i \in DOMAIN commands |-> EditMessage(commands[i])]
<1>1. ASSUME NEW i \in DOMAIN commands
      PROVE  EditMessage(commands[i]) \in UpMessages
  <2>1. commands[i] \in {"commit", "step"}
    OBVIOUS
  <2>. QED BY <2>1 DEF EditMessage, UpMessages, Edits
<1>2. edits \in Seq(UpMessages)
  <2>1. DOMAIN commands = 1 .. Len(commands) /\ Len(commands) \in Nat
    OBVIOUS
  <2>2. edits \in [1 .. Len(commands) -> UpMessages]
    BY <1>1, <2>1, Zenon
  <2>. HIDE DEF edits
  <2>. QED BY <2>1, <2>2
<1>3. ASSUME NEW i \in DOMAIN commands, commands[i] = "commit"
      PROVE  Ending(edits, float_mode)
  <2>1. i \in DOMAIN edits /\ edits[i] = EditMessage("commit")
    BY <1>3
  <2>2. EditMessage("commit").do = "edit" /\ EditMessage("commit").mode = float_mode
        /\ EditMessage("commit").command # "step"
    BY DEF EditMessage
  <2>. HIDE DEF edits
  <2>. QED BY <2>1, <2>2, Zenon DEF Ending
<1>. QED BY <1>2, <1>3

\* What the parsers make of a read, byte for byte.
LEMMA ParsedAccounts ==
    ASSUME InputTypes, SoundParser(parser), NEW bytes \in Seq(Bytes),
           NEW parsed, parsed = Parsed(bytes)
    PROVE  /\ parsed.fed.parser \in Parsers /\ SoundParser(parsed.fed.parser)
           /\ parsed.fed.out \in Seq(InputCommands) /\ parsed.pending \in Seq(Bytes)
           /\ parsed.commands \in Seq({"commit", "step"})
           /\ parsed.used \in Nat /\ parsed.fed.used \in Nat
           /\ InputBytes(parsed.fed.out) \in Nat /\ parsed.behind \in Nat
           /\ parsed.used + parsed.fed.used + InputBytes(parsed.fed.out)
                + Size(parsed.pending) + HeldByParser(parsed.fed.parser) + parsed.behind
                = Size(bytes) + Size(pending) + HeldByParser(parser)
           /\ (\E i \in DOMAIN parsed.commands : parsed.commands[i] = "commit")
                => parsed.pending = <<>>
           /\ float_mode = 0 => parsed.pending = pending
           /\ parsed.behind # 0 => Detaches(parsed.fed.out)
<1>1. parser \in Parsers /\ pending \in Seq(Bytes)
  BY DEF InputTypes
<1>2. /\ HeldByParser(parser) \in Nat /\ Size(pending) \in Nat /\ Size(bytes) \in Nat
  BY <1>1, HeldType, Sizes, Zenon
<1>. DEFINE scanned == IF float_mode = 0
                       THEN [commands |-> <<>>, used |-> 0, pending |-> pending,
                             forward |-> bytes]
                       ELSE scan(pending, bytes)
            followed == UpToDetach(parser, scanned.forward)
<1>3. /\ scanned.commands \in Seq({"commit", "step"})
      /\ scanned.forward \in Seq(Bytes) /\ scanned.pending \in Seq(Bytes)
      /\ scanned.used \in Nat
      /\ scanned.used + Size(scanned.forward) + Size(scanned.pending)
           = Size(bytes) + Size(pending)
      /\ (\E i \in DOMAIN scanned.commands : scanned.commands[i] = "commit")
           => scanned.pending = <<>>
      /\ float_mode = 0 => scanned.pending = pending
  <2>1. CASE float_mode = 0
    <3>1. /\ scanned.forward = bytes /\ scanned.used = 0
          /\ scanned.pending = pending /\ scanned.commands = <<>>
      BY <2>1
    <3>2. 0 + Size(bytes) + Size(pending) = Size(bytes) + Size(pending) /\ 0 \in Nat
      BY ONLY <1>2
    <3>. HIDE DEF scanned
    <3>3. scanned.commands \in Seq({"commit", "step"})
          /\ ~(\E i \in DOMAIN scanned.commands : scanned.commands[i] = "commit")
      BY <3>1
    <3>. QED BY <1>1, <3>1, <3>2, <3>3, Zenon
  <2>2. CASE float_mode # 0
    <3>1. scanned = scan(pending, bytes)
      BY <2>2
    <3>. HIDE DEF scanned
    <3>. QED BY <1>1, <2>2, <3>1, ScanAccounts, Zenon
  <2>. QED BY <2>1, <2>2
<1>10. /\ parsed.commands = scanned.commands /\ parsed.used = scanned.used
       /\ parsed.pending = scanned.pending /\ parsed.fed = feed(parser, followed)
       /\ parsed.behind = Len(scanned.forward) - Len(followed)
  <2>1. Parsed(bytes) = [commands |-> scanned.commands, used |-> scanned.used,
                         pending |-> scanned.pending, fed |-> feed(parser, followed),
                         behind |-> Len(scanned.forward) - Len(followed)]
    BY Zenon DEF Parsed
  <2>. HIDE DEF scanned, followed
  <2>. QED BY <2>1
<1>. HIDE DEF scanned
<1>11. PICK used \in Nat, total \in Nat :
         used = scanned.used /\ total = Size(scanned.forward)
  BY <1>3, Sizes, Zenon
<1>12. /\ followed \in Seq(Bytes)
       /\ Len(followed) \in Nat /\ Len(scanned.forward) \in Nat
       /\ Len(followed) <= Len(scanned.forward)
       /\ Len(followed) # Len(scanned.forward) => Detaches(feed(parser, followed).out)
  BY <1>3, UpToDetachIs, Zenon
<1>. HIDE DEF followed
<1>13. /\ parsed.behind \in Nat /\ Size(followed) + parsed.behind = total
       /\ parsed.behind # 0 => Detaches(parsed.fed.out)
  <2>1. PICK m \in Nat, l \in Nat : m = Len(scanned.forward) /\ l = Len(followed)
    BY <1>12
  <2>2. parsed.behind = m - l /\ l <= m /\ Size(followed) = l /\ total = m
    BY <1>10, <1>11, <1>12, <2>1, Zenon DEF Size
  <2>3. m # l => Detaches(parsed.fed.out)
    BY <1>10, <1>12, <2>1, Zenon
  <2>. QED BY ONLY <2>2, <2>3, m \in Nat, l \in Nat
<1>4. /\ parsed.fed.parser \in Parsers /\ SoundParser(parsed.fed.parser)
      /\ parsed.fed.out \in Seq(InputCommands) /\ parsed.fed.used \in Nat
      /\ InputBytes(parsed.fed.out) \in Nat
      /\ parsed.fed.used + InputBytes(parsed.fed.out) + HeldByParser(parsed.fed.parser)
           = Size(followed) + HeldByParser(parser)
  <2>. DEFINE fed == feed(parser, followed)
  <2>1. /\ fed.parser \in Parsers /\ SoundParser(fed.parser)
        /\ fed.out \in Seq(InputCommands) /\ fed.used \in Nat
        /\ InputBytes(fed.out) \in Nat
        /\ fed.used + InputBytes(fed.out) + HeldByParser(fed.parser)
             = Size(followed) + HeldByParser(parser)
    BY <1>1, <1>12, FeedAccounts, Zenon
  <2>2. parsed.fed = fed
    BY <1>10, Zenon
  <2>. HIDE DEF fed
  <2>. QED BY <2>1, <2>2, Zenon
<1>5. PICK a \in Nat, b \in Nat, c \in Nat, d \in Nat, e \in Nat, k \in Nat :
        /\ a = parsed.fed.used /\ b = InputBytes(parsed.fed.out)
        /\ c = HeldByParser(parsed.fed.parser) /\ d = Size(parsed.pending)
        /\ e = Size(followed) /\ k = parsed.behind
  BY <1>3, <1>4, <1>10, <1>12, <1>13, HeldType, Sizes, Zenon
<1>6. PICK f \in Nat, g \in Nat, h \in Nat :
        f = HeldByParser(parser) /\ g = Size(pending) /\ h = Size(bytes)
  BY <1>2
<1>7. a + b + c = e + f /\ used + total + d = h + g /\ e + k = total
  BY <1>3, <1>4, <1>5, <1>6, <1>10, <1>11, <1>13, Zenon
<1>8. used + a + b + d + c + k = h + g + f
  BY ONLY <1>7, used \in Nat, a \in Nat, b \in Nat, c \in Nat, d \in Nat, e \in Nat,
          f \in Nat, g \in Nat, h \in Nat, k \in Nat
<1>9. parsed.used + parsed.fed.used + InputBytes(parsed.fed.out)
        + Size(parsed.pending) + HeldByParser(parsed.fed.parser) + parsed.behind
        = Size(bytes) + Size(pending) + HeldByParser(parser)
  BY <1>5, <1>6, <1>8, <1>10, <1>11, Zenon
<1>. QED BY <1>3, <1>4, <1>9, <1>10, <1>13, Zenon

\* A read, with all that the parsers make of it.
LEMMA BytesRead ==
    ASSUME InputInv, NEW n, NEW resized \in BOOLEAN, Read(n, resized)
    PROVE  InputInv'
<1>0. behind = 0
  BY DEF InputInv, DroppedAtTheEnd, Read
<1>1. InputTypes /\ ModesFollow /\ undecided = HeldBack /\ NothingHeldOutside
      /\ SoundParser(parser)
  BY <1>0, UndecidedIsHeld DEF InputInv
<1>. DEFINE bytes == SubSeq(tty.bytes, 1, n)
<1>2. /\ n \in 1 .. Len(tty.bytes) /\ UNCHANGED <<stopped, reader, modes, down, actor>>
  BY DEF Read
<1>3. PICK parsed :
        /\ parsed = Parsed(bytes)
        /\ tty' = [tty EXCEPT !.bytes = SubSeq(@, n + 1, Len(@))]
        /\ parser' = parsed.fed.parser
        /\ pending' = parsed.pending
        /\ up' = up \o [i \in DOMAIN parsed.commands |-> EditMessage(parsed.commands[i])]
                    \o parsed.fed.out \o Resize(resized)
        /\ undecided' = undecided + n - parsed.used - parsed.fed.used
                                  - InputBytes(parsed.fed.out)
        /\ behind' = parsed.behind
        /\ float_mode' = IF "commit" \in ToSet(parsed.commands) THEN 0 ELSE float_mode
        /\ main' = IF Detaches(parsed.fed.out) THEN "ack" ELSE "drain"
  BY Zenon DEF Read
<1>4. tty \in [bytes : Seq(Bytes), eof : BOOLEAN]
  BY <1>1 DEF InputTypes
<1>5. bytes \in Seq(Bytes) /\ Size(bytes) = n /\ n \in Nat
  BY <1>2, <1>4 DEF Size
<1>6. tty' \in [bytes : Seq(Bytes), eof : BOOLEAN]
  <2>1. SubSeq(tty.bytes, n + 1, Len(tty.bytes)) \in Seq(Bytes)
    BY <1>2, <1>4
  <2>2. tty' = [tty EXCEPT !.bytes = SubSeq(tty.bytes, n + 1, Len(tty.bytes))]
    BY <1>3
  <2>. QED BY ONLY <1>4, <2>1, <2>2
<1>. HIDE DEF bytes
<1>7. /\ parsed.fed.parser \in Parsers /\ SoundParser(parsed.fed.parser)
      /\ parsed.fed.out \in Seq(InputCommands) /\ parsed.pending \in Seq(Bytes)
      /\ parsed.commands \in Seq({"commit", "step"})
      /\ parsed.used \in Nat /\ parsed.fed.used \in Nat
      /\ InputBytes(parsed.fed.out) \in Nat /\ parsed.behind \in Nat
      /\ parsed.used + parsed.fed.used + InputBytes(parsed.fed.out)
           + Size(parsed.pending) + HeldByParser(parsed.fed.parser) + parsed.behind
           = Size(bytes) + Size(pending) + HeldByParser(parser)
      /\ (\E i \in DOMAIN parsed.commands : parsed.commands[i] = "commit")
           => parsed.pending = <<>>
      /\ float_mode = 0 => parsed.pending = pending
      /\ parsed.behind # 0 => Detaches(parsed.fed.out)
  BY <1>1, <1>3, <1>5, ParsedAccounts, Zenon
<1>8. float_mode \in Nat /\ up \in Seq(UpMessages)
  BY <1>1 DEF InputTypes
<1>9. PICK edits : edits = [i \in DOMAIN parsed.commands |-> EditMessage(parsed.commands[i])]
  OBVIOUS
<1>10. PICK sent, more : sent = parsed.fed.out /\ more = Resize(resized)
  OBVIOUS
<1>11. /\ edits \in Seq(UpMessages) /\ sent \in Seq(UpMessages) /\ more \in Seq(UpMessages)
       /\ (\E i \in DOMAIN parsed.commands : parsed.commands[i] = "commit")
            => Ending(edits, float_mode)
  <2>1. sent \in Seq(UpMessages) /\ more \in Seq(UpMessages)
    <3>1. parsed.fed.out \in Seq(UpMessages)
      BY <1>7 DEF UpMessages
    <3>. QED BY <1>10, <3>1, ResizeType, Zenon
  <2>. QED BY <1>7, <1>8, <1>9, <2>1, EditsType, Zenon
<1>12. up' = ((up \o edits) \o sent) \o more
  BY <1>3, <1>9, <1>10, Zenon
<1>13. \A mode : /\ Ending(up, mode) => Ending(up', mode)
                 /\ Ending(edits, mode) => Ending(up', mode)
  <2>. TAKE mode
  <2>1. /\ up \o edits \in Seq(UpMessages)
        /\ (Ending(up, mode) \/ Ending(edits, mode)) => Ending(up \o edits, mode)
    BY <1>8, <1>11, EndingMore, Zenon
  <2>2. /\ (up \o edits) \o sent \in Seq(UpMessages)
        /\ Ending(up \o edits, mode) => Ending((up \o edits) \o sent, mode)
    BY <1>11, <2>1, EndingMore, Zenon
  <2>3. Ending((up \o edits) \o sent, mode) => Ending(up', mode)
    BY <1>11, <1>12, <2>2, EndingMore, Zenon
  <2>. QED BY <2>1, <2>2, <2>3
<1>14. up' \in Seq(UpMessages)
  BY ONLY <1>8, <1>11, <1>12
<1>15. (\E i \in DOMAIN parsed.commands : parsed.commands[i] = "commit")
         <=> "commit" \in ToSet(parsed.commands)
  BY Zenon DEF ToSet
<1>16. InputTypes'
  <2>1. float_mode' \in Nat /\ main' \in {"drain", "read", "ack", "join", "exited"}
    BY ONLY <1>3, <1>8
  <2>2. parser' \in Parsers /\ pending' \in Seq(Bytes) /\ behind' \in Nat
    BY <1>3, <1>7, Zenon
  <2>. QED BY ONLY <1>1, <1>2, <1>6, <1>14, <2>1, <2>2, Zenon DEF InputTypes
<1>17. undecided' = HeldBack' + behind'
  <2>1. HeldBack' = Size(pending') + HeldByParser(parser')
    BY <1>16, HeldBackIs, Zenon DEF InputTypes, HeldBack
  <2>2. HeldBack = Size(pending) + HeldByParser(parser)
        /\ Size(pending) \in Nat /\ HeldByParser(parser) \in Nat
    BY <1>1, HeldIsSum
  <2>3. PICK a \in Nat, b \in Nat, c \in Nat, d \in Nat, e \in Nat, k \in Nat :
          /\ a = parsed.used /\ b = parsed.fed.used /\ c = InputBytes(parsed.fed.out)
          /\ d = Size(pending') /\ e = HeldByParser(parser') /\ k = behind'
    BY <1>3, <1>7, HeldType, Sizes, Zenon
  <2>4. PICK f \in Nat, g \in Nat : f = Size(pending) /\ g = HeldByParser(parser)
    BY <2>2
  <2>5. a + b + c + d + e + k = n + f + g
    BY <1>3, <1>5, <1>7, <2>3, <2>4, Zenon
  <2>6. undecided = f + g
    BY <1>1, <2>2, <2>4, Zenon
  <2>7. undecided' = undecided + n - a - b - c
    BY <1>3, <2>3, Zenon
  <2>8. undecided' = (d + e) + k
    BY ONLY <2>5, <2>6, <2>7, <1>5, a \in Nat, b \in Nat, c \in Nat, d \in Nat, e \in Nat,
            k \in Nat, f \in Nat, g \in Nat
  <2>. QED BY <2>1, <2>3, <2>8, Zenon
<1>18. ModesFollow' /\ NothingHeldOutside'
  <2>1. CASE "commit" \in ToSet(parsed.commands)
    <3>1. float_mode' = 0 /\ pending' = <<>>
      BY <1>3, <1>7, <1>15, <2>1, Zenon
    <3>2. Ending(edits, float_mode)
      BY <1>11, <1>15, <2>1, Zenon
    <3>3. /\ Ending(up, actor.modal) => Ending(up', actor.modal)
          /\ float_mode # 0 => Ending(up', float_mode)
      BY <1>13, <3>2, Zenon
    <3>4. UNCHANGED <<modes, down, reader, actor>> /\ actor.modal \in Nat
      BY <1>2, ActorIs
    <3>5. float_mode' = 0
      BY <3>1
    <3>6. ModesFollow'
      BY ONLY <1>1, <1>8, <3>3, <3>4, <3>5, LoopEnds
    <3>. QED BY <3>1, <3>6 DEF NothingHeldOutside
  <2>2. CASE "commit" \notin ToSet(parsed.commands)
    <3>1. float_mode' = float_mode
      BY <1>3, <2>2, Zenon
    <3>2. /\ UNCHANGED <<modes, down, float_mode>> /\ reader' = reader
          /\ actor'.attached = actor.attached /\ actor'.modal = actor.modal
          /\ actor'.next = actor.next
      BY <1>2, <3>1
    <3>3. Ending(up, actor.modal) => Ending(up', actor.modal)
      BY <1>13, Zenon
    <3>4. ModesFollow'
      BY ONLY <1>1, <3>2, <3>3, ModesKept
    <3>5. NothingHeldOutside'
      BY <1>1, <1>3, <1>7, <3>1, Zenon DEF NothingHeldOutside
    <3>. QED BY <3>4, <3>5
  <2>. QED BY <2>1, <2>2
<1>19. SoundParser(parser)'
  <2>1. SoundParser(parser')
    BY <1>3, <1>7, Zenon
  <2>. QED BY <2>1 DEF SoundParser
<1>20. DroppedAtTheEnd'
  BY <1>3, <1>7 DEF DroppedAtTheEnd
<1>. QED BY <1>16, <1>17, <1>18, <1>19, <1>20 DEF InputInv

----------------------------------------------------------------------------
(* The theorems. *)

\* The invariant is one of the specification.
LEMMA InputInvHolds == InputSpec => []InputInv
<1>1. InputInit => InputInv
  <2>. SUFFICES ASSUME InputInit PROVE InputInv
    OBVIOUS
  <2>1. /\ tty = [bytes |-> <<>>, eof |-> FALSE] /\ main = "drain"
        /\ parser = FreshParser /\ pending = <<>> /\ float_mode = 0 /\ stopped = FALSE
        /\ reader = [at |-> "recv", held |-> NoMode]
        /\ modes = <<>> /\ up = <<>> /\ down = <<>> /\ undecided = 0 /\ behind = 0
        /\ actor = [attached |-> TRUE, closed |-> FALSE, modal |-> 0, next |-> 0,
                    floating |-> TRUE, copy |-> FALSE]
    BY DEF InputInit
  <2>2. <<>> \in Seq(Bytes) /\ <<>> \in Seq(Changes) /\ <<>> \in Seq(UpMessages)
        /\ <<>> \in Seq(DownMessages) /\ Len(<<>>) <= ModeCap
    BY InputAssumption
  <2>3. parser \in Parsers /\ SoundParser(parser)
    BY <2>1, <2>2 DEF FreshParser, Parsers, SoundParser
  <2>4. reader \in [at : {"recv", "send", "ended"}, held : Changes]
    BY <2>1 DEF NoMode, Changes
  <2>5. actor \in Actors
    BY <2>1 DEF Actors
  <2>6. InputTypes
    BY <2>1, <2>2, <2>3, <2>4, <2>5 DEF InputTypes
  <2>7. HeldBack = 0
    BY <2>1 DEF HeldBack, FreshParser
  <2>8. Line(0, 0) /\ Current(0) /\ Believed(0, 0)
    BY <2>1 DEF Line, Current, Believed, Numbered, Telling, Untold, InHand, Count
  <2>9. ModesFollow
    BY <2>8 DEF ModesFollow
  <2>. QED BY <2>1, <2>3, <2>6, <2>7, <2>9 DEF InputInv, DroppedAtTheEnd, NothingHeldOutside
<1>2. InputInv /\ [InputNext]_input_vars => InputInv'
  <2>. SUFFICES ASSUME InputInv, [InputNext]_input_vars PROVE InputInv'
    OBVIOUS
  <2>1. CASE InputLoop
    BY <2>1, ModeDrained, LoopMoves, TimedOut, BytesRead, Zenon DEF InputLoop
  <2>2. CASE ReaderThread
    BY <2>2, ModeTaken, ModeSent, ReaderStops, Zenon DEF ReaderThread
  <2>3. CASE Session
    BY <2>3, StaleHandled, FloatModeEntered, ModeEnded, EditHandled, InputHandled,
       DetachHandled, MouseHandled, Zenon DEF Session
  <2>4. CASE Environment
    BY <2>4, EnvironmentMoves, SessionTaken, ModeLost, Zenon DEF Environment
  <2>5. CASE UNCHANGED input_vars
    <3>1. UNCHANGED <<tty, main, parser, pending, float_mode, stopped, reader, modes,
                      up, down, actor, undecided, behind>>
      BY <2>5 DEF input_vars
    <3>2. InputTypes'
      BY <3>1 DEF InputInv, InputTypes
    <3>3. /\ UNCHANGED <<modes, down, float_mode>> /\ reader' = reader /\ up' = up
          /\ actor'.attached = actor.attached /\ actor'.modal = actor.modal
          /\ actor'.next = actor.next
      BY <3>1
    <3>4. ModesFollow'
      BY <3>3, ModesKept DEF InputInv
    <3>. QED BY <3>1, <3>2, <3>4, ParsersKept
  <2>. QED BY <2>1, <2>2, <2>3, <2>4, <2>5 DEF InputNext
<1>. QED BY <1>1, <1>2, PTL DEF InputSpec

\* Every byte read from the terminal is sent as input once, used by one command,
\* held by a parser, or typed behind a detach in the read that ends the loop,
\* whatever is typed and however modes begin and end
\* (FloatEditScanner and PrefixParser in client_input.rs, the loop of attach in
\* client.rs).
THEOREM BytesAreAccounted == InputSpec => []BytesAccounted
<1>1. InputInv => BytesAccounted
  <2>. SUFFICES ASSUME InputInv PROVE BytesAccounted
    OBVIOUS
  <2>1. InputTypes /\ undecided = HeldBack + behind /\ behind \in Nat
        /\ (behind # 0 => main \notin {"drain", "read"})
    BY DEF InputInv, InputTypes, DroppedAtTheEnd
  <2>2. undecided \in Nat
    <3>1. HeldBack = Size(pending) + HeldByParser(parser)
          /\ Size(pending) \in Nat /\ HeldByParser(parser) \in Nat
      BY <2>1, HeldIsSum
    <3>. QED BY ONLY <2>1, <3>1
  <2>3. parser.sequence \in Seq(Bytes) /\ parser.mouse_sequence \in Seq(Bytes)
    BY <2>1 DEF InputTypes, Parsers
  <2>4. InputTypeOK
    BY <2>1, <2>2, <2>3, ActorIs DEF InputTypes, InputTypeOK
  <2>. QED BY <2>1, <2>4 DEF BytesAccounted
<1>. QED BY <1>1, InputInvHolds, PTL

\* With nothing on its way, the loop is in the session's edit mode (the mode
\* channel of attach in client.rs, float_edit in session.rs).
THEOREM ModesAgree == InputSpec => []QuietModesAgree
<1>1. InputInv => QuietModesAgree
  <2>. SUFFICES ASSUME InputInv, reader.at = "recv", up = <<>>, down = <<>>, modes = <<>>,
                       actor.attached
                PROVE  float_mode = actor.modal
    BY DEF QuietModesAgree
  <2>1. PICK r \in Nat, t \in Nat : Line(r, t) /\ Current(t) /\ Believed(r, t)
    BY DEF InputInv, ModesFollow
  <2>2. Count(modes) = 0 /\ InHand = 0 /\ Untold = 0
    BY DEF Count, InHand, Untold
  <2>3. t = r
    BY <2>1, <2>2 DEF Line
  <2>4. ~Ending(up, actor.modal)
    BY DEF Ending
  <2>5. PICK j \in Nat, k \in Nat, n \in Nat :
          j = float_mode /\ k = actor.modal /\ n = actor.next
    BY ActorIs DEF InputInv, InputTypes
  <2>6. /\ j # 0 => r = 2 * j - 1
        /\ (k = 0 /\ r = 2 * n) \/ (k = n /\ n # 0 /\ r = 2 * n - 1)
        /\ ~(k # 0 /\ j = 0)
    BY <2>1, <2>3, <2>4, <2>5, Zenon DEF Believed, Current
  <2>7. j = k
    BY ONLY <2>6, j \in Nat, k \in Nat, n \in Nat, r \in Nat
  <2>. QED BY <2>5, <2>7, Zenon
<1>. QED BY <1>1, InputInvHolds, PTL

----------------------------------------------------------------------------
(* The writer of a media record.                                           *)

----------------------------------------------------------------------------
(* Queues of distinct jobs. *)

\* A job appended to a queue that does not have it keeps the jobs distinct.
LEMMA AppendRange ==
    ASSUME NEW S, NEW jobs \in Seq(S), NEW job \in S
    PROVE  /\ Range(Append(jobs, job)) = Range(jobs) \cup {job}
           /\ IsInjective(jobs) /\ job \notin Range(jobs) => IsInjective(Append(jobs, job))
<1>. DEFINE longer == Append(jobs, job)
<1>1. /\ Len(jobs) \in Nat /\ DOMAIN jobs = 1 .. Len(jobs)
      /\ DOMAIN longer = 1 .. Len(jobs) + 1
      /\ \A i \in 1 .. Len(jobs) : longer[i] = jobs[i]
      /\ longer[Len(jobs) + 1] = job
    BY AppendProperties, LenProperties
<1>. HIDE DEF longer
<1>2. Range(longer) = Range(jobs) \cup {job}
    BY <1>1 DEF Range
<1>3. ASSUME IsInjective(jobs), job \notin Range(jobs) PROVE IsInjective(longer)
  <2>. SUFFICES ASSUME NEW i \in 1 .. Len(jobs) + 1, NEW j \in 1 .. Len(jobs) + 1, i # j
                PROVE  longer[i] # longer[j]
    BY <1>1 DEF IsInjective
  <2>1. CASE i \in 1 .. Len(jobs) /\ j \in 1 .. Len(jobs)
    BY <2>1, <1>1, <1>3 DEF IsInjective
  <2>2. CASE i = Len(jobs) + 1 \/ j = Len(jobs) + 1
    BY <2>2, <1>1, <1>3 DEF Range
  <2>. QED
    BY <2>1, <2>2, <1>1
<1>. QED
    BY <1>2, <1>3 DEF longer

\* What is left of a queue of distinct jobs does not have the job at its head.
LEMMA TailRange ==
    ASSUME NEW S, NEW jobs \in Seq(S), jobs # <<>>, IsInjective(jobs)
    PROVE  /\ Head(jobs) \in Range(jobs) /\ Head(jobs) \in S
           /\ Tail(jobs) \in Seq(S) /\ Len(Tail(jobs)) = Len(jobs) - 1
           /\ Range(Tail(jobs)) \subseteq Range(jobs) \ {Head(jobs)}
           /\ IsInjective(Tail(jobs))
<1>. DEFINE rest == Tail(jobs)
<1>1. /\ Len(jobs) \in Nat \ {0} /\ DOMAIN jobs = 1 .. Len(jobs)
      /\ rest \in Seq(S) /\ Len(rest) = Len(jobs) - 1
      /\ DOMAIN rest = 1 .. Len(jobs) - 1
      /\ \A i \in 1 .. Len(jobs) - 1 : rest[i] = jobs[i + 1]
      /\ Head(jobs) = jobs[1] /\ Head(jobs) \in S
    BY HeadTailProperties, LenProperties, EmptySeq
<1>. HIDE DEF rest
<1>2. Head(jobs) \in Range(jobs)
    BY <1>1 DEF Range
<1>3. Range(rest) \subseteq Range(jobs) \ {Head(jobs)}
  <2>. SUFFICES ASSUME NEW i \in 1 .. Len(jobs) - 1
                PROVE  rest[i] \in Range(jobs) \ {Head(jobs)}
    BY <1>1 DEF Range
  <2>. QED
    BY <1>1 DEF Range, IsInjective
<1>4. IsInjective(rest)
  <2>. SUFFICES ASSUME NEW i \in 1 .. Len(jobs) - 1, NEW j \in 1 .. Len(jobs) - 1, i # j
                PROVE  rest[i] # rest[j]
    BY <1>1 DEF IsInjective
  <2>1. i + 1 \in DOMAIN jobs /\ j + 1 \in DOMAIN jobs /\ i + 1 # j + 1
    BY <1>1
  <2>. QED
    BY <1>1, <2>1 DEF IsInjective
<1>. QED
    BY <1>1, <1>2, <1>3, <1>4 DEF rest

----------------------------------------------------------------------------
(* Constants. *)

\* What is assumed of the constants.
LEMMA Constants ==
    /\ WriterQueue \in Nat \ {0}
    /\ MaxWrites \in Nat /\ MaxGrants \in Nat /\ MaxBarriers \in Nat
    /\ None \notin Nat
    /\ Barrier \notin Records
BY OuterWriterAssumption DEF Barrier, Records

USE Constants

----------------------------------------------------------------------------
(* The inductive invariant. *)

Commands == Records \cup {Barrier}
Writers == [at : {"recv", "credit", "socket", "gone"}, job : Records \cup {None}]
Workers == [at : {"idle", "send", "recv", "eos", "retired"}, told : Nat \cup {None}]
Ledgers == [present : BOOLEAN, lost : BOOLEAN, credit : Nat]
Bounds == [writes : 0 .. MaxWrites, grants : 0 .. MaxGrants, barriers : 0 .. MaxBarriers]

\* Type correctness, and no credit but the granted ones.
Typed ==
    /\ queue \in Seq(Commands) /\ Len(queue) <= WriterQueue
    /\ sender \in BOOLEAN /\ session \in BOOLEAN /\ closed \in BOOLEAN
    /\ writer \in Writers /\ worker \in Workers /\ sequence \in Nat
    /\ ledger \in Ledgers /\ left \in Bounds
    /\ ledger.credit + left.grants <= MaxGrants + 1
    /\ done \in [Records -> {"new", "queued", "delivered", "failed"}]

Queued == {n \in Records : done[n] = "queued"}
Delivered == {n \in Records : done[n] = "delivered"}

\* The record the thread has taken and not written.
Held == IF writer.at \in {"credit", "socket"} THEN {writer.job} ELSE {}

\* While the thread runs, the records without an outcome are those in the queue and
\* the one the thread holds, each once.
JobsOnce ==
    /\ IsInjective(queue)
    /\ Held \subseteq Queued /\ Held \cap Range(queue) = {}
    /\ Range(queue) \ {Barrier} \subseteq Queued
    /\ writer.at # "gone" => Queued \subseteq Range(queue) \cup Held
    /\ writer.at = "gone" => queue = <<>>

\* A record not yet forwarded has no fate.
AheadIsNew == \A n \in Records : n > MaxWrites - left.writes => done[n] = "new"

\* last_record_sequence counts the records written.
SequenceCounts == sequence = 1 + Cardinality(Delivered)

\* A barrier is in the queue while the worker awaits it, with nothing behind it:
\* the worker forwards no record until it is told.
BarrierLast ==
    /\ Barrier \in Range(queue) => worker.at = "recv"
    /\ worker.at = "recv" /\ writer.at # "gone" =>
           queue # <<>> /\ queue[Len(queue)] = Barrier

\* When the worker is told, nothing is left to write.
ToldAtEnd ==
    worker.at = "eos" =>
        /\ queue = <<>> /\ Held = {} /\ Queued = {}
        /\ worker.told = sequence

WriterInv == Typed /\ JobsOnce /\ AheadIsNew /\ SequenceCounts /\ BarrierLast /\ ToldAtEnd

\* At first, nothing is queued and nothing has an outcome.
LEMMA InitInv == Init => WriterInv
<1>. SUFFICES ASSUME Init PROVE WriterInv
    OBVIOUS
<1>1. /\ <<>> \in Seq(Commands) /\ Len(<<>>) = 0
      /\ Range(<<>>) = {} /\ IsInjective(<<>>)
    BY EmptySeq DEF Range, IsInjective
<1>2. Queued = {} /\ Delivered = {} /\ Held = {}
    BY DEF Init, Queued, Delivered, Held
<1>3. /\ sender \in BOOLEAN /\ session \in BOOLEAN /\ closed \in BOOLEAN
      /\ ledger \in Ledgers
    <2>1. sender \in BOOLEAN /\ session \in BOOLEAN /\ closed \in BOOLEAN
        BY Zenon DEF Init
    <2>2. ledger \in Ledgers
        BY DEF Init, Ledgers
    <2>. QED
        BY <2>1, <2>2
<1>4. worker \in Workers /\ worker.at = "idle"
    BY DEF Init, Idle, Workers
<1>5. Typed
    BY <1>1, <1>3, <1>4 DEF Init, Typed, Writers, Bounds, Records
<1>6. SequenceCounts
    BY <1>2, FS_EmptySet DEF Init, SequenceCounts
<1>. QED
    BY <1>1, <1>2, <1>4, <1>5, <1>6
    DEF Init, WriterInv, JobsOnce, AheadIsNew, BarrierLast, ToldAtEnd

----------------------------------------------------------------------------
(* Types. *)

\* Every step keeps the types.
LEMMA StepTyped == WriterInv /\ [Next]_vars => Typed'
<1>. SUFFICES ASSUME WriterInv, [Next]_vars PROVE Typed'
    OBVIOUS
<1>. USE DEF WriterInv, Typed
<1>0. /\ <<>> \in Seq(Commands) /\ Len(<<>>) = 0
      /\ Idle \in Workers /\ Len(queue) \in Nat
    BY EmptySeq, LenProperties DEF Idle, Workers
<1>1. CASE UNCHANGED vars
    BY <1>1 DEF vars
<1>2. CASE Forward
  <2>1. PICK n \in Records :
            /\ left' = [left EXCEPT !.writes = @ - 1]
            /\ n = MaxWrites - left.writes + 1
            /\ \/ /\ Len(queue) < WriterQueue /\ queue' = Append(queue, n)
                  /\ done' = [done EXCEPT ![n] = "queued"]
               \/ queue' = queue /\ done' = [done EXCEPT ![n] = "failed"]
            /\ UNCHANGED <<sender, session, writer, sequence, ledger, closed, worker>>
    BY <1>2 DEF Forward
  <2>2. n \in Commands
    BY DEF Commands
  <2>3. queue' \in Seq(Commands) /\ Len(queue') <= WriterQueue
    <3>1. CASE queue' = queue
      BY <3>1
    <3>2. CASE Len(queue) < WriterQueue /\ queue' = Append(queue, n)
      <4>. HIDE DEF WriterInv, Typed
      <4>1. queue \in Seq(Commands) /\ Len(queue) \in Nat /\ WriterQueue \in Nat
        BY <1>0, Constants DEF WriterInv, Typed
      <4>2. queue' \in Seq(Commands) /\ Len(queue') = Len(queue) + 1
        BY <2>2, <3>2, <4>1, AppendProperties
      <4>. QED
        BY <3>2, <4>1, <4>2
    <3>. QED
      BY <2>1, <3>1, <3>2
  <2>4. left.writes \in 0 .. MaxWrites /\ left.writes - 1 \in 0 .. MaxWrites
    BY <2>1 DEF Bounds, Records
  <2>5. left' \in Bounds /\ left'.grants = left.grants
    BY <2>1, <2>4 DEF Bounds
  <2>6. done' \in [Records -> {"new", "queued", "delivered", "failed"}]
    BY <2>1
  <2>. QED
    BY <2>1, <2>3, <2>5, <2>6
<1>3. CASE EndSource
  <2>1. left' \in Bounds /\ left'.grants = left.grants /\ worker' \in Workers
    BY <1>3, SMTT(30) DEF EndSource, Bounds, Workers
  <2>. QED
    BY <1>3, <2>1 DEF EndSource
<1>4. CASE SendBarrier
  <2>1. queue' \in Seq(Commands) /\ Len(queue') <= WriterQueue
    BY <1>0, <1>4, AppendProperties DEF SendBarrier, Commands
  <2>2. worker' \in Workers
    BY <1>4 DEF SendBarrier, Workers
  <2>. QED
    BY <1>4, <2>1, <2>2 DEF SendBarrier
<1>5. CASE BarrierFails \/ WriteEos
    BY <1>0, <1>5 DEF BarrierFails, WriteEos
<1>6. CASE RetireSource
  <2>1. ledger' \in Ledgers /\ ledger'.credit = 0 /\ worker' \in Workers
    BY <1>6 DEF RetireSource, Ledgers, Workers
  <2>. QED
    BY <1>6, <2>1 DEF RetireSource, Bounds
<1>7. CASE DropWriter \/ TakeLoss \/ ReplaceSession
  <2>1. sender' \in BOOLEAN /\ session' \in BOOLEAN
    BY <1>7, Zenon DEF DropWriter, TakeLoss, ReplaceSession
  <2>. QED
    BY <1>0, <1>7, <2>1 DEF DropWriter, TakeLoss, ReplaceSession
<1>8. CASE Grant
  <2>1. /\ ledger.credit \in Nat /\ ledger.credit + 1 \in Nat
        /\ left.grants \in Nat /\ left.grants - 1 \in 0 .. MaxGrants
    BY <1>8, SMTT(30) DEF Grant, Ledgers, Bounds
  <2>2. ledger' \in Ledgers /\ ledger'.credit = ledger.credit + 1
    <3>1. ledger \in Ledgers /\ ledger' = [ledger EXCEPT !.present = TRUE, !.credit = @ + 1]
      BY <1>8 DEF Grant
    <3>. HIDE DEF WriterInv, Typed
    <3>. QED
      BY <2>1, <3>1 DEF Ledgers
  <2>3. left' \in Bounds /\ left'.grants = left.grants - 1
    BY <1>8, <2>1, SMTT(30) DEF Grant, Bounds
  <2>4. ledger'.credit + left'.grants <= MaxGrants + 1
    BY <2>1, <2>2, <2>3
  <2>. QED
    BY <1>8, <2>2, <2>3, <2>4 DEF Grant
<1>9. CASE SourceLost
  <2>1. ledger' \in Ledgers /\ ledger'.credit = ledger.credit
    BY <1>9 DEF SourceLost, Ledgers
  <2>. QED
    BY <1>9, <2>1 DEF SourceLost
<1>10. CASE Close
  <2>1. closed' \in BOOLEAN
    BY <1>10, Zenon DEF Close
  <2>. QED
    BY <1>10, <2>1 DEF Close
<1>11. CASE TakeWrite
  <2>1. Head(queue) \in Records /\ queue' \in Seq(Commands) /\ Len(queue') <= WriterQueue
    BY <1>0, <1>11, HeadTailProperties DEF TakeWrite, Commands
  <2>2. writer' \in Writers
    BY <1>11, <2>1 DEF TakeWrite, Writers
  <2>. QED
    BY <1>11, <2>1, <2>2 DEF TakeWrite
<1>12. CASE TakeBarrier
  <2>1. queue' \in Seq(Commands) /\ Len(queue') <= WriterQueue
    BY <1>0, <1>12, HeadTailProperties DEF TakeBarrier
  <2>2. worker' \in Workers
    BY <1>12 DEF TakeBarrier, Workers
  <2>. QED
    BY <1>12, <2>1, <2>2 DEF TakeBarrier
<1>13. CASE Disconnected
    BY <1>13 DEF Disconnected, Writers
<1>14. CASE Reserve
  <2>1. ledger' \in Ledgers /\ ledger'.credit = ledger.credit - 1 /\ writer' \in Writers
    BY <1>14, SMTT(30) DEF Reserve, Ledgers, Writers
  <2>2. ledger.credit \in Nat /\ left.grants \in Nat
    BY DEF Ledgers, Bounds
  <2>. QED
    BY <1>14, <2>1, <2>2, SMTT(30) DEF Reserve
<1>15. ASSUME NEW n, Ends(n) PROVE Typed'
  <2>1. writer' \in Writers /\ done' \in [Records -> {"new", "queued", "delivered", "failed"}]
    BY <1>15 DEF Ends, Writers
  <2>. QED
    BY <1>0, <1>15, <2>1 DEF Ends
<1>16. CASE SocketWrites
  <2>1. writer' \in Writers /\ queue' \in Seq(Commands) /\ Len(queue') <= WriterQueue
    BY <1>0, <1>16 DEF SocketWrites, Writers
  <2>2. PICK n : done' = [done EXCEPT ![n] = "delivered"]
    BY <1>16 DEF SocketWrites
  <2>3. done' \in [Records -> {"new", "queued", "delivered", "failed"}]
    BY <2>2
  <2>4. sequence' \in Nat
    BY <1>16 DEF SocketWrites
  <2>. QED
    BY <1>16, <2>1, <2>3, <2>4 DEF SocketWrites
<1>. QED
    BY <1>1, <1>2, <1>3, <1>4, <1>5, <1>6, <1>7, <1>8, <1>9, <1>10, <1>11, <1>12, <1>13,
       <1>14, <1>15, <1>16
    DEF Next, WorkerStarts, WorkerGoesOn, Reader, Thread, Socket, ReserveFails, CreditTimeout,
        SocketFails

----------------------------------------------------------------------------
(* The accounting. *)

Accounted == JobsOnce /\ AheadIsNew /\ SequenceCounts /\ BarrierLast /\ ToldAtEnd

\* What it means for a record to get an outcome.
LEMMA OutcomeOf ==
    ASSUME Typed, NEW n \in Records, NEW outcome, done' = [done EXCEPT ![n] = outcome]
    PROVE  /\ Queued' = IF outcome = "queued" THEN Queued \cup {n} ELSE Queued \ {n}
           /\ Delivered' = IF outcome = "delivered" THEN Delivered \cup {n} ELSE Delivered \ {n}
           /\ \A m \in Records \ {n} : done'[m] = done[m]
BY DEF Typed, Queued, Delivered

\* What it means for a record to fail.
LEMMA FailureOf ==
    ASSUME Typed, NEW n \in Records, done' = [done EXCEPT ![n] = "failed"]
    PROVE  Queued' = Queued \ {n} /\ Delivered' = Delivered \ {n}
BY DEF Typed, Queued, Delivered

\* The records delivered are finitely many.
LEMMA DeliveredFinite ==
    IsFiniteSet(Delivered) /\ Cardinality(Delivered) \in 0 .. MaxWrites
<1>1. MaxWrites \in Int /\ 1 \in Int
    OBVIOUS
<1>2. IsFiniteSet(Records) /\ Cardinality(Records) = MaxWrites
    BY <1>1, FS_Interval DEF Records
<1>3. /\ IsFiniteSet(Delivered) /\ Cardinality(Delivered) <= Cardinality(Records)
      /\ Cardinality(Delivered) \in Nat
    BY <1>2, FS_Subset, FS_CardinalityType DEF Delivered
<1>. QED
    BY <1>2, <1>3

\* A step that leaves the queue, the fates and the thread's record as they are, and
\* does not tell the worker anything, keeps the accounting.
Aside ==
    /\ UNCHANGED <<queue, done, sequence>>
    /\ left'.writes = left.writes
    /\ Held' = Held
    /\ writer'.at = "gone" <=> writer.at = "gone"
    /\ \/ worker' = worker
       \/ worker'.at \notin {"recv", "eos"} /\ (worker.at # "recv" \/ queue = <<>>)

\* A step that moves no record and no barrier keeps the account of them.
LEMMA AsideKeeps == WriterInv /\ Aside => Accounted'
<1>. SUFFICES ASSUME WriterInv, Aside PROVE Accounted'
    OBVIOUS
<1>. USE DEF WriterInv, Aside
<1>1. Queued' = Queued /\ Delivered' = Delivered
    BY DEF Queued, Delivered
<1>2. JobsOnce'
    BY <1>1 DEF JobsOnce
<1>3. AheadIsNew' /\ SequenceCounts'
    BY <1>1 DEF AheadIsNew, SequenceCounts
<1>4. BarrierLast'
  <2>1. Range(<<>>) = {}
    BY DEF Range
  <2>. QED
    BY <2>1 DEF BarrierLast
<1>5. ToldAtEnd'
    BY <1>1 DEF ToldAtEnd
<1>. QED
    BY <1>2, <1>3, <1>4, <1>5 DEF Accounted

\* A record that is forwarded was new, so it is not in the queue already.
LEMMA ForwardKeeps == WriterInv /\ Forward => Accounted'
<1>. SUFFICES ASSUME WriterInv, Forward PROVE Accounted'
    OBVIOUS
<1>. USE DEF WriterInv
<1>1. PICK n \in Records :
          /\ left' = [left EXCEPT !.writes = @ - 1]
          /\ n = MaxWrites - left.writes + 1
          /\ worker = Idle
          /\ \/ /\ writer.at # "gone" /\ queue' = Append(queue, n)
                /\ done' = [done EXCEPT ![n] = "queued"]
             \/ queue' = queue /\ done' = [done EXCEPT ![n] = "failed"]
          /\ UNCHANGED <<writer, sequence, worker>>
    BY DEF Forward
<1>2. /\ done[n] = "new" /\ n \notin Queued /\ n \notin Delivered /\ n # Barrier
      /\ n \notin Range(queue) /\ n \notin Held
    BY <1>1 DEF Typed, Bounds, AheadIsNew, Queued, Delivered, JobsOnce
<1>3. worker.at = "idle" /\ worker'.at = "idle" /\ Held' = Held
    BY <1>1 DEF Idle, Held
<1>4. AheadIsNew'
  <2>1. left.writes \in Nat /\ left'.writes = left.writes - 1
    BY <1>1 DEF Typed, Bounds
  <2>. SUFFICES ASSUME NEW m \in Records, m > MaxWrites - left'.writes PROVE done'[m] = "new"
    BY DEF AheadIsNew
  <2>2. m # n /\ m > MaxWrites - left.writes
    BY <1>1, <2>1 DEF Records
  <2>3. done'[m] = done[m]
    BY <1>1, <2>2, OutcomeOf
  <2>. QED
    BY <2>2, <2>3 DEF AheadIsNew
<1>5. CASE writer.at # "gone" /\ queue' = Append(queue, n) /\ done' = [done EXCEPT ![n] = "queued"]
  <2>1. n \in Commands
    BY DEF Commands
  <2>2. Range(queue') = Range(queue) \cup {n} /\ IsInjective(queue')
    BY <1>2, <1>5, <2>1, AppendRange DEF Typed, JobsOnce
  <2>3. Queued' = Queued \cup {n} /\ Delivered' = Delivered
    <3>1. Queued' = Queued \cup {n} /\ Delivered' = Delivered \ {n}
      BY <1>5, OutcomeOf
    <3>. QED
      BY <1>2, <3>1
  <2>4. JobsOnce'
    BY <1>1, <1>2, <1>3, <1>5, <2>2, <2>3 DEF JobsOnce
  <2>5. SequenceCounts'
    BY <1>1, <2>3 DEF SequenceCounts
  <2>6. BarrierLast' /\ ToldAtEnd'
    BY <1>2, <1>3, <2>2 DEF BarrierLast, ToldAtEnd
  <2>. QED
    BY <1>4, <2>4, <2>5, <2>6 DEF Accounted
<1>6. CASE queue' = queue /\ done' = [done EXCEPT ![n] = "failed"]
  <2>1. Queued' = Queued /\ Delivered' = Delivered
    <3>1. Queued' = Queued \ {n} /\ Delivered' = Delivered \ {n}
      BY <1>6, FailureOf
    <3>. QED
      BY <1>2, <3>1
  <2>2. JobsOnce'
    BY <1>1, <1>3, <1>6, <2>1 DEF JobsOnce
  <2>3. SequenceCounts'
    BY <1>1, <2>1 DEF SequenceCounts
  <2>4. BarrierLast' /\ ToldAtEnd'
    BY <1>3, <1>6 DEF BarrierLast, ToldAtEnd
  <2>. QED
    BY <1>4, <2>2, <2>3, <2>4 DEF Accounted
<1>. QED
    BY <1>1, <1>5, <1>6

\* The barrier is appended, and awaited.
LEMMA SendBarrierKeeps == WriterInv /\ SendBarrier => Accounted'
<1>. SUFFICES ASSUME WriterInv, SendBarrier PROVE Accounted'
    OBVIOUS
<1>. USE DEF WriterInv
<1>1. /\ queue' = Append(queue, Barrier) /\ worker'.at = "recv" /\ writer.at # "gone"
      /\ worker.at = "send" /\ queue \in Seq(Commands) /\ Barrier \in Commands
      /\ UNCHANGED <<done, sequence, writer, left>>
    BY DEF SendBarrier, Typed, Workers, Commands
<1>2. Barrier \notin Range(queue)
    BY <1>1 DEF BarrierLast
<1>3. Range(queue') = Range(queue) \cup {Barrier} /\ IsInjective(queue')
    BY <1>1, <1>2, AppendRange DEF JobsOnce
<1>4. queue' # <<>> /\ queue'[Len(queue')] = Barrier
    BY <1>1, AppendProperties
<1>5. Queued' = Queued /\ Delivered' = Delivered /\ Held' = Held /\ Held \subseteq Records
    BY <1>1 DEF Queued, Delivered, Held, JobsOnce
<1>6. JobsOnce'
    BY <1>1, <1>3, <1>5 DEF JobsOnce
<1>7. AheadIsNew' /\ SequenceCounts'
    BY <1>1, <1>5 DEF AheadIsNew, SequenceCounts
<1>8. BarrierLast' /\ ToldAtEnd'
    BY <1>1, <1>4 DEF BarrierLast, ToldAtEnd
<1>. QED
    BY <1>6, <1>7, <1>8 DEF Accounted

\* The record at the head passes from the queue to the thread.  A barrier that is
\* last is last in what is left.
LEMMA TakeWriteKeeps == WriterInv /\ TakeWrite => Accounted'
<1>. SUFFICES ASSUME WriterInv, TakeWrite PROVE Accounted'
    OBVIOUS
<1>. USE DEF WriterInv
<1>1. /\ queue \in Seq(Commands) /\ queue # <<>> /\ IsInjective(queue)
      /\ Head(queue) # Barrier /\ queue' = Tail(queue)
      /\ writer.at = "recv" /\ Held = {} /\ Held' = {Head(queue)} /\ writer'.at = "credit"
      /\ UNCHANGED <<done, sequence, worker, left>>
    BY DEF TakeWrite, Typed, JobsOnce, Held
<1>2. /\ Head(queue) \in Range(queue)
      /\ Range(queue') \subseteq Range(queue) \ {Head(queue)}
      /\ IsInjective(queue') /\ queue' \in Seq(Commands) /\ Len(queue') = Len(queue) - 1
    BY <1>1, TailRange
<1>3. Range(queue) \subseteq Range(queue') \cup {Head(queue)}
  <2>1. /\ Len(queue) \in Nat \ {0} /\ DOMAIN queue = 1 .. Len(queue)
        /\ DOMAIN queue' = 1 .. Len(queue) - 1 /\ Head(queue) = queue[1]
        /\ \A i \in 1 .. Len(queue) - 1 : queue'[i] = queue[i + 1]
    BY <1>1, HeadTailProperties, LenProperties, EmptySeq
  <2>. SUFFICES ASSUME NEW i \in 1 .. Len(queue), i # 1 PROVE queue[i] \in Range(queue')
    BY <2>1 DEF Range
  <2>2. i - 1 \in DOMAIN queue' /\ queue'[i - 1] = queue[i]
    BY <2>1
  <2>. QED
    BY <2>2 DEF Range
<1>4. Queued' = Queued /\ Delivered' = Delivered
    BY <1>1 DEF Queued, Delivered
<1>5. JobsOnce'
    BY <1>1, <1>2, <1>3, <1>4 DEF JobsOnce
<1>6. AheadIsNew' /\ SequenceCounts'
    BY <1>1, <1>4 DEF AheadIsNew, SequenceCounts
<1>7. BarrierLast'
  <2>1. Barrier \in Range(queue') => worker'.at = "recv"
    BY <1>1, <1>2 DEF BarrierLast
  <2>2. ASSUME worker'.at = "recv" PROVE queue' # <<>> /\ queue'[Len(queue')] = Barrier
    <3>1. queue[Len(queue)] = Barrier
      BY <1>1, <2>2 DEF BarrierLast
    <3>2. /\ Len(queue) \in Nat \ {0} /\ Head(queue) = queue[1]
          /\ \A i \in 1 .. Len(queue) - 1 : queue'[i] = queue[i + 1]
      BY <1>1, HeadTailProperties, LenProperties, EmptySeq
    <3>3. Len(queue) - 1 \in 1 .. Len(queue) - 1
      BY <1>1, <3>1, <3>2
    <3>4. queue'[Len(queue')] = Barrier
      BY <1>2, <3>1, <3>2, <3>3
    <3>5. Len(queue') > 0 /\ Len(<<>>) = 0
      BY <1>2, <3>3
    <3>. QED
      BY <3>4, <3>5
  <2>. QED
    BY <2>1, <2>2 DEF BarrierLast
<1>8. ToldAtEnd'
    BY <1>1 DEF ToldAtEnd
<1>. QED
    BY <1>5, <1>6, <1>7, <1>8 DEF Accounted

\* The barrier at the head is also the last: nothing is left of the queue.
LEMMA TakeBarrierKeeps == WriterInv /\ TakeBarrier => Accounted'
<1>. SUFFICES ASSUME WriterInv, TakeBarrier PROVE Accounted'
    OBVIOUS
<1>. USE DEF WriterInv
<1>1. /\ queue \in Seq(Commands) /\ queue # <<>> /\ IsInjective(queue)
      /\ Head(queue) = Barrier /\ queue' = Tail(queue)
      /\ writer.at = "recv" /\ Held = {} /\ Held' = {}
      /\ worker'.at = "eos" /\ worker'.told = sequence
      /\ UNCHANGED <<done, sequence, writer, left>>
    BY DEF TakeBarrier, Typed, JobsOnce, Held
<1>2. /\ Len(queue) \in Nat \ {0} /\ DOMAIN queue = 1 .. Len(queue) /\ Head(queue) = queue[1]
      /\ queue' \in Seq(Commands) /\ Len(queue') = Len(queue) - 1
    BY <1>1, HeadTailProperties, LenProperties, EmptySeq
<1>3. queue[Len(queue)] = Barrier
  <2>1. Barrier \in Range(queue)
    BY <1>1, <1>2 DEF Range
  <2>. QED
    BY <1>1, <2>1 DEF BarrierLast
<1>4. Len(queue) = 1
    BY <1>1, <1>2, <1>3 DEF IsInjective
<1>5. queue' = <<>> /\ Range(queue) = {Barrier}
  <2>1. queue' = <<>>
    BY <1>2, <1>4, EmptySeq
  <2>2. Range(queue) = {Barrier}
    BY <1>1, <1>2, <1>4 DEF Range
  <2>. QED
    BY <2>1, <2>2
<1>6. Range(<<>>) = {} /\ IsInjective(<<>>)
    BY DEF Range, IsInjective
<1>7. Queued' = Queued /\ Delivered' = Delivered
    BY <1>1 DEF Queued, Delivered
<1>8. Queued = {}
  <2>1. Queued \subseteq {Barrier} /\ Queued \subseteq Records
    BY <1>1, <1>5 DEF JobsOnce, Queued
  <2>. QED
    BY <2>1
<1>9. JobsOnce'
    BY <1>1, <1>5, <1>6, <1>7, <1>8 DEF JobsOnce
<1>10. AheadIsNew' /\ SequenceCounts'
    BY <1>1, <1>7 DEF AheadIsNew, SequenceCounts
<1>11. BarrierLast' /\ ToldAtEnd'
    BY <1>1, <1>5, <1>6, <1>7, <1>8 DEF BarrierLast, ToldAtEnd
<1>. QED
    BY <1>9, <1>10, <1>11 DEF Accounted

\* A disconnected queue ends the thread, with nothing left to write.
LEMMA DisconnectedKeeps == WriterInv /\ Disconnected => Accounted'
<1>. SUFFICES ASSUME WriterInv, Disconnected PROVE Accounted'
    OBVIOUS
<1>. USE DEF WriterInv
<1>1. /\ queue = <<>> /\ writer.at = "recv" /\ writer'.at = "gone"
      /\ UNCHANGED <<queue, done, sequence, worker, left>>
      /\ Held = {} /\ Held' = {}
    BY DEF Disconnected, Held
<1>2. Queued' = Queued /\ Delivered' = Delivered
    BY <1>1 DEF Queued, Delivered
<1>. QED
    BY <1>1, <1>2
    DEF Accounted, JobsOnce, AheadIsNew, SequenceCounts, BarrierLast, ToldAtEnd

\* The thread ends, and its record has failed.
LEMMA EndsKeeps ==
    WriterInv /\ writer.at \in {"credit", "socket"} /\ Ends(writer.job) => Accounted'
<1>. SUFFICES ASSUME WriterInv, writer.at \in {"credit", "socket"}, Ends(writer.job)
              PROVE  Accounted'
    OBVIOUS
<1>. USE DEF WriterInv
<1>. DEFINE n == writer.job
<1>1. n \in Records /\ done[n] = "queued" /\ worker.at # "eos"
    BY DEF JobsOnce, Held, Queued, ToldAtEnd
<1>2. /\ queue' = <<>> /\ done' = [done EXCEPT ![n] = "failed"] /\ writer'.at = "gone"
      /\ Held' = {} /\ UNCHANGED <<sequence, worker, left>>
    BY DEF Ends, Held
<1>. HIDE DEF n
<1>3. Queued' \subseteq Queued /\ Delivered' = Delivered
  <2>1. Queued' = Queued \ {n} /\ Delivered' = Delivered \ {n}
    BY <1>1, <1>2, FailureOf
  <2>2. n \notin Delivered
    BY <1>1 DEF Delivered
  <2>. QED
    BY <2>1, <2>2
<1>4. Range(<<>>) = {} /\ IsInjective(<<>>)
    BY DEF Range, IsInjective
<1>5. JobsOnce'
    BY <1>2, <1>4 DEF JobsOnce
<1>6. AheadIsNew'
    BY <1>1, <1>2, OutcomeOf DEF AheadIsNew
<1>7. SequenceCounts' /\ BarrierLast' /\ ToldAtEnd'
    BY <1>1, <1>2, <1>3, <1>4 DEF SequenceCounts, BarrierLast, ToldAtEnd
<1>. QED
    BY <1>5, <1>6, <1>7 DEF Accounted

\* A record that is written is counted once: it was not among the delivered ones.
LEMMA SocketWritesKeeps == WriterInv /\ SocketWrites => Accounted'
<1>. SUFFICES ASSUME WriterInv, SocketWrites PROVE Accounted'
    OBVIOUS
<1>. USE DEF WriterInv
<1>. DEFINE n == writer.job
<1>1. /\ n \in Records /\ done[n] = "queued" /\ n \notin Delivered /\ worker.at # "eos"
      /\ Held = {n} /\ writer.at = "socket"
    BY DEF SocketWrites, JobsOnce, Held, Queued, Delivered, ToldAtEnd
<1>2. /\ done' = [done EXCEPT ![n] = "delivered"] /\ sequence' = sequence + 1
      /\ UNCHANGED <<worker, left>> /\ Held' = {}
      /\ \/ queue' = queue /\ writer'.at = "recv"
         \/ queue' = <<>> /\ writer'.at = "gone"
    BY DEF SocketWrites, Held
<1>. HIDE DEF n
<1>3. Queued' = Queued \ {n} /\ Delivered' = Delivered \cup {n}
    BY <1>1, <1>2, OutcomeOf
<1>4. Range(<<>>) = {} /\ IsInjective(<<>>)
    BY DEF Range, IsInjective
<1>5. JobsOnce'
    BY <1>1, <1>2, <1>3, <1>4 DEF JobsOnce
<1>6. AheadIsNew'
    BY <1>1, <1>2, OutcomeOf DEF AheadIsNew
<1>7. SequenceCounts'
  <2>1. Cardinality(Delivered') = Cardinality(Delivered) + 1
    BY <1>1, <1>3, DeliveredFinite, FS_AddElement
  <2>. QED
    BY <1>2, <2>1, DeliveredFinite DEF SequenceCounts
<1>8. BarrierLast' /\ ToldAtEnd'
    BY <1>1, <1>2, <1>4 DEF BarrierLast, ToldAtEnd
<1>. QED
    BY <1>5, <1>6, <1>7, <1>8 DEF Accounted

\* Every step keeps the account of the records and of the barrier.
LEMMA StepAccounted == WriterInv /\ [Next]_vars => Accounted'
<1>. SUFFICES ASSUME WriterInv, [Next]_vars PROVE Accounted'
    OBVIOUS
<1>. USE DEF Aside
<1>1. CASE UNCHANGED vars
    BY <1>1, AsideKeeps DEF vars, Held
<1>2. CASE Forward
    BY <1>2, ForwardKeeps
<1>3. CASE EndSource
    BY <1>3, AsideKeeps DEF EndSource, Held, Idle, WriterInv, Typed, Workers, Bounds
<1>4. CASE SendBarrier
    BY <1>4, SendBarrierKeeps
<1>5. CASE BarrierFails
    BY <1>5, AsideKeeps DEF BarrierFails, Held, Idle, WriterInv, JobsOnce
<1>6. CASE WriteEos
    BY <1>6, AsideKeeps DEF WriteEos, Held, Idle
<1>7. CASE RetireSource
    BY <1>7, AsideKeeps DEF RetireSource, Held, Idle
<1>8. CASE DropWriter
    BY <1>8, AsideKeeps DEF DropWriter, Held, Idle
<1>9. CASE TakeLoss \/ ReplaceSession
    BY <1>9, AsideKeeps DEF TakeLoss, ReplaceSession, Held
<1>10. CASE Reader
    BY <1>10, AsideKeeps
    DEF Reader, Grant, SourceLost, Close, Held, WriterInv, Typed, Bounds
<1>11. CASE TakeWrite
    BY <1>11, TakeWriteKeeps
<1>12. CASE TakeBarrier
    BY <1>12, TakeBarrierKeeps
<1>13. CASE Disconnected
    BY <1>13, DisconnectedKeeps
<1>14. CASE Reserve
  <2>1. writer.at = "credit" /\ writer'.at = "socket" /\ writer'.job = writer.job
    BY <1>14 DEF Reserve, WriterInv, Typed, Writers
  <2>. QED
    BY <1>14, <2>1, AsideKeeps DEF Reserve, Held
<1>15. CASE ReserveFails \/ CreditTimeout \/ SocketFails
    BY <1>15, EndsKeeps DEF ReserveFails, CreditTimeout, SocketFails
<1>16. CASE SocketWrites
    BY <1>16, SocketWritesKeeps
<1>. QED
    BY <1>1, <1>2, <1>3, <1>4, <1>5, <1>6, <1>7, <1>8, <1>9, <1>10, <1>11, <1>12, <1>13,
       <1>14, <1>15, <1>16
    DEF Next, WorkerStarts, WorkerGoesOn, Thread, Socket

----------------------------------------------------------------------------
(* The theorem. *)

\* The strengthening holds in every reachable state.
LEMMA WriterIsInvariant == Spec => []WriterInv
<1>1. WriterInv /\ [Next]_vars => WriterInv'
    BY StepTyped, StepAccounted DEF WriterInv, Accounted
<1>. QED
    BY <1>1, InitInv, PTL DEF Spec

\* The sequence that closes an outer stream counts every record forwarded before
\* the end of stream, and none of them is still to be written, whatever the credit,
\* the deadlines, the socket and the session do.
THEOREM BarrierCoversAll == Spec => []BarrierCovers
<1>1. WriterInv => BarrierCovers
  <2>. SUFFICES ASSUME WriterInv PROVE BarrierCovers
    OBVIOUS
  <2>1. ledger \in [present : BOOLEAN, lost : BOOLEAN, credit : 0 .. MaxGrants + 1]
    BY DEF WriterInv, Typed, Ledgers, Bounds
  <2>2. sequence \in 1 .. MaxWrites + 1
    BY DeliveredFinite DEF WriterInv, SequenceCounts
  <2>3. TypeOK
    BY <2>1, <2>2 DEF WriterInv, Typed, Writers, Workers, Commands, TypeOK
  <2>. QED
    BY <2>3 DEF WriterInv, ToldAtEnd, SequenceCounts, Queued, Delivered, BarrierCovers
<1>. QED
    BY <1>1, WriterIsInvariant, PTL
=============================================================================
