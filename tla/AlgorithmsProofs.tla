--------------------------- MODULE AlgorithmsProofs ---------------------------
(***************************************************************************)
(* For every game, engine, budget, batch and number of candidates: the     *)
(* lines of a puzzle are playable, none is the beginning of another, and   *)
(* their work is within its budget; a budget is always shared out fairly;  *)
(* the rows of a batch are dealt out as they should be, and found again;   *)
(* and an evaluation counts each of its puzzles once.                      *)
(***************************************************************************)
EXTENDS Algorithms, FiniteSetTheorems, SequenceTheorems, FunctionTheorems, TLAPS

IsSequence(s) == s \in Seq({s[i] : i \in DOMAIN s})

\* A line that is played within depth and game.
Playable(line) ==
    /\ line \in Line /\ Len(line) <= MaxTreeDepth
    /\ \A n \in 0..(Len(line) - 1) : SubSeq(line, 1, n) \notin Over

(* What the recursion keeps: calls and lines are playable, and all of them *)
(* are apart.                                                              *)
SynthesisInv ==
    /\ IsSequence(stack) /\ lines \in Seq(Line)
    /\ done => stack = << >>
    /\ \A i \in DOMAIN stack : Playable(stack[i].line)
    /\ \A i \in DOMAIN lines : Playable(lines[i]) /\ lines[i] # << >>
    /\ LinesApart

-----------------------------------------------------------------------------
(* A sequence over some set is one over its own elements.                  *)
LEMMA SequenceOfOwn ==
    ASSUME NEW S, NEW s \in Seq(S)
    PROVE  IsSequence(s)
<1>1. s \in [1..Len(s) -> S] /\ Len(s) \in Nat /\ DOMAIN s = 1..Len(s)
    BY LenProperties
<1>2. s \in [1..Len(s) -> {s[i] : i \in DOMAIN s}]
    BY <1>1
<1> QED
    BY <1>1, <1>2, SeqDef DEF IsSequence

(* Two sequences one after the other are a sequence of what is in them.    *)
LEMMA ConcatIsSequence ==
    ASSUME NEW a, NEW b, IsSequence(a), IsSequence(b)
    PROVE  /\ IsSequence(a \o b)
           /\ Len(a \o b) = Len(a) + Len(b)
           /\ DOMAIN (a \o b) = 1..(Len(a) + Len(b))
           /\ \A i \in 1..Len(a) : (a \o b)[i] = a[i]
           /\ \A i \in (Len(a) + 1)..(Len(a) + Len(b)) : (a \o b)[i] = b[i - Len(a)]
<1> DEFINE A == {a[i] : i \in DOMAIN a}
           B == {b[i] : i \in DOMAIN b}
           c == a \o b
<1>1. a \in Seq(A \cup B) /\ b \in Seq(A \cup B)
    BY DEF IsSequence
<1>2. c \in Seq(A \cup B) /\ Len(c) = Len(a) + Len(b) /\ Len(a) \in Nat /\ Len(b) \in Nat
    BY <1>1
<1>3. DOMAIN c = 1..(Len(a) + Len(b))
    BY <1>2
<1>4. \A i \in 1..Len(a) : c[i] = a[i]
    BY <1>1
<1>5. \A i \in (Len(a) + 1)..(Len(a) + Len(b)) : c[i] = b[i - Len(a)]
    BY <1>1, <1>2
<1>6. IsSequence(c)
    BY <1>2, SequenceOfOwn
<1> QED
    BY <1>2, <1>3, <1>4, <1>5, <1>6

(* The rest of the calls.                                                  *)
LEMMA TailIsSequence ==
    ASSUME NEW s, IsSequence(s), s # << >>
    PROVE  /\ IsSequence(Tail(s)) /\ Len(s) \in Nat \ {0} /\ Len(Tail(s)) = Len(s) - 1
           /\ DOMAIN s = 1..Len(s)
           /\ Head(s) = s[1] /\ 1 \in DOMAIN s
           /\ DOMAIN Tail(s) = 1..(Len(s) - 1)
           /\ \A i \in DOMAIN Tail(s) : i + 1 \in DOMAIN s /\ Tail(s)[i] = s[i + 1]
<1> DEFINE S == {s[i] : i \in DOMAIN s}
           t == Tail(s)
<1>1. s \in Seq(S)
    BY DEF IsSequence
<1>2. t \in Seq(S) /\ Len(t) = Len(s) - 1 /\ Len(s) \in Nat \ {0}
    BY <1>1
<1>3. DOMAIN t = 1..(Len(s) - 1) /\ DOMAIN s = 1..Len(s)
    BY <1>1, <1>2
<1>4. \A i \in DOMAIN t : i + 1 \in DOMAIN s /\ t[i] = s[i + 1]
    BY <1>1, <1>2, <1>3
<1>5. IsSequence(t)
    BY <1>2, SequenceOfOwn
<1>6. Head(s) = s[1] /\ 1 \in DOMAIN s
    BY <1>1, <1>2, <1>3
<1> QED
    BY <1>2, <1>3, <1>4, <1>5, <1>6

(* Lines that are apart stay apart when they are played on.                *)
LEMMA ApartExtends ==
    ASSUME NEW a \in Line, NEW b \in Line, NEW r \in Line, Apart(a, b)
    PROVE  Apart(a, b \o r) /\ Apart(b \o r, a) /\ Apart(b, a)
<1>1. PICK pos \in 1..Len(a) : pos <= Len(b) /\ a[pos] # b[pos]
    BY DEF Apart
<1>2. Len(a) \in Nat /\ Len(b) \in Nat /\ Len(r) \in Nat /\ Len(b \o r) = Len(b) + Len(r)
    BY DEF Line
<1>3. (b \o r)[pos] = b[pos] /\ pos \in 1..Len(b) /\ pos \in 1..Len(b \o r)
    BY <1>1, <1>2 DEF Line
<1> QED
    BY <1>1, <1>2, <1>3 DEF Apart

(* Lines that part stay apart when they grow.                              *)
LEMMA ApartAppends ==
    ASSUME NEW a \in Line, NEW b \in Line, NEW m \in Legal, Apart(a, b)
    PROVE  Apart(a, Append(b, m)) /\ Apart(Append(b, m), a)
<1>1. PICK pos \in 1..Len(a) : pos <= Len(b) /\ a[pos] # b[pos]
    BY DEF Apart
<1>2. Len(a) \in Nat /\ Len(b) \in Nat /\ Len(Append(b, m)) = Len(b) + 1
    BY DEF Line
<1>3. Append(b, m)[pos] = b[pos] /\ pos \in 1..Len(b) /\ pos \in 1..Len(Append(b, m))
    BY <1>1, <1>2 DEF Line
<1> QED
    BY <1>1, <1>2, <1>3 DEF Apart

(* The lines of two children are apart.                                    *)
LEMMA ChildrenApart ==
    ASSUME NEW p \in Line, NEW m \in Legal, NEW n \in Legal, m # n
    PROVE  Apart(Append(p, m), Append(p, n))
<1>1. Len(p) \in Nat /\ Len(Append(p, m)) = Len(p) + 1 /\ Len(Append(p, n)) = Len(p) + 1
    BY DEF Line
<1>2. Append(p, m)[Len(p) + 1] = m /\ Append(p, n)[Len(p) + 1] = n
    BY DEF Line
<1>3. Len(p) + 1 \in 1..Len(Append(p, m))
    BY <1>1
<1> QED
    BY <1>1, <1>2, <1>3 DEF Apart

(* Adding a line at the end.                                               *)
LEMMA AppendLine ==
    ASSUME NEW s \in Seq(Line), NEW x \in Line
    PROVE  /\ Append(s, x) \in Seq(Line) /\ DOMAIN Append(s, x) = 1..(Len(s) + 1)
           /\ Len(s) \in Nat /\ DOMAIN s = 1..Len(s)
           /\ Append(s, x)[Len(s) + 1] = x
           /\ \A i \in DOMAIN s : Append(s, x)[i] = s[i]
OBVIOUS

(* The invariant holds of the root alone.                                  *)
LEMMA InvInit == Init => SynthesisInv
<1> SUFFICES ASSUME Init PROVE SynthesisInv
    OBVIOUS
<1> DEFINE c == [line |-> Root, budget |-> budget]
<1>1. stack \in Seq({c}) /\ DOMAIN stack = {1} /\ stack[1] = c
    BY DEF Init
<1>2. IsSequence(stack)
    BY <1>1, SequenceOfOwn
<1>3. Playable(stack[1].line)
    BY <1>1, SynthesisAssumption DEF Playable, Root, Line, SynthesisAssumption
<1>4. lines = << >> /\ done = FALSE
    BY DEF Init
<1>5. LinesApart
    BY <1>1, <1>4 DEF LinesApart
<1> QED
    BY <1>1, <1>2, <1>3, <1>4, <1>5 DEF SynthesisInv

(* A call whose line is kept, as it is or played on: what was apart from   *)
(* the line of the call stays apart from it.                               *)
LEMMA InvKeeps ==
    ASSUME SynthesisInv, stack # << >>, NEW r \in Line,
           Playable(call.line \o r), call.line \o r # << >>,
           stack' = Tail(stack), lines' = Append(lines, call.line \o r), done' = done
    PROVE  SynthesisInv'
<1> DEFINE x == call.line \o r
<1>1. /\ IsSequence(stack') /\ Len(stack) \in Nat \ {0} /\ DOMAIN stack = 1..Len(stack)
      /\ call = stack[1] /\ 1 \in DOMAIN stack
      /\ DOMAIN stack' = 1..(Len(stack) - 1)
      /\ \A i \in DOMAIN stack' : i + 1 \in DOMAIN stack /\ stack'[i] = stack[i + 1]
    BY TailIsSequence DEF SynthesisInv, call
<1>2. x \in Line /\ call.line \in Line
    BY <1>1 DEF Playable, SynthesisInv
<1>3. /\ lines' \in Seq(Line) /\ DOMAIN lines' = 1..(Len(lines) + 1)
      /\ Len(lines) \in Nat /\ DOMAIN lines = 1..Len(lines)
      /\ lines'[Len(lines) + 1] = x
      /\ \A i \in DOMAIN lines : lines'[i] = lines[i]
    BY <1>2, AppendLine DEF SynthesisInv
<1>4. ~ done
    BY DEF SynthesisInv
<1>5. \A i \in DOMAIN lines : Apart(lines[i], x) /\ Apart(x, lines[i])
    BY <1>1, <1>2, ApartExtends DEF SynthesisInv, LinesApart, Playable
<1>6. \A j \in DOMAIN stack' : Apart(x, stack'[j].line)
    <2> SUFFICES ASSUME NEW j \in DOMAIN stack' PROVE Apart(x, stack'[j].line)
        OBVIOUS
    <2>1. j + 1 \in DOMAIN stack /\ j + 1 # 1 /\ stack'[j] = stack[j + 1]
        BY <1>1
    <2>2. Apart(stack[j + 1].line, stack[1].line)
        BY <1>1, <2>1 DEF SynthesisInv, LinesApart
    <2>3. stack[j + 1].line \in Line
        BY <2>1 DEF SynthesisInv, Playable
    <2>4. Apart(stack[j + 1].line, call.line)
        BY <1>1, <2>2
    <2> QED
        BY <1>2, <2>1, <2>3, <2>4, ApartExtends
<1>7. \A i, j \in DOMAIN lines' : i # j => Apart(lines'[i], lines'[j])
    BY <1>3, <1>5 DEF SynthesisInv, LinesApart
<1>8. \A i \in DOMAIN lines', j \in DOMAIN stack' : Apart(lines'[i], stack'[j].line)
    BY <1>1, <1>3, <1>6 DEF SynthesisInv, LinesApart
<1>9. \A i, j \in DOMAIN stack' : i # j => Apart(stack'[i].line, stack'[j].line)
    <2> SUFFICES ASSUME NEW i \in DOMAIN stack', NEW j \in DOMAIN stack', i # j
                 PROVE  Apart(stack'[i].line, stack'[j].line)
        OBVIOUS
    <2>1. i + 1 \in DOMAIN stack /\ j + 1 \in DOMAIN stack /\ i + 1 # j + 1
        BY <1>1
    <2> QED
        BY <1>1, <2>1 DEF SynthesisInv, LinesApart
<1>10. \A i \in DOMAIN stack' : Playable(stack'[i].line)
    BY <1>1 DEF SynthesisInv
<1>11. \A i \in DOMAIN lines' : Playable(lines'[i]) /\ lines'[i] # << >>
    BY <1>3 DEF SynthesisInv
<1> QED
    BY <1>1, <1>3, <1>4, <1>7, <1>8, <1>9, <1>10, <1>11 DEF SynthesisInv, LinesApart, Playable

(* A call that leaves nothing behind.                                      *)
LEMMA InvDrops ==
    ASSUME SynthesisInv, stack # << >>,
           stack' = Tail(stack), lines' = lines, done' = done
    PROVE  SynthesisInv'
<1>1. /\ IsSequence(stack') /\ Len(stack) \in Nat \ {0} /\ DOMAIN stack = 1..Len(stack)
      /\ DOMAIN stack' = 1..(Len(stack) - 1)
      /\ \A i \in DOMAIN stack' : i + 1 \in DOMAIN stack /\ stack'[i] = stack[i + 1]
    BY TailIsSequence DEF SynthesisInv
<1>2. \A i, j \in DOMAIN stack' : i # j => Apart(stack'[i].line, stack'[j].line)
    <2> SUFFICES ASSUME NEW i \in DOMAIN stack', NEW j \in DOMAIN stack', i # j
                 PROVE  Apart(stack'[i].line, stack'[j].line)
        OBVIOUS
    <2>1. i + 1 \in DOMAIN stack /\ j + 1 \in DOMAIN stack /\ i + 1 # j + 1
        BY <1>1
    <2> QED
        BY <1>1, <2>1 DEF SynthesisInv, LinesApart
<1>3. \A i \in DOMAIN lines', j \in DOMAIN stack' : Apart(lines'[i], stack'[j].line)
    BY <1>1 DEF SynthesisInv, LinesApart
<1>4. \A i \in DOMAIN stack' : Playable(stack'[i].line)
    BY <1>1 DEF SynthesisInv
<1> QED
    BY <1>1, <1>2, <1>3, <1>4 DEF SynthesisInv, LinesApart, Playable

(* A call that branches: its children are apart from each other, and from  *)
(* whatever it was apart from.                                             *)
LEMMA InvBranch ==
    ASSUME SynthesisInv, stack # << >>, call.line \notin Over, Len(call.line) < MaxTreeDepth,
           NEW n \in Nat, NEW moves \in [1..n -> Legal], NEW shares,
           \A i, j \in 1..n : i # j => moves[i] # moves[j],
           stack' = Calls(call, moves, shares) \o Tail(stack), lines' = lines, done' = done
    PROVE  SynthesisInv'
<1> DEFINE p == call.line
           c == Calls(call, moves, shares)
           t == Tail(stack)
           old(q) == IF q <= n THEN 1 ELSE q - n + 1
<1>1. /\ IsSequence(t) /\ Len(stack) \in Nat \ {0} /\ DOMAIN stack = 1..Len(stack)
      /\ call = stack[1] /\ 1 \in DOMAIN stack /\ Len(t) = Len(stack) - 1
      /\ \A i \in 1..(Len(stack) - 1) : i + 1 \in DOMAIN stack /\ t[i] = stack[i + 1]
    BY TailIsSequence DEF SynthesisInv, call
<1>2. p \in Line /\ Len(p) \in Nat /\ Playable(p)
    <2>1. Playable(p)
        BY <1>1 DEF SynthesisInv
    <2>2. p \in Line
        BY <2>1 DEF Playable
    <2> QED
        BY <2>1, <2>2 DEF Line
<1>3. /\ IsSequence(c) /\ Len(c) = n /\ DOMAIN c = 1..n
      /\ \A i \in 1..n : c[i].line = Append(p, moves[i]) /\ moves[i] \in Legal
    <2>1. c = [i \in 1..n |-> [line |-> Append(p, moves[i]), budget |-> shares[i]]]
        BY DEF Calls
    <2>2. c \in Seq({c[i] : i \in 1..n}) /\ DOMAIN c = 1..n /\ Len(c) = n
        <3> DEFINE S == {c[i] : i \in 1..n}
        <3>1. DOMAIN c = 1..n /\ c \in [1..n -> S]
            BY <2>1
        <3> HIDE DEF S, c
        <3>2. c \in Seq(S)
            BY <3>1, SeqDef
        <3> QED
            BY <3>1, <3>2, LenProperties DEF S
    <2>3. \A i \in 1..n : c[i].line = Append(p, moves[i]) /\ moves[i] \in Legal
        BY <2>1
    <2> HIDE DEF c, p
    <2> QED
        BY <2>2, <2>3 DEF IsSequence
<1> HIDE DEF c, t
<1>4. /\ IsSequence(c \o t) /\ DOMAIN (c \o t) = 1..(n + Len(stack) - 1)
      /\ \A q \in 1..n : (c \o t)[q] = c[q]
      /\ \A q \in (n + 1)..(n + Len(stack) - 1) : (c \o t)[q] = t[q - n]
    <2>1. /\ IsSequence(c \o t) /\ DOMAIN (c \o t) = 1..(n + Len(t))
          /\ \A q \in 1..n : (c \o t)[q] = c[q]
          /\ \A q \in (n + 1)..(n + Len(t)) : (c \o t)[q] = t[q - n]
        BY <1>1, <1>3, ConcatIsSequence
    <2>2. n + Len(t) = n + Len(stack) - 1
        BY <1>1
    <2> QED
        BY <2>1, <2>2
<1>5. stack' = c \o t
    BY DEF c, t
<1>6. \A q \in DOMAIN stack' :
         /\ old(q) \in DOMAIN stack
         /\ q <= n => q \in 1..n /\ stack'[q].line = Append(p, moves[q])
         /\ ~ (q <= n) => stack'[q] = stack[old(q)] /\ old(q) # 1
    <2> SUFFICES ASSUME NEW q \in DOMAIN stack'
                 PROVE  /\ old(q) \in DOMAIN stack
                        /\ q <= n => q \in 1..n /\ stack'[q].line = Append(p, moves[q])
                        /\ ~ (q <= n) => stack'[q] = stack[old(q)] /\ old(q) # 1
        OBVIOUS
    <2>1. CASE q <= n
        <3>1. q \in 1..n
            BY <1>1, <1>4, <1>5, <2>1
        <3>2. stack'[q] = c[q]
            BY <1>4, <1>5, <3>1
        <3>3. old(q) \in DOMAIN stack
            BY <1>1, <2>1
        <3> HIDE DEF old, p
        <3> QED
            BY <1>3, <2>1, <3>1, <3>2, <3>3
    <2>2. CASE ~ (q <= n)
        <3>1. q \in (n + 1)..(n + Len(stack) - 1) /\ q - n \in 1..(Len(stack) - 1)
            BY <1>1, <1>4, <1>5, <2>2
        <3>2. t[q - n] = stack[(q - n) + 1] /\ (q - n) + 1 \in DOMAIN stack
            BY <1>1, <3>1
        <3>3. old(q) = (q - n) + 1 /\ old(q) # 1
            BY <2>2, <3>1
        <3> QED
            BY <1>4, <1>5, <2>2, <3>1, <3>2, <3>3
    <2> QED
        BY <2>1, <2>2
<1>7. \A q \in DOMAIN stack' : Playable(stack'[q].line)
    <2> SUFFICES ASSUME NEW q \in DOMAIN stack' PROVE Playable(stack'[q].line)
        OBVIOUS
    <2>1. CASE q <= n
        <3>1. PICK m \in Legal : stack'[q].line = Append(p, m)
            BY <1>3, <1>6, <2>1
        <3>2. Append(p, m) \in Line /\ Len(Append(p, m)) = Len(p) + 1
            BY <1>2 DEF Line
        <3>3. \A pos \in 0..Len(p) : SubSeq(Append(p, m), 1, pos) = SubSeq(p, 1, pos)
            BY <1>2 DEF Line
        <3>4. SubSeq(p, 1, Len(p)) = p
            BY <1>2 DEF Line
        <3>5. \A pos \in 0..Len(p) : SubSeq(p, 1, pos) \notin Over
            <4> SUFFICES ASSUME NEW pos \in 0..Len(p) PROVE SubSeq(p, 1, pos) \notin Over
                OBVIOUS
            <4>1. CASE pos = Len(p)
                BY <3>4, <4>1
            <4>2. CASE pos # Len(p)
                <5>1. pos \in 0..(Len(p) - 1)
                    BY <1>2, <4>2
                <5> QED
                    BY <1>2, <5>1 DEF Playable
            <4> QED
                BY <4>1, <4>2
        <3>6. Len(p) + 1 <= MaxTreeDepth /\ (Len(p) + 1) - 1 = Len(p)
            BY <1>2, SynthesisAssumption DEF SynthesisAssumption
        <3> QED
            BY <3>1, <3>2, <3>3, <3>5, <3>6 DEF Playable
    <2>2. CASE ~ (q <= n)
        BY <1>6, <2>2 DEF SynthesisInv
    <2> QED
        BY <2>1, <2>2
<1>8. \A a \in Line, q \in DOMAIN stack' :
         Apart(a, stack[old(q)].line) => Apart(a, stack'[q].line) /\ Apart(stack'[q].line, a)
    <2> SUFFICES ASSUME NEW a \in Line, NEW q \in DOMAIN stack', Apart(a, stack[old(q)].line)
                 PROVE  Apart(a, stack'[q].line) /\ Apart(stack'[q].line, a)
        OBVIOUS
    <2>1. CASE q <= n
        <3>1. Apart(a, p)
            BY <1>1, <2>1
        <3>2. moves[q] \in Legal /\ stack'[q].line = Append(p, moves[q])
            BY <1>3, <1>6, <2>1
        <3> HIDE DEF p
        <3> QED
            BY <1>2, <3>1, <3>2, ApartAppends
    <2>2. CASE ~ (q <= n)
        <3>1. Apart(a, stack'[q].line) /\ stack'[q].line \in Line
            BY <1>6, <1>7, <2>2 DEF Playable
        <3>2. << >> \in Line /\ stack'[q].line \o << >> = stack'[q].line
            BY <3>1 DEF Line
        <3> QED
            BY <3>1, <3>2, ApartExtends
    <2> QED
        BY <2>1, <2>2
<1>9. \A i \in DOMAIN lines', j \in DOMAIN stack' : Apart(lines'[i], stack'[j].line)
    BY <1>6, <1>8 DEF SynthesisInv, LinesApart, Playable
<1>10. \A i, j \in DOMAIN stack' : i # j => Apart(stack'[i].line, stack'[j].line)
    <2> SUFFICES ASSUME NEW i \in DOMAIN stack', NEW j \in DOMAIN stack', i # j
                 PROVE  Apart(stack'[i].line, stack'[j].line)
        OBVIOUS
    <2>0. stack'[i].line \in Line /\ stack'[j].line \in Line
        BY <1>7 DEF Playable
    <2>1. CASE i <= n /\ j <= n
        <3>1. i \in 1..n /\ j \in 1..n
            BY <1>6, <2>1
        <3>2. moves[i] \in Legal /\ moves[j] \in Legal /\ moves[i] # moves[j]
            BY <1>3, <3>1
        <3>3. stack'[i].line = Append(p, moves[i]) /\ stack'[j].line = Append(p, moves[j])
            BY <1>6, <2>1
        <3> HIDE DEF p
        <3> QED
            BY <1>2, <3>2, <3>3, ChildrenApart
    <2>2. CASE i <= n /\ ~ (j <= n)
        <3>1. old(i) = 1 /\ old(j) # 1 /\ old(j) \in DOMAIN stack /\ stack'[j] = stack[old(j)]
            BY <1>6, <2>2
        <3>2. Apart(stack[old(j)].line, stack[1].line)
            BY <1>1, <3>1 DEF SynthesisInv, LinesApart
        <3>3. Apart(stack'[j].line, stack[old(i)].line)
            BY <3>1, <3>2
        <3> QED
            BY <1>8, <2>0, <3>3
    <2>3. CASE ~ (i <= n) /\ j <= n
        <3>1. old(j) = 1 /\ old(i) # 1 /\ old(i) \in DOMAIN stack /\ stack'[i] = stack[old(i)]
            BY <1>6, <2>3
        <3>2. Apart(stack[old(i)].line, stack[1].line)
            BY <1>1, <3>1 DEF SynthesisInv, LinesApart
        <3>3. Apart(stack'[i].line, stack[old(j)].line)
            BY <3>1, <3>2
        <3> QED
            BY <1>8, <2>0, <3>3
    <2>4. CASE ~ (i <= n) /\ ~ (j <= n)
        <3>1. old(i) # old(j)
            BY <1>1, <1>4, <1>5, <2>4
        <3> QED
            BY <1>6, <2>4, <3>1 DEF SynthesisInv, LinesApart
    <2> QED
        BY <2>1, <2>2, <2>3, <2>4
<1>11. ~ done
    BY DEF SynthesisInv
<1> HIDE DEF old
<1> QED
    BY <1>4, <1>5, <1>7, <1>9, <1>10, <1>11 DEF SynthesisInv, LinesApart, Playable

(* A call that returns with its own line.                                  *)
LEMMA InvStop == SynthesisInv /\ Stop => SynthesisInv'
<1> SUFFICES ASSUME SynthesisInv, Stop PROVE SynthesisInv'
    OBVIOUS
<1>1. stack # << >> /\ stack' = Tail(stack) /\ done' = done
    BY DEF Stop
<1>2. call = stack[1] /\ 1 \in DOMAIN stack
    BY <1>1, TailIsSequence DEF SynthesisInv, call
<1>3. Playable(call.line) /\ call.line \in Line
    BY <1>2 DEF SynthesisInv, Playable
<1>4. CASE call.line = Root
    BY <1>1, <1>4, InvDrops DEF Stop, Keep
<1>5. CASE call.line # Root
    <2>1. << >> \in Line /\ call.line \o << >> = call.line
        BY <1>3 DEF Line
    <2>2. lines' = Append(lines, call.line)
        BY <1>5 DEF Stop, Keep
    <2>3. call.line # << >>
        BY <1>5 DEF Root
    <2> QED
        BY <1>1, <1>3, <2>1, <2>2, <2>3, InvKeeps
<1> QED
    BY <1>4, <1>5

(* A call that follows one line.                                           *)
LEMMA InvRollout == SynthesisInv /\ Rollout => SynthesisInv'
<1> SUFFICES ASSUME SynthesisInv, Rollout PROVE SynthesisInv'
    OBVIOUS
<1>1. stack # << >> /\ stack' = Tail(stack) /\ done' = done /\ call.line # Root
    BY DEF Rollout
<1>2. call = stack[1] /\ 1 \in DOMAIN stack
    BY <1>1, TailIsSequence DEF SynthesisInv, call
<1> DEFINE p == call.line
<1>3. Playable(p) /\ p \in Line /\ p # << >> /\ Len(p) \in Nat
    BY <1>1, <1>2 DEF SynthesisInv, Playable, Root, Line
<1>4. PICK r \in Rollouts(call) : lines' = Append(lines, p \o r)
    BY DEF Rollout
<1>5. /\ r \in Line /\ Len(r) \in Nat /\ Len(p) + Len(r) <= MaxTreeDepth
      /\ \A n \in 0..(Len(r) - 1) : p \o SubSeq(r, 1, n) \notin Over
    <2>1. PICK n \in 0..MaxTreeDepth : r \in [1..n -> Legal]
        BY <1>4 DEF Rollouts
    <2>2. r \in Line
        BY <2>1, SeqDef DEF Line
    <2> QED
        BY <1>4, <2>2 DEF Rollouts, Line
<1> HIDE DEF p
<1>6. p \o r \in Line /\ Len(p \o r) = Len(p) + Len(r) /\ p \o r # << >>
    BY <1>3, <1>5 DEF Line
<1>7. \A n \in 0..(Len(p \o r) - 1) : SubSeq(p \o r, 1, n) \notin Over
    <2> SUFFICES ASSUME NEW n \in 0..(Len(p \o r) - 1) PROVE SubSeq(p \o r, 1, n) \notin Over
        OBVIOUS
    <2>1. CASE n < Len(p)
        <3>1. SubSeq(p \o r, 1, n) = SubSeq(p, 1, n) /\ n \in 0..(Len(p) - 1)
            BY <1>3, <1>5, <2>1 DEF Line
        <3> QED
            BY <1>3, <3>1 DEF Playable
    <2>2. CASE n >= Len(p)
        <3>1. n - Len(p) \in 0..(Len(r) - 1)
            BY <1>3, <1>5, <1>6, <2>2
        <3>2. SubSeq(p \o r, 1, n) = p \o SubSeq(r, 1, n - Len(p))
            BY <1>3, <1>5, <1>6, <2>2, <3>1 DEF Line
        <3> QED
            BY <1>5, <3>1, <3>2
    <2> QED
        BY <1>3, <1>6, <2>1, <2>2
<1>8. Playable(p \o r)
    BY <1>5, <1>6, <1>7 DEF Playable
<1> QED
    BY <1>1, <1>4, <1>5, <1>6, <1>8, InvKeeps DEF p

(* A call is replaced by the calls for its children.                       *)
LEMMA BranchKeeps == SynthesisInv /\ Branch => SynthesisInv'
<1> SUFFICES ASSUME SynthesisInv, Branch PROVE SynthesisInv'
    OBVIOUS
<1>1. PICK moves \in Selections :
         \E weights \in [DOMAIN moves -> 1..MaxWeight] :
             stack' = Calls(call, moves, Budgets(weights, ChildTotal(call))) \o Tail(stack)
    BY DEF Branch
<1>2. PICK shares : stack' = Calls(call, moves, shares) \o Tail(stack)
    BY <1>1
<1>3. PICK n \in 1..MaxCandidates : moves \in [1..n -> Legal]
    BY <1>1 DEF Selections
<1>4. \A i, j \in 1..n : i # j => moves[i] # moves[j]
    BY <1>1, <1>3 DEF Selections
<1>5. stack # << >> /\ call.line \notin Over /\ lines' = lines /\ done' = done
    BY DEF Branch
<1>6. call = stack[1] /\ 1 \in DOMAIN stack
    BY <1>5, TailIsSequence DEF SynthesisInv, call
<1>7. Len(call.line) \in Nat
    BY <1>6 DEF SynthesisInv, Playable, Line
<1>8. Len(call.line) < MaxTreeDepth
    BY <1>7, SynthesisAssumption DEF Branch, Exhausted, SynthesisAssumption
<1> QED
    BY <1>2, <1>3, <1>4, <1>5, <1>8, InvBranch

-----------------------------------------------------------------------------
(* Lines that are all different are left as they are.                      *)
LEMMA DedupKeeps ==
    ASSUME NEW ls \in Seq(Line), \A i, j \in DOMAIN ls : i # j => ls[i] # ls[j]
    PROVE  Dedup(ls) = ls
<1> DEFINE n == Len(ls)
           firsts == {i \in DOMAIN ls : \A j \in 1..(i - 1) : ls[j] # ls[i]}
           place(i) == Cardinality({j \in firsts : j <= i})
<1>1. n \in Nat /\ DOMAIN ls = 1..n /\ ls = [p \in 1..n |-> ls[p]]
    OBVIOUS
<1>2. firsts = 1..n
    <2> SUFFICES ASSUME NEW i \in 1..n, NEW j \in 1..(i - 1) PROVE ls[j] # ls[i]
        BY <1>1
    <2>1. j \in 1..n /\ j # i
        BY <1>1
    <2> QED
        BY <1>1, <2>1
<1> HIDE DEF firsts, n
<1>0. \A pos \in Nat : Cardinality(1..pos) = pos
    <2> SUFFICES ASSUME NEW pos \in Nat PROVE Cardinality(1..pos) = pos
        OBVIOUS
    <2>1. Cardinality(1..pos) = IF 1 > pos THEN 0 ELSE pos - 1 + 1
        BY FS_Interval, 1 \in Int, pos \in Int
    <2> QED
        BY <2>1
<1>3. Cardinality(firsts) = n
    BY <1>0, <1>1, <1>2
<1>4. \A i \in firsts : place(i) = i
    <2> SUFFICES ASSUME NEW i \in firsts PROVE place(i) = i
        OBVIOUS
    <2>1. {j \in firsts : j <= i} = 1..i
        BY <1>1, <1>2
    <2>2. Cardinality(1..i) = i
        BY <1>0, <1>1, <1>2
    <2> QED
        BY <2>1, <2>2
<1>5. \A p \in 1..n : (CHOOSE i \in firsts : place(i) = p) = p
    BY <1>2, <1>4
<1>6. Dedup(ls) = [p \in 1..Cardinality(firsts) |-> ls[CHOOSE i \in firsts : place(i) = p]]
    BY DEF Dedup, firsts
<1> HIDE DEF place
<1>7. Dedup(ls) = [p \in 1..n |-> ls[p]]
    BY <1>3, <1>5, <1>6
<1> QED
    BY <1>1, <1>7

(* The solution, as far as it is injected, is playable.                    *)
LEMMA SolutionPlayable ==
    ASSUME NEW solution \in SolutionLines
    PROVE  /\ Playable(solution)
           /\ solution # Root => Len(solution) \in Nat \ {0} /\ solution[1] = Solution[1]
<1>1. PICK n \in 0..Len(Solution) :
         /\ solution = SubSeq(Solution, 1, n) /\ n <= MaxTreeDepth
         /\ \A i \in 0..(n - 1) : SubSeq(Solution, 1, i) \notin Over
    BY DEF SolutionLines
<1>2. Solution \in Seq(Legal)
    BY SynthesisAssumption DEF SynthesisAssumption, Line
<1>3. solution \in Seq(Legal) /\ Len(solution) = n
    BY <1>1, <1>2
<1>4. \A pos \in 0..(n - 1) : SubSeq(solution, 1, pos) = SubSeq(Solution, 1, pos)
    BY <1>1, <1>2
<1>5. Playable(solution)
    BY <1>1, <1>3, <1>4 DEF Playable, Line
<1>6. solution # Root => n > 0
    BY <1>3 DEF Root
<1> QED
    BY <1>1, <1>2, <1>3, <1>5, <1>6

(* The solution joins the lines, and duplicates go.                        *)
LEMMA FinishKeeps == SynthesisInv /\ Finish => SynthesisInv'
<1> SUFFICES ASSUME SynthesisInv, Finish PROVE SynthesisInv'
    OBVIOUS
<1>1. PICK solution \in SolutionLines : lines' = Dedup(lines \o Injected(solution))
    BY DEF Finish
<1>2. stack = << >> /\ stack' = << >> /\ IsSequence(stack') /\ DOMAIN stack' = {}
    BY DEF Finish, SynthesisInv
<1> DEFINE all == lines \o Injected(solution)
<1>3. lines \in Seq(Line) /\ Len(lines) \in Nat /\ DOMAIN lines = 1..Len(lines)
    BY DEF SynthesisInv
<1>4. /\ all \in Seq(Line)
      /\ \A i \in DOMAIN all : Playable(all[i]) /\ all[i] # << >>
      /\ \A i, j \in DOMAIN all : i # j => Apart(all[i], all[j])
    <2>1. CASE Injected(solution) = << >>
        <3>1. all = lines
            BY <1>3, <2>1
        <3> QED
            BY <3>1 DEF SynthesisInv, LinesApart
    <2>2. CASE Injected(solution) = << solution >> /\ solution # Root
                 /\ \A i \in DOMAIN lines : lines[i][1] # Solution[1]
        <3>1. /\ Playable(solution) /\ solution \in Line /\ solution # << >>
              /\ Len(solution) \in Nat \ {0} /\ solution[1] = Solution[1]
            BY <2>2, SolutionPlayable DEF Playable, Root
        <3>2. all = Append(lines, solution)
            BY <1>3, <2>2, <3>1
        <3>3. /\ all \in Seq(Line) /\ DOMAIN all = 1..(Len(lines) + 1)
              /\ all[Len(lines) + 1] = solution
              /\ \A i \in DOMAIN lines : all[i] = lines[i]
            BY <1>3, <3>1, <3>2, AppendLine
        <3>4. \A i \in DOMAIN lines : Apart(lines[i], solution) /\ Apart(solution, lines[i])
            <4> SUFFICES ASSUME NEW i \in DOMAIN lines
                         PROVE  Apart(lines[i], solution) /\ Apart(solution, lines[i])
                OBVIOUS
            <4>1. lines[i] \in Seq(Legal) /\ lines[i] # << >>
                BY DEF SynthesisInv, Playable, Line
            <4>2. Len(lines[i]) \in Nat /\ 1 <= Len(lines[i])
                BY <4>1
            <4>3. lines[i][1] # solution[1]
                BY <2>2, <3>1
            <4> QED
                BY <3>1, <4>2, <4>3 DEF Apart
        <3> HIDE DEF all
        <3>5. \A i \in DOMAIN all : Playable(all[i]) /\ all[i] # << >>
            BY <1>3, <3>1, <3>3 DEF SynthesisInv
        <3>6. \A i, j \in DOMAIN all : i # j => Apart(all[i], all[j])
            BY <1>3, <3>3, <3>4 DEF SynthesisInv, LinesApart
        <3> QED
            BY <3>3, <3>5, <3>6
    <2> QED
        BY <2>1, <2>2 DEF Injected
<1> HIDE DEF all
<1>5. \A i, j \in DOMAIN all : i # j => all[i] # all[j]
    BY <1>4 DEF Apart
<1>6. lines' = all
    BY <1>1, <1>4, <1>5, DedupKeeps DEF all
<1>7. LinesApart'
    BY <1>2, <1>4, <1>6 DEF LinesApart, Apart
<1> QED
    BY <1>2, <1>4, <1>6, <1>7 DEF SynthesisInv, Playable

-----------------------------------------------------------------------------
(* The invariant of the recursion holds throughout, for every game, engine *)
(* and budget.                                                             *)
THEOREM SynthesisInvariant == Spec => []SynthesisInv
<1>1. SynthesisInv /\ [Next]_vars => SynthesisInv'
    <2> SUFFICES ASSUME SynthesisInv, [Next]_vars PROVE SynthesisInv'
        OBVIOUS
    <2>1. CASE Stop
        BY <2>1, InvStop
    <2>2. CASE Rollout
        BY <2>2, InvRollout
    <2>3. CASE Branch
        BY <2>3, BranchKeeps
    <2>4. CASE Finish
        BY <2>4, FinishKeeps
    <2>5. CASE UNCHANGED vars
        BY <2>5 DEF vars, SynthesisInv, LinesApart, Playable, Apart
    <2> QED
        BY <2>1, <2>2, <2>3, <2>4, <2>5 DEF Next
<1> QED
    BY <1>1, InvInit, PTL DEF Spec

(* What is kept is what the runs check.                                    *)
LEMMA SynthesisImplies == SynthesisInv => LinesSound
<1> SUFFICES ASSUME SynthesisInv, NEW i \in DOMAIN lines
             PROVE  /\ lines[i] \in Line /\ Len(lines[i]) \in 1..MaxTreeDepth
                    /\ \A n \in 1..(Len(lines[i]) - 1) : SubSeq(lines[i], 1, n) \notin Over
    BY DEF SynthesisInv, LinesSound, LinesPlayable
<1>1. Playable(lines[i]) /\ lines[i] # << >>
    BY DEF SynthesisInv
<1>2. lines[i] \in Seq(Legal)
    BY <1>1 DEF Playable, Line
<1>3. Len(lines[i]) \in Nat /\ Len(lines[i]) >= 1
    BY <1>1, <1>2
<1> QED
    BY <1>1, <1>3, SynthesisAssumption DEF Playable, SynthesisAssumption

(* No line is ever the beginning of another, so each ends in a leaf of its *)
(* own, and EXPAND yields no duplicates; and every line that is kept is    *)
(* played within the depth, and not after the game is over.                *)
THEOREM LinesAlwaysSound == Spec => []LinesSound
BY SynthesisInvariant, SynthesisImplies, PTL

-----------------------------------------------------------------------------
(* Sums over finite sets, in whatever order CHOOSE takes the elements.     *)

(* Induction over the subsets of a finite set.                             *)
LEMMA SubsetInduction ==
    ASSUME NEW S, IsFiniteSet(S), NEW Good,
           \A T \in SUBSET S : (\A U \in SUBSET T : U # T => U \in Good) => T \in Good
    PROVE  SUBSET S \subseteq Good
<1> DEFINE Bad == (SUBSET S) \ Good
           R == StrictSubsetOrdering(S)
<1>1. SUFFICES ASSUME Bad # {} PROVE FALSE
    OBVIOUS
<1>2. IsWellFoundedOn(R, FiniteSubsetsOf(S)) /\ FiniteSubsetsOf(S) = SUBSET S
    BY FS_StrictSubsetOrderingWellFounded, FS_FiniteSubsetsOfFinite
<1>3. Bad \subseteq FiniteSubsetsOf(S)
    BY <1>2
<1>4. PICK T \in Bad : \A U \in Bad : ~ (<<U, T>> \in R)
    <2> HIDE DEF R, Bad
    <2> QED
        BY <1>1, <1>2, <1>3, WFMin
<1>5. \A U \in SUBSET T : U # T => U \in Good
    <2> SUFFICES ASSUME NEW U \in SUBSET T, U # T, U \notin Good PROVE FALSE
        OBVIOUS
    <2>1. U \in Bad /\ <<U, T>> \in R
        BY <1>4 DEF StrictSubsetOrdering
    <2> QED
        BY <1>4, <2>1
<1>6. T \in SUBSET S /\ T \notin Good
    BY <1>4
<1> HIDE DEF Bad, R
<1>7. T \in Good
    BY <1>5, <1>6
<1> QED
    BY <1>6, <1>7

(* Induction over a finite set, element by element.                        *)
LEMMA ElementInduction ==
    ASSUME NEW S, IsFiniteSet(S), NEW Good, {} \in Good,
           \A T \in SUBSET S : \A x \in S \ T : T \in Good => T \cup {x} \in Good
    PROVE  S \in Good
<1>1. ASSUME NEW T \in SUBSET S, \A U \in SUBSET T : U # T => U \in Good
      PROVE  T \in Good
    <2>1. CASE T = {}
        BY <2>1
    <2>2. CASE T # {}
        <3>1. PICK x \in T : TRUE
            BY <2>2
        <3>2. T \ {x} \in SUBSET S /\ x \in S \ (T \ {x}) /\ T \ {x} \in Good
            BY <1>1, <3>1
        <3>3. (T \ {x}) \cup {x} = T
            BY <3>1
        <3> QED
            BY <3>2, <3>3
    <2> QED
        BY <2>1, <2>2
<1>2. SUBSET S \subseteq Good
    BY <1>1, SubsetInduction
<1> QED
    BY <1>2

(* Numbers to be added up.                                                 *)
Summable(f, S) == IsFiniteSet(S) /\ \A x \in S : f[x] \in Int

SumIn(f, S) == MapThenSumSet(LAMBDA i : f[i], S)

\* The element that is taken next.
Taken(S) == CHOOSE x \in S : TRUE

\* g holds the sums of the subsets of S.
SumsUp(g, f, S) ==
    \A T \in SUBSET S : g[T] = IF T = {} THEN 0 ELSE f[Taken(T)] + g[T \ {Taken(T)}]

(* There is such an element.                                               *)
LEMMA TakenIn == \A T : T # {} => Taken(T) \in T
BY DEF Taken

(* Two such functions agree on what both hold.                             *)
LEMMA SumsAgree ==
    ASSUME NEW S, IsFiniteSet(S), NEW T \in SUBSET S, NEW f, NEW g, NEW h,
           SumsUp(g, f, S), SumsUp(h, f, T)
    PROVE  \A U \in SUBSET T : g[U] = h[U]
<1> DEFINE Good == {U \in SUBSET T : g[U] = h[U]}
<1>1. IsFiniteSet(T)
    BY FS_Subset
<1>2. ASSUME NEW U \in SUBSET T, \A V \in SUBSET U : V # U => V \in Good
      PROVE  U \in Good
    <2>1. U # {} => U \ {Taken(U)} \in SUBSET U /\ U \ {Taken(U)} # U
        BY TakenIn
    <2>2. U # {} => g[U \ {Taken(U)}] = h[U \ {Taken(U)}]
        BY <1>2, <2>1
    <2>3. U \in SUBSET S
        OBVIOUS
    <2> QED
        BY <2>2, <2>3 DEF SumsUp
<1>3. SUBSET T \subseteq Good
    <2> HIDE DEF Good
    <2> QED
        BY <1>1, <1>2, SubsetInduction
<1> QED
    BY <1>3

(* There is one.                                                           *)
LEMMA SumsExist ==
    ASSUME NEW S, IsFiniteSet(S), NEW f, \A x \in S : f[x] \in Int
    PROVE  \E g \in [SUBSET S -> Int] : SumsUp(g, f, S)
<1> DEFINE Summed(T) == \E g \in [SUBSET T -> Int] : SumsUp(g, f, T)
           Good == {T \in SUBSET S : Summed(T)}
<1>1. ASSUME NEW T \in SUBSET S, \A U \in SUBSET T : U # T => U \in Good
      PROVE  T \in Good
    <2> DEFINE of(U) == CHOOSE h \in [SUBSET U -> Int] : SumsUp(h, f, U)
               rest == T \ {Taken(T)}
               top == IF T = {} THEN 0 ELSE f[Taken(T)] + of(rest)[rest]
               g == [U \in SUBSET T |-> IF U = T THEN top ELSE of(U)[U]]
    <2>1. \A U \in SUBSET T : U # T => of(U) \in [SUBSET U -> Int] /\ SumsUp(of(U), f, U)
        BY <1>1
    <2>2. \A U \in SUBSET T : U # T => IsFiniteSet(U)
        BY FS_Subset
    <2>3. T # {} => rest \in SUBSET T /\ rest # T /\ Taken(T) \in S
        BY TakenIn
    <2>4. ASSUME NEW U \in SUBSET T, U # T, U # {}
          PROVE  g[U] = f[Taken(U)] + g[U \ {Taken(U)}]
        <3> DEFINE V == U \ {Taken(U)}
        <3>1. V \in SUBSET U /\ V # U /\ V # T /\ V \in SUBSET T
            BY <2>4, TakenIn
        <3>2. of(U)[U] = f[Taken(U)] + of(U)[V]
            <4>1. SumsUp(of(U), f, U) /\ U \in SUBSET U
                BY <2>1, <2>4
            <4> HIDE DEF of
            <4> QED
                BY <2>4, <4>1 DEF SumsUp
        <3>3. of(U)[V] = of(V)[V]
            <4>1. SumsUp(of(U), f, U) /\ SumsUp(of(V), f, V) /\ IsFiniteSet(U)
                BY <2>1, <2>2, <2>4, <3>1
            <4> HIDE DEF of, V
            <4> QED
                BY <3>1, <4>1, SumsAgree
        <3> HIDE DEF of
        <3> QED
            BY <2>4, <3>1, <3>2, <3>3
    <2>5. g[T] = IF T = {} THEN 0 ELSE f[Taken(T)] + g[T \ {Taken(T)}]
        <3> HIDE DEF of
        <3> QED
            BY <2>3
    <2>6. T # {} => g[{}] = 0
        <3>1. ASSUME T # {}
              PROVE  of({})[{}] = 0
            <4>1. SumsUp(of({}), f, {}) /\ {} \in SUBSET {}
                BY <2>1, <3>1
            <4> HIDE DEF of
            <4> QED
                BY <4>1 DEF SumsUp
        <3> HIDE DEF of
        <3> QED
            BY <3>1
    <2>7. SumsUp(g, f, T)
        <3> HIDE DEF g
        <3> QED
            BY <2>4, <2>5, <2>6 DEF SumsUp
    <2>8. g \in [SUBSET T -> Int]
        <3>1. ASSUME NEW U \in SUBSET T, U # T
              PROVE  of(U)[U] \in Int
            BY <2>1, <3>1
        <3>2. top \in Int
            <4>1. T # {} => of(rest)[rest] \in Int
                <5> HIDE DEF of, rest
                <5> QED
                    BY <2>3, <3>1
            <4> HIDE DEF of, rest
            <4> QED
                BY <2>3, <4>1
        <3> HIDE DEF of, top
        <3> QED
            BY <3>1, <3>2
    <2> HIDE DEF g
    <2> QED
        BY <2>7, <2>8
<1>2. SUBSET S \subseteq Good
    <2> HIDE DEF Good
    <2> QED
        BY <1>1, SubsetInduction
<1> QED
    BY <1>2

(* So sums are added up.                                                   *)
LEMMA SumAddsUp ==
    ASSUME NEW S, NEW f, Summable(f, S)
    PROVE  \A T \in SUBSET S :
              /\ SumIn(f, T) \in Int
              /\ SumIn(f, T) = IF T = {} THEN 0 ELSE f[Taken(T)] + SumIn(f, T \ {Taken(T)})
<1> USE DEF Summable
<1>1. PICK g \in [SUBSET S -> Int] : SumsUp(g, f, S)
    BY SumsExist
<1>2. ASSUME NEW T \in SUBSET S
      PROVE  SumIn(f, T) = g[T]
    <2> DEFINE G(h) == h = [U \in SUBSET T |->
                              IF U = {} THEN 0 ELSE f[Taken(U)] + h[U \ {Taken(U)}]]
    <2>1. SumIn(f, T) = (CHOOSE h : G(h))[T]
        BY DEF SumIn, MapThenSumSet, MapThenFoldSet, Taken
    <2>2. \E h : G(h)
        <3> DEFINE h == [U \in SUBSET T |-> g[U]]
        <3>1. \A U \in SUBSET T : h[U] = IF U = {} THEN 0 ELSE f[Taken(U)] + h[U \ {Taken(U)}]
            <4>1. \A U \in SUBSET T : U \in SUBSET S /\ U \ {Taken(U)} \in SUBSET T
                OBVIOUS
            <4> QED
                BY <1>1, <4>1 DEF SumsUp
        <3>2. h = [U \in SUBSET T |-> h[U]]
            OBVIOUS
        <3> HIDE DEF h
        <3>3. G(h)
            BY <3>1, <3>2
        <3> HIDE DEF G
        <3> QED
            BY <3>3
    <2>3. PICK h : G(h) /\ SumIn(f, T) = h[T]
        <3> HIDE DEF G
        <3> QED
            BY <2>1, <2>2
    <2>4. SumsUp(h, f, T)
        BY <2>3 DEF SumsUp
    <2> HIDE DEF G
    <2> QED
        BY <1>1, <2>3, <2>4, SumsAgree
<1> HIDE DEF Summable
<1> SUFFICES ASSUME NEW T \in SUBSET S
             PROVE  /\ SumIn(f, T) \in Int
                    /\ SumIn(f, T) = IF T = {} THEN 0 ELSE f[Taken(T)] + SumIn(f, T \ {Taken(T)})
    OBVIOUS
<1>3. g[T] = IF T = {} THEN 0 ELSE f[Taken(T)] + g[T \ {Taken(T)}]
    BY <1>1 DEF SumsUp
<1>4. T \ {Taken(T)} \in SUBSET S /\ g[T] \in Int
    OBVIOUS
<1>5. SumIn(f, T) = g[T] /\ SumIn(f, T \ {Taken(T)}) = g[T \ {Taken(T)}]
    BY <1>2, <1>4
<1> QED
    BY <1>3, <1>4, <1>5

(* A sum is a number; without an element it is less by that element.       *)
LEMMA SumTake ==
    ASSUME NEW S, NEW f, Summable(f, S)
    PROVE  /\ SumIn(f, {}) = 0
           /\ SumIn(f, S) \in Int
           /\ \A x \in S : SumIn(f, S) = f[x] + SumIn(f, S \ {x})
<1>1. \A T \in SUBSET S :
         /\ SumIn(f, T) \in Int
         /\ SumIn(f, T) = IF T = {} THEN 0 ELSE f[Taken(T)] + SumIn(f, T \ {Taken(T)})
    BY SumAddsUp
<1>2. SumIn(f, {}) = 0
    BY <1>1
<1>3. \A T \in SUBSET S : SumIn(f, T) \in Int
    BY <1>1
<1>4. \A T \in SUBSET S : T # {} => SumIn(f, T) = f[Taken(T)] + SumIn(f, T \ {Taken(T)})
    BY <1>1
<1> DEFINE Good == {T \in SUBSET S : \A x \in T : SumIn(f, T) = f[x] + SumIn(f, T \ {x})}
<1>5. ASSUME NEW T \in SUBSET S, \A U \in SUBSET T : U # T => U \in Good
      PROVE  T \in Good
    <2> SUFFICES ASSUME NEW x \in T PROVE SumIn(f, T) = f[x] + SumIn(f, T \ {x})
        OBVIOUS
    <2> DEFINE y == Taken(T)
    <2>1. y \in T /\ SumIn(f, T) = f[y] + SumIn(f, T \ {y})
        BY <1>4, TakenIn
    <2>2. CASE x = y
        BY <2>1, <2>2
    <2>3. CASE x # y
        <3>1. T \ {x} \in Good /\ T \ {y} \in Good
            BY <1>5, <2>1
        <3>2. y \in T \ {x} /\ x \in T \ {y} /\ (T \ {x}) \ {y} = (T \ {y}) \ {x}
            BY <2>1, <2>3
        <3>3. SumIn(f, T \ {x}) = f[y] + SumIn(f, (T \ {x}) \ {y})
            BY <3>1, <3>2
        <3>4. SumIn(f, T \ {y}) = f[x] + SumIn(f, (T \ {x}) \ {y})
            BY <3>1, <3>2
        <3>5. f[x] \in Int /\ f[y] \in Int /\ SumIn(f, (T \ {x}) \ {y}) \in Int
            <4>1. (T \ {x}) \ {y} \in SUBSET S
                OBVIOUS
            <4> QED
                BY <1>3, <2>1, <4>1 DEF Summable
        <3> HIDE DEF y
        <3> QED
            BY <2>1, <3>3, <3>4, <3>5
    <2> QED
        BY <2>2, <2>3
<1>6. S \in Good
    <2> HIDE DEF Good
    <2> QED
        BY <1>5, SubsetInduction DEF Summable
<1> QED
    BY <1>2, <1>3, <1>6

(* One element more.                                                       *)
LEMMA SumAdd ==
    ASSUME NEW S, NEW f, Summable(f, S), NEW x, x \notin S, f[x] \in Int
    PROVE  SumIn(f, S \cup {x}) = SumIn(f, S) + f[x] /\ Summable(f, S \cup {x})
<1>1. Summable(f, S \cup {x})
    BY FS_AddElement DEF Summable
<1>2. SumIn(f, S \cup {x}) = f[x] + SumIn(f, (S \cup {x}) \ {x})
    BY <1>1, SumTake
<1>3. (S \cup {x}) \ {x} = S
    OBVIOUS
<1>4. SumIn(f, S \cup {x}) = f[x] + SumIn(f, S)
    BY <1>2, <1>3
<1>5. SumIn(f, S) \in Int
    BY SumTake
<1> QED
    BY <1>1, <1>4, <1>5

(* Parts of a set that can be summed.                                      *)
LEMMA SummableSubset ==
    ASSUME NEW S, NEW f, Summable(f, S), NEW T \in SUBSET S
    PROVE  Summable(f, T)
BY FS_Subset DEF Summable

(* The sum is that of the values only.                                     *)
LEMMA SumSame ==
    ASSUME NEW S, NEW f, NEW h, Summable(f, S), \A x \in S : f[x] = h[x]
    PROVE  SumIn(f, S) = SumIn(h, S)
<1> DEFINE Good == {T \in SUBSET S : SumIn(f, T) = SumIn(h, T)}
<1>1. Summable(h, S)
    BY DEF Summable
<1>2. SumIn(f, {}) = 0 /\ SumIn(h, {}) = 0
    BY <1>1, SumTake
<1>3. ASSUME NEW T \in SUBSET S, NEW x \in S \ T, SumIn(f, T) = SumIn(h, T)
      PROVE  SumIn(f, T \cup {x}) = SumIn(h, T \cup {x})
    <2>1. Summable(f, T) /\ Summable(h, T) /\ f[x] \in Int /\ h[x] = f[x]
        BY <1>1, SummableSubset DEF Summable
    <2>2. SumIn(f, T \cup {x}) = SumIn(f, T) + f[x]
        BY <2>1, SumAdd
    <2>3. SumIn(h, T \cup {x}) = SumIn(h, T) + h[x]
        BY <2>1, SumAdd
    <2> QED
        BY <1>3, <2>1, <2>2, <2>3
<1>4. {} \in Good /\ \A T \in SUBSET S : \A x \in S \ T : T \in Good => T \cup {x} \in Good
    BY <1>2, <1>3
<1>5. S \in Good
    <2> HIDE DEF Good
    <2> QED
        BY <1>4, ElementInduction DEF Summable
<1> QED
    BY <1>5

(* The sum of sums.                                                        *)
LEMMA SumPlus ==
    ASSUME NEW S, NEW f, NEW g, NEW h, Summable(f, S), Summable(g, S),
           \A x \in S : h[x] = f[x] + g[x]
    PROVE  SumIn(h, S) = SumIn(f, S) + SumIn(g, S) /\ Summable(h, S)
<1> DEFINE Good == {T \in SUBSET S : SumIn(h, T) = SumIn(f, T) + SumIn(g, T)}
<1>1. Summable(h, S)
    BY DEF Summable
<1>2. SumIn(f, {}) = 0 /\ SumIn(g, {}) = 0 /\ SumIn(h, {}) = 0
    BY <1>1, SumTake
<1>3. ASSUME NEW T \in SUBSET S, NEW x \in S \ T, SumIn(h, T) = SumIn(f, T) + SumIn(g, T)
      PROVE  SumIn(h, T \cup {x}) = SumIn(f, T \cup {x}) + SumIn(g, T \cup {x})
    <2>1. Summable(f, T) /\ Summable(g, T) /\ Summable(h, T)
        BY <1>1, SummableSubset
    <2>2. f[x] \in Int /\ g[x] \in Int /\ h[x] \in Int /\ h[x] = f[x] + g[x]
        BY DEF Summable
    <2>3. SumIn(f, T \cup {x}) = SumIn(f, T) + f[x] /\ SumIn(f, T) \in Int
        BY <2>1, <2>2, SumAdd, SumTake
    <2>4. SumIn(g, T \cup {x}) = SumIn(g, T) + g[x] /\ SumIn(g, T) \in Int
        BY <2>1, <2>2, SumAdd, SumTake
    <2>5. SumIn(h, T \cup {x}) = SumIn(h, T) + h[x]
        BY <2>1, <2>2, SumAdd
    <2> QED
        BY <1>3, <2>2, <2>3, <2>4, <2>5
<1>4. {} \in Good /\ \A T \in SUBSET S : \A x \in S \ T : T \in Good => T \cup {x} \in Good
    BY <1>2, <1>3
<1>5. S \in Good
    <2> HIDE DEF Good
    <2> QED
        BY <1>4, ElementInduction DEF Summable
<1> QED
    BY <1>1, <1>5

(* A multiple of a sum.                                                    *)
LEMMA SumTimes ==
    ASSUME NEW S, NEW f, NEW h, NEW c \in Int, Summable(f, S), \A x \in S : h[x] = f[x] * c
    PROVE  SumIn(h, S) = SumIn(f, S) * c /\ Summable(h, S)
<1> DEFINE Good == {T \in SUBSET S : SumIn(h, T) = SumIn(f, T) * c}
<1>1. Summable(h, S)
    BY DEF Summable
<1>2. SumIn(f, {}) = 0 /\ SumIn(h, {}) = 0 /\ 0 * c = 0
    BY <1>1, SumTake
<1>3. ASSUME NEW T \in SUBSET S, NEW x \in S \ T, SumIn(h, T) = SumIn(f, T) * c
      PROVE  SumIn(h, T \cup {x}) = SumIn(f, T \cup {x}) * c
    <2>1. Summable(f, T) /\ Summable(h, T) /\ f[x] \in Int /\ h[x] \in Int /\ h[x] = f[x] * c
        BY <1>1, SummableSubset DEF Summable
    <2>2. SumIn(f, T \cup {x}) = SumIn(f, T) + f[x] /\ SumIn(f, T) \in Int
        BY <2>1, SumAdd, SumTake
    <2>3. SumIn(h, T \cup {x}) = SumIn(h, T) + h[x]
        BY <2>1, SumAdd
    <2>4. (SumIn(f, T) + f[x]) * c = SumIn(f, T) * c + f[x] * c
        BY <2>1, <2>2
    <2> QED
        BY <1>3, <2>1, <2>2, <2>3, <2>4
<1>4. {} \in Good /\ \A T \in SUBSET S : \A x \in S \ T : T \in Good => T \cup {x} \in Good
    BY <1>2, <1>3
<1>5. S \in Good
    <2> HIDE DEF Good
    <2> QED
        BY <1>4, ElementInduction DEF Summable
<1> QED
    BY <1>1, <1>5

(* What is less element by element has the lesser sum; and strictly so if  *)
(* it is less everywhere.                                                  *)
LEMMA SumLess ==
    ASSUME NEW S, NEW f, NEW h, Summable(f, S), Summable(h, S)
    PROVE  /\ (\A x \in S : f[x] <= h[x]) => SumIn(f, S) <= SumIn(h, S)
           /\ (\A x \in S : f[x] < h[x]) /\ S # {} => SumIn(f, S) < SumIn(h, S)
<1>1. SumIn(f, {}) = 0 /\ SumIn(h, {}) = 0
    BY SumTake
<1>2. ASSUME NEW T \in SUBSET S, NEW x \in S \ T
      PROVE  /\ SumIn(f, T \cup {x}) = SumIn(f, T) + f[x]
             /\ SumIn(h, T \cup {x}) = SumIn(h, T) + h[x]
             /\ SumIn(f, T) \in Int /\ SumIn(h, T) \in Int /\ f[x] \in Int /\ h[x] \in Int
    <2>1. Summable(f, T) /\ Summable(h, T) /\ f[x] \in Int /\ h[x] \in Int
        BY SummableSubset DEF Summable
    <2>2. SumIn(f, T \cup {x}) = SumIn(f, T) + f[x] /\ SumIn(f, T) \in Int
        BY <2>1, SumAdd, SumTake
    <2>3. SumIn(h, T \cup {x}) = SumIn(h, T) + h[x] /\ SumIn(h, T) \in Int
        BY <2>1, SumAdd, SumTake
    <2> QED
        BY <2>1, <2>2, <2>3
<1>3. ASSUME \A x \in S : f[x] <= h[x]
      PROVE  SumIn(f, S) <= SumIn(h, S)
    <2> DEFINE Good == {T \in SUBSET S : SumIn(f, T) <= SumIn(h, T)}
    <2>1. {} \in Good
        BY <1>1
    <2>2. ASSUME NEW T \in SUBSET S, NEW x \in S \ T, T \in Good
          PROVE  T \cup {x} \in Good
        <3>1. f[x] <= h[x] /\ SumIn(f, T) <= SumIn(h, T) /\ T \cup {x} \in SUBSET S
            BY <1>3, <2>2
        <3> QED
            BY <1>2, <3>1
    <2>3. S \in Good
        <3> HIDE DEF Good
        <3> QED
            BY <2>1, <2>2, ElementInduction DEF Summable
    <2> QED
        BY <2>3
<1>4. ASSUME \A x \in S : f[x] < h[x], S # {}
      PROVE  SumIn(f, S) < SumIn(h, S)
    <2> DEFINE Good == {T \in SUBSET S : T = {} \/ SumIn(f, T) < SumIn(h, T)}
    <2>1. {} \in Good
        OBVIOUS
    <2>2. ASSUME NEW T \in SUBSET S, NEW x \in S \ T, T \in Good
          PROVE  T \cup {x} \in Good
        <3>1. f[x] < h[x] /\ T \cup {x} \in SUBSET S
            BY <1>4
        <3>2. T = {} \/ SumIn(f, T) < SumIn(h, T)
            BY <2>2
        <3>3. SumIn(f, T \cup {x}) < SumIn(h, T \cup {x})
            BY <1>1, <1>2, <3>1, <3>2
        <3> QED
            BY <3>1, <3>3
    <2>3. S \in Good
        <3> HIDE DEF Good
        <3> QED
            BY <2>1, <2>2, ElementInduction DEF Summable
    <2> QED
        BY <1>4, <2>3
<1> QED
    BY <1>3, <1>4

(* One for each element of a part: its size.                               *)
LEMMA SumCounts ==
    ASSUME NEW S, IsFiniteSet(S), NEW P \in SUBSET S, NEW f,
           \A x \in S : f[x] = IF x \in P THEN 1 ELSE 0
    PROVE  SumIn(f, S) = Cardinality(P) /\ Summable(f, S)
<1> DEFINE Good == {T \in SUBSET S : SumIn(f, T) = Cardinality(T \cap P)}
<1>1. Summable(f, S)
    BY DEF Summable
<1>2. {} \in Good
    BY <1>1, SumTake, FS_EmptySet
<1>3. ASSUME NEW T \in SUBSET S, NEW x \in S \ T, SumIn(f, T) = Cardinality(T \cap P)
      PROVE  SumIn(f, T \cup {x}) = Cardinality((T \cup {x}) \cap P)
    <2>1. Summable(f, T) /\ f[x] \in Int
        BY <1>1, SummableSubset DEF Summable
    <2>2. SumIn(f, T \cup {x}) = SumIn(f, T) + f[x]
        BY <2>1, SumAdd
    <2>3. IsFiniteSet(T \cap P) /\ Cardinality(T \cap P) \in Nat
        BY FS_Subset, FS_CardinalityType
    <2>4. CASE x \in P
        <3>1. (T \cup {x}) \cap P = (T \cap P) \cup {x} /\ x \notin T \cap P
            BY <2>4
        <3>2. Cardinality((T \cap P) \cup {x}) = Cardinality(T \cap P) + 1
            BY <2>3, <3>1, FS_AddElement
        <3> QED
            BY <1>3, <2>2, <2>4, <3>1, <3>2
    <2>5. CASE x \notin P
        <3>1. (T \cup {x}) \cap P = T \cap P /\ f[x] = 0
            BY <2>5
        <3>2. SumIn(f, T \cup {x}) = Cardinality(T \cap P)
            BY <1>3, <2>2, <2>3, <3>1
        <3> QED
            BY <3>1, <3>2
    <2> QED
        BY <2>4, <2>5
<1>4. \A T \in SUBSET S : \A x \in S \ T : T \in Good => T \cup {x} \in Good
    BY <1>3
<1>5. S \in Good
    <2> HIDE DEF Good
    <2> QED
        BY <1>2, <1>4, ElementInduction
<1>6. S \cap P = P
    OBVIOUS
<1> QED
    BY <1>1, <1>5, <1>6

(* The sum of a union of sets that have nothing in common.                 *)
LEMMA SumUnion ==
    ASSUME NEW A, NEW B, NEW f, Summable(f, A), Summable(f, B), A \cap B = {}
    PROVE  SumIn(f, A \cup B) = SumIn(f, A) + SumIn(f, B) /\ Summable(f, A \cup B)
<1> DEFINE Good == {T \in SUBSET B : SumIn(f, A \cup T) = SumIn(f, A) + SumIn(f, T)}
<1>1. Summable(f, A \cup B)
    BY FS_Union DEF Summable
<1>2. {} \in Good
    <2>1. A \cup {} = A /\ SumIn(f, {}) = 0 /\ SumIn(f, A) \in Int
        BY SumTake
    <2> QED
        BY <2>1
<1>3. ASSUME NEW T \in SUBSET B, NEW x \in B \ T, SumIn(f, A \cup T) = SumIn(f, A) + SumIn(f, T)
      PROVE  SumIn(f, A \cup (T \cup {x})) = SumIn(f, A) + SumIn(f, T \cup {x})
    <2>1. Summable(f, T) /\ f[x] \in Int /\ SumIn(f, A) \in Int /\ SumIn(f, T) \in Int
        BY SummableSubset, SumTake DEF Summable
    <2>2. A \cup T \in SUBSET (A \cup B) /\ x \notin A \cup T /\ A \cup (T \cup {x}) = (A \cup T) \cup {x}
        OBVIOUS
    <2>3. Summable(f, A \cup T)
        BY <1>1, <2>2, SummableSubset
    <2>4. SumIn(f, (A \cup T) \cup {x}) = SumIn(f, A \cup T) + f[x]
        BY <2>1, <2>2, <2>3, SumAdd
    <2>5. SumIn(f, T \cup {x}) = SumIn(f, T) + f[x]
        BY <2>1, SumAdd
    <2>6. SumIn(f, A \cup (T \cup {x})) = SumIn(f, A) + SumIn(f, T) + f[x]
        BY <1>3, <2>2, <2>4
    <2> QED
        BY <2>1, <2>5, <2>6
<1>4. \A T \in SUBSET B : \A x \in B \ T : T \in Good => T \cup {x} \in Good
    BY <1>3
<1>5. B \in Good
    <2> HIDE DEF Good
    <2> QED
        BY <1>2, <1>4, ElementInduction DEF Summable
<1> QED
    BY <1>1, <1>5

(* The same numbers under other names.                                     *)
LEMMA SumRenamed ==
    ASSUME NEW S, NEW f, Summable(f, S), NEW T, NEW h, NEW name,
           \A x \in S : name[x] \in T /\ h[name[x]] = f[x],
           \A x, y \in S : name[x] = name[y] => x = y,
           \A t \in T : \E x \in S : t = name[x]
    PROVE  SumIn(h, T) = SumIn(f, S) /\ Summable(h, T)
<1> DEFINE names(U) == {name[x] : x \in U}
           Good == {U \in SUBSET S : Summable(h, names(U)) /\ SumIn(h, names(U)) = SumIn(f, U)}
<1>1. {} \in Good
    <2>1. names({}) = {} /\ Summable(h, {}) /\ SumIn(f, {}) = 0
        BY SumTake, FS_EmptySet DEF Summable
    <2>2. SumIn(h, {}) = 0
        BY <2>1, SumTake
    <2> QED
        BY <2>1, <2>2
<1>2. ASSUME NEW U \in SUBSET S, NEW x \in S \ U, U \in Good
      PROVE  U \cup {x} \in Good
    <2>1. names(U \cup {x}) = names(U) \cup {name[x]} /\ name[x] \notin names(U)
        OBVIOUS
    <2>2. Summable(f, U) /\ f[x] \in Int /\ h[name[x]] = f[x]
        BY SummableSubset DEF Summable
    <2>3. SumIn(f, U \cup {x}) = SumIn(f, U) + f[x]
        BY <2>2, SumAdd
    <2>4. /\ SumIn(h, names(U) \cup {name[x]}) = SumIn(h, names(U)) + h[name[x]]
          /\ Summable(h, names(U) \cup {name[x]})
        <3>1. Summable(h, names(U)) /\ h[name[x]] \in Int
            BY <1>2, <2>2
        <3> HIDE DEF names
        <3> QED
            BY <2>1, <3>1, SumAdd
    <2>5. SumIn(h, names(U)) = SumIn(f, U)
        BY <1>2
    <2> HIDE DEF names
    <2> QED
        BY <2>1, <2>2, <2>3, <2>4, <2>5
<1>3. S \in Good
    <2> HIDE DEF Good
    <2> QED
        BY <1>1, <1>2, ElementInduction DEF Summable
<1>4. names(S) = T
    OBVIOUS
<1> QED
    BY <1>3, <1>4

-----------------------------------------------------------------------------
(* What a quotient is.                                                     *)
LEMMA Quotient ==
    ASSUME NEW a \in Nat, NEW b \in Nat \ {0}
    PROVE  a \div b \in Nat /\ (a \div b) * b <= a /\ a < (a \div b) * b + b
OBVIOUS

(* A positive factor can be left out of an inequality.                     *)
LEMMA LessByFactor ==
    ASSUME NEW a \in Int, NEW b \in Int, NEW c \in Nat \ {0}, a * c < b * c
    PROVE a < b
OBVIOUS

(* A positive factor can be left out of a comparison.                      *)
LEMMA AtMostByFactor ==
    ASSUME NEW a \in Int, NEW b \in Int, NEW c \in Nat \ {0}, a * c <= b * c
    PROVE a <= b
OBVIOUS

(* A factor keeps the order.                                               *)
LEMMA FactorKeepsOrder ==
    ASSUME NEW a \in Nat, NEW b \in Nat, NEW c \in Nat, a <= b
    PROVE a * c <= b * c
OBVIOUS

(* A divisor keeps the order.                                              *)
LEMMA QuotientMonotone ==
    ASSUME NEW a \in Nat, NEW b \in Nat, NEW c \in Nat \ {0}, a <= b
    PROVE  a \div c <= b \div c
<1> DEFINE p == a \div c
           q == b \div c
<1>1. p \in Nat /\ p * c <= a
    BY Quotient
<1>2. q \in Nat /\ b < q * c + c
    BY Quotient
<1> HIDE DEF p, q
<1>3. q * c + c = (q + 1) * c
    BY <1>2
<1>4. p * c < (q + 1) * c
    <2> DEFINE x == p * c
               y == (q + 1) * c
    <2>1. x \in Int /\ y \in Int /\ x <= a /\ b < y
        BY <1>1, <1>2, <1>3
    <2> HIDE DEF x, y
    <2>2. x < y
        BY <2>1
    <2> QED
        BY <2>2 DEF x, y
<1>5. p < q + 1
    BY <1>1, <1>2, <1>4, LessByFactor
<1> QED
    BY <1>1, <1>2, <1>5 DEF p, q

\* How many come before i.
Place(S, before, i) == Cardinality({j \in S : <<j, i>> \in before})

TotalOrder(S, before) ==
    /\ \A i \in S : <<i, i>> \notin before
    /\ \A i, j \in S : i # j => <<i, j>> \in before \/ <<j, i>> \in before
    /\ \A i, j, l \in S : <<i, j>> \in before /\ <<j, l>> \in before => <<i, l>> \in before

(* In a strict total order each element has a place of its own.            *)
LEMMA PlacesDiffer ==
    ASSUME NEW S, IsFiniteSet(S), NEW before, TotalOrder(S, before)
    PROVE  /\ \A i \in S : Place(S, before, i) \in 0..(Cardinality(S) - 1)
           /\ \A i, j \in S : <<i, j>> \in before => Place(S, before, i) < Place(S, before, j)
           /\ \A i, j \in S : Place(S, before, i) = Place(S, before, j) => i = j
           /\ \A p \in 0..(Cardinality(S) - 1) : \E i \in S : Place(S, before, i) = p
<1> DEFINE ahead(i) == {j \in S : <<j, i>> \in before}
           n == Cardinality(S)
<1>1. \A i \in S : IsFiniteSet(ahead(i)) /\ Cardinality(ahead(i)) \in Nat
    BY FS_Subset, FS_CardinalityType
<1>2. n \in Nat
    BY FS_CardinalityType
<1>3. ASSUME NEW i \in S
      PROVE  Cardinality(ahead(i)) < n
    <2>1. ahead(i) \in SUBSET S /\ i \notin ahead(i)
        BY DEF TotalOrder
    <2>2. Cardinality(ahead(i)) <= n /\ (n = Cardinality(ahead(i)) => S = ahead(i))
        <3> HIDE DEF ahead
        <3> QED
            BY <2>1, FS_Subset
    <2>3. n # Cardinality(ahead(i))
        BY <2>1, <2>2
    <2> HIDE DEF ahead, n
    <2> QED
        BY <1>1, <1>2, <2>2, <2>3
<1>4. ASSUME NEW i \in S, NEW j \in S, <<i, j>> \in before
      PROVE  Cardinality(ahead(i)) < Cardinality(ahead(j))
    <2>1. ahead(i) \in SUBSET ahead(j) /\ i \in ahead(j) /\ i \notin ahead(i)
        BY <1>4 DEF TotalOrder
    <2>2. IsFiniteSet(ahead(j)) /\ Cardinality(ahead(j)) \in Nat /\ Cardinality(ahead(i)) \in Nat
        BY <1>1
    <2>3. /\ Cardinality(ahead(i)) <= Cardinality(ahead(j))
          /\ Cardinality(ahead(j)) = Cardinality(ahead(i)) => ahead(j) = ahead(i)
        <3> HIDE DEF ahead
        <3> QED
            BY <2>1, <2>2, FS_Subset
    <2>4. Cardinality(ahead(j)) # Cardinality(ahead(i))
        BY <2>1, <2>3
    <2> HIDE DEF ahead
    <2> QED
        BY <2>2, <2>3, <2>4
<1>5. \A i \in S : Place(S, before, i) = Cardinality(ahead(i))
    BY DEF Place
<1> HIDE DEF ahead, n
<1>6. \A i \in S : Place(S, before, i) \in 0..(n - 1)
    BY <1>1, <1>2, <1>3, <1>5
<1>7. \A i, j \in S : <<i, j>> \in before => Place(S, before, i) < Place(S, before, j)
    BY <1>4, <1>5
<1>8. ASSUME NEW i \in S, NEW j \in S, Place(S, before, i) = Place(S, before, j)
      PROVE  i = j
    <2>1. Place(S, before, i) \in Nat
        BY <1>6
    <2>2. ~ (Place(S, before, i) < Place(S, before, j)) /\ ~ (Place(S, before, j) < Place(S, before, i))
        BY <1>8, <2>1
    <2> QED
        BY <1>7, <2>2 DEF TotalOrder
<1>9. \A p \in 0..(n - 1) : \E i \in S : Place(S, before, i) = p
    <2> DEFINE f == [i \in S |-> Place(S, before, i)]
               T == 0..(n - 1)
    <2>1. f \in [S -> T] /\ \A i, j \in S : f[i] = f[j] => i = j
        BY <1>6, <1>8
    <2>2. IsFiniteSet(T) /\ Cardinality(T) = n
        <3>1. IsFiniteSet(T) /\ Cardinality(T) = IF 0 > n - 1 THEN 0 ELSE n - 1 - 0 + 1
            BY <1>2, FS_Interval
        <3> QED
            BY <1>2, <3>1
    <2>3. \A t \in T : \E i \in S : f[i] = t
        <3> HIDE DEF f, T
        <3>1. f \in Injection(S, T)
            BY <2>1, Fun_IsInj
        <3>2. Cardinality(S) = Cardinality(T)
            BY <2>2 DEF n
        <3>3. f \in Surjection(S, T)
            BY <2>2, <3>1, <3>2, FS_Injection
        <3> QED
            BY <3>3, Fun_SurjectionProperties
    <2> QED
        BY <2>3
<1> QED
    BY <1>6, <1>7, <1>8, <1>9 DEF n

(* The first of them.                                                      *)
LEMMA FirstPlaces ==
    ASSUME NEW S, IsFiniteSet(S), NEW before, TotalOrder(S, before), NEW m \in 0..Cardinality(S)
    PROVE  Cardinality({i \in S : Place(S, before, i) < m}) = m
<1> DEFINE P == {i \in S : Place(S, before, i) < m}
           T == 0..(m - 1)
           f == [i \in P |-> Place(S, before, i)]
<1>0. Cardinality(S) \in Nat /\ m \in Nat /\ m <= Cardinality(S)
    BY FS_CardinalityType
<1>1. /\ \A i \in S : Place(S, before, i) \in 0..(Cardinality(S) - 1)
      /\ \A i, j \in S : Place(S, before, i) = Place(S, before, j) => i = j
      /\ \A p \in 0..(Cardinality(S) - 1) : \E i \in S : Place(S, before, i) = p
    BY PlacesDiffer
<1>2. f \in [P -> T]
    BY <1>0, <1>1
<1>3. \A i, j \in P : f[i] = f[j] => i = j
    BY <1>1
<1>4. \A t \in T : \E i \in P : f[i] = t
    <2> SUFFICES ASSUME NEW t \in T PROVE \E i \in P : f[i] = t
        OBVIOUS
    <2>1. t \in 0..(Cardinality(S) - 1) /\ t < m
        BY <1>0
    <2>2. PICK i \in S : Place(S, before, i) = t
        BY <1>1, <2>1
    <2> QED
        BY <2>1, <2>2
<1>5. IsFiniteSet(P)
    BY FS_Subset
<1>6. f \in Bijection(P, T)
    <2> HIDE DEF f, P, T
    <2> QED
        BY <1>2, <1>3, <1>4, Fun_IsBij
<1>7. Cardinality(T) = Cardinality(P)
    <2> HIDE DEF f, P, T
    <2>1. ExistsBijection(P, T)
        BY <1>6 DEF ExistsBijection
    <2> QED
        BY <1>5, <2>1, FS_Bijection
<1>8. Cardinality(T) = m
    <2>1. Cardinality(T) = IF 0 > m - 1 THEN 0 ELSE m - 1 - 0 + 1
        BY <1>0, FS_Interval
    <2> QED
        BY <1>0, <2>1
<1> QED
    BY <1>7, <1>8

-----------------------------------------------------------------------------
(* Weights to share by.                                                    *)
Weighing(D, w) == IsFiniteSet(D) /\ D # {} /\ D \subseteq Int /\ w \in [D -> Nat]

(* The weights that are shared by add up to something.                     *)
LEMMA PositiveWeighs ==
    ASSUME NEW D, NEW weights, Weighing(D, weights)
    PROVE  /\ Weighing(D, Positive(weights)) /\ Summable(Positive(weights), D)
           /\ SumIn(Positive(weights), D) \in Nat \ {0}
<1> DEFINE w == Positive(weights)
<1>1. SumOf(weights) = SumIn(weights, D) /\ DOMAIN weights = D
    BY DEF SumOf, SumIn, Weighing
<1>2. Summable(weights, D)
    BY DEF Weighing, Summable
<1>3. SumIn(weights, D) \in Int
    BY <1>2, SumTake
<1>4. CASE SumOf(weights) > 0
    <2>1. w = weights
        BY <1>4 DEF Positive
    <2> QED
        BY <1>1, <1>2, <1>3, <1>4, <2>1
<1>5. CASE ~ (SumOf(weights) > 0)
    <2>1. w = [i \in D |-> 1]
        BY <1>1, <1>5 DEF Positive
    <2>2. Weighing(D, w)
        BY <2>1 DEF Weighing
    <2>3. SumIn(w, D) = Cardinality(D) /\ Summable(w, D)
        <3>1. IsFiniteSet(D) /\ D \in SUBSET D /\ \A x \in D : w[x] = IF x \in D THEN 1 ELSE 0
            BY <2>1 DEF Weighing
        <3> HIDE DEF w
        <3> QED
            BY <3>1, SumCounts
    <2>4. Cardinality(D) \in Nat \ {0}
        BY FS_CardinalityType, FS_EmptySet DEF Weighing
    <2> QED
        BY <2>2, <2>3, <2>4
<1> QED
    BY <1>4, <1>5

\* The candidates in the order in which the rest is handed out.
HandingOut(D, w) == {p \in D \X D : Before(w, p[1], p[2])}

(* It is a strict total order of them.                                     *)
LEMMA OrderIsTotal ==
    ASSUME NEW D, NEW w, Weighing(D, w)
    PROVE  /\ TotalOrder(D, HandingOut(D, w))
           /\ \A i \in D : Place(D, HandingOut(D, w), i) = Cardinality({j \in D : Before(w, j, i)})
<1>1. \A i, j \in D : <<i, j>> \in HandingOut(D, w) <=> Before(w, i, j)
    BY DEF HandingOut
<1>2. \A i \in D : i \in Int /\ w[i] \in Int
    BY DEF Weighing
<1>3. TotalOrder(D, HandingOut(D, w))
    BY <1>1, <1>2 DEF TotalOrder, Before
<1>4. \A i \in D : {j \in D : <<j, i>> \in HandingOut(D, w)} = {j \in D : Before(w, j, i)}
    BY <1>1
<1> QED
    BY <1>3, <1>4 DEF Place

(* What the floors leave is less than one unit for each.                   *)
LEMMA FloorsLeave ==
    ASSUME NEW D, NEW w, Weighing(D, w), NEW total \in Nat,
           Summable(w, D), SumIn(w, D) \in Nat \ {0}
    PROVE  LET floor == Floors(w, total)
               W == SumIn(w, D)
           IN  /\ floor \in [D -> Nat] /\ Summable(floor, D) /\ SumIn(floor, D) \in Int
               /\ \A i \in D : /\ w[i] * total \in Nat
                               /\ floor[i] * W <= w[i] * total /\ w[i] * total < floor[i] * W + W
               /\ \A i, j \in D : w[i] > w[j] => floor[i] >= floor[j]
               /\ 0 <= total - SumIn(floor, D) /\ total - SumIn(floor, D) < Cardinality(D)
<1> DEFINE floor == Floors(w, total)
           W == SumIn(w, D)
           n == Cardinality(D)
           shares == [i \in D |-> w[i] * total]
           low == [i \in D |-> floor[i] * W]
           ones == [i \in D |-> 1]
           widths == [i \in D |-> ones[i] * W]
           high == [i \in D |-> low[i] + widths[i]]
<1>1. w \in [D -> Nat] /\ IsFiniteSet(D) /\ D # {} /\ W \in Nat \ {0} /\ n \in Nat
    BY FS_CardinalityType DEF Weighing
<1>2. floor = [i \in D |-> (w[i] * total) \div W]
    BY <1>1 DEF Floors, SumOf, SumIn
<1> HIDE DEF floor, W, n
<1>3. \A i \in D : w[i] * total \in Nat
    BY <1>1
<1>4. ASSUME NEW i \in D
      PROVE  /\ floor[i] \in Nat /\ floor[i] * W <= w[i] * total
             /\ w[i] * total < floor[i] * W + W /\ floor[i] * W \in Int
    <2>1. floor[i] = (w[i] * total) \div W
        BY <1>2
    <2>2. w[i] * total \in Nat
        BY <1>3
    <2> QED
        BY <1>1, <2>1, <2>2, Quotient
<1>5. floor \in [D -> Nat] /\ Summable(floor, D) /\ SumIn(floor, D) \in Int
    <2>1. floor \in [D -> Nat] /\ Summable(floor, D)
        BY <1>1, <1>2, <1>4 DEF Summable
    <2> QED
        BY <2>1, SumTake
<1>6. SumIn(shares, D) = W * total /\ Summable(shares, D)
    <2>1. \A i \in D : shares[i] = w[i] * total
        OBVIOUS
    <2> HIDE DEF shares
    <2> QED
        BY <2>1, SumTimes DEF W
<1>7. SumIn(low, D) = SumIn(floor, D) * W /\ Summable(low, D)
    <2>1. \A i \in D : low[i] = floor[i] * W
        OBVIOUS
    <2> HIDE DEF low
    <2> QED
        BY <1>1, <1>5, <2>1, SumTimes
<1>8. SumIn(ones, D) = n /\ Summable(ones, D)
    <2>1. D \in SUBSET D /\ \A i \in D : ones[i] = IF i \in D THEN 1 ELSE 0
        OBVIOUS
    <2> HIDE DEF ones
    <2> QED
        BY <1>1, <2>1, SumCounts DEF n
<1>9. SumIn(widths, D) = n * W /\ Summable(widths, D)
    <2>1. \A i \in D : widths[i] = ones[i] * W
        OBVIOUS
    <2> HIDE DEF widths, ones
    <2>2. SumIn(widths, D) = SumIn(ones, D) * W /\ Summable(widths, D)
        <3>1. W \in Int /\ Summable(ones, D)
            BY <1>1, <1>8
        <3> QED
            BY <2>1, <3>1, SumTimes
    <2> QED
        BY <1>8, <2>2
<1>10. SumIn(high, D) = SumIn(low, D) + SumIn(widths, D) /\ Summable(high, D)
    <2>1. \A i \in D : high[i] = low[i] + widths[i]
        OBVIOUS
    <2> HIDE DEF high, low, widths
    <2> QED
        BY <1>7, <1>9, <2>1, SumPlus
<1>11. \A i \in D : low[i] <= shares[i] /\ shares[i] < high[i]
    <2> SUFFICES ASSUME NEW i \in D PROVE low[i] <= shares[i] /\ shares[i] < high[i]
        OBVIOUS
    <2>1. low[i] = floor[i] * W /\ shares[i] = w[i] * total /\ widths[i] = W /\ high[i] = low[i] + widths[i]
        BY <1>1
    <2> HIDE DEF low, shares, high, widths
    <2> QED
        BY <1>4, <2>1
<1> HIDE DEF low, shares, high, widths, ones
<1>12. SumIn(floor, D) * W <= W * total
    BY <1>6, <1>7, <1>11, SumLess
<1>13. W * total < SumIn(floor, D) * W + n * W
    BY <1>1, <1>6, <1>7, <1>9, <1>10, <1>11, SumLess
<1>14. 0 <= total - SumIn(floor, D) /\ total - SumIn(floor, D) < n
    <2> DEFINE s == SumIn(floor, D)
    <2>1. s \in Int
        BY <1>5
    <2> HIDE DEF s
    <2>2. s * W <= total * W
        BY <1>1, <1>12, <2>1 DEF s
    <2>3. total * W < (s + n) * W
        <3>1. (s + n) * W = s * W + n * W /\ total * W = W * total
            BY <1>1, <2>1
        <3> QED
            BY <1>13, <3>1 DEF s
    <2>4. s <= total
        BY <1>1, <2>1, <2>2, AtMostByFactor
    <2>5. total < s + n
        BY <1>1, <2>1, <2>3, LessByFactor
    <2> QED
        BY <1>1, <2>1, <2>4, <2>5 DEF s
<1>15. ASSUME NEW i \in D, NEW j \in D, w[i] > w[j]
       PROVE  floor[i] >= floor[j]
    <2>1. w[j] * total <= w[i] * total
        BY <1>1, <1>15, FactorKeepsOrder
    <2>2. (w[j] * total) \div W <= (w[i] * total) \div W
        BY <1>1, <1>3, <2>1, QuotientMonotone
    <2>3. floor[i] = (w[i] * total) \div W /\ floor[j] = (w[j] * total) \div W
        BY <1>2
    <2> QED
        BY <1>4, <2>2, <2>3
<1> QED
    BY <1>3, <1>4, <1>5, <1>14, <1>15 DEF floor, W, n

(* The shares are fair, whatever the weights.                              *)
LEMMA BudgetsAreFair ==
    ASSUME NEW D, NEW weights, Weighing(D, weights), NEW total \in Nat
    PROVE  /\ IsFair(weights, total, Budgets(weights, total))
           /\ Budgets(weights, total) \in [D -> Nat] /\ Summable(Budgets(weights, total), D)
           /\ SumIn(Budgets(weights, total), D) = total
<1> DEFINE w == Positive(weights)
           W == SumIn(w, D)
           n == Cardinality(D)
           floor == Floors(w, total)
           left == total - SumIn(floor, D)
           place == [i \in D |-> Cardinality({j \in D : Before(w, j, i)})]
           extra == [i \in D |-> Cardinality({u \in 0..(left - 1) : u % n = place[i]})]
           budgets == [i \in D |-> floor[i] + extra[i]]
           before == HandingOut(D, w)
           early == {i \in D : Place(D, before, i) < left}
<1>1. Weighing(D, w) /\ Summable(w, D) /\ W \in Nat \ {0}
    BY PositiveWeighs
<1>2. w \in [D -> Nat] /\ IsFiniteSet(D) /\ D # {} /\ n \in Nat /\ DOMAIN w = D
    BY <1>1, FS_CardinalityType DEF Weighing
<1>3. /\ floor \in [D -> Nat] /\ Summable(floor, D) /\ SumIn(floor, D) \in Int
      /\ \A i \in D : /\ w[i] * total \in Nat
                      /\ floor[i] * W <= w[i] * total /\ w[i] * total < floor[i] * W + W
      /\ \A i, j \in D : w[i] > w[j] => floor[i] >= floor[j]
      /\ 0 <= left /\ left < n
    <2> HIDE DEF w
    <2> QED
        BY <1>1, FloorsLeave
<1>4. SumOf(w) = W /\ SumOf(floor) = SumIn(floor, D)
    BY <1>2, <1>3 DEF SumOf, SumIn
<1>5. Budgets(weights, total) = budgets
    BY <1>2, <1>4 DEF Budgets
<1> HIDE DEF w, W, n, floor, left
<1>6. /\ TotalOrder(D, before)
      /\ \A i \in D : Place(D, before, i) = place[i]
    BY <1>1, OrderIsTotal
<1>7. /\ \A i \in D : place[i] \in 0..(n - 1)
      /\ \A i, j \in D : <<i, j>> \in before => place[i] < place[j]
    <2>1. /\ \A i \in D : Place(D, before, i) \in 0..(n - 1)
          /\ \A i, j \in D : <<i, j>> \in before => Place(D, before, i) < Place(D, before, j)
        <3> HIDE DEF before
        <3> QED
            BY <1>2, <1>6, PlacesDiffer DEF n
    <2> HIDE DEF place, before
    <2> QED
        BY <1>6, <2>1
<1>8. left \in Int /\ left \in 0..n
    BY <1>2, <1>3 DEF left
<1>9. ASSUME NEW i \in D
      PROVE  extra[i] = IF place[i] < left THEN 1 ELSE 0
    <2> DEFINE rounds == {u \in 0..(left - 1) : u % n = place[i]}
    <2>0. place[i] \in 0..(n - 1)
        BY <1>7
    <2> HIDE DEF place
    <2>1. \A u \in 0..(left - 1) : u % n = u
        BY <1>2, <1>3, <1>8
    <2>2. CASE place[i] < left
        <3>1. rounds = {place[i]}
            BY <1>8, <2>0, <2>1, <2>2
        <3>2. Cardinality(rounds) = 1
            BY <3>1, FS_Singleton
        <3> QED
            BY <2>2, <3>2
    <2>3. CASE ~ (place[i] < left)
        <3>1. rounds = {}
            BY <1>8, <2>0, <2>1, <2>3
        <3>2. Cardinality(rounds) = 0
            BY <3>1, FS_EmptySet
        <3> QED
            BY <2>3, <3>2
    <2> QED
        BY <2>2, <2>3
<1>10. SumIn(extra, D) = left /\ Summable(extra, D)
    <2>1. Cardinality(early) = left
        <3> HIDE DEF before
        <3> QED
            BY <1>2, <1>6, <1>8, FirstPlaces DEF n
    <2>2. early \in SUBSET D /\ \A i \in D : extra[i] = IF i \in early THEN 1 ELSE 0
        <3>1. \A i \in D : i \in early <=> place[i] < left
            BY <1>6
        <3> HIDE DEF extra, place
        <3> QED
            BY <1>9, <3>1
    <2> HIDE DEF extra, early
    <2>3. SumIn(extra, D) = Cardinality(early) /\ Summable(extra, D)
        BY <1>2, <2>2, SumCounts
    <2> QED
        BY <2>1, <2>3
<1>11. \A i \in D : extra[i] \in {0, 1}
    <2> HIDE DEF extra
    <2> QED
        BY <1>9
<1>12. budgets \in [D -> Nat] /\ \A i \in D : budgets[i] = floor[i] + extra[i]
    <2> HIDE DEF extra
    <2> QED
        BY <1>3, <1>11
<1>13. SumIn(budgets, D) = total /\ Summable(budgets, D)
    <2>1. SumIn(budgets, D) = SumIn(floor, D) + SumIn(extra, D) /\ Summable(budgets, D)
        <3> HIDE DEF budgets, extra
        <3> QED
            BY <1>3, <1>10, <1>12, SumPlus
    <2>2. SumIn(floor, D) + left = total
        BY <1>3 DEF left
    <2> HIDE DEF budgets, extra
    <2> QED
        BY <1>10, <2>1, <2>2
<1>14. SumOf(budgets) = SumIn(budgets, D)
    BY DEF SumOf, SumIn
<1>15. ASSUME NEW i \in D
       PROVE  LET error == budgets[i] * W - w[i] * total
              IN  error <= W /\ -error < W
    <2> DEFINE f == floor[i]
               e == extra[i]
               q == w[i] * total
    <2>1. f \in Nat /\ e \in {0, 1} /\ q \in Nat /\ f * W <= q /\ q < f * W + W /\ budgets[i] = f + e
        BY <1>3, <1>11, <1>12
    <2> HIDE DEF f, e, budgets, q
    <2>2. (f + e) * W = f * W + e * W /\ (e * W = 0 \/ e * W = W) /\ f * W \in Int /\ W \in Nat \ {0}
        BY <1>1, <2>1
    <2>3. budgets[i] * W = f * W \/ budgets[i] * W = f * W + W
        BY <2>1, <2>2
    <2> DEFINE b == budgets[i] * W
               g == f * W
    <2>4. (b = g \/ b = g + W) /\ g \in Int /\ g <= q /\ q < g + W /\ W \in Nat /\ q \in Int
        BY <2>1, <2>2, <2>3
    <2> HIDE DEF b, g
    <2>5. b - q <= W /\ -(b - q) < W
        BY <2>4
    <2> QED
        BY <2>5 DEF b, q
<1>16. ASSUME NEW i \in D, NEW j \in D, w[i] > w[j]
       PROVE  budgets[i] >= budgets[j]
    <2>1. Before(w, i, j) /\ <<i, j>> \in before
        BY <1>16 DEF Before, HandingOut
    <2>2. place[i] < place[j] /\ place[i] \in Int /\ place[j] \in Int
        <3> HIDE DEF place
        <3> QED
            BY <1>7, <2>1
    <2>3. extra[i] >= extra[j]
        <3> HIDE DEF extra, place
        <3> QED
            BY <1>8, <1>9, <2>2
    <2>4. floor[i] >= floor[j] /\ floor[i] \in Nat /\ floor[j] \in Nat /\ extra[i] \in Int /\ extra[j] \in Int
        <3> HIDE DEF extra
        <3> QED
            BY <1>3, <1>11, <1>16
    <2> HIDE DEF budgets, extra
    <2> QED
        BY <1>12, <2>3, <2>4
<1>17. IsFair(weights, total, budgets)
    <2> HIDE DEF budgets
    <2> QED
        BY <1>2, <1>4, <1>13, <1>14, <1>15, <1>16 DEF IsFair, w
<1> QED
    BY <1>5, <1>12, <1>13, <1>17

-----------------------------------------------------------------------------
\* The budgets of calls still to be made.
Owed(calls) == [i \in DOMAIN calls |-> calls[i].budget]

OwedByAll(calls) == SumIn(Owed(calls), DOMAIN calls)

Budgeted(calls) == IsSequence(calls) /\ \A i \in DOMAIN calls : calls[i].budget \in Nat

(* What the calls owe adds up to a number.                                 *)
LEMMA OwedSummable ==
    ASSUME NEW calls, Budgeted(calls)
    PROVE  Summable(Owed(calls), DOMAIN calls) /\ OwedByAll(calls) \in Int
<1>1. calls \in Seq({calls[i] : i \in DOMAIN calls})
    BY DEF Budgeted, IsSequence
<1>2. Len(calls) \in Nat /\ DOMAIN calls = 1..Len(calls)
    BY <1>1
<1>3. IsFiniteSet(DOMAIN calls)
    BY <1>2, FS_Interval
<1>4. Summable(Owed(calls), DOMAIN calls)
    BY <1>3 DEF Budgeted, Summable, Owed
<1> QED
    BY <1>4, SumTake DEF OwedByAll

(* A call takes what it is owed with it.                                   *)
LEMMA OwedByTail ==
    ASSUME NEW calls, Budgeted(calls), calls # << >>
    PROVE  /\ Budgeted(Tail(calls)) /\ calls[1].budget \in Nat
           /\ OwedByAll(calls) = calls[1].budget + OwedByAll(Tail(calls))
<1> DEFINE t == Tail(calls)
           n == Len(calls)
           f == Owed(calls)
           name == [i \in 2..n |-> i - 1]
<1>1. /\ IsSequence(t) /\ n \in Nat \ {0} /\ DOMAIN calls = 1..n /\ 1 \in DOMAIN calls
      /\ DOMAIN t = 1..(n - 1)
      /\ \A i \in DOMAIN t : i + 1 \in DOMAIN calls /\ t[i] = calls[i + 1]
    BY TailIsSequence DEF Budgeted
<1>2. Budgeted(t) /\ calls[1].budget \in Nat
    BY <1>1 DEF Budgeted
<1>3. Summable(f, 1..n)
    BY <1>1, OwedSummable
<1>4. f[1] = calls[1].budget /\ SumIn(f, 1..n) = f[1] + SumIn(f, (1..n) \ {1})
    <2>1. 1 \in 1..n /\ f[1] = calls[1].budget
        BY <1>1 DEF Owed
    <2> HIDE DEF f
    <2> QED
        BY <1>3, <2>1, SumTake
<1>5. (1..n) \ {1} = 2..n
    BY <1>1
<1>6. Summable(f, 2..n)
    <2>1. 2..n \in SUBSET (1..n)
        BY <1>1
    <2> QED
        BY <1>3, <2>1, SummableSubset
<1>7. SumIn(Owed(t), DOMAIN t) = SumIn(f, 2..n)
    <2>1. ASSUME NEW i \in 2..n
          PROVE  name[i] \in DOMAIN t /\ Owed(t)[name[i]] = f[i]
        <3>1. name[i] = i - 1 /\ i - 1 \in DOMAIN t
            BY <1>1
        <3>2. t[i - 1] = calls[(i - 1) + 1] /\ (i - 1) + 1 = i /\ i \in DOMAIN calls
            BY <1>1, <3>1
        <3>3. Owed(t)[i - 1] = t[i - 1].budget /\ f[i] = calls[i].budget
            BY <3>1, <3>2 DEF Owed
        <3> HIDE DEF t, f, name
        <3> QED
            BY <3>1, <3>2, <3>3
    <2>2. \A i, j \in 2..n : name[i] = name[j] => i = j
        BY <1>1
    <2>3. \A q \in DOMAIN t : \E i \in 2..n : q = name[i]
        <3> SUFFICES ASSUME NEW q \in DOMAIN t PROVE \E i \in 2..n : q = name[i]
            OBVIOUS
        <3>1. q + 1 \in 2..n /\ name[q + 1] = q
            BY <1>1
        <3> HIDE DEF name
        <3> QED
            BY <3>1
    <2> HIDE DEF t, f, name
    <2> QED
        BY <1>6, <2>1, <2>2, <2>3, SumRenamed
<1>8. OwedByAll(calls) = f[1] + SumIn(f, 2..n)
    BY <1>1, <1>4, <1>5 DEF OwedByAll
<1> HIDE DEF t, f
<1> QED
    BY <1>2, <1>4, <1>7, <1>8 DEF OwedByAll, t

(* Calls before calls.                                                     *)
LEMMA OwedByBoth ==
    ASSUME NEW a, NEW b, Budgeted(a), Budgeted(b)
    PROVE  Budgeted(a \o b) /\ OwedByAll(a \o b) = OwedByAll(a) + OwedByAll(b)
<1> DEFINE m == Len(a)
           n == Len(b)
           c == a \o b
           f == Owed(c)
           name == [i \in 1..n |-> i + m]
<1>1. /\ IsSequence(c) /\ DOMAIN c = 1..(m + n)
      /\ \A i \in 1..m : c[i] = a[i]
      /\ \A i \in (m + 1)..(m + n) : c[i] = b[i - m]
    BY ConcatIsSequence DEF Budgeted
<1>2. m \in Nat /\ n \in Nat /\ DOMAIN a = 1..m /\ DOMAIN b = 1..n
    BY DEF Budgeted, IsSequence
<1> HIDE DEF c, m, n
<1>3. Budgeted(c)
    <2> SUFFICES ASSUME NEW i \in 1..(m + n) PROVE c[i].budget \in Nat
        BY <1>1 DEF Budgeted
    <2>1. CASE i <= m
        <3>1. i \in 1..m
            BY <1>2, <2>1
        <3> QED
            BY <1>1, <1>2, <3>1 DEF Budgeted
    <2>2. CASE ~ (i <= m)
        <3>1. i \in (m + 1)..(m + n) /\ i - m \in 1..n
            BY <1>2, <2>2
        <3> QED
            BY <1>1, <1>2, <3>1 DEF Budgeted
    <2> QED
        BY <2>1, <2>2
<1>4. Summable(f, 1..(m + n)) /\ Summable(Owed(a), 1..m) /\ Summable(Owed(b), 1..n)
    BY <1>1, <1>2, <1>3, OwedSummable
<1>5. 1..m \in SUBSET (1..(m + n)) /\ (m + 1)..(m + n) \in SUBSET (1..(m + n))
    BY <1>2
<1>6. Summable(f, 1..m) /\ Summable(f, (m + 1)..(m + n))
    <2> HIDE DEF f
    <2> QED
        BY <1>4, <1>5, SummableSubset
<1>7. SumIn(f, 1..(m + n)) = SumIn(f, 1..m) + SumIn(f, (m + 1)..(m + n))
    <2>1. (1..m) \cap ((m + 1)..(m + n)) = {} /\ (1..m) \cup ((m + 1)..(m + n)) = 1..(m + n)
        BY <1>2
    <2>2. SumIn(f, (1..m) \cup ((m + 1)..(m + n))) = SumIn(f, 1..m) + SumIn(f, (m + 1)..(m + n))
        <3> HIDE DEF f
        <3> QED
            BY <1>6, <2>1, SumUnion
    <2> QED
        BY <2>1, <2>2
<1>8. SumIn(f, 1..m) = SumIn(Owed(a), 1..m)
    <2>1. \A i \in 1..m : f[i] = Owed(a)[i]
        <3> SUFFICES ASSUME NEW i \in 1..m PROVE f[i] = Owed(a)[i]
            OBVIOUS
        <3>1. i \in DOMAIN c /\ i \in DOMAIN a /\ c[i] = a[i]
            BY <1>1, <1>2, <1>5
        <3> QED
            BY <3>1 DEF Owed
    <2> HIDE DEF f
    <2> QED
        BY <1>6, <2>1, SumSame
<1>9. SumIn(f, (m + 1)..(m + n)) = SumIn(Owed(b), 1..n)
    <2>1. ASSUME NEW i \in 1..n
          PROVE  name[i] \in (m + 1)..(m + n) /\ f[name[i]] = Owed(b)[i]
        <3>1. name[i] = i + m /\ i + m \in (m + 1)..(m + n) /\ (i + m) - m = i
            BY <1>2
        <3>2. i + m \in DOMAIN c /\ c[i + m] = b[i]
            BY <1>1, <1>5, <3>1
        <3>3. f[i + m] = b[i].budget /\ Owed(b)[i] = b[i].budget
            BY <1>2, <3>2 DEF Owed
        <3> HIDE DEF name, f
        <3> QED
            BY <3>1, <3>3
    <2>2. \A i, j \in 1..n : name[i] = name[j] => i = j
        BY <1>2
    <2>3. \A q \in (m + 1)..(m + n) : \E i \in 1..n : q = name[i]
        <3> SUFFICES ASSUME NEW q \in (m + 1)..(m + n) PROVE \E i \in 1..n : q = name[i]
            OBVIOUS
        <3>1. q - m \in 1..n /\ name[q - m] = q
            BY <1>2
        <3> HIDE DEF name
        <3> QED
            BY <3>1
    <2> DEFINE g == Owed(b)
               S == 1..n
               T == (m + 1)..(m + n)
    <2>4. /\ Summable(g, S)
          /\ \A i \in S : name[i] \in T /\ f[name[i]] = g[i]
          /\ \A i, j \in S : name[i] = name[j] => i = j
          /\ \A q \in T : \E i \in S : q = name[i]
        <3> HIDE DEF f, name
        <3> QED
            BY <1>4, <2>1, <2>2, <2>3
    <2> HIDE DEF f, name, g, S, T
    <2>5. SumIn(f, T) = SumIn(g, S)
        BY <2>4, SumRenamed
    <2> QED
        BY <2>5 DEF g, S, T
<1> HIDE DEF f
<1> QED
    BY <1>1, <1>2, <1>3, <1>7, <1>8, <1>9 DEF OwedByAll, f, c

-----------------------------------------------------------------------------
(* A family of n members has n of them at most.                            *)
LEMMA FewMembers ==
    ASSUME NEW D, IsFiniteSet(D), NEW f, DOMAIN f = D, f = [x \in D |-> f[x]]
    PROVE  IsFiniteSet({f[x] : x \in D}) /\ Cardinality({f[x] : x \in D}) <= Cardinality(D)
<1> DEFINE T == {f[x] : x \in D}
<1>1. f \in [D -> T] /\ \A t \in T : \E x \in D : f[x] = t
    <2>1. \A x \in D : f[x] \in T
        OBVIOUS
    <2>2. \A t \in T : \E x \in D : f[x] = t
        OBVIOUS
    <2> HIDE DEF T
    <2> QED
        BY <2>1, <2>2
<1> HIDE DEF T
<1>2. f \in Surjection(D, T)
    BY <1>1, Fun_IsSurj
<1>3. IsFiniteSet(T) /\ Cardinality(T) <= Cardinality(D)
    BY <1>2, FS_Surjection
<1> QED
    BY <1>3 DEF T

(* What a set gains bounds its size.                                       *)
LEMMA GainBounds ==
    ASSUME NEW A, NEW E, NEW B, IsFiniteSet(A), IsFiniteSet(E), B \subseteq A \cup E
    PROVE  IsFiniteSet(B) /\ Cardinality(B) <= Cardinality(A) + Cardinality(E) /\ Cardinality(B) \in Nat
<1>1. /\ IsFiniteSet(A \cup E)
      /\ Cardinality(A \cup E) = Cardinality(A) + Cardinality(E) - Cardinality(A \cap E)
    BY FS_Union
<1>2. IsFiniteSet(B) /\ Cardinality(B) <= Cardinality(A \cup E)
    BY <1>1, FS_Subset
<1>3. IsFiniteSet(A \cap E)
    BY FS_Intersection
<1>4. Cardinality(A) \in Nat /\ Cardinality(E) \in Nat /\ Cardinality(A \cap E) \in Nat /\ Cardinality(B) \in Nat
    BY <1>2, <1>3, FS_CardinalityType
<1> QED
    BY <1>1, <1>2, <1>4

(* A position has been moved on from by some line.                         *)
LEMMA PassedBySome ==
    \A q : q \in PassedByAll <=>
              \/ \E i \in DOMAIN lines : q \in Passed(lines[i])
              \/ \E i \in DOMAIN stack : q \in Passed(stack[i].line)
<1> DEFINE A == UNION {Passed(lines[i]) : i \in DOMAIN lines}
           B == UNION {Passed(stack[i].line) : i \in DOMAIN stack}
<1>1. \A q : q \in A <=> \E i \in DOMAIN lines : q \in Passed(lines[i])
    OBVIOUS
<1>2. \A q : q \in B <=> \E i \in DOMAIN stack : q \in Passed(stack[i].line)
    OBVIOUS
<1>3. PassedByAll = A \cup B
    BY DEF PassedByAll
<1> HIDE DEF A, B
<1> QED
    BY <1>1, <1>2, <1>3

(* What is still to be spent and what has been moved on from.              *)
WithinBudget ==
    /\ budget \in Nat
    /\ Budgeted(stack) /\ IsFiniteSet(PassedByAll)
    /\ Cardinality(PassedByAll) + OwedByAll(stack) <= budget

WorkInv == SynthesisInv /\ (~ done => WithinBudget)

(* In the beginning all is to be spent.                                    *)
LEMMA WorkInit == Init => WorkInv
<1> SUFFICES ASSUME Init PROVE WorkInv
    OBVIOUS
<1>1. SynthesisInv /\ IsSequence(stack)
    BY InvInit DEF SynthesisInv
<1>2. budget \in Nat /\ DOMAIN stack = {1} /\ stack[1].budget = budget /\ stack[1].line = << >> /\ lines = << >>
    BY SynthesisAssumption DEF Init, Root, SynthesisAssumption
<1>3. Budgeted(stack)
    BY <1>1, <1>2 DEF Budgeted
<1>4. PassedByAll = {}
    <2>1. Passed(<< >>) = {}
        BY DEF Passed
    <2> QED
        BY <1>2, <2>1 DEF PassedByAll
<1>5. OwedByAll(stack) = budget
    <2>1. Summable(Owed(stack), {1}) /\ Owed(stack)[1] = budget
        BY <1>2, <1>3, OwedSummable DEF Owed
    <2>2. SumIn(Owed(stack), {1}) = Owed(stack)[1] + SumIn(Owed(stack), {1} \ {1}) /\ SumIn(Owed(stack), {}) = 0
        BY <2>1, SumTake
    <2>3. {1} \ {1} = {}
        OBVIOUS
    <2>4. SumIn(Owed(stack), {1}) = budget
        <3>1. SumIn(Owed(stack), {1} \ {1}) = 0
            BY <2>2, <2>3
        <3> QED
            BY <1>2, <2>1, <2>2, <3>1
    <2> QED
        BY <1>2, <2>4 DEF OwedByAll
<1>6. IsFiniteSet(PassedByAll) /\ Cardinality(PassedByAll) = 0
    BY <1>4, FS_EmptySet
<1> QED
    BY <1>1, <1>2, <1>3, <1>5, <1>6 DEF WorkInv, WithinBudget

(* The call that is made, and the rest.                                    *)
LEMMA CallIsOwed ==
    ASSUME SynthesisInv, stack # << >>, WithinBudget
    PROVE  /\ call = stack[1] /\ 1 \in DOMAIN stack /\ call.line \in Line /\ Len(call.line) \in Nat
           /\ call.budget \in Nat /\ Budgeted(Tail(stack)) /\ OwedByAll(Tail(stack)) \in Int
           /\ OwedByAll(stack) = call.budget + OwedByAll(Tail(stack))
           /\ \A i \in DOMAIN Tail(stack) : i + 1 \in DOMAIN stack /\ Tail(stack)[i] = stack[i + 1]
<1>1. Budgeted(stack) /\ IsSequence(stack)
    BY DEF WithinBudget, SynthesisInv
<1>2. /\ call = stack[1] /\ 1 \in DOMAIN stack
      /\ \A i \in DOMAIN Tail(stack) : i + 1 \in DOMAIN stack /\ Tail(stack)[i] = stack[i + 1]
    BY <1>1, TailIsSequence DEF call
<1>3. /\ Budgeted(Tail(stack)) /\ call.budget \in Nat
      /\ OwedByAll(stack) = call.budget + OwedByAll(Tail(stack))
    BY <1>1, <1>2, OwedByTail
<1>4. call.line \in Line /\ Len(call.line) \in Nat
    BY <1>2 DEF SynthesisInv, Playable, Line
<1>5. OwedByAll(Tail(stack)) \in Int
    BY <1>3, OwedSummable
<1> QED
    BY <1>2, <1>3, <1>4, <1>5

(* A call that returns with a line pays for the moves it has added.        *)
LEMMA WorkKept ==
    ASSUME WorkInv, SynthesisInv', ~ done, stack # << >>, stack' = Tail(stack), budget' = budget,
           NEW E, IsFiniteSet(E), Cardinality(E) <= call.budget,
           NEW x, Passed(x) \subseteq Passed(call.line) \cup E,
           \/ lines' = lines
           \/ lines' = Append(lines, x) /\ x \in Line
    PROVE  WorkInv'
<1>1. SynthesisInv /\ WithinBudget
    BY DEF WorkInv
<1>2. /\ call = stack[1] /\ 1 \in DOMAIN stack
      /\ call.budget \in Nat /\ Budgeted(Tail(stack)) /\ OwedByAll(Tail(stack)) \in Int
      /\ OwedByAll(stack) = call.budget + OwedByAll(Tail(stack))
      /\ \A i \in DOMAIN Tail(stack) : i + 1 \in DOMAIN stack /\ Tail(stack)[i] = stack[i + 1]
    BY <1>1, CallIsOwed
<1>3. PassedByAll' \subseteq PassedByAll \cup E
    <2> SUFFICES ASSUME NEW q \in PassedByAll' PROVE q \in PassedByAll \cup E
        OBVIOUS
    <2>1. CASE \E i \in DOMAIN lines' : q \in Passed(lines'[i])
        <3>1. PICK i \in DOMAIN lines' : q \in Passed(lines'[i])
            BY <2>1
        <3>2. CASE i \in DOMAIN lines /\ lines'[i] = lines[i]
            BY <3>1, <3>2 DEF PassedByAll
        <3>3. CASE lines'[i] = x
            <4>1. q \in Passed(call.line) \/ q \in E
                BY <3>1, <3>3
            <4>2. q \in Passed(call.line) => \E j \in DOMAIN stack : q \in Passed(stack[j].line)
                BY <1>2
            <4> QED
                BY <4>1, <4>2, PassedBySome
        <3>4. lines'[i] = x \/ (i \in DOMAIN lines /\ lines'[i] = lines[i])
            <4>1. CASE lines' = lines
                BY <4>1
            <4>2. CASE lines' = Append(lines, x) /\ x \in Line
                <5>1. /\ DOMAIN lines' = 1..(Len(lines) + 1) /\ Len(lines) \in Nat
                      /\ DOMAIN lines = 1..Len(lines) /\ lines'[Len(lines) + 1] = x
                      /\ \A j \in DOMAIN lines : lines'[j] = lines[j]
                    BY <1>1, <4>2, AppendLine DEF SynthesisInv
                <5>2. i = Len(lines) + 1 \/ i \in 1..Len(lines)
                    BY <5>1
                <5> QED
                    BY <5>1, <5>2
            <4> QED
                BY <4>1, <4>2
        <3> QED
            BY <3>2, <3>3, <3>4
    <2>2. CASE \E i \in DOMAIN stack' : q \in Passed(stack'[i].line)
        <3>1. PICK i \in DOMAIN stack' : q \in Passed(stack'[i].line)
            BY <2>2
        <3>2. i + 1 \in DOMAIN stack /\ q \in Passed(stack[i + 1].line)
            BY <1>2, <3>1
        <3>3. \E j \in DOMAIN stack : q \in Passed(stack[j].line)
            BY <3>2
        <3> QED
            BY <3>3, PassedBySome
    <2> QED
        BY <2>1, <2>2 DEF PassedByAll
<1>4. /\ IsFiniteSet(PassedByAll') /\ Cardinality(PassedByAll') \in Nat
      /\ Cardinality(PassedByAll') <= Cardinality(PassedByAll) + Cardinality(E)
    <2>1. IsFiniteSet(PassedByAll)
        BY <1>1 DEF WithinBudget
    <2> DEFINE A == PassedByAll
               B == PassedByAll'
    <2>2. IsFiniteSet(A) /\ B \subseteq A \cup E
        BY <1>3, <2>1
    <2> HIDE DEF A, B
    <2>3. IsFiniteSet(B) /\ Cardinality(B) <= Cardinality(A) + Cardinality(E) /\ Cardinality(B) \in Nat
        BY <2>2, GainBounds
    <2> QED
        BY <2>3 DEF A, B
<1>5. Cardinality(PassedByAll) \in Nat /\ Cardinality(E) \in Nat
    BY <1>1, FS_CardinalityType DEF WithinBudget
<1>6. Cardinality(PassedByAll) + OwedByAll(stack) <= budget /\ budget \in Nat
    BY <1>1 DEF WithinBudget
<1> DEFINE c == Cardinality(PassedByAll)
           d == Cardinality(PassedByAll')
           o == OwedByAll(Tail(stack))
<1>7. d + o <= budget
    <2>1. /\ c \in Nat /\ d \in Nat /\ o \in Int /\ d <= c + Cardinality(E)
          /\ c + (call.budget + o) <= budget
        BY <1>2, <1>4, <1>5, <1>6
    <2> HIDE DEF c, d, o
    <2> QED
        BY <1>2, <1>5, <1>6, <2>1
<1>8. WithinBudget'
    <2>1. budget' \in Nat /\ Budgeted(stack') /\ IsFiniteSet(PassedByAll')
        BY <1>2, <1>4, <1>6
    <2>2. Cardinality(PassedByAll') + OwedByAll(stack') <= budget'
        BY <1>7
    <2> QED
        BY <2>1, <2>2 DEF WithinBudget
<1> QED
    BY <1>8 DEF WorkInv

-----------------------------------------------------------------------------
(* A call that returns with its own line.                                  *)
LEMMA WorkStop == WorkInv /\ Stop => WorkInv'
<1> SUFFICES ASSUME WorkInv, Stop PROVE WorkInv'
    OBVIOUS
<1>1. stack # << >> /\ stack' = Tail(stack) /\ budget' = budget /\ done' = done
    BY DEF Stop
<1>2. SynthesisInv /\ SynthesisInv' /\ ~ done
    BY <1>1, InvStop DEF WorkInv, SynthesisInv
<1>3. call.line \in Line /\ call.budget \in Nat
    BY <1>1, <1>2, CallIsOwed DEF WorkInv
<1>4. IsFiniteSet({}) /\ Cardinality({}) <= call.budget
    BY <1>3, FS_EmptySet
<1>5. Passed(call.line) \subseteq Passed(call.line) \cup {}
    OBVIOUS
<1>6. lines' = lines \/ (lines' = Append(lines, call.line) /\ call.line \in Line)
    BY <1>3 DEF Stop, Keep
<1> DEFINE x == call.line
           E == {}
<1>7. /\ IsFiniteSet(E) /\ Cardinality(E) <= call.budget
      /\ Passed(x) \subseteq Passed(call.line) \cup E
      /\ lines' = lines \/ (lines' = Append(lines, x) /\ x \in Line)
    BY <1>4, <1>5, <1>6
<1> HIDE DEF x, E
<1> QED
    BY <1>1, <1>2, <1>7, WorkKept

(* A rollout pays for each of its moves.                                   *)
LEMMA WorkRollout == WorkInv /\ Rollout => WorkInv'
<1> SUFFICES ASSUME WorkInv, Rollout PROVE WorkInv'
    OBVIOUS
<1>1. stack # << >> /\ stack' = Tail(stack) /\ budget' = budget /\ done' = done
    BY DEF Rollout
<1>2. SynthesisInv /\ SynthesisInv' /\ ~ done
    BY <1>1, InvRollout DEF WorkInv, SynthesisInv
<1> DEFINE p == call.line
<1>3. p \in Line /\ Len(p) \in Nat /\ call.budget \in Nat
    BY <1>1, <1>2, CallIsOwed DEF WorkInv
<1>4. PICK r \in Rollouts(call) : lines' = Append(lines, p \o r)
    BY DEF Rollout
<1>5. r \in Line /\ Len(r) \in Nat /\ Len(r) <= call.budget
    <2>1. PICK n \in 0..MaxTreeDepth : r \in [1..n -> Legal]
        BY <1>4 DEF Rollouts
    <2>2. r \in Line
        BY <2>1, SeqDef DEF Line
    <2> QED
        BY <1>4, <2>2 DEF Rollouts, Line
<1> DEFINE x == p \o r
           m == Len(p)
           D == m..(m + Len(r) - 1)
           f == [n \in D |-> SubSeq(x, 1, n)]
           E == {f[n] : n \in D}
<1> HIDE DEF p
<1>6. x \in Line /\ Len(x) = m + Len(r)
    BY <1>3, <1>5 DEF Line
<1>7. IsFiniteSet(D) /\ Cardinality(D) = Len(r)
    <2>1. m \in Int /\ m + Len(r) - 1 \in Int
        BY <1>3, <1>5
    <2>2. IsFiniteSet(D) /\ Cardinality(D) = IF m > m + Len(r) - 1 THEN 0 ELSE m + Len(r) - 1 - m + 1
        BY <2>1, FS_Interval
    <2> QED
        BY <1>3, <1>5, <2>2
<1>8. IsFiniteSet(E) /\ Cardinality(E) <= call.budget
    <2>1. DOMAIN f = D /\ f = [n \in D |-> f[n]]
        OBVIOUS
    <2>2. IsFiniteSet(E) /\ Cardinality(E) <= Cardinality(D)
        <3> HIDE DEF f, D
        <3> QED
            BY <1>7, <2>1, FewMembers
    <2>3. Cardinality(E) \in Nat
        <3> HIDE DEF E
        <3> QED
            BY <2>2, FS_CardinalityType
    <2> HIDE DEF E, D
    <2> QED
        BY <1>3, <1>5, <1>7, <2>2, <2>3
<1>9. Passed(x) \subseteq Passed(p) \cup E
    <2> SUFFICES ASSUME NEW q \in Passed(x) PROVE q \in Passed(p) \cup E
        OBVIOUS
    <2>1. PICK n \in 0..(Len(x) - 1) : q = SubSeq(x, 1, n)
        BY DEF Passed
    <2>2. CASE n < m
        <3>1. SubSeq(x, 1, n) = SubSeq(p, 1, n) /\ n \in 0..(Len(p) - 1)
            BY <1>3, <1>5, <2>2 DEF Line
        <3> QED
            BY <2>1, <3>1 DEF Passed
    <2>3. CASE ~ (n < m)
        <3>1. n \in D
            BY <1>3, <1>5, <1>6, <2>3
        <3>2. f[n] = SubSeq(x, 1, n)
            BY <3>1
        <3> QED
            BY <2>1, <3>1, <3>2
    <2> QED
        BY <2>2, <2>3
<1>10. lines' = Append(lines, x)
    BY <1>4
<1> HIDE DEF x, E
<1>11. Passed(x) \subseteq Passed(call.line) \cup E
    BY <1>9 DEF p
<1> QED
    BY <1>1, <1>2, <1>6, <1>8, <1>10, <1>11, WorkKept

(* A child is one move further.                                            *)
LEMMA PassedByChild ==
    ASSUME NEW p \in Line, NEW m \in Legal
    PROVE  Passed(Append(p, m)) \subseteq Passed(p) \cup {p}
<1>1. Len(p) \in Nat /\ Len(Append(p, m)) = Len(p) + 1 /\ p \in Seq(Legal)
    BY DEF Line
<1> SUFFICES ASSUME NEW q \in Passed(Append(p, m)) PROVE q \in Passed(p) \cup {p}
    OBVIOUS
<1>2. PICK n \in 0..(Len(Append(p, m)) - 1) : q = SubSeq(Append(p, m), 1, n)
    BY DEF Passed
<1>3. n \in 0..Len(p)
    BY <1>1, <1>2
<1>4. SubSeq(Append(p, m), 1, n) = SubSeq(p, 1, n)
    BY <1>1, <1>3
<1>5. CASE n = Len(p)
    <2>1. SubSeq(p, 1, n) = p
        BY <1>1, <1>5
    <2> QED
        BY <1>2, <1>4, <2>1
<1>6. CASE n # Len(p)
    <2>1. n \in 0..(Len(p) - 1)
        BY <1>1, <1>3, <1>6
    <2> QED
        BY <1>2, <1>4, <2>1 DEF Passed
<1> QED
    BY <1>5, <1>6

(* A position is paid for once, and its children share what is left.       *)
LEMMA WorkBranch == WorkInv /\ Branch => WorkInv'
<1> SUFFICES ASSUME WorkInv, Branch PROVE WorkInv'
    OBVIOUS
<1>1. stack # << >> /\ lines' = lines /\ budget' = budget /\ done' = done /\ ~ Exhausted(call)
    BY DEF Branch
<1>2. SynthesisInv /\ SynthesisInv' /\ ~ done /\ WithinBudget
    BY <1>1, BranchKeeps DEF WorkInv, SynthesisInv
<1> DEFINE p == call.line
           b == call.budget
           t == Tail(stack)
<1>3. /\ p = stack[1].line /\ 1 \in DOMAIN stack /\ p \in Line
      /\ b \in Nat /\ Budgeted(t) /\ OwedByAll(t) \in Int
      /\ OwedByAll(stack) = b + OwedByAll(t)
      /\ \A i \in DOMAIN t : i + 1 \in DOMAIN stack /\ t[i] = stack[i + 1]
    BY <1>1, <1>2, CallIsOwed
<1>4. b \in Nat \ {0} /\ ChildTotal(call) = b - 1 /\ b - 1 \in Nat
    BY <1>1, <1>3 DEF Exhausted, ChildTotal
<1>5. PICK moves \in Selections :
         \E weights \in [DOMAIN moves -> 1..MaxWeight] :
             stack' = Calls(call, moves, Budgets(weights, b - 1)) \o t
    BY <1>4 DEF Branch
<1>6. PICK weights \in [DOMAIN moves -> 1..MaxWeight] :
         stack' = Calls(call, moves, Budgets(weights, b - 1)) \o t
    BY <1>5
<1>7. PICK n \in 1..MaxCandidates : moves \in [1..n -> Legal]
    BY <1>5 DEF Selections
<1> DEFINE shares == Budgets(weights, b - 1)
           c == Calls(call, moves, shares)
<1>8. Weighing(1..n, weights)
    <2>1. n \in Nat /\ 1 \in 1..n /\ IsFiniteSet(1..n) /\ 1..n \subseteq Int
        BY <1>7, FS_Interval
    <2>2. weights \in [1..n -> 1..MaxWeight] /\ 1..MaxWeight \subseteq Nat
        BY <1>6, <1>7
    <2> QED
        BY <2>1, <2>2 DEF Weighing
<1>9. shares \in [1..n -> Nat] /\ Summable(shares, 1..n) /\ SumIn(shares, 1..n) = b - 1
    BY <1>4, <1>8, BudgetsAreFair
<1> HIDE DEF shares, t
<1>10. c = [i \in 1..n |-> [line |-> Append(p, moves[i]), budget |-> shares[i]]]
    BY <1>7 DEF Calls
<1> HIDE DEF p, b
<1>11. \A i \in 1..n : c[i].line = Append(p, moves[i]) /\ c[i].budget = shares[i] /\ moves[i] \in Legal
    BY <1>7, <1>10
<1>12. DOMAIN c = 1..n /\ IsSequence(c)
    <2> DEFINE S == {c[i] : i \in 1..n}
    <2>1. DOMAIN c = 1..n
        BY <1>10
    <2>2. c = [i \in 1..n |-> c[i]]
        BY <1>10
    <2>3. n \in Nat
        BY <1>7
    <2>4. \A i \in 1..n : c[i] \in S
        OBVIOUS
    <2> HIDE DEF S, c
    <2>5. c \in [1..n -> S]
        BY <2>2, <2>4
    <2>6. c \in Seq(S)
        BY <2>3, <2>5, SeqDef
    <2> QED
        BY <2>1, <2>6, SequenceOfOwn
<1> HIDE DEF c
<1>13. Budgeted(c)
    BY <1>9, <1>11, <1>12 DEF Budgeted
<1>14. OwedByAll(c) = b - 1
    <2>1. \A i \in 1..n : shares[i] = Owed(c)[i]
        BY <1>11, <1>12 DEF Owed
    <2>2. SumIn(shares, 1..n) = SumIn(Owed(c), 1..n)
        BY <1>9, <2>1, SumSame
    <2> QED
        BY <1>9, <1>12, <2>2 DEF OwedByAll
<1>15. stack' = c \o t
    BY <1>6 DEF c, shares
<1>16. Budgeted(stack') /\ OwedByAll(stack') = b - 1 + OwedByAll(t)
    <2>1. Budgeted(c \o t) /\ OwedByAll(c \o t) = OwedByAll(c) + OwedByAll(t)
        BY <1>3, <1>13, OwedByBoth
    <2> QED
        BY <1>14, <1>15, <2>1
<1>17. PassedByAll' \subseteq PassedByAll \cup {p}
    <2> SUFFICES ASSUME NEW q \in PassedByAll' PROVE q \in PassedByAll \cup {p}
        OBVIOUS
    <2>0. (\E i \in DOMAIN lines : q \in Passed(lines[i])) \/ (\E i \in DOMAIN stack' : q \in Passed(stack'[i].line))
        BY <1>1 DEF PassedByAll
    <2>1. CASE \E i \in DOMAIN lines : q \in Passed(lines[i])
        BY <2>1, PassedBySome
    <2>2. CASE \E i \in DOMAIN stack' : q \in Passed(stack'[i].line)
        <3>1. PICK i \in DOMAIN stack' : q \in Passed(stack'[i].line)
            BY <2>2
        <3>2. /\ DOMAIN (c \o t) = 1..(Len(c) + Len(t)) /\ Len(c) = n /\ Len(t) \in Nat
              /\ DOMAIN t = 1..Len(t)
              /\ \A j \in 1..Len(c) : (c \o t)[j] = c[j]
              /\ \A j \in (Len(c) + 1)..(Len(c) + Len(t)) : (c \o t)[j] = t[j - Len(c)]
            <4>1. IsSequence(t)
                BY <1>3 DEF Budgeted
            <4>2. Len(c) = n /\ Len(t) \in Nat /\ DOMAIN t = 1..Len(t)
                BY <1>12, <4>1 DEF IsSequence
            <4> QED
                BY <1>12, <4>1, <4>2, ConcatIsSequence
        <3>3. CASE i \in 1..n
            <4>1. stack'[i] = c[i] /\ c[i].line = Append(p, moves[i]) /\ moves[i] \in Legal
                BY <1>11, <1>15, <3>2, <3>3
            <4>2. q \in Passed(Append(p, moves[i]))
                BY <3>1, <4>1
            <4>3. q \in Passed(p) \/ q = p
                BY <1>3, <4>1, <4>2, PassedByChild
            <4>4. q \in Passed(p) => \E j \in DOMAIN stack : q \in Passed(stack[j].line)
                BY <1>3
            <4> QED
                BY <4>3, <4>4, PassedBySome
        <3>4. CASE i \notin 1..n
            <4>1. i \in (n + 1)..(n + Len(t)) /\ i - n \in DOMAIN t
                BY <1>7, <1>15, <3>1, <3>2, <3>4
            <4>2. stack'[i] = t[i - n] /\ (i - n) + 1 \in DOMAIN stack /\ t[i - n] = stack[(i - n) + 1]
                BY <1>3, <1>15, <3>2, <4>1
            <4>3. \E j \in DOMAIN stack : q \in Passed(stack[j].line)
                BY <3>1, <4>2
            <4> QED
                BY <4>3, PassedBySome
        <3> QED
            BY <3>3, <3>4
    <2> QED
        BY <2>0, <2>1, <2>2
<1>18. /\ IsFiniteSet(PassedByAll') /\ Cardinality(PassedByAll') \in Nat
       /\ Cardinality(PassedByAll') <= Cardinality(PassedByAll) + 1
    <2>1. IsFiniteSet(PassedByAll) /\ IsFiniteSet({p}) /\ Cardinality({p}) = 1
        BY <1>2, FS_Singleton DEF WithinBudget
    <2> DEFINE A == PassedByAll
               B == PassedByAll'
               E == {p}
    <2>2. IsFiniteSet(A) /\ IsFiniteSet(E) /\ B \subseteq A \cup E
        BY <1>17, <2>1
    <2> HIDE DEF A, B, E
    <2>3. IsFiniteSet(B) /\ Cardinality(B) <= Cardinality(A) + Cardinality(E) /\ Cardinality(B) \in Nat
        BY <2>2, GainBounds
    <2>4. Cardinality(E) = 1
        BY <2>1 DEF E
    <2>5. Cardinality(B) <= Cardinality(A) + 1
        BY <2>3, <2>4
    <2> QED
        BY <2>3, <2>5 DEF A, B
<1>19. Cardinality(PassedByAll') + OwedByAll(stack') <= budget
    <2>1. Cardinality(PassedByAll) + OwedByAll(stack) <= budget /\ budget \in Nat
          /\ Cardinality(PassedByAll) \in Nat
        BY <1>2, FS_CardinalityType DEF WithinBudget
    <2> DEFINE u == Cardinality(PassedByAll)
               v == Cardinality(PassedByAll')
               o == OwedByAll(t)
    <2>2. u \in Nat /\ v \in Nat /\ v <= u + 1 /\ o \in Int /\ b \in Nat /\ u + (b + o) <= budget
        BY <1>3, <1>4, <1>18, <2>1
    <2> HIDE DEF u, v, o
    <2>3. v + (b - 1 + o) <= budget
        BY <2>1, <2>2
    <2> QED
        BY <1>16, <2>3 DEF v, o
<1>20. WithinBudget'
    <2>1. budget' \in Nat
        BY <1>1, <1>2 DEF WithinBudget
    <2> QED
        BY <1>1, <1>16, <1>18, <1>19, <2>1 DEF WithinBudget
<1> QED
    BY <1>2, <1>20 DEF WorkInv

(* Every step of an expansion stays within the budget.                     *)
LEMMA WorkStep == WorkInv /\ [Next]_vars => WorkInv'
<1> SUFFICES ASSUME WorkInv, [Next]_vars PROVE WorkInv'
    OBVIOUS
<1>1. CASE Stop
    BY <1>1, WorkStop
<1>2. CASE Rollout
    BY <1>2, WorkRollout
<1>3. CASE Branch
    BY <1>3, WorkBranch
<1>4. CASE Finish
    <2>1. SynthesisInv' /\ done'
        BY <1>4, FinishKeeps DEF WorkInv, Finish
    <2> QED
        BY <2>1 DEF WorkInv
<1>5. CASE UNCHANGED vars
    <2>1. SynthesisInv'
        BY <1>5 DEF WorkInv, vars, SynthesisInv, LinesApart, Playable, Apart
    <2>2. WithinBudget => WithinBudget'
        BY <1>5 DEF vars, WithinBudget, PassedByAll
    <2>3. done' = done
        BY <1>5 DEF vars
    <2> QED
        BY <2>1, <2>2, <2>3 DEF WorkInv
<1> QED
    BY <1>1, <1>2, <1>3, <1>4, <1>5 DEF Next

(* The positions passed and the calls owed are those that are counted.     *)
LEMMA WorkImplies == WorkInv => WorkWithinBudget
BY DEF WorkInv, WithinBudget, WorkWithinBudget, OwedByAll, Owed, SumOf, SumIn

(* However the engine proposes and weighs its candidates, a puzzle moves on*)
(* from no more positions than its budget pays for.                        *)
THEOREM WorkAlwaysWithinBudget == Spec => []WorkWithinBudget
BY WorkInit, WorkStep, WorkImplies, PTL DEF Spec

-----------------------------------------------------------------------------
(* Where no puzzle is expanded, nothing is owed.                            *)
LEMMA RestIsWithinBudget == ExpandAtRest => WorkInv
<1> SUFFICES ASSUME ExpandAtRest PROVE WorkInv
    OBVIOUS
<1>1. budget = 0 /\ stack = << >> /\ lines = << >> /\ DOMAIN stack = {} /\ DOMAIN lines = {}
    BY DEF ExpandAtRest
<1>2. IsSequence(stack) /\ lines \in Seq(Line)
    BY <1>1 DEF IsSequence
<1>3. SynthesisInv
    BY <1>1, <1>2 DEF SynthesisInv, LinesApart
<1>4. Budgeted(stack)
    BY <1>1, <1>2 DEF Budgeted
<1>5. OwedByAll(stack) = 0
    BY <1>1, <1>4, OwedSummable, SumTake DEF OwedByAll
<1>6. PassedByAll = {}
    BY <1>1 DEF PassedByAll
<1>7. IsFiniteSet(PassedByAll) /\ Cardinality(PassedByAll) = 0
    BY <1>6, FS_EmptySet
<1> QED
    BY <1>1, <1>3, <1>4, <1>5, <1>7 DEF WorkInv, WithinBudget

(* In the company of the other algorithms nothing else touches a puzzle.   *)
THEOREM PuzzlesExpandedSoundly == AlgorithmSpec => [](LinesSound /\ WorkWithinBudget)
<1>1. AlgorithmInit => WorkInv
    BY WorkInit, RestIsWithinBudget DEF AlgorithmInit
<1>2. WorkInv /\ [AlgorithmNext]_algorithmVars => WorkInv'
    <2>1. [AlgorithmNext]_algorithmVars => [Next]_vars
        BY DEF AlgorithmNext, Expand, Balance, Compute, Annotate, Generate, Infer, Answer,
               algorithmVars
    <2> QED
        BY <2>1, WorkStep
<1>3. WorkInv => LinesSound /\ WorkWithinBudget
    <2>1. WorkInv => SynthesisInv
        BY DEF WorkInv
    <2> QED
        BY <2>1, WorkImplies, SynthesisImplies
<1> QED
    BY <1>1, <1>2, <1>3, PTL DEF AlgorithmSpec

(* The allocation under way, if there is one, is of weights by which a     *)
(* total can be shared.                                                    *)
AllocationInv ==
    task = "allocate" => input \in [weights : [Candidates -> Weights], total : 0..MaxTotal]

(* However many candidates there are, however they weigh and however much  *)
(* is to be shared, the budget is shared out completely and fairly.        *)
THEOREM BudgetsAlwaysFair == AlgorithmSpec => []BudgetsFair
<1>1. AlgorithmInit => AllocationInv
    <2> SUFFICES ASSUME AlgorithmInit, task = "allocate"
                 PROVE  input \in [weights : [Candidates -> Weights], total : 0..MaxTotal]
        BY DEF AllocationInv
    <2>1. input \in Inputs["allocate"]
        BY DEF AlgorithmInit
    <2> QED
        BY <2>1 DEF Inputs
<1>2. AllocationInv /\ [AlgorithmNext]_algorithmVars => AllocationInv'
    <2> SUFFICES ASSUME AllocationInv, [AlgorithmNext]_algorithmVars PROVE AllocationInv'
        OBVIOUS
    <2>1. CASE Expand \/ Balance \/ UNCHANGED algorithmVars
        BY <2>1 DEF Expand, Balance, algorithmVars, AllocationInv
    <2>2. CASE Compute
        BY <2>2 DEF Compute, Answer, AllocationInv
    <2>3. CASE Annotate \/ Generate \/ Infer
        <3>1. task \in {"finalize", "batch", "evaluate"} /\ task' = task
            BY <2>3 DEF Annotate, Generate, Infer, Answer
        <3> QED
            BY <3>1 DEF AllocationInv
    <2> QED
        BY <2>1, <2>2, <2>3 DEF AlgorithmNext
<1>3. AllocationInv => BudgetsFair
    <2> SUFFICES ASSUME AllocationInv, task = "allocate"
                 PROVE  IsFair(input.weights, input.total, Budgets(input.weights, input.total))
        BY DEF BudgetsFair, Done
    <2>1. input.weights \in [Candidates -> Weights] /\ input.total \in 0..MaxTotal
        BY DEF AllocationInv
    <2>2. input.weights \in [Candidates -> Nat] /\ input.total \in Nat
        <3>1. Weights \subseteq Nat /\ MaxTotal \in Nat
            BY AllocationAssumption DEF AllocationAssumption
        <3>2. \A f \in [Candidates -> Weights] : f \in [Candidates -> Nat]
            BY <3>1
        <3> QED
            BY <2>1, <3>1, <3>2
    <2>3. IsFiniteSet(Candidates) /\ Candidates # {} /\ Candidates \subseteq Int
        BY AllocationAssumption DEF AllocationAssumption
    <2>4. Weighing(Candidates, input.weights)
        BY <2>2, <2>3 DEF Weighing
    <2> QED
        BY <2>2, <2>4, BudgetsAreFair
<1> QED
    BY <1>1, <1>2, <1>3, PTL DEF AlgorithmSpec

-----------------------------------------------------------------------------
(* Sums over the parts of a set add up to the sum over all of it.          *)
LEMMA SumOfParts ==
    ASSUME NEW D, IsFiniteSet(D), NEW F, NEW f, NEW g,
           \A d \in D : Summable(f, F[d]) /\ g[d] = SumIn(f, F[d]),
           \A d, e \in D : d # e => F[d] \cap F[e] = {}
    PROVE  /\ SumIn(g, D) = SumIn(f, UNION {F[d] : d \in D}) /\ Summable(g, D)
           /\ Summable(f, UNION {F[d] : d \in D})
<1> DEFINE All(T) == UNION {F[d] : d \in T}
           Good == {T \in SUBSET D : /\ Summable(g, T) /\ Summable(f, All(T))
                                     /\ SumIn(g, T) = SumIn(f, All(T))}
<1>1. {} \in Good
    <2>1. All({}) = {} /\ IsFiniteSet({})
        BY FS_EmptySet
    <2>2. Summable(g, {}) /\ Summable(f, {})
        BY <2>1 DEF Summable
    <2>3. SumIn(g, {}) = 0 /\ SumIn(f, {}) = 0
        BY <2>2, SumTake
    <2> HIDE DEF All
    <2> QED
        BY <2>1, <2>2, <2>3
<1>2. ASSUME NEW T \in SUBSET D, NEW x \in D \ T, T \in Good
      PROVE  T \cup {x} \in Good
    <2>1. All(T \cup {x}) = All(T) \cup F[x]
        OBVIOUS
    <2>2. All(T) \cap F[x] = {}
        <3> SUFFICES ASSUME NEW q \in All(T), q \in F[x] PROVE FALSE
            OBVIOUS
        <3>1. PICK d \in T : q \in F[d]
            OBVIOUS
        <3>2. d \in D /\ d # x
            BY <3>1
        <3> QED
            BY <3>1, <3>2
    <2>3. Summable(g, T) /\ Summable(f, All(T)) /\ SumIn(g, T) = SumIn(f, All(T)) /\ T \cup {x} \in SUBSET D
        BY <1>2
    <2> HIDE DEF All, Good
    <2>4. Summable(f, F[x]) /\ g[x] = SumIn(f, F[x]) /\ x \notin T /\ g[x] \in Int
        BY SumTake
    <2>5. SumIn(f, All(T) \cup F[x]) = SumIn(f, All(T)) + SumIn(f, F[x]) /\ Summable(f, All(T) \cup F[x])
        BY <2>2, <2>3, <2>4, SumUnion
    <2>6. SumIn(g, T \cup {x}) = SumIn(g, T) + g[x] /\ Summable(g, T \cup {x})
        BY <2>3, <2>4, SumAdd
    <2>7. SumIn(g, T \cup {x}) = SumIn(f, All(T \cup {x})) /\ Summable(f, All(T \cup {x}))
        BY <2>1, <2>3, <2>4, <2>5, <2>6
    <2> QED
        BY <2>3, <2>6, <2>7 DEF Good
<1>3. D \in Good
    <2> HIDE DEF Good
    <2> QED
        BY <1>1, <1>2, ElementInduction
<1> QED
    BY <1>3

(* A constant, added up.                                                   *)
LEMMA SumConstant ==
    ASSUME NEW D, IsFiniteSet(D), NEW c \in Int, NEW f, \A d \in D : f[d] = c
    PROVE  SumIn(f, D) = Cardinality(D) * c /\ Summable(f, D)
<1> DEFINE one == [d \in D |-> 1]
<1>1. SumIn(one, D) = Cardinality(D) /\ Summable(one, D)
    <2>1. D \in SUBSET D /\ \A x \in D : one[x] = IF x \in D THEN 1 ELSE 0
        OBVIOUS
    <2> HIDE DEF one
    <2> QED
        BY <2>1, SumCounts
<1>2. \A x \in D : f[x] = one[x] * c
    OBVIOUS
<1> HIDE DEF one
<1> QED
    BY <1>1, <1>2, SumTimes

(* Finitely many numbers have a greatest and a least.                      *)
LEMMA Extremes ==
    ASSUME NEW S, IsFiniteSet(S), S # {}, S \subseteq Int
    PROVE  /\ Max(S) \in S /\ \A x \in S : x <= Max(S)
           /\ Min(S) \in S /\ \A x \in S : Min(S) <= x
<1> DEFINE Good == {T \in SUBSET S : T # {} => /\ \E x \in T : \A y \in T : x >= y
                                               /\ \E x \in T : \A y \in T : x <= y}
<1>1. {} \in Good
    OBVIOUS
<1>2. ASSUME NEW T \in SUBSET S, NEW z \in S \ T, T \in Good
      PROVE  T \cup {z} \in Good
    <2>1. CASE T = {}
        <3>1. T \cup {z} = {z} /\ z \in Int
            BY <2>1
        <3>2. /\ \E x \in {z} : \A y \in {z} : x >= y
              /\ \E x \in {z} : \A y \in {z} : x <= y
            BY <3>1
        <3> QED
            BY <3>1, <3>2
    <2>2. CASE T # {}
        <3>1. PICK a \in T : \A y \in T : a >= y
            BY <1>2, <2>2
        <3>2. PICK b \in T : \A y \in T : b <= y
            BY <1>2, <2>2
        <3>3. \A y \in T : y \in Int
            OBVIOUS
        <3>4. \E x \in T \cup {z} : \A y \in T \cup {z} : x >= y
            <4>1. CASE a >= z
                BY <3>1, <4>1
            <4>2. CASE ~ (a >= z)
                <5>1. z >= z /\ \A y \in T : z >= y
                    BY <3>1, <3>3, <4>2
                <5> QED
                    BY <5>1
            <4> QED
                BY <4>1, <4>2
        <3>5. \E x \in T \cup {z} : \A y \in T \cup {z} : x <= y
            <4>1. CASE b <= z
                BY <3>2, <4>1
            <4>2. CASE ~ (b <= z)
                <5>1. z <= z /\ \A y \in T : z <= y
                    BY <3>2, <3>3, <4>2
                <5> QED
                    BY <5>1
            <4> QED
                BY <4>1, <4>2
        <3> QED
            BY <3>4, <3>5
    <2> QED
        BY <2>1, <2>2
<1>3. S \in Good
    <2> HIDE DEF Good
    <2> QED
        BY <1>1, <1>2, ElementInduction
<1>4. (\E x \in S : \A y \in S : x >= y) /\ (\E x \in S : \A y \in S : x <= y)
    BY <1>3
<1>5. Max(S) \in S /\ \A y \in S : Max(S) >= y
    BY <1>4 DEF Max
<1>6. Min(S) \in S /\ \A y \in S : Min(S) <= y
    BY <1>4 DEF Min
<1> QED
    BY <1>5, <1>6

(* No place of a total order is empty.                                     *)
LEMMA PlacesFilled ==
    ASSUME NEW S, IsFiniteSet(S), NEW before, TotalOrder(S, before)
    PROVE  \A p \in 0..(Cardinality(S) - 1) : \E i \in S : Place(S, before, i) = p
BY PlacesDiffer

(* Members of a set of numbers, one after the other.                       *)
Ranked(F, p) == CHOOSE r \in F : Cardinality({q \in F : q < r}) = p - 1

SortedUp(F) == [p \in 1..Cardinality(F) |-> Ranked(F, p)]

(* They are all there, and nothing else.                                   *)
LEMMA SortedUpHolds ==
    ASSUME NEW F, IsFiniteSet(F), F \subseteq Int
    PROVE  /\ SortedUp(F) \in Seq(F) /\ Len(SortedUp(F)) = Cardinality(F)
           /\ \A r \in F : \E p \in 1..Cardinality(F) : SortedUp(F)[p] = r
<1> DEFINE before == {pair \in F \X F : pair[1] < pair[2]}
           n == Cardinality(F)
<1>1. n \in Nat
    BY FS_CardinalityType
<1>2. TotalOrder(F, before)
    <2>1. \A i, j \in F : <<i, j>> \in before <=> i < j
        OBVIOUS
    <2>2. \A i \in F : i \in Int
        OBVIOUS
    <2> HIDE DEF before
    <2>3. \A i \in F : <<i, i>> \notin before
        BY <2>1, <2>2
    <2>4. \A i, j \in F : i # j => <<i, j>> \in before \/ <<j, i>> \in before
        BY <2>1, <2>2
    <2>5. \A i, j, l \in F : <<i, j>> \in before /\ <<j, l>> \in before => <<i, l>> \in before
        BY <2>1, <2>2
    <2> QED
        BY <2>3, <2>4, <2>5 DEF TotalOrder
<1>3. \A r \in F : Cardinality({q \in F : q < r}) = Place(F, before, r)
    <2> SUFFICES ASSUME NEW r \in F PROVE Cardinality({q \in F : q < r}) = Place(F, before, r)
        OBVIOUS
    <2>1. {q \in F : q < r} = {q \in F : <<q, r>> \in before}
        OBVIOUS
    <2> QED
        BY <2>1 DEF Place
<1> HIDE DEF before
<1>4. /\ \A i \in F : Place(F, before, i) \in 0..(n - 1)
      /\ \A i, j \in F : Place(F, before, i) = Place(F, before, j) => i = j
      /\ \A p \in 0..(n - 1) : \E i \in F : Place(F, before, i) = p
    <2>1. \A i \in F : Place(F, before, i) \in 0..(n - 1)
        BY <1>2, PlacesDiffer
    <2>2. \A i, j \in F : Place(F, before, i) = Place(F, before, j) => i = j
        BY <1>2, PlacesDiffer
    <2>3. \A p \in 0..(n - 1) : \E i \in F : Place(F, before, i) = p
        BY <1>2, PlacesFilled
    <2> QED
        BY <2>1, <2>2, <2>3
<1>5. \A p \in 1..n : SortedUp(F)[p] \in F /\ Place(F, before, SortedUp(F)[p]) = p - 1
    <2> SUFFICES ASSUME NEW p \in 1..n
                 PROVE  SortedUp(F)[p] \in F /\ Place(F, before, SortedUp(F)[p]) = p - 1
        OBVIOUS
    <2>1. p - 1 \in 0..(n - 1)
        BY <1>1
    <2>2. \E r \in F : Cardinality({q \in F : q < r}) = p - 1
        BY <1>3, <1>4, <2>1
    <2>3. SortedUp(F)[p] = Ranked(F, p)
        BY DEF SortedUp
    <2>4. Ranked(F, p) \in F /\ Cardinality({q \in F : q < Ranked(F, p)}) = p - 1
        BY <2>2 DEF Ranked
    <2>5. SortedUp(F)[p] \in F /\ Cardinality({q \in F : q < SortedUp(F)[p]}) = p - 1
        BY <2>3, <2>4
    <2> QED
        BY <1>3, <2>5
<1>6. SortedUp(F) \in [1..n -> F]
    <2>1. SortedUp(F) = [p \in 1..n |-> SortedUp(F)[p]]
        BY DEF SortedUp
    <2> HIDE DEF n
    <2> QED
        BY <1>5, <2>1
<1>7. SortedUp(F) \in Seq(F) /\ Len(SortedUp(F)) = n
    <2>1. SortedUp(F) \in Seq(F)
        BY <1>1, <1>6, SeqDef
    <2>2. DOMAIN SortedUp(F) = 1..n
        BY <1>6
    <2> QED
        BY <1>1, <2>1, <2>2, LenProperties
<1>8. \A r \in F : \E p \in 1..n : SortedUp(F)[p] = r
    <2> SUFFICES ASSUME NEW r \in F PROVE \E p \in 1..n : SortedUp(F)[p] = r
        OBVIOUS
    <2> DEFINE p == Place(F, before, r) + 1
    <2>1. p \in 1..n /\ p - 1 = Place(F, before, r)
        BY <1>1, <1>4
    <2> HIDE DEF p
    <2>2. SortedUp(F)[p] = r
        BY <1>4, <1>5, <2>1
    <2> QED
        BY <2>1, <2>2
<1> QED
    BY <1>7, <1>8

-----------------------------------------------------------------------------
(* Induction, for a set of numbers.                                        *)
LEMMA NumberInduction ==
    ASSUME NEW S, 0 \in S, \A n \in Nat : n \in S => n + 1 \in S
    PROVE  Nat \subseteq S
<1> DEFINE R == {pair \in Nat \X Nat : pair[1] < pair[2]}
           T == Nat \ S
<1>1. SUFFICES ASSUME T # {} PROVE FALSE
    OBVIOUS
<1>2. IsWellFoundedOn(R, Nat)
    BY NatLessThanWellFounded DEF OpToRel
<1>3. PICK m \in T : \A n \in T : ~ (<<n, m>> \in R)
    <2> HIDE DEF R, T
    <2>1. T \subseteq Nat
        BY DEF T
    <2> QED
        BY <1>1, <1>2, <2>1, WFMin
<1>4. m \in Nat /\ m \notin S /\ m # 0
    BY <1>3
<1>5. m - 1 \in Nat /\ (m - 1) + 1 = m /\ m - 1 < m
    BY <1>4
<1>6. m - 1 \in S
    BY <1>3, <1>4, <1>5
<1> QED
    BY <1>4, <1>5, <1>6

(* Two sequences, one after the other.                                     *)
LEMMA Joined ==
    ASSUME NEW S, NEW a \in Seq(S), NEW b \in Seq(S)
    PROVE  /\ a \o b \in Seq(S) /\ Len(a \o b) = Len(a) + Len(b)
           /\ \A i \in 1..Len(a) : (a \o b)[i] = a[i]
           /\ \A i \in 1..Len(b) : (a \o b)[Len(a) + i] = b[i]
OBVIOUS

\* Where each of n sequences starts: where those before it end.
Starts(s, n, off) ==
    /\ \A i \in 1..(n + 1) : off[i] \in Nat
    /\ off[1] = 0
    /\ \A i \in 1..n : off[i + 1] = off[i] + Len(s[i])

\* g is n sequences over S, each from its start on.
LaidOut(g, s, n, off, S) ==
    /\ g \in Seq(S) /\ Len(g) = off[n + 1]
    /\ \A i \in 1..n : \A j \in 1..Len(s[i]) :
          off[i] + j \in 1..off[n + 1] /\ g[off[i] + j] = s[i][j]

(* A sequence of sequences, flattened.                                     *)
LEMMA Flattened ==
    ASSUME NEW S, NEW n \in Nat \ {0}, NEW s, s \in [1..n -> Seq(S)], NEW off, Starts(s, n, off)
    PROVE  LaidOut(FlattenSeq(s), s, n, off, S)
<1>0. /\ \A i \in 1..(n + 1) : off[i] \in Nat
      /\ off[1] = 0
      /\ \A i \in 1..n : off[i + 1] = off[i] + Len(s[i])
    BY DEF Starts
<1> USE <1>0
<1> DEFINE Flat(h, m) == h = [i \in 1..m |-> IF i = 1 THEN s[i] ELSE h[i - 1] \o s[i]]
           Pieces(g, m) ==
               /\ g \in Seq(S) /\ Len(g) = off[m + 1]
               /\ \A i \in 1..m : \A j \in 1..Len(s[i]) :
                     off[i] + j \in 1..off[m + 1] /\ g[off[i] + j] = s[i][j]
<1>1. Len(s) = n
    <2>1. s \in Seq(Seq(S))
        BY SeqDef
    <2> QED
        BY <2>1
<1>2. FlattenSeq(s) = (CHOOSE h : Flat(h, n))[n]
    BY <1>1 DEF FlattenSeq
<1>3. \E h : Flat(h, n)
    <2> DEFINE Good == {m \in Nat : \E h : Flat(h, m)}
    <2>1. 0 \in Good
        <3>1. Flat(<< >>, 0)
            OBVIOUS
        <3> QED
            BY <3>1
    <2>2. ASSUME NEW m \in Nat, m \in Good PROVE m + 1 \in Good
        <3>1. PICK h : Flat(h, m)
            BY <2>2
        <3> DEFINE top == IF m = 0 THEN s[1] ELSE h[m] \o s[m + 1]
                   g == [i \in 1..(m + 1) |-> IF i = m + 1 THEN top ELSE h[i]]
        <3>2. \A i \in 1..m : h[i] = IF i = 1 THEN s[i] ELSE h[i - 1] \o s[i]
            BY <3>1
        <3>3. \A i \in 1..(m + 1) : g[i] = IF i = 1 THEN s[i] ELSE g[i - 1] \o s[i]
            <4> SUFFICES ASSUME NEW i \in 1..(m + 1)
                         PROVE  g[i] = IF i = 1 THEN s[i] ELSE g[i - 1] \o s[i]
                OBVIOUS
            <4> HIDE DEF top
            <4>1. CASE i = m + 1
                <5>1. g[i] = top
                    BY <4>1
                <5>2. CASE m = 0
                    BY <4>1, <5>1, <5>2 DEF top
                <5>3. CASE m # 0
                    <6>1. i # 1 /\ i - 1 \in 1..m /\ i - 1 # m + 1 /\ i - 1 = m
                        BY <4>1, <5>3
                    <6>2. g[i - 1] = h[m]
                        BY <6>1
                    <6>3. top = h[m] \o s[i]
                        BY <4>1, <5>3 DEF top
                    <6> QED
                        BY <5>1, <6>1, <6>2, <6>3
                <5> QED
                    BY <5>2, <5>3
            <4>2. CASE i # m + 1
                <5>1. i \in 1..m /\ g[i] = h[i]
                    BY <4>2
                <5>2. i # 1 => i - 1 \in 1..m /\ i - 1 # m + 1
                    BY <5>1
                <5>3. i # 1 => g[i - 1] = h[i - 1]
                    BY <5>2
                <5> HIDE DEF g
                <5> QED
                    BY <3>2, <5>1, <5>3
            <4> QED
                BY <4>1, <4>2
        <3>4. g = [i \in 1..(m + 1) |-> g[i]]
            OBVIOUS
        <3> HIDE DEF g
        <3>5. Flat(g, m + 1)
            BY <3>3, <3>4
        <3> HIDE DEF Flat
        <3> QED
            BY <3>5
    <2>3. Nat \subseteq Good
        <3> HIDE DEF Good
        <3> QED
            BY <2>1, <2>2, NumberInduction
    <2> QED
        BY <2>3
<1>4. PICK h : Flat(h, n) /\ FlattenSeq(s) = h[n]
    <2> HIDE DEF Flat
    <2> QED
        BY <1>2, <1>3
<1>5. \A i \in 1..n : h[i] = IF i = 1 THEN s[i] ELSE h[i - 1] \o s[i]
    BY <1>4
<1> HIDE DEF Flat
<1> DEFINE Good == {m \in Nat : m + 1 \in 1..n => Pieces(h[m + 1], m + 1)}
<1>6. 0 \in Good
    <2>1. h[1] = s[1] /\ s[1] \in Seq(S) /\ off[1 + 1] = off[1] + Len(s[1])
        BY <1>5
    <2>2. Len(s[1]) \in Nat /\ off[2] = Len(s[1])
        BY <2>1
    <2>3. \A i \in 1..1 : i = 1
        OBVIOUS
    <2>4. Pieces(h[1], 1)
        BY <2>1, <2>2, <2>3
    <2> HIDE DEF Pieces
    <2>5. 0 + 1 = 1
        OBVIOUS
    <2> QED
        BY <2>4, <2>5
<1>7. ASSUME NEW m \in Nat, m \in Good PROVE m + 1 \in Good
    <2> SUFFICES ASSUME m + 1 + 1 \in 1..n PROVE Pieces(h[m + 1 + 1], m + 1 + 1)
        OBVIOUS
    <2> DEFINE p == m + 1
               q == m + 2
    <2>1. p \in 1..n /\ q \in 1..n /\ q = p + 1 /\ q # 1 /\ q - 1 = p /\ m + 1 + 1 = q
        OBVIOUS
    <2>2. Pieces(h[p], p)
        BY <1>7, <2>1
    <2> HIDE DEF p, q, Good
    <2>3. h[q] = h[p] \o s[q] /\ s[q] \in Seq(S)
        BY <1>5, <2>1
    <2>4. q \in 1..(n + 1)
        BY <2>1
    <2>5. off[q] \in Nat /\ off[q + 1] = off[q] + Len(s[q]) /\ Len(s[q]) \in Nat /\ p + 1 = q
        BY <2>4, <2>1, <2>3
    <2>6. h[p] \in Seq(S) /\ Len(h[p]) = off[q]
        BY <2>2, <2>5
    <2> DEFINE a == h[p]
               b == s[q]
               u == off[q]
               v == off[q + 1]
    <2>7. a \in Seq(S) /\ b \in Seq(S) /\ Len(a) = u /\ u \in Nat /\ Len(b) \in Nat /\ v = u + Len(b)
        BY <2>3, <2>5, <2>6
    <2>8. h[q] = a \o b
        BY <2>3
    <2>9. \A i \in 1..p : \A j \in 1..Len(s[i]) : off[i] + j \in 1..u /\ a[off[i] + j] = s[i][j]
        BY <2>2, <2>5
    <2> HIDE DEF a, b, u, v
    <2>10. /\ a \o b \in Seq(S) /\ Len(a \o b) = v
           /\ \A i \in 1..u : (a \o b)[i] = a[i]
           /\ \A i \in 1..Len(b) : (a \o b)[u + i] = b[i]
        <3>1. a \in Seq(S) /\ b \in Seq(S)
            BY <2>7
        <3>2. /\ a \o b \in Seq(S) /\ Len(a \o b) = Len(a) + Len(b)
              /\ \A i \in 1..Len(a) : (a \o b)[i] = a[i]
              /\ \A i \in 1..Len(b) : (a \o b)[Len(a) + i] = b[i]
            BY <3>1, Joined
        <3>3. Len(a) = u
            BY <2>7
        <3>4. Len(a \o b) = v
            BY <2>7, <3>2
        <3> QED
            BY <3>2, <3>3, <3>4
    <2>11. h[q] \in Seq(S) /\ Len(h[q]) = off[q + 1]
        BY <2>8, <2>10 DEF v
    <2>12. \A i \in 1..q : \A j \in 1..Len(s[i]) :
             off[i] + j \in 1..off[q + 1] /\ h[q][off[i] + j] = s[i][j]
        <3> SUFFICES ASSUME NEW i \in 1..q, NEW j \in 1..Len(s[i])
                     PROVE  off[i] + j \in 1..off[q + 1] /\ h[q][off[i] + j] = s[i][j]
            OBVIOUS
        <3>1. CASE i = q
            <4>1. off[i] = u /\ s[i] = b /\ j \in 1..Len(b)
                BY <3>1 DEF u, b
            <4>2. u + j \in 1..v
                BY <2>7, <4>1
            <4>3. (a \o b)[u + j] = b[j]
                BY <2>10, <4>1
            <4> QED
                BY <2>8, <4>1, <4>2, <4>3 DEF v
        <3>2. CASE i # q
            <4>1. i \in 1..p
                BY <2>1, <3>2
            <4>2. off[i] + j \in 1..u /\ a[off[i] + j] = s[i][j]
                BY <2>9, <4>1
            <4> DEFINE t == off[i] + j
            <4>3. t \in 1..u /\ a[t] = s[i][j]
                BY <4>2
            <4> HIDE DEF t
            <4>4. t \in 1..v
                BY <2>7, <4>3
            <4>5. (a \o b)[t] = a[t]
                BY <2>10, <4>3
            <4> QED
                BY <2>8, <4>3, <4>4, <4>5 DEF t, v
        <3> QED
            BY <3>1, <3>2
    <2>13. Pieces(h[q], q)
        BY <2>11, <2>12
    <2> HIDE DEF Pieces
    <2> QED
        BY <2>1, <2>13
<1>8. Pieces(h[n], n)
    <2>1. Nat \subseteq Good
        <3> HIDE DEF Good
        <3> QED
            BY <1>6, <1>7, NumberInduction
    <2>2. n - 1 \in Nat /\ (n - 1) + 1 = n
        OBVIOUS
    <2>3. n - 1 \in Good
        <3> HIDE DEF Good
        <3> QED
            BY <2>1, <2>2
    <2> HIDE DEF Pieces
    <2>4. (n - 1) + 1 \in 1..n => Pieces(h[(n - 1) + 1], (n - 1) + 1)
        BY <2>3
    <2> QED
        BY <2>2, <2>4
<1> QED
    BY <1>4, <1>8 DEF LaidOut

-----------------------------------------------------------------------------
\* The rows of a batch and their lengths.
BatchOK ==
    /\ job \in {"micro", "global"} /\ lens \in [Indices -> 1..MaxLen] /\ k \in Indices

(* The rows, and what their lengths add up to.                             *)
LEMMA RowsOK ==
    /\ Rows \in Nat \ {0} /\ MaxLen \in Nat \ {0} /\ MaxTokenLen \in Nat \ {0} /\ MaxLen <= MaxTokenLen
    /\ IsFiniteSet(Indices) /\ Cardinality(Indices) = Rows /\ Indices = 1..Rows
<1>1. /\ Rows \in Nat \ {0} /\ MaxLen \in Nat \ {0} /\ MaxTokenLen \in Nat \ {0}
      /\ MaxLen <= MaxTokenLen
    BY BalancingAssumption DEF BalancingAssumption
<1>2. IsFiniteSet(1..Rows) /\ Cardinality(1..Rows) = IF 1 > Rows THEN 0 ELSE Rows - 1 + 1
    BY <1>1, FS_Interval
<1> QED
    BY <1>1, <1>2 DEF Indices

(* What a set of rows weighs.                                              *)
LEMMA TotalIsSum ==
    ASSUME BatchOK, NEW S \in SUBSET Indices
    PROVE  /\ IsFiniteSet(S) /\ Summable(lens, S) /\ Total(S) = SumIn(lens, S)
           /\ Total(S) \in Nat /\ (S # {} => Total(S) >= 1) /\ (S = {} => Total(S) = 0)
           /\ Cardinality(S) \in Nat /\ (Cardinality(S) = 0 <=> S = {})
<1>1. IsFiniteSet(S)
    BY RowsOK, FS_Subset
<1>2. \A r \in S : lens[r] \in Nat /\ lens[r] >= 1
    BY RowsOK DEF BatchOK
<1>3. Summable(lens, S)
    BY <1>1, <1>2 DEF Summable
<1>4. Total(S) = SumIn(lens, S)
    BY DEF Total, SumIn
<1>5. SumIn(lens, S) \in Int /\ (S = {} => SumIn(lens, S) = 0)
    BY <1>3, SumTake
<1>6. S # {} => SumIn(lens, S) >= 1
    <2> SUFFICES ASSUME S # {} PROVE SumIn(lens, S) >= 1
        OBVIOUS
    <2> DEFINE zero == [r \in S |-> 0]
    <2>1. SumIn(zero, S) = Cardinality(S) * 0 /\ Summable(zero, S)
        <3>1. \A d \in S : zero[d] = 0
            OBVIOUS
        <3> HIDE DEF zero
        <3> QED
            BY <1>1, <3>1, SumConstant
    <2>2. Cardinality(S) * 0 = 0
        BY <1>1, FS_CardinalityType
    <2>3. \A x \in S : zero[x] < lens[x]
        BY <1>2
    <2> HIDE DEF zero
    <2>4. SumIn(zero, S) < SumIn(lens, S)
        BY <1>3, <2>1, <2>3, SumLess
    <2> QED
        BY <1>5, <2>1, <2>2, <2>4
<1>7. Cardinality(S) \in Nat /\ (Cardinality(S) = 0 <=> S = {})
    BY <1>1, FS_CardinalityType, FS_EmptySet
<1> QED
    BY <1>1, <1>3, <1>4, <1>5, <1>6, <1>7

(* One row weighs its length.                                              *)
LEMMA TotalOfRow ==
    ASSUME BatchOK, NEW r \in Indices
    PROVE  Total({r}) = lens[r]
<1>1. Summable(lens, {r}) /\ Total({r}) = SumIn(lens, {r}) /\ lens[r] \in Int
    BY TotalIsSum, RowsOK DEF BatchOK
<1>2. {r} \ {r} = {}
    OBVIOUS
<1>3. SumIn(lens, {r}) = lens[r] + SumIn(lens, {r} \ {r}) /\ SumIn(lens, {}) = 0
    BY <1>1, SumTake
<1>4. SumIn(lens, {r} \ {r}) = 0
    BY <1>2, <1>3
<1> QED
    BY <1>1, <1>3, <1>4

(* Disjoint sets of rows weigh what each of them weighs.                   *)
LEMMA TotalOfBoth ==
    ASSUME BatchOK, NEW A \in SUBSET Indices, NEW B \in SUBSET Indices, A \cap B = {}
    PROVE  /\ Total(A \cup B) = Total(A) + Total(B)
           /\ Cardinality(A \cup B) = Cardinality(A) + Cardinality(B)
<1>1. /\ Summable(lens, A) /\ Total(A) = SumIn(lens, A) /\ IsFiniteSet(A) /\ Cardinality(A) \in Nat
      /\ Summable(lens, B) /\ Total(B) = SumIn(lens, B) /\ IsFiniteSet(B) /\ Cardinality(B) \in Nat
    BY TotalIsSum
<1>2. SumIn(lens, A \cup B) = SumIn(lens, A) + SumIn(lens, B)
    BY <1>1, SumUnion
<1>3. Total(A \cup B) = SumIn(lens, A \cup B)
    <2>1. A \cup B \in SUBSET Indices
        OBVIOUS
    <2> QED
        BY <2>1, TotalIsSum
<1>4. Cardinality(A \cup B) = Cardinality(A) + Cardinality(B)
    <2>1. Cardinality(A \cup B) = Cardinality(A) + Cardinality(B) - Cardinality(A \cap B)
        BY <1>1, FS_Union
    <2>2. Cardinality(A \cap B) = 0
        BY FS_EmptySet
    <2> QED
        BY <1>1, <2>1, <2>2
<1> QED
    BY <1>1, <1>2, <1>3, <1>4

(* The longest and the shortest row.                                       *)
LEMMA LongestOK ==
    ASSUME BatchOK
    PROVE  /\ Longest \in 1..MaxLen /\ Shortest \in 1..MaxLen /\ Longest - Shortest >= 0
           /\ \A r \in Indices : Shortest <= lens[r] /\ lens[r] <= Longest
<1> DEFINE L == {lens[i] : i \in Indices}
<1>1. IsFiniteSet(L)
    <2>1. DOMAIN lens = Indices /\ lens = [x \in Indices |-> lens[x]]
        BY DEF BatchOK
    <2> QED
        BY <2>1, RowsOK, FewMembers
<1>2. L \subseteq 1..MaxLen /\ 1 \in Indices /\ lens[1] \in L
    BY RowsOK DEF BatchOK
<1>3. L # {} /\ L \subseteq Int
    BY <1>2
<1>4. \A r \in Indices : lens[r] \in L
    OBVIOUS
<1>5. Longest = Max(L) /\ Shortest = Min(L)
    BY DEF Longest, Shortest
<1> HIDE DEF L
<1>6. /\ Max(L) \in L /\ \A x \in L : x <= Max(L)
      /\ Min(L) \in L /\ \A x \in L : Min(L) <= x
    BY <1>1, <1>3, Extremes
<1>7. Longest \in 1..MaxLen /\ Shortest \in 1..MaxLen /\ Shortest <= Longest
    BY <1>2, <1>5, <1>6
<1>8. \A r \in Indices : Shortest <= lens[r] /\ lens[r] <= Longest
    BY <1>4, <1>5, <1>6
<1>9. Longest - Shortest >= 0
    BY <1>7
<1> QED
    BY <1>7, <1>8, <1>9

-----------------------------------------------------------------------------
\* How far apart the sets of a State may be.
Width == IF job = "micro" THEN Longest ELSE Longest - Shortest

Loose(s) == \A i \in 1..k : \A a, b \in s[i] : a = b

(* The sets of a State are sorted, and not too far apart.  One of a micro- *)
(* batch's may be empty only while none has more than one row; those of a  *)
(* rank are of one size.                                                   *)
StateOK(s) ==
    /\ s \in [1..k -> SUBSET Indices]
    /\ \A i, j \in 1..k : i < j => Total(s[i]) >= Total(s[j])
    /\ Total(s[1]) - Total(s[k]) <= Width
    /\ job = "micro" => (\A i \in 1..k : s[i] # {}) \/ Loose(s)
    /\ job = "global" => \A i \in 1..k : s[i] # {} /\ Cardinality(s[i]) = Cardinality(s[1])

\* Each row is somewhere, and only there.
DealtOut(H) ==
    /\ \A r \in Indices : \E s \in H : \E i \in 1..k : r \in s[i]
    /\ \A s, t \in H : \A i, j \in 1..k : \A r \in s[i] : r \in t[j] => s = t /\ i = j

(* No two sets of a State are further apart than the first and the last.   *)
LEMMA ApartAtMost ==
    ASSUME BatchOK, NEW s, StateOK(s), NEW i \in 1..k, NEW j \in 1..k
    PROVE  /\ Total(s[i]) \in Nat /\ Total(s[j]) \in Nat /\ Width \in Nat
           /\ Total(s[i]) - Total(s[j]) <= Width
           /\ i < j => Total(s[i]) - Total(s[j]) >= 0
<1>1. k \in Nat /\ 1 \in 1..k /\ k \in 1..k
    BY RowsOK DEF BatchOK
<1>2. \A m \in 1..k : s[m] \in SUBSET Indices /\ Total(s[m]) \in Nat
    <2>1. \A m \in 1..k : s[m] \in SUBSET Indices
        BY DEF StateOK
    <2> QED
        BY <2>1, TotalIsSum
<1>3. Width \in Nat
    <2>1. Longest \in Nat /\ Shortest \in Nat /\ Longest - Shortest >= 0
        BY LongestOK, RowsOK
    <2> QED
        BY <2>1 DEF Width
<1>4. Total(s[1]) >= Total(s[i])
    <2>1. CASE i = 1
        BY <1>2, <2>1
    <2>2. CASE i # 1
        BY <1>1, <2>2 DEF StateOK
    <2> QED
        BY <2>1, <2>2
<1>5. Total(s[j]) >= Total(s[k])
    <2>1. CASE j = k
        BY <1>2, <2>1
    <2>2. CASE j # k
        BY <1>1, <2>2 DEF StateOK
    <2> QED
        BY <2>1, <2>2
<1>6. Total(s[1]) - Total(s[k]) <= Width
    BY DEF StateOK
<1>7. Total(s[1]) \in Nat /\ Total(s[k]) \in Nat /\ Total(s[i]) \in Nat /\ Total(s[j]) \in Nat
    BY <1>1, <1>2
<1>8. Total(s[i]) - Total(s[j]) <= Width
    BY <1>3, <1>4, <1>5, <1>6, <1>7
<1>9. i < j => Total(s[i]) - Total(s[j]) >= 0
    <2>1. i < j => Total(s[i]) >= Total(s[j])
        BY DEF StateOK
    <2> QED
        BY <1>7, <2>1
<1> QED
    BY <1>3, <1>7, <1>8, <1>9

-----------------------------------------------------------------------------
\* What the merged sets have before they are sorted.
Mixed(u) ==
    /\ u \in [1..k -> SUBSET Indices]
    /\ \A i, j \in 1..k : Total(u[i]) - Total(u[j]) <= Width
    /\ job = "micro" => (\A i \in 1..k : u[i] # {}) \/ Loose(u)
    /\ job = "global" => \A i, j \in 1..k : u[i] # {} /\ Cardinality(u[i]) = Cardinality(u[j])

(* The larger sets of one with the smaller sets of the other.              *)
LEMMA MergedIsMixed ==
    ASSUME BatchOK, NEW s, NEW t, StateOK(s), StateOK(t),
           \A i, j \in 1..k : s[i] \cap t[j] = {}
    PROVE  Mixed(MergedSets(s, t))
<1> DEFINE u == MergedSets(s, t)
           opp(i) == k + 1 - i
<1>1. k \in Nat \ {0} /\ \A i \in 1..k : opp(i) \in 1..k
    BY RowsOK DEF BatchOK
<1>2. \A i \in 1..k : u[i] = s[i] \cup t[opp(i)]
    BY DEF MergedSets
<1>3. s \in [1..k -> SUBSET Indices] /\ t \in [1..k -> SUBSET Indices]
    BY DEF StateOK
<1>4. u \in [1..k -> SUBSET Indices]
    <2>1. u = [i \in 1..k |-> u[i]]
        BY DEF MergedSets
    <2>2. \A i \in 1..k : u[i] \in SUBSET Indices
        BY <1>1, <1>2, <1>3
    <2> HIDE DEF u, opp
    <2> QED
        BY <2>1, <2>2
<1> HIDE DEF u
<1>5. \A i \in 1..k : /\ Total(u[i]) = Total(s[i]) + Total(t[opp(i)])
                      /\ Cardinality(u[i]) = Cardinality(s[i]) + Cardinality(t[opp(i)])
    <2> SUFFICES ASSUME NEW i \in 1..k
                 PROVE  /\ Total(u[i]) = Total(s[i]) + Total(t[opp(i)])
                        /\ Cardinality(u[i]) = Cardinality(s[i]) + Cardinality(t[opp(i)])
        OBVIOUS
    <2> DEFINE A == s[i]
               B == t[opp(i)]
    <2>1. A \in SUBSET Indices /\ B \in SUBSET Indices /\ A \cap B = {} /\ u[i] = A \cup B
        BY <1>1, <1>2, <1>3
    <2> HIDE DEF A, B
    <2>2. Total(A \cup B) = Total(A) + Total(B) /\ Cardinality(A \cup B) = Cardinality(A) + Cardinality(B)
        BY <2>1, TotalOfBoth
    <2> QED
        BY <2>1, <2>2 DEF A, B
<1>6. \A i, j \in 1..k : Total(u[i]) - Total(u[j]) <= Width
    <2> SUFFICES ASSUME NEW i \in 1..k, NEW j \in 1..k PROVE Total(u[i]) - Total(u[j]) <= Width
        OBVIOUS
    <2> DEFINE a == Total(s[i])
               b == Total(s[j])
               c == Total(t[opp(i)])
               d == Total(t[opp(j)])
    <2>1. opp(i) \in 1..k /\ opp(j) \in 1..k
        BY <1>1
    <2>2. a \in Nat /\ b \in Nat /\ Width \in Nat /\ a - b <= Width /\ (i < j => a - b >= 0)
        BY ApartAtMost
    <2>3. b - a <= Width /\ (j < i => b - a >= 0)
        BY ApartAtMost
    <2>4. c \in Nat /\ d \in Nat /\ c - d <= Width /\ (opp(i) < opp(j) => c - d >= 0)
        BY <2>1, ApartAtMost
    <2>5. d - c <= Width /\ (opp(j) < opp(i) => d - c >= 0)
        BY <2>1, ApartAtMost
    <2>6. i < j => opp(j) < opp(i)
        BY <1>1
    <2>7. j < i => opp(i) < opp(j)
        BY <1>1
    <2>8. i = j => a = b /\ c = d
        OBVIOUS
    <2>9. i \in Int /\ j \in Int
        OBVIOUS
    <2> HIDE DEF a, b, c, d, opp
    <2>10. (a + c) - (b + d) <= Width
        <3>1. CASE i < j
            BY <3>1, <2>2, <2>4, <2>5, <2>6
        <3>2. CASE j < i
            BY <3>2, <2>2, <2>3, <2>4, <2>7
        <3>3. CASE i = j
            BY <3>3, <2>2, <2>4, <2>8
        <3> QED
            BY <2>9, <3>1, <3>2, <3>3
    <2>11. Total(u[i]) = a + c /\ Total(u[j]) = b + d
        BY <1>5 DEF a, b, c, d
    <2> QED
        BY <2>10, <2>11
<1>7. job = "micro" => (\A i \in 1..k : u[i] # {}) \/ Loose(u)
    <2> SUFFICES ASSUME job = "micro", NEW e \in 1..k, u[e] = {}, NEW i \in 1..k, NEW a \in u[i], NEW b \in u[i]
                 PROVE  a = b
        BY DEF Loose
    <2>1. s[e] = {} /\ t[opp(e)] = {} /\ opp(e) \in 1..k /\ opp(i) \in 1..k
        BY <1>1, <1>2
    <2>2. Loose(s) /\ Loose(t)
        BY <2>1 DEF StateOK
    <2>3. ~ (s[i] # {} /\ t[opp(i)] # {})
        <3> SUFFICES ASSUME s[i] # {}, t[opp(i)] # {} PROVE FALSE
            OBVIOUS
        <3>1. s[i] \in SUBSET Indices /\ s[e] \in SUBSET Indices /\ t[opp(i)] \in SUBSET Indices
              /\ t[opp(e)] \in SUBSET Indices
            BY <1>3, <2>1
        <3>2. Total(s[i]) >= 1 /\ Total(s[e]) = 0 /\ Total(t[opp(i)]) >= 1 /\ Total(t[opp(e)]) = 0
            BY <2>1, <3>1, TotalIsSum
        <3>3. Total(s[i]) \in Nat /\ Total(t[opp(i)]) \in Nat
            BY <3>1, TotalIsSum
        <3>4. ~ (e < i)
            <4>1. e < i => Total(s[e]) >= Total(s[i])
                BY DEF StateOK
            <4> QED
                BY <3>2, <3>3, <4>1
        <3>5. ~ (opp(e) < opp(i))
            <4>1. opp(e) < opp(i) => Total(t[opp(e)]) >= Total(t[opp(i)])
                BY <2>1 DEF StateOK
            <4> QED
                BY <3>2, <3>3, <4>1
        <3>6. e = i
            BY <1>1, <3>4, <3>5
        <3> QED
            BY <2>1, <3>6
    <2>4. CASE s[i] = {}
        <3>1. a \in t[opp(i)] /\ b \in t[opp(i)]
            BY <1>2, <2>4
        <3> QED
            BY <2>1, <2>2, <3>1 DEF Loose
    <2>5. CASE t[opp(i)] = {}
        <3>1. a \in s[i] /\ b \in s[i]
            BY <1>2, <2>5
        <3> QED
            BY <2>2, <3>1 DEF Loose
    <2> QED
        BY <2>3, <2>4, <2>5
<1>8. job = "global" => \A i, j \in 1..k : u[i] # {} /\ Cardinality(u[i]) = Cardinality(u[j])
    <2> SUFFICES ASSUME job = "global", NEW i \in 1..k, NEW j \in 1..k
                 PROVE  u[i] # {} /\ Cardinality(u[i]) = Cardinality(u[j])
        OBVIOUS
    <2>1. s[i] # {} /\ Cardinality(s[i]) = Cardinality(s[1]) /\ Cardinality(s[j]) = Cardinality(s[1])
        BY DEF StateOK
    <2>2. opp(i) \in 1..k /\ opp(j) \in 1..k
        BY <1>1
    <2>3. Cardinality(t[opp(i)]) = Cardinality(t[1]) /\ Cardinality(t[opp(j)]) = Cardinality(t[1])
        BY <2>2 DEF StateOK
    <2>4. u[i] # {}
        BY <1>2, <2>1
    <2>5. Cardinality(u[i]) = Cardinality(u[j])
        BY <1>5, <2>1, <2>3
    <2> QED
        BY <2>4, <2>5
<1> QED
    BY <1>4, <1>6, <1>7, <1>8 DEF Mixed, u

(* Sorting them makes a State of them, with the same sets in it.           *)
LEMMA Rearranged ==
    ASSUME BatchOK, NEW u, Mixed(u), NEW m \in Arrangements(u)
    PROVE  /\ StateOK(m)
           /\ \E p \in [1..k -> 1..k] :
                 /\ \A i \in 1..k : m[i] = u[p[i]]
                 /\ \A i, j \in 1..k : p[i] = p[j] => i = j
                 /\ \A j \in 1..k : \E i \in 1..k : p[i] = j
<1>1. PICK p \in [1..k -> 1..k] :
         /\ IsInjective(p) /\ m = [i \in 1..k |-> u[p[i]]]
         /\ \A i, j \in 1..k : i < j => ~ Below(u[p[i]], u[p[j]])
    BY DEF Arrangements
<1>2. k \in Nat \ {0} /\ 1 \in 1..k /\ k \in 1..k
    BY RowsOK DEF BatchOK
<1>3. \A i \in 1..k : m[i] = u[p[i]] /\ p[i] \in 1..k /\ u[p[i]] \in SUBSET Indices
    BY <1>1 DEF Mixed
<1>4. \A i, j \in 1..k : p[i] = p[j] => i = j
    BY <1>1 DEF IsInjective
<1>5. \A j \in 1..k : \E i \in 1..k : p[i] = j
    <2> DEFINE D == 1..k
    <2>1. IsFiniteSet(D)
        BY <1>2, FS_Interval
    <2>2. p \in [D -> D] /\ \A i, j \in D : p[i] = p[j] => i = j
        BY <1>1, <1>4
    <2> HIDE DEF D
    <2>3. p \in Injection(D, D)
        BY <2>2, Fun_IsInj
    <2>4. p \in Surjection(D, D)
        BY <2>1, <2>3, FS_Injection
    <2>5. \A j \in D : \E i \in D : p[i] = j
        BY <2>4, Fun_SurjectionProperties
    <2> QED
        BY <2>5 DEF D
<1>6. \A i \in 1..k : Total(m[i]) \in Nat
    BY <1>3, TotalIsSum
<1>7. m \in [1..k -> SUBSET Indices]
    BY <1>1, <1>3
<1>8. \A i, j \in 1..k : i < j => Total(m[i]) >= Total(m[j])
    <2> SUFFICES ASSUME NEW i \in 1..k, NEW j \in 1..k, i < j PROVE Total(m[i]) >= Total(m[j])
        OBVIOUS
    <2>1. ~ Below(m[i], m[j])
        BY <1>1, <1>3
    <2>2. ~ (Total(m[i]) < Total(m[j]))
        BY <2>1 DEF Below
    <2> QED
        BY <1>6, <2>2
<1>9. Total(m[1]) - Total(m[k]) <= Width
    BY <1>2, <1>3 DEF Mixed
<1>10. job = "micro" => (\A i \in 1..k : m[i] # {}) \/ Loose(m)
    <2>1. (\A i \in 1..k : u[i] # {}) => \A i \in 1..k : m[i] # {}
        BY <1>3
    <2>2. Loose(u) => Loose(m)
        BY <1>3 DEF Loose
    <2> QED
        BY <2>1, <2>2 DEF Mixed
<1>11. job = "global" => \A i \in 1..k : m[i] # {} /\ Cardinality(m[i]) = Cardinality(m[1])
    BY <1>2, <1>3 DEF Mixed
<1>12. StateOK(m)
    BY <1>7, <1>8, <1>9, <1>10, <1>11 DEF StateOK
<1> QED
    BY <1>3, <1>4, <1>5, <1>12

(* Merging two States neither loses a row nor deals it out twice.          *)
LEMMA MergeDeals ==
    ASSUME BatchOK, DealtOut(heap), NEW s \in heap, NEW t \in heap, s # t, StateOK(s), StateOK(t),
           NEW m \in Arrangements(MergedSets(s, t))
    PROVE  DealtOut((heap \ {s, t}) \cup {m}) /\ StateOK(m)
<1> DEFINE u == MergedSets(s, t)
           opp(i) == k + 1 - i
           rest == heap \ {s, t}
<1>1. \A i, j \in 1..k : s[i] \cap t[j] = {}
    BY DEF DealtOut
<1>2. Mixed(u)
    BY <1>1, MergedIsMixed
<1>3. k \in Nat \ {0} /\ \A i \in 1..k : opp(i) \in 1..k /\ opp(opp(i)) = i
    BY RowsOK DEF BatchOK
<1>4. \A i \in 1..k : u[i] = s[i] \cup t[opp(i)]
    BY DEF MergedSets
<1> HIDE DEF u
<1>5. m \in Arrangements(u)
    BY DEF u
<1>6. StateOK(m)
    BY <1>2, <1>5, Rearranged
<1>7. PICK p \in [1..k -> 1..k] :
         /\ \A i \in 1..k : m[i] = u[p[i]]
         /\ \A i, j \in 1..k : p[i] = p[j] => i = j
         /\ \A j \in 1..k : \E i \in 1..k : p[i] = j
    BY <1>2, <1>5, Rearranged
<1>8. \A i \in 1..k : p[i] \in 1..k /\ m[i] = s[p[i]] \cup t[opp(p[i])]
    BY <1>4, <1>7
<1>9. \A i \in 1..k : \A r \in m[i] : r \in s[p[i]] \/ r \in t[opp(p[i])]
    BY <1>8
<1>10. \A i, j \in 1..k : \A r \in m[i] : r \in m[j] => i = j
    <2> SUFFICES ASSUME NEW i \in 1..k, NEW j \in 1..k, NEW r \in m[i], r \in m[j] PROVE i = j
        OBVIOUS
    <2>1. (r \in s[p[i]] \/ r \in t[opp(p[i])]) /\ (r \in s[p[j]] \/ r \in t[opp(p[j])])
        BY <1>9
    <2>2. p[i] \in 1..k /\ p[j] \in 1..k /\ opp(p[i]) \in 1..k /\ opp(p[j]) \in 1..k
        BY <1>3, <1>7
    <2>3. p[i] = p[j] \/ opp(p[i]) = opp(p[j])
        BY <2>1, <2>2 DEF DealtOut
    <2>4. p[i] = p[j]
        BY <1>3, <2>2, <2>3
    <2> QED
        BY <1>7, <2>4
<1>11. \A v \in rest : \A i, j \in 1..k : \A r \in v[i] : r \notin m[j]
    <2> SUFFICES ASSUME NEW v \in rest, NEW i \in 1..k, NEW j \in 1..k, NEW r \in v[i], r \in m[j] PROVE FALSE
        OBVIOUS
    <2>1. r \in s[p[j]] \/ r \in t[opp(p[j])]
        BY <1>9
    <2>2. p[j] \in 1..k /\ opp(p[j]) \in 1..k
        BY <1>3, <1>7
    <2>3. v = s \/ v = t
        BY <2>1, <2>2 DEF DealtOut
    <2> QED
        BY <2>3
<1>12. \A r \in Indices : \E v \in rest \cup {m} : \E i \in 1..k : r \in v[i]
    <2> SUFFICES ASSUME NEW r \in Indices PROVE \E v \in rest \cup {m} : \E i \in 1..k : r \in v[i]
        OBVIOUS
    <2>1. PICK v \in heap : \E i \in 1..k : r \in v[i]
        BY DEF DealtOut
    <2>2. PICK i \in 1..k : r \in v[i]
        BY <2>1
    <2>3. CASE v \in rest
        BY <2>2, <2>3
    <2>4. CASE v = s
        <3>1. PICK j \in 1..k : p[j] = i
            BY <1>7
        <3>2. r \in m[j]
            BY <1>8, <2>2, <2>4, <3>1
        <3> QED
            BY <3>2
    <2>5. CASE v = t
        <3>1. PICK j \in 1..k : p[j] = opp(i)
            BY <1>3, <1>7
        <3>2. t[opp(p[j])] = t[i]
            BY <1>3, <3>1
        <3>3. r \in m[j]
            BY <1>8, <2>2, <2>5, <3>2
        <3> QED
            BY <3>3
    <2> QED
        BY <2>3, <2>4, <2>5
<1>13. \A v, w \in rest \cup {m} : \A i, j \in 1..k : \A r \in v[i] : r \in w[j] => v = w /\ i = j
    <2> SUFFICES ASSUME NEW v \in rest \cup {m}, NEW w \in rest \cup {m}, NEW i \in 1..k, NEW j \in 1..k,
                        NEW r \in v[i], r \in w[j]
                 PROVE  v = w /\ i = j
        OBVIOUS
    <2>1. CASE v \in rest /\ w \in rest
        BY <2>1 DEF DealtOut
    <2>2. CASE v = m /\ w = m
        BY <1>10, <2>2
    <2>3. CASE v = m /\ w \in rest
        BY <1>11, <2>3
    <2>4. CASE v \in rest /\ w = m
        BY <1>11, <2>4
    <2> QED
        BY <2>1, <2>2, <2>3, <2>4
<1>14. DealtOut(rest \cup {m})
    <2> HIDE DEF rest
    <2> QED
        BY <1>12, <1>13 DEF DealtOut
<1> QED
    BY <1>6, <1>14

-----------------------------------------------------------------------------
(* The lesser and the greater of two numbers.                              *)
LEMMA OfTwo ==
    ASSUME NEW m \in Int, NEW n \in Int
    PROVE  /\ Min({m, n}) \in {m, n} /\ Min({m, n}) <= m /\ Min({m, n}) <= n
           /\ Max({m, n}) \in {m, n} /\ m <= Max({m, n}) /\ n <= Max({m, n})
<1>1. \E least \in {m, n} : \A x \in {m, n} : least <= x
    OBVIOUS
<1>2. \E most \in {m, n} : \A x \in {m, n} : most >= x
    OBVIOUS
<1>3. Min({m, n}) \in {m, n} /\ \A x \in {m, n} : Min({m, n}) <= x
    BY <1>1 DEF Min
<1>4. Max({m, n}) \in {m, n} /\ \A x \in {m, n} : Max({m, n}) >= x
    BY <1>2 DEF Max
<1> QED
    BY <1>3, <1>4

\* In a micro-batch there is room for all.
Roomy == k * MaxTokenLen >= Total(Indices)

(* There are as many micro-batches as needed, and no more than rows.       *)
LEMMA EnoughMicroBatches ==
    ASSUME lens \in [Indices -> 1..MaxLen], job = "micro",
           NEW peers \in Indices, k = NumMicroBatches(peers)
    PROVE  k \in Indices /\ BatchOK /\ Roomy
<1> DEFINE T == Total(Indices)
           M == MaxTokenLen
           c == CeilDiv(T, M)
           needed == Min({Rows, c})
<1>1. /\ Rows \in Nat \ {0} /\ MaxLen \in Nat \ {0} /\ M \in Nat \ {0} /\ MaxLen <= M
      /\ IsFiniteSet(Indices) /\ Cardinality(Indices) = Rows /\ Indices = 1..Rows
    BY RowsOK
<1>2. Summable(lens, Indices) /\ SumIn(lens, Indices) = T
    <2>1. \A r \in Indices : lens[r] \in Int
        BY <1>1
    <2> QED
        BY <1>1, <2>1 DEF Summable, Total, SumIn
<1>3. T \in Int /\ T <= Rows * MaxLen /\ Rows * 1 <= T
    <2> DEFINE low == [r \in Indices |-> 1]
               high == [r \in Indices |-> MaxLen]
    <2>1. SumIn(low, Indices) = Rows * 1 /\ Summable(low, Indices)
        <3> DEFINE one == 1
        <3>1. \A d \in Indices : low[d] = one
            OBVIOUS
        <3>2. one \in Int /\ IsFiniteSet(Indices)
            BY <1>1
        <3> HIDE DEF low, one
        <3>3. SumIn(low, Indices) = Cardinality(Indices) * one /\ Summable(low, Indices)
            BY <3>1, <3>2, SumConstant
        <3> QED
            BY <1>1, <3>3 DEF one
    <2>2. SumIn(high, Indices) = Rows * MaxLen /\ Summable(high, Indices)
        <3>1. \A d \in Indices : high[d] = MaxLen
            OBVIOUS
        <3>2. MaxLen \in Int /\ IsFiniteSet(Indices)
            BY <1>1
        <3> HIDE DEF high
        <3>3. SumIn(high, Indices) = Cardinality(Indices) * MaxLen /\ Summable(high, Indices)
            BY <3>1, <3>2, SumConstant
        <3> QED
            BY <1>1, <3>3
    <2>3. \A r \in Indices : low[r] <= lens[r] /\ lens[r] <= high[r]
        BY <1>1
    <2> HIDE DEF low, high
    <2>4. SumIn(low, Indices) <= SumIn(lens, Indices)
        BY <1>2, <2>1, <2>3, SumLess
    <2>5. SumIn(lens, Indices) <= SumIn(high, Indices)
        BY <1>2, <2>2, <2>3, SumLess
    <2>6. SumIn(lens, Indices) \in Int
        BY <1>2, SumTake
    <2> QED
        BY <1>2, <2>1, <2>2, <2>4, <2>5, <2>6
<1>4. T \in Nat \ {0}
    BY <1>1, <1>3
<1> HIDE DEF T
<1>5. c \in Nat \ {0} /\ T <= c * M
    <2> DEFINE a == T + M - 1
    <2>1. a \in Nat /\ M \in Nat \ {0} /\ c = a \div M
        BY <1>1, <1>4 DEF CeilDiv
    <2> HIDE DEF a, M, c
    <2>2. c \in Nat /\ c * M <= a /\ a < c * M + M
        BY <2>1, Quotient
    <2>3. c * M \in Int /\ T - 1 < c * M
        BY <1>4, <2>1, <2>2 DEF a
    <2>4. c # 0
        <3>1. c = 0 => c * M = 0
            BY <2>1
        <3> QED
            BY <1>4, <2>3, <3>1
    <2> QED
        BY <1>4, <2>2, <2>3, <2>4
<1> HIDE DEF c
<1>6. needed \in {Rows, c} /\ needed <= Rows /\ needed <= c
    <2>1. Rows \in Int /\ c \in Int
        BY <1>1, <1>5
    <2> QED
        BY <2>1, OfTwo
<1>7. k = Max({peers, needed})
    BY DEF NumMicroBatches, T, c
<1>8. needed \in 1..Rows
    BY <1>1, <1>5, <1>6
<1> HIDE DEF needed
<1>9. k \in {peers, needed} /\ needed <= k
    <2>1. peers \in Int /\ needed \in Int
        BY <1>1, <1>8
    <2> QED
        BY <1>7, <2>1, OfTwo
<1>10. k \in 1..Rows
    BY <1>1, <1>8, <1>9
<1>11. k * M >= T
    <2>1. CASE needed = c
        <3>1. c * M <= k * M
            <4>1. c \in Nat /\ k \in Nat /\ M \in Nat /\ c <= k
                BY <1>1, <1>5, <1>9, <1>10, <2>1
            <4> HIDE DEF M
            <4> QED
                BY <4>1, FactorKeepsOrder
        <3> QED
            BY <1>1, <1>4, <1>5, <1>10, <3>1
    <2>2. CASE needed = Rows
        <3>1. k = Rows
            BY <1>1, <1>9, <1>10, <2>2
        <3>2. MaxLen * Rows <= M * Rows
            BY <1>1, FactorKeepsOrder
        <3>3. Rows * MaxLen = MaxLen * Rows /\ k * M = M * Rows
            BY <1>1, <3>1
        <3>4. MaxLen * Rows \in Int /\ M * Rows \in Int
            BY <1>1
        <3> QED
            BY <1>3, <3>2, <3>3, <3>4
    <2> QED
        BY <1>6, <2>1, <2>2
<1>12. BatchOK
    BY <1>1, <1>10 DEF BatchOK
<1> QED
    BY <1>1, <1>10, <1>11, <1>12 DEF Roomy, T

(* In the beginning of a micro-batch each row is a State.                  *)
LEMMA OneByOneDeals ==
    ASSUME BatchOK, job = "micro", heap = OneByOne
    PROVE  IsFiniteSet(heap) /\ (\A s \in heap : StateOK(s)) /\ DealtOut(heap)
<1> DEFINE single(r) == [i \in 1..k |-> IF i = 1 THEN {r} ELSE {}]
<1>1. heap = {single(r) : r \in Indices}
    BY DEF OneByOne
<1>2. k \in Nat \ {0} /\ 1 \in 1..k /\ k \in 1..k
    BY RowsOK DEF BatchOK
<1>3. \A r \in Indices : \A i \in 1..k : single(r)[i] = IF i = 1 THEN {r} ELSE {}
    OBVIOUS
<1>4. IsFiniteSet(heap)
    <2> DEFINE f == [r \in Indices |-> single(r)]
    <2>1. DOMAIN f = Indices /\ f = [r \in Indices |-> f[r]] /\ heap = {f[r] : r \in Indices}
        BY <1>1
    <2> HIDE DEF f
    <2>2. IsFiniteSet({f[r] : r \in Indices})
        BY <2>1, RowsOK, FewMembers
    <2> QED
        BY <2>1, <2>2
<1>5. ASSUME NEW r \in Indices PROVE StateOK(single(r))
    <2> DEFINE s == single(r)
    <2>1. \A i \in 1..k : s[i] = IF i = 1 THEN {r} ELSE {}
        BY <1>3
    <2>2. s \in [1..k -> SUBSET Indices]
        OBVIOUS
    <2> HIDE DEF s
    <2>3. Total({r}) = lens[r] /\ Total({}) = 0 /\ lens[r] \in Nat /\ lens[r] <= Longest /\ Longest \in Nat
        <3>1. Total({}) = 0
            BY TotalIsSum
        <3> QED
            BY <3>1, TotalOfRow, LongestOK, RowsOK DEF BatchOK
    <2>4. \A i \in 1..k : Total(s[i]) = IF i = 1 THEN lens[r] ELSE 0
        BY <2>1, <2>3
    <2>5. \A i, j \in 1..k : i < j => Total(s[i]) >= Total(s[j])
        BY <1>2, <2>3, <2>4
    <2>6. Total(s[1]) - Total(s[k]) <= Width
        <3>1. Total(s[1]) = lens[r] /\ Total(s[k]) \in {lens[r], 0} /\ Width = Longest
            BY <1>2, <2>4 DEF Width
        <3> QED
            BY <2>3, <3>1
    <2>7. Loose(s)
        BY <2>1 DEF Loose
    <2> QED
        BY <2>2, <2>5, <2>6, <2>7 DEF StateOK, s
<1>6. DealtOut(heap)
    <2>1. \A r \in Indices : \E s \in heap : \E i \in 1..k : r \in s[i]
        <3> SUFFICES ASSUME NEW r \in Indices PROVE \E s \in heap : \E i \in 1..k : r \in s[i]
            OBVIOUS
        <3>1. single(r) \in heap /\ r \in single(r)[1]
            BY <1>1, <1>2, <1>3
        <3> QED
            BY <1>2, <3>1
    <2>2. \A s, t \in heap : \A i, j \in 1..k : \A r \in s[i] : r \in t[j] => s = t /\ i = j
        <3> SUFFICES ASSUME NEW s \in heap, NEW t \in heap, NEW i \in 1..k, NEW j \in 1..k,
                            NEW r \in s[i], r \in t[j]
                     PROVE  s = t /\ i = j
            OBVIOUS
        <3>1. PICK a \in Indices : s = single(a)
            BY <1>1
        <3>2. PICK b \in Indices : t = single(b)
            BY <1>1
        <3>3. i = 1 /\ r = a
            BY <1>3, <3>1
        <3>4. j = 1 /\ r = b
            BY <1>3, <3>2
        <3> QED
            BY <3>1, <3>2, <3>3, <3>4
    <2> QED
        BY <2>1, <2>2 DEF DealtOut
<1>7. \A s \in heap : StateOK(s)
    <2> HIDE DEF single
    <2> QED
        BY <1>1, <1>5
<1> QED
    BY <1>4, <1>6, <1>7

-----------------------------------------------------------------------------
(* Rows are sorted by length: each has a place, and each place its row.    *)
LEMMA RowsSorted ==
    ASSUME BatchOK
    PROVE  /\ \A p \in 1..Rows : AtPlace(p) \in Indices /\ SortedPlace(AtPlace(p)) = p
           /\ \A r \in Indices : SortedPlace(r) \in 1..Rows /\ AtPlace(SortedPlace(r)) = r
           /\ \A p, q \in 1..Rows : p < q => lens[AtPlace(p)] <= lens[AtPlace(q)]
<1> DEFINE I == Indices
           shorter == {pair \in I \X I : \/ lens[pair[1]] < lens[pair[2]]
                                         \/ lens[pair[1]] = lens[pair[2]] /\ pair[1] < pair[2]}
<1>1. /\ Rows \in Nat \ {0} /\ IsFiniteSet(I) /\ Cardinality(I) = Rows
      /\ \A i \in I : i \in Int /\ lens[i] \in Int
    BY RowsOK DEF BatchOK
<1>2. \A i, j \in I : <<i, j>> \in shorter <=> lens[i] < lens[j] \/ (lens[i] = lens[j] /\ i < j)
    OBVIOUS
<1>3. \A i \in I : SortedPlace(i) = 1 + Place(I, shorter, i)
    <2> SUFFICES ASSUME NEW i \in I PROVE SortedPlace(i) = 1 + Place(I, shorter, i)
        OBVIOUS
    <2>1. {j \in Indices : lens[j] < lens[i] \/ (lens[j] = lens[i] /\ j < i)} = {j \in I : <<j, i>> \in shorter}
        BY <1>2
    <2> HIDE DEF shorter, I
    <2> QED
        BY <2>1 DEF SortedPlace, Place
<1> HIDE DEF shorter, I
<1>4. TotalOrder(I, shorter)
    <2>1. \A i \in I : <<i, i>> \notin shorter
        BY <1>1, <1>2
    <2>2. \A i, j \in I : i # j => <<i, j>> \in shorter \/ <<j, i>> \in shorter
        BY <1>1, <1>2
    <2>3. \A i, j, l \in I : <<i, j>> \in shorter /\ <<j, l>> \in shorter => <<i, l>> \in shorter
        BY <1>1, <1>2
    <2> QED
        BY <2>1, <2>2, <2>3 DEF TotalOrder
<1>5. \A i \in I : Place(I, shorter, i) \in 0..(Cardinality(I) - 1)
    BY <1>1, <1>4, PlacesDiffer
<1>6. \A i, j \in I : Place(I, shorter, i) = Place(I, shorter, j) => i = j
    BY <1>1, <1>4, PlacesDiffer
<1>7. \A i, j \in I : <<i, j>> \in shorter => Place(I, shorter, i) < Place(I, shorter, j)
    BY <1>1, <1>4, PlacesDiffer
<1>8. \A p \in 0..(Cardinality(I) - 1) : \E i \in I : Place(I, shorter, i) = p
    BY <1>1, <1>4, PlacesFilled
<1>9. \A r \in I : SortedPlace(r) \in 1..Rows
    BY <1>1, <1>3, <1>5
<1>10. \A i, j \in I : SortedPlace(i) = SortedPlace(j) => i = j
    BY <1>1, <1>3, <1>5, <1>6
<1>11. \A p \in 1..Rows : AtPlace(p) \in I /\ SortedPlace(AtPlace(p)) = p
    <2> SUFFICES ASSUME NEW p \in 1..Rows PROVE AtPlace(p) \in I /\ SortedPlace(AtPlace(p)) = p
        OBVIOUS
    <2>1. p - 1 \in 0..(Cardinality(I) - 1)
        BY <1>1
    <2>2. PICK i \in I : Place(I, shorter, i) = p - 1
        BY <1>8, <2>1
    <2>3. SortedPlace(i) = p
        BY <1>3, <2>2
    <2>4. \E j \in I : SortedPlace(j) = p
        BY <2>3
    <2> QED
        BY <2>4 DEF AtPlace, I
<1>12. \A r \in I : AtPlace(SortedPlace(r)) = r
    BY <1>9, <1>10, <1>11
<1>13. \A p, q \in 1..Rows : p < q => lens[AtPlace(p)] <= lens[AtPlace(q)]
    <2> SUFFICES ASSUME NEW p \in 1..Rows, NEW q \in 1..Rows, p < q
                 PROVE  lens[AtPlace(p)] <= lens[AtPlace(q)]
        OBVIOUS
    <2> DEFINE a == AtPlace(p)
               b == AtPlace(q)
    <2>1. a \in I /\ b \in I /\ SortedPlace(a) = p /\ SortedPlace(b) = q
        BY <1>11
    <2> HIDE DEF a, b
    <2>2. Place(I, shorter, a) = p - 1 /\ Place(I, shorter, b) = q - 1
        BY <1>1, <1>3, <1>5, <2>1
    <2>3. <<b, a>> \notin shorter
        BY <1>7, <2>1, <2>2
    <2>4. ~ (lens[b] < lens[a])
        BY <1>2, <2>1, <2>3
    <2> QED
        BY <1>1, <2>1, <2>4 DEF a, b
<1> QED
    BY <1>9, <1>11, <1>12, <1>13 DEF I

(* A multiple is its quotient times the divisor.                           *)
LEMMA NoRemainder ==
    ASSUME NEW a \in Nat, NEW b \in Nat \ {0}, a % b = 0
    PROVE  a = (a \div b) * b
OBVIOUS

(* Groups of k neighbours: every place is in one of them.                  *)
LEMMA PlacesInGroups ==
    ASSUME BatchOK, Rows % k = 0
    PROVE  /\ Rows \div k \in Nat \ {0} /\ Rows = (Rows \div k) * k
           /\ \A g \in 1..(Rows \div k) : \A i \in 1..k : k * g - i + 1 \in 1..Rows
           /\ \A g, h \in 1..(Rows \div k) : \A i, j \in 1..k :
                 k * g - i + 1 = k * h - j + 1 => g = h /\ i = j
           /\ \A p \in 1..Rows : \E g \in 1..(Rows \div k) : \E i \in 1..k : k * g - i + 1 = p
<1> DEFINE G == Rows \div k
<1>1. Rows \in Nat \ {0} /\ k \in Nat \ {0} /\ k <= Rows
    BY RowsOK DEF BatchOK
<1>2. G \in Nat /\ Rows = G * k
    <2>1. G \in Nat
        BY <1>1, Quotient
    <2>2. Rows \in Nat /\ k \in Nat \ {0} /\ Rows % k = 0
        BY <1>1
    <2>3. Rows = G * k
        BY <2>2, NoRemainder
    <2> QED
        BY <2>1, <2>3
<1>3. G # 0
    <2>1. G = 0 => G * k = 0
        BY <1>1
    <2> HIDE DEF G
    <2> QED
        BY <1>1, <1>2, <2>1
<1> HIDE DEF G
<1>4. \A g \in 1..G : k * g \in Int /\ k <= k * g /\ k * g <= Rows
    <2> SUFFICES ASSUME NEW g \in 1..G PROVE k * g \in Int /\ k <= k * g /\ k * g <= Rows
        OBVIOUS
    <2>1. g \in Nat /\ 1 \in Nat /\ 1 <= g /\ g <= G /\ k \in Nat
        BY <1>1, <1>2
    <2>2. 1 * k <= g * k
        BY <2>1, FactorKeepsOrder
    <2>3. g * k <= G * k
        BY <1>2, <2>1, FactorKeepsOrder
    <2>4. k * g = g * k /\ g * k \in Int /\ 1 * k = k
        BY <2>1
    <2> QED
        BY <1>2, <2>2, <2>3, <2>4
<1>5. \A g \in 1..G : \A i \in 1..k : k * g - i + 1 \in 1..Rows
    <2> SUFFICES ASSUME NEW g \in 1..G, NEW i \in 1..k PROVE k * g - i + 1 \in 1..Rows
        OBVIOUS
    <2> DEFINE top == k * g
    <2>1. top \in Int /\ k <= top /\ top <= Rows
        BY <1>4
    <2> HIDE DEF top
    <2>2. top - i + 1 \in 1..Rows
        BY <1>1, <2>1
    <2> QED
        BY <2>2 DEF top
<1>6. ASSUME NEW g \in 1..G, NEW h \in 1..G, NEW i \in 1..k, NEW j \in 1..k,
             k * g - i + 1 = k * h - j + 1
      PROVE  ~ (g < h)
    <2> SUFFICES ASSUME g < h PROVE FALSE
        OBVIOUS
    <2>1. g + 1 \in Nat /\ h \in Nat /\ k \in Nat /\ g + 1 <= h
        BY <1>1, <1>2
    <2>2. (g + 1) * k <= h * k
        BY <2>1, FactorKeepsOrder
    <2>3. (g + 1) * k = k * g + k /\ h * k = k * h /\ k * g \in Int /\ k * h \in Int
        BY <1>1, <2>1
    <2> DEFINE a == k * g
               b == k * h
    <2>4. a \in Int /\ b \in Int /\ a + k <= b /\ a - i + 1 = b - j + 1
        BY <1>6, <2>2, <2>3
    <2> HIDE DEF a, b
    <2> QED
        BY <1>1, <2>4
<1>7. \A g, h \in 1..G : \A i, j \in 1..k : k * g - i + 1 = k * h - j + 1 => g = h /\ i = j
    <2> SUFFICES ASSUME NEW g \in 1..G, NEW h \in 1..G, NEW i \in 1..k, NEW j \in 1..k,
                        k * g - i + 1 = k * h - j + 1
                 PROVE  g = h /\ i = j
        OBVIOUS
    <2>1. ~ (g < h)
        BY <1>6
    <2>2. ~ (h < g)
        BY <1>6
    <2>3. g = h
        BY <1>2, <2>1, <2>2
    <2>4. k * g \in Int
        BY <1>4
    <2> DEFINE a == k * g
    <2>5. a - i + 1 = a - j + 1 /\ a \in Int
        BY <2>3, <2>4
    <2> HIDE DEF a
    <2> QED
        BY <1>1, <2>3, <2>5
<1>8. \A p \in 1..Rows : \E g \in 1..G : \E i \in 1..k : k * g - i + 1 = p
    <2> SUFFICES ASSUME NEW p \in 1..Rows PROVE \E g \in 1..G : \E i \in 1..k : k * g - i + 1 = p
        OBVIOUS
    <2> DEFINE before == p - 1
               q == before \div k
               low == q * k
               g == q + 1
               i == k * g - p + 1
    <2>1. before \in Nat
        BY <1>1
    <2>2. q \in Nat /\ low <= before /\ before < low + k
        <3> HIDE DEF before
        <3> QED
            BY <1>1, <2>1, Quotient
    <2> HIDE DEF q
    <2>3. low \in Int
        BY <1>1, <2>2
    <2>4. low < G * k
        <3> HIDE DEF low
        <3> QED
            BY <1>1, <1>2, <2>2, <2>3
    <2>5. q < G
        BY <1>1, <1>2, <2>2, <2>4, LessByFactor
    <2>6. g \in 1..G
        BY <1>2, <2>2, <2>5
    <2>7. k * g = low + k
        BY <1>1, <2>2
    <2> HIDE DEF g, low
    <2>8. i \in 1..k /\ k * g - i + 1 = p
        BY <1>1, <2>2, <2>3, <2>7
    <2> HIDE DEF i
    <2> QED
        BY <2>6, <2>8
<1> QED
    BY <1>2, <1>3, <1>5, <1>7, <1>8 DEF G

(* In the beginning of a balanced batch each group is a State.             *)
LEMMA InGroupsDeals ==
    ASSUME BatchOK, job = "global", Rows % k = 0, heap = InGroups
    PROVE  IsFiniteSet(heap) /\ (\A s \in heap : StateOK(s)) /\ DealtOut(heap)
<1> DEFINE G == 1..(Rows \div k)
           pl(g, i) == k * g - i + 1
           group(g) == [i \in 1..k |-> {AtPlace(pl(g, i))}]
<1>1. heap = {group(g) : g \in G}
    BY DEF InGroups
<1>2. k \in Nat \ {0} /\ 1 \in 1..k /\ k \in 1..k
    BY RowsOK DEF BatchOK
<1>3. \A g \in G : \A i \in 1..k : group(g)[i] = {AtPlace(pl(g, i))}
    OBVIOUS
<1>4. \A g \in G : \A i \in 1..k : pl(g, i) \in 1..Rows
    BY PlacesInGroups
<1>5. \A g, h \in G : \A i, j \in 1..k : pl(g, i) = pl(h, j) => g = h /\ i = j
    BY PlacesInGroups
<1>6. \A p \in 1..Rows : \E g \in G : \E i \in 1..k : pl(g, i) = p
    BY PlacesInGroups
<1>7. \A g \in G : \A i, j \in 1..k : i < j => pl(g, j) < pl(g, i)
    <2> SUFFICES ASSUME NEW g \in G, NEW i \in 1..k, NEW j \in 1..k, i < j PROVE pl(g, j) < pl(g, i)
        OBVIOUS
    <2> DEFINE a == k * g
    <2>1. a \in Int
        BY <1>2
    <2> HIDE DEF a
    <2>2. a - j + 1 < a - i + 1
        BY <1>2, <2>1
    <2> QED
        BY <2>2 DEF a
<1>8. IsFiniteSet(heap)
    <2> DEFINE f == [g \in G |-> group(g)]
    <2>1. DOMAIN f = G /\ f = [g \in G |-> f[g]] /\ heap = {f[g] : g \in G}
        BY <1>1
    <2>2. IsFiniteSet(G)
        BY PlacesInGroups, FS_Interval
    <2> HIDE DEF f, G
    <2>3. IsFiniteSet({f[g] : g \in G})
        BY <2>1, <2>2, FewMembers
    <2> QED
        BY <2>1, <2>3
<1> HIDE DEF pl, G
<1>9. ASSUME NEW g \in G PROVE StateOK(group(g))
    <2> DEFINE s == group(g)
               row(i) == AtPlace(pl(g, i))
    <2>1. \A i \in 1..k : row(i) \in Indices
        BY <1>4, RowsSorted
    <2>2. \A i \in 1..k : s[i] = {row(i)}
        OBVIOUS
    <2>3. s \in [1..k -> SUBSET Indices]
        BY <2>1
    <2> HIDE DEF s
    <2>4. \A i, j \in 1..k : i < j => lens[row(i)] >= lens[row(j)]
        <3> SUFFICES ASSUME NEW i \in 1..k, NEW j \in 1..k, i < j PROVE lens[row(i)] >= lens[row(j)]
            OBVIOUS
        <3>1. pl(g, j) < pl(g, i) /\ pl(g, j) \in 1..Rows /\ pl(g, i) \in 1..Rows
            BY <1>4, <1>7
        <3>2. lens[row(j)] <= lens[row(i)]
            BY <3>1, RowsSorted
        <3>3. lens[row(j)] \in Int /\ lens[row(i)] \in Int
            BY <2>1, RowsOK DEF BatchOK
        <3> QED
            BY <3>2, <3>3
    <2> HIDE DEF row
    <2>5. \A i \in 1..k : Total(s[i]) = lens[row(i)]
        BY <2>1, <2>2, TotalOfRow
    <2>6. \A i, j \in 1..k : i < j => Total(s[i]) >= Total(s[j])
        BY <2>4, <2>5
    <2>7. Total(s[1]) - Total(s[k]) <= Width
        <3>1. /\ Total(s[1]) = lens[row(1)] /\ Total(s[k]) = lens[row(k)] /\ Width = Longest - Shortest
              /\ row(1) \in Indices /\ row(k) \in Indices
            BY <1>2, <2>1, <2>5 DEF Width
        <3>2. lens[row(1)] <= Longest /\ Shortest <= lens[row(k)] /\ Longest \in Int /\ Shortest \in Int
            BY <3>1, LongestOK, RowsOK
        <3>3. lens[row(1)] \in Int /\ lens[row(k)] \in Int
            BY <3>1, RowsOK DEF BatchOK
        <3> QED
            BY <3>1, <3>2, <3>3
    <2>8. \A i \in 1..k : s[i] # {} /\ Cardinality(s[i]) = Cardinality(s[1])
        <3>1. \A i \in 1..k : Cardinality(s[i]) = 1
            BY <2>2, FS_Singleton
        <3> QED
            BY <1>2, <2>2, <3>1
    <2> QED
        BY <2>3, <2>6, <2>7, <2>8 DEF StateOK, s
<1>10. DealtOut(heap)
    <2>1. \A r \in Indices : \E s \in heap : \E i \in 1..k : r \in s[i]
        <3> SUFFICES ASSUME NEW r \in Indices PROVE \E s \in heap : \E i \in 1..k : r \in s[i]
            OBVIOUS
        <3>1. SortedPlace(r) \in 1..Rows /\ AtPlace(SortedPlace(r)) = r
            BY RowsSorted
        <3>2. PICK g \in G : \E i \in 1..k : pl(g, i) = SortedPlace(r)
            BY <1>6, <3>1
        <3>3. PICK i \in 1..k : pl(g, i) = SortedPlace(r)
            BY <3>2
        <3>4. r \in group(g)[i]
            BY <3>1, <3>3
        <3>5. group(g) \in heap
            BY <1>1
        <3> HIDE DEF group
        <3> QED
            BY <3>4, <3>5
    <2>2. \A s, t \in heap : \A i, j \in 1..k : \A r \in s[i] : r \in t[j] => s = t /\ i = j
        <3> SUFFICES ASSUME NEW s \in heap, NEW t \in heap, NEW i \in 1..k, NEW j \in 1..k,
                            NEW r \in s[i], r \in t[j]
                     PROVE  s = t /\ i = j
            OBVIOUS
        <3>1. PICK g \in G : s = group(g)
            BY <1>1
        <3>2. PICK h \in G : t = group(h)
            BY <1>1
        <3>3. r = AtPlace(pl(g, i)) /\ r = AtPlace(pl(h, j))
            BY <1>3, <3>1, <3>2
        <3>4. pl(g, i) \in 1..Rows /\ pl(h, j) \in 1..Rows
            BY <1>4
        <3>5. SortedPlace(AtPlace(pl(g, i))) = pl(g, i) /\ SortedPlace(AtPlace(pl(h, j))) = pl(h, j)
            BY <3>4, RowsSorted
        <3>6. pl(g, i) = pl(h, j)
            BY <3>3, <3>5
        <3>7. g = h /\ i = j
            BY <1>5, <3>6
        <3> QED
            BY <3>1, <3>2, <3>7
    <2> QED
        BY <2>1, <2>2 DEF DealtOut
<1>11. \A s \in heap : StateOK(s)
    <2> HIDE DEF group
    <2> QED
        BY <1>1, <1>9
<1> QED
    BY <1>8, <1>10, <1>11

-----------------------------------------------------------------------------
(* Naturals add up to one.                                                 *)
LEMMA SumNatural ==
    ASSUME NEW D, IsFiniteSet(D), NEW f, \A d \in D : f[d] \in Nat
    PROVE  Summable(f, D) /\ SumIn(f, D) \in Nat
<1> DEFINE nil == 0
           zero == [d \in D |-> nil]
<1>1. Summable(f, D) /\ SumIn(f, D) \in Int
    <2>1. Summable(f, D)
        BY DEF Summable
    <2> QED
        BY <2>1, SumTake
<1>2. nil \in Int /\ \A d \in D : zero[d] = nil
    OBVIOUS
<1>3. \A d \in D : zero[d] <= f[d]
    OBVIOUS
<1>4. Cardinality(D) * nil = 0
    BY FS_CardinalityType
<1> HIDE DEF nil, zero
<1>5. SumIn(zero, D) = Cardinality(D) * nil /\ Summable(zero, D)
    BY <1>2, SumConstant
<1>6. SumIn(zero, D) <= SumIn(f, D)
    BY <1>1, <1>3, <1>5, SumLess
<1> QED
    BY <1>1, <1>4, <1>5, <1>6

(* One State is left: a partition of the rows.                             *)
LEMMA OneStateLeft ==
    ASSUME BatchOK, IsFiniteSet(heap), \A s \in heap : StateOK(s), DealtOut(heap), Cardinality(heap) = 1
    PROVE  /\ heap = {Final} /\ StateOK(Final)
           /\ \A i \in 1..k : Final[i] \in SUBSET Indices
           /\ \A i, j \in 1..k : i # j => Final[i] \cap Final[j] = {}
           /\ UNION {Final[i] : i \in 1..k} = Indices
<1>1. PICK s : heap = {s}
    BY FS_Singleton
<1>2. Final = s
    <2>1. Final \in heap
        BY <1>1 DEF Final
    <2> QED
        BY <1>1, <2>1
<1> HIDE DEF Final
<1>3. heap = {Final} /\ Final \in heap /\ StateOK(Final)
    BY <1>1, <1>2
<1>4. \A i \in 1..k : Final[i] \in SUBSET Indices
    BY <1>3 DEF StateOK
<1>5. \A i, j \in 1..k : i # j => Final[i] \cap Final[j] = {}
    BY <1>3 DEF DealtOut
<1>6. \A r \in Indices : \E i \in 1..k : r \in Final[i]
    BY <1>3 DEF DealtOut
<1>7. UNION {Final[i] : i \in 1..k} = Indices
    BY <1>4, <1>6
<1> QED
    BY <1>3, <1>4, <1>5, <1>7

\* How many rows each set has, and what it weighs.
Sizes == [i \in 1..k |-> Cardinality(Final[i])]
Loads == [i \in 1..k |-> Total(Final[i])]

(* Sizes and loads add up to those of the batch.                           *)
LEMMA FinalAddsUp ==
    ASSUME BatchOK, \A i \in 1..k : Final[i] \in SUBSET Indices,
           \A i, j \in 1..k : i # j => Final[i] \cap Final[j] = {},
           UNION {Final[i] : i \in 1..k} = Indices
    PROVE  /\ Summable(Sizes, 1..k) /\ SumIn(Sizes, 1..k) = Rows
           /\ Summable(Loads, 1..k) /\ SumIn(Loads, 1..k) = Total(Indices)
<1> DEFINE D == 1..k
           F == [i \in D |-> Final[i]]
           one == 1
           ones == [r \in Indices |-> one]
<1>1. k \in Nat /\ IsFiniteSet(D)
    BY RowsOK, FS_Interval DEF BatchOK
<1>2. \A i \in D : F[i] \in SUBSET Indices
    OBVIOUS
<1>3. \A i, j \in D : i # j => F[i] \cap F[j] = {}
    OBVIOUS
<1>4. UNION {F[i] : i \in D} = Indices
    <2>1. \A i \in D : F[i] = Final[i]
        OBVIOUS
    <2>2. {F[i] : i \in D} = {Final[i] : i \in D}
        BY <2>1
    <2> HIDE DEF F
    <2> QED
        BY <2>2
<1>5. DOMAIN Sizes = D /\ \A i \in D : Sizes[i] = Cardinality(F[i]) /\ Loads[i] = Total(F[i])
    BY DEF Sizes, Loads
<1>6. one \in Int /\ \A r \in Indices : ones[r] = one
    OBVIOUS
<1>7. \A m : m \in Nat => m * one = m
    OBVIOUS
<1> HIDE DEF D, F, one, ones
<1>8. ASSUME NEW S \in SUBSET Indices
      PROVE  Summable(ones, S) /\ SumIn(ones, S) = Cardinality(S)
    <2>1. IsFiniteSet(S) /\ Cardinality(S) \in Nat /\ \A r \in S : ones[r] = one
        BY <1>6, TotalIsSum
    <2>2. SumIn(ones, S) = Cardinality(S) * one /\ Summable(ones, S)
        BY <1>6, <2>1, SumConstant
    <2> QED
        BY <1>7, <2>1, <2>2
<1>9. Summable(Sizes, D) /\ SumIn(Sizes, D) = Rows
    <2>1. \A i \in D : Summable(ones, F[i]) /\ Sizes[i] = SumIn(ones, F[i])
        BY <1>2, <1>5, <1>8
    <2>2. SumIn(Sizes, D) = SumIn(ones, UNION {F[i] : i \in D}) /\ Summable(Sizes, D)
        BY <1>1, <1>3, <2>1, SumOfParts
    <2>3. SumIn(ones, Indices) = Rows
        <3>1. Indices \in SUBSET Indices
            OBVIOUS
        <3> QED
            BY <1>8, <3>1, RowsOK
    <2> QED
        BY <1>4, <2>2, <2>3
<1>10. Summable(Loads, D) /\ SumIn(Loads, D) = Total(Indices)
    <2>1. \A i \in D : Summable(lens, F[i]) /\ Loads[i] = SumIn(lens, F[i])
        BY <1>2, <1>5, TotalIsSum
    <2>2. SumIn(Loads, D) = SumIn(lens, UNION {F[i] : i \in D}) /\ Summable(Loads, D)
        BY <1>1, <1>3, <2>1, SumOfParts
    <2>3. SumIn(lens, Indices) = Total(Indices)
        <3>1. Indices \in SUBSET Indices
            OBVIOUS
        <3> QED
            BY <3>1, TotalIsSum
    <2> QED
        BY <1>4, <2>2, <2>3
<1> QED
    BY <1>9, <1>10 DEF D

-----------------------------------------------------------------------------
(* No micro-batch is empty: as there are no more of them than rows, one of *)
(* them would have two rows.                                               *)
LEMMA NoneEmpty ==
    ASSUME BatchOK, StateOK(Final), Summable(Sizes, 1..k), SumIn(Sizes, 1..k) = Rows
    PROVE  \A i \in 1..k : Final[i] # {}
<1> DEFINE D == 1..k
           one == 1
           ones == [i \in D |-> one]
<1>1. job \in {"micro", "global"} /\ k \in Nat /\ k <= Rows /\ Rows \in Nat
    BY RowsOK DEF BatchOK
<1>2. CASE job = "global"
    BY <1>2 DEF StateOK
<1>3. CASE job = "micro"
    <2> SUFFICES ASSUME NEW e \in D, Final[e] = {} PROVE FALSE
        OBVIOUS
    <2>1. \A i \in D : \A a, b \in Final[i] : a = b
        BY <1>3 DEF StateOK, Loose
    <2>2. \A i \in D : Sizes[i] \in Nat /\ Sizes[i] <= 1
        <3> SUFFICES ASSUME NEW i \in D PROVE Sizes[i] \in Nat /\ Sizes[i] <= 1
            OBVIOUS
        <3>1. CASE Final[i] = {}
            <4>1. Sizes[i] = 0
                BY <3>1, FS_EmptySet DEF Sizes
            <4> QED
                BY <4>1
        <3>2. CASE Final[i] # {}
            <4>1. PICK a \in Final[i] : TRUE
                BY <3>2
            <4>2. Final[i] = {a}
                BY <2>1, <4>1
            <4>3. Sizes[i] = 1
                BY <4>2, FS_Singleton DEF Sizes
            <4> QED
                BY <4>3
        <3> QED
            BY <3>1, <3>2
    <2>3. Sizes[e] = 0
        BY FS_EmptySet DEF Sizes
    <2>4. IsFiniteSet(D) /\ Cardinality(D) = k
        <3>1. IsFiniteSet(1..k) /\ Cardinality(1..k) = IF 1 > k THEN 0 ELSE k - 1 + 1
            BY <1>1, FS_Interval
        <3> QED
            BY <1>1, <3>1
    <2>5. one \in Int /\ \A i \in D : ones[i] = one
        OBVIOUS
    <2>6. one = 1
        OBVIOUS
    <2>7. Summable(Sizes, D) /\ SumIn(Sizes, D) = Rows /\ e \in D
        OBVIOUS
    <2> HIDE DEF D, one, ones
    <2> DEFINE R == D \ {e}
    <2>8. SumIn(ones, D) = Cardinality(D) * one /\ Summable(ones, D)
        BY <2>4, <2>5, SumConstant
    <2>9. SumIn(ones, D) = k
        BY <1>1, <2>4, <2>6, <2>8
    <2>10. SumIn(ones, D) = ones[e] + SumIn(ones, R)
        BY <2>7, <2>8, SumTake
    <2>11. SumIn(Sizes, D) = Sizes[e] + SumIn(Sizes, R)
        BY <2>7, SumTake
    <2>12. Summable(ones, R) /\ Summable(Sizes, R)
        <3>1. R \in SUBSET D
            OBVIOUS
        <3> HIDE DEF R
        <3> QED
            BY <2>7, <2>8, <3>1, SummableSubset
    <2>13. \A x \in R : Sizes[x] <= ones[x]
        BY <2>2, <2>5, <2>6
    <2> HIDE DEF R
    <2>14. SumIn(Sizes, R) <= SumIn(ones, R)
        BY <2>12, <2>13, SumLess
    <2>15. SumIn(Sizes, R) \in Int /\ SumIn(ones, R) \in Int
        BY <2>12, SumTake
    <2>16. ones[e] = 1
        BY <2>5, <2>6, <2>7
    <2> QED
        BY <1>1, <2>3, <2>7, <2>9, <2>10, <2>11, <2>14, <2>15, <2>16
<1> QED
    BY <1>1, <1>2, <1>3

(* A micro-batch outgrows the limit by less than a row: otherwise all of   *)
(* them would, and together weigh more than the batch.                     *)
LEMMA NoneOutgrows ==
    ASSUME BatchOK, job = "micro", Roomy, StateOK(Final),
           Summable(Loads, 1..k), SumIn(Loads, 1..k) = Total(Indices), NEW i \in 1..k
    PROVE  Total(Final[i]) < MaxTokenLen + Longest
<1> DEFINE D == 1..k
           M == MaxTokenLen
           full == [j \in D |-> M]
           R == D \ {i}
<1>1. k \in Nat /\ M \in Nat /\ Longest \in Nat \ {0} /\ Width = Longest
    <2>1. Longest \in 1..MaxLen /\ MaxLen \in Nat
        BY LongestOK, RowsOK
    <2> QED
        BY <2>1, RowsOK DEF BatchOK, Width
<1>2. \A j \in D : Loads[j] = Total(Final[j]) /\ Loads[j] \in Nat /\ Loads[i] - Loads[j] <= Longest
    <2> SUFFICES ASSUME NEW j \in D
                 PROVE  Loads[j] = Total(Final[j]) /\ Loads[j] \in Nat /\ Loads[i] - Loads[j] <= Longest
        OBVIOUS
    <2>1. Loads[j] = Total(Final[j]) /\ Loads[i] = Total(Final[i])
        BY DEF Loads
    <2>2. Total(Final[j]) \in Nat /\ Total(Final[i]) - Total(Final[j]) <= Longest
        BY <1>1, ApartAtMost
    <2> QED
        BY <2>1, <2>2
<1> SUFFICES ASSUME ~ (Total(Final[i]) < M + Longest) PROVE FALSE
    OBVIOUS
<1>3. Loads[i] \in Nat /\ Loads[i] >= M + Longest
    BY <1>1, <1>2
<1>4. \A j \in D : Loads[j] >= M
    BY <1>1, <1>2, <1>3
<1>5. IsFiniteSet(D) /\ Cardinality(D) = k
    <2>1. IsFiniteSet(1..k) /\ Cardinality(1..k) = IF 1 > k THEN 0 ELSE k - 1 + 1
        BY <1>1, FS_Interval
    <2> QED
        BY <1>1, <2>1
<1>6. M \in Int /\ \A j \in D : full[j] = M
    BY <1>1
<1>7. Summable(Loads, D) /\ SumIn(Loads, D) <= k * M /\ i \in D /\ R \in SUBSET D
    BY <1>1 DEF Roomy
<1> HIDE DEF D, full
<1>8. SumIn(full, D) = Cardinality(D) * M /\ Summable(full, D)
    <2> HIDE DEF M
    <2> QED
        BY <1>5, <1>6, SumConstant
<1>9. SumIn(full, D) = full[i] + SumIn(full, R) /\ SumIn(Loads, D) = Loads[i] + SumIn(Loads, R)
    BY <1>7, <1>8, SumTake
<1>10. Summable(full, R) /\ Summable(Loads, R) /\ \A x \in R : full[x] <= Loads[x]
    <2>1. \A x \in R : full[x] <= Loads[x]
        BY <1>1, <1>2, <1>4, <1>6
    <2> HIDE DEF R
    <2> QED
        BY <1>7, <1>8, <2>1, SummableSubset
<1> HIDE DEF R
<1>11. SumIn(full, R) <= SumIn(Loads, R) /\ SumIn(full, R) \in Int /\ SumIn(Loads, R) \in Int
    <2>1. SumIn(full, R) <= SumIn(Loads, R)
        BY <1>10, SumLess
    <2>2. SumIn(full, R) \in Int /\ SumIn(Loads, R) \in Int
        BY <1>10, SumTake
    <2> QED
        BY <2>1, <2>2
<1>12. SumIn(full, D) = k * M /\ full[i] = M /\ k * M \in Int
    <2>1. k * M \in Int
        BY <1>1
    <2> QED
        BY <1>5, <1>6, <1>7, <1>8, <2>1
<1> DEFINE a == SumIn(full, R)
           b == SumIn(Loads, R)
           c == k * M
<1>13. /\ a \in Int /\ b \in Int /\ c \in Int /\ a <= b /\ c = M + a /\ Loads[i] + b <= c
       /\ Loads[i] >= M + Longest /\ Loads[i] \in Nat /\ M \in Nat /\ Longest \in Nat \ {0}
    BY <1>1, <1>3, <1>7, <1>9, <1>11, <1>12
<1> HIDE DEF a, b, c, M
<1> QED
    BY <1>13

-----------------------------------------------------------------------------
(* The partitions, one after the other.                                    *)
Dealt == FlattenSeq([i \in 1..k |-> Partition(i)])

Returned == IF job = "micro" THEN [i \in Indices |-> order[ReverseIdx(order)[i]]] ELSE order

(* One State is left, of what follows from it.                             *)
LEMMA PartitionsInRow ==
    ASSUME BatchOK, \A i \in 1..k : Final[i] \in SUBSET Indices, StateOK(Final),
           UNION {Final[i] : i \in 1..k} = Indices,
           Summable(Sizes, 1..k), SumIn(Sizes, 1..k) = Rows
    PROVE  /\ \A r \in Indices : \E q \in Indices : Dealt[q] = r
           /\ job = "global" => \A c \in Nat : (\A i \in 1..k : Sizes[i] = c) =>
                 \A d \in 1..k : {Dealt[j] : j \in ((d - 1) * c + 1)..(d * c)} = Final[d]
           /\ Dealt # << >>
<1> DEFINE D == 1..k
           s == [i \in D |-> SortedUp(Final[i])]
           off == [i \in 1..(k + 1) |-> SumIn(Sizes, 1..(i - 1))]
<1>1. k \in Nat \ {0} /\ Rows \in Nat \ {0} /\ Indices = 1..Rows
    BY RowsOK DEF BatchOK
<1>2. \A i \in D : Final[i] \subseteq Int /\ IsFiniteSet(Final[i])
    BY <1>1, TotalIsSum
<1>3. \A i \in D : Partition(i) = SortedUp(Final[i])
    BY DEF Partition, SortedUp, Ranked
<1>4. Dealt = FlattenSeq(s)
    <2>1. [i \in 1..k |-> Partition(i)] = s
        BY <1>3
    <2> HIDE DEF s
    <2> QED
        BY <2>1 DEF Dealt
<1>5. \A i \in D : /\ SortedUp(Final[i]) \in Seq(Final[i]) /\ Len(SortedUp(Final[i])) = Sizes[i]
                   /\ \A r \in Final[i] : \E p \in 1..Sizes[i] : SortedUp(Final[i])[p] = r
    <2> SUFFICES ASSUME NEW i \in D
                 PROVE  /\ SortedUp(Final[i]) \in Seq(Final[i]) /\ Len(SortedUp(Final[i])) = Sizes[i]
                        /\ \A r \in Final[i] : \E p \in 1..Sizes[i] : SortedUp(Final[i])[p] = r
        OBVIOUS
    <2> DEFINE F == Final[i]
    <2>1. Sizes[i] = Cardinality(F)
        BY DEF Sizes
    <2>2. IsFiniteSet(F) /\ F \subseteq Int
        BY <1>2
    <2> HIDE DEF F
    <2>3. /\ SortedUp(F) \in Seq(F) /\ Len(SortedUp(F)) = Cardinality(F)
          /\ \A r \in F : \E p \in 1..Cardinality(F) : SortedUp(F)[p] = r
        BY <2>2, SortedUpHolds
    <2> QED
        BY <2>1, <2>3 DEF F
<1>6. \A i \in D : Sizes[i] \in Nat /\ SortedUp(Final[i]) \in Seq(Indices)
    <2> SUFFICES ASSUME NEW i \in D PROVE Sizes[i] \in Nat /\ SortedUp(Final[i]) \in Seq(Indices)
        OBVIOUS
    <2> DEFINE F == Final[i]
               z == SortedUp(F)
    <2>1. z \in Seq(F) /\ F \subseteq Indices /\ Len(z) = Sizes[i]
        BY <1>5
    <2> HIDE DEF z, F
    <2>2. z \in [1..Len(z) -> F] /\ Len(z) \in Nat
        BY <2>1, LenProperties
    <2>3. z \in [1..Len(z) -> Indices]
        BY <2>1, <2>2
    <2>4. z \in Seq(Indices)
        BY <2>2, <2>3, SeqDef
    <2> QED
        BY <2>1, <2>2, <2>4 DEF z, F
<1>7. s \in [D -> Seq(Indices)] /\ \A i \in D : s[i] = SortedUp(Final[i]) /\ Len(s[i]) = Sizes[i]
    BY <1>5, <1>6
<1>8. \A i \in 1..(k + 1) : off[i] = SumIn(Sizes, 1..(i - 1)) /\ off[i] \in Nat
    <2> SUFFICES ASSUME NEW i \in 1..(k + 1)
                 PROVE  off[i] = SumIn(Sizes, 1..(i - 1)) /\ off[i] \in Nat
        OBVIOUS
    <2>1. off[i] = SumIn(Sizes, 1..(i - 1))
        OBVIOUS
    <2> DEFINE T == 1..(i - 1)
    <2>2. IsFiniteSet(T) /\ \A t \in T : Sizes[t] \in Nat
        <3>1. i - 1 \in Int /\ \A t \in T : t \in D
            BY <1>1
        <3> QED
            BY <1>6, <3>1, FS_Interval
    <2> HIDE DEF T
    <2>3. SumIn(Sizes, T) \in Nat
        BY <2>2, SumNatural
    <2> QED
        BY <2>1, <2>3 DEF T
<1>9. off[1] = 0 /\ off[k + 1] = Rows
    <2>1. 1 \in 1..(k + 1) /\ k + 1 \in 1..(k + 1) /\ 1..(1 - 1) = {} /\ 1..((k + 1) - 1) = 1..k
        BY <1>1
    <2>2. SumIn(Sizes, {}) = 0
        BY SumTake
    <2>3. off[1] = SumIn(Sizes, 1..(1 - 1)) /\ off[k + 1] = SumIn(Sizes, 1..((k + 1) - 1))
        BY <1>8, <2>1
    <2> HIDE DEF off
    <2> QED
        BY <2>1, <2>2, <2>3
<1>10. \A i \in 1..k : off[i + 1] = off[i] + Sizes[i]
    <2> SUFFICES ASSUME NEW i \in 1..k PROVE off[i + 1] = off[i] + Sizes[i]
        OBVIOUS
    <2> DEFINE T == 1..(i - 1)
    <2>1. i \in 1..(k + 1) /\ i + 1 \in 1..(k + 1) /\ 1..((i + 1) - 1) = T \cup {i} /\ i \notin T
        BY <1>1
    <2>2. off[i + 1] = SumIn(Sizes, 1..((i + 1) - 1)) /\ off[i] = SumIn(Sizes, T)
        BY <1>8, <2>1
    <2>3. IsFiniteSet(T) /\ \A t \in T : Sizes[t] \in Int
        <3>1. \A t \in T : t \in D
            BY <1>1
        <3>2. \A t \in T : Sizes[t] \in Int
            <4> HIDE DEF T
            <4> QED
                BY <1>6, <3>1
        <3>3. IsFiniteSet(T)
            <4>1. 1 \in Int /\ i - 1 \in Int
                BY <1>1
            <4> QED
                BY <4>1, FS_Interval
        <3> QED
            BY <3>2, <3>3
    <2>4. Sizes[i] \in Int
        BY <1>6
    <2> HIDE DEF T, off
    <2>5. SumIn(Sizes, T \cup {i}) = SumIn(Sizes, T) + Sizes[i]
        BY <2>1, <2>3, <2>4, SumAdd DEF Summable
    <2> QED
        BY <2>1, <2>2, <2>5
<1> HIDE DEF s, off
<1>11. /\ Len(Dealt) = Rows /\ Dealt \in Seq(Indices)
       /\ \A i \in 1..k : \A j \in 1..Sizes[i] :
             off[i] + j \in 1..Rows /\ Dealt[off[i] + j] = SortedUp(Final[i])[j]
    <2>1. \A i \in 1..k : off[i + 1] = off[i] + Len(s[i])
        BY <1>7, <1>10
    <2>2. /\ FlattenSeq(s) \in Seq(Indices) /\ Len(FlattenSeq(s)) = off[k + 1]
          /\ \A i \in 1..k : \A j \in 1..Len(s[i]) :
                off[i] + j \in 1..off[k + 1] /\ FlattenSeq(s)[off[i] + j] = s[i][j]
        <3> DEFINE n == k
        <3>1. n \in Nat \ {0}
            BY <1>1
        <3>2. s \in [1..n -> Seq(Indices)]
            BY <1>7
        <3>3. Starts(s, n, off)
            BY <2>1, <1>8, <1>9 DEF Starts
        <3> HIDE DEF n, D
        <3>4. LaidOut(FlattenSeq(s), s, n, off, Indices)
            BY <3>1, <3>2, <3>3, Flattened
        <3> QED
            BY <3>4 DEF n, LaidOut
    <2> QED
        BY <1>4, <1>7, <1>9, <2>2
<1>12. \A r \in Indices : \E q \in Indices : Dealt[q] = r
    <2> SUFFICES ASSUME NEW r \in Indices PROVE \E q \in Indices : Dealt[q] = r
        OBVIOUS
    <2>1. PICK i \in 1..k : r \in Final[i]
        OBVIOUS
    <2>2. PICK p \in 1..Sizes[i] : SortedUp(Final[i])[p] = r
        BY <1>5, <2>1
    <2>3. off[i] + p \in 1..Rows /\ Dealt[off[i] + p] = r
        BY <1>11, <2>2
    <2> QED
        BY <1>1, <2>3
<1>13. Dealt # << >>
    BY <1>1, <1>11
<1>14. ASSUME NEW c \in Nat, \A i \in 1..k : Sizes[i] = c, NEW d \in 1..k
       PROVE  {Dealt[j] : j \in ((d - 1) * c + 1)..(d * c)} = Final[d]
    <2> DEFINE low == (d - 1) * c
               T == 1..(d - 1)
    <2>1. d \in Nat /\ d - 1 \in Nat /\ low \in Nat /\ d * c = low + c
        BY <1>1
    <2>2. off[d] = low
        <3>1. IsFiniteSet(T) /\ Cardinality(T) = d - 1
            <4>1. IsFiniteSet(T) /\ Cardinality(T) = IF 1 > d - 1 THEN 0 ELSE d - 1 - 1 + 1
                BY <2>1, FS_Interval
            <4> QED
                BY <2>1, <4>1
        <3>2. \A t \in T : Sizes[t] = c
            <4>1. \A t \in T : t \in 1..k
                BY <1>1
            <4> QED
                BY <1>14, <4>1
        <3>3. off[d] = SumIn(Sizes, T)
            <4>1. d \in 1..(k + 1)
                BY <1>1
            <4> QED
                BY <1>8, <4>1
        <3>4. c \in Int
            OBVIOUS
        <3> HIDE DEF T
        <3>5. SumIn(Sizes, T) = Cardinality(T) * c
            BY <3>1, <3>2, <3>4, SumConstant
        <3> QED
            BY <3>1, <3>3, <3>5
    <2>3. \A j \in 1..c : Dealt[low + j] = SortedUp(Final[d])[j]
        BY <1>11, <1>14, <2>2
    <2>4. /\ \A j \in 1..c : SortedUp(Final[d])[j] \in Final[d]
          /\ \A r \in Final[d] : \E p \in 1..c : SortedUp(Final[d])[p] = r
        <3>1. /\ SortedUp(Final[d]) \in Seq(Final[d]) /\ Len(SortedUp(Final[d])) = c
              /\ \A r \in Final[d] : \E p \in 1..c : SortedUp(Final[d])[p] = r
            BY <1>5, <1>14
        <3>2. \A j \in 1..Len(SortedUp(Final[d])) : SortedUp(Final[d])[j] \in Final[d]
            BY <3>1, ElementOfSeq
        <3> QED
            BY <3>1, <3>2
    <2>5. (low + 1)..(d * c) = {low + j : j \in 1..c}
        <3>1. d * c = low + c /\ low \in Nat
            BY <2>1
        <3> HIDE DEF low
        <3>2. ASSUME NEW x \in (low + 1)..(low + c) PROVE \E j \in 1..c : x = low + j
            <4>1. x - low \in 1..c /\ x = low + (x - low)
                BY <3>1
            <4> QED
                BY <4>1
        <3>3. \A j \in 1..c : low + j \in (low + 1)..(low + c)
            BY <3>1
        <3> DEFINE A == (low + 1)..(low + c)
        <3>4. A = {low + j : j \in 1..c}
            <4>1. (\A x \in A : \E j \in 1..c : x = low + j) /\ \A j \in 1..c : low + j \in A
                BY <3>2, <3>3
            <4> HIDE DEF A
            <4> QED
                BY <4>1
        <3> QED
            BY <3>1, <3>4
    <2> HIDE DEF low
    <2>6. {Dealt[j] : j \in (low + 1)..(d * c)} = Final[d]
        <3>1. ASSUME NEW x \in (low + 1)..(d * c) PROVE Dealt[x] \in Final[d]
            <4>1. PICK j \in 1..c : x = low + j
                BY <2>5
            <4> QED
                BY <2>3, <2>4, <4>1
        <3>2. ASSUME NEW r \in Final[d] PROVE \E x \in (low + 1)..(d * c) : Dealt[x] = r
            <4>1. PICK p \in 1..c : SortedUp(Final[d])[p] = r
                BY <2>4
            <4>2. low + p \in (low + 1)..(d * c)
                BY <2>5
            <4> QED
                BY <2>3, <4>1, <4>2
        <3> DEFINE A == (low + 1)..(d * c)
                   z == Final[d]
        <3>3. (\A x \in A : Dealt[x] \in z) /\ \A r \in z : \E x \in A : Dealt[x] = r
            BY <3>1, <3>2
        <3> HIDE DEF A, z
        <3>4. {Dealt[j] : j \in A} = z
            BY <3>3
        <3> QED
            BY <3>4 DEF A, z
    <2> QED
        BY <2>6 DEF low
<1> QED
    BY <1>12, <1>13, <1>14

(* Where each row is found again.                                          *)
LEMMA ReverseFinds ==
    ASSUME NEW o, NEW i \in Indices, \E j \in Indices : o[j] = i
    PROVE  o[ReverseIdx(o)[i]] = i
<1> DEFINE at == CHOOSE j \in Indices : o[j] = i
<1>1. o[at] = i
    OBVIOUS
<1>2. ReverseIdx(o)[i] = at
    BY DEF ReverseIdx
<1> QED
    BY <1>1, <1>2

-----------------------------------------------------------------------------
(* The invariant of the differencing method: every State is as StateOK     *)
(* says and each row is in one set of one State; what has been put out is  *)
(* the State that was left.                                                *)
BalanceInv ==
    /\ BatchOK
    /\ job = "micro" => Roomy
    /\ job = "global" => Rows % k = 0
    /\ IsFiniteSet(heap) /\ DealtOut(heap)
    /\ \A s \in heap : StateOK(s)
    /\ order # << >> => Cardinality(heap) = 1 /\ order = Dealt
    /\ rows # << >> => order # << >> /\ rows = Returned

(* The number of micro-batches and the first States.                       *)
LEMMA BalanceInitially == BalanceInit => BalanceInv
<1> SUFFICES ASSUME BalanceInit PROVE BalanceInv
    OBVIOUS
<1>1. job \in {"micro", "global"} /\ lens \in [Indices -> 1..MaxLen] /\ order = << >> /\ rows = << >>
    BY BalancingAssumption DEF BalanceInit, BalancingAssumption
<1>2. CASE job = "micro"
    <2>1. PICK peers \in Indices : k = NumMicroBatches(peers)
        BY <1>2 DEF BalanceInit
    <2>2. BatchOK /\ Roomy
        BY <1>1, <1>2, <2>1, EnoughMicroBatches
    <2>3. heap = OneByOne
        BY <1>2 DEF BalanceInit
    <2>4. IsFiniteSet(heap) /\ (\A s \in heap : StateOK(s)) /\ DealtOut(heap)
        BY <1>2, <2>2, <2>3, OneByOneDeals
    <2>5. job # "global"
        BY <1>2
    <2> QED
        BY <1>1, <2>2, <2>4, <2>5 DEF BalanceInv
<1>3. CASE job = "global"
    <2>1. k \in Indices /\ Rows % k = 0 /\ heap = InGroups /\ job # "micro"
        BY <1>3 DEF BalanceInit
    <2>2. BatchOK
        BY <1>1, <2>1 DEF BatchOK
    <2>3. IsFiniteSet(heap) /\ (\A s \in heap : StateOK(s)) /\ DealtOut(heap)
        BY <1>3, <2>1, <2>2, InGroupsDeals
    <2> QED
        BY <1>1, <2>1, <2>2, <2>3 DEF BalanceInv
<1> QED
    BY <1>1, <1>2, <1>3

(* Only the lengths matter for what a set of rows weighs.                  *)
LEMMA WeightIsSum == \A S : Total(S) = SumIn(lens, S)
BY DEF Total, SumIn

(* While the batch is the same, so is what makes a State good.             *)
LEMMA SameBatch ==
    ASSUME lens' = lens, k' = k, job' = job
    PROVE  /\ BatchOK' <=> BatchOK
           /\ Roomy' <=> Roomy
           /\ \A s : StateOK(s)' <=> StateOK(s)
           /\ \A S : Total(S)' = Total(S)
<1>0. lens' = lens
    OBVIOUS
<1>1. \A S : Total(S)' = Total(S)
    <2>1. (\A S : Total(S) = SumIn(lens, S))'
        BY WeightIsSum, PTL
    <2>2. \A S : Total(S)' = SumIn(lens', S)
        BY <2>1
    <2> QED
        BY <1>0, <2>2, WeightIsSum
<1>2. BatchOK' <=> BatchOK
    BY DEF BatchOK, Indices
<1>3. Width' = Width
    BY DEF Width, Longest, Shortest, Indices
<1>4. \A s : StateOK(s)' <=> StateOK(s)
    BY <1>1, <1>3 DEF StateOK, Indices, Loose
<1>5. Roomy' <=> Roomy
    BY <1>1 DEF Roomy, Indices
<1> QED
    BY <1>1, <1>2, <1>4, <1>5

(* Every step keeps the invariant.                                         *)
LEMMA BalanceStep == BalanceInv /\ [BalanceNext]_balanceVars => BalanceInv'
<1> SUFFICES ASSUME BalanceInv, [BalanceNext]_balanceVars PROVE BalanceInv'
    OBVIOUS
<1>1. lens' = lens /\ k' = k /\ job' = job
    BY DEF BalanceNext, Merge, Flatten, Deliver, balanceVars
<1>2. BatchOK' /\ (job' = "micro" => Roomy') /\ (job' = "global" => Rows % k' = 0)
    BY <1>1, SameBatch DEF BalanceInv
<1>3. CASE heap' = heap
    <2>1. \A s \in heap' : StateOK(s)'
        BY <1>1, <1>3, SameBatch DEF BalanceInv
    <2>2. IsFiniteSet(heap') /\ DealtOut(heap)'
        BY <1>1, <1>3 DEF BalanceInv, DealtOut, Indices
    <2>3. Final' = Final
        BY <1>3 DEF Final
    <2>4. Dealt' = Dealt
        BY <1>1, <2>3 DEF Dealt, Partition
    <2>5. order' # << >> => Cardinality(heap') = 1 /\ order' = Dealt'
        BY <1>3, <2>4 DEF BalanceInv, BalanceNext, Merge, Flatten, Deliver, balanceVars, Dealt
    <2>6. rows' # << >> => order' # << >> /\ rows' = Returned'
        <3>1. order' = order => Returned' = Returned
            BY <1>1 DEF Returned, ReverseIdx, Indices
        <3>2. CASE Flatten
            BY <3>2 DEF Flatten, BalanceInv
        <3>3. CASE Deliver
            BY <3>1, <3>3 DEF Deliver, Returned
        <3>4. CASE UNCHANGED balanceVars
            BY <3>1, <3>4 DEF balanceVars, BalanceInv
        <3>5. CASE Merge
            BY <3>1, <3>5 DEF Merge, BalanceInv
        <3> QED
            BY <3>2, <3>3, <3>4, <3>5 DEF BalanceNext
    <2> QED
        BY <1>2, <2>1, <2>2, <2>5, <2>6 DEF BalanceInv
<1>4. CASE Merge
    <2>1. PICK s \in Heads(heap) : \E t \in Heads(heap \ {s}) :
             \E merged \in Arrangements(MergedSets(s, t)) : heap' = (heap \ {s, t}) \cup {merged}
        BY <1>4 DEF Merge
    <2>2. PICK t \in Heads(heap \ {s}) :
             \E merged \in Arrangements(MergedSets(s, t)) : heap' = (heap \ {s, t}) \cup {merged}
        BY <2>1
    <2>3. PICK m \in Arrangements(MergedSets(s, t)) : heap' = (heap \ {s, t}) \cup {m}
        BY <2>2
    <2>4. s \in heap /\ t \in heap /\ s # t
        BY <2>1, <2>2 DEF Heads
    <2>5. StateOK(s) /\ StateOK(t)
        BY <2>4 DEF BalanceInv
    <2>6. BatchOK /\ DealtOut(heap)
        BY DEF BalanceInv
    <2> DEFINE H == (heap \ {s, t}) \cup {m}
    <2>7. DealtOut(H) /\ StateOK(m)
        BY <2>3, <2>4, <2>5, <2>6, MergeDeals
    <2>8. IsFiniteSet(H)
        <3>1. IsFiniteSet(heap \ {s, t})
            BY FS_Difference DEF BalanceInv
        <3> QED
            BY <3>1, FS_AddElement
    <2>9. \A z \in H : StateOK(z)
        BY <2>7 DEF BalanceInv
    <2>10. heap' = H
        BY <2>3
    <2> HIDE DEF H
    <2>11. \A z \in heap' : StateOK(z)'
        BY <1>1, <2>9, <2>10, SameBatch
    <2>12. DealtOut(heap)'
        BY <1>1, <2>7, <2>10 DEF DealtOut, Indices
    <2>13. order' = << >> /\ rows' = << >>
        <3>1. Cardinality(heap) # 1 /\ order' = order /\ rows' = rows
            <4>1. Cardinality(heap) > 1 /\ order' = order /\ rows' = rows
                BY <1>4 DEF Merge
            <4> QED
                BY <4>1
        <3> QED
            BY <3>1 DEF BalanceInv
    <2> QED
        BY <1>2, <2>8, <2>10, <2>11, <2>12, <2>13 DEF BalanceInv
<1>5. Merge \/ heap' = heap
    BY DEF BalanceNext, Flatten, Deliver, balanceVars
<1> QED
    BY <1>3, <1>4, <1>5

-----------------------------------------------------------------------------
(* A factor cancels.                                                       *)
LEMMA SameFactor ==
    ASSUME NEW a \in Nat, NEW b \in Nat, NEW n \in Nat \ {0}, a * n = b * n
    PROVE  a = b
OBVIOUS

(* The ranks share the batch equally.                                      *)
LEMMA SameSizes ==
    ASSUME BatchOK, job = "global", StateOK(Final), \A i \in 1..k : Final[i] \in SUBSET Indices,
           Summable(Sizes, 1..k), SumIn(Sizes, 1..k) = Rows, NEW i \in 1..k
    PROVE  /\ Cardinality(Final[i]) * k = Rows
           /\ Rows % k = 0 => Cardinality(Final[i]) = Rows \div k
<1> DEFINE D == 1..k
           c == Cardinality(Final[1])
<1>1. k \in Nat \ {0} /\ Rows \in Nat \ {0} /\ 1 \in 1..k /\ c \in Nat
    BY RowsOK, TotalIsSum DEF BatchOK
<1>2. \A j \in D : Cardinality(Final[j]) = c
    BY DEF StateOK
<1>3. \A j \in D : Sizes[j] = c
    BY <1>2 DEF Sizes
<1>4. IsFiniteSet(D) /\ Cardinality(D) = k
    <2>1. IsFiniteSet(1..k) /\ Cardinality(1..k) = IF 1 > k THEN 0 ELSE k - 1 + 1
        BY <1>1, FS_Interval
    <2> QED
        BY <1>1, <2>1
<1>5. SumIn(Sizes, D) = Rows /\ Cardinality(Final[i]) = c /\ c \in Int
    BY <1>1, <1>2
<1> HIDE DEF c, D
<1>6. SumIn(Sizes, D) = Cardinality(D) * c
    BY <1>3, <1>4, <1>5, SumConstant
<1>7. k * c = Rows
    BY <1>4, <1>5, <1>6
<1>8. c * k = Rows
    BY <1>1, <1>7
<1>9. Rows % k = 0 => c = Rows \div k
    <2> SUFFICES ASSUME Rows % k = 0 PROVE c = Rows \div k
        OBVIOUS
    <2> DEFINE q == Rows \div k
    <2>1. q \in Nat /\ Rows = q * k
        BY <1>1, PlacesInGroups
    <2> HIDE DEF q
    <2>2. c * k = q * k
        BY <1>8, <2>1
    <2>3. c = q
        BY <1>1, <2>1, <2>2, SameFactor
    <2> QED
        BY <2>3 DEF q
<1> QED
    BY <1>5, <1>8, <1>9

(* What the invariant says of the States in the heap and of the one left.  *)
LEMMA BalanceImpliesDealt == BalanceInv => BalancedPartition
<1> SUFFICES ASSUME BalanceInv PROVE BalancedPartition
    OBVIOUS
<1>1. /\ BatchOK /\ IsFiniteSet(heap) /\ DealtOut(heap) /\ \A s \in heap : StateOK(s)
      /\ job \in {"micro", "global"} /\ k \in Nat \ {0} /\ Rows \in Nat \ {0}
    BY RowsOK DEF BalanceInv, BatchOK
<1>2. ASSUME NEW r \in Indices
      PROVE  Cardinality({p \in heap \X (1..k) : r \in p[1][p[2]]}) = 1
    <2>1. PICK s \in heap : \E i \in 1..k : r \in s[i]
        BY <1>1 DEF DealtOut
    <2>2. PICK i \in 1..k : r \in s[i]
        BY <2>1
    <2>3. \A t \in heap : \A j \in 1..k : r \in t[j] => s = t /\ i = j
        BY <1>1, <2>2 DEF DealtOut
    <2> DEFINE P == {p \in heap \X (1..k) : r \in p[1][p[2]]}
    <2>4. <<s, i>> \in P
        BY <2>2
    <2>5. \A p \in P : p = <<s, i>>
        BY <2>3
    <2> HIDE DEF P
    <2>6. P = {<<s, i>>}
        BY <2>4, <2>5
    <2>7. Cardinality(P) = 1
        BY <2>6, FS_Singleton
    <2> QED
        BY <2>7 DEF P
<1>3. \A s \in heap : Spread(s) <= IF job = "micro" THEN Longest ELSE Longest - Shortest
    BY <1>1 DEF StateOK, Spread, Width
<1>4. ASSUME Cardinality(heap) = 1, NEW i \in 1..k
      PROVE  /\ Final[i] # {}
             /\ job = "global" => Cardinality(Final[i]) * k = Rows
             /\ job = "micro" => Total(Final[i]) < MaxTokenLen + Longest
    <2>1. /\ StateOK(Final)
          /\ \A j \in 1..k : Final[j] \in SUBSET Indices
          /\ \A j, h \in 1..k : j # h => Final[j] \cap Final[h] = {}
          /\ UNION {Final[j] : j \in 1..k} = Indices
        BY <1>1, <1>4, OneStateLeft
    <2>2. /\ Summable(Sizes, 1..k) /\ SumIn(Sizes, 1..k) = Rows
          /\ Summable(Loads, 1..k) /\ SumIn(Loads, 1..k) = Total(Indices)
        BY <1>1, <2>1, FinalAddsUp
    <2>3. Final[i] # {}
        BY <1>1, <2>1, <2>2, NoneEmpty
    <2>4. job = "micro" => Total(Final[i]) < MaxTokenLen + Longest
        <3>1. job = "micro" => Roomy
            BY DEF BalanceInv
        <3> QED
            BY <1>1, <2>1, <2>2, <3>1, NoneOutgrows
    <2>5. ASSUME job = "global" PROVE Cardinality(Final[i]) * k = Rows
        BY <1>1, <2>1, <2>2, <2>5, SameSizes
    <2> QED
        BY <2>3, <2>4, <2>5
<1> QED
    BY <1>2, <1>3, <1>4 DEF BalancedPartition

(* What is put out is found again.                                         *)
LEMMA BalanceImpliesRestored == BalanceInv => RowsRestored
<1> SUFFICES ASSUME BalanceInv, rows # << >>
             PROVE  IF job = "micro" THEN \A i \in Indices : rows[i] = i
                    ELSE LET size == Rows \div k
                         IN  \A d \in 1..k :
                                {rows[j] : j \in ((d - 1) * size + 1)..(d * size)} = Final[d]
    BY DEF RowsRestored
<1>1. /\ BatchOK /\ IsFiniteSet(heap) /\ DealtOut(heap) /\ (\A s \in heap : StateOK(s))
      /\ job \in {"micro", "global"} /\ k \in Nat \ {0} /\ Rows \in Nat \ {0}
      /\ Cardinality(heap) = 1 /\ order = Dealt /\ rows = Returned
    BY RowsOK DEF BalanceInv, BatchOK
<1>2. /\ StateOK(Final)
      /\ \A j \in 1..k : Final[j] \in SUBSET Indices
      /\ \A j, h \in 1..k : j # h => Final[j] \cap Final[h] = {}
      /\ UNION {Final[j] : j \in 1..k} = Indices
    BY <1>1, OneStateLeft
<1>3. Summable(Sizes, 1..k) /\ SumIn(Sizes, 1..k) = Rows
    BY <1>1, <1>2, FinalAddsUp
<1>4. /\ \A r \in Indices : \E q \in Indices : Dealt[q] = r
      /\ job = "global" => \A c \in Nat : (\A i \in 1..k : Sizes[i] = c) =>
            \A d \in 1..k : {Dealt[j] : j \in ((d - 1) * c + 1)..(d * c)} = Final[d]
    BY <1>1, <1>2, <1>3, PartitionsInRow
<1>5. CASE job = "micro"
    <2> SUFFICES ASSUME NEW i \in Indices PROVE rows[i] = i
        BY <1>5
    <2>1. rows[i] = order[ReverseIdx(order)[i]]
        BY <1>1, <1>5 DEF Returned
    <2>2. \E j \in Indices : order[j] = i
        BY <1>1, <1>4
    <2> QED
        BY <2>1, <2>2, ReverseFinds
<1>6. CASE job = "global"
    <2> DEFINE c == Rows \div k
    <2>1. Rows % k = 0
        BY <1>6 DEF BalanceInv
    <2>2. c \in Nat
        BY <1>1, <2>1, PlacesInGroups
    <2>3. \A i \in 1..k : Sizes[i] = c
        BY <1>1, <1>2, <1>3, <1>6, <2>1, SameSizes DEF Sizes
    <2>4. job # "micro" /\ rows = Dealt
        BY <1>1, <1>6 DEF Returned
    <2> HIDE DEF c
    <2>5. \A d \in 1..k : {Dealt[j] : j \in ((d - 1) * c + 1)..(d * c)} = Final[d]
        BY <1>4, <1>6, <2>2, <2>3
    <2> QED
        BY <2>4, <2>5 DEF c
<1> QED
    BY <1>1, <1>5, <1>6

(* The batch under way, if there is one, is as the invariant says.         *)
BatchInv == task = "balance" => BalanceInv

(* In the company of the other algorithms, for every batch: rows are dealt *)
(* out as they should be, and found again.                                 *)
THEOREM RowsAlwaysDealtOut == AlgorithmSpec => []RowsDealtOut
<1>1. AlgorithmInit => BatchInv
    <2> SUFFICES ASSUME AlgorithmInit, task = "balance" PROVE BalanceInv
        BY DEF BatchInv
    <2>1. BalanceInit
        BY DEF AlgorithmInit, Inputs
    <2> QED
        BY <2>1, BalanceInitially
<1>2. BatchInv /\ [AlgorithmNext]_algorithmVars => BatchInv'
    <2>1. [AlgorithmNext]_algorithmVars => task' = task /\ (task = "balance" => [BalanceNext]_balanceVars)
        BY DEF AlgorithmNext, Expand, Balance, Compute, Annotate, Generate, Infer, Answer,
               algorithmVars
    <2> QED
        BY <2>1, BalanceStep DEF BatchInv
<1>3. BatchInv => RowsDealtOut
    BY BalanceImpliesDealt, BalanceImpliesRestored DEF RowsDealtOut, BatchInv
<1> QED
    BY <1>1, <1>2, <1>3, PTL DEF AlgorithmSpec

-----------------------------------------------------------------------------
(* The sets that a fold of n elements comes to, one after the other.       *)
LEMMA LastIsTaken ==
    ASSUME NEW n \in Nat
    PROVE  /\ \A T \in SUBSET (1..n) : T # {} => Max(T) \in T /\ \A x \in T : x <= Max(T)
           /\ \A m \in 1..n : /\ 1..m \in SUBSET (1..n) /\ 1..m # {}
                              /\ Max(1..m) = m /\ (1..m) \ {m} = 1..(m - 1)
<1>1. ASSUME NEW T \in SUBSET (1..n), T # {}
      PROVE  Max(T) \in T /\ \A x \in T : x <= Max(T)
    <2>1. IsFiniteSet(T) /\ T \subseteq Int
        <3>1. IsFiniteSet(1..n)
            BY FS_Interval
        <3>2. IsFiniteSet(T)
            BY <3>1, FS_Subset
        <3> QED
            BY <3>2
    <2> QED
        BY <1>1, <2>1, Extremes
<1>2. ASSUME NEW m \in 1..n
      PROVE  /\ 1..m \in SUBSET (1..n) /\ 1..m # {}
             /\ Max(1..m) = m /\ (1..m) \ {m} = 1..(m - 1)
    <2>1. 1..m \in SUBSET (1..n) /\ m \in 1..m /\ (1..m) \ {m} = 1..(m - 1)
        OBVIOUS
    <2> DEFINE T == 1..m
    <2>2. T \in SUBSET (1..n) /\ m \in T /\ \A x \in T : x <= m
        BY <2>1
    <2>3. m \in Int /\ T \subseteq Int
        OBVIOUS
    <2> HIDE DEF T
    <2>4. Max(T) \in T /\ \A x \in T : x <= Max(T)
        BY <1>1, <2>2
    <2>5. Max(T) = m
        <3>1. Max(T) \in Int /\ Max(T) <= m /\ m <= Max(T)
            BY <2>2, <2>3, <2>4
        <3> QED
            BY <2>3, <3>1
    <2> QED
        BY <2>1, <2>5 DEF T
<1> QED
    BY <1>1, <1>2

\* g holds the folds of the subsets of 1..n: F takes what a set came to
\* without its last element, and that element.
FoldsTo(g, base, F, n) ==
    \A T \in SUBSET (1..n) : g[T] = IF T = {} THEN base ELSE F[<<g[T \ {Max(T)}], Max(T)>>]

(* A fold is well defined.                                                 *)
LEMMA FoldExists ==
    ASSUME NEW n \in Nat, NEW Values, NEW base \in Values, NEW F \in [Values \X (1..n) -> Values]
    PROVE  \E g \in [SUBSET (1..n) -> Values] : FoldsTo(g, base, F, n)
<1> DEFINE Defined(m) == \E g \in [SUBSET (1..m) -> Values] : FoldsTo(g, base, F, m)
           Good == {m \in Nat : m <= n => Defined(m)}
<1>1. Defined(0)
    <2> DEFINE g == [T \in SUBSET (1..0) |-> base]
    <2>1. 1..0 = {} /\ g \in [SUBSET (1..0) -> Values]
        OBVIOUS
    <2>2. FoldsTo(g, base, F, 0)
        BY <2>1 DEF FoldsTo
    <2> HIDE DEF g
    <2> QED
        BY <2>1, <2>2
<1>2. ASSUME NEW m \in Nat, Defined(m), m + 1 <= n PROVE Defined(m + 1)
    <2>1. PICK h \in [SUBSET (1..m) -> Values] : FoldsTo(h, base, F, m)
        BY <1>2
    <2> DEFINE q == m + 1
               g == [T \in SUBSET (1..q) |-> IF q \in T THEN F[<<h[T \ {q}], q>>] ELSE h[T]]
    <2>2. \A T \in SUBSET (1..q) : /\ T \ {q} \in SUBSET (1..m)
                                   /\ q \notin T => T \in SUBSET (1..m)
        OBVIOUS
    <2>3. g \in [SUBSET (1..q) -> Values]
        <3>1. q \in 1..n
            BY <1>2
        <3> SUFFICES ASSUME NEW T \in SUBSET (1..q)
                     PROVE  (IF q \in T THEN F[<<h[T \ {q}], q>>] ELSE h[T]) \in Values
            OBVIOUS
        <3> QED
            BY <2>2, <3>1
    <2>4. FoldsTo(g, base, F, q)
        <3> SUFFICES ASSUME NEW T \in SUBSET (1..q), T # {}
                     PROVE  g[T] = F[<<g[T \ {Max(T)}], Max(T)>>]
            <4>1. g[{}] = base
                BY <2>1 DEF FoldsTo
            <4> QED
                BY <4>1 DEF FoldsTo
        <3>1. CASE q \in T
            <4>1. Max(T) = q
                <5>1. q \in Nat
                    OBVIOUS
                <5>2. Max(T) \in T /\ \A x \in T : x <= Max(T)
                    <6> HIDE DEF q
                    <6> QED
                        BY <5>1, LastIsTaken
                <5>3. Max(T) \in 1..q /\ q <= Max(T)
                    BY <3>1, <5>2
                <5> QED
                    BY <5>1, <5>3
            <4>2. g[T \ {q}] = h[T \ {q}]
                BY <2>2
            <4> QED
                BY <3>1, <4>1, <4>2
        <3>2. CASE q \notin T
            <4>1. T \in SUBSET (1..m) /\ T \ {Max(T)} \in SUBSET (1..m) /\ q \notin T \ {Max(T)}
                BY <2>2, <3>2
            <4>2. g[T] = h[T] /\ g[T \ {Max(T)}] = h[T \ {Max(T)}]
                BY <3>2, <4>1
            <4> HIDE DEF g
            <4> QED
                BY <2>1, <4>1, <4>2 DEF FoldsTo
        <3> QED
            BY <3>1, <3>2
    <2> HIDE DEF g
    <2> QED
        BY <2>3, <2>4
<1> HIDE DEF Defined
<1>3. Nat \subseteq Good
    <2>1. 0 \in Good /\ \A m \in Nat : m \in Good => m + 1 \in Good
        BY <1>1, <1>2
    <2> HIDE DEF Good
    <2> QED
        BY <2>1, NumberInduction
<1>4. n \in Good
    <2> HIDE DEF Good
    <2> QED
        BY <1>3
<1>5. Defined(n)
    BY <1>4
<1> QED
    BY <1>5 DEF Defined

-----------------------------------------------------------------------------
\* How many members of a sequence are of a kind.
HowMany(s, kind) == Cardinality({i \in DOMAIN s : s[i] \in kind})

Bit(b) == IF b THEN 1 ELSE 0

(* One more member is counted where it belongs.                            *)
LEMMA HowManyAppend ==
    ASSUME NEW R, NEW s \in Seq(R), NEW r \in R, NEW kind
    PROVE  /\ HowMany(s, kind) \in Nat
           /\ HowMany(Append(s, r), kind) = HowMany(s, kind) + Bit(r \in kind)
<1> DEFINE n == Len(s)
           A == {i \in 1..n : s[i] \in kind}
           t == Append(s, r)
           B == {i \in 1..(n + 1) : t[i] \in kind}
<1>1. n \in Nat /\ DOMAIN s = 1..n
    OBVIOUS
<1>2. DOMAIN t = 1..(n + 1) /\ t[n + 1] = r /\ \A i \in 1..n : t[i] = s[i]
    OBVIOUS
<1>3. HowMany(s, kind) = Cardinality(A) /\ HowMany(t, kind) = Cardinality(B)
    BY <1>1, <1>2 DEF HowMany
<1>4. IsFiniteSet(A) /\ Cardinality(A) \in Nat /\ n + 1 \notin A
    <2>1. IsFiniteSet(1..n)
        BY <1>1, FS_Interval
    <2>2. IsFiniteSet(A)
        BY <2>1, FS_Subset
    <2> QED
        BY <1>1, <2>2, FS_CardinalityType
<1>5. B = IF r \in kind THEN A \cup {n + 1} ELSE A
    <2> HIDE DEF t
    <2>1. \A i \in 1..(n + 1) : i \in 1..n \/ i = n + 1
        BY <1>1
    <2>2. n + 1 \in 1..(n + 1) /\ n + 1 \notin 1..n /\ \A i \in 1..n : i \in 1..(n + 1)
        BY <1>1
    <2> QED
        BY <1>2, <2>1, <2>2
<1> HIDE DEF A, B, n
<1>6. Cardinality(B) = Cardinality(A) + Bit(r \in kind)
    <2>1. CASE r \in kind
        BY <1>4, <1>5, <2>1, FS_AddElement DEF Bit
    <2>2. CASE r \notin kind
        BY <1>4, <1>5, <2>2 DEF Bit
    <2> QED
        BY <2>1, <2>2
<1> QED
    BY <1>3, <1>4, <1>6

-----------------------------------------------------------------------------
(* The counters of an evaluation and its results.                          *)
PuzzleResult ==
    [reason : Puzzled!Reasons \cup {"none"}, first : BOOLEAN, all : BOOLEAN, depth : Puzzled!Depths]

Counters ==
    [first_move : Nat, full_puzzle : Nat, failures : [Puzzled!Reasons -> Nat],
     per_depth_total : [Puzzled!Depths -> Nat], per_depth_correct : [Puzzled!Depths -> Nat],
     per_puzzle_results : Seq(PuzzleResult)]

\* What one puzzle adds.
AfterGame(c, g, think) ==
    IF Puzzled!LeftOut(g) THEN c
    ELSE IF think /\ ~ g.closes THEN Puzzled!FailThinking(c, g)
    ELSE Puzzled!Ask(c, g)

\* d counts one result more than c.
Increments(c, d, r) ==
    /\ d.per_puzzle_results = Append(c.per_puzzle_results, r)
    /\ d.first_move = c.first_move + Bit(r.first)
    /\ d.full_puzzle = c.full_puzzle + Bit(r.all)
    /\ \A x \in Puzzled!Reasons : d.failures[x] = c.failures[x] + Bit(r.reason = x)
    /\ \A x \in Puzzled!Depths :
          /\ d.per_depth_total[x]
                 = c.per_depth_total[x] + Bit(r.depth = x /\ r.reason # "cot_format")
          /\ d.per_depth_correct[x] = c.per_depth_correct[x] + Bit(r.depth = x /\ r.all)

(* A puzzle has a number of moves for the model, at least one if it is not *)
(* left out.                                                               *)
LEMMA GameOK ==
    ASSUME NEW g \in Games
    PROVE  /\ g.hits \in Nat /\ g.moves \in Nat /\ g.closes \in BOOLEAN /\ g.parses \in BOOLEAN
           /\ g.miss \in {"wrong", "illegal", "no_move", "no_call"}
           /\ Puzzled!num_model_moves(g) \in Nat
           /\ Puzzled!num_model_moves(g) <= g.moves \div 2
           /\ ~ Puzzled!LeftOut(g) => Puzzled!num_model_moves(g) \in Puzzled!Depths
<1>1. MaxLength \in Nat /\ MaxPuzzleMoves \in Nat \ {0}
    BY PuzzleAssumption DEF PuzzleAssumption
<1>2. /\ g.hits \in Nat /\ g.moves \in Nat /\ g.closes \in BOOLEAN /\ g.parses \in BOOLEAN
      /\ g.miss \in {"wrong", "illegal", "no_move", "no_call"}
    BY <1>1 DEF Games, Puzzled!Misses
<1> DEFINE h == g.moves \div 2
           m == Puzzled!num_model_moves(g)
<1>3. h \in Nat /\ (g.moves >= 2 => h >= 1)
    BY <1>2
<1>4. m = Min({h, MaxPuzzleMoves})
    BY DEF Puzzled!num_model_moves, Puzzled!Min, Min
<1> HIDE DEF h, m
<1>5. m \in {h, MaxPuzzleMoves} /\ m <= h /\ m <= MaxPuzzleMoves
    BY <1>1, <1>3, <1>4, OfTwo
<1>6. ~ Puzzled!LeftOut(g) => g.moves >= 2
    BY <1>2 DEF Puzzled!LeftOut
<1>7. ~ Puzzled!LeftOut(g) => m \in Puzzled!Depths
    BY <1>1, <1>3, <1>5, <1>6 DEF Puzzled!Depths
<1>8. m \in Nat
    BY <1>1, <1>3, <1>5
<1> QED
    BY <1>2, <1>5, <1>7, <1>8 DEF h, m

(* The thinking of a puzzle fails.                                         *)
LEMMA FailThinkingCounts ==
    ASSUME NEW c \in Counters, NEW g \in Games, ~ Puzzled!LeftOut(g)
    PROVE  /\ Puzzled!FailThinking(c, g) \in Counters
           /\ \E r \in PuzzleResult : /\ Increments(c, Puzzled!FailThinking(c, g), r)
                                      /\ r.all <=> r.reason = "none"
<1> DEFINE m == Puzzled!num_model_moves(g)
           r == [reason |-> "cot_format", first |-> FALSE, all |-> FALSE, depth |-> m]
           s == Append(c.per_puzzle_results, r)
           f == [c.failures EXCEPT !["cot_format"] = @ + 1]
           d == [c EXCEPT !.failures = f, !.per_puzzle_results = s]
<1>1. m \in Puzzled!Depths
    BY GameOK
<1>2. Puzzled!FailThinking(c, g) = d
    BY DEF Puzzled!FailThinking, Puzzled!Record, Counters
<1>3. r \in PuzzleResult /\ r.reason = "cot_format" /\ r.first = FALSE /\ r.all = FALSE /\ r.depth = m
    BY <1>1 DEF PuzzleResult, Puzzled!Reasons
<1>4. f \in [Puzzled!Reasons -> Nat] /\ \A x \in Puzzled!Reasons : f[x] = c.failures[x] + Bit("cot_format" = x)
    BY DEF Counters, Puzzled!Reasons, Bit
<1> HIDE DEF m, r
<1>5. s \in Seq(PuzzleResult)
    BY <1>3 DEF Counters
<1> HIDE DEF f, s
<1>6. d \in Counters
    BY <1>4, <1>5 DEF Counters
<1>7. /\ d.per_puzzle_results = s /\ d.failures = f /\ d.first_move = c.first_move
      /\ d.full_puzzle = c.full_puzzle /\ d.per_depth_total = c.per_depth_total
      /\ d.per_depth_correct = c.per_depth_correct
    BY DEF Counters
<1>8. /\ c.first_move \in Nat /\ c.full_puzzle \in Nat
      /\ \A x \in Puzzled!Depths : c.per_depth_total[x] \in Nat /\ c.per_depth_correct[x] \in Nat
    BY DEF Counters
<1> HIDE DEF d
<1>9. Increments(c, d, r)
    BY <1>3, <1>4, <1>7, <1>8 DEF Increments, Bit, s
<1> QED
    BY <1>2, <1>3, <1>6, <1>9

(* The model misses, or solves the puzzle.                                 *)
LEMMA AskCounts ==
    ASSUME NEW c \in Counters, NEW g \in Games, ~ Puzzled!LeftOut(g)
    PROVE  /\ Puzzled!Ask(c, g) \in Counters
           /\ \E r \in PuzzleResult : /\ Increments(c, Puzzled!Ask(c, g), r)
                                      /\ r.all <=> r.reason = "none"
<1> DEFINE m == Puzzled!num_model_moves(g)
           solved == ~ (g.hits < m)
           why == IF solved THEN "none" ELSE Puzzled!Reason(g.miss)
           hit == g.hits > 0
           r == [reason |-> why, first |-> hit, all |-> solved, depth |-> m]
           n == IF hit THEN c.first_move + 1 ELSE c.first_move
           u == IF solved THEN c.full_puzzle + 1 ELSE c.full_puzzle
           f == IF solved THEN c.failures ELSE [c.failures EXCEPT ![why] = @ + 1]
           t == [c.per_depth_total EXCEPT ![m] = @ + 1]
           corr == IF solved THEN [c.per_depth_correct EXCEPT ![m] = @ + 1] ELSE c.per_depth_correct
           s == Append(c.per_puzzle_results, r)
           d == [first_move |-> n, full_puzzle |-> u, failures |-> f, per_depth_total |-> t,
                 per_depth_correct |-> corr, per_puzzle_results |-> s]
<1>1. m \in Puzzled!Depths /\ m \in Nat \ {0} /\ g.hits \in Nat
    <2>1. m \in Puzzled!Depths /\ g.hits \in Nat
        BY GameOK
    <2> QED
        BY <2>1, PuzzleAssumption DEF PuzzleAssumption, Puzzled!Depths
<1>2. why \in Puzzled!Reasons \cup {"none"} /\ (solved <=> why = "none") /\ why # "cot_format"
    <2>1. g.miss \in {"wrong", "illegal", "no_move", "no_call"}
        BY GameOK
    <2> HIDE DEF m
    <2> QED
        BY <2>1 DEF Puzzled!Reason, Puzzled!Reasons
<1>3. /\ c.first_move \in Nat /\ c.full_puzzle \in Nat /\ c.failures \in [Puzzled!Reasons -> Nat]
      /\ c.per_depth_total \in [Puzzled!Depths -> Nat]
      /\ c.per_depth_correct \in [Puzzled!Depths -> Nat]
      /\ c.per_puzzle_results \in Seq(PuzzleResult)
      /\ c = [first_move |-> c.first_move, full_puzzle |-> c.full_puzzle, failures |-> c.failures,
              per_depth_total |-> c.per_depth_total, per_depth_correct |-> c.per_depth_correct,
              per_puzzle_results |-> c.per_puzzle_results]
    BY DEF Counters
<1>4. Puzzled!Ask(c, g) = d
    <2> DEFINE asked == [c EXCEPT !.per_depth_total[m] = @ + 1,
                                  !.first_move = IF hit THEN @ + 1 ELSE @]
    <2>1. Puzzled!Ask(c, g) = IF g.hits < m THEN Puzzled!Miss(asked, g) ELSE Puzzled!Solve(asked, g)
        BY DEF Puzzled!Ask
    <2>2. asked = [first_move |-> n, full_puzzle |-> c.full_puzzle, failures |-> c.failures,
                   per_depth_total |-> t, per_depth_correct |-> c.per_depth_correct,
                   per_puzzle_results |-> c.per_puzzle_results]
        <3>1. asked = [[c EXCEPT !.per_depth_total = t] EXCEPT !.first_move = n]
            BY <1>3
        <3> HIDE DEF m, hit, t, n, asked
        <3> QED
            BY <1>3, <3>1
    <2> HIDE DEF asked
    <2>3. CASE solved
        <3>1. Puzzled!Ask(c, g) = Puzzled!Solve(asked, g)
            BY <2>1, <2>3
        <3>2. hit /\ why = "none"
            BY <1>1, <2>3
        <3>3. Puzzled!Solve(asked, g) =
                [[asked EXCEPT !.full_puzzle = @ + 1, !.per_depth_correct[m] = @ + 1]
                    EXCEPT !.per_puzzle_results = Append(@, [reason |-> "none", first |-> TRUE,
                                                             all |-> TRUE, depth |-> m])]
            BY DEF Puzzled!Solve, Puzzled!Record
        <3>4. r = [reason |-> "none", first |-> TRUE, all |-> TRUE, depth |-> m]
            BY <2>3, <3>2
        <3> HIDE DEF m, n, t, r, hit
        <3> QED
            BY <2>2, <2>3, <3>1, <3>3, <3>4
    <2>4. CASE ~ solved
        <3>1. Puzzled!Ask(c, g) = Puzzled!Miss(asked, g) /\ why = Puzzled!Reason(g.miss)
            BY <2>1, <2>4
        <3>2. Puzzled!Miss(asked, g) =
                [[asked EXCEPT !.failures[why] = @ + 1]
                    EXCEPT !.per_puzzle_results = Append(@, [reason |-> why, first |-> hit,
                                                             all |-> FALSE, depth |-> m])]
            BY <3>1 DEF Puzzled!Miss, Puzzled!Record
        <3>3. r = [reason |-> why, first |-> hit, all |-> FALSE, depth |-> m]
            BY <2>4
        <3> HIDE DEF m, n, t, r, hit, why
        <3> QED
            BY <2>2, <2>4, <3>1, <3>2, <3>3
    <2> QED
        BY <2>3, <2>4
<1>5. r \in PuzzleResult /\ r.reason = why /\ r.first = hit /\ r.all = solved /\ r.depth = m
    <2>1. hit \in BOOLEAN /\ solved \in BOOLEAN
        BY <1>1
    <2> HIDE DEF hit, solved, why, m
    <2> QED
        BY <1>1, <1>2, <2>1 DEF PuzzleResult
<1> HIDE DEF m, hit
<1>6. n \in Nat /\ n = c.first_move + Bit(hit)
    BY <1>3 DEF Bit
<1> HIDE DEF solved, why
<1>7. u \in Nat /\ u = c.full_puzzle + Bit(solved)
    BY <1>3 DEF Bit
<1>8. f \in [Puzzled!Reasons -> Nat] /\ \A x \in Puzzled!Reasons : f[x] = c.failures[x] + Bit(why = x)
    <2>1. "none" \notin Puzzled!Reasons
        BY DEF Puzzled!Reasons
    <2> QED
        BY <1>2, <1>3, <2>1 DEF Bit
<1>9. t \in [Puzzled!Depths -> Nat] /\ \A x \in Puzzled!Depths : t[x] = c.per_depth_total[x] + Bit(m = x)
    BY <1>1, <1>3 DEF Bit
<1>10. /\ corr \in [Puzzled!Depths -> Nat]
       /\ \A x \in Puzzled!Depths : corr[x] = c.per_depth_correct[x] + Bit(m = x /\ solved)
    BY <1>1, <1>3 DEF Bit
<1>11. s \in Seq(PuzzleResult)
    <2> HIDE DEF r
    <2> QED
        BY <1>3, <1>5
<1> HIDE DEF n, u, f, t, corr, s, r
<1>12. d \in Counters
    BY <1>6, <1>7, <1>8, <1>9, <1>10, <1>11 DEF Counters
<1>13. Increments(c, d, r)
    <2>1. /\ d.per_puzzle_results = s /\ d.failures = f /\ d.first_move = n
          /\ d.full_puzzle = u /\ d.per_depth_total = t /\ d.per_depth_correct = corr
        OBVIOUS
    <2>2. \A x \in Puzzled!Depths :
             Bit(r.depth = x /\ r.reason # "cot_format") = Bit(m = x) /\ Bit(r.depth = x /\ r.all) = Bit(m = x /\ solved)
        BY <1>2, <1>5 DEF Bit
    <2> HIDE DEF d
    <2> QED
        BY <1>5, <1>6, <1>7, <1>8, <1>9, <1>10, <2>1, <2>2 DEF Increments, s
<1> QED
    BY <1>2, <1>4, <1>5, <1>12, <1>13

\* The kinds of results that are counted.
Firsts      == {r \in PuzzleResult : r.first}
Solved      == {r \in PuzzleResult : r.all}
FailedBy(x) == {r \in PuzzleResult : r.reason = x}
AskedAt(x)  == {r \in PuzzleResult : r.depth = x /\ r.reason # "cot_format"}
SolvedAt(x) == {r \in PuzzleResult : r.depth = x /\ r.all}

(* The counters are those of the results, and each result is either solved *)
(* or a failure for one reason.                                            *)
Tallied(c) ==
    /\ c \in Counters
    /\ c.first_move = HowMany(c.per_puzzle_results, Firsts)
    /\ c.full_puzzle = HowMany(c.per_puzzle_results, Solved)
    /\ \A x \in Puzzled!Reasons : c.failures[x] = HowMany(c.per_puzzle_results, FailedBy(x))
    /\ \A x \in Puzzled!Depths :
          /\ c.per_depth_total[x] = HowMany(c.per_puzzle_results, AskedAt(x))
          /\ c.per_depth_correct[x] = HowMany(c.per_puzzle_results, SolvedAt(x))
    /\ Len(c.per_puzzle_results)
           = c.full_puzzle + (c.failures["cot_format"] + (c.failures["move_format"]
                + (c.failures["illegal_move"] + c.failures["wrong_move"])))

(* Five numbers of which one grows by one.                                 *)
LEMMA OneGrows ==
    ASSUME NEW a \in Nat, NEW b \in Nat, NEW c \in Nat, NEW d \in Nat, NEW e \in Nat,
           NEW p \in Nat, NEW q \in Nat, NEW r \in Nat, NEW s \in Nat, NEW t \in Nat,
           p + (q + (r + (s + t))) = 1
    PROVE  (a + p) + ((b + q) + ((c + r) + ((d + s) + (e + t)))) = (a + (b + (c + (d + e)))) + 1
OBVIOUS

(* One result more keeps it so.                                            *)
LEMMA TallyKept ==
    ASSUME NEW c, Tallied(c), NEW d \in Counters, NEW r \in PuzzleResult, Increments(c, d, r),
           r.all <=> r.reason = "none"
    PROVE  Tallied(d) /\ Len(d.per_puzzle_results) = Len(c.per_puzzle_results) + 1
<1> DEFINE s == c.per_puzzle_results
           e == d.per_puzzle_results
<1>1. s \in Seq(PuzzleResult) /\ e = Append(s, r)
    BY DEF Tallied, Counters, Increments
<1>2. \A kind : HowMany(e, kind) = HowMany(s, kind) + Bit(r \in kind)
    <2> HIDE DEF s, e
    <2> QED
        BY <1>1, HowManyAppend
<1>3. Len(e) = Len(s) + 1
    BY <1>1
<1>4. /\ r \in Firsts <=> r.first
      /\ r \in Solved <=> r.all
      /\ \A x : /\ r \in FailedBy(x) <=> r.reason = x
                /\ r \in AskedAt(x) <=> r.depth = x /\ r.reason # "cot_format"
                /\ r \in SolvedAt(x) <=> r.depth = x /\ r.all
    BY DEF Firsts, Solved, FailedBy, AskedAt, SolvedAt
<1>5. d.first_move = HowMany(e, Firsts) /\ d.full_puzzle = HowMany(e, Solved)
    <2>1. Bit(r.first) = Bit(r \in Firsts) /\ Bit(r.all) = Bit(r \in Solved)
        BY <1>4 DEF Bit
    <2> HIDE DEF e
    <2> QED
        BY <1>2, <2>1 DEF Tallied, Increments
<1>6. \A x \in Puzzled!Reasons : d.failures[x] = HowMany(e, FailedBy(x))
    <2>1. \A x \in Puzzled!Reasons : Bit(r.reason = x) = Bit(r \in FailedBy(x))
        BY <1>4 DEF Bit
    <2> HIDE DEF e
    <2> QED
        BY <1>2, <2>1 DEF Tallied, Increments
<1>7. \A x \in Puzzled!Depths : /\ d.per_depth_total[x] = HowMany(e, AskedAt(x))
                                /\ d.per_depth_correct[x] = HowMany(e, SolvedAt(x))
    <2>1. \A x \in Puzzled!Depths :
             /\ Bit(r.depth = x /\ r.reason # "cot_format") = Bit(r \in AskedAt(x))
             /\ Bit(r.depth = x /\ r.all) = Bit(r \in SolvedAt(x))
        BY <1>4 DEF Bit
    <2> HIDE DEF e
    <2> QED
        BY <1>2, <2>1 DEF Tallied, Increments
<1>8. Len(e) = d.full_puzzle + (d.failures["cot_format"] + (d.failures["move_format"]
                  + (d.failures["illegal_move"] + d.failures["wrong_move"])))
    <2> DEFINE a == c.failures
               b == d.failures
               what == r.reason
    <2>1. what \in {"cot_format", "move_format", "illegal_move", "wrong_move", "none"}
        BY DEF PuzzleResult, Puzzled!Reasons
    <2>2. /\ a["cot_format"] \in Nat /\ a["move_format"] \in Nat /\ a["illegal_move"] \in Nat
          /\ a["wrong_move"] \in Nat /\ c.full_puzzle \in Nat
        BY DEF Tallied, Counters, Puzzled!Reasons
    <2>3. /\ b["cot_format"] = a["cot_format"] + Bit(what = "cot_format")
          /\ b["move_format"] = a["move_format"] + Bit(what = "move_format")
          /\ b["illegal_move"] = a["illegal_move"] + Bit(what = "illegal_move")
          /\ b["wrong_move"] = a["wrong_move"] + Bit(what = "wrong_move")
          /\ d.full_puzzle = c.full_puzzle + Bit(what = "none")
        <3>1. Bit(r.all) = Bit(what = "none")
            BY DEF Bit
        <3>2. \A x \in Puzzled!Reasons : b[x] = a[x] + Bit(what = x)
            BY DEF Increments
        <3>3. {"cot_format", "move_format", "illegal_move", "wrong_move"} \subseteq Puzzled!Reasons
            BY DEF Puzzled!Reasons
        <3> HIDE DEF a, b, what
        <3> QED
            BY <3>1, <3>2, <3>3 DEF Increments
    <2>4. Len(s) = c.full_puzzle + (a["cot_format"] + (a["move_format"]
                      + (a["illegal_move"] + a["wrong_move"])))
        BY DEF Tallied
    <2> DEFINE p1 == Bit(what = "cot_format")
               p2 == Bit(what = "move_format")
               p3 == Bit(what = "illegal_move")
               p4 == Bit(what = "wrong_move")
               p5 == Bit(what = "none")
    <2>5. /\ p1 \in Nat /\ p2 \in Nat /\ p3 \in Nat /\ p4 \in Nat /\ p5 \in Nat
          /\ p5 + (p1 + (p2 + (p3 + p4))) = 1
        <3> HIDE DEF what
        <3> QED
            BY <2>1 DEF Bit
    <2> HIDE DEF a, b, what, s, e, p1, p2, p3, p4, p5
    <2>6. Len(e) = d.full_puzzle + (b["cot_format"] + (b["move_format"]
                      + (b["illegal_move"] + b["wrong_move"])))
        <3>1. Len(e) = Len(s) + 1
            BY <1>3
        <3>2. /\ b["cot_format"] = a["cot_format"] + p1
              /\ b["move_format"] = a["move_format"] + p2
              /\ b["illegal_move"] = a["illegal_move"] + p3
              /\ b["wrong_move"] = a["wrong_move"] + p4
              /\ d.full_puzzle = c.full_puzzle + p5
            BY <2>3 DEF p1, p2, p3, p4, p5
        <3>3. (c.full_puzzle + p5) + ((a["cot_format"] + p1) + ((a["move_format"] + p2)
                  + ((a["illegal_move"] + p3) + (a["wrong_move"] + p4))))
                = (c.full_puzzle + (a["cot_format"] + (a["move_format"]
                      + (a["illegal_move"] + a["wrong_move"])))) + 1
            BY <2>2, <2>5, OneGrows
        <3> QED
            BY <2>4, <3>1, <3>2, <3>3
    <2> QED
        BY <2>6 DEF b
<1> HIDE DEF s
<1> QED
    BY <1>3, <1>5, <1>6, <1>7, <1>8 DEF Tallied, s

(* Before the first puzzle.                                                *)
LEMMA ZeroTallied == Tallied(Puzzled!Zero) /\ Len(Puzzled!Zero.per_puzzle_results) = 0
<1> DEFINE z == Puzzled!Zero
<1>1. z \in Counters
    BY DEF Puzzled!Zero, Counters
<1>2. /\ z.first_move = 0 /\ z.full_puzzle = 0 /\ z.per_puzzle_results = << >>
      /\ \A x \in Puzzled!Reasons : z.failures[x] = 0
      /\ \A x \in Puzzled!Depths : z.per_depth_total[x] = 0 /\ z.per_depth_correct[x] = 0
    BY DEF Puzzled!Zero
<1>3. \A kind : HowMany(<< >>, kind) = 0
    <2>1. \A kind : {i \in DOMAIN << >> : << >>[i] \in kind} = {}
        OBVIOUS
    <2> QED
        BY <2>1, FS_EmptySet DEF HowMany
<1>4. {"cot_format", "move_format", "illegal_move", "wrong_move"} \subseteq Puzzled!Reasons
    BY DEF Puzzled!Reasons
<1> HIDE DEF z
<1>5. Tallied(z)
    BY <1>1, <1>2, <1>3, <1>4 DEF Tallied
<1> QED
    BY <1>2, <1>5 DEF z

\* How many of the first n puzzles are not left out.
Counted(games, n) == Cardinality({i \in 1..n : ~ Puzzled!LeftOut(games[i])})

(* What a puzzle adds.                                                     *)
LEMMA AfterGameTallied ==
    ASSUME NEW c, Tallied(c), NEW g \in Games, NEW think \in BOOLEAN
    PROVE  /\ Tallied(AfterGame(c, g, think))
           /\ Len(AfterGame(c, g, think).per_puzzle_results)
                  = Len(c.per_puzzle_results) + Bit(~ Puzzled!LeftOut(g))
<1> DEFINE d == AfterGame(c, g, think)
<1>1. c \in Counters /\ Len(c.per_puzzle_results) \in Nat
    <2>1. c \in Counters /\ c.per_puzzle_results \in Seq(PuzzleResult)
        BY DEF Tallied, Counters
    <2> QED
        BY <2>1, LenProperties
<1>2. CASE Puzzled!LeftOut(g)
    <2>1. d = c
        BY <1>2 DEF AfterGame
    <2> HIDE DEF d
    <2> QED
        BY <1>1, <1>2, <2>1 DEF Bit, d
<1>3. CASE ~ Puzzled!LeftOut(g)
    <2>1. d \in Counters /\ \E r \in PuzzleResult : Increments(c, d, r) /\ (r.all <=> r.reason = "none")
        <3>1. CASE think /\ ~ g.closes
            <4>1. d = Puzzled!FailThinking(c, g)
                BY <1>3, <3>1 DEF AfterGame
            <4>2. /\ Puzzled!FailThinking(c, g) \in Counters
                  /\ \E r \in PuzzleResult : /\ Increments(c, Puzzled!FailThinking(c, g), r)
                                             /\ r.all <=> r.reason = "none"
                BY <1>1, <1>3, FailThinkingCounts
            <4> HIDE DEF d
            <4> QED
                BY <4>1, <4>2
        <3>2. CASE ~ (think /\ ~ g.closes)
            <4>1. d = Puzzled!Ask(c, g)
                BY <1>3, <3>2 DEF AfterGame
            <4>2. /\ Puzzled!Ask(c, g) \in Counters
                  /\ \E r \in PuzzleResult : /\ Increments(c, Puzzled!Ask(c, g), r)
                                             /\ r.all <=> r.reason = "none"
                BY <1>1, <1>3, AskCounts
            <4> HIDE DEF d
            <4> QED
                BY <4>1, <4>2
        <3> QED
            BY <3>1, <3>2
    <2> HIDE DEF d
    <2>2. PICK r \in PuzzleResult : Increments(c, d, r) /\ (r.all <=> r.reason = "none")
        BY <2>1
    <2>3. Tallied(d) /\ Len(d.per_puzzle_results) = Len(c.per_puzzle_results) + 1
        BY <2>1, <2>2, TallyKept
    <2> QED
        BY <1>3, <2>3 DEF Bit, d
<1> QED
    BY <1>2, <1>3

(* One puzzle more.                                                        *)
LEMMA CountedNext ==
    ASSUME NEW games, NEW n \in Nat
    PROVE  Counted(games, n + 1) = Counted(games, n) + Bit(~ Puzzled!LeftOut(games[n + 1]))
<1> DEFINE m == n + 1
           A == {i \in 1..n : ~ Puzzled!LeftOut(games[i])}
           B == {i \in 1..m : ~ Puzzled!LeftOut(games[i])}
<1>1. IsFiniteSet(A)
    <2>1. IsFiniteSet(1..n)
        BY FS_Interval
    <2> QED
        BY <2>1, FS_Subset
<1>2. m \in 1..m /\ m \notin 1..n /\ (\A i \in 1..n : i \in 1..m) /\ \A i \in 1..m : i \in 1..n \/ i = m
    OBVIOUS
<1> HIDE DEF m
<1>3. CASE Puzzled!LeftOut(games[m])
    <2>1. B = A
        BY <1>2, <1>3
    <2>2. Cardinality(A) \in Nat
        BY <1>1, FS_CardinalityType
    <2> HIDE DEF A, B
    <2>3. Cardinality(B) = Cardinality(A) + Bit(~ Puzzled!LeftOut(games[m]))
        BY <1>3, <2>1, <2>2 DEF Bit
    <2> QED
        BY <2>3 DEF Counted, A, B, m
<1>4. CASE ~ Puzzled!LeftOut(games[m])
    <2>1. B = A \cup {m} /\ m \notin A
        BY <1>2, <1>4
    <2> HIDE DEF A, B
    <2>2. Cardinality(B) = Cardinality(A) + 1
        BY <1>1, <2>1, FS_AddElement
    <2>3. Cardinality(B) = Cardinality(A) + Bit(~ Puzzled!LeftOut(games[m]))
        BY <1>4, <2>2 DEF Bit
    <2> QED
        BY <2>3 DEF Counted, A, B, m
<1> QED
    BY <1>3, <1>4

(* After any number of puzzles.                                            *)
LEMMA GamesTallied ==
    ASSUME NEW games, NEW n \in Nat, games \in [1..n -> Games], NEW think \in BOOLEAN
    PROVE  /\ Tallied(Puzzled!evaluate_multiturn_puzzle(games, think))
           /\ Len(Puzzled!evaluate_multiturn_puzzle(games, think).per_puzzle_results)
                  = Counted(games, n)
<1> DEFINE Values == {c \in Counters : Tallied(c)}
           zero == Puzzled!Zero
           F == [p \in Values \X (1..n) |-> AfterGame(p[1], games[p[2]], think)]
           G(g) == g = [T \in SUBSET (1..n) |->
                           IF T = {} THEN zero ELSE AfterGame(g[T \ {Max(T)}], games[Max(T)], think)]
           end == Puzzled!evaluate_multiturn_puzzle(games, think)
<1>1. end = (CHOOSE g : G(g))[1..n]
    <2>1. DOMAIN games = 1..n
        OBVIOUS
    <2> QED
        BY <2>1 DEF Puzzled!evaluate_multiturn_puzzle, AfterGame, Puzzled!FoldLeft,
                    Puzzled!MapThenFoldSet, Puzzled!Max, Max
<1>2. zero \in Values
    BY ZeroTallied DEF Tallied
<1>3. F \in [Values \X (1..n) -> Values]
    <2>1. ASSUME NEW c \in Values, NEW i \in 1..n PROVE AfterGame(c, games[i], think) \in Values
        <3>1. Tallied(AfterGame(c, games[i], think))
            BY AfterGameTallied
        <3> QED
            BY <3>1 DEF Tallied
    <2> HIDE DEF Values
    <2> QED
        BY <2>1
<1>4. \E g : G(g)
    <2> HIDE DEF zero
    <2>1. PICK g \in [SUBSET (1..n) -> Values] : FoldsTo(g, zero, F, n)
        <3> HIDE DEF Values, F
        <3> QED
            BY <1>2, <1>3, FoldExists
    <2>2. ASSUME NEW T \in SUBSET (1..n), T # {}
          PROVE  g[T] = AfterGame(g[T \ {Max(T)}], games[Max(T)], think)
        <3>1. Max(T) \in T
            BY <2>2, LastIsTaken
        <3>2. <<g[T \ {Max(T)}], Max(T)>> \in Values \X (1..n)
            <4>1. T \ {Max(T)} \in SUBSET (1..n) /\ Max(T) \in 1..n
                BY <3>1
            <4> HIDE DEF Values
            <4> QED
                BY <4>1
        <3>3. g[T] = F[<<g[T \ {Max(T)}], Max(T)>>]
            <4> HIDE DEF F
            <4> QED
                BY <2>1, <2>2 DEF FoldsTo
        <3> HIDE DEF Values
        <3> QED
            BY <3>2, <3>3
    <2>3. g[{}] = zero
        BY <2>1 DEF FoldsTo
    <2>4. G(g)
        <3>1. \A T \in SUBSET (1..n) :
                 g[T] = IF T = {} THEN zero ELSE AfterGame(g[T \ {Max(T)}], games[Max(T)], think)
            BY <2>2, <2>3
        <3>2. g = [T \in SUBSET (1..n) |-> g[T]]
            BY <2>1
        <3> QED
            BY <3>1, <3>2
    <2> HIDE DEF G
    <2> QED
        BY <2>4
<1>5. PICK g : G(g) /\ end = g[1..n]
    <2> HIDE DEF G, end
    <2> QED
        BY <1>1, <1>4
<1>6. g[{}] = zero /\ \A m \in 1..n : g[1..m] = AfterGame(g[1..(m - 1)], games[m], think)
    <2>1. \A T \in SUBSET (1..n) :
             g[T] = IF T = {} THEN zero ELSE AfterGame(g[T \ {Max(T)}], games[Max(T)], think)
        BY <1>5
    <2>2. ASSUME NEW m \in 1..n PROVE g[1..m] = AfterGame(g[1..(m - 1)], games[m], think)
        <3>1. 1..m \in SUBSET (1..n) /\ 1..m # {} /\ Max(1..m) = m /\ (1..m) \ {m} = 1..(m - 1)
            BY LastIsTaken
        <3> DEFINE T == 1..m
        <3>2. T \in SUBSET (1..n) /\ T # {} /\ Max(T) = m /\ T \ {m} = 1..(m - 1)
            BY <3>1
        <3> HIDE DEF T, zero
        <3>3. g[T] = AfterGame(g[1..(m - 1)], games[m], think)
            BY <2>1, <3>2
        <3> QED
            BY <3>3 DEF T
    <2> HIDE DEF zero
    <2> QED
        BY <2>1, <2>2
<1> HIDE DEF G
<1> DEFINE Upto(m) == Tallied(g[1..m]) /\ Len(g[1..m].per_puzzle_results) = Counted(games, m)
           Good == {m \in Nat : m <= n => Upto(m)}
<1>7. 0 \in Good
    <2>1. 1..0 = {} /\ Counted(games, 0) = 0
        <3>1. {i \in 1..0 : ~ Puzzled!LeftOut(games[i])} = {}
            OBVIOUS
        <3> QED
            BY <3>1, FS_EmptySet DEF Counted
    <2>2. Upto(0)
        BY <1>6, <2>1, ZeroTallied
    <2> HIDE DEF Upto
    <2> QED
        BY <2>2
<1>8. ASSUME NEW m \in Nat, m \in Good PROVE m + 1 \in Good
    <2> SUFFICES ASSUME m + 1 <= n PROVE Upto(m + 1)
        OBVIOUS
    <2>1. Upto(m)
        BY <1>8
    <2> DEFINE q == m + 1
               c == g[1..m]
    <2>2. q \in 1..n /\ q - 1 = m
        OBVIOUS
    <2>3. g[1..q] = AfterGame(c, games[q], think)
        BY <1>6, <2>2
    <2>4. games[q] \in Games /\ Tallied(c)
        BY <2>1, <2>2
    <2>5. Counted(games, q) = Counted(games, m) + Bit(~ Puzzled!LeftOut(games[q]))
        BY CountedNext
    <2>6. Len(c.per_puzzle_results) = Counted(games, m)
        BY <2>1
    <2> HIDE DEF c, q
    <2>7. /\ Tallied(AfterGame(c, games[q], think))
          /\ Len(AfterGame(c, games[q], think).per_puzzle_results)
                 = Len(c.per_puzzle_results) + Bit(~ Puzzled!LeftOut(games[q]))
        BY <2>4, AfterGameTallied
    <2> QED
        BY <2>3, <2>5, <2>6, <2>7 DEF q
<1>9. n \in Good
    <2>1. Nat \subseteq Good
        <3> HIDE DEF Good
        <3> QED
            BY <1>7, <1>8, NumberInduction
    <2> HIDE DEF Good
    <2> QED
        BY <2>1
<1> HIDE DEF Upto
<1>10. Upto(n)
    BY <1>9
<1> QED
    BY <1>5, <1>10 DEF Upto

(* The order in which four counts are added.                               *)
LEMMA FourAdded ==
    ASSUME NEW a \in Int, NEW b \in Int, NEW c \in Int, NEW d \in Int
    PROVE  ((a + b) + c) + d = d + (c + (b + a))
OBVIOUS

LEMMA SameCardinality == \A S : Puzzled!Cardinality(S) = Cardinality(S)
BY DEF Puzzled!Cardinality, Cardinality

(* The tallies make the breakdown and the metrics what they should be.     *)
LEMMA TalliesMatch ==
    ASSUME NEW c, Tallied(c), NEW games, NEW n \in Nat, DOMAIN games = 1..n,
           Len(c.per_puzzle_results) = Counted(games, n)
    PROVE  Puzzled!FailuresPartition(c, games) /\ Puzzled!CountersMatchResults(c)
<1> DEFINE s == c.per_puzzle_results
<1>1. s \in Seq(PuzzleResult) /\ c.failures \in [Puzzled!Reasons -> Nat]
    BY DEF Tallied, Counters
<1>2. \A i \in DOMAIN s : s[i] \in PuzzleResult
    BY <1>1
<1> DEFINE At(x) == {i \in DOMAIN s : s[i].reason = x}
           Asked(x) == {i \in DOMAIN s : s[i].depth = x /\ s[i].reason # "cot_format"}
           Right(x) == {i \in DOMAIN s : s[i].depth = x /\ s[i].all}
<1>3. \A x : /\ HowMany(s, FailedBy(x)) = Cardinality({i \in DOMAIN s : s[i].reason = x})
             /\ HowMany(s, AskedAt(x))
                    = Cardinality({i \in DOMAIN s : s[i].depth = x /\ s[i].reason # "cot_format"})
             /\ HowMany(s, SolvedAt(x)) = Cardinality({i \in DOMAIN s : s[i].depth = x /\ s[i].all})
    <2> SUFFICES ASSUME NEW x
                 PROVE  /\ {i \in DOMAIN s : s[i] \in FailedBy(x)} = At(x)
                        /\ {i \in DOMAIN s : s[i] \in AskedAt(x)} = Asked(x)
                        /\ {i \in DOMAIN s : s[i] \in SolvedAt(x)} = Right(x)
        BY DEF HowMany
    <2> HIDE DEF s
    <2> QED
        BY <1>2 DEF FailedBy, AskedAt, SolvedAt
<1>4. /\ HowMany(s, Firsts) = Cardinality({i \in DOMAIN s : s[i].first})
      /\ HowMany(s, Solved) = Cardinality({i \in DOMAIN s : s[i].all})
    <2>1. /\ {i \in DOMAIN s : s[i] \in Firsts} = {i \in DOMAIN s : s[i].first}
          /\ {i \in DOMAIN s : s[i] \in Solved} = {i \in DOMAIN s : s[i].all}
        <3> HIDE DEF s
        <3> QED
            BY <1>2 DEF Firsts, Solved
    <2> QED
        BY <2>1 DEF HowMany
<1>5. Puzzled!CountersMatchResults(c)
    BY <1>3, <1>4, SameCardinality DEF Puzzled!CountersMatchResults, Puzzled!Results, Tallied
<1>6. Puzzled!MapThenSumSet(LAMBDA x : c.failures[x], Puzzled!Reasons)
          = c.failures["cot_format"] + (c.failures["move_format"]
                + (c.failures["illegal_move"] + c.failures["wrong_move"]))
    <2> DEFINE f == c.failures
    <2>1. Puzzled!MapThenSumSet(LAMBDA x : f[x], Puzzled!Reasons) = SumIn(f, Puzzled!Reasons)
        BY DEF SumIn, Puzzled!MapThenSumSet, MapThenSumSet, Puzzled!MapThenFoldSet, MapThenFoldSet
    <2>2. /\ f["cot_format"] \in Int /\ f["move_format"] \in Int
          /\ f["illegal_move"] \in Int /\ f["wrong_move"] \in Int
        BY <1>1 DEF Puzzled!Reasons
    <2> HIDE DEF f
    <2>3. Summable(f, {}) /\ SumIn(f, {}) = 0
        <3>1. Summable(f, {})
            BY FS_EmptySet DEF Summable
        <3> QED
            BY <3>1, SumTake
    <2>4. SumIn(f, {"wrong_move"}) = f["wrong_move"] /\ Summable(f, {"wrong_move"})
        <3>1. {} \cup {"wrong_move"} = {"wrong_move"} /\ "wrong_move" \notin {}
            OBVIOUS
        <3>2. /\ SumIn(f, {} \cup {"wrong_move"}) = SumIn(f, {}) + f["wrong_move"]
              /\ Summable(f, {} \cup {"wrong_move"})
            BY <2>2, <2>3, <3>1, SumAdd
        <3> QED
            BY <2>2, <2>3, <3>1, <3>2
    <2>5. ASSUME NEW S, Summable(f, S), NEW x, x \notin S, f[x] \in Int
          PROVE  SumIn(f, S \cup {x}) = SumIn(f, S) + f[x] /\ Summable(f, S \cup {x})
        BY <2>5, SumAdd
    <2> DEFINE S2 == {"wrong_move"} \cup {"illegal_move"}
               S3 == S2 \cup {"move_format"}
               S4 == S3 \cup {"cot_format"}
    <2>6. /\ "illegal_move" \notin {"wrong_move"} /\ "move_format" \notin S2
          /\ "cot_format" \notin S3 /\ S4 = Puzzled!Reasons
        BY DEF Puzzled!Reasons
    <2>7. SumIn(f, S2) = f["wrong_move"] + f["illegal_move"] /\ Summable(f, S2)
        BY <2>2, <2>4, <2>5, <2>6
    <2> HIDE DEF S2
    <2>8. /\ SumIn(f, S3) = (f["wrong_move"] + f["illegal_move"]) + f["move_format"]
          /\ Summable(f, S3)
        BY <2>2, <2>5, <2>6, <2>7
    <2> HIDE DEF S3
    <2>9. SumIn(f, S4)
              = ((f["wrong_move"] + f["illegal_move"]) + f["move_format"]) + f["cot_format"]
        BY <2>2, <2>5, <2>6, <2>8
    <2> HIDE DEF S4
    <2>10. SumIn(f, S4)
              = f["cot_format"] + (f["move_format"] + (f["illegal_move"] + f["wrong_move"]))
        BY <2>2, <2>9, FourAdded
    <2> QED
        BY <2>1, <2>6, <2>10 DEF f
<1>7. Puzzled!FailuresPartition(c, games)
    <2>1. Len(s) = Cardinality({i \in DOMAIN games : ~ Puzzled!LeftOut(games[i])})
        BY DEF Counted
    <2>2. \A x \in Puzzled!Reasons : c.failures[x] = Puzzled!Results(c, LAMBDA y : y.reason = x)
        BY <1>3, SameCardinality DEF Puzzled!Results, Tallied
    <2>3. Len(s) = c.full_puzzle
              + Puzzled!MapThenSumSet(LAMBDA x : c.failures[x], Puzzled!Reasons)
        BY <1>6 DEF Tallied
    <2> QED
        BY <2>1, <2>2, <2>3, SameCardinality DEF Puzzled!FailuresPartition
<1> QED
    BY <1>5, <1>7

-----------------------------------------------------------------------------
Positions == [context : Seq(Nat), board : Seq(Nat)]

\* The sequence x has the elements of S, in ascending order.
Ascends(x, S) ==
    x \in Seq(Nat) /\ Puzzled!ToSet(x) = S /\ \A m, n \in DOMAIN x : m < n => x[m] < x[n]

\* After i turns of the model the board has all moves, and the context those
\* that could be converted.
InStep(g, s, i) ==
    /\ s \in Positions
    /\ Len(s.board) = 2 * i + 1 /\ \A n \in DOMAIN s.board : s.board[n] = n - 1
    /\ Ascends(s.context, (1..(2 * i)) \ g.promotes)

(* One more element at the end of a sequence.                              *)
LEMMA OneMore ==
    ASSUME NEW x \in Seq(Nat), NEW v \in Nat
    PROVE  /\ x \o <<v>> \in Seq(Nat) /\ DOMAIN x = 1..Len(x)
           /\ Len(x \o <<v>>) = Len(x) + 1 /\ DOMAIN (x \o <<v>>) = 1..(Len(x) + 1)
           /\ \A n \in 1..Len(x) : (x \o <<v>>)[n] = x[n]
           /\ (x \o <<v>>)[Len(x) + 1] = v
<1> DEFINE y == <<v>>
           z == x \o y
           l == Len(x)
<1>1. y \in Seq(Nat) /\ Len(y) = 1 /\ y[1] = v
    OBVIOUS
<1>2. l \in Nat /\ DOMAIN x = 1..l
    OBVIOUS
<1> HIDE DEF y, l
<1>3. /\ z \in Seq(Nat) /\ Len(z) = l + 1
      /\ \A n \in 1..(l + 1) : z[n] = IF n <= l THEN x[n] ELSE y[n - l]
    <2>1. /\ z \in Seq(Nat) /\ Len(z) = Len(x) + Len(y)
          /\ \A n \in 1..(Len(x) + Len(y)) : z[n] = IF n <= Len(x) THEN x[n] ELSE y[n - Len(x)]
        BY <1>1, ConcatProperties
    <2> HIDE DEF z
    <2> QED
        BY <1>1, <2>1 DEF l
<1> HIDE DEF z
<1>4. DOMAIN z = 1..(l + 1)
    BY <1>2, <1>3, LenProperties
<1>5. (\A n \in 1..l : z[n] = x[n]) /\ z[l + 1] = v
    <2>1. l + 1 \in 1..(l + 1) /\ ~ l + 1 <= l /\ (l + 1) - l = 1
        BY <1>2
    <2>2. \A n \in 1..l : n \in 1..(l + 1) /\ n <= l
        BY <1>2
    <2> QED
        BY <1>1, <1>3, <2>1, <2>2
<1> QED
    BY <1>2, <1>3, <1>4, <1>5 DEF z, y, l

(* A larger element at the end keeps the order.                            *)
LEMMA AscendsOn ==
    ASSUME NEW x, NEW S, Ascends(x, S), NEW v \in Nat, \A e \in S : e < v
    PROVE  Ascends(x \o <<v>>, S \cup {v})
<1> DEFINE z == x \o <<v>>
           l == Len(x)
<1>1. x \in Seq(Nat) /\ \A m, n \in DOMAIN x : m < n => x[m] < x[n]
    BY DEF Ascends
<1>2. l \in Nat /\ S = {x[n] : n \in DOMAIN x}
    BY <1>1 DEF Ascends, Puzzled!ToSet
<1>3. /\ z \in Seq(Nat) /\ DOMAIN x = 1..l /\ DOMAIN z = 1..(l + 1)
      /\ (\A n \in 1..l : z[n] = x[n]) /\ z[l + 1] = v
    BY <1>1, OneMore
<1> HIDE DEF z, l
<1>4. 1..(l + 1) = (1..l) \cup {l + 1}
    BY <1>2
<1>5. {z[n] : n \in DOMAIN z} = S \cup {v}
    BY <1>2, <1>3, <1>4
<1>6. ASSUME NEW m \in DOMAIN z, NEW n \in DOMAIN z, m < n PROVE z[m] < z[n]
    <2>1. m \in 1..l /\ (n \in 1..l \/ n = l + 1)
        BY <1>2, <1>3, <1>6
    <2>2. x[m] \in S
        BY <1>2, <1>3, <2>1
    <2>3. CASE n \in 1..l
        <3>1. x[m] < x[n]
            BY <1>1, <1>3, <1>6, <2>1, <2>3
        <3> QED
            BY <1>3, <2>1, <2>3, <3>1
    <2>4. CASE n = l + 1
        BY <1>3, <2>1, <2>2, <2>4
    <2> QED
        BY <2>1, <2>3, <2>4
<1>7. Ascends(z, S \cup {v})
    BY <1>3, <1>5, <1>6 DEF Ascends, Puzzled!ToSet
<1> QED
    BY <1>7 DEF z

(* A turn takes a position to a position, and with a reply stays in step.  *)
LEMMA TurnInStep ==
    ASSUME NEW g \in Games, NEW s \in Positions, NEW i \in Nat
    PROVE  /\ Puzzled!PlayTurn(g, s, i) \in Positions
           /\ Puzzled!HasReply(g, i) /\ InStep(g, s, i)
                 => InStep(g, Puzzled!PlayTurn(g, s, i), i + 1)
<1> DEFINE a == 2 * i + 1
           b == 2 * i + 2
           x == s.context \o <<a>>
           y == s.board \o <<a>>
           lan == Puzzled!uci_to_lan(g, b)
           t == Puzzled!PlayTurn(g, s, i)
<1>1. a \in Nat /\ b \in Nat /\ b = a + 1
    OBVIOUS
<1>2. t = IF Puzzled!HasReply(g, i) THEN [context |-> x \o lan, board |-> y \o <<b>>]
          ELSE [context |-> x, board |-> y]
    BY DEF Puzzled!PlayTurn
<1>3. s.context \in Seq(Nat) /\ s.board \in Seq(Nat)
    BY DEF Positions
<1>4. lan = IF b \in g.promotes THEN << >> ELSE <<b>>
    BY DEF Puzzled!uci_to_lan
<1>5. a \notin g.promotes
    <2>1. g.promotes \subseteq {2 * n : n \in 1..(MaxPuzzleMoves - 1)}
        BY DEF Games
    <2>2. MaxPuzzleMoves \in Nat
        BY PuzzleAssumption DEF PuzzleAssumption
    <2>3. \A n \in 1..(MaxPuzzleMoves - 1) : a # 2 * n
        BY <2>2
    <2> HIDE DEF a
    <2> QED
        BY <2>1, <2>3
<1> HIDE DEF a, b, t, lan
<1>6. x \in Seq(Nat) /\ y \in Seq(Nat)
    BY <1>1, <1>3, OneMore
<1> HIDE DEF x
<1>7. x \o lan \in Seq(Nat) /\ (b \in g.promotes => x \o lan = x)
    <2>1. CASE b \in g.promotes
        BY <1>4, <1>6, <2>1, ConcatEmptySeq
    <2>2. CASE b \notin g.promotes
        BY <1>1, <1>4, <1>6, <2>2, OneMore
    <2> QED
        BY <2>1, <2>2
<1>8. t \in Positions
    <2>1. y \o <<b>> \in Seq(Nat)
        BY <1>1, <1>6, OneMore
    <2> HIDE DEF y
    <2> QED
        BY <1>2, <1>6, <1>7, <2>1 DEF Positions
<1>9. ASSUME Puzzled!HasReply(g, i), InStep(g, s, i) PROVE InStep(g, t, i + 1)
    <2> DEFINE w == s.board
               z == y \o <<b>>
               P == g.promotes
               S == (1..(2 * i)) \ P
    <2>1. t.context = x \o lan /\ t.board = z
        BY <1>2, <1>9
    <2>2. Len(w) = a /\ \A n \in DOMAIN w : w[n] = n - 1
        BY <1>9 DEF InStep, a
    <2>3. Ascends(s.context, S)
        BY <1>9 DEF InStep
    <2>4. /\ DOMAIN w = 1..a /\ Len(y) = a + 1
          /\ (\A n \in 1..a : y[n] = w[n]) /\ y[a + 1] = a
        <3> HIDE DEF w, y
        <3> QED
            BY <1>1, <1>3, <2>2, OneMore DEF w, y
    <2>5. /\ Len(z) = a + 2 /\ DOMAIN z = 1..(a + 2)
          /\ (\A n \in 1..(a + 1) : z[n] = y[n]) /\ z[a + 2] = b
        <3>1. (a + 1) + 1 = a + 2
            BY <1>1
        <3> HIDE DEF y
        <3>2. /\ Len(z) = (a + 1) + 1 /\ DOMAIN z = 1..((a + 1) + 1)
              /\ (\A n \in 1..(a + 1) : z[n] = y[n]) /\ z[(a + 1) + 1] = b
            BY <1>1, <1>6, <2>4, OneMore
        <3> HIDE DEF z
        <3> QED
            BY <3>1, <3>2
    <2> HIDE DEF y, z, w
    <2>6. \A n \in DOMAIN z : z[n] = n - 1
        <3>1. \A n \in 1..(a + 2) : n \in 1..a \/ n = a + 1 \/ n = a + 2
            BY <1>1
        <3>2. /\ \A n \in 1..a : n \in 1..(a + 1)
              /\ a + 1 \in 1..(a + 1) /\ (a + 1) - 1 = a /\ (a + 2) - 1 = b
            BY <1>1
        <3> QED
            BY <2>2, <2>4, <2>5, <3>1, <3>2
    <2>7. Ascends(x, S \cup {a})
        <3>1. \A e \in S : e < a
            BY DEF a
        <3> HIDE DEF S
        <3> QED
            BY <1>1, <2>3, <3>1, AscendsOn DEF x
    <2>8. Ascends(x \o lan, (1..b) \ P)
        <3>1. 1..b = (1..(2 * i)) \cup {a, b}
            BY DEF a, b
        <3>2. \A e \in S \cup {a} : e < b
            BY DEF a, b
        <3>3. CASE b \in P
            <4>1. (1..b) \ P = S \cup {a}
                BY <1>5, <3>1, <3>3
            <4> QED
                BY <1>7, <2>7, <3>3, <4>1
        <3>4. CASE b \notin P
            <4>1. (1..b) \ P = (S \cup {a}) \cup {b}
                BY <1>5, <3>1, <3>4
            <4> HIDE DEF S
            <4>2. Ascends(x \o <<b>>, (S \cup {a}) \cup {b})
                BY <1>1, <2>7, <3>2, AscendsOn
            <4> QED
                BY <1>4, <3>4, <4>1, <4>2
        <3> QED
            BY <3>3, <3>4
    <2>9. a + 2 = 2 * (i + 1) + 1 /\ b = 2 * (i + 1)
        BY DEF a, b
    <2> QED
        BY <1>8, <2>1, <2>5, <2>6, <2>8, <2>9 DEF InStep
<1> QED
    BY <1>8, <1>9 DEF t

(* At each turn of the model its context follows its board.                *)
LEMMA ContextsFollow ==
    ASSUME NEW g \in Games
    PROVE  Puzzled!ContextFollowsBoard(g)
<1> SUFFICES ASSUME NEW n \in 0..(Puzzled!num_model_moves(g) - 1)
             PROVE  InStep(g, Puzzled!Turn(g, n), n)
    BY DEF Puzzled!ContextFollowsBoard, InStep, Ascends
<1>1. n \in Nat /\ \A i \in 1..n : i - 1 \in Nat /\ Puzzled!HasReply(g, i - 1)
    <2> DEFINE m == Puzzled!num_model_moves(g)
               e == g.moves
    <2>1. m \in Nat /\ e \in Nat /\ m <= e \div 2
        BY GameOK
    <2> HIDE DEF m
    <2>2. n \in Nat /\ n <= m - 1
        BY <2>1 DEF m
    <2> HIDE DEF e
    <2>3. e \div 2 - 1 <= (e - 1) \div 2
        BY <2>1
    <2>4. \A i \in 1..n : i - 1 \in Nat /\ i - 1 < (e - 1) \div 2
        BY <2>1, <2>2, <2>3
    <2> QED
        BY <2>2, <2>4 DEF Puzzled!HasReply, e
<1> DEFINE start == Puzzled!Start
           F == [p \in Positions \X (1..n) |-> Puzzled!PlayTurn(g, p[1], p[2] - 1)]
           js == [j \in 1..n |-> j]
           G(h) == h = [T \in SUBSET (1..n) |->
                           IF T = {} THEN start
                           ELSE Puzzled!PlayTurn(g, h[T \ {Max(T)}], js[Max(T)] - 1)]
           end == Puzzled!Turn(g, n)
<1>2. end = (CHOOSE h : G(h))[1..n]
    <2>1. DOMAIN js = 1..n
        OBVIOUS
    <2> QED
        BY <2>1 DEF Puzzled!Turn, Puzzled!FoldLeft, Puzzled!MapThenFoldSet, Puzzled!Max, Max
<1>3. start \in Positions /\ InStep(g, start, 0)
    <2>1. start \in Positions /\ Len(start.board) = 1 /\ \A m \in DOMAIN start.board : start.board[m] = m - 1
        BY DEF Puzzled!Start, Positions
    <2>2. Ascends(start.context, {})
        BY DEF Puzzled!Start, Ascends, Puzzled!ToSet
    <2>3. (1..(2 * 0)) \ g.promotes = {} /\ 2 * 0 + 1 = 1
        OBVIOUS
    <2> QED
        BY <2>1, <2>2, <2>3 DEF InStep
<1>4. F \in [Positions \X (1..n) -> Positions]
    <2>1. \A s \in Positions, i \in 1..n : Puzzled!PlayTurn(g, s, i - 1) \in Positions
        BY <1>1, TurnInStep
    <2> QED
        BY <2>1
<1>5. \E h : G(h)
    <2> HIDE DEF start
    <2>1. PICK h \in [SUBSET (1..n) -> Positions] : FoldsTo(h, start, F, n)
        <3> HIDE DEF F
        <3> QED
            BY <1>1, <1>3, <1>4, FoldExists
    <2>2. ASSUME NEW T \in SUBSET (1..n), T # {}
          PROVE  h[T] = Puzzled!PlayTurn(g, h[T \ {Max(T)}], js[Max(T)] - 1)
        <3>1. Max(T) \in T
            BY <1>1, <2>2, LastIsTaken
        <3>2. <<h[T \ {Max(T)}], Max(T)>> \in Positions \X (1..n) /\ js[Max(T)] = Max(T)
            <4>1. T \ {Max(T)} \in SUBSET (1..n) /\ Max(T) \in 1..n
                BY <3>1
            <4> QED
                BY <4>1
        <3>3. h[T] = F[<<h[T \ {Max(T)}], Max(T)>>]
            <4> HIDE DEF F
            <4> QED
                BY <2>1, <2>2 DEF FoldsTo
        <3> HIDE DEF js
        <3> QED
            BY <3>2, <3>3
    <2>3. h[{}] = start
        BY <2>1 DEF FoldsTo
    <2>4. G(h)
        <3>1. \A T \in SUBSET (1..n) :
                 h[T] = IF T = {} THEN start
                        ELSE Puzzled!PlayTurn(g, h[T \ {Max(T)}], js[Max(T)] - 1)
            BY <2>2, <2>3
        <3>2. h = [T \in SUBSET (1..n) |-> h[T]]
            BY <2>1
        <3> HIDE DEF js
        <3> QED
            BY <3>1, <3>2
    <2> HIDE DEF G
    <2> QED
        BY <2>4
<1>6. PICK h : G(h) /\ end = h[1..n]
    <2> HIDE DEF G, end
    <2> QED
        BY <1>2, <1>5
<1>7. h[{}] = start /\ \A i \in 1..n : h[1..i] = Puzzled!PlayTurn(g, h[1..(i - 1)], i - 1)
    <2>1. \A T \in SUBSET (1..n) :
             h[T] = IF T = {} THEN start
                    ELSE Puzzled!PlayTurn(g, h[T \ {Max(T)}], js[Max(T)] - 1)
        <3> HIDE DEF js
        <3> QED
            BY <1>6
    <2>2. ASSUME NEW i \in 1..n PROVE h[1..i] = Puzzled!PlayTurn(g, h[1..(i - 1)], i - 1)
        <3> DEFINE T == 1..i
        <3>1. T \in SUBSET (1..n) /\ T # {} /\ Max(T) = i /\ T \ {i} = 1..(i - 1)
            BY <1>1, LastIsTaken
        <3>2. js[i] = i
            OBVIOUS
        <3> HIDE DEF T, start, js
        <3>3. h[T] = Puzzled!PlayTurn(g, h[1..(i - 1)], js[i] - 1)
            BY <2>1, <3>1
        <3> QED
            BY <3>2, <3>3 DEF T
    <2> HIDE DEF start, js
    <2> QED
        BY <2>1, <2>2
<1> HIDE DEF G
<1> DEFINE Good == {i \in Nat : i <= n => InStep(g, h[1..i], i)}
<1>8. 0 \in Good
    <2>1. 1..0 = {}
        OBVIOUS
    <2> QED
        BY <1>3, <1>7, <2>1
<1>9. ASSUME NEW m \in Nat, m \in Good PROVE m + 1 \in Good
    <2> SUFFICES ASSUME m + 1 <= n PROVE InStep(g, h[1..(m + 1)], m + 1)
        OBVIOUS
    <2> DEFINE q == m + 1
               s == h[1..m]
    <2>1. q \in 1..n /\ q - 1 = m
        BY <1>1
    <2>2. InStep(g, s, m)
        BY <1>1, <1>9
    <2>3. h[1..q] = Puzzled!PlayTurn(g, s, m)
        BY <1>7, <2>1
    <2>4. Puzzled!HasReply(g, m)
        BY <1>1, <2>1
    <2> HIDE DEF s, q
    <2>5. s \in Positions
        BY <2>2 DEF InStep
    <2>6. InStep(g, Puzzled!PlayTurn(g, s, m), m + 1)
        BY <2>2, <2>4, <2>5, TurnInStep
    <2> QED
        BY <2>3, <2>6 DEF q
<1>10. n \in Good
    <2>1. Nat \subseteq Good
        <3> HIDE DEF Good
        <3> QED
            BY <1>8, <1>9, NumberInduction
    <2> HIDE DEF Good
    <2> QED
        BY <1>1, <2>1
<1>11. InStep(g, h[1..n], n)
    BY <1>1, <1>10
<1> QED
    BY <1>6, <1>11

(* The evaluation under way, if there is one, is of a number of games.     *)
PlayedOut == [use_thinking : BOOLEAN, games : BoundedSeq(Games, MaxPuzzles)]

EvaluationInv == task = "puzzles" => input \in PlayedOut

(* The evaluation under way is of a number of games in every state.        *)
LEMMA EvaluationInvariant == AlgorithmSpec => []EvaluationInv
<1>1. AlgorithmInit => EvaluationInv
    <2>1. Inputs["puzzles"] = PlayedOut
        BY DEF Inputs, PlayedOut
    <2> QED
        BY <2>1 DEF AlgorithmInit, EvaluationInv
<1>2. EvaluationInv /\ [AlgorithmNext]_algorithmVars => EvaluationInv'
    <2> SUFFICES ASSUME EvaluationInv, [AlgorithmNext]_algorithmVars PROVE EvaluationInv'
        OBVIOUS
    <2>1. CASE Expand \/ Balance \/ UNCHANGED algorithmVars
        BY <2>1 DEF Expand, Balance, algorithmVars, EvaluationInv, PlayedOut
    <2>2. CASE Compute
        BY <2>2 DEF Compute, Answer, EvaluationInv, PlayedOut
    <2>3. CASE Annotate \/ Generate \/ Infer
        <3>1. task \in {"finalize", "batch", "evaluate"} /\ task' = task
            BY <2>3 DEF Annotate, Generate, Infer, Answer
        <3> QED
            BY <3>1 DEF EvaluationInv
    <2> QED
        BY <2>1, <2>2, <2>3 DEF AlgorithmNext
<1> QED
    BY <1>1, <1>2, PTL DEF AlgorithmSpec

LEMMA GamesInRow ==
    ASSUME NEW games \in BoundedSeq(Games, MaxPuzzles)
    PROVE  \E n \in Nat : games \in [1..n -> Games] /\ DOMAIN games = 1..n
<1>1. MaxPuzzles \in Nat
    BY PuzzleAssumption DEF PuzzleAssumption
<1> QED
    BY <1>1 DEF BoundedSeq, SeqOf

(* However many puzzles are played, of whatever length, and wherever the   *)
(* model fails: every puzzle that is counted is a result, solved or a      *)
(* failure for one reason, and the metrics are those of the results.       *)
THEOREM PuzzlesAlwaysCounted == AlgorithmSpec => []PuzzlesCounted
<1>1. EvaluationInv => PuzzlesCounted
    <2> SUFFICES ASSUME EvaluationInv, task = "puzzles"
                 PROVE  LET c == Puzzled!evaluate_multiturn_puzzle(input.games, input.use_thinking)
                        IN  /\ Puzzled!FailuresPartition(c, input.games)
                            /\ Puzzled!CountersMatchResults(c)
        BY DEF PuzzlesCounted, Done
    <2> DEFINE games == input.games
               think == input.use_thinking
               c == Puzzled!evaluate_multiturn_puzzle(games, think)
    <2>1. think \in BOOLEAN /\ games \in BoundedSeq(Games, MaxPuzzles)
        BY DEF EvaluationInv, PlayedOut
    <2> HIDE DEF games, think
    <2>2. PICK n \in Nat : games \in [1..n -> Games]
        BY <2>1, GamesInRow
    <2>3. Tallied(c) /\ Len(c.per_puzzle_results) = Counted(games, n) /\ DOMAIN games = 1..n
        BY <2>1, <2>2, GamesTallied
    <2> HIDE DEF c
    <2>4. Puzzled!FailuresPartition(c, games) /\ Puzzled!CountersMatchResults(c)
        BY <2>3, TalliesMatch
    <2> QED
        BY <2>4 DEF c, games, think
<1> QED
    BY <1>1, EvaluationInvariant, PTL

(* Whatever replies promote, and whatever the length of a puzzle: when the *)
(* model is asked, the board has every move so far, and the context all    *)
(* but the promoting replies, in their order.                              *)
THEOREM ContextsAlwaysFollowBoards == AlgorithmSpec => []ContextsFollowBoards
<1>1. EvaluationInv => ContextsFollowBoards
    <2> SUFFICES ASSUME EvaluationInv, task = "puzzles", NEW i \in DOMAIN input.games
                 PROVE  Puzzled!ContextFollowsBoard(input.games[i])
        BY DEF ContextsFollowBoards, Done
    <2>1. input.games \in BoundedSeq(Games, MaxPuzzles)
        BY DEF EvaluationInv, PlayedOut
    <2>2. input.games[i] \in Games
        <3> DEFINE games == input.games
        <3> HIDE DEF games
        <3>1. \A j \in DOMAIN games : games[j] \in Games
            BY <2>1, GamesInRow DEF games
        <3> QED
            BY <3>1 DEF games
    <2> QED
        BY <2>2, ContextsFollow
<1> QED
    BY <1>1, EvaluationInvariant, PTL
=============================================================================
