---------------------------- MODULE ServerProofs ----------------------------
(***************************************************************************)
(* Proofs about the whole service, for any number of connections, requests *)
(* and any lines: the types, that nothing is logged that no user asked     *)
(* for, and that an OK is true, the two last for messages of one part.     *)
(***************************************************************************)
EXTENDS Server, FiniteSetTheorems, SequenceTheorems, WellFoundedInduction, TLAPS

-----------------------------------------------------------------------------
(***************************************************************************)
(* Texts.                                                                  *)
(***************************************************************************)

TokenSet == Seq(Pieces)
TextSet == Seq(TokenSet)

\* Induction on natural numbers, for the numbers in a set.
LEMMA Induction ==
  ASSUME NEW S, 0 \in S, \A n \in Nat : n \in S => n + 1 \in S
  PROVE  Nat \subseteq S
<1> SUFFICES ASSUME Nat \ S # {} PROVE FALSE
  OBVIOUS
<1> DEFINE R == {ss \in Nat \X Nat : ss[1] < ss[2]}
           T == Nat \ S
<1>1. IsWellFoundedOn(R, Nat)
  BY NatLessThanWellFounded DEF OpToRel
<1>2. \A x, y \in Nat : y < x => <<y, x>> \in R
  OBVIOUS
<1> HIDE DEF R
<1>3. PICK x \in T : \A y \in T : <<y, x>> \notin R
  BY <1>1, WFMin
<1>4. x # 0 /\ x - 1 \in Nat /\ x - 1 < x
  BY <1>3
<1>5. x - 1 \in S
  BY <1>2, <1>3, <1>4
<1>6. x - 1 + 1 = x
  BY <1>3
<1> QED
  BY <1>3, <1>4, <1>5, <1>6

\* The recursion of GlueAll has a solution.
LEMMA GlueAllDefined ==
  ASSUME NEW lines, NEW N \in Nat, DOMAIN lines = 1..N, Len(lines) = N
  PROVE  \E f : /\ f = [n \in 1..N |->
                          IF n = 1 THEN lines[1] ELSE Glue(f[n - 1], lines[n])]
                /\ GlueAll(lines) = f[N]
<1> DEFINE Solves(f, m) ==
      f = [n \in 1..m |-> IF n = 1 THEN lines[1] ELSE Glue(f[n - 1], lines[n])]
<1>1. \E f : Solves(f, N)
  <2> DEFINE S == {m \in Nat : \E f : Solves(f, m)}
  <2>1. 0 \in S
    <3>1. Solves(<<>>, 0)
      OBVIOUS
    <3> QED
      BY <3>1
  <2>2. ASSUME NEW m \in Nat, m \in S PROVE m + 1 \in S
    <3>1. PICK f : Solves(f, m)
      BY <2>2
    <3> DEFINE g ==
          [n \in 1..(m + 1) |->
             IF n = 1 THEN lines[1] ELSE Glue(f[n - 1], lines[n])]
    <3>2. \A n \in 1..m : g[n] = f[n]
      BY <3>1
    <3>3. Solves(g, m + 1)
      <4> SUFFICES ASSUME NEW n \in 1..(m + 1)
                   PROVE  g[n] = IF n = 1 THEN lines[1]
                                 ELSE Glue(g[n - 1], lines[n])
        BY Zenon
      <4>1. n # 1 => n - 1 \in 1..m
        OBVIOUS
      <4>2. n # 1 => g[n - 1] = f[n - 1]
        BY <4>1, <3>2
      <4>3. g[n] = IF n = 1 THEN lines[1] ELSE Glue(f[n - 1], lines[n])
        OBVIOUS
      <4> HIDE DEF g
      <4> QED
        BY <4>2, <4>3
    <3> HIDE DEF g, Solves
    <3> QED
      BY <3>3
  <2> HIDE DEF S
  <2>3. Nat \subseteq S
    BY <2>1, <2>2, Induction
  <2> QED
    BY <2>3 DEF S
<1> DEFINE f == CHOOSE f : Solves(f, N)
<1>2. Solves(f, N)
  BY <1>1
<1>3. GlueAll(lines) = f[N]
  BY Zenon DEF GlueAll
<1> HIDE DEF f
<1> QED
  BY <1>2, <1>3

\* A sequence whose last element is replaced by another one and then others.
LEMMA Joined ==
  ASSUME NEW S, NEW a \in Seq(S), a # <<>>, NEW m \in S, NEW t \in Seq(S)
  PROVE  /\ Front(a) \o <<m>> \o t \in Seq(S)
         /\ Len(Front(a) \o <<m>> \o t) = Len(a) + Len(t)
         /\ Len(a) >= 2 => (Front(a) \o <<m>> \o t)[1] = a[1]
<1> DEFINE L == Len(a)
           f == Front(a)
           u == <<m>>
<1>1. L \in Nat \ {0} /\ \A i \in 1..L : a[i] \in S
  BY EmptySeq
<1>2. f \in Seq(S) /\ Len(f) = L - 1 /\ (L >= 2 => f[1] = a[1])
  <2>1. \A i \in 1..(L - 1) : a[i] \in S
    BY <1>1
  <2> HIDE DEF L
  <2>2. /\ SubSeq(a, 1, L - 1) \in Seq(S)
        /\ Len(SubSeq(a, 1, L - 1)) = IF 1 <= L - 1 THEN L - 1 - 1 + 1 ELSE 0
        /\ \A i \in 1..(L - 1 - 1 + 1) : SubSeq(a, 1, L - 1)[i] = a[1 + i - 1]
    BY <1>1, <2>1, SubSeqProperties
  <2>3. f = SubSeq(a, 1, L - 1)
    BY DEF Front, L
  <2> HIDE DEF f
  <2>4. L >= 2 => f[1] = a[1 + 1 - 1]
    BY <1>1, <2>2, <2>3
  <2> QED
    BY <1>1, <2>2, <2>3, <2>4
<1>3. u \in Seq(S) /\ Len(u) = 1
  OBVIOUS
<1>4. Len(t) \in Nat
  OBVIOUS
<1> HIDE DEF L, f, u
<1>5. f \o u \in Seq(S) /\ Len(f \o u) = L /\ (L >= 2 => (f \o u)[1] = a[1])
  <2>1. /\ f \o u \in Seq(S)
        /\ Len(f \o u) = Len(f) + Len(u)
        /\ \A i \in 1..(Len(f) + Len(u)) :
             (f \o u)[i] = IF i <= Len(f) THEN f[i] ELSE u[i - Len(f)]
    BY <1>2, <1>3, ConcatProperties
  <2>2. L >= 2 => 1 \in 1..(Len(f) + Len(u)) /\ 1 <= Len(f)
    BY <1>1, <1>2, <1>3
  <2> QED
    BY <1>1, <1>2, <1>3, <2>1, <2>2
<1> DEFINE v == f \o u
<1> HIDE DEF v
<1>6. v \in Seq(S) /\ Len(v) = L /\ (L >= 2 => v[1] = a[1])
  BY <1>5 DEF v
<1>7. v \o t \in Seq(S) /\ Len(v \o t) = L + Len(t) /\ (L >= 2 => (v \o t)[1] = a[1])
  <2>1. /\ v \o t \in Seq(S)
        /\ Len(v \o t) = Len(v) + Len(t)
        /\ \A i \in 1..(Len(v) + Len(t)) :
             (v \o t)[i] = IF i <= Len(v) THEN v[i] ELSE t[i - Len(v)]
    BY <1>6, ConcatProperties
  <2>2. L >= 2 => 1 \in 1..(Len(v) + Len(t)) /\ 1 <= Len(v)
    BY <1>1, <1>4, <1>6
  <2> QED
    BY <1>1, <1>4, <1>6, <2>1, <2>2
<1> QED
  BY <1>7 DEF v, u, f, L

\* Glue joins two tokens and keeps the others.
LEMMA GlueFacts ==
  ASSUME NEW a \in TextSet, a # <<>>, NEW b \in TextSet, b # <<>>
  PROVE  /\ Glue(a, b) \in TextSet
         /\ Len(Glue(a, b)) = Len(a) + Len(b) - 1
         /\ Len(a) >= 2 => Glue(a, b)[1] = a[1]
<1> DEFINE m == Last(a) \o Head(b)
           t == Tail(b)
<1>1. Len(a) \in Nat \ {0} /\ Len(b) \in Nat \ {0}
  BY EmptySeq DEF TextSet
<1>2. Last(a) \in TokenSet /\ Head(b) \in TokenSet
  BY <1>1 DEF Last, TextSet
<1>3. m \in TokenSet
  BY <1>2, ConcatProperties DEF TokenSet
<1>4. t \in TextSet /\ Len(t) = Len(b) - 1
  BY HeadTailProperties DEF TextSet
<1>5. Glue(a, b) = Front(a) \o <<m>> \o t
  BY DEF Glue
<1> HIDE DEF m, t
<1>6. /\ Front(a) \o <<m>> \o t \in TextSet
      /\ Len(Front(a) \o <<m>> \o t) = Len(a) + Len(t)
      /\ Len(a) >= 2 => (Front(a) \o <<m>> \o t)[1] = a[1]
  <2>1. a \in Seq(TokenSet) /\ t \in Seq(TokenSet) /\ TextSet = Seq(TokenSet)
    BY <1>4 DEF TextSet
  <2>2. \A x \in TokenSet, y, z \in Seq(TokenSet) :
          y # <<>> => /\ Front(y) \o <<x>> \o z \in Seq(TokenSet)
                      /\ Len(Front(y) \o <<x>> \o z) = Len(y) + Len(z)
                      /\ Len(y) >= 2 => (Front(y) \o <<x>> \o z)[1] = y[1]
    BY Joined
  <2> QED
    BY <1>3, <2>1, <2>2, Zenon
<1> QED
  BY <1>1, <1>4, <1>5, <1>6

\* The text of one line is the line.  The text of several lines, of two
\* tokens or more each, begins with the first token of the first line and
\* is longer than it.
LEMMA GlueAllFacts ==
  ASSUME NEW N \in Nat \ {0}, NEW lines \in [1..N -> TextSet \ {<<>>}],
         Len(lines) = N
  PROVE  /\ GlueAll(lines) \in TextSet \ {<<>>}
         /\ N = 1 => GlueAll(lines) = lines[1]
         /\ N > 1 /\ (\A i \in 1..N : Len(lines[i]) >= 2) =>
              /\ Len(GlueAll(lines)) > Len(lines[1])
              /\ GlueAll(lines)[1] = lines[1][1]
<1>1. PICK f : /\ f = [n \in 1..N |->
                         IF n = 1 THEN lines[1] ELSE Glue(f[n - 1], lines[n])]
               /\ GlueAll(lines) = f[N]
  BY GlueAllDefined
<1>2. /\ f[1] = lines[1]
      /\ \A n \in 1..N : n # 1 => f[n] = Glue(f[n - 1], lines[n])
  <2>1. 1 \in 1..N
    OBVIOUS
  <2> QED
    BY <1>1, <2>1
<1> DEFINE Long == \A i \in 1..N : Len(lines[i]) >= 2
           Good(n) == /\ f[n] \in TextSet \ {<<>>}
                      /\ Long => /\ Len(f[n]) >= Len(lines[1]) + n - 1
                                 /\ f[n][1] = lines[1][1]
           S == {k \in Nat : k + 1 \in 1..N => Good(k + 1)}
<1>3. \A i \in 1..N : lines[i] \in TextSet /\ lines[i] # <<>>
  OBVIOUS
<1>4. \A i \in 1..N : Len(lines[i]) \in Nat \ {0}
  BY <1>3, EmptySeq DEF TextSet
<1>5. 0 \in S
  <2>1. Good(1)
    BY <1>2, <1>3, <1>4
  <2> HIDE DEF Good
  <2> QED
    BY <2>1
<1> HIDE DEF Good
<1>6. ASSUME NEW k \in Nat, k \in S PROVE k + 1 \in S
  <2> SUFFICES ASSUME k + 1 + 1 \in 1..N PROVE Good(k + 1 + 1)
    OBVIOUS
  <2> DEFINE n == k + 1
             a == f[n]
             b == lines[n + 1]
  <2>1. n \in 1..N /\ n + 1 \in 1..N /\ n + 1 # 1 /\ n + 1 - 1 = n
    OBVIOUS
  <2>2. Good(n)
    BY <1>6, <2>1
  <2> HIDE DEF n
  <2>3. f[n + 1] = Glue(a, b)
    BY <1>2, <2>1
  <2>4. /\ a \in TextSet /\ a # <<>>
        /\ Long => Len(a) >= Len(lines[1]) + n - 1 /\ a[1] = lines[1][1]
    BY <2>2 DEF Good
  <2>5. b \in TextSet /\ b # <<>> /\ (Long => Len(b) >= 2 /\ Len(lines[1]) >= 2)
    BY <1>3, <2>1
  <2>6. Len(a) \in Nat \ {0} /\ Len(b) \in Nat \ {0} /\ Len(lines[1]) \in Nat
    BY <1>4, <2>1, <2>4, <2>5, EmptySeq DEF TextSet
  <2> HIDE DEF a, b, Long
  <2>7. /\ Glue(a, b) \in TextSet
        /\ Len(Glue(a, b)) = Len(a) + Len(b) - 1
        /\ Len(a) >= 2 => Glue(a, b)[1] = a[1]
    BY <2>4, <2>5, GlueFacts
  <2>8. Len(Glue(a, b)) # 0
    BY <2>6, <2>7
  <2>9. Glue(a, b) # <<>>
    BY <2>8
  <2>10. ASSUME Long
         PROVE  /\ Len(Glue(a, b)) >= Len(lines[1]) + (n + 1) - 1
                /\ Glue(a, b)[1] = lines[1][1]
    BY <2>1, <2>4, <2>5, <2>6, <2>7, <2>10
  <2>11. Good(n + 1)
    BY <2>3, <2>7, <2>9, <2>10 DEF Good
  <2> QED
    BY <2>11 DEF n
<1> HIDE DEF S
<1>7. N - 1 \in S
  BY <1>5, <1>6, Induction
<1>8. Good(N)
  <2>1. N - 1 \in Nat /\ N - 1 + 1 = N
    OBVIOUS
  <2> QED
    BY <1>7, <2>1 DEF S
<1> HIDE DEF Long
<1>9. Len(lines[1]) \in Nat \ {0} /\ Len(GlueAll(lines)) \in Nat
  BY <1>1, <1>4, <1>8, EmptySeq DEF Good, TextSet
<1>10. ASSUME N > 1, Long
       PROVE  /\ Len(GlueAll(lines)) > Len(lines[1])
              /\ GlueAll(lines)[1] = lines[1][1]
  BY <1>1, <1>8, <1>9, <1>10 DEF Good
<1> QED
  BY <1>1, <1>2, <1>8, <1>10 DEF Good, Long

\* What the parser returns.
LEMMA ParseFacts ==
  ASSUME NEW text \in TextSet, text # <<>>, ParseAndValidate(text) # <<>>
  PROVE  /\ ParseAndValidate(text) \in TextSet
         /\ Len(ParseAndValidate(text)) = Len(text)
         /\ ParseAndValidate(text)[1] = ToUpper(text[1])
<1>1. 1 \in 1..Len(text) /\ text[1] \in TokenSet
  <2>1. Len(text) \in Nat \ {0}
    BY EmptySeq DEF TextSet
  <2>2. 1 \in 1..Len(text)
    BY <2>1
  <2> QED
    BY <2>2, ElementOfSeq DEF TextSet
<1>2. \A p \in LowerLetters : UpperOf[p] \in Pieces
  BY DEF Pieces, UpperLetters
<1>3. ToUpper(text[1]) \in TokenSet
  <2> DEFINE token == text[1]
             e(i) == IF token[i] \in LowerLetters THEN UpperOf[token[i]] ELSE token[i]
  <2>1. Len(token) \in Nat /\ DOMAIN token = 1..Len(token)
        /\ \A i \in 1..Len(token) : token[i] \in Pieces
    BY <1>1 DEF TokenSet
  <2>2. \A i \in 1..Len(token) : e(i) \in Pieces
    BY <1>2, <2>1
  <2>3. ToUpper(token) = [i \in 1..Len(token) |-> e(i)]
    BY <2>1 DEF ToUpper
  <2> HIDE DEF e, token
  <2>4. [i \in 1..Len(token) |-> e(i)] \in Seq(Pieces)
    BY <2>1, <2>2, IsASeq
  <2> QED
    BY <2>3, <2>4 DEF token, TokenSet
<1> DEFINE up1 == ToUpper(text[1])
           tokens == [text EXCEPT ![1] = up1]
<1> HIDE DEF up1
<1>4. up1 \in TokenSet /\ up1 = ToUpper(text[1])
  BY <1>3 DEF up1
<1>5. tokens \in TextSet /\ Len(tokens) = Len(text) /\ tokens[1] = up1
  BY <1>1, <1>4, ExceptSeq DEF TextSet
<1>6. ParseAndValidate(text) = [text EXCEPT ![1] = ToUpper(@)]
  BY DEF ParseAndValidate
<1>7. ParseAndValidate(text) = tokens
  BY <1>1, <1>4, <1>6
<1> QED
  BY <1>4, <1>5, <1>7

\* Every command has its number of arguments.
Tokens(command) == 1 + (IF command = CommandSet THEN CommandSetQ ELSE CommandGetQ)

\* What the handler asks for, if it asks for anything.
LEMMA HandlerFacts ==
  ASSUME NEW text \in TextSet, text # <<>>, DatabaseHandler(text) # NoCall
  PROVE  /\ Len(text) = Tokens(ToUpper(text[1]))
         /\ DatabaseHandler(text) \in
              [call : {"Set", "Get", "Del"}, args : Seq(Seq(Pieces))]
<1> DEFINE tokens == ParseAndValidate(text)
<1>1. tokens # <<>>
  BY DEF DatabaseHandler
<1>2. tokens \in TextSet /\ Len(tokens) = Len(text) /\ tokens[1] = ToUpper(text[1])
  BY <1>1, ParseFacts
<1>3. DatabaseHandler(text) =
        CASE tokens[1] = CommandSet -> handleSet(tokens)
          [] tokens[1] = CommandGet -> handleGet(tokens)
          [] tokens[1] = CommandDel -> handleDel(tokens)
          [] OTHER -> NoCall
  BY <1>1 DEF DatabaseHandler
<1> HIDE DEF tokens
<1>4. Tail(tokens) \in Seq(Seq(Pieces))
  BY <1>1, <1>2, HeadTailProperties DEF TextSet, TokenSet
<1>5. Len(tokens) \in Nat
  BY <1>2 DEF TextSet
<1>6. CommandSet # CommandGet /\ CommandSet # CommandDel /\ CommandGet # CommandDel
  BY DEF CommandSet, CommandGet, CommandDel
<1>7. CASE tokens[1] = CommandSet
  <2>1. DatabaseHandler(text) = handleSet(tokens)
    BY <1>3, <1>6, <1>7
  <2> QED
    BY <1>2, <1>4, <1>5, <1>7, <2>1
      DEF handleSet, Call, Tokens, CommandSetQ
<1>8. CASE tokens[1] = CommandGet
  <2>1. DatabaseHandler(text) = handleGet(tokens)
    BY <1>3, <1>6, <1>8
  <2> QED
    BY <1>2, <1>4, <1>5, <1>6, <1>8, <2>1
      DEF handleGet, Call, Tokens, CommandGetQ
<1>9. CASE tokens[1] = CommandDel
  <2>1. DatabaseHandler(text) = handleDel(tokens)
    BY <1>3, <1>6, <1>9
  <2> QED
    BY <1>2, <1>4, <1>5, <1>6, <1>9, <2>1
      DEF handleDel, Call, Tokens, CommandDelQ, CommandGetQ
<1> QED
  BY <1>3, <1>7, <1>8, <1>9

\* A text with the first token of a command and more tokens is no command:
\* this is why lines that are read together are refused together.
LEMMA GluedIsRefused ==
  ASSUME NEW text \in TextSet, text # <<>>, WellFormed(text),
         NEW joined \in TextSet, joined # <<>>,
         joined[1] = text[1], Len(joined) > Len(text)
  PROVE  DatabaseHandler(joined) = NoCall
<1>1. Len(text) = Tokens(ToUpper(text[1]))
  BY HandlerFacts DEF WellFormed
<1>2. ASSUME DatabaseHandler(joined) # NoCall PROVE FALSE
  <2>1. Len(joined) = Tokens(ToUpper(joined[1]))
    BY <1>2, HandlerFacts
  <2>2. Len(joined) = Len(text)
    BY <1>1, <2>1
  <2>3. Len(text) \in Nat
    BY DEF TextSet
  <2> QED
    BY <2>2, <2>3
<1> QED
  BY <1>2

\* A command has an argument.
LEMMA CommandIsLong ==
  ASSUME NEW text \in TextSet, text # <<>>, WellFormed(text)
  PROVE  Len(text) >= 2
<1>1. Len(text) = Tokens(ToUpper(text[1]))
  BY HandlerFacts DEF WellFormed
<1> QED
  BY <1>1 DEF Tokens, CommandSetQ, CommandGetQ

-----------------------------------------------------------------------------
(***************************************************************************)
(* The network.                                                            *)
(***************************************************************************)

TP == INSTANCE TcpServerProofs

\* A line has a part, and a text is not empty.
LEMMA LineFacts ==
  /\ Texts = TextSet \ {<<>>}
  /\ \A parts \in Lines : parts \in Seq(Texts) /\ Len(parts) \in Nat \ {0}
<1>1. Texts = TextSet \ {<<>>}
  BY DEF Texts, TextSet, TokenSet
<1>2. ASSUME NEW parts \in Lines
      PROVE  parts \in Seq(Texts) /\ Len(parts) \in Nat \ {0}
  <2>1. parts \in Seq(Texts) /\ parts # <<>>
    BY ServerAssumption
  <2> QED
    BY <2>1, EmptySeq
<1> QED
  BY <1>1, <1>2

\* A sequence with others behind it, place by place.
LEMMA ExtendedElements ==
  ASSUME NEW S, NEW q \in Seq(S), NEW k \in Nat, NEW r \in Seq(S), Len(r) = k
  PROVE  /\ q \o r \in Seq(S) /\ Len(q \o r) = Len(q) + k
         /\ DOMAIN (q \o r) = 1..(Len(q) + k)
         /\ \A i \in 1..Len(q) : (q \o r)[i] = q[i]
         /\ \A i \in 1..k : (q \o r)[Len(q) + i] = r[i]
<1> DEFINE L == Len(q)
           x == q \o r
<1>1. L \in Nat
  OBVIOUS
<1>2. /\ x \in Seq(S) /\ Len(x) = L + k
      /\ \A i \in 1..(L + k) : x[i] = IF i <= L THEN q[i] ELSE r[i - L]
  BY ConcatProperties
<1> HIDE DEF L, x
<1>3. DOMAIN x = 1..(L + k)
  BY <1>2
<1>4. \A i \in 1..L : x[i] = q[i]
  BY <1>1, <1>2
<1>5. ASSUME NEW i \in 1..k PROVE x[L + i] = r[i]
  <2>1. L + i \in 1..(L + k) /\ ~(L + i <= L) /\ (L + i) - L = i
    BY <1>1
  <2>2. x[L + i] = r[(L + i) - L]
    BY <1>2, <2>1
  <2> QED
    BY <2>1, <2>2
<1> QED
  BY <1>2, <1>3, <1>4, <1>5 DEF x, L

\* What is on a channel are numbers.
LEMMA NumbersInNat ==
  ASSUME NEW x \in Seq(1..MaxParts)
  PROVE  x \in Seq(Nat) /\ Len(x) \in Nat /\ DOMAIN x = 1..Len(x)
<1> DEFINE S == 1..MaxParts
<1>1. S \subseteq Nat /\ x \in Seq(S)
  OBVIOUS
<1> HIDE DEF S
<1>2. x \in [1..Len(x) -> S] /\ Len(x) \in Nat
  BY <1>1, LenProperties
<1>3. x \in [1..Len(x) -> Nat]
  BY <1>1, <1>2
<1> QED
  BY <1>2, <1>3, SeqDef

\* The numbers of k parts sent after the first m.
Numbers(m, k) == [i \in 1..k |-> m + i]

\* The channel with k parts behind what is on it already.
LEMMA SentElements ==
  ASSUME NEW q \in Seq(Nat), NEW k \in Nat, NEW m \in Nat
  PROVE  /\ DOMAIN (q \o Numbers(m, k)) = 1..(Len(q) + k)
         /\ \A i \in 1..Len(q) : (q \o Numbers(m, k))[i] = q[i]
         /\ \A i \in 1..k : (q \o Numbers(m, k))[Len(q) + i] = m + i
<1> DEFINE r == Numbers(m, k)
<1>1. r \in [1..k -> Nat] /\ \A i \in 1..k : r[i] = m + i
  BY DEF Numbers
<1> HIDE DEF r
<1>2. r \in Seq(Nat) /\ Len(r) = k
  BY <1>1, SeqDef, LenProperties
<1>3. /\ DOMAIN (q \o r) = 1..(Len(q) + k)
      /\ \A i \in 1..Len(q) : (q \o r)[i] = q[i]
      /\ \A i \in 1..k : (q \o r)[Len(q) + i] = r[i]
  BY <1>2, ExtendedElements
<1> QED
  BY <1>1, <1>3 DEF r

\* The invariant of TcpServer; once the process has died, its semaphore
\* says nothing of the connections any more.
NetInv ==
  /\ TP!SemP!IInv
  /\ TP!PlaceInv
  /\ TP!DataOK
  /\ TP!ReplyInv
  /\ up => TP!SlotInv

\* Until the process dies, every step of the service is a step of TcpServer
\* or none of its own.
LEMMA NetStep ==
  ASSUME TP!DataOK, Next
  PROVE  Die \/ [TP!Next]_(TP!vars)
<1> USE DEF Tcp!Goto, TP!Goto, Tcp!mainVars, TP!mainVars, Tcp!semVars,
    TP!semVars, Tcp!netVars, TP!netVars, Tcp!clientVars, TP!clientVars
<1>1. ASSUME NEW c \in Conns, Tcp!Handle(c) PROVE TP!Next
  <2>1. TP!Handle(c)
    BY <1>1 DEF Tcp!Handle, TP!Handle
  <2> QED
    BY <2>1 DEF TP!Next, TP!HandleConnections
<1>2. ASSUME NEW c \in Conns, Refuse(c) \/ Get(c) \/ EndWrite(c) PROVE TP!Next
  BY <1>1, <1>2 DEF Refuse, Get, EndWrite, Return
<1>3. ASSUME UNCHANGED tcpVars PROVE UNCHANGED TP!vars
  BY <1>3 DEF tcpVars, TP!vars
<1>4. ASSUME NEW c \in Conns, BeginWrite(c) PROVE UNCHANGED TP!vars
  BY <1>3, <1>4 DEF BeginWrite
<1>5. ASSUME Engine PROVE UNCHANGED TP!vars
  BY <1>3, <1>5 DEF Engine
<1>6. ASSUME NEW c \in Conns, NEW parts \in Lines, SendLine(c, parts)
      PROVE  TP!Next
  <2>1. TP!Send(c, Len(parts))
    BY <1>6 DEF SendLine, Tcp!Send, TP!Send, Tcp!Closed, TP!Closed
  <2>2. Len(parts) \in 1..MaxParts
    <3>1. Len(parts) \in Nat \ {0}
      BY LineFacts
    <3>2. sent[c] \in Nat /\ MaxParts \in Nat /\ sent[c] + Len(parts) <= MaxParts
      BY <2>1, ServerAssumption DEF TP!DataOK, TP!Send
    <3> QED
      BY <3>1, <3>2
  <2> QED
    BY <2>1, <2>2 DEF TP!Next, TP!Client
<1>7. ASSUME Network PROVE TP!Next
  <2>1. CASE Tcp!Shutdown \/ Tcp!HandleClientQueries
    BY <2>1 DEF Tcp!Shutdown, TP!Shutdown, Tcp!HandleClientQueries,
      TP!HandleClientQueries, Tcp!CloseListener, TP!CloseListener,
      Tcp!WaitGroupDone, TP!WaitGroupDone, TP!Next
  <2>2. CASE Tcp!AcceptLoop
    <3>1. CASE Tcp!AcceptClosed
      BY <3>1 DEF Tcp!AcceptClosed, TP!AcceptClosed, TP!AcceptLoop, TP!Next
    <3>2. ASSUME NEW c \in Conns, Tcp!Accept(c) PROVE TP!Next
      BY <3>2 DEF Tcp!Accept, TP!Accept, TP!AcceptLoop, TP!Next
    <3>3. ASSUME NEW c \in Conns, Tcp!AcquireSlot(c) PROVE TP!Next
      BY <3>3 DEF Tcp!AcquireSlot, TP!AcquireSlot, Tcp!Sem!Acquire,
        TP!Sem!Acquire, Tcp!Sem!Wake, TP!Sem!Wake, Tcp!Sem!TakeOrWait,
        TP!Sem!TakeOrWait, TP!AcceptLoop, TP!Next
    <3> QED
      BY <2>2, <3>1, <3>2, <3>3 DEF Tcp!AcceptLoop
  <2>3. ASSUME NEW c \in Conns,
               \/ Tcp!Read(c) \/ Tcp!ReadFails(c)
               \/ Tcp!Write(c) \/ Tcp!WriteFails(c)
               \/ Tcp!Close(c) \/ Tcp!ReleaseSlot(c)
        PROVE  TP!Next
    <3>1. \/ TP!Read(c) \/ TP!ReadFails(c)
          \/ TP!Write(c) \/ TP!WriteFails(c)
          \/ TP!Close(c) \/ TP!ReleaseSlot(c)
      BY <2>3 DEF Tcp!Read, TP!Read, Tcp!ReadFails, TP!ReadFails, Tcp!Write,
        TP!Write, Tcp!WriteFails, TP!WriteFails, Tcp!Close, TP!Close,
        Tcp!ReleaseSlot, TP!ReleaseSlot, Tcp!Sem!Release, TP!Sem!Release,
        Tcp!Sem!Signal, TP!Sem!Signal
    <3> QED
      BY <3>1 DEF TP!HandleConnections, TP!Next
  <2> QED
    BY <1>7, <2>1, <2>2, <2>3 DEF Network
<1>8. ASSUME Client PROVE TP!Next
  <2>1. PICK c \in Conns :
          \/ Tcp!Dial(c) \/ Tcp!Receive(c)
          \/ Tcp!Timeout(c) \/ Tcp!ConnectionLost(c) \/ Tcp!Leave(c)
    BY <1>8 DEF Client
  <2>2. \/ TP!Dial(c) \/ TP!Receive(c)
        \/ TP!Timeout(c) \/ TP!ConnectionLost(c) \/ TP!Leave(c)
    BY <2>1 DEF Tcp!Dial, TP!Dial, Tcp!Receive, TP!Receive, Tcp!Timeout,
      TP!Timeout, Tcp!ConnectionLost, TP!ConnectionLost, Tcp!Leave, TP!Leave,
      Tcp!Closed, TP!Closed
  <2> QED
    BY <2>2 DEF TP!Client, TP!Next
<1> QED
  BY <1>2, <1>4, <1>5, <1>6, <1>7, <1>8 DEF Next

\* Only the end of the process makes it stop.
LEMMA UpStep ==
  ASSUME Next, ~Die
  PROVE  up' = up
BY DEF Next, Refuse, Get, BeginWrite, EndWrite, SendLine, Engine, Network,
  Client

\* The end of the process takes what is in the server, not what is on its
\* way to the client.
LEMMA DieNet ==
  ASSUME NetInv, Die
  PROVE  NetInv'
<1> USE DEF NetInv
<1>1. TP!SemP!IInv'
  <2>1. UNCHANGED TP!SemP!semVars
    BY DEF Die, TP!SemP!semVars
  <2> QED
    BY <2>1, ServerAssumption, TP!SemP!NextIInv
<1>2. TP!PlaceInv'
  BY DEF Die, TP!PlaceInv, TP!Serving, TP!Closed
<1>3. TP!DataOK'
  <2>1. /\ query' \in [Conns -> Seq(1..MaxParts)]
        /\ inbox' \in [Conns -> Seq(1..MaxParts)]
    BY EmptySeq DEF Die
  <2> QED
    BY <2>1 DEF Die, TP!DataOK
<1>4. TP!ReplyInv'
  BY DEF Die, TP!ReplyInv, TP!ChannelInv, TP!Idle, TP!OnItsWay, TP!Closed,
    TP!Serving, TP!PlaceInv
<1> QED
  BY <1>1, <1>2, <1>3, <1>4 DEF Die

\* The service keeps the invariant of the network.
LEMMA NetInvStep ==
  ASSUME NetInv, [Next]_vars
  PROVE  NetInv'
<1> USE DEF NetInv
<1>0. TP!TcpAssumption
  BY ServerAssumption DEF TP!TcpAssumption
<1>1. CASE Die
  BY <1>1, DieNet
<1>2. CASE ~Die
  <2>1. [TP!Next]_(TP!vars) /\ up' = up
    <3>1. CASE Next
      BY <1>2, <3>1, NetStep, UpStep DEF NetInv
    <3>2. CASE UNCHANGED vars
      BY <3>2 DEF vars, tcpVars, TP!vars, TP!mainVars, TP!semVars, TP!netVars,
        TP!clientVars
    <3> QED
      BY <3>1, <3>2
  <2>2. TP!PlaceInv' /\ TP!DataOK' /\ TP!ReplyInv'
    BY <1>0, <2>1, ServerAssumption, TP!PlaceStep, TP!DataStep, TP!ReplyStep
  <2>3. TP!SemP!IInv'
    BY <2>1, ServerAssumption, TP!SemStep, TP!SemP!NextIInv
      DEF TP!semVars, TP!SemP!semVars
  <2>4. up => TP!SlotInv'
    BY <2>1, ServerAssumption, TP!SlotStep DEF TP!IInv
  <2> QED
    BY <2>1, <2>2, <2>3, <2>4
<1> QED
  BY <1>1, <1>2

\* Initially nothing is under way.
LEMMA InitNet == Init => NetInv
<1> SUFFICES ASSUME Init PROVE NetInv
  OBVIOUS
<1>1. TP!Init
  BY DEF Init, Tcp!Init, TP!Init, Tcp!Sem!Init, TP!Sem!Init
<1> QED
  BY <1>1, ServerAssumption, TP!InitIInv, TP!InitData, TP!InitReply
    DEF NetInv, TP!IInv

-----------------------------------------------------------------------------
(***************************************************************************)
(* From lines to writes.                                                   *)
(***************************************************************************)

\* All that is in the one was sent before all that is in the other.
Before(p, q) == \A i \in DOMAIN p, j \in DOMAIN q : p[i] < q[j]

\* The text of the parts in a query.
TextOf(c, q) == GlueAll([i \in DOMAIN q |-> line[c][q[i]]])

\* What is left of TypeOK beside the network.
StoreOK ==
  /\ log \in Seq(Seq(Record))
  /\ pend \in [Conns -> Record \cup {None}]
  /\ verdict \in [Conns -> {"none", "ok", "err"}]
  /\ acked \subseteq Record
  /\ up \in BOOLEAN
  /\ line \in [Conns -> Seq(Texts)]
  /\ told \in [Conns -> SUBSET (Seq(1..MaxParts) \X Replies)]

\* Requests arrive in the order they were sent.
LineAt(c) ==
  /\ Len(line[c]) = sent[c]
  /\ \A i \in DOMAIN inbox[c] : inbox[c][i] \in 1..sent[c]
  /\ \A i \in DOMAIN query[c] : query[c][i] \in 1..sent[c]
  /\ \A i, j \in DOMAIN inbox[c] : i < j => inbox[c][i] < inbox[c][j]
  /\ Before(query[c], inbox[c])

LineInv == \A c \in Conns : LineAt(c)

\* A write is what the lines it was read from ask for.
Requested(r) ==
  /\ r \in Record
  /\ r.query # <<>>
  /\ \A i \in DOMAIN r.query : r.query[i] \in 1..sent[r.conn]
  /\ r.call = DatabaseHandler(TextOf(r.conn, r.query))

\* A write in doubt belongs to the query that its handler is working on.
PendAt(c) ==
  /\ pend[c] # None =>
       /\ conn[c] = "handle"
       /\ pend[c].conn = c
       /\ pend[c].query = query[c]
       /\ Requested(pend[c])
  /\ verdict[c] # "none" => pend[c] # None
  /\ verdict[c] = "ok" => pend[c] \in Store!Logged

PendInv == \A c \in Conns : PendAt(c)

\* A write in the log comes from lines that were read earlier than all that
\* its connection has still to read or to log.
LoggedAt(r) ==
  /\ Requested(r)
  /\ Before(r.query, inbox[r.conn])
  /\ conn[r.conn] = "handle" =>
       \/ pend[r.conn] # None /\ r = pend[r.conn]
       \/ Before(r.query, query[r.conn])

LoggedInv == \A r \in Store!Logged : LoggedAt(r)

\* The writes of one connection are in the log in the order of their lines.
OrderInv ==
  \A i, k \in DOMAIN log :
    \A j \in DOMAIN log[i], l \in DOMAIN log[k] :
      (i < k \/ (i = k /\ j < l)) /\ log[i][j].conn = log[k][l].conn =>
        Before(log[i][j].query, log[k][l].query)

\* OK and DELETED are said of writes that are in the log.
ToldInv ==
  \A c \in Conns : \A t \in told[c] :
    t[2] \in {"OK", "DELETED"} =>
      \E r \in Store!Logged : r.conn = c /\ r.query = t[1]

StoreInv ==
  StoreOK /\ LineInv /\ PendInv /\ LoggedInv /\ OrderInv /\ ToldInv

-----------------------------------------------------------------------------
(***************************************************************************)
(* What a step can do to a connection and its requests.                    *)
(***************************************************************************)

\* The connection may be closed, nothing is read.
Quiet(c) ==
  /\ sent'[c] = sent[c] /\ line'[c] = line[c]
  /\ query'[c] \in {query[c], <<>>}
  /\ inbox'[c] \in {inbox[c], <<>>}
  /\ conn'[c] = "handle" => conn[c] = "handle" /\ query'[c] = query[c]

\* The handler reads.
Reads(c) ==
  /\ sent'[c] = sent[c] /\ line'[c] = line[c]
  /\ conn[c] = "read"
  /\ \E n \in Nat \ {0} :
       /\ n <= Len(inbox[c])
       /\ query'[c] = SubSeq(inbox[c], 1, n)
       /\ inbox'[c] = SubSeq(inbox[c], n + 1, Len(inbox[c]))

\* The client sends a line, in one part or several.
Sends(c) ==
  /\ conn'[c] = conn[c] /\ query'[c] = query[c]
  /\ \E parts \in Lines :
       /\ sent'[c] = sent[c] + Len(parts)
       /\ line'[c] = line[c] \o parts
       /\ inbox'[c] \in {inbox[c], inbox[c] \o Numbers(sent[c], Len(parts))}

\* There is nothing else.
LEMMA StepKinds ==
  ASSUME NetInv, StoreOK, [Next]_vars, NEW d \in Conns
  PROVE  Quiet(d) \/ Reads(d) \/ Sends(d)
<1> USE DEF Tcp!Goto, Tcp!netVars, Tcp!clientVars
<1>0. /\ conn \in [Conns -> {"none", "queued", "accepted"} \cup TP!Serving \cup TP!Closed]
      /\ query \in [Conns -> Seq(1..MaxParts)]
      /\ inbox \in [Conns -> Seq(1..MaxParts)]
      /\ sent \in [Conns -> 0..MaxParts]
      /\ line \in [Conns -> Seq(Texts)]
  BY DEF NetInv, TP!PlaceInv, TP!DataOK, StoreOK
<1>1. ASSUME UNCHANGED <<query, inbox, sent, line>>,
             conn'[d] = "handle" => conn[d] = "handle"
      PROVE  Quiet(d)
  BY <1>1 DEF Quiet
<1>2. ASSUME NEW c \in Conns, Refuse(c) \/ Get(c) \/ EndWrite(c)
      PROVE  Quiet(d)
  <2>1. Tcp!Handle(c) /\ line' = line
    BY <1>2 DEF Refuse, Get, EndWrite, Return
  <2>2. conn'[d] = "handle" => conn[d] = "handle"
    BY <1>0, <2>1 DEF Tcp!Handle
  <2> QED
    BY <1>1, <2>1, <2>2 DEF Tcp!Handle
<1>3. ASSUME NEW c \in Conns, BeginWrite(c) PROVE Quiet(d)
  BY <1>1, <1>3 DEF BeginWrite, tcpVars
<1>4. ASSUME Engine PROVE Quiet(d)
  BY <1>1, <1>4 DEF Engine, tcpVars
<1>5. ASSUME NEW c \in Conns, NEW parts \in Lines, SendLine(c, parts)
      PROVE  Quiet(d) \/ Sends(d)
  <2>1. CASE d = c
    BY <1>0, <1>5, <2>1 DEF SendLine, Tcp!Send, Sends, Numbers
  <2>2. CASE d # c
    BY <1>0, <1>5, <2>2 DEF SendLine, Tcp!Send, Quiet
  <2> QED
    BY <2>1, <2>2
<1>6. ASSUME Network PROVE Quiet(d) \/ Reads(d)
  <2>0. line' = line
    BY <1>6 DEF Network
  <2>1. CASE Tcp!Shutdown \/ Tcp!HandleClientQueries
    BY <1>0, <1>1, <2>0, <2>1 DEF Tcp!Shutdown, Tcp!HandleClientQueries,
      Tcp!CloseListener, Tcp!WaitGroupDone
  <2>2. CASE Tcp!AcceptLoop
    BY <1>0, <1>1, <2>0, <2>2 DEF Tcp!AcceptLoop, Tcp!AcceptClosed,
      Tcp!Accept, Tcp!AcquireSlot
  <2>3. ASSUME NEW c \in Conns, Tcp!Read(c) PROVE Quiet(d) \/ Reads(d)
    <3>1. PICK n \in 1..BufferSize :
            /\ n <= Len(inbox[c])
            /\ query' = [query EXCEPT ![c] = SubSeq(inbox[c], 1, n)]
            /\ inbox' = [inbox EXCEPT ![c] = SubSeq(@, n + 1, Len(@))]
      BY <2>3 DEF Tcp!Read
    <3>2. n \in Nat \ {0}
      BY ServerAssumption
    <3>3. CASE d = c
      BY <1>0, <2>0, <2>3, <3>1, <3>2, <3>3 DEF Tcp!Read, Reads
    <3>4. CASE d # c
      BY <1>0, <2>0, <2>3, <3>1, <3>4 DEF Tcp!Read, Quiet
    <3> QED
      BY <3>3, <3>4
  <2>4. ASSUME NEW c \in Conns,
               \/ Tcp!ReadFails(c) \/ Tcp!WriteFails(c) \/ Tcp!ReleaseSlot(c)
        PROVE  Quiet(d)
    BY <1>0, <1>1, <2>0, <2>4 DEF Tcp!ReadFails, Tcp!WriteFails,
      Tcp!ReleaseSlot
  <2>5. ASSUME NEW c \in Conns, Tcp!Write(c) \/ Tcp!Close(c) PROVE Quiet(d)
    BY <1>0, <2>0, <2>5 DEF Tcp!Write, Tcp!Close, Quiet
  <2> QED
    BY <1>6, <2>1, <2>2, <2>3, <2>4, <2>5 DEF Network
<1>7. ASSUME Client PROVE Quiet(d)
  BY <1>0, <1>1, <1>7 DEF Client, Tcp!Dial, Tcp!Receive, Tcp!Timeout,
    Tcp!ConnectionLost, Tcp!Leave
<1>8. ASSUME Die PROVE Quiet(d)
  BY <1>8 DEF Die, Quiet
<1>9. ASSUME UNCHANGED vars PROVE Quiet(d)
  BY <1>1, <1>9 DEF vars, tcpVars
<1> QED
  BY <1>2, <1>3, <1>4, <1>5, <1>6, <1>7, <1>8, <1>9 DEF Next

\* The two parts that a Read makes of an inbox, place by place.
LEMMA CutElements ==
  ASSUME NEW S, NEW q \in Seq(S), NEW n \in Nat \ {0}, n <= Len(q)
  PROVE  /\ DOMAIN SubSeq(q, 1, n) = 1..n
         /\ \A i \in 1..n : i \in DOMAIN q /\ SubSeq(q, 1, n)[i] = q[i]
         /\ DOMAIN SubSeq(q, n + 1, Len(q)) = 1..(Len(q) - n)
         /\ \A i \in 1..(Len(q) - n) :
              n + i \in DOMAIN q /\ SubSeq(q, n + 1, Len(q))[i] = q[n + i]
<1> DEFINE L == Len(q)
           a == SubSeq(q, 1, n)
           b == SubSeq(q, n + 1, L)
<1>1. L \in Nat /\ DOMAIN q = 1..L /\ \A i \in 1..L : q[i] \in S
  OBVIOUS
<1> HIDE DEF L
<1>2. n <= L
  BY DEF L
<1>3. (\A i \in 1..n : q[i] \in S) /\ (\A i \in (n + 1)..L : q[i] \in S)
  BY <1>1, <1>2
<1>4. /\ a \in Seq(S) /\ Len(a) = IF 1 <= n THEN n - 1 + 1 ELSE 0
      /\ \A i \in 1..(n - 1 + 1) : a[i] = q[1 + i - 1]
  BY <1>3, SubSeqProperties
<1>5. /\ b \in Seq(S) /\ Len(b) = IF n + 1 <= L THEN L - (n + 1) + 1 ELSE 0
      /\ \A i \in 1..(L - (n + 1) + 1) : b[i] = q[(n + 1) + i - 1]
  BY <1>1, <1>3, SubSeqProperties
<1> HIDE DEF a, b
<1>6. DOMAIN a = 1..Len(a) /\ DOMAIN b = 1..Len(b)
  BY <1>4, <1>5
<1>7. Len(a) = n /\ Len(b) = L - n
  BY <1>1, <1>2, <1>4, <1>5
<1>8. ASSUME NEW i \in 1..n PROVE i \in DOMAIN q /\ a[i] = q[i]
  <2>1. i \in 1..(n - 1 + 1) /\ 1 + i - 1 = i /\ i \in 1..L
    BY <1>1, <1>2
  <2> QED
    BY <1>1, <1>4, <2>1
<1>9. ASSUME NEW i \in 1..(L - n) PROVE n + i \in DOMAIN q /\ b[i] = q[n + i]
  <2>1. i \in 1..(L - (n + 1) + 1) /\ (n + 1) + i - 1 = n + i /\ n + i \in 1..L
    BY <1>1, <1>2
  <2> QED
    BY <1>1, <1>5, <2>1
<1> QED
  BY <1>6, <1>7, <1>8, <1>9 DEF a, b, L

\* The order of the requests is kept.
LEMMA LineStep ==
  ASSUME NetInv, StoreOK, LineInv, [Next]_vars
  PROVE  LineInv'
<1> SUFFICES ASSUME NEW c \in Conns PROVE LineAt(c)'
  BY DEF LineInv
<1>1. LineAt(c)
  BY DEF LineInv
<1>2. /\ query[c] \in Seq(1..MaxParts) /\ inbox[c] \in Seq(1..MaxParts)
      /\ sent[c] \in Nat /\ line[c] \in Seq(Texts)
  BY ServerAssumption DEF NetInv, TP!DataOK, StoreOK
<1> DEFINE q == query[c]
           q1 == query'[c]
           x == inbox[c]
           x1 == inbox'[c]
           m == sent[c]
<1>3. CASE Quiet(c)
  BY <1>1, <1>3 DEF Quiet, LineAt, Before
<1>4. CASE Reads(c)
  <2>1. PICK n \in Nat \ {0} :
          /\ n <= Len(x)
          /\ q1 = SubSeq(x, 1, n)
          /\ x1 = SubSeq(x, n + 1, Len(x))
    BY <1>4 DEF Reads
  <2>2. sent'[c] = m /\ line'[c] = line[c] /\ Len(x) \in Nat
    BY <1>2, <1>4 DEF Reads
  <2> HIDE DEF x, x1, q1, m
  <2>3. /\ \A i \in DOMAIN x : x[i] \in 1..m
        /\ \A i, j \in DOMAIN x : i < j => x[i] < x[j]
        /\ m \in Nat /\ Len(line[c]) = m
    BY <1>1, <1>2 DEF LineAt, x, m
  <2>4. x \in Seq(1..MaxParts)
    BY <1>2 DEF x
  <2>5. /\ DOMAIN q1 = 1..n
        /\ \A i \in 1..n : i \in DOMAIN x /\ q1[i] = x[i]
        /\ DOMAIN x1 = 1..(Len(x) - n)
        /\ \A i \in 1..(Len(x) - n) : n + i \in DOMAIN x /\ x1[i] = x[n + i]
    BY <2>1, <2>4, CutElements
  <2>6. (\A i \in DOMAIN q1 : q1[i] \in 1..m) /\ (\A i \in DOMAIN x1 : x1[i] \in 1..m)
    BY <2>3, <2>5
  <2>7. ASSUME NEW i \in DOMAIN x1, NEW j \in DOMAIN x1, i < j
        PROVE  x1[i] < x1[j]
    <3>1. n + i < n + j
      BY <2>2, <2>5, <2>7
    <3> QED
      BY <2>3, <2>5, <3>1
  <2>8. ASSUME NEW i \in DOMAIN q1, NEW j \in DOMAIN x1
        PROVE  q1[i] < x1[j]
    <3>1. i < n + j
      BY <2>2, <2>5
    <3> QED
      BY <2>3, <2>5, <3>1
  <2> QED
    BY <2>2, <2>3, <2>6, <2>7, <2>8 DEF LineAt, Before, x1, q1
<1>5. CASE Sends(c)
  <2>1. PICK parts \in Lines :
          /\ sent'[c] = m + Len(parts)
          /\ line'[c] = line[c] \o parts
          /\ x1 \in {x, x \o Numbers(m, Len(parts))}
    BY <1>5 DEF Sends
  <2> DEFINE k == Len(parts)
             L == Len(x)
  <2>2. parts \in Seq(Texts) /\ k \in Nat \ {0}
    BY LineFacts
  <2>3. q1 = q /\ x \in Seq(Nat) /\ L \in Nat /\ DOMAIN x = 1..L
    <3>1. x \in Seq(1..MaxParts)
      BY <1>2
    <3> HIDE DEF x
    <3>2. x \in Seq(Nat) /\ Len(x) \in Nat /\ DOMAIN x = 1..Len(x)
      BY <3>1, NumbersInNat
    <3> QED
      BY <1>5, <3>2 DEF Sends
  <2> HIDE DEF x, x1, q1, q, m, k
  <2>4. Len(line'[c]) = m + k /\ sent'[c] = m + k
    <3>1. Len(line[c] \o parts) = Len(line[c]) + k
      BY <1>2, <2>2, ExtendedElements DEF k
    <3> QED
      BY <1>1, <2>1, <3>1 DEF LineAt, m, k
  <2>5. /\ \A i \in DOMAIN x : x[i] \in 1..m
        /\ \A i \in DOMAIN q : q[i] \in 1..m
        /\ \A i, j \in DOMAIN x : i < j => x[i] < x[j]
        /\ \A i \in DOMAIN q, j \in DOMAIN x : q[i] < x[j]
        /\ m \in Nat
    BY <1>1, <1>2 DEF LineAt, Before, x, m, q
  <2>6. \A i \in DOMAIN x1 :
          /\ i \in Nat
          /\ \/ i \in DOMAIN x /\ x1[i] = x[i]
             \/ i > L /\ i - L \in 1..k /\ x1[i] = m + (i - L)
    <3>1. CASE x1 = x
      BY <2>3, <3>1
    <3>2. CASE x1 = x \o Numbers(m, k)
      <4>1. /\ DOMAIN x1 = 1..(L + k)
            /\ \A i \in 1..L : x1[i] = x[i]
            /\ \A i \in 1..k : x1[L + i] = m + i
        <5>1. k \in Nat /\ m \in Nat /\ x \in Seq(Nat)
          BY <2>2, <2>3, <2>5
        <5> QED
          BY <3>2, <5>1, SentElements
      <4> SUFFICES ASSUME NEW i \in 1..(L + k)
                   PROVE  \/ i \in 1..L /\ x1[i] = x[i]
                          \/ i > L /\ i - L \in 1..k /\ x1[i] = m + (i - L)
        BY <2>2, <2>3, <4>1
      <4> HIDE DEF L
      <4>2. CASE i <= L
        BY <2>2, <2>3, <4>1, <4>2
      <4>3. CASE i > L
        <5>1. i - L \in 1..k /\ L + (i - L) = i
          BY <2>2, <2>3, <4>3
        <5> QED
          BY <4>1, <4>3, <5>1
      <4> QED
        BY <2>2, <2>3, <4>2, <4>3
    <3> QED
      BY <2>1, <3>1, <3>2 DEF k
  <2> HIDE DEF L
  <2>7. /\ \A i \in DOMAIN x1 : x1[i] \in 1..(m + k)
        /\ \A i \in DOMAIN q1 : q1[i] \in 1..(m + k)
    <3>1. ASSUME NEW i \in DOMAIN x1 PROVE x1[i] \in 1..(m + k)
      <4>1. CASE i \in DOMAIN x /\ x1[i] = x[i]
        BY <2>2, <2>5, <4>1
      <4>2. CASE i - L \in 1..k /\ x1[i] = m + (i - L)
        BY <2>2, <2>5, <4>2
      <4> QED
        BY <2>6, <4>1, <4>2
    <3>2. \A i \in DOMAIN q1 : q1[i] \in 1..(m + k)
      BY <2>2, <2>3, <2>5
    <3> QED
      BY <3>1, <3>2
  <2>8. ASSUME NEW i \in DOMAIN x1, NEW j \in DOMAIN x1, i < j
        PROVE  x1[i] < x1[j]
    <3>1. CASE i \in DOMAIN x /\ x1[i] = x[i]
      <4>1. x[i] \in 1..m
        BY <2>5, <3>1
      <4>2. CASE j \in DOMAIN x /\ x1[j] = x[j]
        BY <2>5, <2>8, <3>1, <4>2
      <4>3. CASE j - L \in 1..k /\ x1[j] = m + (j - L)
        BY <2>2, <2>5, <3>1, <4>1, <4>3
      <4> QED
        BY <2>6, <4>2, <4>3
    <3>2. CASE i > L /\ i - L \in 1..k /\ x1[i] = m + (i - L)
      <4>1. j \notin DOMAIN x
        BY <2>3, <2>8, <3>2
      <4>2. j > L /\ j - L \in 1..k /\ x1[j] = m + (j - L)
        BY <2>6, <4>1
      <4>3. i \in Int /\ j \in Int /\ L \in Nat /\ m \in Nat
        BY <2>3, <2>5, <2>6
      <4> QED
        BY <2>8, <3>2, <4>2, <4>3
    <3> QED
      BY <2>6, <3>1, <3>2
  <2>9. ASSUME NEW i \in DOMAIN q1, NEW j \in DOMAIN x1
        PROVE  q1[i] < x1[j]
    <3>1. q1[i] = q[i] /\ i \in DOMAIN q /\ q[i] \in 1..m
      BY <2>3, <2>5
    <3> QED
      BY <2>5, <2>6, <3>1
  <2> QED
    BY <2>4, <2>7, <2>8, <2>9 DEF LineAt, Before, x1, q1
<1> QED
  BY <1>3, <1>4, <1>5, StepKinds

\* What was sent stays, so that a write that was requested is so for ever.
LEMMA RequestedStep ==
  ASSUME NetInv, StoreOK, LineInv, [Next]_vars, NEW r, Requested(r)
  PROVE  Requested(r)'
<1> DEFINE c == r.conn
           q == r.query
<1>1. c \in Conns /\ q \in Seq(1..MaxParts)
  BY DEF Requested, Record
<1>2. /\ sent[c] \in Nat /\ line[c] \in Seq(Texts) /\ Len(line[c]) = sent[c]
  BY <1>1, ServerAssumption DEF NetInv, TP!DataOK, StoreOK, LineInv, LineAt
<1>3. /\ sent'[c] \in Nat /\ sent[c] <= sent'[c]
      /\ \A i \in 1..sent[c] : line'[c][i] = line[c][i]
  <2>1. CASE Quiet(c) \/ Reads(c)
    BY <1>2, <2>1 DEF Quiet, Reads
  <2>2. CASE Sends(c)
    <3>1. PICK parts \in Lines :
            sent'[c] = sent[c] + Len(parts) /\ line'[c] = line[c] \o parts
      BY <2>2 DEF Sends
    <3>2. parts \in Seq(Texts) /\ Len(parts) \in Nat
      BY LineFacts
    <3>3. \A i \in 1..Len(line[c]) : (line[c] \o parts)[i] = line[c][i]
      BY <1>2, <3>2, ExtendedElements
    <3> QED
      BY <1>2, <3>1, <3>2, <3>3
  <2> QED
    BY <1>1, <2>1, <2>2, StepKinds
<1>4. \A i \in DOMAIN q : q[i] \in 1..sent[c]
  BY DEF Requested
<1> HIDE DEF c, q
<1>5. \A i \in DOMAIN q : q[i] \in 1..sent'[c] /\ line'[c][q[i]] = line[c][q[i]]
  BY <1>2, <1>3, <1>4
<1>6. TextOf(c, q)' = TextOf(c, q)
  <2>1. [i \in DOMAIN q |-> line'[c][q[i]]] = [i \in DOMAIN q |-> line[c][q[i]]]
    BY <1>5
  <2> QED
    BY <2>1 DEF TextOf
<1> QED
  BY <1>5, <1>6 DEF Requested, c, q

-----------------------------------------------------------------------------
(***************************************************************************)
(* The log.                                                                *)
(***************************************************************************)

\* Record r is at place j of group i.
InLog(i, j, r) == i \in DOMAIN log /\ j \in DOMAIN log[i] /\ log[i][j] = r

\* The records that the log holds are the ones at its places.
LEMMA LoggedPlace == \A r : r \in Store!Logged <=> \E i, j : InLog(i, j, r)
BY DEF Store!Logged, Store!ToSet, InLog

\* A group is made of different writes in doubt.
LEMMA ExtendFacts ==
  ASSUME StoreOK, Store!Extend
  PROVE  \E s \in Seq(Store!InDoubt) :
           /\ log' = Append(log, s)
           /\ \A i, j \in DOMAIN s : s[i] = s[j] => i = j
<1>1. PICK s \in Store!SetToAllKPermutations(Store!InDoubt) :
        log' = Append(log, s)
  BY DEF Store!Extend
<1>2. PICK T \in SUBSET Store!InDoubt : s \in Store!SetToSeqs(T)
  BY <1>1 DEF Store!SetToAllKPermutations
<1>3. IsFiniteSet(T)
  <2> DEFINE D == Store!Undecided
             E == {pend[c] : c \in D}
  <2>1. IsFiniteSet(D)
    BY ServerAssumption, FS_Subset DEF Store!Undecided
  <2> HIDE DEF D
  <2>2. IsFiniteSet(E)
    <3> DEFINE f == [c \in D |-> pend[c]]
    <3>1. f \in Surjection(D, E)
      BY DEF Surjection
    <3> HIDE DEF E, f
    <3> QED
      BY <2>1, <3>1, FS_Surjection
  <2>3. T \subseteq E
    BY <1>2 DEF Store!InDoubt, D
  <2> QED
    BY <2>2, <2>3, FS_Subset
<1> DEFINE n == Cardinality(T)
<1>4. n \in Nat
  BY <1>3, FS_CardinalityType
<1>5. Store!Cardinality(T) = n
  BY DEF Store!Cardinality, Cardinality
<1> HIDE DEF n
<1>6. s \in [1..n -> T] /\ \A i, j \in 1..n : i # j => s[i] # s[j]
  BY <1>2, <1>5 DEF Store!SetToSeqs
<1>7. s \in Seq(Store!InDoubt) /\ DOMAIN s = 1..n
  BY <1>2, <1>4, <1>6
<1> QED
  BY <1>1, <1>6, <1>7

\* What a new group adds.
LEMMA GroupAdded ==
  ASSUME StoreOK, NEW s \in Seq(Record), log' = Append(log, s)
  PROVE  /\ log' \in Seq(Seq(Record))
         /\ Len(log) \in Nat /\ DOMAIN log = 1..Len(log)
         /\ \A i, j, r :
              InLog(i, j, r)' <=>
                InLog(i, j, r) \/ (i = Len(log) + 1 /\ j \in DOMAIN s /\ s[j] = r)
         /\ \A r : r \in Store!Logged' <=>
                     r \in Store!Logged \/ \E j \in DOMAIN s : s[j] = r
<1> DEFINE Group == Seq(Record)
<1>1. log \in Seq(Group) /\ s \in Group
  BY DEF StoreOK
<1> HIDE DEF Group
<1>2. /\ log' \in Seq(Group) /\ Len(log) \in Nat
      /\ DOMAIN log = 1..Len(log) /\ DOMAIN log' = 1..(Len(log) + 1)
      /\ \A i \in 1..Len(log) : log'[i] = log[i]
      /\ log'[Len(log) + 1] = s
  BY <1>1
<1>3. \A i, j, r :
        InLog(i, j, r)' <=>
          InLog(i, j, r) \/ (i = Len(log) + 1 /\ j \in DOMAIN s /\ s[j] = r)
  BY <1>2 DEF InLog
<1>4. \A r : r \in Store!Logged' <=> \E i, j : InLog(i, j, r)'
  BY DEF Store!Logged, Store!ToSet, InLog
<1> QED
  BY <1>2, <1>3, <1>4, LoggedPlace DEF Group

\* A step leaves the log alone, or adds a group of writes in doubt to it;
\* then the process dies, or nothing else changes.
LEMMA LogKinds ==
  ASSUME StoreOK, PendInv, [Next]_vars
  PROVE  \/ log' = log
         \/ /\ Die \/ UNCHANGED <<tcpVars, pend, line>>
            /\ \E s \in Seq(Record) :
                 /\ log' = Append(log, s)
                 /\ \A i, j \in DOMAIN s : s[i] = s[j] => i = j
                 /\ \A i \in DOMAIN s :
                      /\ s[i] \notin Store!Logged
                      /\ \E c \in Conns : pend[c] # None /\ s[i] = pend[c]
<1>1. ASSUME Store!Extend
      PROVE  \E s \in Seq(Record) :
               /\ log' = Append(log, s)
               /\ \A i, j \in DOMAIN s : s[i] = s[j] => i = j
               /\ \A i \in DOMAIN s :
                    /\ s[i] \notin Store!Logged
                    /\ \E c \in Conns : pend[c] # None /\ s[i] = pend[c]
  <2>1. PICK s \in Seq(Store!InDoubt) :
          /\ log' = Append(log, s)
          /\ \A i, j \in DOMAIN s : s[i] = s[j] => i = j
    BY <1>1, ExtendFacts
  <2>2. \A r \in Store!InDoubt :
          /\ r \in Record /\ r \notin Store!Logged
          /\ \E c \in Conns : pend[c] # None /\ r = pend[c]
    BY DEF Store!InDoubt, Store!Undecided, StoreOK
  <2>3. \A i \in DOMAIN s : s[i] \in Store!InDoubt
    OBVIOUS
  <2>4. s \in Seq(Record)
    BY <2>2, SeqMonotonic
  <2> QED
    BY <2>1, <2>2, <2>3, <2>4
<1>2. CASE Engine
  BY <1>1, <1>2 DEF Engine, Store!Commit, Store!Resolve
<1>3. CASE Die
  BY <1>1, <1>3 DEF Die, Store!End
<1>4. CASE ~Engine /\ ~Die
  BY <1>4 DEF Next, vars, storeVars, Refuse, Get, BeginWrite, EndWrite, SendLine,
    Network, Client, Store!Begin, Store!Answer
<1> QED
  BY <1>2, <1>3, <1>4

\* Nothing leaves the log.
LEMMA LogGrows ==
  ASSUME StoreOK, PendInv, [Next]_vars
  PROVE  Store!Logged \subseteq Store!Logged'
<1>1. CASE log' = log
  BY <1>1 DEF Store!Logged, Store!ToSet
<1>2. ASSUME NEW s \in Seq(Record), log' = Append(log, s)
      PROVE  Store!Logged \subseteq Store!Logged'
  BY <1>2, GroupAdded
<1> QED
  BY <1>1, <1>2, LogKinds

\* The text of a query, and what the handler makes of it.
LEMMA TextFacts ==
  ASSUME NetInv, StoreOK, LineInv, NEW c \in Conns,
         NEW q \in Seq(1..MaxParts), q # <<>>,
         \A i \in DOMAIN q : q[i] \in 1..sent[c]
  PROVE  /\ TextOf(c, q) \in TextSet /\ TextOf(c, q) # <<>>
         /\ Len(q) = 1 => TextOf(c, q) = line[c][q[1]]
         /\ Len(q) # 1 /\ (\A n \in DOMAIN line[c] : WellFormed(line[c][n])) =>
              DatabaseHandler(TextOf(c, q)) = NoCall
<1> DEFINE N == Len(q)
           lines == [i \in DOMAIN q |-> line[c][q[i]]]
<1>1. N \in Nat \ {0} /\ DOMAIN q = 1..N
  BY EmptySeq
<1>2. /\ line[c] \in Seq(Texts)
      /\ Len(line[c]) = sent[c] /\ DOMAIN line[c] = 1..sent[c]
  BY DEF StoreOK, LineInv, LineAt
<1>3. \A i \in 1..N : line[c][q[i]] \in TextSet \ {<<>>}
  <2>1. Texts = TextSet \ {<<>>}
    BY LineFacts
  <2>2. ASSUME NEW i \in 1..N PROVE line[c][q[i]] \in Texts
    <3>1. q[i] \in 1..Len(line[c])
      BY <1>1, <1>2
    <3> QED
      BY <1>2, <3>1, ElementOfSeq
  <2> QED
    BY <2>1, <2>2
<1> HIDE DEF N
<1>4. lines = [i \in 1..N |-> line[c][q[i]]]
  BY <1>1
<1>5. /\ lines \in [1..N -> TextSet \ {<<>>}]
      /\ \A i \in 1..N : lines[i] = line[c][q[i]]
  BY <1>3, <1>4
<1>6. Len(lines) = N
  BY <1>1, <1>4
<1>7. TextOf(c, q) = GlueAll(lines)
  BY DEF TextOf
<1> HIDE DEF lines
<1>8. /\ GlueAll(lines) \in TextSet \ {<<>>}
      /\ N = 1 => GlueAll(lines) = lines[1]
      /\ N > 1 /\ (\A i \in 1..N : Len(lines[i]) >= 2) =>
           /\ Len(GlueAll(lines)) > Len(lines[1])
           /\ GlueAll(lines)[1] = lines[1][1]
  BY <1>1, <1>5, <1>6, GlueAllFacts
<1>9. ASSUME N # 1, \A n \in DOMAIN line[c] : WellFormed(line[c][n])
      PROVE  DatabaseHandler(GlueAll(lines)) = NoCall
  <2>1. \A i \in 1..N : lines[i] \in TextSet /\ lines[i] # <<>> /\ WellFormed(lines[i])
    BY <1>1, <1>2, <1>5, <1>9
  <2>2. \A i \in 1..N : Len(lines[i]) >= 2
    BY <2>1, CommandIsLong
  <2>3. N > 1 /\ 1 \in 1..N
    BY <1>1, <1>9
  <2> QED
    BY <1>8, <2>1, <2>2, <2>3, GluedIsRefused
<1>10. 1 \in 1..N
  BY <1>1
<1> QED
  BY <1>5, <1>7, <1>8, <1>9, <1>10 DEF N

-----------------------------------------------------------------------------
(***************************************************************************)
(* What a step can do to the write of a connection.                        *)
(***************************************************************************)

\* It is as it was, but for a verdict.
Waits(c) ==
  /\ pend'[c] = pend[c]
  /\ pend[c] # None => conn'[c] = "handle" /\ query'[c] = query[c]
  /\ \/ verdict'[c] = verdict[c]
     \/ pend[c] # None /\ (verdict'[c] = "ok" => pend[c] \in Store!Logged)

\* It is over.
Ends(c) == pend'[c] = None /\ verdict'[c] = "none" /\ conn'[c] # "handle"

\* It starts.
Begins(c) ==
  /\ conn[c] = "handle" /\ conn'[c] = "handle"
  /\ query'[c] = query[c]
  /\ pend[c] = None
  /\ pend'[c] = WriteOf(c)
  /\ CallOf(c).call \in {"Set", "Del"}
  /\ verdict'[c] = verdict[c]

\* While a write is in doubt its handler neither refuses nor reads.
LEMMA PendKinds ==
  ASSUME NetInv, StoreOK, PendInv, [Next]_vars, NEW d \in Conns
  PROVE  Waits(d) \/ Ends(d) \/ Begins(d)
<1> USE DEF Tcp!Goto, Tcp!netVars, Tcp!clientVars, storeVars
<1>0. /\ conn \in [Conns -> {"none", "queued", "accepted"} \cup TP!Serving \cup TP!Closed]
      /\ query \in [Conns -> Seq(1..MaxParts)]
      /\ pend \in [Conns -> Record \cup {None}]
      /\ verdict \in [Conns -> {"none", "ok", "err"}]
  BY DEF NetInv, TP!PlaceInv, TP!DataOK, StoreOK
<1>1. ASSUME pend[d] # None
      PROVE  conn[d] = "handle" /\ CallOf(d).call \in {"Set", "Del"}
  <2>1. /\ conn[d] = "handle" /\ pend[d].conn = d /\ pend[d].query = query[d]
        /\ Requested(pend[d])
    BY <1>1 DEF PendInv, PendAt
  <2>2. pend[d].call = CallOf(d)
    BY <2>1 DEF Requested, CallOf, Text, TextOf
  <2>3. pend[d].call.call \in {"Set", "Del"}
    BY <2>1 DEF Requested, Record
  <2> QED
    BY <2>1, <2>2, <2>3
<1>2. ASSUME NEW c \in Conns, Refuse(c) \/ Get(c) PROVE Waits(d)
  <2>1. /\ conn' = [conn EXCEPT ![c] = "write"] /\ query' = query
        /\ pend' = pend /\ verdict' = verdict
        /\ CallOf(c).call \in {"none", "Get"}
    BY <1>2 DEF Refuse, Get, Return, Tcp!Handle
  <2>2. pend[d] # None => c # d
    BY <1>1, <2>1
  <2> QED
    BY <1>0, <1>1, <2>1, <2>2 DEF Waits
<1>3. ASSUME NEW c \in Conns, BeginWrite(c) PROVE Waits(d) \/ Begins(d)
  <2>1. /\ conn' = conn /\ query' = query /\ verdict' = verdict
        /\ conn[c] = "handle" /\ pend[c] = None
        /\ CallOf(c).call \in {"Set", "Del"}
        /\ pend' = [pend EXCEPT ![c] = WriteOf(c)]
    BY <1>3 DEF BeginWrite, tcpVars, Store!Begin
  <2>2. CASE d = c
    BY <1>0, <2>1, <2>2 DEF Begins
  <2>3. CASE d # c
    BY <1>0, <1>1, <2>1, <2>3 DEF Waits
  <2> QED
    BY <2>2, <2>3
<1>4. ASSUME NEW c \in Conns, EndWrite(c) PROVE Waits(d) \/ Ends(d)
  <2>1. /\ conn' = [conn EXCEPT ![c] = "write"] /\ query' = query
        /\ pend' = [pend EXCEPT ![c] = None]
        /\ verdict' = [verdict EXCEPT ![c] = "none"]
    BY <1>4 DEF EndWrite, Return, Tcp!Handle, Store!Answer
  <2>2. CASE d = c
    BY <1>0, <2>1, <2>2 DEF Ends
  <2>3. CASE d # c
    BY <1>0, <1>1, <2>1, <2>3 DEF Waits
  <2> QED
    BY <2>2, <2>3
<1>5. ASSUME Engine PROVE Waits(d)
  <2>1. conn' = conn /\ query' = query
    BY <1>5 DEF Engine, tcpVars
  <2>2. CASE Store!Commit
    BY <1>1, <2>1, <2>2 DEF Store!Commit, Waits
  <2>3. ASSUME NEW c \in Store!Undecided, NEW v \in {"ok", "err"},
               Store!Resolve({c}, v)
        PROVE  Waits(d)
    BY <1>0, <1>1, <2>1, <2>3 DEF Store!Resolve, Store!Undecided, Waits
  <2> QED
    BY <1>5, <2>2, <2>3 DEF Engine
<1>6. ASSUME UNCHANGED <<pend, verdict>>,
             conn[d] = "handle" => conn'[d] = "handle" /\ query'[d] = query[d]
      PROVE  Waits(d)
  BY <1>1, <1>6 DEF Waits
<1>7. ASSUME NEW c \in Conns, NEW parts \in Lines, SendLine(c, parts)
      PROVE  Waits(d)
  BY <1>6, <1>7 DEF SendLine, Tcp!Send
<1>8. ASSUME Network PROVE Waits(d)
  <2>0. pend' = pend /\ verdict' = verdict
    BY <1>8 DEF Network
  <2>1. CASE Tcp!Shutdown \/ Tcp!HandleClientQueries
    BY <1>0, <1>6, <2>0, <2>1 DEF Tcp!Shutdown, Tcp!HandleClientQueries,
      Tcp!CloseListener, Tcp!WaitGroupDone
  <2>2. CASE Tcp!AcceptLoop
    BY <1>0, <1>6, <2>0, <2>2 DEF Tcp!AcceptLoop, Tcp!AcceptClosed,
      Tcp!Accept, Tcp!AcquireSlot
  <2>3. ASSUME NEW c \in Conns, Tcp!Read(c) PROVE Waits(d)
    <3>1. conn[d] = "handle" => d # c
      BY <2>3 DEF Tcp!Read
    <3> QED
      BY <1>0, <1>6, <2>0, <2>3, <3>1 DEF Tcp!Read
  <2>4. ASSUME NEW c \in Conns,
               \/ Tcp!ReadFails(c) \/ Tcp!Write(c) \/ Tcp!WriteFails(c)
               \/ Tcp!Close(c) \/ Tcp!ReleaseSlot(c)
        PROVE  Waits(d)
    BY <1>0, <1>6, <2>0, <2>4 DEF Tcp!ReadFails, Tcp!Write, Tcp!WriteFails,
      Tcp!Close, Tcp!ReleaseSlot
  <2> QED
    BY <1>8, <2>1, <2>2, <2>3, <2>4 DEF Network
<1>9. ASSUME Client PROVE Waits(d)
  <2>1. \A c \in Conns : cpc[c] = "off" => conn[c] # "handle"
    BY DEF NetInv, TP!PlaceInv
  <2> QED
    BY <1>0, <1>6, <1>9, <2>1 DEF Client, Tcp!Dial, Tcp!Receive, Tcp!Timeout,
      Tcp!ConnectionLost, Tcp!Leave
<1>10. ASSUME Die PROVE Ends(d)
  BY <1>10 DEF Die, Store!End, Ends
<1>11. ASSUME UNCHANGED vars PROVE Waits(d)
  BY <1>6, <1>11 DEF vars, tcpVars
<1> QED
  BY <1>2, <1>3, <1>4, <1>5, <1>7, <1>8, <1>9, <1>10, <1>11 DEF Next

\* A handler that works on a query has read one.
LEMMA HandledQuery ==
  ASSUME NetInv, NEW c \in Conns, conn[c] = "handle"
  PROVE  query[c] \in Seq(1..MaxParts) /\ query[c] # <<>>
BY DEF NetInv, TP!DataOK, TP!ReplyInv

\* A write that starts is what its lines ask for.
LEMMA BeginRequested ==
  ASSUME NetInv, StoreOK, LineInv, NEW c \in Conns,
         conn[c] = "handle", CallOf(c).call \in {"Set", "Del"}
  PROVE  Requested(WriteOf(c))
<1> DEFINE r == WriteOf(c)
           q == query[c]
           text == TextOf(c, q)
<1>1. q \in Seq(1..MaxParts) /\ q # <<>> /\ \A i \in DOMAIN q : q[i] \in 1..sent[c]
  BY HandledQuery DEF LineInv, LineAt
<1>2. text \in TextSet /\ text # <<>>
  BY <1>1, TextFacts
<1>3. CallOf(c) = DatabaseHandler(text)
  BY DEF CallOf, Text, TextOf
<1> HIDE DEF text
<1>4. DatabaseHandler(text) # NoCall
  BY <1>3 DEF NoCall, Call
<1>5. DatabaseHandler(text) \in [call : {"Set", "Get", "Del"}, args : Seq(Seq(Pieces))]
  BY <1>2, <1>4, HandlerFacts
<1>6. CallOf(c) \in [call : {"Set", "Del"}, args : Seq(Seq(Pieces))]
  BY <1>3, <1>5
<1>7. r.conn = c /\ r.query = q /\ r.call = CallOf(c)
  BY DEF WriteOf
<1>8. r \in Record
  BY <1>1, <1>6 DEF WriteOf, Record
<1> HIDE DEF r
<1> QED
  BY <1>1, <1>3, <1>7, <1>8 DEF Requested, text, r

-----------------------------------------------------------------------------
(***************************************************************************)
(* The invariant of the store is kept.                                     *)
(***************************************************************************)

\* Types.
LEMMA StoreStep ==
  ASSUME NetInv, StoreOK, LineInv, PendInv, [Next]_vars
  PROVE  StoreOK'
<1>1. log' \in Seq(Seq(Record))
  <2>1. CASE log' = log
    BY <2>1 DEF StoreOK
  <2>2. ASSUME NEW s \in Seq(Record), log' = Append(log, s)
        PROVE  log' \in Seq(Seq(Record))
    BY <2>2, GroupAdded
  <2> QED
    BY <2>1, <2>2, LogKinds
<1>2. \A r : Requested(r) => r \in Record
  BY DEF Requested
<1>3. \A c \in Conns :
        /\ pend[c] \in Record \cup {None}
        /\ verdict[c] \in {"none", "ok", "err"}
        /\ verdict[c] # "none" => pend[c] \in Record
  BY DEF StoreOK, PendInv, PendAt
<1>4. ASSUME NEW c \in Conns, BeginWrite(c)
      PROVE  pend' \in [Conns -> Record \cup {None}] /\ UNCHANGED <<verdict, acked>>
  <2> DEFINE r == WriteOf(c)
  <2>1. r \in Record
    BY <1>2, <1>4, BeginRequested DEF BeginWrite
  <2>2. pend' = [pend EXCEPT ![c] = r] /\ UNCHANGED <<verdict, acked>>
    BY <1>4 DEF BeginWrite, Store!Begin
  <2> HIDE DEF r
  <2> QED
    BY <2>1, <2>2 DEF StoreOK
<1>5. /\ pend' \in [Conns -> Record \cup {None}]
      /\ verdict' \in [Conns -> {"none", "ok", "err"}]
      /\ acked' \subseteq Record
  <2>1. ASSUME UNCHANGED storeVars
        PROVE  /\ pend' \in [Conns -> Record \cup {None}]
               /\ verdict' \in [Conns -> {"none", "ok", "err"}]
               /\ acked' \subseteq Record
    BY <2>1 DEF StoreOK, storeVars
  <2>2. ASSUME NEW c \in Conns, EndWrite(c)
        PROVE  /\ pend' \in [Conns -> Record \cup {None}]
               /\ verdict' \in [Conns -> {"none", "ok", "err"}]
               /\ acked' \subseteq Record
    BY <1>3, <2>2 DEF EndWrite, Store!Answer, StoreOK
  <2>3. CASE Engine
    BY <2>3 DEF Engine, Store!Commit, Store!Resolve, StoreOK
  <2>4. CASE Die
    BY <2>4 DEF Die, Store!End, StoreOK
  <2>5. ASSUME ~Engine, ~Die, ~\E c \in Conns : BeginWrite(c) \/ EndWrite(c)
        PROVE  UNCHANGED storeVars
    BY <2>5 DEF Next, vars, Refuse, Get, SendLine, Network, Client
  <2> QED
    BY <1>4, <2>1, <2>2, <2>3, <2>4, <2>5 DEF StoreOK
<1>6. line' \in [Conns -> Seq(Texts)]
  <2>1. ASSUME NEW c \in Conns, NEW parts \in Lines, SendLine(c, parts)
        PROVE  line' \in [Conns -> Seq(Texts)]
    <3>1. line[c] \in Seq(Texts) /\ parts \in Seq(Texts) /\ Len(parts) \in Nat
      BY LineFacts DEF StoreOK
    <3>2. line[c] \o parts \in Seq(Texts)
      BY <3>1, ExtendedElements
    <3> QED
      BY <2>1, <3>2 DEF SendLine, StoreOK
  <2>2. CASE line' = line
    BY <2>2 DEF StoreOK
  <2>3. ASSUME ~\E c \in Conns, parts \in Lines : SendLine(c, parts)
        PROVE  line' = line
    BY <2>3 DEF Next, vars, Refuse, Get, BeginWrite, EndWrite, Engine,
      Network, Client, Die
  <2> QED
    BY <2>1, <2>2, <2>3
<1>7. told' \in [Conns -> SUBSET (Seq(1..MaxParts) \X Replies)]
  <2>1. ASSUME NEW c \in Conns, NEW reply \in Replies,
               told' = [told EXCEPT ![c] = @ \cup {<<query[c], reply>>}]
        PROVE  told' \in [Conns -> SUBSET (Seq(1..MaxParts) \X Replies)]
    <3> DEFINE Q == Seq(1..MaxParts)
    <3>1. query[c] \in Q /\ told \in [Conns -> SUBSET (Q \X Replies)]
      BY DEF NetInv, TP!DataOK, StoreOK
    <3> HIDE DEF Q
    <3>2. told[c] \cup {<<query[c], reply>>} \in SUBSET (Q \X Replies)
      BY <3>1
    <3>3. told' \in [Conns -> SUBSET (Q \X Replies)]
      BY <2>1, <3>1, <3>2
    <3> QED
      BY <3>3 DEF Q
  <2>2. CASE told' = told
    BY <2>2 DEF StoreOK
  <2>3. ASSUME NEW c \in Conns, Refuse(c) \/ Get(c) \/ EndWrite(c)
        PROVE  \E reply \in Replies :
                 told' = [told EXCEPT ![c] = @ \cup {<<query[c], reply>>}]
    <3>1. \A call, result : WriteReply(call, result) \in Replies
      BY DEF WriteReply, Replies
    <3>2. "refused" \in Replies /\ "VALUE or NOT_FOUND" \in Replies
      BY DEF Replies
    <3> QED
      BY <2>3, <3>1, <3>2 DEF Refuse, Get, EndWrite, Return
  <2>4. ASSUME ~\E c \in Conns : Refuse(c) \/ Get(c) \/ EndWrite(c)
        PROVE  told' = told
    BY <2>4 DEF Next, vars, BeginWrite, SendLine, Engine, Network, Client, Die
  <2> QED
    BY <2>1, <2>2, <2>3, <2>4
<1>8. up' \in BOOLEAN
  BY DEF StoreOK, Next, vars, Refuse, Get, BeginWrite, EndWrite, SendLine,
    Engine, Network, Client, Die
<1> QED
  BY <1>1, <1>5, <1>6, <1>7, <1>8 DEF StoreOK

\* Writes in doubt.
LEMMA PendStep ==
  ASSUME NetInv, StoreOK, LineInv, PendInv, [Next]_vars
  PROVE  PendInv'
<1> SUFFICES ASSUME NEW c \in Conns PROVE PendAt(c)'
  BY DEF PendInv
<1>1. PendAt(c)
  BY DEF PendInv
<1>2. \A r : Requested(r) => Requested(r)'
  BY RequestedStep
<1>3. Store!Logged \subseteq Store!Logged'
  BY LogGrows
<1>4. CASE Waits(c)
  <2>1. ASSUME pend'[c] # None
        PROVE  /\ conn'[c] = "handle" /\ pend'[c].conn = c
               /\ pend'[c].query = query'[c] /\ Requested(pend[c])'
    BY <1>1, <1>2, <1>4, <2>1 DEF Waits, PendAt
  <2> QED
    BY <1>1, <1>3, <1>4, <2>1 DEF Waits, PendAt
<1>5. CASE Ends(c)
  BY <1>5 DEF Ends, PendAt
<1>6. CASE Begins(c)
  <2>1. Requested(pend'[c])
    BY <1>6, BeginRequested DEF Begins
  <2>2. WriteOf(c).conn = c /\ WriteOf(c).query = query[c]
    BY DEF WriteOf
  <2> QED
    BY <1>1, <1>2, <1>6, <2>1, <2>2 DEF Begins, PendAt
<1> QED
  BY <1>4, <1>5, <1>6, PendKinds

\* What is in the log.
LEMMA LoggedStep ==
  ASSUME NetInv, StoreOK, LineInv, PendInv, LoggedInv, [Next]_vars
  PROVE  LoggedInv'
<1> SUFFICES ASSUME NEW r, r \in Store!Logged' PROVE LoggedAt(r)'
  BY DEF LoggedInv
<1> DEFINE c == r.conn
           q == r.query
<1>1. CASE r \in Store!Logged
  <2>1. LoggedAt(r)
    BY <1>1 DEF LoggedInv
  <2>2. Requested(r) /\ Requested(r)'
    BY <2>1, RequestedStep DEF LoggedAt
  <2>3. c \in Conns /\ q \in Seq(1..MaxParts)
    BY <2>2 DEF Requested, Record
  <2>4. /\ inbox[c] \in Seq(1..MaxParts) /\ sent[c] \in Nat
        /\ \A i \in DOMAIN q : q[i] \in 1..sent[c]
        /\ \A i \in DOMAIN q, j \in DOMAIN inbox[c] : q[i] < inbox[c][j]
    BY <2>1, <2>2, <2>3, ServerAssumption
      DEF NetInv, TP!DataOK, LoggedAt, Requested, Before
  <2> HIDE DEF c, q
  <2> DEFINE x == inbox[c]
             x1 == inbox'[c]
  <2>5. Before(q, x1)
    <3>1. CASE Quiet(c)
      BY <2>4, <3>1 DEF Quiet, Before
    <3>2. CASE Reads(c)
      <4>1. PICK n \in Nat \ {0} :
              n <= Len(x) /\ x1 = SubSeq(x, n + 1, Len(x))
        BY <3>2 DEF Reads
      <4>2. \A i \in DOMAIN x1 : \E j \in DOMAIN x : x1[i] = x[j]
        BY <2>4, <4>1, CutElements
      <4> QED
        BY <2>4, <4>2 DEF Before
    <3>3. CASE Sends(c)
      <4>1. PICK parts \in Lines :
              x1 = x \/ x1 = x \o Numbers(sent[c], Len(parts))
        BY <3>3 DEF Sends
      <4>2. CASE x1 = x
        BY <2>4, <4>2 DEF Before
      <4>3. CASE x1 = x \o Numbers(sent[c], Len(parts))
        <5> DEFINE k == Len(parts)
                   L == Len(x)
        <5>1. k \in Nat /\ x \in Seq(Nat) /\ L \in Nat /\ DOMAIN x = 1..L
          <6>1. x \in Seq(1..MaxParts)
            BY <2>4
          <6> HIDE DEF x
          <6> QED
            BY <6>1, LineFacts, NumbersInNat
        <5> HIDE DEF x, x1, k
        <5>2. /\ DOMAIN x1 = 1..(L + k)
              /\ \A i \in 1..L : x1[i] = x[i]
              /\ \A i \in 1..k : x1[L + i] = sent[c] + i
          BY <2>4, <4>3, <5>1, SentElements DEF k
        <5> HIDE DEF L
        <5>3. \A i \in DOMAIN q, j \in 1..L : q[i] < x[j]
          BY <2>4, <5>1 DEF x
        <5>4. ASSUME NEW i \in DOMAIN q, NEW j \in 1..(L + k)
              PROVE  q[i] < x1[j]
          <6>1. CASE j <= L
            BY <5>1, <5>2, <5>3, <6>1
          <6>2. CASE j > L
            <7>1. j - L \in 1..k /\ L + (j - L) = j
              BY <5>1, <6>2
            <7> QED
              BY <2>4, <5>2, <7>1
          <6> QED
            BY <5>1, <6>1, <6>2
        <5> QED
          BY <5>2, <5>4 DEF Before
      <4> QED
        BY <4>1, <4>2, <4>3
    <3> QED
      BY <2>3, <3>1, <3>2, <3>3, StepKinds
  <2>6. ASSUME conn'[c] = "handle"
        PROVE  (pend'[c] # None /\ r = pend'[c]) \/ Before(q, query'[c])
    <3>1. CASE Reads(c)
      <4>1. PICK n \in Nat \ {0} : n <= Len(x) /\ query'[c] = SubSeq(x, 1, n)
        BY <3>1 DEF Reads
      <4>2. \A i \in DOMAIN query'[c] : \E j \in DOMAIN x : query'[c][i] = x[j]
        BY <2>4, <4>1, CutElements
      <4> QED
        BY <2>4, <4>2 DEF Before
    <3>2. CASE Quiet(c) \/ Sends(c)
      <4>1. conn[c] = "handle" /\ query'[c] = query[c]
        BY <2>6, <3>2 DEF Quiet, Sends
      <4>2. (pend[c] # None /\ r = pend[c]) \/ Before(q, query[c])
        BY <2>1, <4>1 DEF LoggedAt, c, q
      <4>3. pend[c] # None => pend'[c] = pend[c]
        BY <2>3, <2>6, PendKinds DEF Waits, Ends, Begins
      <4> QED
        BY <4>1, <4>2, <4>3
    <3> QED
      BY <2>3, <3>1, <3>2, StepKinds
  <2> QED
    BY <2>2, <2>5, <2>6 DEF LoggedAt, c, q
<1>2. CASE r \notin Store!Logged
  <2>1. log' # log
    BY <1>2 DEF Store!Logged, Store!ToSet
  <2>2. PICK s \in Seq(Record) :
          /\ Die \/ UNCHANGED <<tcpVars, pend, line>>
          /\ log' = Append(log, s)
          /\ \A i \in DOMAIN s : \E d \in Conns : pend[d] # None /\ s[i] = pend[d]
    BY <2>1, LogKinds
  <2>3. PICK d \in Conns : pend[d] # None /\ r = pend[d]
    <3>1. \E j \in DOMAIN s : s[j] = r
      <4>1. r \in Store!Logged' <=>
              r \in Store!Logged \/ \E j \in DOMAIN s : s[j] = r
        BY <2>2, GroupAdded
      <4> QED
        BY <1>2, <4>1
    <3> QED
      BY <2>2, <3>1
  <2>4. /\ c = d /\ q = query[d] /\ conn[d] = "handle" /\ Requested(r)
        /\ Before(q, inbox[d])
    BY <2>3 DEF PendInv, PendAt, LineInv, LineAt
  <2>5. Requested(r)'
    BY <2>4, RequestedStep
  <2> HIDE DEF c, q
  <2>6. CASE Die
    <3>1. inbox'[d] = <<>> /\ conn'[d] # "handle"
      BY <2>6 DEF Die
    <3> QED
      BY <2>4, <2>5, <3>1 DEF LoggedAt, Before, c, q
  <2>7. CASE UNCHANGED <<tcpVars, pend, line>>
    <3>1. inbox' = inbox /\ pend' = pend
      BY <2>7 DEF tcpVars
    <3> QED
      BY <2>3, <2>4, <2>5, <3>1 DEF LoggedAt, Before, c, q
  <2> QED
    BY <2>2, <2>6, <2>7
<1> QED
  BY <1>1, <1>2

\* The order of the log.
LEMMA OrderStep ==
  ASSUME NetInv, StoreOK, LineInv, PendInv, LoggedInv, OrderInv, [Next]_vars
  PROVE  OrderInv'
<1>1. CASE log' = log
  BY <1>1 DEF OrderInv
<1>2. CASE log' # log
  <2>1. PICK s \in Seq(Record) :
          /\ log' = Append(log, s)
          /\ \A i, j \in DOMAIN s : s[i] = s[j] => i = j
          /\ \A i \in DOMAIN s :
               /\ s[i] \notin Store!Logged
               /\ \E d \in Conns : pend[d] # None /\ s[i] = pend[d]
    BY <1>2, LogKinds
  <2>2. /\ Len(log) \in Nat /\ DOMAIN log = 1..Len(log)
        /\ \A i, j, r :
             InLog(i, j, r)' <=>
               InLog(i, j, r) \/ (i = Len(log) + 1 /\ j \in DOMAIN s /\ s[j] = r)
    BY <2>1, GroupAdded
  <2>3. \A i \in DOMAIN s :
          LET d == s[i].conn
          IN  /\ d \in Conns /\ pend[d] # None /\ s[i] = pend[d]
              /\ conn[d] = "handle" /\ s[i].query = query[d]
    BY <2>1 DEF PendInv, PendAt
  <2> SUFFICES ASSUME NEW i, NEW j, NEW k, NEW l, NEW a, NEW b,
                      InLog(i, j, a)', InLog(k, l, b)',
                      i < k \/ (i = k /\ j < l), a.conn = b.conn
               PROVE  Before(a.query, b.query)
    BY DEF OrderInv, InLog, Before
  <2>4. CASE InLog(k, l, b)
    <3>1. k \in 1..Len(log)
      BY <2>2, <2>4 DEF InLog
    <3>2. i # Len(log) + 1
      BY <2>2, <3>1
    <3>3. InLog(i, j, a)
      BY <2>2, <3>2
    <3> QED
      BY <2>4, <3>3 DEF OrderInv, InLog
  <2>5. CASE k = Len(log) + 1 /\ l \in DOMAIN s /\ s[l] = b
    <3> DEFINE d == b.conn
    <3>1. /\ d \in Conns /\ pend[d] # None /\ b = pend[d]
          /\ conn[d] = "handle" /\ b.query = query[d] /\ b \notin Store!Logged
      BY <2>1, <2>3, <2>5
    <3>2. CASE InLog(i, j, a)
      <4>1. a \in Store!Logged
        BY <3>2, LoggedPlace
      <4>2. LoggedAt(a) /\ a # b
        BY <3>1, <4>1 DEF LoggedInv
      <4>3. Before(a.query, query[d])
        BY <3>1, <4>2 DEF LoggedAt
      <4> QED
        BY <3>1, <4>3
    <3>3. CASE i = Len(log) + 1 /\ j \in DOMAIN s /\ s[j] = a
      <4>1. a = pend[d]
        BY <2>3, <3>3
      <4>2. j = l
        BY <2>1, <2>5, <3>1, <3>3, <4>1
      <4>3. j \in Nat
        BY <3>3
      <4> QED
        BY <2>2, <2>5, <3>3, <4>2, <4>3
    <3> QED
      BY <2>2, <3>2, <3>3
  <2> QED
    BY <2>2, <2>4, <2>5
<1> QED
  BY <1>1, <1>2

\* Replies.
LEMMA ToldStep ==
  ASSUME NetInv, StoreOK, PendInv, ToldInv, [Next]_vars
  PROVE  ToldInv'
<1> SUFFICES ASSUME NEW c \in Conns, NEW t \in told'[c],
                    t[2] \in {"OK", "DELETED"}
             PROVE  \E r \in Store!Logged' : r.conn = c /\ r.query = t[1]
  BY DEF ToldInv
<1>1. Store!Logged \subseteq Store!Logged'
  BY LogGrows
<1> SUFFICES \E r \in Store!Logged : r.conn = c /\ r.query = t[1]
  BY <1>1
<1>2. CASE t \in told[c]
  BY <1>2 DEF ToldInv
<1>3. CASE t \notin told[c]
  <2>1. PICK d \in Conns : Refuse(d) \/ Get(d) \/ EndWrite(d)
    BY <1>3 DEF Next, vars, BeginWrite, SendLine, Engine, Network, Client, Die
  <2>2. CASE EndWrite(d)
    <3>1. /\ verdict[d] # "none"
          /\ told' = [told EXCEPT ![d] = @ \cup
               {<<query[d], WriteReply(pend[d].call.call, verdict[d])>>}]
      BY <2>2 DEF EndWrite, Return, Store!Answer
    <3>2. d = c /\ t = <<query[d], WriteReply(pend[d].call.call, verdict[d])>>
      BY <1>3, <3>1 DEF StoreOK
    <3>3. verdict[d] = "ok"
      BY <3>2 DEF WriteReply
    <3> QED
      BY <3>1, <3>2, <3>3 DEF PendInv, PendAt
  <2>3. CASE Refuse(d) \/ Get(d)
    <3>1. PICK reply \in {"refused", "VALUE or NOT_FOUND"} :
            told' = [told EXCEPT ![d] = @ \cup {<<query[d], reply>>}]
      BY <2>3 DEF Refuse, Get, Return
    <3>2. t = <<query[d], reply>>
      BY <1>3, <3>1 DEF StoreOK
    <3> QED
      BY <3>2
  <2> QED
    BY <2>1, <2>2, <2>3
<1> QED
  BY <1>2, <1>3

-----------------------------------------------------------------------------
(***************************************************************************)
(* Theorems.                                                               *)
(***************************************************************************)

IInv == NetInv /\ StoreInv

\* Initially nothing has been sent, logged or told.
LEMMA InitIInv == Init => IInv
<1> SUFFICES ASSUME Init PROVE IInv
  OBVIOUS
<1>1. NetInv
  BY InitNet
<1>2. StoreOK
  <2>1. log \in Seq(Seq(Record))
    BY EmptySeq DEF Init, Store!Init
  <2>2. line \in [Conns -> Seq(Texts)]
    BY EmptySeq DEF Init
  <2> QED
    BY <2>1, <2>2 DEF Init, Store!Init, StoreOK
<1>3. LineInv
  <2> SUFFICES ASSUME NEW c \in Conns PROVE LineAt(c)
    BY DEF LineInv
  <2>1. line[c] = <<>> /\ sent[c] = 0 /\ inbox[c] = <<>> /\ query[c] = <<>>
    BY DEF Init, Tcp!Init
  <2> QED
    BY <2>1 DEF LineAt, Before
<1>4. PendInv /\ ToldInv
  BY DEF Init, Store!Init, PendInv, PendAt, ToldInv
<1>5. log = <<>>
  BY DEF Init, Store!Init
<1>6. LoggedInv /\ OrderInv
  BY <1>5 DEF LoggedInv, Store!Logged, OrderInv
<1> QED
  BY <1>1, <1>2, <1>3, <1>4, <1>6 DEF IInv, StoreInv

\* Every step keeps the invariant.
LEMMA NextIInv == IInv /\ [Next]_vars => IInv'
BY NetInvStep, StoreStep, LineStep, PendStep, LoggedStep, OrderStep, ToldStep
  DEF IInv, StoreInv

\* The state of the whole service keeps its types; in particular a handler
\* always has one of the replies of the code to give.
THEOREM TypeCorrect == Spec => []TypeOK
<1>1. IInv => TypeOK
  <2> SUFFICES ASSUME IInv PROVE TypeOK
    OBVIOUS
  <2>1. Tcp!TypeOK
    BY DEF IInv, NetInv, TP!PlaceInv, TP!DataOK, TP!SemP!IInv, TP!SemP!TypeOK,
      Tcp!TypeOK, Tcp!Sem!TypeOK, TP!Serving, Tcp!Serving, TP!Closed,
      Tcp!Closed
  <2> QED
    BY <2>1 DEF IInv, StoreInv, StoreOK, TypeOK
<1> QED
  BY <1>1, InitIInv, NextIInv, PTL DEF Spec

\* For any number of clients and lines: a client that types well-formed
\* commands, none of which is cut, finds nothing in the log but its own
\* lines, each at most once and in the order they were typed, however its
\* requests were merged, answered, timed out or lost with the process.
THEOREM LogsOnlyRequests == Spec => []OnlyRequestedWrites
<1>1. IInv => OnlyRequestedWrites
  <2> SUFFICES ASSUME IInv, NEW c \in Conns \ long,
                      \A n \in DOMAIN line[c] : WellFormed(line[c][n])
               PROVE  /\ \A p \in LogOf(c) :
                           \E n \in DOMAIN line[c] :
                             /\ log[p[1]][p[2]].query = <<n>>
                             /\ log[p[1]][p[2]].call = DatabaseHandler(line[c][n])
                      /\ \A p, q \in LogOf(c) :
                           Precedes(p, q) =>
                             Head(log[p[1]][p[2]].query)
                               < Head(log[q[1]][q[2]].query)
    BY DEF OnlyRequestedWrites
  <2> USE DEF IInv, StoreInv
  <2>1. \A p \in LogOf(c) :
          /\ p[1] \in DOMAIN log /\ p[2] \in DOMAIN log[p[1]]
          /\ InLog(p[1], p[2], log[p[1]][p[2]])
          /\ log[p[1]][p[2]].conn = c
    BY DEF LogOf, Places, InLog
  <2>2. ASSUME NEW p \in LogOf(c)
        PROVE  LET r == log[p[1]][p[2]]
               IN  \E n \in DOMAIN line[c] :
                     r.query = <<n>> /\ r.call = DatabaseHandler(line[c][n])
    <3> DEFINE r == log[p[1]][p[2]]
               q == r.query
    <3>1. r \in Store!Logged /\ r.conn = c
      BY <2>1, LoggedPlace
    <3>2. Requested(r)
      BY <3>1 DEF LoggedInv, LoggedAt
    <3> HIDE DEF r
    <3>3. /\ q \in Seq(1..MaxParts) /\ q # <<>>
          /\ \A i \in DOMAIN q : q[i] \in 1..sent[c]
          /\ r.call = DatabaseHandler(TextOf(c, q))
          /\ r.call.call \in {"Set", "Del"}
      BY <3>1, <3>2 DEF Requested, Record
    <3>4. DatabaseHandler(TextOf(c, q)) # NoCall
      BY <3>3 DEF NoCall, Call
    <3>5. Len(q) = 1 /\ TextOf(c, q) = line[c][q[1]]
      BY <3>3, <3>4, TextFacts
    <3>6. q = <<q[1]>> /\ 1 \in DOMAIN q
      BY <3>3, <3>5
    <3>7. q[1] \in DOMAIN line[c]
      <4>1. line[c] \in Seq(Texts) /\ Len(line[c]) = sent[c]
        BY DEF StoreOK, LineInv, LineAt
      <4>2. DOMAIN line[c] = 1..sent[c]
        BY <4>1
      <4> QED
        BY <3>3, <3>6, <4>2
    <3> QED
      BY <3>3, <3>5, <3>6, <3>7 DEF r
  <2>3. ASSUME NEW p \in LogOf(c), NEW q \in LogOf(c), Precedes(p, q)
        PROVE  Head(log[p[1]][p[2]].query) < Head(log[q[1]][q[2]].query)
    <3> DEFINE a == log[p[1]][p[2]].query
               b == log[q[1]][q[2]].query
    <3>1. Before(a, b)
      BY <2>1, <2>3 DEF OrderInv, Precedes
    <3>2. PICK m : a = <<m>>
      BY <2>2
    <3>3. PICK n : b = <<n>>
      BY <2>2
    <3> HIDE DEF a, b
    <3>4. m < n
      BY <3>1, <3>2, <3>3 DEF Before
    <3>5. Head(a) = m /\ Head(b) = n
      BY <3>2, <3>3
    <3> QED
      BY <3>4, <3>5 DEF a, b
  <2> QED
    BY <2>2, <2>3
<1> QED
  BY <1>1, InitIInv, NextIInv, PTL DEF Spec

\* Whoever has always waited for the reply, with requests and replies of one
\* part, and reads OK or DELETED has its write in the durable log, whatever
\* has become of the server meanwhile.
THEOREM AnswersAreKept == Spec => []AnswersAreTrue
<1>1. IInv => AnswersAreTrue
  <2> SUFFICES ASSUME IInv, NEW c \in Conns \ (late \cup long), answer[c] # None,
                      NEW reply \in {"OK", "DELETED"},
                      <<answer[c][1], reply>> \in told[c]
               PROVE  \E r \in Store!Logged :
                        /\ r.conn = c
                        /\ r.call = DatabaseHandler(line[c][sent[c]])
                        /\ r.query = <<sent[c]>>
    BY DEF AnswersAreTrue
  <2> USE DEF IInv, StoreInv
  <2>1. answer[c] = <<<<sent[c]>>>>
    BY DEF NetInv, TP!ReplyInv, TP!ChannelInv
  <2>2. <<<<sent[c]>>, reply>> \in told[c]
    BY <2>1
  <2>3. PICK r \in Store!Logged : r.conn = c /\ r.query = <<sent[c]>>
    BY <2>2 DEF ToldInv
  <2>4. Requested(r)
    BY DEF LoggedInv, LoggedAt
  <2>5. /\ r.query \in Seq(1..MaxParts) /\ r.query # <<>>
        /\ \A i \in DOMAIN r.query : r.query[i] \in 1..sent[c]
        /\ r.call = DatabaseHandler(TextOf(c, r.query))
    BY <2>3, <2>4 DEF Requested, Record
  <2>6. Len(r.query) = 1 /\ r.query[1] = sent[c]
    BY <2>3
  <2>7. TextOf(c, r.query) = line[c][sent[c]]
    BY <2>5, <2>6, TextFacts
  <2> QED
    BY <2>3, <2>5, <2>7
<1> QED
  BY <1>1, InitIInv, NextIInv, PTL DEF Spec

\* Also in the whole service, killed or not, a client that has never given up
\* on a reply, and whose requests and replies are in one part each, reads the
\* reply to the request it has just sent, alone.
THEOREM RepliesStayMatched == Spec => []RepliesMatch
<1>1. IInv => RepliesMatch
  BY DEF IInv, NetInv, TP!ReplyInv, TP!ChannelInv, RepliesMatch, Tcp!RepliesMatch
<1> QED
  BY <1>1, InitIInv, NextIInv, PTL DEF Spec

\* No query is handed to the engine twice, for any number of clients and
\* however requests are cut or merged; so the engine never finds a write it
\* knows.
THEOREM WritesStayFresh == Spec => []WritesAreFresh
<1>1. IInv => WritesAreFresh
  <2> SUFFICES ASSUME IInv, NEW c \in Conns, conn[c] = "handle", pend[c] = None,
                      CallOf(c).call \in {"Set", "Del"}
               PROVE  /\ WriteOf(c) \notin Store!Logged
                      /\ \A d \in Conns : pend[d] # WriteOf(c)
    BY DEF WritesAreFresh
  <2> USE DEF IInv, StoreInv
  <2>1. /\ query[c] \in Seq(1..MaxParts) /\ query[c] # <<>>
        /\ WriteOf(c).conn = c /\ WriteOf(c).query = query[c]
    BY HandledQuery DEF WriteOf
  <2>2. WriteOf(c) \in Record
    BY BeginRequested DEF Requested
  <2> HIDE DEF WriteOf
  <2>3. ASSUME WriteOf(c) \in Store!Logged PROVE FALSE
    <3>1. LoggedAt(WriteOf(c))
      BY <2>3 DEF LoggedInv
    <3>2. Before(query[c], query[c])
      BY <2>1, <3>1 DEF LoggedAt
    <3>3. 1 \in DOMAIN query[c] /\ query[c][1] \in 1..MaxParts
      <4>1. Len(query[c]) \in Nat \ {0} /\ DOMAIN query[c] = 1..Len(query[c])
        BY <2>1, EmptySeq
      <4>2. 1 \in 1..Len(query[c])
        BY <4>1
      <4> QED
        BY <2>1, <4>1, <4>2, ElementOfSeq
    <3> QED
      BY <3>2, <3>3 DEF Before
  <2>4. ASSUME NEW d \in Conns, pend[d] = WriteOf(c) PROVE FALSE
    <3>1. pend[d] # None
      BY <2>2, <2>4, NoneAssumption
    <3>2. pend[d].conn = d
      BY <3>1 DEF PendInv, PendAt
    <3> QED
      BY <2>1, <2>4, <3>1, <3>2
  <2> QED
    BY <2>3, <2>4
<1> QED
  BY <1>1, InitIInv, NextIInv, PTL DEF Spec

=============================================================================
