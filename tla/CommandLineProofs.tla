--------------------------- MODULE CommandLineProofs ---------------------------
(***************************************************************************)
(* Proofs about the command line, whatever is typed, whatever the dofiles  *)
(* are and whenever a SIGINT comes: how readers and threads nest, that a   *)
(* SIGINT stops one command, that the history is what ran, and that names  *)
(* find what they name.                                                    *)
(***************************************************************************)
EXTENDS CommandLine, CircuitProofs, SequenceTheorems

-----------------------------------------------------------------------------
(* Sequences whose members are of no certain set                           *)

IsSequence(s) == Len(s) \in Nat /\ s = [i \in 1 .. Len(s) |-> s[i]]

LEMMA SequenceIn ==
    ASSUME NEW s, IsSequence(s), NEW S, \A i \in 1 .. Len(s) : s[i] \in S
    PROVE  s \in Seq(S)
  BY DEF IsSequence

\* A member of a Seq is one, ...
LEMMA IsSequenceIn == ASSUME NEW S, NEW s \in Seq(S) PROVE IsSequence(s)
<1>1. Len(s) \in Nat /\ s \in [1 .. Len(s) -> S]
  BY LenProperties
<1>. QED
  BY <1>1 DEF IsSequence

\* ... and empty only if it has no members.
LEMMA EmptyOrNot == ASSUME NEW s, IsSequence(s) PROVE s = <<>> <=> Len(s) = 0
<1>1. PICK n \in Nat : n = Len(s)
  BY DEF IsSequence
<1>. DEFINE S == {s[i] : i \in 1 .. n}
<1>2. s \in Seq(S)
  <2>1. \A i \in 1 .. Len(s) : s[i] \in S
    BY <1>1
  <2>. HIDE DEF S
  <2>. QED
    BY <2>1, SequenceIn
<1>. HIDE DEF S
<1>. QED
  BY <1>1, <1>2, EmptySeq

\* A sequence that grew
LEMMA Pushed ==
    ASSUME NEW s, IsSequence(s), NEW x
    PROVE  LET t == Append(s, x)
           IN /\ IsSequence(t) /\ t # <<>> /\ Len(t) = Len(s) + 1 /\ Last(t) = x
              /\ t[Len(s) + 1] = x /\ \A i \in 1 .. Len(s) : t[i] = s[i]
<1>. DEFINE t == Append(s, x)
<1>. DEFINE S == {s[i] : i \in 1 .. Len(s)} \cup {x}
<1>1. PICK n \in Nat : n = Len(s)
  BY DEF IsSequence
<1>2. s \in Seq(S) /\ x \in S
  <2>1. x \in S /\ \A i \in 1 .. Len(s) : s[i] \in S
    OBVIOUS
  <2>. HIDE DEF S
  <2>. QED
    BY <2>1, SequenceIn
<1>. HIDE DEF S
<1>3. t \in Seq(S) /\ Len(t) = n + 1 /\ t[n + 1] = x /\ \A i \in 1 .. n : t[i] = s[i]
  BY <1>1, <1>2
<1>. HIDE DEF t
<1>4. IsSequence(t)
  BY <1>3, IsSequenceIn
<1>5. t # <<>>
  BY <1>3, <1>4, EmptyOrNot
<1>6. Last(t) = x
  BY <1>3 DEF Last
<1>. QED
  BY <1>1, <1>3, <1>4, <1>5, <1>6 DEF t

\* A sequence that shrank
LEMMA Popped ==
    ASSUME NEW s, IsSequence(s), s # <<>>
    PROVE  /\ IsSequence(Front(s)) /\ Len(s) \in Nat \ {0} /\ Len(Front(s)) = Len(s) - 1
           /\ \A i \in 1 .. Len(s) - 1 : Front(s)[i] = s[i]
<1>. DEFINE t == Front(s)
<1>. DEFINE S == {s[i] : i \in 1 .. Len(s)}
<1>1. PICK n \in Nat : n = Len(s) /\ n # 0
  BY EmptyOrNot DEF IsSequence
<1>2. \A i \in 1 .. n - 1 : s[i] \in S
  BY <1>1
<1>. HIDE DEF S
<1>3. t = SubSeq(s, 1, n - 1)
  BY <1>1 DEF Front
<1>. HIDE DEF t
<1>4. /\ t \in Seq(S) /\ Len(t) = (IF 1 <= n - 1 THEN (n - 1) - 1 + 1 ELSE 0)
      /\ \A i \in 1 .. (n - 1) - 1 + 1 : t[i] = s[1 + i - 1]
  BY <1>2, <1>3, SubSeqProperties
<1>5. Len(t) = n - 1 /\ \A i \in 1 .. n - 1 : t[i] = s[i]
  <2>1. Len(t) = n - 1
    <3>1. CASE n = 1
      BY <1>4, <3>1
    <3>2. CASE n > 1
      BY <1>4, <3>2
    <3>. QED
      BY <1>1, <3>1, <3>2
  <2>2. ASSUME NEW i \in 1 .. n - 1 PROVE t[i] = s[i]
    <3>1. i \in 1 .. (n - 1) - 1 + 1 /\ 1 + i - 1 = i
      BY <1>1
    <3>. QED
      BY <1>4, <3>1
  <2>. QED
    BY <2>1, <2>2
<1>6. IsSequence(t)
  BY <1>4, IsSequenceIn
<1>. QED
  BY <1>1, <1>5, <1>6 DEF t

\* The last member is another.
LEMMA TopReplaced ==
    ASSUME NEW s, IsSequence(s), s # <<>>, NEW x
    PROVE  LET t == Append(Front(s), x)
           IN /\ IsSequence(t) /\ t # <<>> /\ Len(t) = Len(s) /\ Last(t) = x /\ t[Len(s)] = x
              /\ \A i \in 1 .. Len(s) - 1 : t[i] = s[i]
<1>1. PICK f : f = Front(s)
  OBVIOUS
<1>2. /\ IsSequence(f) /\ Len(s) \in Nat \ {0} /\ Len(f) = Len(s) - 1
      /\ \A i \in 1 .. Len(s) - 1 : f[i] = s[i]
  BY <1>1, Popped
<1>3. LET t == Append(f, x)
      IN /\ IsSequence(t) /\ t # <<>> /\ Len(t) = Len(f) + 1 /\ Last(t) = x /\ t[Len(f) + 1] = x
         /\ \A i \in 1 .. Len(f) : t[i] = f[i]
  BY <1>2, Pushed
<1>. QED
  BY <1>1, <1>2, <1>3

\* What was added last is taken off again.
LEMMA FrontOfPushed == ASSUME NEW s, IsSequence(s), NEW x PROVE Front(Append(s, x)) = s
<1>1. PICK t : t = Append(s, x)
  OBVIOUS
<1>2. IsSequence(t) /\ t # <<>> /\ Len(t) = Len(s) + 1 /\ \A i \in 1 .. Len(s) : t[i] = s[i]
  BY <1>1, Pushed
<1>3. PICK f : f = Front(t)
  OBVIOUS
<1>4. IsSequence(f) /\ Len(f) = Len(t) - 1 /\ \A i \in 1 .. Len(t) - 1 : f[i] = t[i]
  BY <1>2, <1>3, Popped
<1>5. Len(s) \in Nat /\ Len(f) = Len(s) /\ \A i \in 1 .. Len(s) : f[i] = s[i]
  BY <1>2, <1>4 DEF IsSequence
<1>6. f = s
  BY <1>4, <1>5 DEF IsSequence
<1>. QED
  BY <1>1, <1>3, <1>6

-----------------------------------------------------------------------------
(* Recursion over a sequence: a function from 0 .. n whose entry is made   *)
(* of the one before.                                                      *)

\* The steps from a value to the next one, which are among the values
Steps(step, n, V) == \A i \in 1 .. n : \A v \in V : step[<<i, v>>] \in V

\* While every step stays among certain values there is such a function, ...
LEMMA IteratesExist ==
    ASSUME NEW n \in Nat, NEW V, NEW start \in V, NEW step, Steps(step, n, V)
    PROVE  \E f \in [0 .. n -> V] : f[0] = start /\ \A i \in 1 .. n : f[i] = step[<<i, f[i - 1]>>]
<1>. DEFINE Found == {m \in Nat : m <= n =>
                        \E f \in [0 .. m -> V] : /\ f[0] = start
                                                 /\ \A i \in 1 .. m : f[i] = step[<<i, f[i - 1]>>]}
<1>1. 0 \in Found
  <2>. DEFINE f == [i \in 0 .. 0 |-> start]
  <2>1. f \in [0 .. 0 -> V] /\ f[0] = start /\ 1 .. 0 = {}
    OBVIOUS
  <2>. HIDE DEF f
  <2>. QED
    BY <2>1
<1>2. ASSUME NEW m \in Nat, m \in Found PROVE m + 1 \in Found
  <2>1. SUFFICES ASSUME m + 1 <= n
                 PROVE  \E g \in [0 .. m + 1 -> V] :
                           g[0] = start /\ \A i \in 1 .. m + 1 : g[i] = step[<<i, g[i - 1]>>]
    OBVIOUS
  <2>2. PICK f \in [0 .. m -> V] : /\ f[0] = start
                                   /\ \A i \in 1 .. m : f[i] = step[<<i, f[i - 1]>>]
    BY <1>2, <2>1
  <2>. DEFINE new == step[<<m + 1, f[m]>>]
              g == [i \in 0 .. m + 1 |-> IF i = m + 1 THEN new ELSE f[i]]
  <2>3. new \in V
    BY <2>1, <2>2 DEF Steps
  <2>. HIDE DEF new
  <2>4. /\ g \in [0 .. m + 1 -> V] /\ g[m + 1] = new /\ \A i \in 0 .. m : g[i] = f[i]
    BY <2>2, <2>3
  <2>. HIDE DEF g
  <2>5. ASSUME NEW i \in 1 .. m + 1 PROVE g[i] = step[<<i, g[i - 1]>>]
    <3>1. CASE i = m + 1
      <4>1. i - 1 = m /\ m \in 0 .. m
        BY <3>1
      <4>. QED
        BY <3>1, <4>1, <2>4 DEF new
    <3>2. CASE i # m + 1
      <4>1. i \in 1 .. m /\ i - 1 \in 0 .. m /\ i \in 0 .. m
        BY <3>2
      <4>. QED
        BY <4>1, <2>2, <2>4
    <3>. QED
      BY <3>1, <3>2
  <2>. QED
    BY <2>2, <2>4, <2>5
<1>3. n \in Found
  <2>. HIDE DEF Found
  <2>. QED
    BY <1>1, <1>2, SetInduction
<1>. QED
  BY <1>3

\* ... and its entries are among them.
Iterates(g, step, n, V) ==
    g[0] \in V /\ \A i \in 1 .. n : g[i - 1] \in V => g[i] = step[<<i, g[i - 1]>>]

LEMMA IteratesStay ==
    ASSUME NEW n \in Nat, NEW V, NEW step, Steps(step, n, V), NEW g, Iterates(g, step, n, V)
    PROVE  \A i \in 0 .. n : g[i] \in V
<1>. DEFINE Stays == {m \in Nat : m <= n => g[m] \in V}
<1>1. 0 \in Stays
  BY DEF Iterates
<1>2. ASSUME NEW m \in Nat, m \in Stays PROVE m + 1 \in Stays
  <2>1. SUFFICES ASSUME m + 1 <= n PROVE g[m + 1] \in V
    OBVIOUS
  <2>2. m + 1 \in 1 .. n /\ (m + 1) - 1 = m /\ g[m] \in V
    BY <1>2, <2>1
  <2>. QED
    BY <2>2 DEF Iterates, Steps
<1>3. Nat \subseteq Stays
  <2>. HIDE DEF Stays
  <2>. QED
    BY <1>1, <1>2, SetInduction
<1>. QED
  BY <1>3
-----------------------------------------------------------------------------
(* Texts                                                                   *)

LEMMA Cut ==
    ASSUME NEW s, NEW m \in Int, NEW n \in Int
    PROVE  LET t == SubSeq(s, m, n)
           IN IsSequence(t) /\ Len(t) = (IF m <= n THEN n - m + 1 ELSE 0)
              /\ \A i \in 1 .. n - m + 1 : t[i] = s[m + i - 1]
<1>. DEFINE S == {s[i] : i \in m .. n}
<1>1. \A i \in m .. n : s[i] \in S
  OBVIOUS
<1>. HIDE DEF S
<1>2. PICK t : t = SubSeq(s, m, n)
  OBVIOUS
<1>3. /\ t \in Seq(S) /\ Len(t) = (IF m <= n THEN n - m + 1 ELSE 0)
      /\ \A i \in 1 .. n - m + 1 : t[i] = s[m + i - 1]
  BY <1>1, <1>2, SubSeqProperties
<1>. QED
  BY <1>2, <1>3, IsSequenceIn

Letters(s) == {s[i] : i \in 1 .. Len(s)}

LEMMA OfLetters == ASSUME NEW s, IsSequence(s), NEW S, Letters(s) \subseteq S PROVE s \in Seq(S)
<1>1. \A i \in 1 .. Len(s) : s[i] \in S
  BY DEF Letters
<1>. QED
  BY <1>1, SequenceIn

LEMMA TextsJoined ==
    ASSUME NEW s, IsSequence(s), NEW t, IsSequence(t)
    PROVE  IsSequence(s \o t) /\ Len(s \o t) = Len(s) + Len(t)
<1>1. PICK S : S = Letters(s) \cup Letters(t)
  OBVIOUS
<1>2. s \in Seq(S) /\ t \in Seq(S)
  BY <1>1, OfLetters
<1>3. s \o t \in Seq(S) /\ Len(s \o t) = Len(s) + Len(t)
  BY <1>2
<1>4. IsSequence(s \o t)
  BY <1>3, IsSequenceIn
<1>. QED
  BY <1>3, <1>4

LEMMA DequotedText == ASSUME NEW str, IsSequence(str) PROVE IsSequence(Dequote(str).text)
<1>. DEFINE n == Len(str)
            S == Letters(str) \cup {Backslash}
            states == {"normal", "single_quote", "double_quote"}
            V == [state : states, text : Seq(S)]
            start == [state |-> "normal", text |-> <<>>]
            step == [x \in (1 .. n) \X V |-> DequoteChar(str, x[2], x[1])]
            Reads(f) == [i \in 0 .. n |-> IF i = 0 THEN start ELSE DequoteChar(str, f[i - 1], i)]
            read == CHOOSE f : f = Reads(f)
<1>1. n \in Nat /\ Backslash \in S /\ \A i \in 1 .. n : str[i] \in S
  BY DEF IsSequence, Letters
<1>. HIDE DEF S
<1>2. start \in V
  <2>1. "normal" \in states
    OBVIOUS
  <2>2. <<>> \in Seq(S)
    OBVIOUS
  <2>. QED
    BY <2>1, <2>2
<1>3. ASSUME NEW i \in 1 .. n, NEW v \in V PROVE DequoteChar(str, v, i) \in V
  <2>. DEFINE next == ParseState(str, i, v.state)
              new == IF next # v.state THEN v.text ELSE v.text \o Escape(str[i], next)
  <2>1. next \in states
    <3>. DEFINE open1 == v.state = "normal" /\ str[i] = "'" /\ ~IsEscaped(str, i)
                open2 == v.state = "normal" /\ str[i] = "\"" /\ ~IsEscaped(str, i)
                shut1 == v.state = "single_quote" /\ str[i] = "'"
                shut2 == v.state = "double_quote" /\ str[i] = "\"" /\ ~IsEscaped(str, i)
    <3>1. next = CASE open1 -> "single_quote" [] open2 -> "double_quote" [] shut1 -> "normal"
                   [] shut2 -> "normal" [] OTHER -> v.state
      BY DEF ParseState
    <3>2. v.state \in states
      OBVIOUS
    <3>. HIDE DEF open1, open2, shut1, shut2, next
    <3>. QED
      BY <3>1, <3>2
  <2>. HIDE DEF next
  <2>2. Escape(str[i], next) \in Seq(S)
    <3>1. <<Backslash, str[i]>> \in Seq(S) /\ <<str[i]>> \in Seq(S)
      <4>1. PICK b, c : b = Backslash /\ c = str[i] /\ b \in S /\ c \in S
        BY <1>1
      <4>2. <<b, c>> \in Seq(S) /\ <<c>> \in Seq(S)
        BY <4>1
      <4>. QED
        BY <4>1, <4>2
    <3>. QED
      BY <3>1, Zenon DEF Escape
  <2>3. v.text \in Seq(S)
    OBVIOUS
  <2>4. new \in Seq(S)
    BY <2>2, <2>3
  <2>5. DequoteChar(str, v, i) = [state |-> next, text |-> new]
    BY DEF DequoteChar, next
  <2>. HIDE DEF new
  <2>. QED
    BY <2>1, <2>4, <2>5
<1>. HIDE DEF V, start
<1>4. /\ \A i \in 1 .. n : \A v \in V : step[<<i, v>>] = DequoteChar(str, v, i)
      /\ Steps(step, n, V)
  BY <1>3 DEF Steps
<1>. HIDE DEF step, n
<1>5. \E f : f = Reads(f)
  <2>1. PICK f \in [0 .. n -> V] : f[0] = start /\ \A i \in 1 .. n : f[i] = step[<<i, f[i - 1]>>]
    BY <1>1, <1>2, <1>4, IteratesExist
  <2>2. ASSUME NEW i \in 1 .. n PROVE f[i] = DequoteChar(str, f[i - 1], i)
    <3>1. i - 1 \in 0 .. n
      BY <1>1
    <3>. QED
      BY <1>4, <2>1, <3>1
  <2>3. f = Reads(f)
    BY <1>1, <2>1, <2>2
  <2>. QED
    BY <2>3
<1>6. read = Reads(read)
  BY <1>5, Zenon
<1>7. Dequote(str) = read[n]
  BY Zenon DEF Dequote, start, n
<1>. HIDE DEF read
<1>8. read[0] = start /\ \A i \in 1 .. n : read[i] = DequoteChar(str, read[i - 1], i)
  BY <1>1, <1>6
<1>9. \A i \in 0 .. n : read[i] \in V
  <2>1. Iterates(read, step, n, V)
    BY <1>2, <1>4, <1>8 DEF Iterates
  <2>. QED
    BY <1>1, <1>4, <2>1, IteratesStay
<1>10. Dequote(str).text \in Seq(S)
  BY <1>1, <1>7, <1>9 DEF V
<1>. QED
  BY <1>10, IsSequenceIn

-----------------------------------------------------------------------------
(* Positions in a text                                                     *)

LEMMA FirstOf ==
    ASSUME NEW n \in Nat, NEW P, P \subseteq 1 .. n
    PROVE  First(P) \in 0 .. n /\ (First(P) # 0 => First(P) \in P)
<1>1. CASE P = {}
  BY <1>1 DEF First
<1>2. CASE P # {}
  <2>1. P \subseteq Nat
    OBVIOUS
  <2>2. Min(P) \in P
    BY <1>2, <2>1, MinOfNaturals
  <2>3. First(P) = Min(P)
    BY <1>2 DEF First
  <2>4. PICK x \in P : x = First(P)
    BY <2>2, <2>3
  <2>. QED
    BY <2>4
<1>. QED
  BY <1>1, <1>2

LEMMA FinalOf ==
    ASSUME NEW n \in Nat, NEW P, P \subseteq 1 .. n
    PROVE  Final(P) \in 0 .. n /\ (Final(P) # 0 => Final(P) \in P)
<1>1. PICK S : S = P \cup {0}
  OBVIOUS
<1>2. S \subseteq Nat /\ S # {} /\ \A x \in S : x <= n
  BY <1>1
<1>3. Max(S) \in S
  BY <1>2, MaxOfNaturals
<1>4. Final(P) = Max(S)
  BY <1>1 DEF Final
<1>5. PICK x \in P \cup {0} : x = Final(P)
  BY <1>1, <1>3, <1>4
<1>. QED
  BY <1>5

LEMMA UnescapedOf ==
    ASSUME NEW str, Len(str) \in Nat, NEW ch, NEW from \in Nat \ {0}
    PROVE  Unescaped(str, ch, from) \in 0 .. Len(str)
<1>1. PICK P : P = {i \in from .. Len(str) : str[i] = ch /\ ~IsEscaped(str, i)}
  OBVIOUS
<1>2. P \subseteq 1 .. Len(str)
  BY <1>1
<1>. QED
  BY <1>1, <1>2, FirstOf DEF Unescaped

LEMMA TokenEnds ==
    ASSUME NEW buffer, IsSequence(buffer) PROVE TokenEnd(buffer) \in 0 .. Len(buffer)
<1>. DEFINE P == {i \in DOMAIN buffer : buffer[i] = " "}
            space == First(P)
            behind == Unescaped(buffer, ";", space + 1)
<1>1. Len(buffer) \in Nat /\ DOMAIN buffer = 1 .. Len(buffer)
  BY DEF IsSequence
<1>2. P \subseteq 1 .. Len(buffer)
  BY <1>1, Zenon
<1>3. TokenEnd(buffer) = IF space = 0 THEN 0
                         ELSE IF IsEscaped(buffer, space) THEN behind ELSE space
  BY Zenon DEF TokenEnd
<1>. HIDE DEF P
<1>4. space \in 0 .. Len(buffer)
  BY <1>1, <1>2, FirstOf
<1>. HIDE DEF space
<1>5. behind \in 0 .. Len(buffer)
  <2>1. PICK ch : ch = ";"
    BY Zenon
  <2>2. Unescaped(buffer, ch, space + 1) \in 0 .. Len(buffer)
    BY <1>1, <1>4, UnescapedOf
  <2>. QED
    BY <2>1, <2>2, Zenon
<1>. HIDE DEF behind
<1>. QED
  BY <1>1, <1>4, <1>5, <1>3


\* What _decode puts out
LEMMA DecodedText ==
    ASSUME NEW S, \A ch \in S : Decoded(ch) \in S, NEW str \in Seq(S)
    PROVE  Decode(str) \in Seq(S)
<1>. DEFINE n == Len(str)
            V == [text : Seq(S), skip : BOOLEAN, ended : BOOLEAN]
            start == [text |-> <<>>, skip |-> FALSE, ended |-> FALSE]
            step == [x \in (1 .. n) \X V |-> DecodeChar(str, x[2], x[1])]
            Reads(f) == [i \in 0 .. n |-> IF i = 0 THEN start ELSE DecodeChar(str, f[i - 1], i)]
            read == CHOOSE f : f = Reads(f)
<1>1. n \in Nat /\ \A i \in 1 .. n : str[i] \in S
  OBVIOUS
<1>2. start \in V
  <2>1. <<>> \in Seq(S)
    OBVIOUS
  <2>. QED
    BY <2>1
<1>3. ASSUME NEW i \in 1 .. n, NEW v \in V PROVE DecodeChar(str, v, i) \in V
  <2>1. [v EXCEPT !.skip = FALSE] \in V
    OBVIOUS
  <2>2. [v EXCEPT !.ended = TRUE] \in V
    OBVIOUS
  <2>3. ASSUME NEW ch \in S
        PROVE  /\ [v EXCEPT !.text = Append(@, ch)] \in V
               /\ [v EXCEPT !.text = Append(@, ch), !.skip = TRUE] \in V
    <3>1. Append(v.text, ch) \in Seq(S)
      BY <2>3
    <3>2. PICK t, yes : t = Append(v.text, ch) /\ t \in Seq(S) /\ yes = TRUE /\ yes \in BOOLEAN
      BY <3>1
    <3>3. [v EXCEPT !.text = t] \in V /\ [v EXCEPT !.text = t, !.skip = yes] \in V
      BY <3>2
    <3>. QED
      BY <3>2, <3>3
  <2>4. ASSUME i # Len(str) PROVE Decoded(str[i + 1]) \in S
    <3>1. i + 1 \in 1 .. n
      BY <1>1, <2>4
    <3>. QED
      BY <1>1, <3>1
  <2>5. str[i] \in S
    BY <1>1
  <2>. HIDE DEF V
  <2>6. CASE v.ended \/ v.skip
    BY <2>1, <2>6 DEF DecodeChar
  <2>7. CASE ~(v.ended \/ v.skip)
    <3>1. CASE str[i] # Backslash \/ i = Len(str)
      BY <2>3, <2>5, <2>7, <3>1, Zenon DEF DecodeChar
    <3>2. CASE ~(str[i] # Backslash \/ i = Len(str))
      BY <2>2, <2>3, <2>4, <2>7, <3>2, Zenon DEF DecodeChar
    <3>. QED
      BY <3>1, <3>2
  <2>. QED
    BY <2>6, <2>7
<1>. HIDE DEF V, start
<1>4. /\ \A i \in 1 .. n : \A v \in V : step[<<i, v>>] = DecodeChar(str, v, i)
      /\ Steps(step, n, V)
  BY <1>3 DEF Steps
<1>. HIDE DEF step, n
<1>5. \E f : f = Reads(f)
  <2>1. PICK f \in [0 .. n -> V] : f[0] = start /\ \A i \in 1 .. n : f[i] = step[<<i, f[i - 1]>>]
    BY <1>1, <1>2, <1>4, IteratesExist
  <2>2. ASSUME NEW i \in 1 .. n PROVE f[i] = DecodeChar(str, f[i - 1], i)
    <3>1. i - 1 \in 0 .. n
      BY <1>1
    <3>. QED
      BY <1>4, <2>1, <3>1
  <2>3. f = Reads(f)
    BY <1>1, <2>1, <2>2
  <2>. QED
    BY <2>3
<1>6. read = Reads(read)
  BY <1>5, Zenon
<1>7. Decode(str) = read[n].text
  BY Zenon DEF Decode, start, n
<1>. HIDE DEF read
<1>8. read[0] = start /\ \A i \in 1 .. n : read[i] = DecodeChar(str, read[i - 1], i)
  BY <1>1, <1>6
<1>9. \A i \in 0 .. n : read[i] \in V
  <2>1. Iterates(read, step, n, V)
    BY <1>2, <1>4, <1>8 DEF Iterates
  <2>. QED
    BY <1>1, <1>4, <2>1, IteratesStay
<1>. QED
  BY <1>1, <1>7, <1>9 DEF V

\* The text with the values of the variables
LEMMA ReplacedText ==
    ASSUME NEW str, IsSequence(str), NEW variables,
           \A k \in DOMAIN variables : IsSequence(variables[k])
    PROVE  IsSequence(ReplaceVariables(str, variables))
<1>. DEFINE n == Len(str)
            S == Letters(str) \cup UNION {Letters(variables[k]) : k \in DOMAIN variables}
            V == Seq(S)
            step == [x \in (1 .. n) \X V |-> ReplaceVariable(str, variables, x[2], x[1])]
            Reads(f) == [i \in 0 .. n |-> IF i = 0 THEN <<>>
                                          ELSE ReplaceVariable(str, variables, f[i - 1], i)]
            read == CHOOSE f : f = Reads(f)
<1>1. n \in Nat /\ (\A i \in 1 .. n : str[i] \in S)
      /\ \A k \in DOMAIN variables : Letters(variables[k]) \subseteq S
  BY DEF IsSequence, Letters
<1>. HIDE DEF S
<1>2. <<>> \in V
  OBVIOUS
<1>3. ASSUME NEW i \in 1 .. n, NEW v \in V PROVE ReplaceVariable(str, variables, v, i) \in V
  <2>. DEFINE at == {r \in VariablesIn(str) : r.from = i}
              inside == \E r \in VariablesIn(str) : r.from < i /\ i <= r.to
              key == (CHOOSE r \in at : TRUE).key
  <2>1. Append(v, str[i]) \in V
    BY <1>1
  <2>2. Value(variables, key) \in Seq(S)
    <3>. HIDE DEF key
    <3>1. ASSUME key \in DOMAIN variables PROVE variables[key] \in Seq(S)
      BY <1>1, <3>1, OfLetters
    <3>. QED
      BY <1>2, <3>1 DEF Value
  <2>3. v \o Value(variables, key) \in V
    BY <2>2
  <2>4. ReplaceVariable(str, variables, v, i) =
           IF at # {} THEN v \o Value(variables, key)
           ELSE IF inside THEN v ELSE Append(v, str[i])
    BY Zenon DEF ReplaceVariable
  <2>. HIDE DEF at, inside, key, V
  <2>. QED
    BY <2>1, <2>3, <2>4
<1>. HIDE DEF V
<1>4. /\ \A i \in 1 .. n : \A v \in V : step[<<i, v>>] = ReplaceVariable(str, variables, v, i)
      /\ Steps(step, n, V)
  BY <1>3 DEF Steps
<1>. HIDE DEF step, n
<1>5. \E f : f = Reads(f)
  <2>1. PICK f \in [0 .. n -> V] : f[0] = <<>> /\ \A i \in 1 .. n : f[i] = step[<<i, f[i - 1]>>]
    BY <1>1, <1>2, <1>4, IteratesExist
  <2>2. ASSUME NEW i \in 1 .. n PROVE f[i] = ReplaceVariable(str, variables, f[i - 1], i)
    <3>1. i - 1 \in 0 .. n
      BY <1>1
    <3>. QED
      BY <1>4, <2>1, <3>1
  <2>3. f = Reads(f)
    BY <1>1, <2>1, <2>2
  <2>. QED
    BY <2>3
<1>6. read = Reads(read)
  BY <1>5, Zenon
<1>7. ReplaceVariables(str, variables) = read[n]
  BY Zenon DEF ReplaceVariables, n
<1>. HIDE DEF read
<1>8. read[0] = <<>> /\ \A i \in 1 .. n : read[i] = ReplaceVariable(str, variables, read[i - 1], i)
  BY <1>1, <1>6
<1>9. \A i \in 0 .. n : read[i] \in V
  <2>1. Iterates(read, step, n, V)
    BY <1>2, <1>4, <1>8 DEF Iterates
  <2>. QED
    BY <1>1, <1>4, <2>1, IteratesStay
<1>10. ReplaceVariables(str, variables) \in Seq(S)
  BY <1>1, <1>7, <1>9 DEF V
<1>. QED
  BY <1>10, IsSequenceIn

\* The text without backslashes
LEMMA PlainText == ASSUME NEW str, IsSequence(str) PROVE IsSequence(Plain(str))
<1>. DEFINE n == Len(str)
            S == Letters(str)
            V == Seq(S)
            step == [x \in (1 .. n) \X V |-> PlainChar(str, x[2], x[1])]
            Reads(f) == [i \in 0 .. n |-> IF i = 0 THEN <<>> ELSE PlainChar(str, f[i - 1], i)]
            read == CHOOSE f : f = Reads(f)
<1>1. n \in Nat /\ \A i \in 1 .. n : str[i] \in S
  BY DEF IsSequence, Letters
<1>. HIDE DEF S
<1>2. <<>> \in V
  OBVIOUS
<1>3. ASSUME NEW i \in 1 .. n, NEW v \in V PROVE PlainChar(str, v, i) \in V
  <2>1. Append(v, str[i]) \in V
    BY <1>1
  <2>. QED
    BY <2>1, Zenon DEF PlainChar
<1>. HIDE DEF V
<1>4. /\ \A i \in 1 .. n : \A v \in V : step[<<i, v>>] = PlainChar(str, v, i)
      /\ Steps(step, n, V)
  BY <1>3 DEF Steps
<1>. HIDE DEF step, n
<1>5. \E f : f = Reads(f)
  <2>1. PICK f \in [0 .. n -> V] : f[0] = <<>> /\ \A i \in 1 .. n : f[i] = step[<<i, f[i - 1]>>]
    BY <1>1, <1>2, <1>4, IteratesExist
  <2>2. ASSUME NEW i \in 1 .. n PROVE f[i] = PlainChar(str, f[i - 1], i)
    <3>1. i - 1 \in 0 .. n
      BY <1>1
    <3>. QED
      BY <1>4, <2>1, <3>1
  <2>3. f = Reads(f)
    BY <1>1, <2>1, <2>2
  <2>. QED
    BY <2>3
<1>6. read = Reads(read)
  BY <1>5, Zenon
<1>7. Plain(str) = read[n]
  BY Zenon DEF Plain, n
<1>. HIDE DEF read
<1>8. read[0] = <<>> /\ \A i \in 1 .. n : read[i] = PlainChar(str, read[i - 1], i)
  BY <1>1, <1>6
<1>9. \A i \in 0 .. n : read[i] \in V
  <2>1. Iterates(read, step, n, V)
    BY <1>2, <1>4, <1>8 DEF Iterates
  <2>. QED
    BY <1>1, <1>4, <2>1, IteratesStay
<1>10. Plain(str) \in Seq(S)
  BY <1>1, <1>7, <1>9 DEF V
<1>. QED
  BY <1>10, IsSequenceIn

\* Texts one behind the other
LEMMA FlattenedText ==
    ASSUME NEW S, NEW n \in Nat, NEW seqs \in [1 .. n -> Seq(S)]
    PROVE  FlattenSeq(seqs) \in Seq(S)
<1>. DEFINE V == Seq(S)
            step == [x \in (1 .. n) \X V |-> x[2] \o seqs[x[1]]]
            Reads(f) == [i \in 1 .. n |-> IF i = 1 THEN seqs[i] ELSE f[i - 1] \o seqs[i]]
            read == CHOOSE f : f = Reads(f)
<1>1. Len(seqs) = n /\ \A i \in 1 .. n : seqs[i] \in Seq(S)
  OBVIOUS
<1>2. CASE n = 0
  <2>1. seqs \in Seq(S)
    BY <1>2
  <2>. QED
    BY <1>1, <1>2, <2>1 DEF FlattenSeq
<1>3. CASE n # 0
  <2>1. <<>> \in V /\ \A s \in Seq(S) : <<>> \o s = s
    OBVIOUS
  <2>2. /\ \A i \in 1 .. n : \A v \in V : step[<<i, v>>] = v \o seqs[i]
        /\ Steps(step, n, V)
    <3>1. \A i \in 1 .. n : \A v \in V : v \o seqs[i] \in V
      OBVIOUS
    <3>2. \A i \in 1 .. n : \A v \in V : step[<<i, v>>] = v \o seqs[i]
      OBVIOUS
    <3>. HIDE DEF step, V
    <3>. QED
      BY <3>1, <3>2 DEF Steps
  <2>. HIDE DEF step, V
  <2>3. PICK f \in [0 .. n -> V] : f[0] = <<>> /\ \A i \in 1 .. n : f[i] = step[<<i, f[i - 1]>>]
    BY <2>1, <2>2, IteratesExist
  <2>4. ASSUME NEW i \in 1 .. n PROVE f[i] = f[i - 1] \o seqs[i]
    <3>1. i - 1 \in 0 .. n
      OBVIOUS
    <3>. QED
      BY <2>2, <2>3, <3>1
  <2>5. f[1] = seqs[1]
    <3>1. f[1] = f[0] \o seqs[1]
      BY <1>3, <2>4
    <3>. QED
      BY <1>1, <1>3, <2>1, <2>3, <3>1
  <2>. DEFINE g == [i \in 1 .. n |-> f[i]]
  <2>6. g = Reads(g)
    <3>1. ASSUME NEW i \in 1 .. n
          PROVE  g[i] = IF i = 1 THEN seqs[i] ELSE g[i - 1] \o seqs[i]
      <4>1. CASE i = 1
        BY <2>5, <4>1
      <4>2. CASE i # 1
        <5>1. i - 1 \in 1 .. n
          BY <4>2
        <5>2. g[i] = f[i] /\ g[i - 1] = f[i - 1]
          BY <5>1
        <5>. QED
          BY <2>4, <4>2, <5>2
      <4>. QED
        BY <4>1, <4>2
    <3>2. g = [i \in 1 .. n |-> g[i]]
      OBVIOUS
    <3>. HIDE DEF g
    <3>. QED
      BY <3>1, <3>2
  <2>. HIDE DEF g
  <2>7. read = Reads(read)
    BY <2>6, Zenon
  <2>8. FlattenSeq(seqs) = read[n]
    <3>1. Len(seqs) = n /\ Len(seqs) # 0
      BY <1>1, <1>3
    <3>. QED
      BY <3>1, Zenon DEF FlattenSeq
  <2>. HIDE DEF read
  <2>9. /\ read[1] = seqs[1]
        /\ \A i \in 1 .. n : i # 1 => read[i] = read[i - 1] \o seqs[i]
    <3>. DEFINE new == Reads(read)
    <3>1. \A i \in 1 .. n : new[i] = IF i = 1 THEN seqs[i] ELSE read[i - 1] \o seqs[i]
      OBVIOUS
    <3>2. read = new
      BY <2>7
    <3>. HIDE DEF new
    <3>3. 1 \in 1 .. n
      BY <1>3
    <3>. QED
      BY <3>1, <3>2, <3>3
  <2>. DEFINE all == [i \in 0 .. n |-> IF i = 0 THEN <<>> ELSE read[i]]
  <2>10. Iterates(all, step, n, V)
    <3>1. all[0] = <<>> /\ \A i \in 1 .. n : all[i] = read[i]
      OBVIOUS
    <3>. HIDE DEF all
    <3>2. ASSUME NEW i \in 1 .. n, all[i - 1] \in V PROVE all[i] = step[<<i, all[i - 1]>>]
      <4>1. CASE i = 1
        <5>1. all[i] = seqs[i] /\ all[i - 1] = <<>> /\ seqs[i] \in Seq(S)
          BY <1>1, <2>9, <3>1, <4>1
        <5>. QED
          BY <2>1, <2>2, <3>2, <5>1
      <4>2. CASE i # 1
        <5>1. i - 1 \in 1 .. n
          BY <4>2
        <5>2. all[i] = all[i - 1] \o seqs[i]
          BY <2>9, <3>1, <4>2, <5>1
        <5>. QED
          BY <2>2, <3>2, <5>2
      <4>. QED
        BY <4>1, <4>2
    <3>. QED
      BY <2>1, <3>1, <3>2 DEF Iterates
  <2>11. all[n] \in V
    <3>. HIDE DEF all
    <3>1. \A i \in 0 .. n : all[i] \in V
      BY <2>2, <2>10, IteratesStay
    <3>. QED
      BY <3>1
  <2>12. all[n] = read[n]
    BY <1>3
  <2>. QED
    BY <2>8, <2>11, <2>12 DEF V
<1>. QED
  BY <1>2, <1>3

\* The arguments are texts.
IsList(l) == IsSequence(l) /\ \A i \in 1 .. Len(l) : IsSequence(l[i])

LEMMA TokensList == ASSUME NEW buffer, IsSequence(buffer) PROVE IsList(Tokens(buffer))
<1>. DEFINE n == Len(buffer)
            S == Letters(buffer) \cup {"BEL", "BS", "ESC", "FF", "LF", "CR", "TAB", "VT"}
            V == [tokens : Seq(Seq(S)), rest : Seq(S)]
            start == [tokens |-> <<>>, rest |-> buffer]
            step == [x \in (1 .. n) \X V |-> CutToken(x[2])]
            Reads(f) == [i \in 0 .. n |-> IF i = 0 THEN start ELSE CutToken(f[i - 1])]
            read == CHOOSE f : f = Reads(f)
<1>1. n \in Nat
  BY DEF IsSequence
<1>2. start \in V
  <2>1. Letters(buffer) \subseteq S
    OBVIOUS
  <2>. HIDE DEF S
  <2>2. buffer \in Seq(S) /\ <<>> \in Seq(Seq(S))
    BY <2>1, OfLetters
  <2>. QED
    BY <2>2
<1>3. \A ch \in S : Decoded(ch) \in S
  BY DEF Decoded
<1>. HIDE DEF S
<1>4. ASSUME NEW v \in V PROVE CutToken(v) \in V
  <2>. DEFINE end == TokenEnd(v.rest)
              token == SubSeq(v.rest, 1, IF end = 0 THEN Len(v.rest) ELSE end - 1)
              list == IF token = <<>> THEN v.tokens ELSE Append(v.tokens, Decode(token))
              left == IF end = 0 THEN <<>> ELSE From(v.rest, end + 1)
  <2>1. v.rest \in Seq(S) /\ v.tokens \in Seq(Seq(S)) /\ Len(v.rest) \in Nat
    OBVIOUS
  <2>2. end \in 0 .. Len(v.rest)
    BY <2>1, TokenEnds, IsSequenceIn
  <2>3. token \in Seq(S) /\ left \in Seq(S)
    <3>. HIDE DEF end
    <3>. QED
      BY <2>1, <2>2 DEF From
  <2>. HIDE DEF token
  <2>4. Decode(token) \in Seq(S)
    BY <1>3, <2>3, DecodedText
  <2>5. list \in Seq(Seq(S))
    BY <2>1, <2>4
  <2>6. CutToken(v) = [tokens |-> list, rest |-> left]
    BY DEF CutToken, token
  <2>. HIDE DEF list, left
  <2>. QED
    BY <2>3, <2>5, <2>6
<1>. HIDE DEF V, start
<1>5. /\ \A i \in 1 .. n : \A v \in V : step[<<i, v>>] = CutToken(v)
      /\ Steps(step, n, V)
  BY <1>4 DEF Steps
<1>. HIDE DEF step, n
<1>6. \E f : f = Reads(f)
  <2>1. PICK f \in [0 .. n -> V] : f[0] = start /\ \A i \in 1 .. n : f[i] = step[<<i, f[i - 1]>>]
    BY <1>1, <1>2, <1>5, IteratesExist
  <2>2. ASSUME NEW i \in 1 .. n PROVE f[i] = CutToken(f[i - 1])
    <3>1. i - 1 \in 0 .. n
      BY <1>1
    <3>. QED
      BY <1>5, <2>1, <3>1
  <2>3. f = Reads(f)
    BY <1>1, <2>1, <2>2
  <2>. QED
    BY <2>3
<1>7. read = Reads(read)
  BY <1>6, Zenon
<1>8. Tokens(buffer) = read[n].tokens
  BY Zenon DEF Tokens, start, n
<1>. HIDE DEF read
<1>9. read[0] = start /\ \A i \in 1 .. n : read[i] = CutToken(read[i - 1])
  BY <1>1, <1>7
<1>10. \A i \in 0 .. n : read[i] \in V
  <2>1. Iterates(read, step, n, V)
    BY <1>2, <1>5, <1>9 DEF Iterates
  <2>. QED
    BY <1>1, <1>5, <2>1, IteratesStay
<1>11. Tokens(buffer) \in Seq(Seq(S))
  BY <1>1, <1>8, <1>10 DEF V
<1>12. \A i \in 1 .. Len(Tokens(buffer)) : Tokens(buffer)[i] \in Seq(S)
  BY <1>11
<1>. QED
  BY <1>11, <1>12, IsSequenceIn DEF IsList

-----------------------------------------------------------------------------
(* How readers and threads nest                                            *)

IsFrame(f) ==
    /\ f = [user |-> f.user, lines |-> f.lines, state |-> f.state, input |-> f.input,
            text |-> f.text, more |-> f.more, result |-> f.result, rounds |-> f.rounds,
            aliased |-> f.aliased, cut |-> f.cut]
    /\ f.result \in Results

IsThread(t) ==
    /\ t = [command |-> t.command, arguments |-> t.arguments, stop |-> t.stop,
            result |-> t.result]
    /\ t.stop \in BOOLEAN
    /\ t.result \in Results \cup {"running"}

\* Every reader but the innermost waits for a command, and while the program runs so
\* many commands are under way as readers wait.
Nested(fs, ts, running) ==
    /\ IsSequence(fs) /\ \A i \in 1 .. Len(fs) : IsFrame(fs[i])
    /\ \A i \in 1 .. Len(fs) - 1 : fs[i].state = "waiting"
    /\ IsSequence(ts) /\ \A i \in 1 .. Len(ts) : IsThread(ts[i])
    /\ running => /\ fs # <<>>
                  /\ Len(ts) = Len(fs) - (IF Last(fs).state = "waiting" THEN 0 ELSE 1)

\* The innermost ones
LEMMA Innermost ==
    ASSUME NEW fs, NEW ts, Nested(fs, ts, TRUE)
    PROVE  /\ Len(fs) \in Nat \ {0} /\ Len(ts) \in Nat /\ IsFrame(Last(fs))
           /\ Len(fs) > 1 \/ Last(fs).state = "waiting" => ts # <<>>
<1>1. IsSequence(fs) /\ fs # <<>> /\ IsSequence(ts)
  BY DEF Nested
<1>2. Len(fs) \in Nat /\ Len(fs) # 0 /\ Len(ts) \in Nat
  BY <1>1, EmptyOrNot DEF IsSequence
<1>3. Len(fs) > 1 \/ Last(fs).state = "waiting" => Len(ts) # 0
  BY <1>2 DEF Nested
<1>. QED
  BY <1>1, <1>2, <1>3, EmptyOrNot DEF Nested, Last

LEMMA LastThread ==
    ASSUME NEW fs, NEW ts, NEW running, Nested(fs, ts, running), ts # <<>>
    PROVE  IsThread(Last(ts)) /\ Len(ts) \in Nat \ {0}
<1>1. IsSequence(ts)
  BY DEF Nested
<1>2. Len(ts) \in Nat /\ Len(ts) # 0
  BY <1>1, EmptyOrNot DEF IsSequence
<1>. QED
  BY <1>2 DEF Nested, Last

\* The innermost reader goes on in its line.
LEMMA ReaderGoesOn ==
    ASSUME NEW fs, NEW ts, Nested(fs, ts, TRUE), NEW f, IsFrame(f),
           f.state = "waiting" <=> Last(fs).state = "waiting"
    PROVE  Nested(Append(Front(fs), f), ts, TRUE)
<1>. DEFINE t == Append(Front(fs), f)
<1>1. IsSequence(fs) /\ fs # <<>> /\ Len(fs) \in Nat \ {0}
  BY Innermost DEF Nested
<1>2. /\ IsSequence(t) /\ t # <<>> /\ Len(t) = Len(fs) /\ Last(t) = f /\ t[Len(fs)] = f
      /\ \A i \in 1 .. Len(fs) - 1 : t[i] = fs[i]
  BY <1>1, TopReplaced
<1>. HIDE DEF t
<1>3. \A i \in 1 .. Len(t) : IsFrame(t[i])
  BY <1>1, <1>2 DEF Nested
<1>. QED
  BY <1>1, <1>2, <1>3 DEF Nested, t

\* It begins to wait for a command ...
LEMMA ReaderWaits ==
    ASSUME NEW fs, NEW ts, Nested(fs, ts, TRUE), Last(fs).state # "waiting",
           NEW f, IsFrame(f), f.state = "waiting", NEW th, IsThread(th)
    PROVE  Nested(Append(Front(fs), f), Append(ts, th), TRUE)
<1>. DEFINE t == Append(Front(fs), f)
            u == Append(ts, th)
<1>1. IsSequence(fs) /\ fs # <<>> /\ Len(fs) \in Nat \ {0} /\ IsSequence(ts) /\ Len(ts) \in Nat
  BY Innermost DEF Nested
<1>2. /\ IsSequence(t) /\ t # <<>> /\ Len(t) = Len(fs) /\ Last(t) = f /\ t[Len(fs)] = f
      /\ \A i \in 1 .. Len(fs) - 1 : t[i] = fs[i]
  BY <1>1, TopReplaced
<1>3. /\ IsSequence(u) /\ Len(u) = Len(ts) + 1 /\ u[Len(ts) + 1] = th
      /\ \A i \in 1 .. Len(ts) : u[i] = ts[i]
  BY <1>1, Pushed
<1>. HIDE DEF t, u
<1>4. \A i \in 1 .. Len(t) : IsFrame(t[i])
  BY <1>1, <1>2 DEF Nested
<1>5. \A i \in 1 .. Len(u) : IsThread(u[i])
  BY <1>1, <1>3 DEF Nested
<1>. QED
  BY <1>1, <1>2, <1>3, <1>4, <1>5 DEF Nested, t, u

\* ... and ceases to.
LEMMA ReaderJoins ==
    ASSUME NEW fs, NEW ts, Nested(fs, ts, TRUE), Last(fs).state = "waiting",
           NEW f, IsFrame(f), f.state # "waiting"
    PROVE  Nested(Append(Front(fs), f), Front(ts), TRUE)
<1>. DEFINE t == Append(Front(fs), f)
            u == Front(ts)
<1>1. /\ IsSequence(fs) /\ fs # <<>> /\ Len(fs) \in Nat \ {0} /\ IsSequence(ts) /\ Len(ts) \in Nat
      /\ ts # <<>>
  BY Innermost DEF Nested
<1>2. /\ IsSequence(t) /\ t # <<>> /\ Len(t) = Len(fs) /\ Last(t) = f /\ t[Len(fs)] = f
      /\ \A i \in 1 .. Len(fs) - 1 : t[i] = fs[i]
  BY <1>1, TopReplaced
<1>3. IsSequence(u) /\ Len(u) = Len(ts) - 1 /\ \A i \in 1 .. Len(ts) - 1 : u[i] = ts[i]
  BY <1>1, Popped
<1>. HIDE DEF t, u
<1>4. \A i \in 1 .. Len(t) : IsFrame(t[i])
  BY <1>1, <1>2 DEF Nested
<1>5. \A i \in 1 .. Len(u) : IsThread(u[i])
  BY <1>1, <1>3 DEF Nested
<1>. QED
  BY <1>1, <1>2, <1>3, <1>4, <1>5 DEF Nested, t, u

\* A command begins to read a file.
LEMMA ReaderBegins ==
    ASSUME NEW fs, NEW ts, Nested(fs, ts, TRUE), Last(fs).state = "waiting",
           NEW f, IsFrame(f), f.state # "waiting"
    PROVE  Nested(Append(fs, f), ts, TRUE)
<1>. DEFINE t == Append(fs, f)
<1>1. IsSequence(fs) /\ fs # <<>> /\ Len(fs) \in Nat \ {0}
  BY Innermost DEF Nested
<1>2. /\ IsSequence(t) /\ t # <<>> /\ Len(t) = Len(fs) + 1 /\ Last(t) = f /\ t[Len(fs) + 1] = f
      /\ \A i \in 1 .. Len(fs) : t[i] = fs[i]
  BY <1>1, Pushed
<1>3. fs[Len(fs)].state = "waiting"
  BY DEF Last
<1>. HIDE DEF t
<1>4. \A i \in 1 .. Len(t) : IsFrame(t[i])
  BY <1>1, <1>2 DEF Nested
<1>5. \A i \in 1 .. Len(t) - 1 : t[i].state = "waiting"
  BY <1>1, <1>2, <1>3 DEF Nested
<1>. QED
  BY <1>1, <1>2, <1>4, <1>5 DEF Nested, t

\* The innermost command is another.
LEMMA ThreadChanges ==
    ASSUME NEW fs, NEW ts, NEW running, Nested(fs, ts, running), ts # <<>>, NEW th, IsThread(th)
    PROVE  Nested(fs, Append(Front(ts), th), running)
<1>. DEFINE u == Append(Front(ts), th)
<1>1. IsSequence(ts) /\ Len(ts) \in Nat \ {0}
  BY LastThread DEF Nested
<1>2. /\ IsSequence(u) /\ Len(u) = Len(ts) /\ u[Len(ts)] = th
      /\ \A i \in 1 .. Len(ts) - 1 : u[i] = ts[i]
  BY <1>1, TopReplaced
<1>. HIDE DEF u
<1>3. \A i \in 1 .. Len(u) : IsThread(u[i])
  BY <1>1, <1>2 DEF Nested
<1>. QED
  BY <1>1, <1>2, <1>3 DEF Nested, u

\* The innermost reader is done: the program ends, or the command that read has a result.
LEMMA ReaderEnds ==
    ASSUME NEW fs, NEW ts, Nested(fs, ts, TRUE), Last(fs).state # "waiting"
    PROVE  /\ Nested(Front(fs), ts, FALSE)
           /\ Len(fs) # 1 => ts # <<>> /\ Nested(Front(fs), ts, TRUE)
<1>. DEFINE t == Front(fs)
<1>1. IsSequence(fs) /\ fs # <<>> /\ Len(fs) \in Nat \ {0} /\ Len(ts) = Len(fs) - 1
      /\ IsSequence(ts)
  BY Innermost DEF Nested
<1>2. IsSequence(t) /\ Len(t) = Len(fs) - 1 /\ \A i \in 1 .. Len(fs) - 1 : t[i] = fs[i]
  BY <1>1, Popped
<1>. HIDE DEF t
<1>3. \A i \in 1 .. Len(t) : IsFrame(t[i])
  BY <1>1, <1>2 DEF Nested
<1>4. \A i \in 1 .. Len(t) - 1 : t[i].state = "waiting"
  BY <1>1, <1>2 DEF Nested
<1>5. Nested(t, ts, FALSE)
  BY <1>2, <1>3, <1>4 DEF Nested
<1>6. ASSUME Len(fs) # 1 PROVE ts # <<>> /\ t # <<>> /\ Last(t).state = "waiting"
  <2>1. Len(ts) # 0 /\ Len(t) # 0 /\ Len(t) \in 1 .. Len(fs) - 1
    BY <1>1, <1>2, <1>6
  <2>2. Last(t).state = "waiting"
    BY <1>2, <2>1 DEF Nested, Last
  <2>. QED
    BY <1>1, <1>2, <2>1, <2>2, EmptyOrNot
<1>. QED
  BY <1>1, <1>2, <1>5, <1>6 DEF Nested, t

-----------------------------------------------------------------------------
(* The editor                                                              *)

IsEditor(ed) ==
    ed = [buffer |-> ed.buffer, cursor |-> ed.cursor, history |-> ed.history, idx |-> ed.idx,
          stored |-> ed.stored, tabs |-> ed.tabs]

\* The history is what ran, and behind it the draft when it is stored, ...
Holds(ed, ran, draft) ==
    /\ IsEditor(ed)
    /\ IsSequence(ran) /\ \A i \in 1 .. Len(ran) : ran[i].status \in Results
    /\ ed.stored \in BOOLEAN
    /\ ed.history = IF ed.stored THEN Append(ran, [input |-> draft, status |-> "done"]) ELSE ran

\* ... and then the place in the history is before the draft.
Remembers(ed, ran, draft) ==
    /\ Holds(ed, ran, draft)
    /\ ed.idx \in 0 .. Len(ran)
    /\ ed.stored => ed.idx < Len(ran)

SameHistory(ed, new) ==
    /\ IsEditor(new)
    /\ new.history = ed.history /\ new.idx = ed.idx /\ new.stored = ed.stored

\* What ran is known after the draft is gone.
LEMMA SameRemembers ==
    ASSUME NEW ed, NEW new, SameHistory(ed, new), NEW ran, NEW draft, Remembers(ed, ran, draft)
    PROVE  Remembers(new, ran, draft)
  BY DEF SameHistory, Remembers, Holds

\* A change of the buffer, the cursor and the count of tabs
LEMMA FieldSet ==
    ASSUME NEW ed, IsEditor(ed), NEW v
    PROVE  /\ SameHistory(ed, [ed EXCEPT !.buffer = v])
           /\ SameHistory(ed, [ed EXCEPT !.cursor = v])
           /\ SameHistory(ed, [ed EXCEPT !.tabs = v])
<1>1. SameHistory(ed, [ed EXCEPT !.buffer = v])
  <2>1. PICK new : new = [ed EXCEPT !.buffer = v]
    OBVIOUS
  <2>2. new = [buffer |-> v, cursor |-> ed.cursor, history |-> ed.history, idx |-> ed.idx,
               stored |-> ed.stored, tabs |-> ed.tabs]
    BY <2>1 DEF IsEditor
  <2>. QED
    BY <2>1, <2>2 DEF SameHistory, IsEditor
<1>2. SameHistory(ed, [ed EXCEPT !.cursor = v])
  <2>1. PICK new : new = [ed EXCEPT !.cursor = v]
    OBVIOUS
  <2>2. new = [buffer |-> ed.buffer, cursor |-> v, history |-> ed.history, idx |-> ed.idx,
               stored |-> ed.stored, tabs |-> ed.tabs]
    BY <2>1 DEF IsEditor
  <2>. QED
    BY <2>1, <2>2 DEF SameHistory, IsEditor
<1>3. SameHistory(ed, [ed EXCEPT !.tabs = v])
  <2>1. PICK new : new = [ed EXCEPT !.tabs = v]
    OBVIOUS
  <2>2. new = [buffer |-> ed.buffer, cursor |-> ed.cursor, history |-> ed.history, idx |-> ed.idx,
               stored |-> ed.stored, tabs |-> v]
    BY <2>1 DEF IsEditor
  <2>. QED
    BY <2>1, <2>2 DEF SameHistory, IsEditor
<1>. QED
  BY <1>1, <1>2, <1>3

LEMMA SameItself == ASSUME NEW ed, IsEditor(ed) PROVE SameHistory(ed, ed)
  BY DEF SameHistory

LEMMA SameAfter ==
    ASSUME NEW ed, NEW e, SameHistory(ed, e), NEW f, SameHistory(e, f)
    PROVE  SameHistory(ed, f)
  BY DEF SameHistory

WithLine(ed, v, w) == [ed EXCEPT !.buffer = v, !.cursor = w]

LEMMA LineSet ==
    ASSUME NEW ed, IsEditor(ed), NEW v, NEW w
    PROVE  SameHistory(ed, WithLine(ed, v, w)) /\ IsEditor(WithLine(ed, v, w))
<1>1. PICK e : e = [ed EXCEPT !.buffer = v]
  OBVIOUS
<1>2. SameHistory(ed, e) /\ IsEditor(e)
  BY <1>1, FieldSet DEF SameHistory
<1>3. SameHistory(e, [e EXCEPT !.cursor = w])
  BY <1>2, FieldSet
<1>. QED
  BY <1>1, <1>2, <1>3, SameAfter DEF WithLine, SameHistory

\* The keys and completions that only change the buffer
LEMMA BufferEdits ==
    ASSUME NEW ed, IsEditor(ed)
    PROVE  /\ SameHistory(ed, ed)
           /\ SameHistory(ed, ClearReadBuffer(ed))
           /\ \A pos : SameHistory(ed, MoveCursorTo(ed, pos))
           /\ \A text : SameHistory(ed, InsertText(ed, text))
           /\ \A old, new : SameHistory(ed, ReplaceAtCursor(ed, old, new))
           /\ SameHistory(ed, DeleteChar(ed)) /\ SameHistory(ed, BackSpace(ed))
           /\ SameHistory(ed, ToPrevWord(ed)) /\ SameHistory(ed, ToNextWord(ed))
<1>1. SameHistory(ed, ed) /\ SameHistory(ed, ClearReadBuffer(ed))
  <2>1. PICK e : e = WithLine(ed, <<>>, 0)
    OBVIOUS
  <2>2. SameHistory(ed, e) /\ IsEditor(e)
    BY <2>1, LineSet
  <2>3. SameHistory(e, [e EXCEPT !.tabs = 0])
    BY <2>2, FieldSet
  <2>4. SameHistory(ed, [e EXCEPT !.tabs = 0])
    BY <2>2, <2>3, SameAfter
  <2>. QED
    BY <2>1, <2>4, SameItself DEF ClearReadBuffer, WithLine
<1>2. ASSUME NEW e, IsEditor(e)
      PROVE  /\ \A pos : SameHistory(e, MoveCursorTo(e, pos))
             /\ \A text : SameHistory(e, InsertText(e, text))
             /\ SameHistory(e, DeleteChar(e))
  <2>1. ASSUME NEW pos PROVE SameHistory(e, MoveCursorTo(e, pos))
    <3>1. SameHistory(e, e) /\ SameHistory(e, [e EXCEPT !.cursor = pos])
      BY <1>2, FieldSet, SameItself
    <3>. QED
      BY <3>1 DEF MoveCursorTo
  <2>2. ASSUME NEW text PROVE SameHistory(e, InsertText(e, text))
    <3>. DEFINE v == SubSeq(e.buffer, 1, e.cursor) \o text \o From(e.buffer, e.cursor + 1)
                w == e.cursor + Len(text)
    <3>1. InsertText(e, text) = WithLine(e, v, w)
      BY <1>2 DEF InsertText, IsEditor, WithLine
    <3>. HIDE DEF v, w
    <3>. QED
      BY <1>2, <3>1, LineSet
  <2>3. SameHistory(e, DeleteChar(e))
    <3>1. PICK v : v = RemoveAt(e.buffer, e.cursor + 1)
      OBVIOUS
    <3>2. SameHistory(e, e) /\ SameHistory(e, [e EXCEPT !.buffer = v])
      BY <1>2, FieldSet, SameItself
    <3>. QED
      BY <3>1, <3>2 DEF DeleteChar
  <2>. QED
    BY <2>1, <2>2, <2>3
<1>3. SameHistory(ed, BackSpace(ed))
  <2>1. PICK e : e = MoveCursorTo(ed, ed.cursor - 1)
    OBVIOUS
  <2>2. SameHistory(ed, e) /\ IsEditor(e)
    BY <1>2, <2>1 DEF SameHistory
  <2>3. SameHistory(e, DeleteChar(e))
    BY <1>2, <2>2
  <2>. QED
    BY <1>1, <2>1, <2>2, <2>3 DEF BackSpace, SameHistory
<1>4. SameHistory(ed, ToPrevWord(ed)) /\ SameHistory(ed, ToNextWord(ed))
  BY <1>2 DEF ToPrevWord, ToNextWord
<1>5. ASSUME NEW old, NEW new PROVE SameHistory(ed, ReplaceAtCursor(ed, old, new))
  <2>. DEFINE v == SubSeq(ed.buffer, 1, ed.cursor - Len(old)) \o From(ed.buffer, ed.cursor + 1)
              w == ed.cursor - Len(old)
              e == WithLine(ed, v, w)
  <2>1. ReplaceAtCursor(ed, old, new) = InsertText(e, new)
    BY DEF ReplaceAtCursor, IsEditor, WithLine
  <2>2. SameHistory(ed, e) /\ IsEditor(e)
    <3>. HIDE DEF v, w
    <3>. QED
      BY LineSet
  <2>. HIDE DEF e
  <2>3. SameHistory(e, InsertText(e, new))
    BY <1>2, <2>2
  <2>. QED
    BY <2>1, <2>2, <2>3 DEF ReplaceAtCursor, SameHistory
<1>. QED
  BY <1>1, <1>2, <1>3, <1>4, <1>5

-----------------------------------------------------------------------------
(* What the keys do to the cursor                                          *)

\* The line is a text, and the cursor stands in it.
CursorIn(ed) == IsSequence(ed.buffer) /\ ed.cursor \in 0 .. Len(ed.buffer)

LEMMA LineIs ==
    ASSUME NEW ed, IsEditor(ed), NEW v, NEW w
    PROVE  WithLine(ed, v, w).buffer = v /\ WithLine(ed, v, w).cursor = w
<1>1. PICK e : e = [ed EXCEPT !.buffer = v]
  OBVIOUS
<1>2. e = [buffer |-> v, cursor |-> ed.cursor, history |-> ed.history, idx |-> ed.idx,
           stored |-> ed.stored, tabs |-> ed.tabs]
  BY <1>1 DEF IsEditor
<1>3. [e EXCEPT !.cursor = w]
      = [buffer |-> v, cursor |-> w, history |-> ed.history, idx |-> ed.idx,
         stored |-> ed.stored, tabs |-> ed.tabs]
  BY <1>2
<1>. QED
  BY <1>1, <1>3 DEF WithLine

LEMMA FieldIs ==
    ASSUME NEW ed, IsEditor(ed), NEW v
    PROVE  /\ [ed EXCEPT !.buffer = v].buffer = v /\ [ed EXCEPT !.buffer = v].cursor = ed.cursor
           /\ [ed EXCEPT !.cursor = v].buffer = ed.buffer /\ [ed EXCEPT !.cursor = v].cursor = v
           /\ [ed EXCEPT !.tabs = v].buffer = ed.buffer /\ [ed EXCEPT !.tabs = v].cursor = ed.cursor
  BY DEF IsEditor

\* A text is cut in two.
LEMMA Halves ==
    ASSUME NEW s, IsSequence(s), NEW c \in 0 .. Len(s)
    PROVE  /\ IsSequence(SubSeq(s, 1, c)) /\ Len(SubSeq(s, 1, c)) = c
           /\ IsSequence(From(s, c + 1)) /\ Len(From(s, c + 1)) = Len(s) - c
<1>1. PICK n, k : n = Len(s) /\ n \in Nat /\ c \in Nat /\ c <= n /\ k = c + 1 /\ k \in Int
  BY DEF IsSequence
<1>2. PICK left, right : left = SubSeq(s, 1, c) /\ right = SubSeq(s, k, n)
  OBVIOUS
<1>3. IsSequence(left) /\ Len(left) = (IF 1 <= c THEN c - 1 + 1 ELSE 0)
  BY <1>1, <1>2, Cut
<1>4. IsSequence(right) /\ Len(right) = (IF k <= n THEN n - k + 1 ELSE 0)
  BY <1>1, <1>2, Cut
<1>5. Len(left) = c /\ Len(right) = n - c
  BY <1>1, <1>3, <1>4
<1>. QED
  BY <1>1, <1>2, <1>3, <1>4, <1>5 DEF From

\* A text is put in, ...
LEMMA Inserted ==
    ASSUME NEW ed, IsEditor(ed), CursorIn(ed), NEW text, IsSequence(text)
    PROVE  CursorIn(InsertText(ed, text))
<1>. DEFINE left == SubSeq(ed.buffer, 1, ed.cursor)
            right == From(ed.buffer, ed.cursor + 1)
<1>1. PICK n, c, l : n = Len(ed.buffer) /\ c = ed.cursor /\ l = Len(text)
                     /\ n \in Nat /\ c \in 0 .. n /\ l \in Nat
  BY DEF CursorIn, IsSequence
<1>2. IsSequence(left) /\ Len(left) = c /\ IsSequence(right) /\ Len(right) = n - c
  BY <1>1, Halves DEF CursorIn
<1>3. IsSequence(left \o text) /\ Len(left \o text) = c + l
  <2>. HIDE DEF left
  <2>. QED
    BY <1>1, <1>2, TextsJoined
<1>4. PICK both : both = left \o text
  OBVIOUS
<1>5. IsSequence(both \o right) /\ Len(both \o right) = c + l + (n - c)
  <2>. HIDE DEF left, right
  <2>. QED
    BY <1>1, <1>2, <1>3, <1>4, TextsJoined
<1>6. PICK v, w : v = both \o right /\ w = c + l
  OBVIOUS
<1>7. InsertText(ed, text) = WithLine(ed, v, w)
  BY <1>1, <1>4, <1>6 DEF InsertText, IsEditor, WithLine
<1>8. IsSequence(v) /\ w \in 0 .. Len(v)
  <2>1. IsSequence(v) /\ Len(v) = c + l + (n - c) /\ w = c + l
    BY <1>5, <1>6
  <2>2. n \in Int /\ c \in Nat /\ l \in Nat /\ c <= n
    BY <1>1
  <2>3. w \in Nat /\ w <= Len(v)
    BY <2>1, <2>2
  <2>. QED
    BY <2>1, <2>3 DEF IsSequence
<1>9. WithLine(ed, v, w).buffer = v /\ WithLine(ed, v, w).cursor = w
  BY LineIs
<1>. QED
  BY <1>7, <1>8, <1>9 DEF CursorIn

\* ... the cursor is moved, a character goes, ...
LEMMA Moved ==
    ASSUME NEW ed, IsEditor(ed), CursorIn(ed), NEW pos
    PROVE  CursorIn(MoveCursorTo(ed, pos)) /\ IsEditor(MoveCursorTo(ed, pos))
<1>1. IsEditor(MoveCursorTo(ed, pos))
  BY BufferEdits DEF SameHistory
<1>2. CursorIn(MoveCursorTo(ed, pos))
  BY FieldIs DEF MoveCursorTo, CursorIn
<1>. QED
  BY <1>1, <1>2

LEMMA Deleted ==
    ASSUME NEW ed, IsEditor(ed), CursorIn(ed) PROVE CursorIn(DeleteChar(ed))
<1>1. CASE ed.cursor = Len(ed.buffer)
  BY <1>1 DEF DeleteChar
<1>2. CASE ed.cursor # Len(ed.buffer)
  <2>1. PICK n, k, s : n = Len(ed.buffer) /\ k = ed.cursor + 1 /\ s = ed.buffer
                       /\ n \in Nat /\ k \in 1 .. n /\ ed.cursor = k - 1 /\ IsSequence(s)
    BY <1>2 DEF CursorIn, IsSequence
  <2>2. PICK left, right : left = SubSeq(s, 1, k - 1) /\ right = From(s, k + 1)
    OBVIOUS
  <2>3. IsSequence(left) /\ Len(left) = k - 1 /\ IsSequence(right) /\ Len(right) = n - k
    <3>1. k \in 0 .. Len(s) /\ k - 1 \in 0 .. Len(s)
      BY <2>1
    <3>. QED
      BY <2>1, <2>2, <3>1, Halves
  <2>4. PICK v : v = left \o right
    OBVIOUS
  <2>5. IsSequence(v) /\ Len(v) = n - 1
    <3>1. IsSequence(v) /\ Len(v) = Len(left) + Len(right)
      BY <2>3, <2>4, TextsJoined
    <3>2. Len(v) = (k - 1) + (n - k)
      BY <2>3, <3>1
    <3>3. n \in Int /\ k \in Int
      BY <2>1
    <3>. QED
      BY <3>1, <3>2, <3>3
  <2>6. DeleteChar(ed) = [ed EXCEPT !.buffer = v]
    <3>1. v = RemoveAt(ed.buffer, ed.cursor + 1)
      BY <2>1, <2>2, <2>4 DEF RemoveAt, From
    <3>2. DeleteChar(ed) = [ed EXCEPT !.buffer = RemoveAt(ed.buffer, ed.cursor + 1)]
      BY <1>2, Zenon DEF DeleteChar
    <3>. QED
      BY <3>1, <3>2
  <2>7. ed.cursor \in 0 .. Len(v)
    BY <2>1, <2>5
  <2>. QED
    BY <2>5, <2>6, <2>7, FieldIs DEF CursorIn
<1>. QED
  BY <1>1, <1>2

LEMMA LineEdits ==
    ASSUME NEW ed, IsEditor(ed)
    PROVE  /\ CursorIn(ClearReadBuffer(ed))
           /\ CursorIn(ed) => /\ CursorIn(BackSpace(ed)) /\ CursorIn(ToPrevWord(ed))
                              /\ CursorIn(ToNextWord(ed))
<1>1. CursorIn(ClearReadBuffer(ed))
  <2>1. PICK e : e = WithLine(ed, <<>>, 0)
    OBVIOUS
  <2>2. IsEditor(e) /\ e.buffer = <<>> /\ e.cursor = 0
    BY <2>1, LineSet, LineIs
  <2>3. PICK f : f = [e EXCEPT !.tabs = 0]
    OBVIOUS
  <2>4. f.buffer = <<>> /\ f.cursor = 0
    BY <2>2, <2>3, FieldIs
  <2>5. f = ClearReadBuffer(ed)
    BY <2>1, <2>3 DEF ClearReadBuffer, WithLine
  <2>6. IsSequence(<<>>) /\ Len(<<>>) = 0
    BY DEF IsSequence
  <2>. QED
    BY <2>4, <2>5, <2>6 DEF CursorIn
<1>2. ASSUME CursorIn(ed)
      PROVE  CursorIn(BackSpace(ed)) /\ CursorIn(ToPrevWord(ed)) /\ CursorIn(ToNextWord(ed))
  <2>1. CursorIn(BackSpace(ed))
    BY <1>2, Moved, Deleted DEF BackSpace
  <2>2. CursorIn(ToPrevWord(ed)) /\ CursorIn(ToNextWord(ed))
    BY <1>2, Moved, Zenon DEF ToPrevWord, ToNextWord
  <2>. QED
    BY <2>1, <2>2
<1>. QED
  BY <1>1, <1>2

\* ... or a text before the cursor is replaced.
LEMMA Replaced ==
    ASSUME NEW ed, IsEditor(ed), CursorIn(ed), NEW old, Len(old) \in 0 .. ed.cursor,
           NEW new, IsSequence(new)
    PROVE  CursorIn(ReplaceAtCursor(ed, old, new))
<1>. DEFINE left == SubSeq(ed.buffer, 1, ed.cursor - Len(old))
            right == From(ed.buffer, ed.cursor + 1)
            w == ed.cursor - Len(old)
            e == WithLine(ed, left \o right, w)
<1>1. PICK n, c, l : n = Len(ed.buffer) /\ c = ed.cursor /\ l = Len(old)
                     /\ n \in Nat /\ c \in 0 .. n /\ l \in 0 .. c
  BY DEF CursorIn, IsSequence
<1>2. IsSequence(left) /\ Len(left) = c - l /\ IsSequence(right) /\ Len(right) = n - c
  <2>1. c - l \in 0 .. n
    BY <1>1
  <2>. QED
    BY <1>1, <2>1, Halves DEF CursorIn
<1>3. ReplaceAtCursor(ed, old, new) = InsertText(e, new)
  BY DEF ReplaceAtCursor, IsEditor, WithLine
<1>. HIDE DEF left, right
<1>4. PICK v : v = left \o right
  OBVIOUS
<1>5. IsSequence(v) /\ Len(v) = (c - l) + (n - c)
  BY <1>1, <1>2, <1>4, TextsJoined
<1>6. w \in 0 .. Len(v)
  <2>1. n \in Int /\ c \in Nat /\ l \in Nat /\ c <= n /\ l <= c /\ w = c - l
    BY <1>1
  <2>2. w \in Nat /\ w <= Len(v)
    BY <1>5, <2>1
  <2>. QED
    BY <1>5, <2>2 DEF IsSequence
<1>7. e = WithLine(ed, v, w)
  BY <1>4
<1>. HIDE DEF e, w
<1>8. IsEditor(e) /\ e.buffer = v /\ e.cursor = w
  BY <1>7, LineSet, LineIs
<1>. QED
  BY <1>3, <1>5, <1>6, <1>8, Inserted DEF CursorIn

-----------------------------------------------------------------------------
(* What the keys do to the history                                         *)

\* What is stored behind the history goes.
LEMMA DropRemembers ==
    ASSUME NEW ed, NEW ran, NEW draft, Holds(ed, ran, draft), ed.idx \in 0 .. Len(ran)
    PROVE  LET new == DropStored(ed)
           IN /\ Remembers(new, ran, draft) /\ ~new.stored
              /\ new.buffer = ed.buffer /\ new.cursor = ed.cursor
<1>1. CASE ed.stored
  <2>1. Front(Append(ran, [input |-> draft, status |-> "done"])) = ran
    BY FrontOfPushed DEF Holds
  <2>2. PICK new : new = DropStored(ed)
    OBVIOUS
  <2>3. new = [buffer |-> ed.buffer, cursor |-> ed.cursor, history |-> ran, idx |-> ed.idx,
               stored |-> FALSE, tabs |-> ed.tabs]
    BY <1>1, <2>1, <2>2 DEF Holds, IsEditor, DropStored
  <2>. QED
    BY <2>2, <2>3 DEF Remembers, Holds, IsEditor
<1>2. CASE ~ed.stored
  BY <1>2 DEF Remembers, Holds, DropStored
<1>. QED
  BY <1>1, <1>2

\* The texts that are remembered
AreTexts(ran, draft) == IsSequence(draft) /\ \A i \in 1 .. Len(ran) : IsSequence(ran[i].input)

LEMMA EntryText ==
    ASSUME NEW ed, NEW ran, NEW draft, Holds(ed, ran, draft), AreTexts(ran, draft),
           NEW i \in 1 .. Len(ed.history)
    PROVE  IsSequence(ed.history[i].input)
<1>1. CASE ed.stored
  <2>1. PICK e : e = [input |-> draft, status |-> "done"]
    OBVIOUS
  <2>2. ed.history = Append(ran, e) /\ e.input = draft /\ IsSequence(ran) /\ Len(ran) \in Nat
    BY <1>1, <2>1 DEF Holds, IsSequence
  <2>3. /\ Len(ed.history) = Len(ran) + 1 /\ ed.history[Len(ran) + 1] = e
        /\ \A j \in 1 .. Len(ran) : ed.history[j] = ran[j]
    BY <2>2, Pushed
  <2>4. CASE i = Len(ran) + 1
    BY <2>2, <2>3, <2>4 DEF AreTexts
  <2>5. CASE i # Len(ran) + 1
    <3>1. i \in 1 .. Len(ran)
      BY <2>2, <2>3, <2>5
    <3>. QED
      BY <2>3, <3>1 DEF AreTexts
  <2>. QED
    BY <2>4, <2>5
<1>2. CASE ~ed.stored
  BY <1>2 DEF Holds, AreTexts
<1>. QED
  BY <1>1, <1>2

LEMMA HistoryLength ==
    ASSUME NEW ed, NEW ran, NEW draft, Holds(ed, ran, draft)
    PROVE  /\ Len(ran) \in Nat /\ IsSequence(ed.history)
           /\ Len(ed.history) = Len(ran) + (IF ed.stored THEN 1 ELSE 0)
<1>1. Len(ran) \in Nat /\ IsSequence(ran)
  BY DEF Holds, IsSequence
<1>2. CASE ed.stored
  <2>1. PICK e : e = [input |-> draft, status |-> "done"]
    OBVIOUS
  <2>2. IsSequence(Append(ran, e)) /\ Len(Append(ran, e)) = Len(ran) + 1
    BY <1>1, Pushed
  <2>. QED
    BY <1>1, <1>2, <2>1, <2>2 DEF Holds
<1>3. CASE ~ed.stored
  BY <1>1, <1>3 DEF Holds
<1>. QED
  BY <1>2, <1>3

\* An entry is shown; the draft, when it is shown, is no longer stored.
LEMMA ShowRemembers ==
    ASSUME NEW ed, NEW ran, NEW draft, Holds(ed, ran, draft),
           NEW i \in Nat, i < Len(ed.history)
    PROVE  LET new == ReplaceWithHistory([ed EXCEPT !.idx = i])
           IN /\ Remembers(new, ran, draft)
              /\ new.stored <=> ed.stored /\ i # Len(ed.history) - 1
              /\ AreTexts(ran, draft) => CursorIn(new)
<1>. DEFINE input == ed.history[i + 1].input
            shown == [buffer |-> input, cursor |-> Len(input), history |-> ed.history, idx |-> i,
                      stored |-> ed.stored, tabs |-> ed.tabs]
<1>1. Len(ran) \in Nat /\ Len(ed.history) = Len(ran) + (IF ed.stored THEN 1 ELSE 0)
  BY HistoryLength
<1>2. ReplaceWithHistory([ed EXCEPT !.idx = i])
      = IF i = Len(ed.history) - 1 THEN DropStored(shown) ELSE shown
  <2>1. PICK e : e = [ed EXCEPT !.idx = i]
    OBVIOUS
  <2>2. e = [buffer |-> ed.buffer, cursor |-> ed.cursor, history |-> ed.history, idx |-> i,
             stored |-> ed.stored, tabs |-> ed.tabs]
    BY <2>1 DEF Holds, IsEditor
  <2>3. e.history = ed.history /\ e.idx = i /\ i # Len(e.history)
    BY <1>1, <2>2
  <2>4. [e EXCEPT !.buffer = input, !.cursor = Len(input)] = shown
    <3>. HIDE DEF input
    <3>1. PICK f, n : f = [e EXCEPT !.buffer = input] /\ n = Len(input)
      OBVIOUS
    <3>2. f = [buffer |-> input, cursor |-> ed.cursor, history |-> ed.history, idx |-> i,
               stored |-> ed.stored, tabs |-> ed.tabs]
      BY <2>2, <3>1
    <3>3. [f EXCEPT !.cursor = n]
          = [buffer |-> input, cursor |-> n, history |-> ed.history, idx |-> i,
             stored |-> ed.stored, tabs |-> ed.tabs]
      BY <3>2
    <3>. QED
      BY <3>1, <3>3
  <2>. HIDE DEF shown
  <2>. QED
    BY <2>1, <2>3, <2>4 DEF ReplaceWithHistory
<1>3. shown.idx = i /\ shown.stored = ed.stored /\ Holds(shown, ran, draft)
  BY DEF Holds, IsEditor
<1>. HIDE DEF shown
<1>4. i \in 0 .. Len(ran)
  BY <1>1 DEF Holds
<1>5. AreTexts(ran, draft) => CursorIn(shown)
  <2>1. SUFFICES ASSUME AreTexts(ran, draft) PROVE CursorIn(shown)
    OBVIOUS
  <2>2. i + 1 \in 1 .. Len(ed.history)
    BY <1>1 DEF Holds
  <2>3. IsSequence(input) /\ Len(input) \in 0 .. Len(input)
    BY <2>1, <2>2, EntryText DEF IsSequence
  <2>4. shown.buffer = input /\ shown.cursor = Len(input)
    BY DEF shown
  <2>. QED
    BY <2>3, <2>4 DEF CursorIn
<1>6. CASE i = Len(ed.history) - 1
  BY <1>2, <1>3, <1>4, <1>6, <1>5, DropRemembers DEF CursorIn
<1>7. CASE i # Len(ed.history) - 1
  <2>1. ed.stored => i < Len(ran)
    BY <1>1, <1>7
  <2>. QED
    BY <1>2, <1>3, <1>4, <1>7, <1>5, <2>1 DEF Remembers
<1>. QED
  BY <1>6, <1>7

\* _retrieve_history
LEMMA BrowseRemembers ==
    ASSUME NEW ed, NEW ran, NEW draft, Remembers(ed, ran, draft),
           NEW index \in Nat, index <= Len(ed.history)
    PROVE  LET new == RetrieveHistory(ed, index)
           IN /\ Remembers(new, ran, IF new.stored /\ ~ed.stored THEN ed.buffer ELSE draft)
              /\ CursorIn(ed) /\ AreTexts(ran, draft) => CursorIn(new)
<1>. DEFINE L == Len(ed.history)
            To(e, i) == ReplaceWithHistory([e EXCEPT !.idx = i])
            entry == [input |-> ed.buffer, status |-> "done"]
            kept  == [ed EXCEPT !.history = Append(@, entry), !.stored = TRUE]
            new   == RetrieveHistory(ed, index)
<1>1. /\ Holds(ed, ran, draft) /\ Len(ran) \in Nat /\ ed.idx \in Nat /\ ed.idx <= Len(ran)
      /\ L = Len(ran) + (IF ed.stored THEN 1 ELSE 0) /\ (ed.stored => ed.idx < Len(ran))
  BY HistoryLength DEF Remembers, Holds
<1>2. new = IF index = ed.idx \/ (index > ed.idx /\ ed.idx = L - (IF ed.stored THEN 1 ELSE 0)) THEN ed
            ELSE IF index > ed.idx THEN To(ed, Min({index, L - 1}))
            ELSE To(IF ed.idx = L THEN kept ELSE ed, index)
  <2>1. ~(ed.stored /\ ed.idx = L - 1)
    BY <1>1
  <2>2. CASE index > ed.idx \/ index = ed.idx
    BY <1>1, <2>2 DEF RetrieveHistory
  <2>3. CASE ~(index > ed.idx \/ index = ed.idx)
    BY <1>1, <2>1, <2>3 DEF RetrieveHistory
  <2>. QED
    BY <2>2, <2>3
<1>. HIDE DEF new
<1>3. CASE new = ed
  BY <1>3 DEF new
<1>4. CASE index > ed.idx /\ ed.idx # Len(ran)
  <2>1. index \in Nat /\ L - 1 \in Nat /\ ed.idx # L - (IF ed.stored THEN 1 ELSE 0)
    BY <1>1, <1>4
  <2>2. PICK i \in Nat : i = Min({index, L - 1}) /\ i < L
    <3>1. Min({index, L - 1}) \in {index, L - 1} /\ \A x \in {index, L - 1} : Min({index, L - 1}) <= x
      BY <2>1, MinOfNaturals
    <3>. QED
      BY <1>1, <2>1, <3>1
  <2>3. new = To(ed, i)
    BY <1>1, <1>2, <1>4, <2>1, <2>2
  <2>4. /\ Remembers(new, ran, draft) /\ (new.stored => ed.stored)
        /\ AreTexts(ran, draft) => CursorIn(new)
    BY <1>1, <2>2, <2>3, ShowRemembers
  <2>. QED
    BY <2>4 DEF new
<1>5. CASE index < ed.idx /\ ed.idx # L
  <2>1. new = To(ed, index) /\ index < L
    BY <1>1, <1>2, <1>5
  <2>2. /\ Remembers(new, ran, draft) /\ (new.stored => ed.stored)
        /\ AreTexts(ran, draft) => CursorIn(new)
    BY <1>1, <2>1, ShowRemembers
  <2>. QED
    BY <2>2 DEF new
<1>6. CASE index < ed.idx /\ ed.idx = L
  <2>1. ~ed.stored /\ ed.history = ran /\ index < Len(ran)
    BY <1>1, <1>6 DEF Holds
  <2>2. kept = [buffer |-> ed.buffer, cursor |-> ed.cursor, history |-> Append(ran, entry),
                idx |-> ed.idx, stored |-> TRUE, tabs |-> ed.tabs]
    <3>1. PICK longer : longer = Append(ed.history, entry)
      OBVIOUS
    <3>2. PICK f : f = [ed EXCEPT !.history = longer]
      OBVIOUS
    <3>3. f = [buffer |-> ed.buffer, cursor |-> ed.cursor, history |-> longer, idx |-> ed.idx,
               stored |-> ed.stored, tabs |-> ed.tabs]
      BY <1>1, <3>2 DEF Holds, IsEditor
    <3>4. PICK yes : yes = TRUE
      OBVIOUS
    <3>5. [f EXCEPT !.stored = yes]
          = [buffer |-> ed.buffer, cursor |-> ed.cursor, history |-> longer, idx |-> ed.idx,
             stored |-> yes, tabs |-> ed.tabs]
      BY <3>3
    <3>. QED
      BY <2>1, <3>1, <3>2, <3>4, <3>5
  <2>3. Holds(kept, ran, ed.buffer) /\ kept.stored
    BY <1>1, <2>2 DEF Holds, IsEditor
  <2>4. new = To(kept, index)
    BY <1>1, <1>2, <1>6
  <2>. HIDE DEF kept
  <2>5. index < Len(kept.history) /\ index # Len(kept.history) - 1
    <3>1. Len(kept.history) = Len(ran) + 1
      BY <2>3, HistoryLength
    <3>2. Len(ran) \in Nat
      BY <1>1
    <3>3. index < Len(ran)
      BY <2>1
    <3>. QED
      BY <3>1, <3>2, <3>3
  <2>6. /\ Remembers(new, ran, ed.buffer) /\ new.stored
        /\ AreTexts(ran, ed.buffer) => CursorIn(new)
    BY <2>3, <2>4, <2>5, ShowRemembers
  <2>7. CursorIn(ed) /\ AreTexts(ran, draft) => AreTexts(ran, ed.buffer)
    BY DEF CursorIn, AreTexts
  <2>. QED
    BY <2>1, <2>6, <2>7 DEF new
<1>. QED
  BY <1>1, <1>2, <1>3, <1>4, <1>5, <1>6

\* The places that the arrows go to are in the history.
LEMMA MatchingPlaces ==
    ASSUME NEW ed, NEW ran, NEW draft, Remembers(ed, ran, draft), NEW count
    PROVE  /\ PrevMatching(ed, count) \in Nat /\ PrevMatching(ed, count) <= Len(ed.history)
           /\ NextMatching(ed, count) \in Nat /\ NextMatching(ed, count) <= Len(ed.history)
<1>1. PICK n \in Nat : n = Len(ed.history) /\ ed.idx \in Nat /\ ed.idx <= n
  BY HistoryLength DEF Remembers, Holds
<1>. DEFINE Typed(i) == IsPrefix(PrefixTyped(ed), ed.history[i + 1].input)
            before == {i \in 0 .. ed.idx - 1 : Typed(i)}
            behind == {i \in ed.idx + 1 .. Len(ed.history) - 1 : Typed(i)}
            nthBefore == {i \in before : Cardinality({j \in before : j >= i}) = count}
            nthBehind == {i \in behind : Cardinality({j \in behind : j <= i}) = count}
<1>. HIDE DEF Typed
<1>2. PrevMatching(ed, count) = IF before = {} THEN ed.idx
                                ELSE IF nthBefore # {} THEN Min(nthBefore) ELSE Min(before)
  BY DEF PrevMatching, Typed
<1>3. NextMatching(ed, count) = IF behind = {} THEN ed.idx
                                ELSE IF nthBehind # {} THEN Max(nthBehind) ELSE Max(behind)
  BY DEF NextMatching, Typed
<1>4. nthBefore \subseteq before /\ before \subseteq Nat /\ \A i \in before : i <= n
  BY <1>1
<1>5. nthBehind \subseteq behind /\ behind \subseteq Nat /\ \A i \in behind : i <= n
  BY <1>1
<1>. HIDE DEF before, behind, nthBefore, nthBehind
<1>6. ASSUME NEW S, S \subseteq Nat, S # {}, \A i \in S : i <= n
      PROVE  Min(S) \in Nat /\ Min(S) <= n /\ Max(S) \in Nat /\ Max(S) <= n
  BY <1>6, MinOfNaturals, MaxOfNaturals
<1>7. PrevMatching(ed, count) \in Nat /\ PrevMatching(ed, count) <= n
  BY <1>1, <1>2, <1>4, <1>6
<1>8. NextMatching(ed, count) \in Nat /\ NextMatching(ed, count) <= n
  BY <1>1, <1>3, <1>5, <1>6
<1>. QED
  BY <1>1, <1>7, <1>8

\* What a key that is no tab and no enter leaves
LEMMA KeyRemembers ==
    ASSUME NEW ran, NEW draft, Remembers(editor, ran, draft), NEW key,
           key.key \in {"type", "home", "end", "left", "right", "back_space", "delete", "prev_word",
                        "next_word", "up", "down", "pg_up", "pg_down"}
    PROVE  LET new == Edited(key)
           IN /\ Remembers(new, ran, IF new.stored /\ ~editor.stored THEN editor.buffer ELSE draft)
              /\ CursorIn(editor) /\ AreTexts(ran, draft) /\ IsSequence(key.text) => CursorIn(new)
<1>. DEFINE Kept(new) == Remembers(new, ran, IF new.stored /\ ~editor.stored THEN editor.buffer
                                             ELSE draft)
            Premise == CursorIn(editor) /\ AreTexts(ran, draft) /\ IsSequence(key.text)
<1>1. IsEditor(editor)
  BY DEF Remembers, Holds
<1>2. ASSUME NEW new, SameHistory(editor, new) PROVE Kept(new)
  <2>1. Remembers(new, ran, draft) /\ new.stored = editor.stored
    BY <1>2, SameRemembers DEF SameHistory
  <2>. QED
    BY <2>1
<1>3. ASSUME NEW count
      PROVE  /\ Kept(ArrowUp(editor, count)) /\ Kept(ArrowDown(editor, count))
             /\ Premise => CursorIn(ArrowUp(editor, count)) /\ CursorIn(ArrowDown(editor, count))
  BY BrowseRemembers, MatchingPlaces DEF ArrowUp, ArrowDown
<1>. HIDE DEF Kept
<1>4. Kept(Edited(key))
  <2>1. CASE key.key \in {"type", "home", "end", "left", "right"}
    BY <1>1, <1>2, <2>1, BufferEdits DEF Edited
  <2>2. CASE key.key \in {"back_space", "delete", "prev_word", "next_word"}
    BY <1>1, <1>2, <2>2, BufferEdits DEF Edited
  <2>3. CASE key.key \in {"up", "down", "pg_up", "pg_down"}
    BY <1>3, <2>3 DEF Edited
  <2>. QED
    BY <2>1, <2>2, <2>3
<1>5. ASSUME Premise PROVE CursorIn(Edited(key))
  <2>1. CASE key.key \in {"type", "home", "end", "left", "right"}
    BY <1>1, <1>5, <2>1, Inserted, Moved DEF Edited
  <2>2. CASE key.key \in {"back_space", "delete", "prev_word", "next_word"}
    BY <1>1, <1>5, <2>2, LineEdits, Deleted DEF Edited
  <2>3. CASE key.key \in {"up", "down", "pg_up", "pg_down"}
    BY <1>3, <1>5, <2>3 DEF Edited
  <2>. QED
    BY <2>1, <2>2, <2>3
<1>. QED
  BY <1>4, <1>5 DEF Kept

\* What a tab leaves
Completes(ed, tab) == "ed" \in DOMAIN tab /\ SameHistory(ed, tab.ed)

LEMMA Completed ==
    ASSUME NEW ed, NEW new, SameHistory(ed, new)
    PROVE  Completes(ed, NoOp(new)) /\ Completes(ed, Did(new)) /\ Completes(ed, Throws(new))
<1>1. \A tab : "ed" \in DOMAIN tab /\ tab.ed = new => Completes(ed, tab)
  BY DEF Completes
<1>2. PICK yes : yes = TRUE
  OBVIOUS
<1>3. "ed" \in DOMAIN NoOp(new) /\ NoOp(new).ed = new
  BY DEF NoOp
<1>4. /\ "ed" \in DOMAIN [NoOp(new) EXCEPT !.done = yes]
      /\ [NoOp(new) EXCEPT !.done = yes].ed = new
      /\ "ed" \in DOMAIN [NoOp(new) EXCEPT !.throws = yes]
      /\ [NoOp(new) EXCEPT !.throws = yes].ed = new
  BY DEF NoOp
<1>. QED
  BY <1>1, <1>2, <1>3, <1>4 DEF Did, Throws

\* _autocomplete
LEMMA AutocompleteKeeps ==
    ASSUME NEW old, NEW ed, SameHistory(old, ed), NEW prefix, NEW names, NEW state, NEW closing
    PROVE  Completes(old, Autocomplete(ed, prefix, names, state, closing))
<1>1. IsEditor(ed) /\ Completes(old, Did(ed))
  BY Completed DEF SameHistory
<1>2. ASSUME NEW text PROVE Completes(old, Did(InsertText(ed, text)))
  <2>1. SameHistory(ed, InsertText(ed, text))
    BY <1>1, BufferEdits
  <2>. QED
    BY <2>1, SameAfter, Completed
<1>. QED
  BY <1>1, <1>2, Zenon DEF Autocomplete

\* _match_identifiers
LEMMA IdentifiersKeep ==
    ASSUME NEW ed, IsEditor(ed), NEW reg, NEW str
    PROVE  Completes(ed, MatchIdentifiers(ed, reg, str))
<1>1. PICK e : e = [ed EXCEPT !.tabs = 0]
  OBVIOUS
<1>2. SameHistory(ed, e) /\ IsEditor(e)
  BY <1>1, FieldSet DEF SameHistory
<1>3. Completes(ed, NoOp(e)) /\ Completes(ed, Did(e))
  BY <1>2, Completed
<1>4. ASSUME NEW text PROVE Completes(ed, Did(InsertText(e, text)))
  <2>1. SameHistory(e, InsertText(e, text))
    BY <1>2, BufferEdits
  <2>. QED
    BY <1>2, <2>1, SameAfter, Completed
<1>5. ASSUME NEW old, NEW new PROVE Completes(ed, Did(ReplaceAtCursor(e, old, new)))
  <2>1. SameHistory(e, ReplaceAtCursor(e, old, new))
    BY <1>2, BufferEdits
  <2>. QED
    BY <1>2, <2>1, SameAfter, Completed
<1>. QED
  BY <1>1, <1>3, <1>4, <1>5, Zenon DEF MatchIdentifiers

\* _match_variables
LEMMA VariablesKeep ==
    ASSUME NEW old, NEW ed, SameHistory(old, ed), NEW reg, NEW str
    PROVE  Completes(old, MatchVariables(ed, reg, str))
<1>1. IsEditor(ed) /\ Completes(old, NoOp(ed))
  BY Completed DEF SameHistory
<1>2. ASSUME NEW before, NEW new PROVE Completes(old, Did(ReplaceAtCursor(ed, before, new)))
  <2>1. SameHistory(ed, ReplaceAtCursor(ed, before, new))
    BY <1>1, BufferEdits
  <2>. QED
    BY <2>1, SameAfter, Completed
<1>3. ASSUME NEW var, NEW key, NEW names
      PROVE  Completes(old, CompleteVariable(ed, reg, var, key, names))
  <2>1. ASSUME NEW closing PROVE Completes(old, Autocomplete(ed, key, names, "normal", closing))
    BY AutocompleteKeeps
  <2>. QED
    BY <1>1, <1>2, <2>1, Zenon DEF CompleteVariable
<1>. QED
  BY <1>1, <1>3, Zenon DEF MatchVariables

\* _match_files
LEMMA FilesKeep ==
    ASSUME NEW old, NEW ed, SameHistory(old, ed), NEW str
    PROVE  Completes(old, MatchFiles(ed, str))
<1>1. Completes(old, NoOp(ed)) /\ Completes(old, Throws(ed))
  BY Completed
<1>2. ASSUME NEW state, NEW prefix, NEW files
      PROVE  Completes(old, CompleteFile(ed, state, prefix, files))
  <2>1. ASSUME NEW closing, NEW file
        PROVE  Completes(old, [Autocomplete(ed, prefix, files, state, closing) EXCEPT !.file = file])
    <3>1. PICK tab : tab = Autocomplete(ed, prefix, files, state, closing)
      OBVIOUS
    <3>2. Completes(old, tab)
      BY <3>1, AutocompleteKeeps
    <3>3. Completes(old, [tab EXCEPT !.file = file])
      BY <3>2 DEF Completes
    <3>. QED
      BY <3>1, <3>3
  <2>. QED
    BY <1>1, <2>1, Zenon DEF CompleteFile
<1>. QED
  BY <1>1, <1>2, Zenon DEF MatchFiles

\* _on_tab_pressed
LEMMA TabKeeps ==
    ASSUME NEW ed, IsEditor(ed), NEW reg
    PROVE  SameHistory(ed, OnTabPressed(ed, reg).ed)
<1>1. PICK e : e = [ed EXCEPT !.tabs = @ + 1]
  OBVIOUS
<1>2. SameHistory(ed, e) /\ IsEditor(e)
  BY <1>1, FieldSet DEF SameHistory
<1>. DEFINE OrFiles(variables, str) ==
                IF variables.done THEN variables ELSE MatchFiles(variables.ed, str)
            InCommand(tab, start, word, str) ==
                IF start > Len(str) + 1 \/ ReadsNoChild(reg.identifiers, word) THEN Throws(tab.ed)
                ELSE IF tab.ed.tabs = 1 /\ GetCommand(reg, word) # <<>> THEN Did(tab.ed)
                ELSE OrFiles(MatchVariables(tab.ed, reg, str), str)
<1>3. ASSUME NEW tab, Completes(ed, tab), NEW str PROVE Completes(ed, OrFiles(tab, str))
  BY <1>3, FilesKeep DEF Completes
<1>4. ASSUME NEW tab, Completes(ed, tab), NEW start, NEW word, NEW str
      PROVE  Completes(ed, InCommand(tab, start, word, str))
  <2>1. SameHistory(ed, tab.ed)
    BY <1>4 DEF Completes
  <2>2. Completes(ed, Throws(tab.ed)) /\ Completes(ed, Did(tab.ed))
    BY <2>1, Completed
  <2>3. Completes(ed, OrFiles(MatchVariables(tab.ed, reg, str), str))
    <3>1. Completes(ed, MatchVariables(tab.ed, reg, str))
      BY <2>1, VariablesKeep
    <3>. HIDE DEF OrFiles
    <3>. QED
      BY <1>3, <3>1
  <2>. HIDE DEF OrFiles
  <2>. QED
    BY <2>2, <2>3
<1>5. ASSUME NEW str PROVE Completes(ed, MatchIdentifiers(e, reg, str)) /\ Completes(ed, NoOp(e))
  <2>1. Completes(e, MatchIdentifiers(e, reg, str)) /\ Completes(ed, NoOp(e))
    BY <1>2, IdentifiersKeep, Completed
  <2>. QED
    BY <1>2, <2>1, SameAfter DEF Completes
<1>. DEFINE str     == SubSeq(ed.buffer, 1, ed.cursor)
            token   == GetLastTokenPos(str, " ")
            from    == GetLastTokenPos(str, ";")
            command == IF from = 0 THEN 0
                       ELSE First({i \in from .. Len(ed.buffer) : ed.buffer[i] # " "})
            start   == Max({command, 1})
            space   == Unescaped(ed.buffer, " ", start)
            word    == SubSeq(str, start, IF space = 0 THEN Len(str) ELSE Min({space - 1, Len(str)}))
            ids     == IF token = command
                       THEN MatchIdentifiers(e, reg, IF token = 0 THEN <<>> ELSE From(str, token))
                       ELSE NoOp(e)
<1>6. OnTabPressed(ed, reg) = IF ids.done THEN ids ELSE InCommand(ids, start, word, str)
  BY <1>1, Zenon DEF OnTabPressed
<1>. HIDE DEF str, token, from, command, start, space, word, InCommand, OrFiles
<1>7. Completes(ed, ids)
  BY <1>5
<1>. HIDE DEF ids
<1>8. Completes(ed, OnTabPressed(ed, reg))
  BY <1>4, <1>6, <1>7
<1>. QED
  BY <1>8 DEF Completes

-----------------------------------------------------------------------------
(* What a tab does to the line                                             *)

\* The texts that a completion is made of
LEMMA CommonText ==
    ASSUME NEW S, S # {}, \A s \in S : IsSequence(s)
    PROVE  IsSequence(LongestCommonPrefix(S))
<1>. DEFINE C == CommonPrefixes(S)
<1>1. \A p \in C : IsSequence(p) /\ \A s \in S : Len(p) <= Len(s)
  <2>1. ASSUME NEW p \in C PROVE IsSequence(p) /\ \A s \in S : Len(p) <= Len(s)
    <3>1. PICK s \in S : p \in Prefixes(s)
      BY DEF CommonPrefixes
    <3>2. PICK l \in 0 .. Len(s) : p = SubSeq(s, 1, l)
      BY <3>1 DEF Prefixes
    <3>3. IsSequence(p)
      BY <3>2, Cut
    <3>. QED
      BY <3>3 DEF CommonPrefixes, IsPrefix
  <2>. QED
    BY <2>1
<1>2. <<>> \in C
  <2>1. \A s \in S : SubSeq(s, 1, 0) = <<>>
    <3>1. ASSUME NEW s \in S PROVE SubSeq(s, 1, 0) = <<>>
      <4>1. PICK t : t = SubSeq(s, 1, 0)
        OBVIOUS
      <4>2. IsSequence(t) /\ Len(t) = 0
        BY <4>1, Cut
      <4>. QED
        BY <4>1, <4>2, EmptyOrNot
    <3>. QED
      BY <3>1
  <2>2. SubSeq(<<>>, 1, 0) = <<>> /\ Len(<<>>) = 0
    OBVIOUS
  <2>3. \A s \in S : IsPrefix(<<>>, s)
    BY <2>1, <2>2 DEF IsPrefix, IsSequence
  <2>4. PICK s \in S : <<>> \in Prefixes(s)
    BY <2>1 DEF Prefixes, IsSequence
  <2>. QED
    BY <2>3, <2>4 DEF CommonPrefixes
<1>. HIDE DEF C
<1>. DEFINE lengths == {Len(p) : p \in C}
<1>3. PICK s \in S : Len(s) \in Nat
  BY DEF IsSequence
<1>4. lengths \subseteq Nat /\ lengths # {} /\ \A l \in lengths : l <= Len(s)
  BY <1>1, <1>2 DEF IsSequence
<1>5. PICK p \in C : Len(p) = Max(lengths) /\ \A l \in lengths : l <= Len(p)
  <2>1. Max(lengths) \in lengths /\ \A l \in lengths : l <= Max(lengths)
    <3>. HIDE DEF lengths
    <3>. QED
      BY <1>3, <1>4, MaxOfNaturals
  <2>. QED
    BY <2>1
<1>6. \A q \in C : Len(q) <= Len(p)
  BY <1>5
<1>7. LongestCommonPrefix(S) \in C
  BY <1>5, <1>6 DEF LongestCommonPrefix, C
<1>. QED
  BY <1>1, <1>7

LEMMA CompletionText ==
    ASSUME NEW typed, IsSequence(typed), NEW common, IsSequence(common), NEW state
    PROVE  IsSequence(Completion(typed, common, state))
<1>. DEFINE n == Len(common) - Len(typed)
            Piece(ch) == IF ch \in special_chars /\ ~ShouldBeEscaped(ch, state)
                         THEN <<Backslash, ch>> ELSE <<ch>>
            pieces == [i \in 1 .. n |-> Piece(common[Len(typed) + i])]
            S == Letters(common) \cup {Backslash}
<1>1. Len(common) \in Nat /\ Len(typed) \in Nat /\ n \in Int
  BY DEF IsSequence
<1>2. PICK m \in Nat : 1 .. m = 1 .. n
  <2>1. CASE n \in Nat
    BY <2>1
  <2>2. CASE n \notin Nat
    <3>1. 1 .. n = 1 .. 0
      BY <1>1, <2>2
    <3>. QED
      BY <3>1
  <2>. QED
    BY <2>1, <2>2
<1>3. \A i \in 1 .. n : Len(typed) + i \in 1 .. Len(common)
  BY <1>1
<1>4. ASSUME NEW i \in 1 .. n PROVE Piece(common[Len(typed) + i]) \in Seq(S)
  <2>1. PICK b, ch : b = Backslash /\ ch = common[Len(typed) + i] /\ b \in S /\ ch \in S
    BY <1>3 DEF Letters
  <2>2. <<b, ch>> \in Seq(S) /\ <<ch>> \in Seq(S)
    BY <2>1
  <2>. HIDE DEF S
  <2>. QED
    BY <2>1, <2>2, Zenon
<1>. HIDE DEF Piece, S, n
<1>5. pieces \in [1 .. m -> Seq(S)]
  BY <1>2, <1>4
<1>6. Completion(typed, common, state) = FlattenSeq(pieces)
  BY Zenon DEF Completion, Piece, n
<1>. HIDE DEF pieces
<1>7. FlattenSeq(pieces) \in Seq(S)
  BY <1>2, <1>5, FlattenedText
<1>. QED
  BY <1>6, <1>7, IsSequenceIn

LEMMA BegunText == ASSUME NEW text, IsSequence(text) PROVE IsSequence(Begun(text))
<1>1. text # <<>> => IsSequence(Front(text))
  BY Popped
<1>. QED
  BY <1>1, Zenon DEF Begun, EndsInBackslash

LEMMA BehindText ==
    ASSUME NEW text, IsSequence(text), NEW trailing PROVE IsSequence(Behind(trailing, text))
<1>1. ASSUME text # <<>> PROVE IsSequence(Tail(text))
  <2>1. PICK S : S = Letters(text)
    OBVIOUS
  <2>2. text \in Seq(S)
    BY <2>1, OfLetters
  <2>3. Tail(text) \in Seq(S)
    BY <1>1, <2>2
  <2>. QED
    BY <2>3, IsSequenceIn
<1>. QED
  BY <1>1, Zenon DEF Behind

LEMMA OneLetter == ASSUME NEW ch PROVE IsSequence(<<ch>>)
<1>1. <<ch>> \in Seq({ch})
  OBVIOUS
<1>. QED
  BY <1>1, IsSequenceIn

LEMMA NoLetter == IsSequence(<<>>) /\ Len(<<>>) = 0
  BY DEF IsSequence

\* The cursor is in the line, and where it was when nothing was done.
Lands(ed, tab) == CursorIn(tab.ed) /\ (tab.done \/ tab.ed.cursor = ed.cursor)

LEMMA Landed ==
    ASSUME NEW ed, NEW new, CursorIn(new)
    PROVE  /\ Lands(ed, Did(new))
           /\ new.cursor = ed.cursor => Lands(ed, NoOp(new)) /\ Lands(ed, Throws(new))
<1>1. PICK yes : yes = TRUE
  OBVIOUS
<1>2. /\ NoOp(new).ed = new
      /\ [NoOp(new) EXCEPT !.done = yes].ed = new /\ [NoOp(new) EXCEPT !.done = yes].done = yes
      /\ [NoOp(new) EXCEPT !.throws = yes].ed = new
  BY DEF NoOp
<1>3. Did(new).ed = new /\ Did(new).done /\ Throws(new).ed = new
  BY <1>1, <1>2 DEF Did, Throws
<1>. QED
  BY <1>2, <1>3 DEF Lands

\* _autocomplete
LEMMA AutocompleteLands ==
    ASSUME NEW old, NEW ed, IsEditor(ed), CursorIn(ed), NEW prefix, IsSequence(prefix),
           NEW names, names # {}, \A name \in names : IsSequence(name), NEW state,
           NEW closing, IsSequence(closing)
    PROVE  Lands(old, Autocomplete(ed, prefix, names, state, closing))
<1>. DEFINE behind == Behind(EndsInBackslash(prefix),
                             Completion(Begun(prefix), LongestCommonPrefix(names), state))
<1>1. IsSequence(behind)
  BY CommonText, BegunText, CompletionText, BehindText
<1>2. ASSUME NEW text, IsSequence(text)
      PROVE  /\ Lands(old, Did(InsertText(ed, text \o closing)))
             /\ Lands(old, Did(InsertText(ed, text \o <<>>)))
  <2>1. IsSequence(text \o closing) /\ IsSequence(text \o <<>>)
    BY <1>2, TextsJoined, NoLetter
  <2>. QED
    BY <2>1, Inserted, Landed
<1>3. Lands(old, Did(ed))
  BY Landed
<1>4. IsSequence(<<>>)
  BY NoLetter
<1>5. PICK text : text = (IF names = {prefix} THEN <<>> ELSE behind) /\ IsSequence(text)
  BY <1>1, <1>4
<1>6. \/ Autocomplete(ed, prefix, names, state, closing) = Did(ed)
      \/ Autocomplete(ed, prefix, names, state, closing) = Did(InsertText(ed, text \o closing))
      \/ Autocomplete(ed, prefix, names, state, closing) = Did(InsertText(ed, text \o <<>>))
  BY <1>5, Zenon DEF Autocomplete
<1>. QED
  BY <1>2, <1>3, <1>5, <1>6

\* The identifiers and the variables are named by texts, and stand for texts.
RegistryTexts(reg) ==
    /\ \A name \in DOMAIN reg.identifiers \cup DOMAIN reg.variables : IsSequence(name)
    /\ \A name \in DOMAIN reg.aliases : IsSequence(reg.aliases[name])
    /\ \A name \in DOMAIN reg.variables : IsSequence(reg.variables[name])

\* _match_identifiers
LEMMA IdentifiersLand ==
    ASSUME NEW ed, IsEditor(ed), CursorIn(ed), NEW reg, RegistryTexts(reg),
           NEW str, IsSequence(str), Len(str) <= ed.cursor
    PROVE  Lands(ed, MatchIdentifiers(ed, reg, str))
<1>1. PICK e : e = [ed EXCEPT !.tabs = 0]
  OBVIOUS
<1>2. IsEditor(e) /\ CursorIn(e) /\ e.cursor = ed.cursor
  BY <1>1, FieldSet, FieldIs DEF SameHistory, CursorIn
<1>3. Lands(ed, NoOp(e)) /\ Lands(ed, Did(e))
  BY <1>2, Landed
<1>4. ASSUME NEW name \in DOMAIN reg.identifiers, NEW closing, IsSequence(closing)
      PROVE  Lands(ed, Did(InsertText(e, From(name, Len(str) + 1) \o closing)))
  <2>1. IsSequence(From(name, Len(str) + 1))
    <3>1. Len(str) + 1 \in Int /\ Len(name) \in Int
      BY DEF RegistryTexts, IsSequence
    <3>. QED
      BY <3>1, Cut DEF From
  <2>2. IsSequence(From(name, Len(str) + 1) \o closing)
    BY <1>4, <2>1, TextsJoined
  <2>. QED
    BY <1>2, <2>2, Inserted, Landed
<1>5. ASSUME str \in DOMAIN reg.aliases
      PROVE  Lands(ed, Did(ReplaceAtCursor(e, str, reg.aliases[str])))
  <2>1. Len(str) \in 0 .. e.cursor
    BY <1>2 DEF IsSequence, CursorIn
  <2>2. IsSequence(reg.aliases[str])
    BY <1>5 DEF RegistryTexts
  <2>. QED
    BY <1>2, <2>1, <2>2, Replaced, Landed
<1>6. IsSequence(<<" ">>) /\ IsSequence(<<>>)
  <2>1. PICK ch : ch = " "
    BY Zenon
  <2>2. IsSequence(<<ch>>) /\ IsSequence(<<>>)
    BY OneLetter, NoLetter
  <2>. QED
    BY <2>1, <2>2, Zenon
<1>7. FindAllWithPrefix(reg.identifiers, str) \subseteq DOMAIN reg.identifiers
  BY DEF FindAllWithPrefix, WordsBelow
<1>8. PICK names : names = FindAllWithPrefix(reg.identifiers, str)
  OBVIOUS
<1>9. names # {} => (CHOOSE m \in names : TRUE) \in DOMAIN reg.identifiers
  BY <1>7, <1>8, Zenon
<1>. QED
  BY <1>1, <1>3, <1>4, <1>5, <1>6, <1>8, <1>9, Zenon DEF MatchIdentifiers

\* _match_variables
LEMMA VariablesLand ==
    ASSUME NEW ed, IsEditor(ed), CursorIn(ed), NEW reg, RegistryTexts(reg),
           NEW str, IsSequence(str), Len(str) <= ed.cursor
    PROVE  Lands(ed, MatchVariables(ed, reg, str))
<1>1. Lands(ed, NoOp(ed))
  BY Landed
<1>2. ASSUME NEW var, IsSequence(var), Len(var) <= ed.cursor, NEW key, IsSequence(key),
             NEW names, names \subseteq DOMAIN reg.variables
      PROVE  Lands(ed, CompleteVariable(ed, reg, var, key, names))
  <2>1. ASSUME key \in DOMAIN reg.variables
        PROVE  Lands(ed, Did(ReplaceAtCursor(ed, var, reg.variables[key])))
    <3>1. Len(var) \in 0 .. ed.cursor
      BY <1>2 DEF IsSequence, CursorIn
    <3>2. IsSequence(reg.variables[key])
      BY <2>1 DEF RegistryTexts
    <3>. QED
      BY <3>1, <3>2, Replaced, Landed
  <2>2. IsSequence(<<"}">>) /\ IsSequence(<<>>)
    <3>1. PICK ch : ch = "}"
      BY Zenon
    <3>2. IsSequence(<<ch>>) /\ IsSequence(<<>>)
      BY OneLetter, NoLetter
    <3>. QED
      BY <3>1, <3>2, Zenon
  <2>3. \A name \in names : IsSequence(name)
    BY <1>2 DEF RegistryTexts
  <2>4. ASSUME names # {}, NEW closing, IsSequence(closing)
        PROVE  Lands(ed, Autocomplete(ed, key, names, "normal", closing))
    BY <1>2, <2>3, <2>4, AutocompleteLands
  <2>. QED
    BY <1>1, <2>1, <2>2, <2>4, Zenon DEF CompleteVariable
<1>3. ASSUME NEW var, IsSequence(var) PROVE IsSequence(KeyOf(var))
  <2>. DEFINE close == IF Last(var) = "}" THEN 1 ELSE 0
  <2>1. close = 0 \/ close = 1
    BY Zenon
  <2>. HIDE DEF close
  <2>2. PICK n : n = Len(var) - close /\ n \in Int
    BY <1>3, <2>1 DEF IsSequence
  <2>3. IsSequence(SubSeq(var, 3, n))
    BY <2>2, Cut
  <2>4. IsSequence(From(var, 2))
    BY <1>3, Cut DEF From, IsSequence
  <2>5. KeyOf(var) = SubSeq(var, 3, n) \/ KeyOf(var) = From(var, 2)
    BY <2>2, Zenon DEF KeyOf, close
  <2>. QED
    BY <2>3, <2>4, <2>5
<1>4. PICK start : start = VariableStart(str)
  OBVIOUS
<1>5. start \in 0 .. Len(str)
  <2>. DEFINE Ends(i) == /\ str[i] = "$"
                         /\ \A j \in i + 1 .. Len(str) :
                               IsWordChar(str[j]) \/ (j = i + 1 /\ str[j] = "{")
                               \/ (j = Len(str) /\ str[j] = "}" /\ str[i + 1] = "{")
  <2>1. VariableStart(str) = Final({i \in 1 .. Len(str) : Ends(i)})
    BY Zenon DEF VariableStart
  <2>. HIDE DEF Ends
  <2>2. PICK P : P = {i \in 1 .. Len(str) : Ends(i)}
    OBVIOUS
  <2>3. P \subseteq 1 .. Len(str) /\ Len(str) \in Nat
    BY <2>2 DEF IsSequence
  <2>. QED
    BY <1>4, <2>1, <2>2, <2>3, FinalOf
<1>6. ASSUME start # 0
      PROVE  IsSequence(From(str, start)) /\ Len(From(str, start)) <= ed.cursor
  <2>1. PICK c : c = start - 1 /\ c \in 0 .. Len(str) /\ start = c + 1
    BY <1>5, <1>6 DEF IsSequence
  <2>2. IsSequence(From(str, c + 1)) /\ Len(From(str, c + 1)) = Len(str) - c
    BY <2>1, Halves
  <2>3. Len(str) - c <= ed.cursor
    BY <2>1 DEF IsSequence, CursorIn
  <2>. QED
    BY <2>1, <2>2, <2>3
<1>7. ASSUME NEW key PROVE {k \in DOMAIN reg.variables : IsPrefix(key, k)} \subseteq DOMAIN reg.variables
  OBVIOUS
<1>8. PICK var, key, names :
         /\ var = From(str, start) /\ key = KeyOf(var)
         /\ names = {k \in DOMAIN reg.variables : IsPrefix(key, k)}
  OBVIOUS
<1>9. ASSUME start # 0 PROVE Lands(ed, CompleteVariable(ed, reg, var, key, names))
  BY <1>2, <1>3, <1>6, <1>7, <1>8, <1>9
<1>. QED
  BY <1>1, <1>4, <1>8, <1>9, Zenon DEF MatchVariables

\* Where the last token begins
LEMMA TokenBegins ==
    ASSUME NEW str, IsSequence(str), NEW token
    PROVE  GetLastTokenPos(str, token) \in 0 .. Len(str) + 1
<1>1. PICK n : n = Len(str) /\ n \in Nat /\ DOMAIN str = 1 .. n
  BY DEF IsSequence
<1>2. PICK P : P = {i \in DOMAIN str : str[i] = token /\ ~IsEscaped(str, i)} /\ P \subseteq 1 .. n
  BY <1>1
<1>3. Final(P) \in 0 .. n
  BY <1>1, <1>2, FinalOf
<1>4. GetLastTokenPos(str, token) = 0 \/ GetLastTokenPos(str, token) = Final(P) + 1
  BY <1>2, Zenon DEF GetLastTokenPos
<1>. QED
  BY <1>1, <1>3, <1>4

\* A token is a text no longer than the one it ends.
LEMMA LastToken ==
    ASSUME NEW str, IsSequence(str), NEW start \in 1 .. Len(str) + 1
    PROVE  IsSequence(From(str, start)) /\ Len(From(str, start)) <= Len(str)
<1>1. PICK c : c = start - 1 /\ c \in 0 .. Len(str) /\ start = c + 1
  BY DEF IsSequence
<1>2. IsSequence(From(str, c + 1)) /\ Len(From(str, c + 1)) = Len(str) - c
  BY <1>1, Halves
<1>3. Len(str) - c <= Len(str)
  BY <1>1 DEF IsSequence
<1>. QED
  BY <1>1, <1>2, <1>3

LEMMA QuotesText ==
    ASSUME NEW state \in {"normal", "double_quote", "single_quote"}
    PROVE  IsSequence(Quotes(state))
<1>1. PICK double, single : double = "\"" /\ single = "'"
  BY Zenon
<1>2. IsSequence(<<double>>) /\ IsSequence(<<single>>) /\ IsSequence(<<>>)
  BY OneLetter, NoLetter
<1>. DEFINE N == <<>>
            D == <<"\"">>
            S == <<"'">>
<1>3. Quotes(state) = CASE state = "normal" -> N [] state = "double_quote" -> D
                        [] state = "single_quote" -> S
  BY DEF Quotes
<1>4. IsSequence(N) /\ IsSequence(D) /\ IsSequence(S)
  BY <1>1, <1>2, Zenon
<1>. HIDE DEF N, D, S
<1>. QED
  BY <1>3, <1>4

\* _match_files
LEMMA FilesLand ==
    ASSUME NEW ed, IsEditor(ed), CursorIn(ed), NEW str, IsSequence(str)
    PROVE  CursorIn(MatchFiles(ed, str).ed)
<1>. DEFINE Good(tab) == CursorIn(tab.ed)
<1>1. Good(NoOp(ed)) /\ Good(Throws(ed))
  BY Landed DEF Lands
<1>2. ASSUME NEW state \in {"normal", "double_quote", "single_quote"},
             NEW prefix, IsSequence(prefix)
      PROVE  Good(CompleteFile(ed, state, prefix, FilesFrom(prefix)))
  <2>1. PICK files : files = FilesFrom(prefix) /\ \A f \in files : IsSequence(f)
    BY LineEditorAssumption, IsSequenceIn DEF FilesFrom
  <2>2. IsSequence(Quotes(state) \o <<" ">>)
    <3>1. PICK space : space = " "
      BY Zenon
    <3>2. IsSequence(Quotes(state) \o <<space>>)
      BY QuotesText, OneLetter, TextsJoined
    <3>. QED
      BY <3>1, <3>2, Zenon
  <2>3. ASSUME files # {}, NEW closing, IsSequence(closing), NEW file
        PROVE  Good([Autocomplete(ed, prefix, files, state, closing) EXCEPT !.file = file])
    <3>1. PICK tab : tab = Autocomplete(ed, prefix, files, state, closing)
      OBVIOUS
    <3>2. CursorIn(tab.ed)
      BY <1>2, <2>1, <2>3, <3>1, AutocompleteLands DEF Lands
    <3>3. "ed" \in DOMAIN tab
      BY <3>1, SameItself, AutocompleteKeeps DEF Completes
    <3>4. [tab EXCEPT !.file = file].ed = tab.ed
      BY <3>3
    <3>. QED
      BY <3>1, <3>2, <3>4
  <2>. HIDE DEF Good
  <2>. QED
    BY <1>1, <2>1, <2>2, <2>3, Zenon DEF CompleteFile
<1>3. PICK state : state = OpenQuote(str)
  OBVIOUS
<1>4. state \in {"normal", "double_quote", "single_quote"}
  <2>. DEFINE closed == IsClosed(str)
              double == IsClosed(Append(str, "\""))
  <2>1. state = CASE closed -> "normal" [] double -> "double_quote" [] OTHER -> "single_quote"
    BY <1>3, Zenon DEF OpenQuote
  <2>. HIDE DEF closed, double
  <2>. QED
    BY <2>1
<1>5. IsSequence(Quotes(state))
  BY <1>4, QuotesText
<1>6. PICK text : text = Dequote(str \o Quotes(state)).text /\ IsSequence(text)
  BY <1>5, TextsJoined, DequotedText
<1>7. PICK space : space = " "
  BY Zenon
<1>8. PICK last : last = GetLastTokenPos(text, space) /\ last \in 0 .. Len(text) + 1
  BY <1>6, TokenBegins
<1>9. ASSUME last # 0 PROVE IsSequence(Plain(From(text, last)))
  <2>1. last \in 1 .. Len(text) + 1
    BY <1>6, <1>8, <1>9 DEF IsSequence
  <2>2. IsSequence(From(text, last))
    BY <1>6, <2>1, LastToken
  <2>. QED
    BY <2>2, PlainText
<1>10. PICK prefix : prefix = Plain(From(text, last))
  OBVIOUS
<1>. HIDE DEF Good
<1>11. MatchFiles(ed, str) = IF last = 0 THEN Throws(ed)
                             ELSE CompleteFile(ed, state, prefix, FilesFrom(prefix))
  BY <1>3, <1>6, <1>8, <1>10, <1>7, Zenon DEF MatchFiles
<1>12. last # 0 => Good(CompleteFile(ed, state, prefix, FilesFrom(prefix)))
  BY <1>2, <1>4, <1>9, <1>10
<1>13. Good(MatchFiles(ed, str))
  BY <1>1, <1>11, <1>12
<1>. QED
  BY <1>13 DEF Good

\* _on_tab_pressed
LEMMA TabLands ==
    ASSUME NEW ed, IsEditor(ed), CursorIn(ed), NEW reg, RegistryTexts(reg)
    PROVE  CursorIn(OnTabPressed(ed, reg).ed)
<1>1. PICK e : e = [ed EXCEPT !.tabs = @ + 1]
  OBVIOUS
<1>2. SameHistory(ed, e) /\ IsEditor(e) /\ CursorIn(e) /\ e.cursor = ed.cursor
  BY <1>1, FieldSet, FieldIs DEF SameHistory, CursorIn
<1>3. PICK str : str = SubSeq(ed.buffer, 1, ed.cursor) /\ IsSequence(str) /\ Len(str) = ed.cursor
  BY Halves DEF CursorIn
<1>. DEFINE OrFiles(variables) == IF variables.done THEN variables
                                  ELSE MatchFiles(variables.ed, str)
            InCommand(tab, start, word) ==
                IF start > Len(str) + 1 \/ ReadsNoChild(reg.identifiers, word) THEN Throws(tab.ed)
                ELSE IF tab.ed.tabs = 1 /\ GetCommand(reg, word) # <<>> THEN Did(tab.ed)
                ELSE OrFiles(MatchVariables(tab.ed, reg, str))
            Good(tab) == CursorIn(tab.ed)
<1>4. ASSUME NEW tab, IsEditor(tab.ed), CursorIn(tab.ed), tab.ed.cursor = ed.cursor,
             NEW start, NEW word
      PROVE  Good(InCommand(tab, start, word))
  <2>1. Good(Throws(tab.ed)) /\ Good(Did(tab.ed))
    BY <1>4, Landed DEF Lands
  <2>2. PICK variables : variables = MatchVariables(tab.ed, reg, str)
    OBVIOUS
  <2>3. Len(str) <= tab.ed.cursor
    BY <1>3, <1>4 DEF CursorIn, IsSequence
  <2>4. CursorIn(variables.ed)
    BY <1>3, <1>4, <2>2, <2>3, VariablesLand DEF Lands
  <2>5. IsEditor(variables.ed)
    BY <1>4, <2>2, SameItself, VariablesKeep DEF Completes, SameHistory
  <2>6. CursorIn(MatchFiles(variables.ed, str).ed)
    BY <1>3, <2>4, <2>5, FilesLand
  <2>7. Good(OrFiles(MatchVariables(tab.ed, reg, str)))
    BY <2>2, <2>4, <2>6
  <2>. HIDE DEF OrFiles, Good
  <2>. QED
    BY <2>1, <2>7
<1>. DEFINE token   == GetLastTokenPos(str, " ")
            from    == GetLastTokenPos(str, ";")
            command == IF from = 0 THEN 0
                       ELSE First({i \in from .. Len(ed.buffer) : ed.buffer[i] # " "})
            start   == Max({command, 1})
            space   == Unescaped(ed.buffer, " ", start)
            word    == SubSeq(str, start, IF space = 0 THEN Len(str) ELSE Min({space - 1, Len(str)}))
            typed   == IF token = 0 THEN <<>> ELSE From(str, token)
            ids     == IF token = command THEN MatchIdentifiers(e, reg, typed) ELSE NoOp(e)
<1>5. OnTabPressed(ed, reg) = IF ids.done THEN ids ELSE InCommand(ids, start, word)
  BY <1>1, <1>3, Zenon DEF OnTabPressed
<1>6. token \in 0 .. Len(str) + 1
  <2>1. PICK ch : ch = " "
    BY Zenon
  <2>2. GetLastTokenPos(str, ch) \in 0 .. Len(str) + 1
    BY <1>3, TokenBegins
  <2>. QED
    BY <2>1, <2>2, Zenon
<1>. HIDE DEF token, from, command, start, space, word, InCommand, OrFiles
<1>7. IsSequence(typed) /\ Len(typed) <= e.cursor
  <2>1. CASE token = 0
    BY <1>2, <2>1, NoLetter DEF CursorIn
  <2>2. CASE token # 0
    <3>1. token \in 1 .. Len(str) + 1
      BY <1>6, <2>2
    <3>2. IsSequence(From(str, token)) /\ Len(From(str, token)) <= Len(str)
      BY <1>3, <3>1, LastToken
    <3>. QED
      BY <1>2, <1>3, <2>2, <3>2
  <2>. QED
    BY <2>1, <2>2
<1>. HIDE DEF typed
<1>8. Lands(e, MatchIdentifiers(e, reg, typed)) /\ Lands(e, NoOp(e))
  BY <1>2, <1>7, IdentifiersLand, Landed
<1>9. Completes(e, MatchIdentifiers(e, reg, typed)) /\ Completes(e, NoOp(e))
  BY <1>2, IdentifiersKeep, SameItself, Completed
<1>10. Lands(e, ids) /\ Completes(e, ids)
  BY <1>8, <1>9
<1>. HIDE DEF ids
<1>11. IsEditor(ids.ed) /\ CursorIn(ids.ed) /\ (ids.done \/ ids.ed.cursor = ed.cursor)
  BY <1>2, <1>10 DEF Lands, Completes, SameHistory
<1>12. Good(OnTabPressed(ed, reg))
  BY <1>4, <1>5, <1>11
<1>. QED
  BY <1>12

\* get_last_return_status
LEMMA StatusOfMain ==
    ASSUME NEW h, IsSequence(h), \A i \in 1 .. Len(h) : h[i].status \in Results
    PROVE  LastReturnStatus(h) \in Results
<1>. DEFINE Counts == {i \in DOMAIN h : h[i].status # "quit"}
<1>1. DOMAIN h = 1 .. Len(h) /\ Len(h) \in Nat
  BY DEF IsSequence
<1>2. CASE Counts = {}
  BY <1>2 DEF LastReturnStatus, Results
<1>3. CASE Counts # {}
  <2>1. Counts \subseteq Nat /\ \A i \in Counts : i <= Len(h)
    BY <1>1
  <2>2. Max(Counts) \in Counts
    <3>. HIDE DEF Counts
    <3>. QED
      BY <1>1, <1>3, <2>1, MaxOfNaturals
  <2>3. LastReturnStatus(h) = h[Max(Counts)].status
    BY <1>3 DEF LastReturnStatus
  <2>. QED
    BY <1>1, <2>2, <2>3
<1>. QED
  BY <1>2, <1>3

-----------------------------------------------------------------------------
(* Steps that a reader takes                                               *)

\* A frame of which one field is another
LEMMA FrameSet ==
    ASSUME NEW f, IsFrame(f), NEW v
    PROVE  /\ [f EXCEPT !.lines = v]
              = [user |-> f.user, lines |-> v, state |-> f.state,
                 input |-> f.input, text |-> f.text, more |-> f.more,
                 result |-> f.result, rounds |-> f.rounds,
                 aliased |-> f.aliased, cut |-> f.cut]
           /\ [f EXCEPT !.state = v]
              = [user |-> f.user, lines |-> f.lines, state |-> v,
                 input |-> f.input, text |-> f.text, more |-> f.more,
                 result |-> f.result, rounds |-> f.rounds,
                 aliased |-> f.aliased, cut |-> f.cut]
           /\ [f EXCEPT !.input = v]
              = [user |-> f.user, lines |-> f.lines, state |-> f.state,
                 input |-> v, text |-> f.text, more |-> f.more,
                 result |-> f.result, rounds |-> f.rounds,
                 aliased |-> f.aliased, cut |-> f.cut]
           /\ [f EXCEPT !.text = v]
              = [user |-> f.user, lines |-> f.lines, state |-> f.state,
                 input |-> f.input, text |-> v, more |-> f.more,
                 result |-> f.result, rounds |-> f.rounds,
                 aliased |-> f.aliased, cut |-> f.cut]
           /\ [f EXCEPT !.more = v]
              = [user |-> f.user, lines |-> f.lines, state |-> f.state,
                 input |-> f.input, text |-> f.text, more |-> v,
                 result |-> f.result, rounds |-> f.rounds,
                 aliased |-> f.aliased, cut |-> f.cut]
           /\ [f EXCEPT !.result = v]
              = [user |-> f.user, lines |-> f.lines, state |-> f.state,
                 input |-> f.input, text |-> f.text, more |-> f.more,
                 result |-> v, rounds |-> f.rounds, aliased |-> f.aliased,
                 cut |-> f.cut]
           /\ [f EXCEPT !.rounds = v]
              = [user |-> f.user, lines |-> f.lines, state |-> f.state,
                 input |-> f.input, text |-> f.text, more |-> f.more,
                 result |-> f.result, rounds |-> v, aliased |-> f.aliased,
                 cut |-> f.cut]
           /\ [f EXCEPT !.aliased = v]
              = [user |-> f.user, lines |-> f.lines, state |-> f.state,
                 input |-> f.input, text |-> f.text, more |-> f.more,
                 result |-> f.result, rounds |-> f.rounds, aliased |-> v,
                 cut |-> f.cut]
           /\ [f EXCEPT !.cut = v]
              = [user |-> f.user, lines |-> f.lines, state |-> f.state,
                 input |-> f.input, text |-> f.text, more |-> f.more,
                 result |-> f.result, rounds |-> f.rounds,
                 aliased |-> f.aliased, cut |-> v]
  BY DEF IsFrame

-----------------------------------------------------------------------------
(* How many commands a SIGINT may still stop                               *)

Stopping(ts) == {i \in 1 .. Len(ts) : ts[i].stop}

LEMMA StoppingCount ==
    ASSUME NEW ts, IsSequence(ts)
    PROVE  IsFiniteSet(Stopping(ts)) /\ Cardinality(Stopping(ts)) \in Nat
<1>1. PICK n \in Nat : n = Len(ts)
  BY DEF IsSequence
<1>2. IsFiniteSet(1 .. n) /\ Stopping(ts) \subseteq 1 .. n
  BY <1>1, FS_Interval DEF Stopping
<1>3. IsFiniteSet(Stopping(ts))
  BY <1>2, FS_Subset
<1>. QED
  BY <1>3, FS_CardinalityType

\* A thread that was not asked to stop comes, ...
LEMMA StoppingPushed ==
    ASSUME NEW ts, IsSequence(ts), NEW th, th.stop = FALSE
    PROVE  Stopping(Append(ts, th)) = Stopping(ts)
<1>1. PICK us : us = Append(ts, th)
  OBVIOUS
<1>2. /\ Len(ts) \in Nat /\ Len(us) = Len(ts) + 1 /\ us[Len(ts) + 1] = th
      /\ \A i \in 1 .. Len(ts) : us[i] = ts[i]
  BY <1>1, Pushed DEF IsSequence
<1>3. Stopping(us) = Stopping(ts)
  BY <1>2 DEF Stopping
<1>. QED
  BY <1>1, <1>3

\* ... the innermost one goes, ...
LEMMA StoppingPopped ==
    ASSUME NEW ts, IsSequence(ts), ts # <<>>
    PROVE  /\ Last(ts).stop => Cardinality(Stopping(Front(ts))) + 1 = Cardinality(Stopping(ts))
           /\ ~Last(ts).stop => Stopping(Front(ts)) = Stopping(ts)
<1>1. PICK us : us = Front(ts)
  OBVIOUS
<1>2. PICK n \in Nat \ {0} : n = Len(ts)
  BY Popped
<1>3. Len(us) = n - 1 /\ \A i \in 1 .. n - 1 : us[i] = ts[i]
  BY <1>1, <1>2, Popped
<1>4. Last(ts) = ts[n]
  BY <1>2 DEF Last
<1>5. Stopping(us) = Stopping(ts) \ {n}
  BY <1>2, <1>3 DEF Stopping
<1>6. ASSUME Last(ts).stop PROVE Cardinality(Stopping(us)) + 1 = Cardinality(Stopping(ts))
  <2>1. n \in Stopping(ts) /\ IsFiniteSet(Stopping(ts))
    BY <1>2, <1>4, <1>6, StoppingCount DEF Stopping
  <2>2. /\ Cardinality(Stopping(ts) \ {n}) = Cardinality(Stopping(ts)) - 1
        /\ Cardinality(Stopping(ts)) \in Nat
    BY <2>1, FS_RemoveElement, FS_CardinalityType
  <2>. QED
    BY <1>5, <2>2
<1>7. ASSUME ~Last(ts).stop PROVE Stopping(us) = Stopping(ts)
  BY <1>2, <1>4, <1>5, <1>7 DEF Stopping
<1>. QED
  BY <1>1, <1>6, <1>7

\* ... or is asked.
LEMMA StoppingChanged ==
    ASSUME NEW ts, IsSequence(ts), ts # <<>>, NEW th
    PROVE  LET us == Append(Front(ts), th)
           IN /\ th.stop = Last(ts).stop => Stopping(us) = Stopping(ts)
              /\ Cardinality(Stopping(us)) <= Cardinality(Stopping(ts)) + 1
<1>1. PICK us : us = Append(Front(ts), th)
  OBVIOUS
<1>2. PICK n \in Nat \ {0} : n = Len(ts)
  BY Popped
<1>3. IsSequence(us) /\ Len(us) = n /\ us[n] = th /\ \A i \in 1 .. n - 1 : us[i] = ts[i]
  BY <1>1, <1>2, TopReplaced
<1>4. Last(ts) = ts[n]
  BY <1>2 DEF Last
<1>5. th.stop = Last(ts).stop => Stopping(us) = Stopping(ts)
  BY <1>2, <1>3, <1>4 DEF Stopping
<1>6. Stopping(us) \subseteq Stopping(ts) \cup {n}
  BY <1>2, <1>3 DEF Stopping
<1>7. IsFiniteSet(Stopping(ts)) /\ Cardinality(Stopping(ts)) \in Nat
      /\ Cardinality(Stopping(us)) \in Nat
  BY <1>3, StoppingCount
<1>8. /\ IsFiniteSet(Stopping(ts) \cup {n})
      /\ Cardinality(Stopping(ts) \cup {n}) <= Cardinality(Stopping(ts)) + 1
  <2>1. /\ IsFiniteSet(Stopping(ts) \cup {n})
        /\ Cardinality(Stopping(ts) \cup {n})
           = IF n \in Stopping(ts) THEN Cardinality(Stopping(ts)) ELSE Cardinality(Stopping(ts)) + 1
    BY <1>7, FS_AddElement
  <2>. QED
    BY <1>7, <2>1
<1>9. /\ Cardinality(Stopping(us)) <= Cardinality(Stopping(ts) \cup {n})
      /\ Cardinality(Stopping(ts) \cup {n}) \in Nat
  BY <1>6, <1>8, FS_Subset, FS_CardinalityType
<1>10. Cardinality(Stopping(us)) <= Cardinality(Stopping(ts)) + 1
  BY <1>7, <1>8, <1>9
<1>. QED
  BY <1>1, <1>5, <1>10

-----------------------------------------------------------------------------
(* The inductive invariant                                                 *)

ReadersInv == Nested(frames, commandThreads, outcome = "none")

\* sigint_handler has a thread to stop.
HandlerInv == handler \in BOOLEAN /\ (handler => commandThreads # <<>>)

\* Only who types a line browses.
HistoryInv ==
    /\ Remembers(editor, seen.ran, seen.draft)
    /\ editor.stored /\ outcome = "none" => Top.state = "listening" /\ Top.user

\* Every command that was interrupted, and every one that will be, has its signal.
SignalInv ==
    /\ seen.interrupted \in Nat /\ signals \in Nat
    /\ seen.interrupted + Cardinality(Stopping(commandThreads)) + (IF handler THEN 1 ELSE 0)
       <= signals

SeenInv ==
    seen = [ran |-> seen.ran, draft |-> seen.draft, file |-> seen.file,
            interrupted |-> seen.interrupted, quitting |-> seen.quitting,
            shadowed |-> seen.shadowed]

SessionInv == session \in [keys : Seq(SUBSET KeyPresses), signals : Nat]

CliInv == ReadersInv /\ HandlerInv /\ HistoryInv /\ SignalInv /\ SeenInv /\ SessionInv

\* The history of what happened, with one entry changed
LEMMA SeenSet ==
    ASSUME SeenInv, NEW v
    PROVE  /\ [seen EXCEPT !.ran = v]
              = [ran |-> v, draft |-> seen.draft, file |-> seen.file,
                 interrupted |-> seen.interrupted, quitting |-> seen.quitting,
                 shadowed |-> seen.shadowed]
           /\ [seen EXCEPT !.draft = v]
              = [ran |-> seen.ran, draft |-> v, file |-> seen.file,
                 interrupted |-> seen.interrupted, quitting |-> seen.quitting,
                 shadowed |-> seen.shadowed]
           /\ [seen EXCEPT !.file = v]
              = [ran |-> seen.ran, draft |-> seen.draft, file |-> v,
                 interrupted |-> seen.interrupted, quitting |-> seen.quitting,
                 shadowed |-> seen.shadowed]
           /\ [seen EXCEPT !.interrupted = v]
              = [ran |-> seen.ran, draft |-> seen.draft, file |-> seen.file,
                 interrupted |-> v, quitting |-> seen.quitting, shadowed |-> seen.shadowed]
           /\ [seen EXCEPT !.quitting = v]
              = [ran |-> seen.ran, draft |-> seen.draft, file |-> seen.file,
                 interrupted |-> seen.interrupted, quitting |-> v, shadowed |-> seen.shadowed]
           /\ [seen EXCEPT !.shadowed = v]
              = [ran |-> seen.ran, draft |-> seen.draft, file |-> seen.file,
                 interrupted |-> seen.interrupted, quitting |-> seen.quitting,
                 shadowed |-> v]
  BY DEF SeenInv

LEMMA InitReaders == CliInit => CliInv
<1>. SUFFICES ASSUME CliInit PROVE CliInv
  OBVIOUS
<1>1. PICK f : frames = <<f>> /\ IsFrame(f) /\ f.state = "next"
  BY DEF CliInit, Frame, IsFrame, Results
<1>2. IsSequence(frames) /\ Len(frames) = 1 /\ frames[1] = f /\ Last(frames) = f /\ frames # <<>>
  BY <1>1 DEF IsSequence, Last
<1>3. IsSequence(commandThreads) /\ Len(commandThreads) = 0 /\ commandThreads = <<>>
  BY DEF CliInit, IsSequence
<1>4. ReadersInv
  BY <1>1, <1>2, <1>3 DEF CliInit, ReadersInv, Nested
<1>5. HandlerInv
  BY DEF CliInit, HandlerInv
<1>6. HistoryInv
  BY DEF CliInit, HistoryInv, Remembers, Holds, IsEditor, IsSequence, NewEditor, Seen0
<1>7. SignalInv
  <2>1. Stopping(commandThreads) = {}
    BY <1>3 DEF Stopping
  <2>2. Cardinality({}) = 0
    BY FS_EmptySet
  <2>3. seen.interrupted = 0 /\ signals = 0 /\ ~handler
    BY DEF CliInit, Seen0
  <2>. QED
    BY <2>1, <2>2, <2>3 DEF SignalInv
<1>8. SeenInv /\ SessionInv
  BY CommandLineAssumption DEF CliInit, SeenInv, SessionInv, Seen0
<1>. QED
  BY <1>4, <1>5, <1>6, <1>7, <1>8 DEF CliInv

LEMMA RestKeeps == CliInv /\ UNCHANGED cliVars => CliInv'
<1>. SUFFICES ASSUME CliInv, UNCHANGED cliVars PROVE CliInv'
  OBVIOUS
<1>1. ReadersInv'
  BY DEF CliInv, ReadersInv, cliVars
<1>2. HandlerInv' /\ HistoryInv' /\ SignalInv' /\ SeenInv' /\ SessionInv'
  BY DEF CliInv, HandlerInv, HistoryInv, SignalInv, SeenInv, SessionInv, cliVars, inputVars, Top
<1>. QED
  BY <1>1, <1>2 DEF CliInv

\* What a running program gives
LEMMA Running ==
    ASSUME CliInv, outcome = "none"
    PROVE  /\ Nested(frames, commandThreads, TRUE) /\ IsFrame(Top)
           /\ IsSequence(commandThreads) /\ Cardinality(Stopping(commandThreads)) \in Nat
           /\ Remembers(editor, seen.ran, seen.draft) /\ IsEditor(editor)
<1>1. Nested(frames, commandThreads, TRUE)
  BY DEF CliInv, ReadersInv, Nested
<1>2. IsFrame(Top) /\ IsSequence(commandThreads)
  BY <1>1, Innermost DEF Top, Nested
<1>. QED
  BY <1>1, <1>2, StoppingCount DEF CliInv, HistoryInv, Remembers, Holds

\* A reader goes on in its line, and the other readers, the threads and the signals stay.
LEMMA GoesOnKeeps ==
    ASSUME CliInv, outcome = "none", outcome' = "none", NEW f, IsFrame(f), SetTop(f),
           f.state = "waiting" <=> Top.state = "waiting",
           UNCHANGED <<commandThreads, handler>>
    PROVE  ReadersInv' /\ HandlerInv' /\ Top' = f
<1>1. Nested(frames, commandThreads, TRUE) /\ IsSequence(frames) /\ frames # <<>>
  BY Running DEF Nested
<1>2. Nested(Append(Front(frames), f), commandThreads, TRUE)
  BY <1>1, ReaderGoesOn DEF Top
<1>3. Last(Append(Front(frames), f)) = f
  BY <1>1, TopReplaced
<1>. QED
  BY <1>2, <1>3 DEF CliInv, ReadersInv, HandlerInv, SetTop, Top

\* execute_one_line or source_dofile returns.
LEMMA ReturnKeeps ==
    ASSUME CliInv, outcome = "none", Runs, Top.state # "waiting", handler' = handler,
           NEW result \in Results, NEW h, IsSequence(h), \A i \in 1 .. Len(h) : h[i].status \in Results,
           ReturnFrom(result, h)
    PROVE  /\ ReadersInv' /\ HandlerInv'
           /\ Stopping(commandThreads') = Stopping(commandThreads)
<1>1. Nested(frames, commandThreads, TRUE)
  BY Running
<1>2. /\ Nested(Front(frames), commandThreads, FALSE)
      /\ Len(frames) # 1 => commandThreads # <<>> /\ Nested(Front(frames), commandThreads, TRUE)
  BY <1>1, ReaderEnds DEF Top
<1>3. CASE Len(frames) = 1
  <2>1. LastReturnStatus(h) \in Results
    BY StatusOfMain
  <2>2. outcome' # "none" /\ commandThreads' = commandThreads /\ frames' = Front(frames)
    BY <1>3, <2>1 DEF ReturnFrom, Results
  <2>3. ReadersInv'
    BY <1>2, <2>2 DEF ReadersInv
  <2>. QED
    BY <2>2, <2>3 DEF CliInv, HandlerInv
<1>4. CASE Len(frames) # 1
  <2>1. PICK th : th = [TopThread EXCEPT !.result = result]
    OBVIOUS
  <2>2. /\ frames' = Front(frames) /\ outcome' = "none"
        /\ commandThreads' = Append(Front(commandThreads), th)
    BY <1>4, <2>1 DEF ReturnFrom, SetThread
  <2>3. IsThread(TopThread)
    BY <1>1, <1>2, <1>4, LastThread DEF TopThread
  <2>4. IsThread(th) /\ th.stop = TopThread.stop
    BY <2>1, <2>3 DEF IsThread
  <2>5. Nested(Front(frames), commandThreads', TRUE)
    BY <1>2, <1>4, <2>2, <2>4, ThreadChanges
  <2>6. IsSequence(commandThreads) /\ commandThreads # <<>>
    BY <1>1, <1>2, <1>4 DEF Nested
  <2>7. Stopping(commandThreads') = Stopping(commandThreads) /\ commandThreads' # <<>>
    BY <2>2, <2>4, <2>6, StoppingChanged, TopReplaced DEF TopThread
  <2>. QED
    BY <2>2, <2>5, <2>7 DEF CliInv, ReadersInv, HandlerInv
<1>. QED
  BY <1>3, <1>4

\* A command ends, or goes on.
LEMMA EndCommandKeeps ==
    ASSUME CliInv, outcome = "none", outcome' = "none", Top.state = "waiting",
           handler' = handler, frames' = frames, NEW result \in Results, EndCommand(result)
    PROVE  /\ ReadersInv' /\ HandlerInv' /\ Top' = Top
           /\ Stopping(commandThreads') = Stopping(commandThreads)
<1>1. Nested(frames, commandThreads, TRUE) /\ commandThreads # <<>> /\ IsSequence(commandThreads)
  BY Running, Innermost DEF Nested, Top
<1>2. PICK th : th = [TopThread EXCEPT !.result = result]
  OBVIOUS
<1>3. IsThread(TopThread)
  BY <1>1, LastThread DEF TopThread
<1>4. IsThread(th) /\ th.stop = TopThread.stop
  BY <1>2, <1>3 DEF IsThread
<1>5. commandThreads' = Append(Front(commandThreads), th)
  BY <1>2 DEF EndCommand, SetThread
<1>6. Nested(frames, commandThreads', TRUE)
  BY <1>1, <1>4, <1>5, ThreadChanges
<1>7. Stopping(commandThreads') = Stopping(commandThreads) /\ commandThreads' # <<>>
  BY <1>1, <1>4, <1>5, StoppingChanged, TopReplaced DEF TopThread
<1>. QED
  BY <1>6, <1>7 DEF CliInv, ReadersInv, HandlerInv, Top

\* No key is typed, and nothing is stored, while a line runs.
LEMMA NothingStored ==
    ASSUME CliInv, outcome = "none", Top.state # "listening" \/ ~Top.user
    PROVE  /\ ~editor.stored /\ editor.history = seen.ran
           /\ IsSequence(editor.history)
           /\ \A i \in 1 .. Len(editor.history) : editor.history[i].status \in Results
  BY DEF CliInv, HistoryInv, Remembers, Holds

-----------------------------------------------------------------------------
(* Each action keeps the invariant                                         *)

LEMMA ListenKeeps == CliInv /\ Listen => CliInv'
<1>. SUFFICES ASSUME CliInv, Listen PROVE CliInv'
  OBVIOUS
<1>1. outcome = "none" /\ Top.state = "next" /\ IsFrame(Top) /\ IsEditor(editor)
  BY Running DEF Listen, InState, Runs
<1>2. PICK f : f = [Top EXCEPT !.state = "listening", !.cut = FALSE]
  OBVIOUS
<1>3. IsFrame(f) /\ f.state = "listening"
  <2>1. PICK g, no : g = [Top EXCEPT !.state = "listening"] /\ no = FALSE
    OBVIOUS
  <2>2. IsFrame(g) /\ g.state = "listening"
    BY <1>1, <2>1, FrameSet DEF IsFrame
  <2>3. IsFrame([g EXCEPT !.cut = no]) /\ [g EXCEPT !.cut = no].state = "listening"
    BY <2>2, FrameSet DEF IsFrame
  <2>. QED
    BY <1>2, <2>1, <2>3
<1>4. SetTop(f) /\ outcome' = "none"
  BY <1>1, <1>2 DEF Listen
<1>5. ReadersInv' /\ HandlerInv'
  BY <1>1, <1>3, <1>4, GoesOnKeeps DEF Listen
<1>6. SameHistory(editor, editor') /\ ~editor.stored
  BY <1>1, BufferEdits, NothingStored DEF Listen
<1>7. HistoryInv'
  BY <1>6, SameRemembers DEF CliInv, HistoryInv, Listen, SameHistory
<1>. QED
  BY <1>5, <1>7 DEF CliInv, SignalInv, SeenInv, SessionInv, Listen, inputVars

\* listen_to_input returns.
LEMMA TakeLineKeeps ==
    ASSUME CliInv, outcome = "none", Top.state = "listening", NEW ed, SameHistory(editor, ed),
           NEW lines, TakeLine(ed, lines)
    PROVE  ReadersInv' /\ HandlerInv' /\ HistoryInv' /\ SignalInv' /\ SeenInv'
<1>1. /\ Nested(frames, commandThreads, TRUE) /\ IsFrame(Top)
      /\ Remembers(editor, seen.ran, seen.draft) /\ Remembers(ed, seen.ran, seen.draft)
  BY Running, SameRemembers
<1>2. UNCHANGED <<commandThreads, handler, signals>>
  BY DEF TakeLine
<1>3. CASE Crash
  <2>1. ReadersInv'
    BY <1>1, <1>2, <1>3 DEF Crash, ReadersInv, Nested
  <2>2. HandlerInv' /\ HistoryInv' /\ SignalInv' /\ SeenInv'
    BY <1>2, <1>3 DEF Crash, CliInv, HandlerInv, HistoryInv, SignalInv, SeenInv
  <2>. QED
    BY <2>1, <2>2
<1>4. CASE ~Crash
  <2>. DEFINE line     == TrimSpaces(TrimComments(ed.buffer))
              stripped == Dequote(line).text
              token    == GetFirstToken(stripped)
              alias    == FindWithPrefix(registry.identifiers, token)
              isAlias  == alias \in DOMAIN registry.aliases
              whole    == IF isAlias THEN registry.aliases[alias] \o From(stripped, Len(token) + 1)
                          ELSE stripped
              left     == TrimLeadingSpaces(whole)
              where    == IF IsClosed(line) THEN "line" ELSE "next"
  <2>1. /\ where \in {"line", "next"}
        /\ SetTop([Top EXCEPT !.lines = lines, !.state = where, !.input = line,
                              !.text = left, !.result = "done", !.rounds = 0,
                              !.aliased = isAlias])
    BY <1>4, Zenon DEF TakeLine
  <2>2. editor' = DropStored(ed) /\ seen' = [seen EXCEPT !.file = <<>>] /\ UNCHANGED outcome
    BY <1>4 DEF TakeLine
  <2>. HIDE DEF line, left, isAlias, where
  <2>3. PICK f : f = [Top EXCEPT !.lines = lines, !.state = where, !.input = line, !.text = left,
                                 !.result = "done", !.rounds = 0, !.aliased = isAlias]
    OBVIOUS
  <2>4. IsFrame(f) /\ f.state = where
    <3>1. PICK f1 : f1 = [Top EXCEPT !.lines = lines]
      OBVIOUS
    <3>2. IsFrame(f1)
      BY <1>1, <3>1, FrameSet DEF IsFrame
    <3>3. PICK f2 : f2 = [f1 EXCEPT !.state = where]
      OBVIOUS
    <3>4. IsFrame(f2) /\ f2.state = where
      BY <3>2, <3>3, FrameSet DEF IsFrame
    <3>5. PICK f3 : f3 = [f2 EXCEPT !.input = line]
      OBVIOUS
    <3>6. IsFrame(f3) /\ f3.state = where
      BY <3>4, <3>5, FrameSet DEF IsFrame
    <3>7. PICK f4 : f4 = [f3 EXCEPT !.text = left]
      OBVIOUS
    <3>8. IsFrame(f4) /\ f4.state = where
      BY <3>6, <3>7, FrameSet DEF IsFrame
    <3>9. PICK f5 : f5 = [f4 EXCEPT !.result = "done"]
      OBVIOUS
    <3>10. IsFrame(f5) /\ f5.state = where
      BY <3>8, <3>9, FrameSet DEF IsFrame, Results
    <3>11. PICK f6 : f6 = [f5 EXCEPT !.rounds = 0]
      OBVIOUS
    <3>12. IsFrame(f6) /\ f6.state = where
      BY <3>10, <3>11, FrameSet DEF IsFrame
    <3>13. PICK was, f7 : was = isAlias /\ f7 = [f6 EXCEPT !.aliased = was]
      OBVIOUS
    <3>14. IsFrame(f7) /\ f7.state = where
      BY <3>12, <3>13, FrameSet DEF IsFrame
    <3>. QED
      BY <2>3, <3>1, <3>3, <3>5, <3>7, <3>9, <3>11, <3>13, <3>14
  <2>5. ReadersInv' /\ HandlerInv'
    BY <1>2, <2>1, <2>2, <2>3, <2>4, GoesOnKeeps
  <2>6. seen'.ran = seen.ran /\ seen'.draft = seen.draft /\ seen'.interrupted = seen.interrupted
        /\ SeenInv'
    BY <2>2, SeenSet DEF CliInv, SeenInv
  <2>7. HistoryInv'
    BY <1>1, <2>2, <2>6, DropRemembers DEF HistoryInv, Remembers
  <2>. QED
    BY <1>2, <2>5, <2>6, <2>7 DEF CliInv, SignalInv
<1>. QED
  BY <1>3, <1>4

LEMMA InputEndsKeeps == CliInv /\ InputEnds => CliInv'
<1>. SUFFICES ASSUME CliInv, InputEnds PROVE CliInv'
  OBVIOUS
<1>1. /\ outcome = "none" /\ Runs /\ Top.state = "listening"
      /\ Remembers(editor, seen.ran, seen.draft)
  BY Running DEF InputEnds, InState, Runs
<1>2. seen'.ran = seen.ran /\ seen'.draft = seen.draft /\ seen'.interrupted = seen.interrupted
      /\ SeenInv'
  <2>1. PICK yes : yes = TRUE
    OBVIOUS
  <2>2. PICK new : new = [seen EXCEPT !.quitting = yes]
    OBVIOUS
  <2>3. new = [ran |-> seen.ran, draft |-> seen.draft, file |-> seen.file,
               interrupted |-> seen.interrupted, quitting |-> yes, shadowed |-> seen.shadowed]
    BY <2>2, SeenSet DEF CliInv
  <2>4. seen' = [new EXCEPT !.file = <<>>]
    BY <2>1, <2>2 DEF InputEnds
  <2>5. seen' = [ran |-> seen.ran, draft |-> seen.draft, file |-> <<>>,
                 interrupted |-> seen.interrupted, quitting |-> yes, shadowed |-> seen.shadowed]
    BY <2>3, <2>4
  <2>. QED
    BY <2>5 DEF SeenInv
<1>3. /\ Remembers(editor', seen.ran, seen.draft) /\ ~editor'.stored
  BY <1>1, DropRemembers DEF InputEnds, Remembers
<1>4. /\ IsSequence(editor'.history)
      /\ \A i \in 1 .. Len(editor'.history) : editor'.history[i].status \in Results
  BY <1>3 DEF Remembers, Holds
<1>5. "quit" \in Results /\ ReturnFrom("quit", editor'.history) /\ handler' = handler
  BY DEF Results, InputEnds
<1>6. ReadersInv' /\ HandlerInv' /\ Stopping(commandThreads') = Stopping(commandThreads)
  <2>1. PICK h : h = editor'.history
    OBVIOUS
  <2>. QED
    BY <1>1, <1>4, <1>5, <2>1, ReturnKeeps
<1>7. HistoryInv'
  BY <1>2, <1>3 DEF HistoryInv
<1>. QED
  BY <1>2, <1>6, <1>7 DEF CliInv, SignalInv, SessionInv, InputEnds, inputVars

\* A key that only changes the line
LEMMA EditLineKeeps ==
    ASSUME CliInv, outcome = "none", Top.state = "listening", Top.user, NEW key \in KeyPresses,
           key.key \notin {"enter", "tab"}, EditLine(key), UNCHANGED <<commandThreads, handler, signals>>
    PROVE  ReadersInv' /\ HandlerInv' /\ HistoryInv' /\ SignalInv' /\ SeenInv'
<1>1. UNCHANGED <<frames, outcome>> /\ editor' = Edited(key)
  BY DEF EditLine
<1>2. key.key \in {"type", "home", "end", "left", "right", "back_space", "delete", "prev_word",
                    "next_word", "up", "down", "pg_up", "pg_down"}
  BY DEF KeyPresses
<1>3. PICK draft : draft = IF editor'.stored /\ ~editor.stored THEN editor.buffer ELSE seen.draft
  OBVIOUS
<1>4. Remembers(editor', seen.ran, draft)
  BY <1>1, <1>2, <1>3, Running, KeyRemembers
<1>5. /\ seen'.ran = seen.ran /\ seen'.draft = draft /\ seen'.interrupted = seen.interrupted
      /\ SeenInv'
  <2>1. PICK new : new = [seen EXCEPT !.file = <<>>]
    OBVIOUS
  <2>2. new = [ran |-> seen.ran, draft |-> seen.draft, file |-> <<>>,
               interrupted |-> seen.interrupted, quitting |-> seen.quitting,
               shadowed |-> seen.shadowed]
    BY <2>1, SeenSet DEF CliInv
  <2>3. seen' = [new EXCEPT !.draft = draft]
    BY <1>3, <2>1, <2>2 DEF EditLine
  <2>4. seen' = [ran |-> seen.ran, draft |-> draft, file |-> <<>>,
                 interrupted |-> seen.interrupted, quitting |-> seen.quitting,
                 shadowed |-> seen.shadowed]
    BY <2>2, <2>3
  <2>. QED
    BY <2>4 DEF SeenInv
<1>6. ReadersInv' /\ HandlerInv'
  BY <1>1 DEF CliInv, ReadersInv, HandlerInv
<1>7. HistoryInv'
  BY <1>1, <1>4, <1>5 DEF HistoryInv, Top
<1>. QED
  BY <1>5, <1>6, <1>7 DEF CliInv, SignalInv

LEMMA PressTabKeeps ==
    ASSUME CliInv, outcome = "none", Top.state = "listening", Top.user, PressTab,
           UNCHANGED <<commandThreads, handler, signals>>
    PROVE  ReadersInv' /\ HandlerInv' /\ HistoryInv' /\ SignalInv' /\ SeenInv'
<1>1. PICK tab : /\ tab = OnTabPressed(editor, registry) /\ editor' = tab.ed
                 /\ outcome' = (IF tab.throws THEN "crash" ELSE outcome)
                 /\ seen' = [seen EXCEPT !.file = tab.file] /\ UNCHANGED frames
  BY DEF PressTab
<1>2. SameHistory(editor, editor') /\ Remembers(editor', seen.ran, seen.draft)
  BY <1>1, Running, TabKeeps, SameRemembers
<1>3. /\ seen'.ran = seen.ran /\ seen'.draft = seen.draft /\ seen'.interrupted = seen.interrupted
      /\ SeenInv'
  BY <1>1, SeenSet DEF CliInv, SeenInv
<1>4. ReadersInv'
  <2>1. Nested(frames, commandThreads, TRUE)
    BY Running
  <2>. QED
    BY <1>1, <2>1 DEF ReadersInv, Nested
<1>5. HandlerInv'
  BY DEF CliInv, HandlerInv
<1>6. HistoryInv'
  BY <1>1, <1>2, <1>3 DEF HistoryInv, Top
<1>. QED
  BY <1>3, <1>4, <1>5, <1>6 DEF CliInv, SignalInv

LEMMA KeyPressedKeeps == CliInv /\ KeyPressed => CliInv'
<1>. SUFFICES ASSUME CliInv, KeyPressed PROVE CliInv'
  OBVIOUS
<1>1. /\ outcome = "none" /\ Top.state = "listening" /\ Top.user
      /\ UNCHANGED <<commandThreads, handler, signals>>
  BY DEF KeyPressed, InState, Runs
<1>2. SessionInv'
  <2>1. PICK keys, limit : session = [keys |-> keys, signals |-> limit]
                           /\ keys \in Seq(SUBSET KeyPresses) /\ limit \in Nat
    BY DEF CliInv, SessionInv
  <2>2. keys # <<>> /\ session' = [keys |-> Tail(keys), signals |-> limit]
    BY <2>1 DEF KeyPressed
  <2>3. Tail(keys) \in Seq(SUBSET KeyPresses)
    BY <2>1, <2>2
  <2>. QED
    BY <2>1, <2>2, <2>3 DEF SessionInv
<1>3. PICK key \in Head(session.keys) :
          \/ key.key = "enter" /\ Enter
          \/ key.key = "tab" /\ PressTab
          \/ key.key \notin {"enter", "tab"} /\ EditLine(key)
  BY DEF KeyPressed
<1>4. key \in KeyPresses
  <2>1. session.keys \in Seq(SUBSET KeyPresses) /\ session.keys # <<>>
    BY DEF CliInv, SessionInv, KeyPressed
  <2>2. Head(session.keys) \in SUBSET KeyPresses
    BY <2>1
  <2>. QED
    BY <2>2
<1>5. CASE Enter /\ IsClosed(editor.buffer)
  <2>1. TakeLine(editor, <<>>) /\ SameHistory(editor, editor)
    BY <1>1, <1>5, Running, SameItself DEF Enter
  <2>2. ReadersInv' /\ HandlerInv' /\ HistoryInv' /\ SignalInv' /\ SeenInv'
    BY <1>1, <2>1, TakeLineKeeps
  <2>. QED
    BY <1>2, <2>2 DEF CliInv
<1>6. CASE Enter /\ ~IsClosed(editor.buffer)
  <2>1. UNCHANGED <<frames, editor, outcome, seen>>
    BY <1>6 DEF Enter
  <2>2. ReadersInv'
    BY <1>1, <2>1 DEF CliInv, ReadersInv
  <2>. QED
    BY <1>1, <1>2, <2>1, <2>2 DEF CliInv, HandlerInv, HistoryInv, SignalInv, SeenInv, Top
<1>7. CASE PressTab
  BY <1>1, <1>2, <1>7, PressTabKeeps DEF CliInv
<1>8. CASE key.key \notin {"enter", "tab"} /\ EditLine(key)
  BY <1>1, <1>2, <1>4, <1>8, EditLineKeeps DEF CliInv
<1>. QED
  BY <1>3, <1>5, <1>6, <1>7, <1>8

LEMMA LineReadKeeps == CliInv /\ LineRead => CliInv'
<1>. SUFFICES ASSUME CliInv, LineRead PROVE CliInv'
  OBVIOUS
<1>1. /\ outcome = "none" /\ Top.state = "listening" /\ ~Top.user /\ session' = session
      /\ IsEditor(editor) /\ IsFrame(Top)
  BY Running DEF LineRead, InState, Runs
<1>. DEFINE Reads(heard, ed) ==
                IF IsClosed(heard) \/ Len(Top.lines) = 1 THEN TakeLine(ed, Tail(Top.lines))
                ELSE /\ editor' = ed
                     /\ SetTop([Top EXCEPT !.lines = Tail(@), !.cut = FALSE])
                     /\ UNCHANGED <<commandThreads, cliLevel, registry, handler, outcome, signals,
                                    seen>>
<1>2. PICK heard, ed : ed = WithLine(editor, heard, Len(heard)) /\ Reads(heard, ed)
  <2>1. PICK heard : Reads(heard, WithLine(editor, heard, Len(heard)))
    BY Zenon DEF LineRead, WithLine
  <2>. HIDE DEF Reads
  <2>. QED
    BY <2>1, Zenon
<1>3. SameHistory(editor, ed) /\ Remembers(ed, seen.ran, seen.draft)
  BY <1>1, <1>2, LineSet, SameRemembers, Running
<1>4. CASE IsClosed(heard) \/ Len(Top.lines) = 1
  <2>1. TakeLine(ed, Tail(Top.lines))
    BY <1>2, <1>4
  <2>2. ReadersInv' /\ HandlerInv' /\ HistoryInv' /\ SignalInv' /\ SeenInv'
    BY <1>1, <1>3, <2>1, TakeLineKeeps
  <2>. QED
    BY <1>1, <2>2 DEF CliInv, SessionInv
<1>5. CASE ~(IsClosed(heard) \/ Len(Top.lines) = 1)
  <2>1. PICK f, g, rest, no : /\ rest = Tail(Top.lines) /\ f = [Top EXCEPT !.lines = rest]
                              /\ no = FALSE /\ g = [f EXCEPT !.cut = no]
    OBVIOUS
  <2>2. IsFrame(f) /\ f.state = "listening"
    BY <1>1, <2>1, FrameSet DEF IsFrame
  <2>3. IsFrame(g) /\ g.state = "listening"
    BY <2>1, <2>2, FrameSet DEF IsFrame
  <2>4. /\ editor' = ed
        /\ SetTop([Top EXCEPT !.lines = Tail(@), !.cut = FALSE])
        /\ UNCHANGED <<commandThreads, cliLevel, registry, handler, outcome, signals, seen>>
    BY <1>2, <1>5
  <2>5. SetTop(g)
    BY <2>1, <2>4
  <2>6. ReadersInv' /\ HandlerInv'
    BY <1>1, <2>3, <2>4, <2>5, GoesOnKeeps
  <2>7. HistoryInv'
    BY <1>1, <1>3, <2>4, NothingStored DEF HistoryInv, SameHistory
  <2>. QED
    BY <1>1, <2>4, <2>6, <2>7 DEF CliInv, SignalInv, SeenInv, SessionInv
<1>. QED
  BY <1>4, <1>5

\* What is left of the frame when its command was cut off
LEMMA AfterCommandFrame ==
    ASSUME NEW f, IsFrame(f)
    PROVE  LET g == AfterCommand(f)
           IN IsFrame(g) /\ g.state \in {"ended", "line"}
<1>. DEFINE end   == CommandEnd(f.text)
            state == IF end = 0 THEN "ended" ELSE "line"
            left  == IF end = 0 THEN <<>> ELSE TrimLeadingSpaces(From(f.text, end + 1))
<1>1. PICK count, more : count = f.rounds + 1 /\ more = (end # 0)
  OBVIOUS
<1>2. AfterCommand(f) = [f EXCEPT !.rounds = count, !.more = more, !.state = state, !.text = left]
  <2>1. PICK f1 : f1 = [f EXCEPT !.rounds = count]
    OBVIOUS
  <2>2. PICK f2 : f2 = [f1 EXCEPT !.more = more]
    OBVIOUS
  <2>3. PICK f3 : f3 = [f2 EXCEPT !.state = state]
    OBVIOUS
  <2>4. f1.text = f.text
    BY <2>1, FrameSet
  <2>5. f2.text = f.text
    BY <2>1, <2>2, FrameSet
  <2>6. f3.text = f.text
    BY <2>1, <2>2, <2>3, FrameSet
  <2>. QED
    BY <1>1, <2>1, <2>2, <2>3, <2>6 DEF AfterCommand
<1>3. state \in {"ended", "line"}
  OBVIOUS
<1>. HIDE DEF end, state, left
<1>4. PICK f1 : f1 = [f EXCEPT !.rounds = count]
  OBVIOUS
<1>5. IsFrame(f1)
  BY <1>4, FrameSet DEF IsFrame
<1>6. PICK f2 : f2 = [f1 EXCEPT !.more = more]
  OBVIOUS
<1>7. IsFrame(f2)
  BY <1>5, <1>6, FrameSet DEF IsFrame
<1>8. PICK f3 : f3 = [f2 EXCEPT !.state = state]
  OBVIOUS
<1>9. IsFrame(f3) /\ f3.state = state
  BY <1>7, <1>8, FrameSet DEF IsFrame
<1>10. PICK f4 : f4 = [f3 EXCEPT !.text = left]
  OBVIOUS
<1>11. IsFrame(f4) /\ f4.state = state
  BY <1>9, <1>10, FrameSet DEF IsFrame
<1>12. AfterCommand(f) = f4
  BY <1>2, <1>4, <1>6, <1>8, <1>10
<1>. QED
  BY <1>3, <1>11, <1>12

LEMMA UnknownCommandKeeps == CliInv /\ UnknownCommand => CliInv'
<1>. SUFFICES ASSUME CliInv, UnknownCommand PROVE CliInv'
  OBVIOUS
<1>1. /\ outcome = "none" /\ Top.state = "line" /\ IsFrame(Top)
      /\ UNCHANGED <<commandThreads, cliLevel, editor, registry, handler, inputVars, seen>>
  BY Running DEF UnknownCommand, InState, Runs
<1>2. PICK g : g = AfterCommand(Top)
  OBVIOUS
<1>3. PICK h : h = [g EXCEPT !.result = "cmd_not_found"]
  OBVIOUS
<1>4. IsFrame(g) /\ g.state # "waiting" /\ IsFrame(h) /\ h.state # "waiting"
  <2>1. IsFrame(g) /\ g.state \in {"ended", "line"}
    BY <1>1, <1>2, AfterCommandFrame
  <2>2. IsFrame(h) /\ h.state = g.state
    BY <1>3, <2>1, FrameSet DEF IsFrame, Results
  <2>. QED
    BY <2>1, <2>2
<1>5. PICK f : IsFrame(f) /\ f.state # "waiting" /\ SetTop(f)
  BY <1>2, <1>3, <1>4 DEF UnknownCommand
<1>6. ReadersInv' /\ HandlerInv'
  <2>1. /\ Nested(Append(Front(frames), f), commandThreads, TRUE)
        /\ frames' = Append(Front(frames), f)
    <3>1. Nested(frames, commandThreads, TRUE)
      BY <1>1, Running
    <3>. QED
      BY <1>1, <1>5, <3>1, ReaderGoesOn DEF Top, SetTop
  <2>2. ReadersInv'
    BY <1>1, <2>1 DEF ReadersInv, Nested
  <2>. QED
    BY <1>1, <2>2 DEF CliInv, HandlerInv
<1>7. HistoryInv'
  BY <1>1, NothingStored DEF CliInv, HistoryInv
<1>. QED
  BY <1>1, <1>6, <1>7 DEF CliInv, SignalInv, SeenInv, SessionInv, inputVars

LEMMA DispatchKeeps == CliInv /\ Dispatch => CliInv'
<1>. SUFFICES ASSUME CliInv, Dispatch PROVE CliInv'
  OBVIOUS
<1>1. /\ outcome = "none" /\ Top.state = "line" /\ IsFrame(Top)
      /\ UNCHANGED <<cliLevel, editor, registry, handler, outcome, inputVars, seen>>
      /\ Nested(frames, commandThreads, TRUE) /\ IsSequence(commandThreads)
  BY Running DEF Dispatch, InState, Runs
<1>2. PICK g : g = AfterCommand(Top)
  OBVIOUS
<1>3. PICK f : f = [g EXCEPT !.state = "waiting"]
  OBVIOUS
<1>4. IsFrame(f) /\ f.state = "waiting" /\ frames' = Append(Front(frames), f)
  <2>1. IsFrame(g)
    BY <1>1, <1>2, AfterCommandFrame
  <2>2. IsFrame(f) /\ f.state = "waiting"
    BY <1>3, <2>1, FrameSet DEF IsFrame
  <2>. QED
    BY <1>2, <1>3, <2>2 DEF Dispatch, SetTop
<1>5. PICK command, arguments, no :
          /\ no = FALSE
          /\ commandThreads' = Append(commandThreads, [command |-> command, arguments |-> arguments,
                                                        stop |-> no, result |-> "running"])
  <2>1. PICK parsed : parsed = Parsed(ThisCommand)
    OBVIOUS
  <2>2. commandThreads' = Append(commandThreads, [command |-> parsed.command,
                                     arguments |-> parsed.arguments, stop |-> FALSE,
                                     result |-> "running"])
    BY <2>1 DEF Dispatch
  <2>. QED
    BY <2>2
<1>6. PICK th : th = [command |-> command, arguments |-> arguments, stop |-> no,
                      result |-> "running"]
  OBVIOUS
<1>7. IsThread(th) /\ th.stop = FALSE /\ commandThreads' = Append(commandThreads, th)
  BY <1>5, <1>6 DEF IsThread
<1>8. Nested(frames', commandThreads', TRUE)
  BY <1>1, <1>4, <1>7, ReaderWaits DEF Top
<1>9. Stopping(commandThreads') = Stopping(commandThreads) /\ commandThreads' # <<>>
  BY <1>1, <1>7, StoppingPushed, Pushed
<1>10. ReadersInv' /\ HandlerInv'
  BY <1>1, <1>8, <1>9 DEF CliInv, ReadersInv, HandlerInv, Nested
<1>11. HistoryInv'
  BY <1>1, NothingStored DEF CliInv, HistoryInv
<1>. QED
  BY <1>1, <1>9, <1>10, <1>11 DEF CliInv, SignalInv, SeenInv, SessionInv, inputVars

\* The stop of the thread that is joined is counted, and goes with it.
LEMMA JoinKeeps == CliInv /\ Join => CliInv'
<1>. SUFFICES ASSUME CliInv, Join PROVE CliInv'
  OBVIOUS
<1>1. /\ outcome = "none" /\ Top.state = "waiting" /\ IsFrame(Top)
      /\ ~(handler /\ Len(frames) = 1) /\ TopThread.result # "running"
      /\ UNCHANGED <<cliLevel, editor, registry, handler, outcome, inputVars>>
      /\ commandThreads' = Front(commandThreads)
      /\ Nested(frames, commandThreads, TRUE) /\ IsSequence(commandThreads)
  BY Running DEF Join, InState, Runs
<1>2. commandThreads # <<>> /\ IsThread(TopThread)
  BY <1>1, Innermost, LastThread DEF Top, TopThread
<1>3. PICK state, result : /\ state = (IF Top.more THEN "line" ELSE "ended")
                           /\ result = (IF StopRequested THEN "interrupted" ELSE TopThread.result)
  OBVIOUS
<1>4. PICK g : g = [Top EXCEPT !.state = state]
  OBVIOUS
<1>5. PICK f : f = [g EXCEPT !.result = result]
  OBVIOUS
<1>6. IsFrame(f) /\ f.state # "waiting" /\ frames' = Append(Front(frames), f)
  <2>1. result \in Results
    BY <1>1, <1>2, <1>3 DEF IsThread, Results
  <2>2. IsFrame(g) /\ g.state = state
    BY <1>1, <1>4, FrameSet DEF IsFrame
  <2>3. IsFrame(f) /\ f.state = state
    BY <1>5, <2>1, <2>2, FrameSet DEF IsFrame
  <2>. QED
    BY <1>3, <1>4, <1>5, <2>3 DEF Join, SetTop
<1>7. Nested(frames', commandThreads', TRUE)
  BY <1>1, <1>6, ReaderJoins DEF Top
<1>8. ReadersInv'
  BY <1>1, <1>7 DEF ReadersInv, Nested
<1>9. HandlerInv'
  <2>1. ASSUME handler PROVE commandThreads' # <<>>
    <3>1. Len(frames) \in Nat \ {0} /\ Len(frames) # 1
      BY <1>1, <2>1, Innermost
    <3>2. Len(commandThreads) = Len(frames)
      BY <1>1 DEF Nested, Top
    <3>3. IsSequence(commandThreads') /\ Len(commandThreads') = Len(commandThreads) - 1
      BY <1>1, <1>2, Popped
    <3>. QED
      BY <3>1, <3>2, <3>3, EmptyOrNot
  <2>. QED
    BY <1>1, <2>1 DEF CliInv, HandlerInv
<1>10. PICK count : count = (IF StopRequested THEN seen.interrupted + 1 ELSE seen.interrupted)
  OBVIOUS
<1>11. /\ seen'.ran = seen.ran /\ seen'.draft = seen.draft /\ seen'.interrupted = count
       /\ SeenInv'
  <2>1. seen' = [seen EXCEPT !.interrupted = count]
    BY <1>10 DEF Join
  <2>. QED
    BY <2>1, SeenSet DEF CliInv, SeenInv
<1>12. HistoryInv'
  BY <1>1, <1>11, NothingStored DEF CliInv, HistoryInv
<1>13. SignalInv'
  <2>1. /\ StopRequested => Cardinality(Stopping(commandThreads')) + 1
                            = Cardinality(Stopping(commandThreads))
        /\ ~StopRequested => Stopping(commandThreads') = Stopping(commandThreads)
    BY <1>1, <1>2, StoppingPopped DEF StopRequested, TopThread
  <2>2. IsSequence(commandThreads')
    BY <1>1, <1>2, Popped
  <2>3. /\ Cardinality(Stopping(commandThreads')) \in Nat
        /\ Cardinality(Stopping(commandThreads)) \in Nat
    BY <1>1, <2>2, StoppingCount
  <2>4. handler' = handler /\ signals' = signals
    BY <1>1 DEF inputVars
  <2>. QED
    BY <1>10, <1>11, <2>1, <2>3, <2>4 DEF CliInv, SignalInv
<1>. QED
  BY <1>1, <1>8, <1>9, <1>11, <1>12, <1>13 DEF CliInv, SessionInv, inputVars

\* What is remembered of a line is remembered of what happened.
LEMMA RememberedLine ==
    ASSUME CliInv, outcome = "none", Top.state = "ended",
           NEW ran, ran = (IF Top.input = <<>> THEN seen.ran
                           ELSE Append(seen.ran, [input |-> Top.input, status |-> Top.result]))
    PROVE  LET ed == Remembered(Top)
           IN Remembers(ed, ran, seen.draft) /\ ~ed.stored
<1>. DEFINE entry == [input |-> Top.input, status |-> Top.result]
<1>1. /\ ~editor.stored /\ editor.history = seen.ran /\ IsSequence(seen.ran) /\ IsEditor(editor)
      /\ \A i \in 1 .. Len(seen.ran) : seen.ran[i].status \in Results
      /\ Top.result \in Results
  BY NothingStored, Running DEF IsFrame
<1>2. IsSequence(ran) /\ \A i \in 1 .. Len(ran) : ran[i].status \in Results
  <2>1. CASE Top.input = <<>>
    BY <1>1, <2>1
  <2>2. CASE Top.input # <<>>
    <3>1. PICK e : e = entry
      OBVIOUS
    <3>2. ran = Append(seen.ran, e) /\ e.status \in Results
      BY <1>1, <2>2, <3>1
    <3>3. /\ IsSequence(ran) /\ Len(ran) = Len(seen.ran) + 1 /\ ran[Len(seen.ran) + 1] = e
          /\ \A i \in 1 .. Len(seen.ran) : ran[i] = seen.ran[i]
      BY <1>1, <3>2, Pushed
    <3>4. Len(seen.ran) \in Nat
      BY <1>1 DEF IsSequence
    <3>. QED
      BY <1>1, <3>2, <3>3, <3>4
  <2>. QED
    BY <2>1, <2>2
<1>3. PICK ed : ed = Remembered(Top)
  OBVIOUS
<1>4. ed = [buffer |-> editor.buffer, cursor |-> editor.cursor, history |-> ran, idx |-> Len(ran),
            stored |-> editor.stored, tabs |-> editor.tabs]
  <2>1. ed = [editor EXCEPT !.history = ran, !.idx = Len(ran)]
    BY <1>1, <1>3 DEF Remembered
  <2>2. PICK mid : mid = [editor EXCEPT !.history = ran]
    OBVIOUS
  <2>3. mid = [buffer |-> editor.buffer, cursor |-> editor.cursor, history |-> ran,
               idx |-> editor.idx, stored |-> editor.stored, tabs |-> editor.tabs]
    BY <1>1, <2>2 DEF IsEditor
  <2>. QED
    BY <2>1, <2>2, <2>3
<1>5. Remembers(ed, ran, seen.draft) /\ ~ed.stored
  <2>1. Len(ran) \in 0 .. Len(ran)
    BY <1>2 DEF IsSequence
  <2>2. IsEditor(ed) /\ ed.history = ran /\ ed.idx = Len(ran) /\ ed.stored = editor.stored
    BY <1>4 DEF IsEditor
  <2>3. ed.stored = FALSE
    BY <1>1, <2>2, Running DEF Remembers, Holds
  <2>. QED
    BY <1>2, <2>1, <2>2, <2>3 DEF Remembers, Holds
<1>. QED
  BY <1>3, <1>5

LEMMA LineEndsKeeps == CliInv /\ LineEnds => CliInv'
<1>. SUFFICES ASSUME CliInv, LineEnds PROVE CliInv'
  OBVIOUS
<1>1. /\ outcome = "none" /\ Runs /\ Top.state = "ended" /\ IsFrame(Top)
      /\ UNCHANGED <<cliLevel, registry, handler, inputVars>>
  BY Running DEF LineEnds, InState, Runs
<1>2. PICK ran : ran = (IF Top.input = <<>> THEN seen.ran
                        ELSE Append(seen.ran, [input |-> Top.input, status |-> Top.result]))
  OBVIOUS
<1>3. Remembers(editor', ran, seen.draft) /\ ~editor'.stored
  BY <1>1, <1>2, RememberedLine DEF LineEnds
<1>4. /\ seen'.ran = ran /\ seen'.draft = seen.draft /\ seen'.interrupted = seen.interrupted
      /\ SeenInv'
  <2>1. seen' = [seen EXCEPT !.ran = ran]
    BY <1>2 DEF LineEnds
  <2>. QED
    BY <2>1, SeenSet DEF CliInv, SeenInv
<1>5. HistoryInv'
  BY <1>3, <1>4 DEF HistoryInv
<1>6. ReadersInv' /\ HandlerInv' /\ Stopping(commandThreads') = Stopping(commandThreads)
  <2>1. CASE Top.result = "quit"
    <3>1. PICK h : h = editor'.history
      OBVIOUS
    <3>2. IsSequence(h) /\ \A i \in 1 .. Len(h) : h[i].status \in Results
      BY <1>3, <3>1 DEF Remembers, Holds
    <3>3. "quit" \in Results /\ ReturnFrom("quit", h)
      BY <2>1, <3>1 DEF LineEnds, Results
    <3>. QED
      BY <1>1, <3>2, <3>3, ReturnKeeps
  <2>2. CASE Top.result # "quit"
    <3>1. PICK f : f = [Top EXCEPT !.state = "next"]
      OBVIOUS
    <3>2. IsFrame(f) /\ f.state = "next"
      BY <1>1, <3>1, FrameSet DEF IsFrame
    <3>3. SetTop(f) /\ UNCHANGED <<commandThreads, outcome>>
      BY <2>2, <3>1 DEF LineEnds
    <3>. QED
      BY <1>1, <3>2, <3>3, GoesOnKeeps
  <2>. QED
    BY <2>1, <2>2
<1>. QED
  BY <1>1, <1>4, <1>5, <1>6 DEF CliInv, SignalInv, SessionInv, inputVars

LEMMA FileEndsKeeps == CliInv /\ FileEnds => CliInv'
<1>. SUFFICES ASSUME CliInv, FileEnds PROVE CliInv'
  OBVIOUS
<1>1. /\ outcome = "none" /\ Runs /\ Top.state = "next"
      /\ UNCHANGED <<editor, registry, handler, inputVars, seen>>
  BY DEF FileEnds, InState, Runs
<1>2. PICK h : h = editor.history
  OBVIOUS
<1>3. /\ ~editor.stored /\ IsSequence(h) /\ \A i \in 1 .. Len(h) : h[i].status \in Results
  BY <1>1, <1>2, NothingStored
<1>4. "done" \in Results /\ ReturnFrom("done", h)
  BY <1>2 DEF FileEnds, Results
<1>5. ReadersInv' /\ HandlerInv' /\ Stopping(commandThreads') = Stopping(commandThreads)
  BY <1>1, <1>3, <1>4, ReturnKeeps
<1>6. HistoryInv'
  BY <1>1, <1>3 DEF CliInv, HistoryInv
<1>. QED
  BY <1>1, <1>5, <1>6 DEF CliInv, SignalInv, SeenInv, SessionInv, inputVars

\* A command of which only the result is remembered
LEMMA CommandKeeps ==
    ASSUME CliInv, outcome = "none", outcome' = "none", Top.state = "waiting",
           NEW result \in Results, EndCommand(result),
           UNCHANGED <<frames, editor, handler, inputVars>>,
           seen'.ran = seen.ran, seen'.draft = seen.draft,
           seen'.interrupted = seen.interrupted, SeenInv'
    PROVE  CliInv'
<1>1. /\ ReadersInv' /\ HandlerInv' /\ Top' = Top
      /\ Stopping(commandThreads') = Stopping(commandThreads)
  BY EndCommandKeeps
<1>2. HistoryInv'
  BY NothingStored DEF CliInv, HistoryInv
<1>. QED
  BY <1>1, <1>2 DEF CliInv, SignalInv, SessionInv, inputVars

LEMMA WorkKeeps == CliInv /\ Work => CliInv'
<1>. SUFFICES ASSUME CliInv, Work PROVE CliInv'
  OBVIOUS
<1>1. PICK result \in {"done", "error"} : EndCommand(result)
  BY DEF Work
<1>2. result \in Results
  BY DEF Results
<1>. QED
  BY <1>1, <1>2, CommandKeeps DEF Work, CliInv, SeenInv

LEMMA AliasKeeps == CliInv /\ Alias => CliInv'
<1>. SUFFICES ASSUME CliInv, Alias PROVE CliInv'
  OBVIOUS
<1>1. PICK result \in {"done", "error"} : EndCommand(result)
  BY DEF Alias, AddAlias, RemoveAlias
<1>2. result \in Results
  BY DEF Results
<1>3. /\ seen'.ran = seen.ran /\ seen'.draft = seen.draft /\ seen'.interrupted = seen.interrupted
      /\ SeenInv'
  <2>1. PICK names : seen' = seen \/ seen' = [seen EXCEPT !.shadowed = names]
    BY DEF Alias
  <2>. QED
    BY <2>1, SeenSet DEF CliInv, SeenInv
<1>. QED
  BY <1>1, <1>2, <1>3, CommandKeeps DEF Alias, InnermostRuns

LEMMA SetVariableKeeps == CliInv /\ SetVariable => CliInv'
<1>. SUFFICES ASSUME CliInv, SetVariable PROVE CliInv'
  OBVIOUS
<1>1. /\ outcome = "none" /\ Top.state = "waiting"
      /\ UNCHANGED <<frames, cliLevel, editor, handler, outcome, inputVars, seen>>
  BY Zenon DEF SetVariable, InnermostRuns
<1>2. EndCommand("done") \/ EndCommand("error")
  BY Zenon DEF SetVariable
<1>3. "done" \in Results /\ "error" \in Results
  BY DEF Results
<1>4. SeenInv'
  BY <1>1 DEF CliInv, SeenInv
<1>. QED
  BY <1>1, <1>2, <1>3, <1>4, CommandKeeps

LEMMA QuitKeeps == CliInv /\ Quit => CliInv'
<1>. SUFFICES ASSUME CliInv, Quit PROVE CliInv'
  OBVIOUS
<1>1. /\ outcome = "none" /\ Top.state = "waiting"
      /\ UNCHANGED <<frames, cliLevel, registry, handler, outcome, inputVars>>
  BY DEF Quit, InnermostRuns
<1>2. PICK result \in {"quit", "done"} :
          EndCommand(result) /\ seen' = [seen EXCEPT !.quitting = @ \/ result = "quit"]
  BY DEF Quit
<1>3. result \in Results
  BY DEF Results
<1>4. /\ ReadersInv' /\ HandlerInv' /\ Top' = Top
      /\ Stopping(commandThreads') = Stopping(commandThreads)
  BY <1>1, <1>2, <1>3, EndCommandKeeps
<1>5. /\ seen'.ran = seen.ran /\ seen'.draft = seen.draft /\ seen'.interrupted = seen.interrupted
      /\ SeenInv'
  <2>1. PICK quits : quits = (seen.quitting \/ result = "quit")
    OBVIOUS
  <2>2. seen' = [seen EXCEPT !.quitting = quits]
    BY <1>2, <2>1
  <2>. QED
    BY <2>2, SeenSet DEF CliInv, SeenInv
<1>6. SameHistory(editor, editor') /\ Remembers(editor', seen.ran, seen.draft) /\ ~editor'.stored
  <2>1. SameHistory(editor, editor')
    BY <1>1, Running, BufferEdits DEF Quit
  <2>. QED
    BY <1>1, <2>1, Running, NothingStored, SameRemembers DEF SameHistory
<1>7. HistoryInv'
  BY <1>5, <1>6 DEF HistoryInv
<1>. QED
  BY <1>1, <1>4, <1>5, <1>7 DEF CliInv, SignalInv, SessionInv, inputVars

LEMMA HistoryKeeps == CliInv /\ History => CliInv'
<1>. SUFFICES ASSUME CliInv, History PROVE CliInv'
  OBVIOUS
<1>1. /\ outcome = "none" /\ Top.state = "waiting" /\ EndCommand("done") /\ "done" \in Results
      /\ UNCHANGED <<frames, cliLevel, registry, handler, outcome, inputVars>>
  BY DEF History, InnermostRuns, Results
<1>2. CASE Option("-c")
  <2>1. /\ ReadersInv' /\ HandlerInv' /\ Top' = Top
        /\ Stopping(commandThreads') = Stopping(commandThreads)
    BY <1>1, EndCommandKeeps
  <2>2. PICK none : none = <<>>
    OBVIOUS
  <2>3. seen' = [seen EXCEPT !.ran = none] /\ editor' = [editor EXCEPT !.history = none, !.idx = 0]
    BY <1>2, <2>2 DEF History
  <2>4. /\ seen'.ran = none /\ seen'.draft = seen.draft /\ seen'.interrupted = seen.interrupted
        /\ SeenInv'
    BY <2>3, SeenSet DEF CliInv, SeenInv
  <2>5. PICK mid : mid = [editor EXCEPT !.history = none]
    OBVIOUS
  <2>6. mid = [buffer |-> editor.buffer, cursor |-> editor.cursor, history |-> none,
               idx |-> editor.idx, stored |-> editor.stored, tabs |-> editor.tabs]
    BY <1>1, <2>5, Running DEF IsEditor
  <2>7. editor' = [buffer |-> editor.buffer, cursor |-> editor.cursor, history |-> none,
                   idx |-> 0, stored |-> editor.stored, tabs |-> editor.tabs]
    BY <2>3, <2>5, <2>6
  <2>8. editor.stored = FALSE
    BY <1>1, NothingStored, Running DEF Remembers, Holds
  <2>9. IsSequence(none) /\ Len(none) = 0
    BY <2>2 DEF IsSequence
  <2>10. IsEditor(editor') /\ editor'.history = none /\ editor'.idx = 0
    BY <2>7 DEF IsEditor
  <2>11. ~editor'.stored /\ editor'.stored \in BOOLEAN
    BY <2>7, <2>8
  <2>12. Remembers(editor', none, seen.draft)
    BY <2>9, <2>10, <2>11 DEF Remembers, Holds
  <2>13. HistoryInv'
    BY <2>4, <2>11, <2>12 DEF HistoryInv
  <2>. QED
    BY <1>1, <2>1, <2>4, <2>13 DEF CliInv, SignalInv, SessionInv, inputVars
<1>3. CASE ~Option("-c")
  <2>1. editor' = editor /\ seen' = seen
    BY <1>3 DEF History
  <2>2. SeenInv'
    BY <2>1 DEF CliInv, SeenInv
  <2>. QED
    BY <1>1, <2>1, <2>2, CommandKeeps
<1>. QED
  BY <1>2, <1>3

LEMMA SourceDofileKeeps == CliInv /\ SourceDofile => CliInv'
<1>. SUFFICES ASSUME CliInv, SourceDofile PROVE CliInv'
  OBVIOUS
<1>1. /\ outcome = "none" /\ Top.state = "waiting"
      /\ UNCHANGED <<editor, handler, outcome, inputVars, seen>>
  BY DEF SourceDofile, InnermostRuns
<1>2. CASE EndCommand("error") /\ UNCHANGED frames
  <2>1. "error" \in Results
    BY DEF Results
  <2>. QED
    BY <1>1, <1>2, <2>1, CommandKeeps DEF CliInv, SeenInv
<1>3. CASE (\E lines : frames' = Append(frames, Frame(FALSE, lines))) /\ UNCHANGED commandThreads
  <2>1. PICK lines : frames' = Append(frames, Frame(FALSE, lines))
    BY <1>3
  <2>. DEFINE f == Frame(FALSE, lines)
  <2>2. IsFrame(f) /\ f.state # "waiting"
    BY DEF Frame, IsFrame, Results
  <2>3. frames' = Append(frames, f)
    BY <2>1
  <2>. HIDE DEF f
  <2>4. Nested(frames', commandThreads', TRUE)
    <3>1. Nested(frames, commandThreads, TRUE)
      BY <1>1, Running
    <3>. QED
      BY <1>1, <1>3, <2>2, <2>3, <3>1, ReaderBegins DEF Top
  <2>5. ReadersInv' /\ HandlerInv'
    BY <1>1, <1>3, <2>4 DEF CliInv, ReadersInv, HandlerInv, Nested
  <2>6. HistoryInv'
    BY <1>1, NothingStored DEF CliInv, HistoryInv
  <2>. QED
    BY <1>1, <1>3, <2>5, <2>6 DEF CliInv, SignalInv, SeenInv, SessionInv, inputVars
<1>. QED
  BY <1>2, <1>3, Zenon DEF SourceDofile

\* A signal while a thread runs will stop one.
LEMMA SigintKeeps == CliInv /\ Sigint => CliInv'
<1>. SUFFICES ASSUME CliInv, Sigint PROVE CliInv'
  OBVIOUS
<1>1. /\ outcome = "none" /\ ~handler /\ signals' = signals + 1
      /\ UNCHANGED <<commandThreads, cliLevel, registry, session>>
      /\ IsFrame(Top) /\ IsEditor(editor) /\ Remembers(editor, seen.ran, seen.draft)
      /\ Nested(frames, commandThreads, TRUE)
  BY Running DEF Sigint
<1>2. /\ seen'.ran = seen.ran /\ seen'.draft = seen.draft /\ seen'.interrupted = seen.interrupted
      /\ SeenInv'
  BY SeenSet DEF CliInv, SeenInv, Sigint
<1>3. SignalInv' /\ SessionInv'
  <2>1. Cardinality(Stopping(commandThreads)) \in Nat
    BY <1>1, StoppingCount DEF Nested
  <2>2. Stopping(commandThreads') = Stopping(commandThreads)
    BY <1>1
  <2>. QED
    BY <1>1, <1>2, <2>1, <2>2 DEF CliInv, SignalInv, SessionInv
<1>4. CASE Top.state = "listening"
  <2>1. /\ editor' = ClearReadBuffer(editor) /\ SetTop([Top EXCEPT !.cut = ~Top.user])
        /\ UNCHANGED <<handler, outcome>>
    BY <1>4 DEF Sigint
  <2>2. PICK cut, f : cut = ~Top.user /\ f = [Top EXCEPT !.cut = cut]
    OBVIOUS
  <2>3. IsFrame(f) /\ f.state = "listening" /\ f.user = Top.user /\ SetTop(f)
    BY <1>1, <1>4, <2>1, <2>2, FrameSet DEF IsFrame
  <2>4. ReadersInv' /\ HandlerInv' /\ Top' = f
    BY <1>1, <1>4, <2>1, <2>3, GoesOnKeeps
  <2>5. SameHistory(editor, editor')
    BY <1>1, <2>1, BufferEdits
  <2>6. HistoryInv'
    BY <1>1, <1>2, <2>1, <2>3, <2>4, <2>5, SameRemembers DEF CliInv, HistoryInv, SameHistory
  <2>. QED
    BY <1>2, <1>3, <2>4, <2>6 DEF CliInv
<1>5. CASE Top.state # "listening"
  <2>1. UNCHANGED <<frames, editor>>
    BY <1>5 DEF Sigint
  <2>2. handler' \in BOOLEAN /\ (handler' => commandThreads # <<>>)
    <3>1. \/ commandThreads # <<>> /\ handler' = TRUE
          \/ commandThreads = <<>> /\ handler' = handler
      BY <1>5, Zenon DEF Sigint
    <3>2. handler \in BOOLEAN
      BY DEF CliInv, HandlerInv
    <3>. QED
      <4>1. CASE commandThreads # <<>> /\ handler' = TRUE
        BY <4>1
      <4>2. CASE commandThreads = <<>> /\ handler' = handler
        <5>1. ~handler
          BY <1>1
        <5>2. ~handler' /\ handler' \in BOOLEAN
          BY <3>2, <4>2, <5>1, Zenon
        <5>. QED
          BY <5>2
      <4>. QED
        BY <3>1, <4>1, <4>2
  <2>3. ReadersInv' /\ HandlerInv'
    BY <1>1, <2>1, <2>2 DEF ReadersInv, HandlerInv, Nested
  <2>4. HistoryInv'
    BY <1>1, <1>2, <1>5, <2>1, NothingStored DEF HistoryInv
  <2>. QED
    BY <1>2, <1>3, <2>3, <2>4 DEF CliInv
<1>. QED
  BY <1>4, <1>5

\* The handler asks a thread, and has done its work.
LEMMA RequestStopKeeps == CliInv /\ RequestStop => CliInv'
<1>. SUFFICES ASSUME CliInv, RequestStop PROVE CliInv'
  OBVIOUS
<1>1. /\ handler /\ handler' = FALSE /\ commandThreads # <<>>
      /\ UNCHANGED <<frames, cliLevel, editor, registry, outcome, inputVars, seen>>
      /\ Nested(frames, commandThreads, outcome = "none") /\ IsSequence(commandThreads)
  BY DEF RequestStop, CliInv, HandlerInv, ReadersInv, Nested
<1>2. PICK yes, th : yes = TRUE /\ th = [TopThread EXCEPT !.stop = yes]
  OBVIOUS
<1>3. IsThread(TopThread)
  BY <1>1, LastThread DEF TopThread
<1>4. IsThread(th)
  BY <1>2, <1>3 DEF IsThread
<1>5. commandThreads' = Append(Front(commandThreads), th)
  BY <1>2 DEF RequestStop, SetThread
<1>6. ReadersInv'
  BY <1>1, <1>4, <1>5, ThreadChanges DEF ReadersInv
<1>7. HandlerInv'
  BY <1>1 DEF HandlerInv
<1>8. SignalInv'
  <2>1. Cardinality(Stopping(commandThreads')) <= Cardinality(Stopping(commandThreads)) + 1
    BY <1>1, <1>5, StoppingChanged
  <2>2. IsSequence(commandThreads')
    BY <1>1, <1>5, TopReplaced
  <2>3. /\ Cardinality(Stopping(commandThreads')) \in Nat
        /\ Cardinality(Stopping(commandThreads)) \in Nat
    BY <1>1, <2>2, StoppingCount
  <2>. QED
    BY <1>1, <2>1, <2>3 DEF CliInv, SignalInv, inputVars
<1>9. HistoryInv' /\ SeenInv' /\ SessionInv'
  BY <1>1 DEF CliInv, HistoryInv, SeenInv, SessionInv, inputVars, Top
<1>. QED
  BY <1>6, <1>7, <1>8, <1>9 DEF CliInv

LEMMA CliStepKeeps == CliInv /\ [CliNext]_cliVars => CliInv'
<1>. SUFFICES ASSUME CliInv, [CliNext]_cliVars PROVE CliInv'
  OBVIOUS
<1>1. CASE Listen \/ LineRead \/ UnknownCommand \/ Dispatch \/ Join \/ LineEnds \/ FileEnds
  BY <1>1, ListenKeeps, LineReadKeeps, UnknownCommandKeeps, DispatchKeeps, JoinKeeps, LineEndsKeeps,
     FileEndsKeeps
<1>2. CASE Command
  BY <1>2, WorkKeeps, QuitKeeps, HistoryKeeps, AliasKeeps, SetVariableKeeps, SourceDofileKeeps
     DEF Command
<1>3. CASE KeyPressed \/ InputEnds \/ Sigint \/ RequestStop
  BY <1>3, KeyPressedKeeps, InputEndsKeeps, SigintKeeps, RequestStopKeeps
<1>4. CASE UNCHANGED cliVars
  BY <1>4, RestKeeps
<1>. QED
  BY <1>1, <1>2, <1>3, <1>4 DEF CliNext, CliStep, Rest

-----------------------------------------------------------------------------
(* The texts of a line                                                     *)

LEMMA RestText == ASSUME NEW s, IsSequence(s), NEW i \in Int PROVE IsSequence(From(s, i))
<1>1. PICK n : n = Len(s) /\ n \in Int
  BY DEF IsSequence
<1>2. IsSequence(SubSeq(s, i, n))
  BY <1>1, Cut
<1>. QED
  BY <1>1, <1>2 DEF From

LEMMA TrimmedText ==
    ASSUME NEW str, IsSequence(str)
    PROVE  IsSequence(TrimLeadingSpaces(str)) /\ IsSequence(TrimSpaces(str))
<1>1. PICK space : space = " "
  BY Zenon
<1>2. ASSUME NEW s, IsSequence(s) PROVE IsSequence(TrimLeadingSpaces(s))
  <2>1. PICK P : P = {i \in DOMAIN s : s[i] # space}
    OBVIOUS
  <2>2. P \subseteq 1 .. Len(s) /\ Len(s) \in Nat
    BY <1>2, <2>1 DEF IsSequence
  <2>3. First(P) \in Int
    <3>1. First(P) \in 0 .. Len(s)
      BY <2>2, FirstOf
    <3>. QED
      BY <2>2, <3>1
  <2>4. IsSequence(<<>>) /\ IsSequence(From(s, First(P)))
    BY <1>2, <2>3, RestText, NoLetter
  <2>5. TrimLeadingSpaces(s) = <<>> \/ TrimLeadingSpaces(s) = From(s, First(P))
    BY <1>1, <2>1, Zenon DEF TrimLeadingSpaces
  <2>. QED
    BY <2>4, <2>5
<1>3. PICK P : P = {i \in DOMAIN str : str[i] # space}
  OBVIOUS
<1>4. P \subseteq 1 .. Len(str) /\ Len(str) \in Nat
  BY <1>3 DEF IsSequence
<1>5. PICK n : n = Final(P) /\ n \in Int
  <2>1. Final(P) \in 0 .. Len(str)
    BY <1>4, FinalOf
  <2>. QED
    BY <1>4, <2>1
<1>6. IsSequence(SubSeq(str, 1, n))
  BY <1>5, Cut
<1>7. TrimSpaces(str) = TrimLeadingSpaces(SubSeq(str, 1, n))
  BY <1>1, <1>3, <1>5, Zenon DEF TrimSpaces
<1>. QED
  BY <1>2, <1>6, <1>7

LEMMA CommentText == ASSUME NEW str, IsSequence(str) PROVE IsSequence(TrimComments(str))
<1>1. PICK slash : slash = "/"
  BY Zenon
<1>2. PICK P : P = {i \in 1 .. Len(str) - 1 : str[i] = slash /\ str[i + 1] = slash}
  OBVIOUS
<1>3. P \subseteq 1 .. Len(str) /\ Len(str) \in Nat
  BY <1>2 DEF IsSequence
<1>4. PICK n : n = First(P) /\ n - 1 \in Int
  <2>1. First(P) \in 0 .. Len(str)
    BY <1>3, FirstOf
  <2>. QED
    BY <1>3, <2>1
<1>5. IsSequence(SubSeq(str, 1, n - 1))
  BY <1>4, Cut
<1>6. TrimComments(str) = str \/ TrimComments(str) = SubSeq(str, 1, n - 1)
  BY <1>1, <1>2, <1>4, Zenon DEF TrimComments
<1>. QED
  BY <1>5, <1>6

LEMMA FirstTokenText == ASSUME NEW str, IsSequence(str) PROVE IsSequence(GetFirstToken(str))
<1>1. PICK space : space = " "
  BY Zenon
<1>2. PICK n : n = Unescaped(str, space, 1) /\ n - 1 \in Int
  <2>1. Len(str) \in Nat
    BY DEF IsSequence
  <2>2. Unescaped(str, space, 1) \in 0 .. Len(str)
    BY <2>1, UnescapedOf
  <2>. QED
    BY <2>1, <2>2
<1>3. IsSequence(SubSeq(str, 1, n - 1))
  BY <1>2, Cut
<1>4. GetFirstToken(str) = str \/ GetFirstToken(str) = SubSeq(str, 1, n - 1)
  BY <1>1, <1>2, Zenon DEF GetFirstToken
<1>. QED
  BY <1>3, <1>4

LEMMA CommandEnds ==
    ASSUME NEW str, IsSequence(str) PROVE CommandEnd(str) \in 0 .. Len(str) /\ Len(str) \in Nat
<1>1. PICK ch : ch = ";"
  BY Zenon
<1>2. Len(str) \in Nat
  BY DEF IsSequence
<1>3. Unescaped(str, ch, 1) \in 0 .. Len(str)
  BY <1>2, UnescapedOf
<1>4. CommandEnd(str) = Unescaped(str, ch, 1)
  BY <1>1, Zenon DEF CommandEnd
<1>. QED
  BY <1>2, <1>3, <1>4

\* An alias is put in for the first token of a text.
LEMMA AliasedText ==
    ASSUME NEW reg, RegistryTexts(reg), NEW str, IsSequence(str), NEW alias \in DOMAIN reg.aliases
    PROVE  IsSequence(reg.aliases[alias] \o From(str, Len(GetFirstToken(str)) + 1))
<1>1. PICK value, n : value = reg.aliases[alias] /\ IsSequence(value)
                      /\ n = Len(GetFirstToken(str)) + 1 /\ n \in Int
  <2>1. IsSequence(reg.aliases[alias]) /\ IsSequence(GetFirstToken(str))
    BY FirstTokenText DEF RegistryTexts
  <2>2. Len(GetFirstToken(str)) + 1 \in Int
    BY <2>1 DEF IsSequence
  <2>. QED
    BY <2>1, <2>2
<1>2. IsSequence(From(str, n))
  BY <1>1, RestText
<1>. QED
  BY <1>1, <1>2, TextsJoined

\* _parse_one_command: the arguments are texts.
LEMMA ParsedList ==
    ASSUME RegistryTexts(registry), NEW text, IsSequence(text)
    PROVE  IsList(Parsed(text).arguments)
<1>. DEFINE token == GetFirstToken(text)
            identifier == FindWithPrefix(registry.identifiers, token)
            put == registry.aliases[identifier] \o From(text, Len(token) + 1)
            aliased == identifier \in DOMAIN registry.aliases
            unaliased == IF aliased THEN put ELSE text
            buffer == ReplaceVariables(unaliased, registry.variables)
            name == GetFirstToken(buffer)
            list == Tokens(From(buffer, Len(name) + 1))
            parsed == Parsed(text)
<1>1. aliased => IsSequence(put)
  BY AliasedText
<1>2. IsSequence(unaliased)
  <2>. HIDE DEF put, aliased
  <2>. QED
    BY <1>1
<1>. HIDE DEF unaliased
<1>3. IsSequence(buffer)
  BY <1>2, ReplacedText DEF RegistryTexts
<1>. HIDE DEF buffer
<1>4. Len(name) + 1 \in Int
  BY <1>3, FirstTokenText DEF IsSequence
<1>. HIDE DEF name
<1>5. IsList(list)
  BY <1>3, <1>4, RestText, TokensList
<1>6. IsList(<<>>)
  BY NoLetter DEF IsList
<1>7. PICK none, no, yes : none = <<>> /\ no = FALSE /\ yes = TRUE
  OBVIOUS
<1>. DEFINE unknown == [command |-> none, arguments |-> none, crashes |-> no]
            found == [unknown EXCEPT !.command = GetCommand(registry, name), !.arguments = list]
            crashed == [unknown EXCEPT !.crashes = yes]
<1>8. parsed = unknown \/ parsed = found \/ parsed = crashed
  BY <1>7, Zenon DEF Parsed, list, name, buffer, unaliased
<1>. HIDE DEF list, parsed
<1>9. unknown.arguments = none /\ found.arguments = list /\ crashed.arguments = none
  OBVIOUS
<1>. HIDE DEF unknown, found, crashed
<1>10. IsList(parsed.arguments)
  BY <1>5, <1>6, <1>7, <1>8, <1>9
<1>. QED
  BY <1>10 DEF parsed

-----------------------------------------------------------------------------
(* All texts are sequences of characters, and the cursor stands in the     *)
(* line: a key, a completion or a line of a file may end up anywhere in    *)
(* the line that is typed, by way of the history, an alias or a variable.  *)

\* A file that is read has a line left.
FrameTexts(f) ==
    /\ IsSequence(f.input) /\ IsSequence(f.text) /\ IsList(f.lines)
    /\ f.state = "listening" /\ ~f.user => f.lines # <<>>

FramesInv == \A i \in 1 .. Len(frames) : FrameTexts(frames[i])

ThreadsInv == \A i \in 1 .. Len(commandThreads) : IsList(commandThreads[i].arguments)

IsRegistry(reg) ==
    reg = [commands |-> reg.commands, aliases |-> reg.aliases, variables |-> reg.variables,
           identifiers |-> reg.identifiers]

RegistryInv == IsRegistry(registry) /\ RegistryTexts(registry)

LineInv == CursorIn(editor) /\ AreTexts(seen.ran, seen.draft)

TextsInv == FramesInv /\ ThreadsInv /\ RegistryInv /\ LineInv

\* What a running program gives
LEMMA RunningTexts ==
    ASSUME CliInv, TextsInv, outcome = "none"
    PROVE  /\ FrameTexts(Top) /\ CursorIn(editor) /\ RegistryTexts(registry)
           /\ Top.state = "waiting" => IsList(TopThread.arguments)
<1>1. Nested(frames, commandThreads, TRUE) /\ Len(frames) \in Nat \ {0}
  BY Running, Innermost
<1>2. FrameTexts(Top)
  BY <1>1 DEF TextsInv, FramesInv, Top, Last
<1>3. ASSUME Top.state = "waiting" PROVE IsList(TopThread.arguments)
  <2>1. commandThreads # <<>>
    BY <1>1, <1>3, Innermost DEF Top
  <2>2. Len(commandThreads) \in Nat \ {0}
    BY <1>1, <2>1, LastThread
  <2>. QED
    BY <2>2 DEF TextsInv, ThreadsInv, TopThread, Last
<1>. QED
  BY <1>2, <1>3 DEF TextsInv, RegistryInv, LineInv

\* The innermost reader is another.
LEMMA TopTexts ==
    ASSUME CliInv, FramesInv, outcome = "none", NEW f, FrameTexts(f), SetTop(f)
    PROVE  FramesInv'
<1>1. IsSequence(frames) /\ frames # <<>> /\ Len(frames) \in Nat
  <2>1. IsSequence(frames) /\ frames # <<>>
    BY Running DEF Nested
  <2>. QED
    BY <2>1 DEF IsSequence
<1>2. PICK fs : fs = Append(Front(frames), f)
  OBVIOUS
<1>3. /\ Len(fs) = Len(frames) /\ fs[Len(frames)] = f
      /\ \A i \in 1 .. Len(frames) - 1 : fs[i] = frames[i]
  BY <1>1, <1>2, TopReplaced
<1>4. ASSUME NEW i \in 1 .. Len(fs) PROVE FrameTexts(fs[i])
  <2>1. CASE i = Len(frames)
    BY <1>3, <2>1
  <2>2. CASE i # Len(frames)
    <3>1. i \in 1 .. Len(frames) - 1 /\ i \in 1 .. Len(frames)
      BY <1>1, <1>3, <2>2
    <3>. QED
      BY <1>3, <3>1 DEF FramesInv
  <2>. QED
    BY <2>1, <2>2
<1>. QED
  BY <1>2, <1>4 DEF FramesInv, SetTop

\* The innermost command is another, with the arguments it had.
LEMMA ThreadTexts ==
    ASSUME ThreadsInv, IsSequence(commandThreads), commandThreads # <<>>,
           NEW th, th.arguments = TopThread.arguments, SetThread(th)
    PROVE  ThreadsInv'
<1>1. Len(commandThreads) \in Nat \ {0}
  BY EmptyOrNot DEF IsSequence
<1>2. PICK ts : ts = Append(Front(commandThreads), th)
  OBVIOUS
<1>3. /\ Len(ts) = Len(commandThreads) /\ ts[Len(commandThreads)] = th
      /\ \A i \in 1 .. Len(commandThreads) - 1 : ts[i] = commandThreads[i]
  BY <1>2, TopReplaced
<1>4. ASSUME NEW i \in 1 .. Len(ts) PROVE IsList(ts[i].arguments)
  <2>1. CASE i = Len(commandThreads)
    BY <1>1, <1>3, <2>1 DEF ThreadsInv, TopThread, Last
  <2>2. CASE i # Len(commandThreads)
    <3>1. i \in 1 .. Len(commandThreads) - 1 /\ i \in 1 .. Len(commandThreads)
      BY <1>1, <1>3, <2>2
    <3>. QED
      BY <1>3, <3>1 DEF ThreadsInv
  <2>. QED
    BY <2>1, <2>2
<1>. QED
  BY <1>2, <1>4 DEF ThreadsInv, SetThread

\* A command ends.
LEMMA CommandTexts ==
    ASSUME CliInv, ThreadsInv, outcome = "none", Top.state = "waiting", NEW result,
           EndCommand(result)
    PROVE  ThreadsInv'
<1>1. Nested(frames, commandThreads, TRUE) /\ commandThreads # <<>> /\ IsSequence(commandThreads)
  BY Running, Innermost DEF Nested, Top
<1>2. PICK th : th = [TopThread EXCEPT !.result = result]
  OBVIOUS
<1>3. IsThread(TopThread)
  BY <1>1, LastThread DEF TopThread
<1>4. th.arguments = TopThread.arguments
  BY <1>2, <1>3 DEF IsThread
<1>. QED
  BY <1>1, <1>2, <1>4, ThreadTexts DEF EndCommand

\* execute_one_line or source_dofile returns.
LEMMA ReturnTexts ==
    ASSUME CliInv, TextsInv, outcome = "none", Top.state # "waiting", NEW result, NEW h,
           ReturnFrom(result, h)
    PROVE  FramesInv' /\ ThreadsInv'
<1>1. Nested(frames, commandThreads, TRUE) /\ IsSequence(frames) /\ frames # <<>>
  BY Running DEF Nested
<1>2. PICK fs : fs = Front(frames)
  OBVIOUS
<1>3. /\ IsSequence(fs) /\ Len(frames) \in Nat \ {0} /\ Len(fs) = Len(frames) - 1
      /\ \A i \in 1 .. Len(frames) - 1 : fs[i] = frames[i]
  BY <1>1, <1>2, Popped
<1>4. FramesInv'
  <2>1. ASSUME NEW i \in 1 .. Len(fs) PROVE FrameTexts(fs[i])
    <3>1. i \in 1 .. Len(frames) - 1 /\ i \in 1 .. Len(frames)
      BY <1>3
    <3>. QED
      BY <1>3, <3>1 DEF TextsInv, FramesInv
  <2>. QED
    BY <1>2, <2>1 DEF ReturnFrom, FramesInv
<1>5. CASE Len(frames) = 1
  BY <1>4, <1>5 DEF ReturnFrom, TextsInv, ThreadsInv
<1>6. CASE Len(frames) # 1
  <2>1. commandThreads # <<>> /\ IsSequence(commandThreads)
    BY <1>1, <1>6, ReaderEnds DEF Nested, Top
  <2>2. PICK th : th = [TopThread EXCEPT !.result = result]
    OBVIOUS
  <2>3. IsThread(TopThread)
    BY <1>1, <2>1, LastThread DEF TopThread
  <2>4. th.arguments = TopThread.arguments
    BY <2>2, <2>3 DEF IsThread
  <2>5. SetThread(th)
    BY <1>6, <2>2 DEF ReturnFrom
  <2>. QED
    BY <1>4, <2>1, <2>4, <2>5, ThreadTexts DEF TextsInv
<1>. QED
  BY <1>5, <1>6

LEMMA ListenTexts == CliInv /\ TextsInv /\ Listen => TextsInv'
<1>. SUFFICES ASSUME CliInv, TextsInv, Listen PROVE TextsInv'
  OBVIOUS
<1>1. /\ outcome = "none" /\ IsFrame(Top) /\ IsEditor(editor) /\ FrameTexts(Top)
      /\ UNCHANGED <<commandThreads, registry, seen>> /\ (~Top.user => Top.lines # <<>>)
  BY Running, RunningTexts DEF Listen, InState, Runs
<1>2. PICK g, f, no : g = [Top EXCEPT !.state = "listening"] /\ no = FALSE /\ f = [g EXCEPT !.cut = no]
  OBVIOUS
<1>3. /\ IsFrame(g) /\ g.input = Top.input /\ g.text = Top.text /\ g.lines = Top.lines
      /\ g.user = Top.user
  BY <1>1, <1>2, FrameSet DEF IsFrame
<1>4. f.input = g.input /\ f.text = g.text /\ f.lines = g.lines /\ f.user = g.user
  BY <1>2, <1>3, FrameSet
<1>5. FrameTexts(f)
  BY <1>1, <1>3, <1>4 DEF FrameTexts
<1>6. SetTop(f)
  BY <1>2 DEF Listen
<1>7. FramesInv'
  BY <1>1, <1>5, <1>6, TopTexts DEF TextsInv
<1>8. CursorIn(editor')
  BY <1>1, LineEdits DEF Listen
<1>. QED
  BY <1>1, <1>7, <1>8 DEF TextsInv, ThreadsInv, RegistryInv, LineInv

\* listen_to_input returns.
LEMMA TakeLineTexts ==
    ASSUME CliInv, TextsInv, outcome = "none", Top.state = "listening", NEW ed,
           SameHistory(editor, ed), CursorIn(ed), NEW lines, IsList(lines), TakeLine(ed, lines)
    PROVE  TextsInv'
<1>1. /\ IsFrame(Top) /\ FrameTexts(Top) /\ RegistryTexts(registry)
      /\ Remembers(ed, seen.ran, seen.draft)
  BY Running, RunningTexts, SameRemembers
<1>2. UNCHANGED <<commandThreads, registry>>
  BY DEF TakeLine
<1>3. CASE Crash
  BY <1>2, <1>3 DEF Crash, TextsInv, FramesInv, ThreadsInv, RegistryInv, LineInv
<1>4. CASE ~Crash
  <2>. DEFINE line     == TrimSpaces(TrimComments(ed.buffer))
              stripped == Dequote(line).text
              token    == GetFirstToken(stripped)
              alias    == FindWithPrefix(registry.identifiers, token)
              isAlias  == alias \in DOMAIN registry.aliases
              put      == registry.aliases[alias] \o From(stripped, Len(token) + 1)
              whole    == IF isAlias THEN put ELSE stripped
              left     == TrimLeadingSpaces(whole)
              where    == IF IsClosed(line) THEN "line" ELSE "next"
  <2>1. /\ where \in {"line", "next"}
        /\ SetTop([Top EXCEPT !.lines = lines, !.state = where, !.input = line,
                              !.text = left, !.result = "done", !.rounds = 0,
                              !.aliased = isAlias])
    BY <1>4, Zenon DEF TakeLine
  <2>2. editor' = DropStored(ed) /\ seen' = [seen EXCEPT !.file = <<>>]
    BY <1>4 DEF TakeLine
  <2>3. IsSequence(line) /\ IsSequence(stripped)
    BY CommentText, TrimmedText, DequotedText DEF CursorIn
  <2>. HIDE DEF line
  <2>4. isAlias => IsSequence(put)
    BY <1>1, <2>3, AliasedText
  <2>5. IsSequence(whole)
    <3>. HIDE DEF put, isAlias, stripped
    <3>. QED
      BY <2>3, <2>4
  <2>. HIDE DEF whole, isAlias, where
  <2>6. IsSequence(left)
    BY <2>5, TrimmedText
  <2>. HIDE DEF left
  <2>7. PICK f : f = [Top EXCEPT !.lines = lines, !.state = where, !.input = line, !.text = left,
                                 !.result = "done", !.rounds = 0, !.aliased = isAlias]
    OBVIOUS
  <2>8. f.lines = lines /\ f.state = where /\ f.input = line /\ f.text = left
    <3>1. PICK f1, f2, f3, f4 : /\ f1 = [Top EXCEPT !.lines = lines]
                                /\ f2 = [f1 EXCEPT !.state = where]
                                /\ f3 = [f2 EXCEPT !.input = line] /\ f4 = [f3 EXCEPT !.text = left]
      OBVIOUS
    <3>2. IsFrame(f1) /\ f1.lines = lines
      BY <1>1, <3>1, FrameSet DEF IsFrame
    <3>3. IsFrame(f2) /\ f2.lines = lines /\ f2.state = where
      BY <3>1, <3>2, FrameSet DEF IsFrame
    <3>4. IsFrame(f3) /\ f3.lines = lines /\ f3.state = where /\ f3.input = line
      BY <3>1, <3>3, FrameSet DEF IsFrame
    <3>5. IsFrame(f4) /\ f4.lines = lines /\ f4.state = where /\ f4.input = line /\ f4.text = left
      BY <3>1, <3>4, FrameSet DEF IsFrame
    <3>6. PICK f5, f6, was, f7 : /\ f5 = [f4 EXCEPT !.result = "done"] /\ f6 = [f5 EXCEPT !.rounds = 0]
                                 /\ was = isAlias /\ f7 = [f6 EXCEPT !.aliased = was]
      OBVIOUS
    <3>7. IsFrame(f5) /\ f5.lines = lines /\ f5.state = where /\ f5.input = line /\ f5.text = left
      BY <3>5, <3>6, FrameSet DEF IsFrame, Results
    <3>8. IsFrame(f6) /\ f6.lines = lines /\ f6.state = where /\ f6.input = line /\ f6.text = left
      BY <3>6, <3>7, FrameSet DEF IsFrame
    <3>9. f7.lines = lines /\ f7.state = where /\ f7.input = line /\ f7.text = left
      BY <3>6, <3>8, FrameSet
    <3>10. f = f7
      BY <2>7, <3>1, <3>6
    <3>. QED
      BY <3>9, <3>10
  <2>9. FrameTexts(f) /\ SetTop(f)
    BY <2>1, <2>3, <2>6, <2>7, <2>8 DEF FrameTexts
  <2>10. FramesInv'
    BY <2>9, TopTexts DEF TextsInv
  <2>11. seen'.ran = seen.ran /\ seen'.draft = seen.draft
    BY <2>2, SeenSet DEF CliInv, SeenInv
  <2>12. editor'.buffer = ed.buffer /\ editor'.cursor = ed.cursor
    BY <1>1, <2>2, DropRemembers DEF Remembers
  <2>13. LineInv'
    BY <2>11, <2>12 DEF TextsInv, LineInv, CursorIn
  <2>. QED
    BY <1>2, <2>10, <2>13 DEF TextsInv, ThreadsInv, RegistryInv
<1>. QED
  BY <1>3, <1>4

LEMMA InputEndsTexts == CliInv /\ TextsInv /\ InputEnds => TextsInv'
<1>. SUFFICES ASSUME CliInv, TextsInv, InputEnds PROVE TextsInv'
  OBVIOUS
<1>1. /\ outcome = "none" /\ Top.state = "listening" /\ registry' = registry
      /\ Remembers(editor, seen.ran, seen.draft) /\ CursorIn(editor)
  BY Running, RunningTexts DEF InputEnds, InState, Runs
<1>2. PICK h : h = editor'.history
  OBVIOUS
<1>3. ReturnFrom("quit", h)
  BY <1>2 DEF InputEnds
<1>4. FramesInv' /\ ThreadsInv'
  BY <1>1, <1>3, ReturnTexts
<1>5. editor'.buffer = editor.buffer /\ editor'.cursor = editor.cursor
  BY <1>1, DropRemembers DEF Remembers, InputEnds
<1>6. seen'.ran = seen.ran /\ seen'.draft = seen.draft
  <2>1. PICK yes, new : yes = TRUE /\ new = [seen EXCEPT !.quitting = yes]
    OBVIOUS
  <2>2. new.ran = seen.ran /\ new.draft = seen.draft
    BY <2>1, SeenSet DEF CliInv
  <2>3. seen' = [new EXCEPT !.file = <<>>]
    BY <2>1 DEF InputEnds
  <2>. QED
    BY <2>2, <2>3
<1>. QED
  BY <1>1, <1>4, <1>5, <1>6 DEF TextsInv, RegistryInv, LineInv, CursorIn

\* A list of texts loses its first one.
LEMMA ListTail ==
    ASSUME NEW l, IsList(l), l # <<>>
    PROVE  /\ IsSequence(Head(l)) /\ IsList(Tail(l)) /\ Len(l) \in Nat \ {0}
           /\ Len(Tail(l)) = Len(l) - 1
<1>1. PICK n : n = Len(l) /\ n \in Nat \ {0}
  BY EmptyOrNot DEF IsList, IsSequence
<1>2. IsSequence(Head(l))
  BY <1>1 DEF IsList, Head
<1>3. PICK t : t = SubSeq(l, 2, n)
  OBVIOUS
<1>4. /\ IsSequence(t) /\ Len(t) = (IF 2 <= n THEN n - 2 + 1 ELSE 0)
      /\ \A i \in 1 .. n - 2 + 1 : t[i] = l[2 + i - 1]
  BY <1>1, <1>3, Cut
<1>5. Len(t) = n - 1
  BY <1>1, <1>4
<1>6. ASSUME NEW i \in 1 .. n - 1 PROVE IsSequence(t[i])
  <2>1. i \in 1 .. n - 2 + 1 /\ 2 + i - 1 \in 1 .. n
    BY <1>1
  <2>. QED
    BY <1>1, <1>4, <2>1 DEF IsList
<1>7. Tail(l) = t
  <2>1. PICK S : S = Letters(l) /\ l \in Seq(S)
    BY OfLetters DEF IsList
  <2>2. Tail(l) \in Seq(S) /\ Len(Tail(l)) = n - 1 /\ \A i \in 1 .. n - 1 : Tail(l)[i] = l[i + 1]
    BY <1>1, <2>1
  <2>3. PICK u : u = Tail(l)
    OBVIOUS
  <2>4. IsSequence(u) /\ Len(u) = n - 1 /\ \A i \in 1 .. n - 1 : u[i] = l[i + 1]
    BY <2>2, <2>3, IsSequenceIn
  <2>5. \A i \in 1 .. n - 1 : u[i] = t[i]
    BY <1>1, <1>4, <2>4
  <2>6. u = t
    BY <1>4, <1>5, <2>4, <2>5 DEF IsSequence
  <2>. QED
    BY <2>3, <2>6
<1>. QED
  BY <1>1, <1>2, <1>4, <1>5, <1>6, <1>7 DEF IsList

LEMMA KeyPressedTexts == CliInv /\ TextsInv /\ KeyPressed => TextsInv'
<1>. SUFFICES ASSUME CliInv, TextsInv, KeyPressed PROVE TextsInv'
  OBVIOUS
<1>1. /\ outcome = "none" /\ Top.state = "listening" /\ UNCHANGED <<commandThreads, registry>>
      /\ IsEditor(editor) /\ Remembers(editor, seen.ran, seen.draft) /\ CursorIn(editor)
      /\ RegistryTexts(registry)
  BY Running, RunningTexts DEF KeyPressed, InState, Runs
<1>2. PICK key \in Head(session.keys) :
          \/ key.key = "enter" /\ Enter
          \/ key.key = "tab" /\ PressTab
          \/ key.key \notin {"enter", "tab"} /\ EditLine(key)
  BY DEF KeyPressed
<1>3. key \in KeyPresses
  <2>1. session.keys \in Seq(SUBSET KeyPresses) /\ session.keys # <<>>
    BY DEF CliInv, SessionInv, KeyPressed
  <2>2. Head(session.keys) \in SUBSET KeyPresses
    BY <2>1
  <2>. QED
    BY <2>2
<1>4. CASE Enter
  <2>1. CASE TakeLine(editor, <<>>)
    <3>1. PICK none : none = <<>> /\ IsList(none)
      BY NoLetter DEF IsList
    <3>. QED
      BY <1>1, <2>1, <3>1, SameItself, TakeLineTexts
  <2>2. CASE UNCHANGED <<frames, editor, seen>>
    BY <1>1, <2>2 DEF TextsInv, FramesInv, ThreadsInv, RegistryInv, LineInv
  <2>. QED
    BY <1>4, <2>1, <2>2 DEF Enter
<1>5. CASE PressTab
  <2>1. PICK tab : /\ tab = OnTabPressed(editor, registry) /\ editor' = tab.ed
                   /\ seen' = [seen EXCEPT !.file = tab.file] /\ UNCHANGED frames
    BY <1>5 DEF PressTab
  <2>2. CursorIn(editor')
    BY <1>1, <2>1, TabLands
  <2>3. seen'.ran = seen.ran /\ seen'.draft = seen.draft
    BY <2>1, SeenSet DEF CliInv
  <2>. QED
    BY <1>1, <2>1, <2>2, <2>3 DEF TextsInv, FramesInv, ThreadsInv, RegistryInv, LineInv
<1>6. CASE key.key \notin {"enter", "tab"} /\ EditLine(key)
  <2>1. /\ editor' = Edited(key) /\ UNCHANGED frames
        /\ seen' = [seen EXCEPT !.file = <<>>, !.draft = IF editor'.stored /\ ~editor.stored
                                                          THEN editor.buffer ELSE @]
    BY <1>6 DEF EditLine
  <2>2. /\ key.key \in {"type", "home", "end", "left", "right", "back_space", "delete",
                        "prev_word", "next_word", "up", "down", "pg_up", "pg_down"}
        /\ key.text \in Seq(STRING)
    BY <1>3, <1>6 DEF KeyPresses
  <2>3. IsSequence(key.text)
    BY <2>2, IsSequenceIn
  <2>4. AreTexts(seen.ran, seen.draft)
    BY DEF TextsInv, LineInv
  <2>5. CursorIn(editor')
    BY <1>1, <2>1, <2>2, <2>3, <2>4, KeyRemembers
  <2>6. PICK draft : draft = IF editor'.stored /\ ~editor.stored THEN editor.buffer ELSE seen.draft
    OBVIOUS
  <2>7. seen'.ran = seen.ran /\ seen'.draft = draft
    <3>1. PICK new : new = [seen EXCEPT !.file = <<>>]
      OBVIOUS
    <3>2. new = [ran |-> seen.ran, draft |-> seen.draft, file |-> <<>>,
                 interrupted |-> seen.interrupted, quitting |-> seen.quitting,
                 shadowed |-> seen.shadowed]
      BY <3>1, SeenSet DEF CliInv
    <3>3. seen' = [new EXCEPT !.draft = draft]
      BY <2>1, <2>6, <3>1, <3>2
    <3>. QED
      BY <3>2, <3>3
  <2>8. AreTexts(seen'.ran, seen'.draft)
    BY <1>1, <2>4, <2>6, <2>7 DEF AreTexts, CursorIn
  <2>. QED
    BY <1>1, <2>1, <2>5, <2>8 DEF TextsInv, FramesInv, ThreadsInv, RegistryInv, LineInv
<1>. QED
  BY <1>2, <1>4, <1>5, <1>6

LEMMA LineReadTexts == CliInv /\ TextsInv /\ LineRead => TextsInv'
<1>. SUFFICES ASSUME CliInv, TextsInv, LineRead PROVE TextsInv'
  OBVIOUS
<1>1. /\ outcome = "none" /\ Top.state = "listening" /\ ~Top.user /\ IsEditor(editor)
      /\ IsFrame(Top) /\ FrameTexts(Top) /\ CursorIn(editor)
  BY Running, RunningTexts DEF LineRead, InState, Runs
<1>2. PICK line, rest : /\ line = Head(Top.lines) /\ rest = Tail(Top.lines)
                        /\ IsSequence(line) /\ IsList(rest) /\ Len(Top.lines) \in Nat \ {0}
                        /\ Len(rest) = Len(Top.lines) - 1
  BY <1>1, ListTail DEF FrameTexts
<1>. DEFINE Reads(heard, ed) ==
                IF IsClosed(heard) \/ Len(Top.lines) = 1 THEN TakeLine(ed, Tail(Top.lines))
                ELSE /\ editor' = ed
                     /\ SetTop([Top EXCEPT !.lines = Tail(@), !.cut = FALSE])
                     /\ UNCHANGED <<commandThreads, cliLevel, registry, handler, outcome, signals,
                                    seen>>
<1>3. PICK heard, ed : /\ heard \in Heard(line)
                       /\ ed = WithLine(editor, heard, Len(heard)) /\ Reads(heard, ed)
  <2>1. PICK heard \in Heard(Head(Top.lines)) : Reads(heard, WithLine(editor, heard, Len(heard)))
    BY Zenon DEF LineRead, WithLine
  <2>. HIDE DEF Reads
  <2>. QED
    BY <1>2, <2>1, Zenon
<1>4. IsSequence(heard)
  <2>1. CASE ~Top.cut
    BY <1>1, <1>2, <1>3, <2>1, TextsJoined DEF Heard, CursorIn
  <2>2. CASE Top.cut
    <3>1. PICK i \in 1 .. Len(line) + 1 : heard = From(line, i)
      BY <1>3, <2>2 DEF Heard
    <3>. QED
      BY <1>2, <3>1, RestText
  <2>. QED
    BY <2>1, <2>2
<1>5. SameHistory(editor, ed) /\ CursorIn(ed)
  <2>1. SameHistory(editor, ed) /\ ed.buffer = heard /\ ed.cursor = Len(heard)
    BY <1>1, <1>3, LineSet, LineIs
  <2>2. Len(heard) \in Nat
    BY <1>4 DEF IsSequence
  <2>. QED
    BY <1>4, <2>1, <2>2 DEF CursorIn
<1>6. CASE IsClosed(heard) \/ Len(Top.lines) = 1
  <2>1. TakeLine(ed, rest)
    BY <1>2, <1>3, <1>6
  <2>. QED
    BY <1>1, <1>2, <1>5, <2>1, TakeLineTexts
<1>7. CASE ~(IsClosed(heard) \/ Len(Top.lines) = 1)
  <2>1. PICK f, g, no : f = [Top EXCEPT !.lines = rest] /\ no = FALSE /\ g = [f EXCEPT !.cut = no]
    OBVIOUS
  <2>2. IsFrame(f) /\ f.lines = rest /\ f.input = Top.input /\ f.text = Top.text
    BY <1>1, <2>1, FrameSet DEF IsFrame
  <2>3. g.lines = rest /\ g.input = Top.input /\ g.text = Top.text
    BY <2>1, <2>2, FrameSet
  <2>4. /\ editor' = ed
        /\ SetTop([Top EXCEPT !.lines = Tail(@), !.cut = FALSE])
        /\ UNCHANGED <<commandThreads, cliLevel, registry, handler, outcome, signals, seen>>
    BY <1>3, <1>7
  <2>5. SetTop(g)
    BY <1>2, <2>1, <2>4
  <2>6. rest # <<>>
    <3>1. IsSequence(rest) /\ Len(rest) # 0
      BY <1>2, <1>7 DEF IsList
    <3>. QED
      BY <3>1, EmptyOrNot
  <2>7. FrameTexts(g)
    BY <1>1, <1>2, <2>3, <2>6 DEF FrameTexts
  <2>8. FramesInv'
    BY <1>1, <2>5, <2>7, TopTexts DEF TextsInv
  <2>. QED
    BY <1>5, <2>4, <2>8 DEF TextsInv, ThreadsInv, RegistryInv, LineInv
<1>. QED
  BY <1>6, <1>7

\* What is left of the frame when its command was cut off, and that command
LEMMA AfterCommandTexts ==
    ASSUME NEW f, IsFrame(f), FrameTexts(f)
    PROVE  LET g == AfterCommand(f)
           IN g.input = f.input /\ g.lines = f.lines /\ IsSequence(g.text)
<1>. DEFINE end   == CommandEnd(f.text)
            state == IF end = 0 THEN "ended" ELSE "line"
            behind == TrimLeadingSpaces(From(f.text, end + 1))
            left  == IF end = 0 THEN <<>> ELSE behind
<1>1. PICK count, more : count = f.rounds + 1 /\ more = (end # 0)
  OBVIOUS
<1>2. IsSequence(left)
  <2>1. IsSequence(f.text) /\ end \in Nat
    BY CommandEnds DEF FrameTexts
  <2>2. PICK k : k = end + 1 /\ k \in Int
    BY <2>1
  <2>3. IsSequence(TrimLeadingSpaces(From(f.text, k)))
    BY <2>1, <2>2, RestText, TrimmedText
  <2>4. IsSequence(behind)
    <3>. HIDE DEF end
    <3>. QED
      BY <2>2, <2>3
  <2>. HIDE DEF end, behind
  <2>. QED
    BY <2>4, NoLetter
<1>3. PICK f1, f2, f3, f4 : /\ f1 = [f EXCEPT !.rounds = count] /\ f2 = [f1 EXCEPT !.more = more]
                            /\ f3 = [f2 EXCEPT !.state = state] /\ f4 = [f3 EXCEPT !.text = left]
  OBVIOUS
<1>4. IsFrame(f1) /\ f1.input = f.input /\ f1.lines = f.lines /\ f1.text = f.text
  BY <1>3, FrameSet DEF IsFrame
<1>5. IsFrame(f2) /\ f2.input = f.input /\ f2.lines = f.lines /\ f2.text = f.text
  BY <1>3, <1>4, FrameSet DEF IsFrame
<1>6. IsFrame(f3) /\ f3.input = f.input /\ f3.lines = f.lines /\ f3.text = f.text
  <2>. HIDE DEF end, state
  <2>. QED
    BY <1>3, <1>5, FrameSet DEF IsFrame
<1>7. AfterCommand(f) = f4
  BY <1>1, <1>3, <1>6 DEF AfterCommand
<1>. HIDE DEF left, state
<1>8. f4.input = f.input /\ f4.lines = f.lines /\ f4.text = left
  BY <1>3, <1>6, FrameSet
<1>. QED
  BY <1>2, <1>7, <1>8

LEMMA ThisCommandText == ASSUME IsSequence(Top.text) PROVE IsSequence(ThisCommand)
<1>1. PICK end, text : end = CommandEnd(Top.text) /\ end \in Nat /\ text = Top.text
  BY CommandEnds
<1>2. IsSequence(SubSeq(text, 1, end - 1))
  BY <1>1, Cut
<1>3. ThisCommand = IF end = 0 THEN text ELSE SubSeq(text, 1, end - 1)
  BY <1>1 DEF ThisCommand
<1>. QED
  BY <1>1, <1>2, <1>3

LEMMA UnknownCommandTexts == CliInv /\ TextsInv /\ UnknownCommand => TextsInv'
<1>. SUFFICES ASSUME CliInv, TextsInv, UnknownCommand PROVE TextsInv'
  OBVIOUS
<1>1. /\ outcome = "none" /\ IsFrame(Top) /\ FrameTexts(Top)
      /\ UNCHANGED <<commandThreads, editor, registry, seen>>
  BY Running, RunningTexts DEF UnknownCommand, InState, Runs
<1>2. PICK g, h : g = AfterCommand(Top) /\ h = [g EXCEPT !.result = "cmd_not_found"]
  OBVIOUS
<1>3. /\ IsFrame(g) /\ g.state # "listening" /\ g.input = Top.input /\ g.lines = Top.lines
      /\ IsSequence(g.text)
  <2>1. IsFrame(g) /\ g.state \in {"ended", "line"}
    BY <1>1, <1>2, AfterCommandFrame
  <2>. QED
    BY <1>1, <1>2, <2>1, AfterCommandTexts
<1>4. h.state # "listening" /\ h.input = Top.input /\ h.lines = Top.lines /\ h.text = g.text
  BY <1>2, <1>3, FrameSet
<1>5. FrameTexts(g) /\ FrameTexts(h)
  BY <1>1, <1>3, <1>4 DEF FrameTexts
<1>6. SetTop(g) \/ SetTop(h)
  BY <1>2 DEF UnknownCommand
<1>7. FramesInv'
  BY <1>1, <1>5, <1>6, TopTexts DEF TextsInv
<1>. QED
  BY <1>1, <1>7 DEF TextsInv, ThreadsInv, RegistryInv, LineInv

LEMMA DispatchTexts == CliInv /\ TextsInv /\ Dispatch => TextsInv'
<1>. SUFFICES ASSUME CliInv, TextsInv, Dispatch PROVE TextsInv'
  OBVIOUS
<1>1. /\ outcome = "none" /\ IsFrame(Top) /\ FrameTexts(Top) /\ UNCHANGED <<editor, registry, seen>>
      /\ RegistryTexts(registry) /\ IsSequence(commandThreads)
  BY Running, RunningTexts DEF Dispatch, InState, Runs
<1>2. PICK g, f : g = AfterCommand(Top) /\ f = [g EXCEPT !.state = "waiting"]
  OBVIOUS
<1>3. IsFrame(g) /\ g.input = Top.input /\ g.lines = Top.lines /\ IsSequence(g.text)
  BY <1>1, <1>2, AfterCommandFrame, AfterCommandTexts
<1>4. f.state = "waiting" /\ f.input = Top.input /\ f.lines = Top.lines /\ f.text = g.text
  BY <1>2, <1>3, FrameSet
<1>5. FrameTexts(f) /\ SetTop(f)
  BY <1>1, <1>2, <1>3, <1>4 DEF FrameTexts, Dispatch
<1>6. FramesInv'
  BY <1>1, <1>5, TopTexts DEF TextsInv
<1>7. PICK parsed : parsed = Parsed(ThisCommand)
  OBVIOUS
<1>8. IsList(parsed.arguments)
  BY <1>1, <1>7, ThisCommandText, ParsedList DEF FrameTexts
<1>9. PICK no, th : /\ no = FALSE
                    /\ th = [command |-> parsed.command, arguments |-> parsed.arguments,
                             stop |-> no, result |-> "running"]
  OBVIOUS
<1>10. PICK ts : ts = Append(commandThreads, th)
  OBVIOUS
<1>11. /\ Len(ts) = Len(commandThreads) + 1 /\ ts[Len(commandThreads) + 1] = th
       /\ \A i \in 1 .. Len(commandThreads) : ts[i] = commandThreads[i]
       /\ Len(commandThreads) \in Nat
  BY <1>1, <1>10, Pushed DEF IsSequence
<1>12. th.arguments = parsed.arguments
  BY <1>9
<1>13. commandThreads' = Append(commandThreads, th)
  <2>1. commandThreads' = Append(commandThreads, [command |-> parsed.command,
                                     arguments |-> parsed.arguments, stop |-> FALSE,
                                     result |-> "running"])
    BY <1>7 DEF Dispatch
  <2>. QED
    BY <1>9, <2>1
<1>14. ASSUME NEW i \in 1 .. Len(ts) PROVE IsList(ts[i].arguments)
  <2>1. CASE i = Len(commandThreads) + 1
    BY <1>8, <1>11, <1>12, <2>1
  <2>2. CASE i # Len(commandThreads) + 1
    <3>1. i \in 1 .. Len(commandThreads)
      BY <1>11, <2>2
    <3>. QED
      BY <1>11, <3>1 DEF TextsInv, ThreadsInv
  <2>. QED
    BY <2>1, <2>2
<1>15. ThreadsInv'
  BY <1>10, <1>13, <1>14 DEF ThreadsInv
<1>. QED
  BY <1>1, <1>6, <1>15 DEF TextsInv, RegistryInv, LineInv

LEMMA JoinTexts == CliInv /\ TextsInv /\ Join => TextsInv'
<1>. SUFFICES ASSUME CliInv, TextsInv, Join PROVE TextsInv'
  OBVIOUS
<1>1. /\ outcome = "none" /\ Top.state = "waiting" /\ IsFrame(Top) /\ FrameTexts(Top)
      /\ UNCHANGED <<editor, registry>> /\ commandThreads' = Front(commandThreads)
      /\ IsSequence(commandThreads) /\ Nested(frames, commandThreads, TRUE)
  BY Running, RunningTexts DEF Join, InState, Runs
<1>2. PICK state, result : /\ state = (IF Top.more THEN "line" ELSE "ended")
                           /\ result = (IF StopRequested THEN "interrupted" ELSE TopThread.result)
  OBVIOUS
<1>3. PICK g, f : g = [Top EXCEPT !.state = state] /\ f = [g EXCEPT !.result = result]
  OBVIOUS
<1>4. /\ IsFrame(g) /\ g.state = state /\ g.input = Top.input /\ g.lines = Top.lines
      /\ g.text = Top.text
  BY <1>1, <1>3, FrameSet DEF IsFrame
<1>5. f.state # "listening" /\ f.input = Top.input /\ f.lines = Top.lines /\ f.text = Top.text
  BY <1>2, <1>3, <1>4, FrameSet
<1>6. FrameTexts(f) /\ SetTop(f)
  BY <1>1, <1>2, <1>3, <1>5 DEF FrameTexts, Join
<1>7. FramesInv'
  BY <1>1, <1>6, TopTexts DEF TextsInv
<1>8. ThreadsInv'
  <2>1. commandThreads # <<>>
    BY <1>1, Innermost DEF Top
  <2>2. PICK ts : ts = Front(commandThreads)
    OBVIOUS
  <2>3. /\ Len(commandThreads) \in Nat /\ Len(ts) = Len(commandThreads) - 1
        /\ \A i \in 1 .. Len(commandThreads) - 1 : ts[i] = commandThreads[i]
    BY <1>1, <2>1, <2>2, Popped
  <2>4. ASSUME NEW i \in 1 .. Len(ts) PROVE IsList(ts[i].arguments)
    <3>1. i \in 1 .. Len(commandThreads) - 1 /\ i \in 1 .. Len(commandThreads)
      BY <2>3
    <3>. QED
      BY <2>3, <3>1 DEF TextsInv, ThreadsInv
  <2>. QED
    BY <1>1, <2>2, <2>4 DEF ThreadsInv
<1>9. seen'.ran = seen.ran /\ seen'.draft = seen.draft
  <2>1. PICK count : seen' = [seen EXCEPT !.interrupted = count]
    <3>1. PICK count : count = (IF StopRequested THEN seen.interrupted + 1 ELSE seen.interrupted)
      OBVIOUS
    <3>. QED
      BY <3>1 DEF Join
  <2>. QED
    BY <2>1, SeenSet DEF CliInv
<1>. QED
  BY <1>1, <1>7, <1>8, <1>9 DEF TextsInv, RegistryInv, LineInv

LEMMA LineEndsTexts == CliInv /\ TextsInv /\ LineEnds => TextsInv'
<1>. SUFFICES ASSUME CliInv, TextsInv, LineEnds PROVE TextsInv'
  OBVIOUS
<1>1. /\ outcome = "none" /\ Top.state = "ended" /\ IsFrame(Top) /\ FrameTexts(Top)
      /\ registry' = registry /\ IsEditor(editor) /\ CursorIn(editor)
      /\ Remembers(editor, seen.ran, seen.draft) /\ IsSequence(seen.ran)
  BY Running, RunningTexts DEF LineEnds, InState, Runs, Remembers, Holds
<1>2. FramesInv' /\ ThreadsInv'
  <2>1. CASE Top.result = "quit"
    <3>1. PICK h : h = editor'.history
      OBVIOUS
    <3>2. ReturnFrom("quit", h)
      BY <2>1, <3>1 DEF LineEnds
    <3>. QED
      BY <1>1, <3>2, ReturnTexts
  <2>2. CASE Top.result # "quit"
    <3>1. PICK f : f = [Top EXCEPT !.state = "next"]
      OBVIOUS
    <3>2. f.state = "next" /\ f.input = Top.input /\ f.lines = Top.lines /\ f.text = Top.text
      BY <1>1, <3>1, FrameSet
    <3>3. FrameTexts(f) /\ SetTop(f) /\ UNCHANGED commandThreads
      BY <1>1, <2>2, <3>1, <3>2 DEF LineEnds, FrameTexts
    <3>. QED
      BY <1>1, <3>3, TopTexts DEF TextsInv, ThreadsInv
  <2>. QED
    BY <2>1, <2>2
<1>3. editor'.buffer = editor.buffer /\ editor'.cursor = editor.cursor
  <2>1. PICK after, count :
            /\ after = (IF Top.input = <<>> THEN editor.history
                        ELSE Append(editor.history, [input |-> Top.input, status |-> Top.result]))
            /\ count = Len(after) /\ editor' = [editor EXCEPT !.history = after, !.idx = count]
    BY Zenon DEF LineEnds, Remembered
  <2>2. PICK mid : mid = [editor EXCEPT !.history = after]
    OBVIOUS
  <2>3. mid = [buffer |-> editor.buffer, cursor |-> editor.cursor, history |-> after,
               idx |-> editor.idx, stored |-> editor.stored, tabs |-> editor.tabs]
    BY <1>1, <2>2 DEF IsEditor
  <2>4. editor' = [mid EXCEPT !.idx = count]
    BY <2>1, <2>2
  <2>. QED
    BY <2>3, <2>4
<1>4. PICK e : e = [input |-> Top.input, status |-> Top.result]
  OBVIOUS
<1>5. PICK ran : ran = (IF Top.input = <<>> THEN seen.ran ELSE Append(seen.ran, e))
  OBVIOUS
<1>6. seen'.ran = ran /\ seen'.draft = seen.draft
  <2>1. seen' = [seen EXCEPT !.ran = ran]
    BY <1>4, <1>5 DEF LineEnds
  <2>. QED
    BY <2>1, SeenSet DEF CliInv
<1>7. AreTexts(ran, seen.draft)
  <2>1. AreTexts(seen.ran, seen.draft)
    BY DEF TextsInv, LineInv
  <2>2. CASE Top.input = <<>>
    BY <1>5, <2>1, <2>2
  <2>3. CASE Top.input # <<>>
    <3>1. /\ Len(ran) = Len(seen.ran) + 1 /\ ran[Len(seen.ran) + 1] = e
          /\ \A i \in 1 .. Len(seen.ran) : ran[i] = seen.ran[i]
          /\ Len(seen.ran) \in Nat
      BY <1>1, <1>5, <2>3, Pushed DEF IsSequence
    <3>2. IsSequence(e.input)
      BY <1>1, <1>4 DEF FrameTexts
    <3>3. ASSUME NEW i \in 1 .. Len(ran) PROVE IsSequence(ran[i].input)
      <4>1. CASE i = Len(seen.ran) + 1
        BY <3>1, <3>2, <4>1
      <4>2. CASE i # Len(seen.ran) + 1
        <5>1. i \in 1 .. Len(seen.ran)
          BY <3>1, <4>2
        <5>. QED
          BY <2>1, <3>1, <5>1 DEF AreTexts
      <4>. QED
        BY <4>1, <4>2
    <3>. QED
      BY <2>1, <3>3 DEF AreTexts
  <2>. QED
    BY <2>2, <2>3
<1>. QED
  BY <1>1, <1>2, <1>3, <1>6, <1>7 DEF TextsInv, RegistryInv, LineInv, CursorIn

LEMMA FileEndsTexts == CliInv /\ TextsInv /\ FileEnds => TextsInv'
<1>. SUFFICES ASSUME CliInv, TextsInv, FileEnds PROVE TextsInv'
  OBVIOUS
<1>1. /\ outcome = "none" /\ Top.state = "next" /\ UNCHANGED <<editor, registry, seen>>
  BY DEF FileEnds, InState, Runs
<1>2. PICK h : h = editor.history
  OBVIOUS
<1>3. ReturnFrom("done", h)
  BY <1>2 DEF FileEnds
<1>4. FramesInv' /\ ThreadsInv'
  BY <1>1, <1>3, ReturnTexts
<1>. QED
  BY <1>1, <1>4 DEF TextsInv, RegistryInv, LineInv

\* A command that leaves the identifiers, the line and what ran as they are
LEMMA QuietCommandTexts ==
    ASSUME CliInv, TextsInv, outcome = "none", Top.state = "waiting", NEW result,
           EndCommand(result), UNCHANGED frames, seen'.ran = seen.ran, seen'.draft = seen.draft,
           CursorIn(editor')
    PROVE  RegistryInv' => TextsInv'
<1>1. ThreadsInv'
  BY CommandTexts DEF TextsInv
<1>. QED
  BY <1>1 DEF TextsInv, FramesInv, LineInv

LEMMA WorkTexts == CliInv /\ TextsInv /\ Work => TextsInv'
<1>. SUFFICES ASSUME CliInv, TextsInv, Work PROVE TextsInv'
  OBVIOUS
<1>1. PICK result : EndCommand(result)
  BY DEF Work
<1>2. CursorIn(editor') /\ RegistryInv'
  BY DEF Work, TextsInv, LineInv, RegistryInv, CursorIn
<1>. QED
  BY <1>1, <1>2, QuietCommandTexts DEF Work

LEMMA QuitTexts == CliInv /\ TextsInv /\ Quit => TextsInv'
<1>. SUFFICES ASSUME CliInv, TextsInv, Quit PROVE TextsInv'
  OBVIOUS
<1>1. /\ outcome = "none" /\ Top.state = "waiting" /\ UNCHANGED <<frames, registry>>
  BY DEF Quit, InnermostRuns
<1>2. PICK result, quits : EndCommand(result) /\ seen' = [seen EXCEPT !.quitting = quits]
  BY DEF Quit
<1>3. seen'.ran = seen.ran /\ seen'.draft = seen.draft
  BY <1>2, SeenSet DEF CliInv
<1>4. CursorIn(editor')
  BY <1>1, Running, RunningTexts, LineEdits DEF Quit
<1>5. RegistryInv'
  BY <1>1 DEF TextsInv, RegistryInv
<1>. QED
  BY <1>1, <1>2, <1>3, <1>4, <1>5, QuietCommandTexts

LEMMA HistoryTexts == CliInv /\ TextsInv /\ History => TextsInv'
<1>. SUFFICES ASSUME CliInv, TextsInv, History PROVE TextsInv'
  OBVIOUS
<1>1. /\ outcome = "none" /\ Top.state = "waiting" /\ UNCHANGED <<frames, registry>>
      /\ EndCommand("done") /\ IsEditor(editor) /\ CursorIn(editor)
  BY Running, RunningTexts DEF History, InnermostRuns
<1>2. RegistryInv'
  BY <1>1 DEF TextsInv, RegistryInv
<1>3. CASE ~Option("-c")
  <2>1. editor' = editor /\ seen' = seen
    BY <1>3 DEF History
  <2>. QED
    BY <1>1, <1>2, <2>1, QuietCommandTexts
<1>4. CASE Option("-c")
  <2>1. PICK none : none = <<>> /\ Len(none) = 0
    BY NoLetter
  <2>2. seen' = [seen EXCEPT !.ran = none] /\ editor' = [editor EXCEPT !.history = none, !.idx = 0]
    BY <1>4, <2>1 DEF History
  <2>3. seen'.ran = none /\ seen'.draft = seen.draft
    BY <2>2, SeenSet DEF CliInv
  <2>4. PICK mid : mid = [editor EXCEPT !.history = none]
    OBVIOUS
  <2>5. mid = [buffer |-> editor.buffer, cursor |-> editor.cursor, history |-> none,
               idx |-> editor.idx, stored |-> editor.stored, tabs |-> editor.tabs]
    BY <1>1, <2>4 DEF IsEditor
  <2>6. editor'.buffer = editor.buffer /\ editor'.cursor = editor.cursor
    BY <2>2, <2>4, <2>5
  <2>7. LineInv'
    BY <1>1, <2>1, <2>3, <2>6 DEF TextsInv, LineInv, AreTexts, CursorIn
  <2>8. ThreadsInv'
    BY <1>1, CommandTexts DEF TextsInv
  <2>. QED
    BY <1>1, <1>2, <2>7, <2>8 DEF TextsInv, FramesInv
<1>. QED
  BY <1>3, <1>4

LEMMA SigintTexts == CliInv /\ TextsInv /\ Sigint => TextsInv'
<1>. SUFFICES ASSUME CliInv, TextsInv, Sigint PROVE TextsInv'
  OBVIOUS
<1>1. /\ outcome = "none" /\ UNCHANGED <<commandThreads, registry>> /\ IsFrame(Top)
      /\ FrameTexts(Top) /\ IsEditor(editor)
  BY Running, RunningTexts DEF Sigint
<1>2. seen'.ran = seen.ran /\ seen'.draft = seen.draft
  BY SeenSet DEF CliInv, Sigint
<1>3. CASE Top.state = "listening"
  <2>1. PICK cut, f : cut = ~Top.user /\ f = [Top EXCEPT !.cut = cut]
    OBVIOUS
  <2>2. editor' = ClearReadBuffer(editor) /\ SetTop(f)
    BY <1>3, <2>1 DEF Sigint
  <2>3. /\ f.input = Top.input /\ f.lines = Top.lines /\ f.text = Top.text
        /\ f.state = Top.state /\ f.user = Top.user
    BY <1>1, <2>1, FrameSet
  <2>4. FrameTexts(f)
    BY <1>1, <2>3 DEF FrameTexts
  <2>5. FramesInv'
    BY <1>1, <2>2, <2>4, TopTexts DEF TextsInv
  <2>6. CursorIn(editor')
    BY <1>1, <2>2, LineEdits
  <2>. QED
    BY <1>1, <1>2, <2>5, <2>6 DEF TextsInv, ThreadsInv, RegistryInv, LineInv
<1>4. CASE Top.state # "listening"
  <2>1. UNCHANGED <<frames, editor>>
    BY <1>4 DEF Sigint
  <2>. QED
    BY <1>1, <1>2, <2>1 DEF TextsInv, FramesInv, ThreadsInv, RegistryInv, LineInv
<1>. QED
  BY <1>3, <1>4

LEMMA RequestStopTexts == CliInv /\ TextsInv /\ RequestStop => TextsInv'
<1>. SUFFICES ASSUME CliInv, TextsInv, RequestStop PROVE TextsInv'
  OBVIOUS
<1>1. /\ commandThreads # <<>> /\ UNCHANGED <<frames, editor, registry, seen>>
      /\ Nested(frames, commandThreads, outcome = "none") /\ IsSequence(commandThreads)
  BY DEF RequestStop, CliInv, HandlerInv, ReadersInv, Nested
<1>2. PICK yes, th : yes = TRUE /\ th = [TopThread EXCEPT !.stop = yes]
  OBVIOUS
<1>3. IsThread(TopThread)
  BY <1>1, LastThread DEF TopThread
<1>4. th.arguments = TopThread.arguments
  BY <1>2, <1>3 DEF IsThread
<1>5. SetThread(th)
  BY <1>2 DEF RequestStop
<1>6. ThreadsInv'
  BY <1>1, <1>4, <1>5, ThreadTexts DEF TextsInv
<1>. QED
  BY <1>1, <1>6 DEF TextsInv, FramesInv, RegistryInv, LineInv

\* The arguments of alias and of set
LEMMA ArgumentText ==
    ASSUME IsList(TopThread.arguments), Deletes \/ Defines
    PROVE  IsSequence(Argument) /\ IsSequence(TopThread.arguments[2])
<1>1. PICK args : args = TopThread.arguments /\ Len(args) = 2
  BY DEF Deletes, Defines
<1>2. IsSequence(args[1]) /\ IsSequence(args[2])
  BY <1>1 DEF IsList
<1>3. Argument = args[1] \/ Argument = args[2]
  BY <1>1 DEF Argument
<1>. QED
  BY <1>1, <1>2, <1>3

\* insert and erase
LEMMA TrieTexts ==
    ASSUME NEW trie, \A node \in DOMAIN trie : IsSequence(node), NEW word, IsSequence(word)
    PROVE  /\ \A node \in DOMAIN TrieInsert(trie, word) : IsSequence(node)
           /\ \A node \in DOMAIN TrieErase(trie, word) : IsSequence(node)
<1>1. ASSUME NEW node \in TrieNodes(word) PROVE IsSequence(node)
  <2>1. PICK n \in 1 .. Len(word) : node = SubSeq(word, 1, n)
    BY DEF TrieNodes
  <2>2. n \in Int
    BY DEF IsSequence
  <2>. QED
    BY <2>1, <2>2, Cut
<1>2. DOMAIN TrieInsert(trie, word) = DOMAIN trie \cup TrieNodes(word)
  BY DEF TrieInsert
<1>3. DOMAIN TrieErase(trie, word) \subseteq DOMAIN trie
  BY DEF TrieErase
<1>. QED
  BY <1>1, <1>2, <1>3

\* A map of texts stays one.
LEMMA AssignedTexts ==
    ASSUME NEW map, \A x \in DOMAIN map : IsSequence(map[x]),
           NEW entries, \A x \in DOMAIN entries : IsSequence(entries[x]), NEW new,
           new = Assigned(map, entries)
    PROVE  /\ DOMAIN new = DOMAIN map \cup DOMAIN entries
           /\ \A x \in DOMAIN new : IsSequence(new[x])
  BY DEF Assigned

\* The registry with one field changed
LEMMA RegistrySet ==
    ASSUME NEW reg, IsRegistry(reg), NEW v
    PROVE  /\ [reg EXCEPT !.aliases = v]
              = [commands |-> reg.commands, aliases |-> v, variables |-> reg.variables,
                 identifiers |-> reg.identifiers]
           /\ [reg EXCEPT !.variables = v]
              = [commands |-> reg.commands, aliases |-> reg.aliases, variables |-> v,
                 identifiers |-> reg.identifiers]
           /\ [reg EXCEPT !.identifiers = v]
              = [commands |-> reg.commands, aliases |-> reg.aliases,
                 variables |-> reg.variables, identifiers |-> v]
  BY DEF IsRegistry

LEMMA AliasTexts == CliInv /\ TextsInv /\ Alias => TextsInv'
<1>. SUFFICES ASSUME CliInv, TextsInv, Alias PROVE TextsInv'
  OBVIOUS
<1>1. /\ outcome = "none" /\ Top.state = "waiting" /\ UNCHANGED <<frames, editor>>
      /\ IsRegistry(registry) /\ RegistryTexts(registry) /\ CursorIn(editor)
      /\ IsList(TopThread.arguments)
  BY RunningTexts DEF Alias, InnermostRuns, TextsInv, RegistryInv
<1>2. PICK result : EndCommand(result)
  BY DEF Alias, AddAlias, RemoveAlias
<1>3. seen'.ran = seen.ran /\ seen'.draft = seen.draft
  <2>1. PICK names : seen' = seen \/ seen' = [seen EXCEPT !.shadowed = names]
    BY DEF Alias
  <2>. QED
    BY <2>1, SeenSet DEF CliInv
<1>. DEFINE Texts(ids, aliases) == /\ \A name \in DOMAIN ids : IsSequence(name)
                                   /\ \A name \in DOMAIN aliases : IsSequence(aliases[name])
            Set(ids, aliases) ==
                registry' = [registry EXCEPT !.identifiers = ids, !.aliases = aliases]
<1>4. ASSUME NEW ids, NEW aliases, Texts(ids, aliases), Set(ids, aliases) PROVE RegistryInv'
  <2>1. PICK reg : reg = [registry EXCEPT !.identifiers = ids]
    OBVIOUS
  <2>2. IsRegistry(reg) /\ reg.variables = registry.variables /\ reg.identifiers = ids
    BY <1>1, <2>1, RegistrySet DEF IsRegistry
  <2>3. registry' = [reg EXCEPT !.aliases = aliases]
    BY <1>4, <2>1
  <2>4. /\ IsRegistry(registry') /\ registry'.variables = registry.variables
        /\ registry'.identifiers = ids /\ registry'.aliases = aliases
    BY <2>2, <2>3, RegistrySet DEF IsRegistry
  <2>. QED
    BY <1>1, <1>4, <2>4 DEF RegistryInv, RegistryTexts
<1>5. CASE UNCHANGED registry
  <2>1. RegistryInv'
    BY <1>5 DEF TextsInv, RegistryInv
  <2>. QED
    BY <1>1, <1>2, <1>3, <2>1, QuietCommandTexts DEF CursorIn
<1>6. CASE Defines /\ AddAlias(Argument, TopThread.arguments[2])
  <2>1. PICK alias, value : /\ alias = Argument /\ value = TopThread.arguments[2]
                            /\ IsSequence(alias) /\ IsSequence(value)
    BY <1>1, <1>6, ArgumentText
  <2>2. PICK ids, aliases :
            /\ ids = (IF alias \in DOMAIN registry.aliases THEN registry.identifiers
                      ELSE TrieInsert(registry.identifiers, alias))
            /\ aliases = Assigned(registry.aliases, [a \in {alias} |-> value])
    OBVIOUS
  <2>3. Set(ids, aliases)
    BY <1>1, <1>6, <2>1, <2>2 DEF AddAlias, IsRegistry
  <2>4. \A name \in DOMAIN ids : IsSequence(name)
    BY <1>1, <2>1, <2>2, TrieTexts DEF RegistryTexts
  <2>5. \A name \in DOMAIN aliases : IsSequence(aliases[name])
    <3>1. PICK new : new = [a \in {alias} |-> value]
      OBVIOUS
    <3>2. \A x \in DOMAIN new : IsSequence(new[x])
      BY <2>1, <3>1
    <3>3. PICK old : old = registry.aliases /\ \A x \in DOMAIN old : IsSequence(old[x])
      BY <1>1 DEF RegistryTexts
    <3>4. aliases = Assigned(old, new)
      BY <2>2, <3>1, <3>3
    <3>. QED
      BY <3>2, <3>3, <3>4, AssignedTexts
  <2>6. Texts(ids, aliases)
    BY <2>4, <2>5
  <2>7. RegistryInv'
    <3>. HIDE DEF Texts, Set
    <3>. QED
      BY <1>4, <2>3, <2>6
  <2>. QED
    BY <1>1, <1>2, <1>3, <2>7, QuietCommandTexts DEF CursorIn
<1>7. CASE Deletes /\ RemoveAlias(Argument) /\ ~UNCHANGED registry
  <2>1. PICK alias : alias = Argument /\ IsSequence(alias)
    BY <1>1, <1>7, ArgumentText
  <2>2. PICK ids, aliases :
            /\ ids = TrieErase(registry.identifiers, alias)
            /\ aliases = [a \in DOMAIN registry.aliases \ {alias} |-> registry.aliases[a]]
    OBVIOUS
  <2>3. Set(ids, aliases)
    BY <1>1, <1>7, <2>1, <2>2 DEF RemoveAlias, IsRegistry
  <2>4. \A name \in DOMAIN ids : IsSequence(name)
    BY <1>1, <2>1, <2>2, TrieTexts DEF RegistryTexts
  <2>5. \A name \in DOMAIN aliases : IsSequence(aliases[name])
    BY <1>1, <2>2 DEF RegistryTexts
  <2>6. Texts(ids, aliases)
    BY <2>4, <2>5
  <2>7. RegistryInv'
    <3>. HIDE DEF Texts, Set
    <3>. QED
      BY <1>4, <2>3, <2>6
  <2>. QED
    BY <1>1, <1>2, <1>3, <2>7, QuietCommandTexts DEF CursorIn
<1>. QED
  BY <1>5, <1>6, <1>7, Zenon DEF Alias

\* The variables are others.
LEMMA VariablesTexts ==
    ASSUME RegistryInv, NEW vars, \A name \in DOMAIN vars : IsSequence(name) /\ IsSequence(vars[name]),
           registry' = [registry EXCEPT !.variables = vars]
    PROVE  RegistryInv'
<1>1. /\ IsRegistry(registry') /\ registry'.variables = vars
      /\ registry'.identifiers = registry.identifiers /\ registry'.aliases = registry.aliases
  BY RegistrySet DEF RegistryInv, IsRegistry
<1>. QED
  BY <1>1 DEF RegistryInv, RegistryTexts

LEMMA SetVariableTexts == CliInv /\ TextsInv /\ SetVariable => TextsInv'
<1>. SUFFICES ASSUME CliInv, TextsInv, SetVariable PROVE TextsInv'
  OBVIOUS
<1>1. outcome = "none" /\ Top.state = "waiting" /\ UNCHANGED <<frames, editor, seen>>
  BY Zenon DEF SetVariable, InnermostRuns
<1>2. /\ RegistryInv /\ RegistryTexts(registry) /\ CursorIn(editor) /\ IsList(TopThread.arguments)
  BY <1>1, RunningTexts DEF TextsInv
<1>3. PICK result : EndCommand(result)
  BY Zenon DEF SetVariable
<1>4. PICK old : old = registry.variables /\ \A v \in DOMAIN old : IsSequence(v) /\ IsSequence(old[v])
  BY <1>2 DEF RegistryTexts
<1>5. RegistryInv'
  <2>1. CASE UNCHANGED registry
    BY <1>2, <2>1 DEF RegistryInv
  <2>2. CASE /\ Deletes
             /\ registry' = [registry EXCEPT
                    !.variables = [v \in DOMAIN registry.variables \ {Argument} |-> registry.variables[v]]]
    <3>1. PICK name, vars : name = Argument /\ vars = [v \in DOMAIN old \ {name} |-> old[v]]
      OBVIOUS
    <3>2. registry' = [registry EXCEPT !.variables = vars]
      BY <1>4, <2>2, <3>1
    <3>3. \A v \in DOMAIN vars : IsSequence(v) /\ IsSequence(vars[v])
      BY <1>4, <3>1
    <3>. QED
      BY <1>2, <3>2, <3>3, VariablesTexts
  <2>3. CASE /\ Defines
             /\ registry' = [registry EXCEPT
                    !.variables = Assigned(registry.variables,
                                           [v \in {Argument} |-> TopThread.arguments[2]])]
    <3>1. PICK name, value : /\ name = Argument /\ value = TopThread.arguments[2]
                             /\ IsSequence(name) /\ IsSequence(value)
      BY <1>2, <2>3, ArgumentText
    <3>2. PICK new : new = [v \in {name} |-> value]
      OBVIOUS
    <3>3. /\ DOMAIN new = {name} /\ \A v \in DOMAIN new : IsSequence(new[v])
          /\ \A v \in DOMAIN old : IsSequence(old[v])
      BY <1>4, <3>1, <3>2
    <3>4. PICK vars : vars = Assigned(old, new)
      OBVIOUS
    <3>5. DOMAIN vars = DOMAIN old \cup {name} /\ \A v \in DOMAIN vars : IsSequence(vars[v])
      BY <3>3, <3>4, AssignedTexts
    <3>6. registry' = [registry EXCEPT !.variables = vars]
      BY <1>4, <2>3, <3>1, <3>2, <3>4
    <3>7. \A v \in DOMAIN vars : IsSequence(v) /\ IsSequence(vars[v])
      BY <1>4, <3>1, <3>5
    <3>. QED
      BY <1>2, <3>6, <3>7, VariablesTexts
  <2>. QED
    BY <2>1, <2>2, <2>3, Zenon DEF SetVariable
<1>. QED
  BY <1>1, <1>2, <1>3, <1>5, QuietCommandTexts DEF CursorIn

\* The names and the values of a dofile's variables
LEMMA GivenTexts ==
    ASSUME NEW file, IsSequence(file.names) /\ \A i \in 1 .. Len(file.names) : IsSequence(file.names[i]),
           NEW arguments, IsList(arguments), VariablesFor(file, arguments).accepted, NEW vars,
           vars = VariablesFor(file, arguments).values
    PROVE  \A name \in DOMAIN vars : IsSequence(name) /\ IsSequence(vars[name])
<1>. DEFINE Number(i) == <<ToString(i)>>
            named == file.names # NoNames
            Name(i) == IF named THEN file.names[i] ELSE Number(i)
            numbers == {Number(i) : i \in DOMAIN arguments}
            names == {file.names[i] : i \in {j \in DOMAIN arguments : named}}
            Which(k) == CHOOSE i \in DOMAIN arguments : k \in {Number(i), Name(i)}
<1>1. PICK n : n = Len(arguments) /\ n \in Nat /\ DOMAIN arguments = 1 .. n
  BY DEF IsList, IsSequence
<1>2. vars = [k \in numbers \cup names |-> arguments[Which(k)]]
  BY Zenon DEF VariablesFor
<1>3. ~named \/ n = Len(file.names)
  BY <1>1, Zenon DEF VariablesFor
<1>4. \A i \in DOMAIN arguments : IsSequence(Number(i)) /\ (named => IsSequence(file.names[i]))
  <2>1. \A i \in DOMAIN arguments : IsSequence(Number(i))
    BY OneLetter
  <2>. HIDE DEF Number, named
  <2>. QED
    BY <1>1, <1>3, <2>1
<1>5. ASSUME NEW k \in numbers \cup names
      PROVE  IsSequence(k) /\ \E i \in DOMAIN arguments : k \in {Number(i), Name(i)}
  <2>1. CASE k \in numbers
    <3>1. PICK i \in DOMAIN arguments : k = Number(i)
      BY <2>1
    <3>. QED
      BY <1>4, <3>1
  <2>2. CASE k \in names
    <3>1. PICK i \in DOMAIN arguments : named /\ k = file.names[i]
      BY <2>2
    <3>. QED
      BY <1>4, <3>1
  <2>. QED
    BY <1>5, <2>1, <2>2
<1>6. ASSUME NEW k \in numbers \cup names PROVE Which(k) \in DOMAIN arguments
  <2>1. \E i \in DOMAIN arguments : k \in {Number(i), Name(i)}
    BY <1>5
  <2>. HIDE DEF Number, Name
  <2>. QED
    BY <2>1
<1>. HIDE DEF numbers, names, Which
<1>7. ASSUME NEW k \in DOMAIN vars PROVE IsSequence(k) /\ IsSequence(vars[k])
  <2>1. k \in numbers \cup names /\ vars[k] = arguments[Which(k)]
    BY <1>2
  <2>2. PICK i \in DOMAIN arguments : i = Which(k)
    BY <1>6, <2>1
  <2>. QED
    BY <1>1, <1>5, <2>1, <2>2 DEF IsList
<1>. QED
  BY <1>7

\* The texts of the dofiles
LEMMA FileTexts ==
    ASSUME NEW name \in DOMAIN Files
    PROVE  IsList(Files[name].names) /\ IsList(Files[name].lines)
<1>1. ASSUME NEW l \in Seq(Seq(STRING)) PROVE IsList(l)
  <2>1. IsSequence(l) /\ \A i \in 1 .. Len(l) : l[i] \in Seq(STRING)
    BY IsSequenceIn
  <2>. QED
    BY <2>1, IsSequenceIn DEF IsList
<1>2. Files[name] \in [names : Seq(Seq(STRING)), lines : Seq(Seq(STRING))]
  BY CommandLineAssumption
<1>. QED
  BY <1>1, <1>2

LEMMA NewFrameTexts ==
    ASSUME NEW user, NEW lines, IsList(lines) PROVE FrameTexts(Frame(user, lines))
  BY NoLetter DEF Frame, FrameTexts

LEMMA SourceDofileTexts == CliInv /\ TextsInv /\ SourceDofile => TextsInv'
<1>. SUFFICES ASSUME CliInv, TextsInv, SourceDofile PROVE TextsInv'
  OBVIOUS
<1>1. /\ outcome = "none" /\ Top.state = "waiting" /\ UNCHANGED <<editor, seen>>
      /\ RegistryInv /\ RegistryTexts(registry) /\ CursorIn(editor) /\ IsList(TopThread.arguments)
      /\ Nested(frames, commandThreads, TRUE) /\ IsSequence(frames)
  BY Running, RunningTexts DEF SourceDofile, InnermostRuns, TextsInv, Nested
<1>2. PICK args, name, given :
          args = TopThread.arguments /\ name = Head(args \o << <<>> >>) /\ given = Tail(args)
  OBVIOUS
<1>3. PICK vars : vars = VariablesFor(Files[name], given)
  OBVIOUS
<1>4. CASE EndCommand("error") /\ UNCHANGED <<frames, registry>>
  <2>1. RegistryInv'
    BY <1>1, <1>4 DEF RegistryInv
  <2>. QED
    BY <1>1, <1>4, <2>1, QuietCommandTexts DEF CursorIn
<1>5. CASE /\ name \in DOMAIN Files /\ vars.accepted
           /\ registry' = [registry EXCEPT !.variables = Assigned(registry.variables, vars.values)]
           /\ \/ EndCommand("error") /\ UNCHANGED frames
              \/ frames' = Append(frames, Frame(FALSE, Files[name].lines)) /\ UNCHANGED commandThreads
  <2>1. args # <<>>
    <3>1. SUFFICES ASSUME args = <<>> PROVE FALSE
      OBVIOUS
    <3>2. name = <<>>
      BY <1>2, <3>1
    <3>. QED
      BY <1>5, <3>2, CommandLineAssumption
  <2>2. IsList(given)
    BY <1>1, <1>2, <2>1, ListTail
  <2>3. PICK file : file = Files[name] /\ IsList(file.names) /\ IsList(file.lines)
    BY <1>5, FileTexts
  <2>4. PICK new : new = VariablesFor(file, given).values
    OBVIOUS
  <2>5. \A v \in DOMAIN new : IsSequence(v) /\ IsSequence(new[v])
    BY <1>3, <1>5, <2>2, <2>3, <2>4, GivenTexts DEF IsList
  <2>6. PICK old : old = registry.variables /\ \A v \in DOMAIN old : IsSequence(v) /\ IsSequence(old[v])
    BY <1>1 DEF RegistryTexts
  <2>7. PICK all : all = Assigned(old, new)
    OBVIOUS
  <2>8. DOMAIN all = DOMAIN old \cup DOMAIN new /\ \A v \in DOMAIN all : IsSequence(all[v])
    <3>1. /\ \A v \in DOMAIN new : IsSequence(new[v])
          /\ \A v \in DOMAIN old : IsSequence(old[v])
      BY <2>5, <2>6
    <3>. QED
      BY <2>7, <3>1, AssignedTexts
  <2>9. RegistryInv'
    <3>1. \A v \in DOMAIN all : IsSequence(v) /\ IsSequence(all[v])
      BY <2>5, <2>6, <2>8
    <3>2. registry' = [registry EXCEPT !.variables = all]
      BY <1>3, <1>5, <2>3, <2>4, <2>6, <2>7
    <3>. QED
      BY <1>1, <3>1, <3>2, VariablesTexts
  <2>10. CASE EndCommand("error") /\ UNCHANGED frames
    BY <1>1, <2>9, <2>10, QuietCommandTexts DEF CursorIn
  <2>11. CASE frames' = Append(frames, Frame(FALSE, Files[name].lines)) /\ UNCHANGED commandThreads
    <3>1. PICK no, f : no = FALSE /\ f = Frame(no, file.lines) /\ FrameTexts(f)
      BY <2>3, NewFrameTexts
    <3>2. frames' = Append(frames, f)
      BY <2>3, <2>11, <3>1
    <3>3. /\ Len(frames') = Len(frames) + 1 /\ frames'[Len(frames) + 1] = f
          /\ \A i \in 1 .. Len(frames) : frames'[i] = frames[i]
          /\ Len(frames) \in Nat
      BY <1>1, <3>2, Pushed DEF IsSequence
    <3>4. ASSUME NEW i \in 1 .. Len(frames') PROVE FrameTexts(frames'[i])
      <4>1. CASE i = Len(frames) + 1
        BY <3>1, <3>3, <4>1
      <4>2. CASE i # Len(frames) + 1
        <5>1. i \in 1 .. Len(frames)
          BY <3>3, <4>2
        <5>. QED
          BY <3>3, <5>1 DEF TextsInv, FramesInv
      <4>. QED
        BY <4>1, <4>2
    <3>5. FramesInv'
      BY <3>4 DEF FramesInv
    <3>. QED
      BY <1>1, <2>9, <2>11, <3>5 DEF TextsInv, ThreadsInv, LineInv
  <2>. QED
    BY <1>5, <2>10, <2>11
<1>. QED
  BY <1>2, <1>3, <1>4, <1>5, Zenon DEF SourceDofile

LEMMA InitTexts == CliInit => TextsInv
<1>. SUFFICES ASSUME CliInit PROVE TextsInv
  OBVIOUS
<1>1. FramesInv
  <2>1. PICK f : frames = <<f>> /\ FrameTexts(f)
    <3>1. CASE frames = <<Frame(TRUE, <<>>)>>
      <4>1. IsList(<<>>)
        BY NoLetter DEF IsList
      <4>. QED
        BY <3>1, <4>1, NewFrameTexts
    <3>2. CASE \E f \in MainFiles : frames = <<Frame(FALSE, Files[f].lines)>>
      <4>1. PICK f \in MainFiles : frames = <<Frame(FALSE, Files[f].lines)>>
        BY <3>2
      <4>2. IsList(Files[f].lines)
        BY FileTexts, CommandLineAssumption
      <4>. QED
        BY <4>1, <4>2, NewFrameTexts
    <3>. QED
      BY <3>1, <3>2 DEF CliInit
  <2>. QED
    BY <2>1 DEF FramesInv
<1>2. ThreadsInv
  BY NoLetter DEF CliInit, ThreadsInv
<1>3. LineInv
  BY NoLetter DEF CliInit, LineInv, CursorIn, AreTexts, NewEditor, Seen0
<1>4. RegistryInv
  <2>1. registry = Registered
    BY DEF CliInit
  <2>. DEFINE commands == Registered.commands
              aliases == Registered.aliases
              words == commands \cup DOMAIN aliases
  <2>2. /\ IsRegistry(Registered) /\ Registered.variables = <<>>
        /\ Registered.identifiers = TrieOf(words)
    BY Zenon DEF Registered, IsRegistry
  <2>3. ASSUME NEW name \in DOMAIN aliases PROVE IsSequence(aliases[name])
    <3>1. PICK unalias, unset, first, second :
              /\ first = Text("alias -d") /\ second = Text("set -d")
              /\ unalias = Text("unalias") /\ unset = Text("unset")
      BY Zenon
    <3>2. aliases = [alias \in {unalias, unset} |-> IF alias = unalias THEN first ELSE second]
      BY <3>1, Zenon DEF Registered
    <3>3. first \in Seq(STRING) /\ second \in Seq(STRING)
      BY <3>1, StringsAreTexts, Zenon
    <3>4. IsSequence(first) /\ IsSequence(second)
      BY <3>3, IsSequenceIn
    <3>. HIDE DEF aliases
    <3>. QED
      BY <3>2, <3>4
  <2>4. ASSUME NEW node \in DOMAIN Registered.identifiers PROVE IsSequence(node)
    <3>. HIDE DEF words
    <3>1. PICK word \in words : node \in TrieNodes(word)
      BY <2>2 DEF TrieOf
    <3>2. PICK n \in 1 .. Len(word) : node = SubSeq(word, 1, n)
      BY <3>1 DEF TrieNodes
    <3>3. n \in Int
      OBVIOUS
    <3>. QED
      BY <3>2, <3>3, Cut
  <2>5. DOMAIN Registered.variables = {}
    BY <2>2
  <2>. QED
    BY <2>1, <2>2, <2>3, <2>4, <2>5 DEF RegistryInv, RegistryTexts
<1>. QED
  BY <1>1, <1>2, <1>3, <1>4 DEF TextsInv

LEMMA TextsStep == CliInv /\ TextsInv /\ [CliNext]_cliVars => TextsInv'
<1>. SUFFICES ASSUME CliInv, TextsInv, [CliNext]_cliVars PROVE TextsInv'
  OBVIOUS
<1>1. CASE Listen \/ LineRead \/ UnknownCommand \/ Dispatch \/ Join \/ LineEnds \/ FileEnds
  BY <1>1, ListenTexts, LineReadTexts, UnknownCommandTexts, DispatchTexts, JoinTexts, LineEndsTexts,
     FileEndsTexts
<1>2. CASE Command
  BY <1>2, WorkTexts, QuitTexts, HistoryTexts, AliasTexts, SetVariableTexts, SourceDofileTexts
     DEF Command
<1>3. CASE KeyPressed \/ InputEnds \/ Sigint \/ RequestStop
  BY <1>3, KeyPressedTexts, InputEndsTexts, SigintTexts, RequestStopTexts
<1>4. CASE UNCHANGED cliVars
  BY <1>4 DEF cliVars, TextsInv, FramesInv, ThreadsInv, RegistryInv, LineInv
<1>. QED
  BY <1>1, <1>2, <1>3, <1>4 DEF CliNext, CliStep, Rest

-----------------------------------------------------------------------------
(* The trie of identifiers                                                 *)

\* The words that are in it
WordsOf(trie) == {w \in DOMAIN trie : trie[w].isWord}

\* A node for every beginning of a word; erase finds a frequency of 0 only where no word is
\* left below, because a node counts at least the words below it.
TrieInv(trie) ==
    /\ IsFiniteSet(WordsOf(trie))
    /\ \A node \in DOMAIN trie :
           /\ IsSequence(node) /\ Len(node) > 0 /\ TrieNodes(node) \subseteq DOMAIN trie
           /\ trie[node].isWord \in BOOLEAN /\ trie[node].frequency \in Int
           /\ Cardinality(WordsBelow(trie, node)) <= trie[node].frequency

\* The words of a trie are these, and its frequencies count them.
Counts(trie, words) ==
    /\ WordsOf(trie) = words \ {<<>>}
    /\ \A node \in DOMAIN trie :
           /\ trie[node].frequency = Cardinality(WordsBelow(trie, node))
           /\ trie[node].frequency > 0

\* A beginning agrees as far as it goes.
LEMMA PrefixIs ==
    ASSUME NEW p, IsSequence(p), NEW w, IsSequence(w)
    PROVE  IsPrefix(p, w) <=> Len(p) <= Len(w) /\ \A i \in 1 .. Len(p) : p[i] = w[i]
<1>1. PICK n \in Nat, m \in Nat : n = Len(p) /\ m = Len(w)
  BY DEF IsSequence
<1>2. PICK s : s = SubSeq(p, 1, n)
  OBVIOUS
<1>3. PICK t : t = SubSeq(w, 1, n)
  OBVIOUS
<1>4. IsSequence(s) /\ Len(s) = n /\ \A i \in 1 .. n : s[i] = p[i]
  BY <1>2, Cut
<1>5. IsSequence(t) /\ Len(t) = n /\ \A i \in 1 .. n : t[i] = w[i]
  BY <1>3, Cut
<1>6. IsPrefix(p, w) <=> n <= m /\ s = t
  BY <1>1, <1>2, <1>3 DEF IsPrefix
<1>7. s = t <=> \A i \in 1 .. n : s[i] = t[i]
  BY <1>4, <1>5 DEF IsSequence
<1>8. s = t <=> \A i \in 1 .. n : p[i] = w[i]
  BY <1>4, <1>5, <1>7
<1>. QED
  BY <1>1, <1>6, <1>8

\* Two texts that begin each other are one, and a beginning of a beginning is one.
LEMMA PrefixOrder ==
    ASSUME NEW p, IsSequence(p), NEW q, IsSequence(q), NEW w, IsSequence(w)
    PROVE  /\ IsPrefix(p, p)
           /\ IsPrefix(p, q) /\ IsPrefix(q, w) => IsPrefix(p, w)
           /\ IsPrefix(p, q) => Len(p) <= Len(q)
           /\ IsPrefix(p, q) /\ Len(q) <= Len(p) => p = q
<1>1. PICK n \in Nat, m \in Nat, k \in Nat : n = Len(p) /\ m = Len(q) /\ k = Len(w)
  BY DEF IsSequence
<1>2. IsPrefix(p, p) <=> n <= n /\ \A i \in 1 .. n : p[i] = p[i]
  BY <1>1, PrefixIs
<1>3. IsPrefix(p, q) <=> n <= m /\ \A i \in 1 .. n : p[i] = q[i]
  BY <1>1, PrefixIs
<1>4. IsPrefix(q, w) <=> m <= k /\ \A i \in 1 .. m : q[i] = w[i]
  BY <1>1, PrefixIs
<1>5. IsPrefix(p, w) <=> n <= k /\ \A i \in 1 .. n : p[i] = w[i]
  BY <1>1, PrefixIs
<1>6. IsPrefix(p, q) /\ m <= n => p = q
  BY <1>1, <1>3 DEF IsSequence
<1>. QED
  BY <1>1, <1>2, <1>3, <1>4, <1>5, <1>6

\* The nodes on the way to a word
LEMMA NodeIs ==
    ASSUME NEW word, IsSequence(word), NEW node
    PROVE  node \in TrieNodes(word) <=> IsSequence(node) /\ Len(node) > 0 /\ IsPrefix(node, word)
<1>1. PICK m \in Nat : m = Len(word)
  BY DEF IsSequence
<1>2. ASSUME node \in TrieNodes(word)
      PROVE  IsSequence(node) /\ Len(node) > 0 /\ IsPrefix(node, word)
  <2>1. PICK n \in 1 .. m : node = SubSeq(word, 1, n)
    BY <1>1, <1>2 DEF TrieNodes
  <2>2. IsSequence(node) /\ Len(node) = n /\ \A i \in 1 .. n : node[i] = word[i]
    BY <2>1, Cut
  <2>. QED
    BY <1>1, <2>2, PrefixIs
<1>3. ASSUME IsSequence(node), Len(node) > 0, IsPrefix(node, word)
      PROVE  node \in TrieNodes(word)
  <2>1. PICK n \in Nat : n = Len(node)
    BY <1>3 DEF IsSequence
  <2>2. n \in 1 .. m /\ \A i \in 1 .. n : node[i] = word[i]
    BY <1>1, <1>3, <2>1, PrefixIs
  <2>3. PICK t : t = SubSeq(word, 1, n)
    OBVIOUS
  <2>4. IsSequence(t) /\ Len(t) = n /\ \A i \in 1 .. n : t[i] = word[i]
    BY <2>3, Cut
  <2>5. node = t
    BY <1>3, <2>1, <2>2, <2>4 DEF IsSequence
  <2>. QED
    BY <1>1, <2>2, <2>3, <2>5 DEF TrieNodes
<1>. QED
  BY <1>2, <1>3

\* A word is a node on the way to itself, unless it is empty.
LEMMA OwnNode ==
    ASSUME NEW word, IsSequence(word)
    PROVE  /\ word \in TrieNodes(word) <=> word # <<>>
           /\ word # <<>> <=> Len(word) > 0
           /\ <<>> \notin TrieNodes(word)
<1>1. word # <<>> <=> Len(word) > 0
  BY EmptyOrNot DEF IsSequence
<1>2. IsPrefix(word, word)
  BY PrefixOrder
<1>. QED
  BY <1>1, <1>2, NodeIs, NoLetter

\* The words below a node
LEMMA BelowCount ==
    ASSUME NEW trie, IsFiniteSet(WordsOf(trie)), NEW node
    PROVE  /\ IsFiniteSet(WordsBelow(trie, node)) /\ Cardinality(WordsBelow(trie, node)) \in Nat
           /\ WordsBelow(trie, node) = {w \in WordsOf(trie) : IsPrefix(node, w)}
<1>1. WordsBelow(trie, node) = {w \in WordsOf(trie) : IsPrefix(node, w)}
  BY DEF WordsBelow, WordsOf
<1>2. WordsBelow(trie, node) \subseteq WordsOf(trie)
  BY <1>1
<1>3. IsFiniteSet(WordsBelow(trie, node))
  BY <1>2, FS_Subset
<1>. QED
  BY <1>1, <1>3, FS_CardinalityType

\* insert: a word more below the nodes on its way
LEMMA InsertKeeps ==
    ASSUME NEW trie, TrieInv(trie), NEW word, IsSequence(word),
           NEW new, new = TrieInsert(trie, word)
    PROVE  /\ TrieInv(new) /\ WordsOf(new) = WordsOf(trie) \cup ({word} \ {<<>>})
           /\ \A words : Counts(trie, words) /\ word \notin words =>
                            Counts(new, words \cup {word})
<1>. DEFINE F(node) == IF node \in DOMAIN trie THEN trie[node].frequency ELSE 0
            Is(node) == node \in DOMAIN trie /\ trie[node].isWord
            N == TrieNodes(word)
<1>1. /\ DOMAIN new = DOMAIN trie \cup N
      /\ \A node \in DOMAIN new :
             /\ new[node].isWord <=> Is(node) \/ node = word
             /\ new[node].isWord \in BOOLEAN
             /\ new[node].frequency = F(node) + (IF node \in N THEN 1 ELSE 0)
  BY DEF TrieInsert, TrieInv
<1>2. WordsOf(new) = WordsOf(trie) \cup ({word} \ {<<>>})
  <2>1. word \in DOMAIN trie => word # <<>>
    BY OwnNode DEF TrieInv
  <2>2. word \in N <=> word # <<>>
    BY OwnNode
  <2>. HIDE DEF N
  <2>. QED
    BY <1>1, <2>1, <2>2 DEF WordsOf
<1>3. IsFiniteSet(WordsOf(trie)) /\ IsFiniteSet(WordsOf(new))
  <2>1. IsFiniteSet(WordsOf(trie)) /\ IsFiniteSet(WordsOf(trie) \cup {word})
    BY FS_AddElement DEF TrieInv
  <2>2. WordsOf(new) \subseteq WordsOf(trie) \cup {word}
    BY <1>2
  <2>. QED
    BY <2>1, <2>2, FS_Subset
<1>4. ASSUME NEW node \in DOMAIN new
      PROVE  IsSequence(node) /\ Len(node) > 0 /\ TrieNodes(node) \subseteq DOMAIN new
  <2>1. CASE node \in DOMAIN trie
    BY <1>1, <2>1 DEF TrieInv
  <2>2. CASE node \in N
    <3>1. IsSequence(node) /\ Len(node) > 0 /\ IsPrefix(node, word)
      BY <2>2, NodeIs
    <3>2. ASSUME NEW n \in TrieNodes(node) PROVE n \in N
      <4>1. IsSequence(n) /\ Len(n) > 0 /\ IsPrefix(n, node)
        BY <3>1, NodeIs
      <4>2. IsPrefix(n, word)
        BY <3>1, <4>1, PrefixOrder
      <4>. QED
        BY <4>1, <4>2, NodeIs
    <3>. QED
      BY <1>1, <3>1, <3>2
  <2>. QED
    BY <1>1, <2>1, <2>2
<1>5. ASSUME NEW node \in DOMAIN new
      PROVE  WordsBelow(new, node) = WordsBelow(trie, node) \cup (IF node \in N THEN {word} ELSE {})
  <2>1. node \in N <=> IsPrefix(node, word)
    BY <1>4, NodeIs
  <2>2. node \in N => word # <<>>
    BY NoLetter DEF TrieNodes
  <2>3. WordsBelow(new, node) = {w \in WordsOf(new) : IsPrefix(node, w)}
    BY <1>3, BelowCount
  <2>4. WordsBelow(trie, node) = {w \in WordsOf(trie) : IsPrefix(node, w)}
    BY <1>3, BelowCount
  <2>. HIDE DEF N
  <2>. QED
    BY <1>2, <2>1, <2>2, <2>3, <2>4
<1>6. ASSUME NEW node \in DOMAIN new
      PROVE  /\ F(node) \in Int /\ Cardinality(WordsBelow(trie, node)) <= F(node)
             /\ node \notin DOMAIN trie => WordsBelow(trie, node) = {}
  <2>1. CASE node \in DOMAIN trie
    BY <2>1 DEF TrieInv
  <2>2. CASE node \notin DOMAIN trie
    <3>1. ASSUME NEW w \in WordsBelow(trie, node) PROVE FALSE
      <4>1. w \in DOMAIN trie /\ IsPrefix(node, w) /\ IsSequence(w) /\ TrieNodes(w) \subseteq DOMAIN trie
        BY DEF WordsBelow, TrieInv
      <4>2. node \in TrieNodes(w)
        BY <1>4, <4>1, NodeIs
      <4>. QED
        BY <2>2, <4>1, <4>2
    <3>2. WordsBelow(trie, node) = {}
      BY <3>1
    <3>. QED
      BY <2>2, <3>2, FS_EmptySet
  <2>. QED
    BY <2>1, <2>2
<1>7. ASSUME NEW node \in DOMAIN new
      PROVE  LET c == Cardinality(WordsBelow(new, node))
                 d == Cardinality(WordsBelow(trie, node))
             IN /\ c \in Nat /\ d \in Nat /\ c <= d + (IF node \in N THEN 1 ELSE 0)
                /\ word \notin WordsOf(trie) => c = d + (IF node \in N THEN 1 ELSE 0)
  <2>1. PICK b : b = WordsBelow(trie, node)
    OBVIOUS
  <2>2. IsFiniteSet(b) /\ Cardinality(b) \in Nat /\ (word \notin WordsOf(trie) => word \notin b)
    BY <1>3, <2>1, BelowCount
  <2>3. Cardinality(b \cup {word}) = (IF word \in b THEN Cardinality(b) ELSE Cardinality(b) + 1)
    BY <2>2, FS_AddElement
  <2>4. WordsBelow(new, node) = IF node \in N THEN b \cup {word} ELSE b
    BY <1>5, <2>1
  <2>. HIDE DEF N
  <2>5. CASE node \in N
    BY <2>1, <2>2, <2>3, <2>4, <2>5
  <2>6. CASE node \notin N
    BY <2>1, <2>2, <2>4, <2>6
  <2>. QED
    BY <2>5, <2>6
<1>8. TrieInv(new)
  <2>1. ASSUME NEW node \in DOMAIN new
        PROVE  /\ new[node].frequency \in Int
               /\ Cardinality(WordsBelow(new, node)) <= new[node].frequency
    <3>. HIDE DEF N, F
    <3>. QED
      BY <1>1, <1>6, <1>7
  <2>. QED
    BY <1>1, <1>3, <1>4, <2>1 DEF TrieInv
<1>9. ASSUME NEW words, Counts(trie, words), word \notin words
      PROVE  Counts(new, words \cup {word})
  <2>1. WordsOf(new) = (words \cup {word}) \ {<<>>} /\ word \notin WordsOf(trie)
    BY <1>2, <1>9 DEF Counts
  <2>2. ASSUME NEW node \in DOMAIN new
        PROVE  /\ new[node].frequency = Cardinality(WordsBelow(new, node))
               /\ new[node].frequency > 0
    <3>1. F(node) = Cardinality(WordsBelow(trie, node)) /\ (node \notin N => F(node) > 0)
      <4>1. CASE node \in DOMAIN trie
        BY <1>9, <4>1 DEF Counts
      <4>2. CASE node \notin DOMAIN trie
        BY <1>1, <1>6, <4>2, FS_EmptySet
      <4>. QED
        BY <4>1, <4>2
    <3>. HIDE DEF N, F
    <3>. QED
      BY <1>1, <1>7, <2>1, <3>1
  <2>. QED
    BY <2>1, <2>2 DEF Counts
<1>. QED
  BY <1>2, <1>8, <1>9

\* erase: the nodes that go have no other word below.
LEMMA EraseKeeps ==
    ASSUME NEW trie, TrieInv(trie), NEW word, IsSequence(word), TrieContains(trie, word),
           NEW new, new = TrieErase(trie, word)
    PROVE  /\ TrieInv(new) /\ WordsOf(new) = WordsOf(trie) \ {word}
           /\ \A words : Counts(trie, words) => Counts(new, words \ {word})
<1>. DEFINE N == TrieNodes(word)
            Left(node) == trie[node].frequency - (IF node \in N THEN 1 ELSE 0)
            Dead == {node \in N : Left(node) = 0}
<1>1. word \in WordsOf(trie) /\ N \subseteq DOMAIN trie /\ word \in N
  BY OwnNode DEF TrieContains, WordsOf, TrieInv
<1>2. PICK left : left = [node \in DOMAIN trie |->
                             [isWord    |-> trie[node].isWord /\ node # word,
                              frequency |-> Left(node)]]
  OBVIOUS
<1>3. {node \in N : left[node].frequency = 0} = Dead
  BY <1>1, <1>2
<1>4. new = [node \in {n \in DOMAIN trie : \A d \in Dead : ~IsPrefix(d, n)} |-> left[node]]
  <2>1. new = [node \in {n \in DOMAIN trie :
                  \A d \in {m \in N : left[m].frequency = 0} : ~IsPrefix(d, n)} |-> left[node]]
    BY <1>2 DEF TrieErase
  <2>. HIDE DEF N, Dead
  <2>. QED
    BY <1>3, <2>1
<1>5. /\ \A node : node \in DOMAIN new <=>
                       node \in DOMAIN trie /\ \A d \in Dead : ~IsPrefix(d, node)
      /\ \A node \in DOMAIN new :
             /\ new[node].isWord = (trie[node].isWord /\ node # word)
             /\ new[node].frequency = Left(node)
  <2>. HIDE DEF N, Dead, Left
  <2>. QED
    BY <1>2, <1>4
<1>6. IsFiniteSet(WordsOf(trie))
  BY DEF TrieInv
<1>7. ASSUME NEW node \in DOMAIN trie
      PROVE  LET b == WordsBelow(trie, node)
             IN /\ IsFiniteSet(b \ {word}) /\ Cardinality(b \ {word}) \in Nat
                /\ Left(node) \in Int /\ Cardinality(b \ {word}) <= Left(node)
                /\ trie[node].frequency = Cardinality(b) => Left(node) = Cardinality(b \ {word})
  <2>1. PICK b : b = WordsBelow(trie, node)
    OBVIOUS
  <2>2. /\ IsFiniteSet(b) /\ Cardinality(b) \in Nat /\ Cardinality(b) <= trie[node].frequency
        /\ trie[node].frequency \in Int /\ IsSequence(node) /\ Len(node) > 0
        /\ b = {w \in WordsOf(trie) : IsPrefix(node, w)}
    BY <1>6, <2>1, BelowCount DEF TrieInv
  <2>3. word \in b <=> node \in N
    BY <1>1, <2>2, NodeIs
  <2>4. /\ IsFiniteSet(b \ {word})
        /\ Cardinality(b \ {word}) = IF word \in b THEN Cardinality(b) - 1 ELSE Cardinality(b)
    BY <2>2, FS_RemoveElement
  <2>5. Cardinality(b \ {word}) \in Nat
    BY <2>4, FS_CardinalityType
  <2>. HIDE DEF N
  <2>6. /\ Left(node) \in Int /\ Cardinality(b \ {word}) <= Left(node)
        /\ trie[node].frequency = Cardinality(b) => Left(node) = Cardinality(b \ {word})
    BY <2>2, <2>3, <2>4
  <2>. HIDE DEF Left
  <2>. QED
    BY <2>1, <2>4, <2>5, <2>6
<1>8. ASSUME NEW d \in Dead, NEW w \in WordsOf(trie), IsPrefix(d, w) PROVE w = word
  <2>1. PICK b : b = WordsBelow(trie, d)
    OBVIOUS
  <2>2. d \in DOMAIN trie /\ Left(d) = 0
    BY <1>1
  <2>3. IsFiniteSet(b \ {word}) /\ Cardinality(b \ {word}) \in Nat /\ Cardinality(b \ {word}) <= 0
    BY <1>7, <2>1, <2>2
  <2>4. b \ {word} = {}
    BY <2>3, FS_EmptySet
  <2>5. w \in b
    BY <1>6, <1>8, <2>1, BelowCount
  <2>. QED
    BY <2>4, <2>5
<1>. HIDE DEF Dead, Left
<1>9. WordsOf(new) = WordsOf(trie) \ {word}
  BY <1>5, <1>8 DEF WordsOf
<1>10. ASSUME NEW node \in DOMAIN new
       PROVE  WordsBelow(new, node) = WordsBelow(trie, node) \ {word}
  <2>1. IsFiniteSet(WordsOf(new))
    BY <1>6, <1>9, FS_Subset
  <2>2. /\ WordsBelow(new, node) = {w \in WordsOf(new) : IsPrefix(node, w)}
        /\ WordsBelow(trie, node) = {w \in WordsOf(trie) : IsPrefix(node, w)}
    BY <1>6, <2>1, BelowCount
  <2>. QED
    BY <1>9, <2>2
<1>11. TrieInv(new)
  <2>1. IsFiniteSet(WordsOf(new))
    BY <1>6, <1>9, FS_Subset
  <2>2. ASSUME NEW node \in DOMAIN new PROVE TrieNodes(node) \subseteq DOMAIN new
    <3>1. node \in DOMAIN trie /\ IsSequence(node) /\ TrieNodes(node) \subseteq DOMAIN trie
      BY <1>5 DEF TrieInv
    <3>2. ASSUME NEW n \in TrieNodes(node), NEW d \in Dead, IsPrefix(d, n) PROVE FALSE
      <4>1. IsSequence(d)
        BY NodeIs DEF Dead
      <4>2. IsSequence(n) /\ IsPrefix(n, node)
        BY <3>1, NodeIs
      <4>3. IsPrefix(d, node)
        BY <3>1, <3>2, <4>1, <4>2, PrefixOrder
      <4>. QED
        BY <1>5, <4>3
    <3>. QED
      BY <1>5, <3>1, <3>2
  <2>3. ASSUME NEW node \in DOMAIN new
        PROVE  /\ IsSequence(node) /\ Len(node) > 0 /\ new[node].isWord \in BOOLEAN
               /\ new[node].frequency \in Int
               /\ Cardinality(WordsBelow(new, node)) <= new[node].frequency
    <3>1. /\ node \in DOMAIN trie /\ IsSequence(node) /\ Len(node) > 0
          /\ new[node].isWord \in BOOLEAN
      BY <1>5 DEF TrieInv
    <3>. QED
      BY <1>5, <1>7, <1>10, <3>1
  <2>. QED
    BY <2>1, <2>2, <2>3 DEF TrieInv
<1>12. ASSUME NEW words, Counts(trie, words) PROVE Counts(new, words \ {word})
  <2>1. WordsOf(new) = (words \ {word}) \ {<<>>}
    BY <1>9, <1>12 DEF Counts
  <2>2. ASSUME NEW node \in DOMAIN new
        PROVE  /\ new[node].frequency = Cardinality(WordsBelow(new, node))
               /\ new[node].frequency > 0
    <3>1. /\ node \in DOMAIN trie /\ trie[node].frequency = Cardinality(WordsBelow(trie, node))
          /\ trie[node].frequency > 0 /\ trie[node].frequency \in Int
      BY <1>5, <1>12 DEF Counts, TrieInv
    <3>2. new[node].frequency = Left(node) /\ Left(node) = Cardinality(WordsBelow(new, node))
          /\ Left(node) \in Nat
      BY <1>5, <1>7, <1>10, <3>1
    <3>3. CASE node \in N
      <4>1. IsPrefix(node, node)
        BY <3>3, NodeIs, PrefixOrder
      <4>2. Left(node) # 0
        BY <1>5, <3>3, <4>1 DEF Dead
      <4>. QED
        BY <3>2, <4>2
    <3>4. CASE node \notin N
      BY <3>1, <3>2, <3>4 DEF Left
    <3>. QED
      BY <3>3, <3>4
  <2>. QED
    BY <2>1, <2>2 DEF Counts
<1>. QED
  BY <1>9, <1>11, <1>12

\* The trie of the first words
LEMMA TrieOfCounts ==
    ASSUME NEW words, IsFiniteSet(words), \A w \in words : IsSequence(w),
           NEW trie, trie = TrieOf(words)
    PROVE  TrieInv(trie) /\ Counts(trie, words)
<1>1. /\ \A node : node \in DOMAIN trie <=> \E w \in words : node \in TrieNodes(w)
      /\ \A node \in DOMAIN trie :
             /\ trie[node].isWord = (node \in words)
             /\ trie[node].frequency = Cardinality({w \in words : IsPrefix(node, w)})
  BY DEF TrieOf
<1>2. WordsOf(trie) = words \ {<<>>}
  <2>1. ASSUME NEW w \in words PROVE w \in DOMAIN trie <=> w # <<>>
    <3>1. w \in TrieNodes(w) <=> w # <<>>
      BY OwnNode
    <3>2. \A v \in words : <<>> \notin TrieNodes(v)
      BY OwnNode
    <3>. QED
      BY <1>1, <3>1, <3>2
  <2>. QED
    BY <1>1, <2>1 DEF WordsOf
<1>3. IsFiniteSet(WordsOf(trie))
  BY <1>2, FS_Subset
<1>4. ASSUME NEW node \in DOMAIN trie
      PROVE  /\ IsSequence(node) /\ Len(node) > 0 /\ TrieNodes(node) \subseteq DOMAIN trie
             /\ \E w \in words : IsPrefix(node, w)
  <2>1. PICK w \in words : node \in TrieNodes(w)
    BY <1>1
  <2>2. IsSequence(w) /\ IsSequence(node) /\ Len(node) > 0 /\ IsPrefix(node, w)
    BY <2>1, NodeIs
  <2>3. ASSUME NEW n \in TrieNodes(node) PROVE n \in TrieNodes(w)
    <3>1. IsSequence(n) /\ Len(n) > 0 /\ IsPrefix(n, node)
      BY <2>2, NodeIs
    <3>2. IsPrefix(n, w)
      BY <2>2, <3>1, PrefixOrder
    <3>. QED
      BY <2>2, <3>1, <3>2, NodeIs
  <2>. QED
    BY <1>1, <2>2, <2>3
<1>5. ASSUME NEW node \in DOMAIN trie
      PROVE  /\ trie[node].isWord \in BOOLEAN
             /\ trie[node].frequency = Cardinality(WordsBelow(trie, node))
             /\ trie[node].frequency \in Nat /\ trie[node].frequency > 0
  <2>1. PICK b : b = WordsBelow(trie, node)
    OBVIOUS
  <2>2. IsFiniteSet(b) /\ Cardinality(b) \in Nat /\ b = {w \in WordsOf(trie) : IsPrefix(node, w)}
    BY <1>3, <2>1, BelowCount
  <2>3. <<>> \notin {w \in words : IsPrefix(node, w)}
    <3>1. ASSUME IsPrefix(node, <<>>) PROVE FALSE
      BY <1>4, <3>1, NoLetter DEF IsPrefix
    <3>. QED
      BY <3>1
  <2>4. b = {w \in words : IsPrefix(node, w)}
    BY <1>2, <2>2, <2>3
  <2>5. b # {}
    BY <1>4, <2>4
  <2>6. Cardinality(b) # 0
    BY <2>2, <2>5, FS_EmptySet
  <2>7. trie[node].frequency = Cardinality(b) /\ trie[node].isWord \in BOOLEAN
    <3>1. trie[node].isWord \in BOOLEAN
      <4>1. trie[node].isWord = (node \in words)
        BY <1>1, Zenon
      <4>2. (node \in words) \in BOOLEAN
        OBVIOUS
      <4>. QED
        BY <4>1, <4>2, Zenon
    <3>2. trie[node].frequency = Cardinality({w \in words : IsPrefix(node, w)})
      BY <1>1, Zenon
    <3>. QED
      BY <2>4, <3>1, <3>2
  <2>8. trie[node].frequency \in Nat /\ trie[node].frequency > 0
    BY <2>2, <2>6, <2>7
  <2>. QED
    BY <2>1, <2>7, <2>8
<1>. QED
  BY <1>2, <1>3, <1>4, <1>5 DEF TrieInv, Counts

\* A word is found by its name, ...
LEMMA WordFound ==
    ASSUME NEW trie, TrieInv(trie), NEW name \in WordsOf(trie) \cup {<<>>}
    PROVE  FindWithPrefix(trie, name) = name
<1>1. CASE name = <<>>
  BY <1>1 DEF FindWithPrefix
<1>2. CASE name # <<>>
  <2>1. name \in DOMAIN trie /\ trie[name].isWord /\ IsSequence(name) /\ IsPrefix(name, name)
    BY <1>2, PrefixOrder DEF WordsOf, TrieInv
  <2>. DEFINE Least(w) == /\ w \in WordsBelow(trie, name)
                          /\ \A v \in WordsBelow(trie, name) : Len(w) <= Len(v)
  <2>2. ASSUME NEW w \in WordsBelow(trie, name)
        PROVE  /\ IsSequence(w) /\ IsPrefix(name, w) /\ Len(name) <= Len(w)
               /\ Len(w) <= Len(name) => w = name
    BY <2>1, PrefixOrder DEF WordsBelow, TrieInv
  <2>3. name \in WordsBelow(trie, name)
    BY <2>1 DEF WordsBelow
  <2>4. Least(name) /\ \A w : Least(w) => w = name
    BY <2>2, <2>3
  <2>5. (CHOOSE w : Least(w)) = name
    <3>. HIDE DEF Least
    <3>. QED
      BY <2>4
  <2>6. (CHOOSE w \in WordsBelow(trie, name) :
            \A v \in WordsBelow(trie, name) : Len(w) <= Len(v)) = name
    BY <2>5
  <2>. QED
    BY <1>2, <2>1, <2>6 DEF FindWithPrefix
<1>. QED
  BY <1>1, <1>2

\* ... and the only word below a node is.
LEMMA OnlyWordFound ==
    ASSUME NEW trie, TrieInv(trie), NEW words, Counts(trie, words), NEW prefix \in DOMAIN trie
    PROVE  LET b == FindAllWithPrefix(trie, prefix)
           IN b # {} /\ (Cardinality(b) = 1 => FindWithPrefix(trie, prefix) \in b)
<1>1. PICK b : b = WordsBelow(trie, prefix)
  OBVIOUS
<1>2. /\ IsFiniteSet(b) /\ trie[prefix].frequency = Cardinality(b) /\ Cardinality(b) > 0
      /\ Cardinality(b) \in Nat /\ prefix # <<>>
  <2>1. IsFiniteSet(b) /\ Cardinality(b) \in Nat
    BY <1>1, BelowCount DEF TrieInv
  <2>2. prefix # <<>>
    BY NoLetter DEF TrieInv
  <2>. QED
    BY <1>1, <2>1, <2>2 DEF Counts
<1>3. b # {}
  BY <1>2, FS_EmptySet
<1>4. ASSUME Cardinality(b) = 1 PROVE FindWithPrefix(trie, prefix) \in b
  <2>1. PICK x : b = {x}
    BY <1>2, <1>4, FS_Singleton
  <2>2. Len(x) \in Nat
    BY <1>1, <2>1 DEF WordsBelow, TrieInv, IsSequence
  <2>3. FindWithPrefix(trie, prefix) = CHOOSE w \in b : \A v \in b : Len(w) <= Len(v)
    BY <1>1, <1>2, <1>4 DEF FindWithPrefix
  <2>4. \E w \in b : \A v \in b : Len(w) <= Len(v)
    BY <2>1, <2>2
  <2>. QED
    BY <2>3, <2>4
<1>. QED
  BY <1>1, <1>3, <1>4 DEF FindAllWithPrefix

-----------------------------------------------------------------------------
(* The identifiers: every name is in the trie, as often as it counts unless*)
(* somebody has named an alias like a command                              *)

\* A command that no alias named, and every alias, is a word of the trie; while no command
\* was named the words are just these.
NamesInv ==
    /\ \A name \in registry.commands \cup DOMAIN registry.aliases : IsSequence(name)
    /\ TrieInv(registry.identifiers)
    /\ (registry.commands \ seen.shadowed) \cup DOMAIN registry.aliases
           \subseteq WordsOf(registry.identifiers) \cup {<<>>}
    /\ seen.shadowed = {} =>
           Counts(registry.identifiers, registry.commands \cup DOMAIN registry.aliases)

\* Who has named a command stays known, whatever else is.
LEMMA ShadowedStays ==
    ASSUME SeenInv, NEW v, NEW w,
           \/ seen' = seen \/ seen' = [seen EXCEPT !.file = v]
           \/ seen' = [seen EXCEPT !.file = v, !.draft = w]
           \/ seen' = [seen EXCEPT !.quitting = v, !.file = w]
           \/ seen' = [seen EXCEPT !.quitting = v] \/ seen' = [seen EXCEPT !.ran = v]
           \/ seen' = [seen EXCEPT !.interrupted = v]
    PROVE  seen'.shadowed = seen.shadowed
<1>1. PICK file, quitting : /\ file = [seen EXCEPT !.file = v]
                            /\ quitting = [seen EXCEPT !.quitting = v]
  OBVIOUS
<1>2. /\ file = [ran |-> seen.ran, draft |-> seen.draft, file |-> v,
                 interrupted |-> seen.interrupted, quitting |-> seen.quitting,
                 shadowed |-> seen.shadowed]
      /\ quitting = [ran |-> seen.ran, draft |-> seen.draft, file |-> seen.file,
                     interrupted |-> seen.interrupted, quitting |-> v, shadowed |-> seen.shadowed]
  BY <1>1, SeenSet
<1>3. /\ [file EXCEPT !.draft = w].shadowed = seen.shadowed
      /\ [quitting EXCEPT !.file = w].shadowed = seen.shadowed
  BY <1>2
<1>4. CASE seen' = [seen EXCEPT !.file = v, !.draft = w]
  BY <1>1, <1>3, <1>4
<1>5. CASE seen' = [seen EXCEPT !.quitting = v, !.file = w]
  BY <1>1, <1>3, <1>5
<1>. QED
  BY <1>4, <1>5, SeenSet

\* What changes names
RegistrySteps == Alias \/ SetVariable \/ SourceDofile

LEMMA TakeLineNames ==
    ASSUME SeenInv, NEW ed, NEW lines, TakeLine(ed, lines)
    PROVE  UNCHANGED registry /\ seen'.shadowed = seen.shadowed
<1>1. UNCHANGED registry
  BY DEF TakeLine
<1>2. PICK file : seen' = seen \/ seen' = [seen EXCEPT !.file = file]
  BY DEF TakeLine, Crash
<1>3. seen'.shadowed = seen.shadowed
  <2>1. CASE seen' = seen
    BY <2>1
  <2>2. CASE seen' = [seen EXCEPT !.file = file]
    BY <2>2, ShadowedStays
  <2>. QED
    BY <1>2, <2>1, <2>2
<1>. QED
  BY <1>1, <1>3

LEMMA QuietSteps ==
    ASSUME CliInv, [CliNext]_cliVars, ~RegistrySteps
    PROVE  UNCHANGED registry /\ seen'.shadowed = seen.shadowed
<1>. DEFINE Quiet == UNCHANGED registry /\ seen'.shadowed = seen.shadowed
<1>1. SeenInv
  BY DEF CliInv
<1>2. CASE Listen \/ UnknownCommand \/ Dispatch \/ FileEnds \/ Work \/ RequestStop
           \/ UNCHANGED cliVars
  BY <1>2 DEF Listen, UnknownCommand, Dispatch, FileEnds, Work, RequestStop, cliVars
<1>3. CASE LineRead
  <2>1. PICK ed : TakeLine(ed, Tail(Top.lines)) \/ UNCHANGED <<registry, seen>>
    BY <1>3, Zenon DEF LineRead
  <2>. QED
    BY <1>1, <2>1, TakeLineNames
<1>4. CASE Join
  <2>1. PICK n : seen' = [seen EXCEPT !.interrupted = n]
    BY <1>4 DEF Join
  <2>. QED
    BY <1>1, <1>4, <2>1, ShadowedStays DEF Join
<1>5. CASE LineEnds
  <2>1. PICK ran : seen' = [seen EXCEPT !.ran = ran]
    BY <1>5 DEF LineEnds
  <2>. QED
    BY <1>1, <1>5, <2>1, ShadowedStays DEF LineEnds
<1>6. CASE Quit
  <2>1. PICK q : seen' = [seen EXCEPT !.quitting = q]
    BY <1>6 DEF Quit
  <2>. QED
    BY <1>1, <1>6, <2>1, ShadowedStays DEF Quit
<1>7. CASE History
  <2>1. seen' = seen \/ seen' = [seen EXCEPT !.ran = <<>>]
    BY <1>7 DEF History
  <2>. QED
    BY <1>1, <1>7, <2>1, ShadowedStays DEF History
<1>8. CASE InputEnds
  <2>1. seen' = [seen EXCEPT !.quitting = TRUE, !.file = <<>>]
    BY <1>8 DEF InputEnds
  <2>. QED
    BY <1>1, <1>8, <2>1, ShadowedStays DEF InputEnds
<1>9. CASE Sigint
  <2>1. seen' = [seen EXCEPT !.file = <<>>]
    BY <1>9 DEF Sigint
  <2>. QED
    BY <1>1, <1>9, <2>1, ShadowedStays DEF Sigint
<1>10. CASE KeyPressed
  <2>1. PICK key : \/ Enter
                   \/ PressTab /\ UNCHANGED registry
                   \/ EditLine(key) /\ UNCHANGED registry
    BY <1>10 DEF KeyPressed
  <2>2. CASE Enter
    BY <1>1, <1>10, <2>2, TakeLineNames DEF Enter, KeyPressed
  <2>3. CASE PressTab /\ UNCHANGED registry
    <3>1. PICK file : seen' = [seen EXCEPT !.file = file]
      BY <2>3 DEF PressTab
    <3>. QED
      BY <1>1, <2>3, <3>1, ShadowedStays
  <2>4. CASE EditLine(key) /\ UNCHANGED registry
    <3>1. PICK draft : draft = IF editor'.stored /\ ~editor.stored THEN editor.buffer ELSE seen.draft
      OBVIOUS
    <3>2. seen' = [seen EXCEPT !.file = <<>>, !.draft = draft]
      BY <2>4, <3>1 DEF EditLine
    <3>. QED
      BY <1>1, <2>4, <3>2, ShadowedStays
  <2>. QED
    BY <2>1, <2>2, <2>3, <2>4
<1>. QED
  BY <1>2, <1>3, <1>4, <1>5, <1>6, <1>7, <1>8, <1>9, <1>10
     DEF CliNext, CliStep, Command, Rest, RegistrySteps

\* NamesInv says nothing else of a state.
LEMMA NamesKept ==
    ASSUME NamesInv, registry'.commands = registry.commands, registry'.aliases = registry.aliases,
           registry'.identifiers = registry.identifiers, seen'.shadowed = seen.shadowed
    PROVE  NamesInv'
  BY DEF NamesInv

LEMMA InitNames == CliInit => NamesInv
<1>. SUFFICES ASSUME CliInit PROVE NamesInv
  OBVIOUS
<1>1. registry = Registered /\ seen.shadowed = {}
  BY DEF CliInit, Seen0
<1>2. PICK unalias, unset : unalias = Text("unalias") /\ unset = Text("unset")
  BY Zenon
<1>. DEFINE commands == {Text(name) : name \in CommonNames} \cup Subsystems
            words == commands \cup {unalias, unset}
<1>3. /\ registry.commands = commands /\ DOMAIN registry.aliases = {unalias, unset}
      /\ registry.identifiers = TrieOf(words)
  BY <1>1, <1>2, Zenon DEF Registered
<1>4. ASSUME NEW w \in words PROVE IsSequence(w)
  <2>1. w \in Seq(STRING)
    <3>1. CASE w \in {Text(name) : name \in CommonNames}
      BY <3>1, StringsAreTexts, Zenon
    <3>2. CASE w \in Subsystems
      BY <3>2, CommandLineAssumption
    <3>3. CASE w \in {unalias, unset}
      BY <1>2, <3>3, StringsAreTexts, Zenon
    <3>. QED
      BY <3>1, <3>2, <3>3, Zenon
  <2>. QED
    BY <2>1, IsSequenceIn
<1>5. IsFiniteSet(words)
  <2>1. IsFiniteSet(CommonNames)
    <3>. DEFINE f == <<"alias", "set", "echo", "quit", "history", "help", "source", "usage",
                       "clear", "logger">>
    <3>1. IsFiniteSet(1 .. 10)
      <4>1. PICK m \in Int, n \in Int : m = 1 /\ n = 10
        OBVIOUS
      <4>2. IsFiniteSet(m .. n)
        BY FS_Interval
      <4>. QED
        BY <4>1, <4>2
    <3>2. f \in Surjection(1 .. 10, CommonNames)
      BY DEF Surjection, CommonNames
    <3>. HIDE DEF f
    <3>. QED
      BY <3>1, <3>2, FS_Surjection
  <2>2. IsFiniteSet({Text(name) : name \in CommonNames})
    <3>. DEFINE f == [name \in CommonNames |-> Text(name)]
    <3>1. f \in Surjection(CommonNames, {Text(name) : name \in CommonNames})
      BY Zenon DEF Surjection
    <3>. HIDE DEF f
    <3>. QED
      BY <2>1, <3>1, FS_Surjection, Zenon
  <2>3. IsFiniteSet(commands)
    BY <2>2, FS_Union, CommandLineAssumption
  <2>4. words = (commands \cup {unalias}) \cup {unset}
    OBVIOUS
  <2>. HIDE DEF commands, words
  <2>5. IsFiniteSet(commands \cup {unalias})
    BY <2>3, FS_AddElement
  <2>6. IsFiniteSet((commands \cup {unalias}) \cup {unset})
    BY <2>5, FS_AddElement
  <2>. QED
    BY <2>4, <2>6
<1>. HIDE DEF commands
<1>6. TrieInv(registry.identifiers) /\ Counts(registry.identifiers, words)
  <2>. HIDE DEF words
  <2>. QED
    BY <1>3, <1>4, <1>5, TrieOfCounts
<1>. QED
  BY <1>1, <1>3, <1>4, <1>6 DEF NamesInv, Counts
\* add_alias: a name that is an alias is in the trie, another one is put in.
LEMMA AddAliasNames ==
    ASSUME CliInv, TextsInv, NamesInv, NEW alias, IsSequence(alias), NEW value,
           AddAlias(alias, value), seen'.shadowed = seen.shadowed \cup ({alias} \cap registry.commands)
    PROVE  NamesInv'
<1>1. PICK ids, aliases, old : /\ ids = registry.identifiers /\ aliases = registry.aliases
                               /\ old = (alias \in DOMAIN aliases)
  OBVIOUS
<1>2. PICK new : new = IF old THEN ids ELSE TrieInsert(ids, alias)
  OBVIOUS
<1>3. /\ registry'.commands = registry.commands /\ registry'.identifiers = new
      /\ DOMAIN registry'.aliases = DOMAIN aliases \cup {alias}
  <2>1. PICK map : map = Assigned(aliases, [a \in {alias} |-> value])
    OBVIOUS
  <2>2. DOMAIN map = DOMAIN aliases \cup {alias}
    BY <2>1 DEF Assigned
  <2>3. registry' = [registry EXCEPT !.identifiers = new, !.aliases = map]
    BY <1>1, <1>2, <2>1 DEF AddAlias
  <2>4. IsRegistry(registry)
    BY DEF TextsInv, RegistryInv
  <2>5. PICK reg : reg = [registry EXCEPT !.identifiers = new]
    OBVIOUS
  <2>6. IsRegistry(reg) /\ reg.identifiers = new /\ reg.commands = registry.commands
    BY <2>4, <2>5, RegistrySet DEF IsRegistry
  <2>7. registry' = [reg EXCEPT !.aliases = map]
    BY <2>3, <2>5
  <2>8. registry'.commands = registry.commands /\ registry'.identifiers = new /\ registry'.aliases = map
    BY <2>6, <2>7, RegistrySet
  <2>. QED
    BY <2>2, <2>8
<1>4. /\ TrieInv(ids) /\ \A name \in registry.commands \cup DOMAIN aliases : IsSequence(name)
      /\ (registry.commands \ seen.shadowed) \cup DOMAIN aliases \subseteq WordsOf(ids) \cup {<<>>}
      /\ seen.shadowed = {} => Counts(ids, registry.commands \cup DOMAIN aliases)
  BY <1>1 DEF NamesInv
<1>5. /\ TrieInv(new) /\ WordsOf(ids) \subseteq WordsOf(new)
      /\ alias \in WordsOf(new) \cup {<<>>}
  <2>1. CASE old
    BY <1>1, <1>2, <1>4, <2>1
  <2>2. CASE ~old
    BY <1>2, <1>4, <2>2, InsertKeeps
  <2>. QED
    BY <2>1, <2>2
<1>6. ASSUME seen'.shadowed = {}
      PROVE  Counts(new, registry.commands \cup (DOMAIN aliases \cup {alias}))
  <2>1. seen.shadowed = {} /\ alias \notin registry.commands
    BY <1>6
  <2>2. CASE old
    <3>1. DOMAIN aliases \cup {alias} = DOMAIN aliases /\ new = ids
      BY <1>1, <1>2, <2>2
    <3>. QED
      BY <1>4, <2>1, <3>1
  <2>3. CASE ~old
    <3>1. PICK words : words = registry.commands \cup DOMAIN aliases
      OBVIOUS
    <3>2. alias \notin words /\ Counts(ids, words)
      BY <1>1, <1>4, <2>1, <2>3, <3>1
    <3>3. Counts(new, words \cup {alias})
      BY <1>2, <1>4, <2>3, <3>2, InsertKeeps
    <3>4. words \cup {alias} = registry.commands \cup (DOMAIN aliases \cup {alias})
      BY <3>1
    <3>. QED
      BY <3>3, <3>4
  <2>. QED
    BY <2>2, <2>3
<1>. QED
  BY <1>3, <1>4, <1>5, <1>6 DEF NamesInv

\* remove_alias
LEMMA RemoveAliasNames ==
    ASSUME CliInv, TextsInv, NamesInv, NEW alias, IsSequence(alias), RemoveAlias(alias),
           seen'.shadowed = seen.shadowed \cup ({alias} \cap registry.commands)
    PROVE  NamesInv'
<1>1. PICK ids, aliases : ids = registry.identifiers /\ aliases = registry.aliases
  OBVIOUS
<1>2. /\ TrieInv(ids) /\ \A name \in registry.commands \cup DOMAIN aliases : IsSequence(name)
      /\ (registry.commands \ seen.shadowed) \cup DOMAIN aliases \subseteq WordsOf(ids) \cup {<<>>}
      /\ seen.shadowed = {} => Counts(ids, registry.commands \cup DOMAIN aliases)
  BY <1>1 DEF NamesInv
<1>3. CASE TrieContains(ids, alias)
  <2>1. PICK new, map : /\ new = TrieErase(ids, alias)
                        /\ map = [a \in DOMAIN aliases \ {alias} |-> aliases[a]]
    OBVIOUS
  <2>2. /\ registry'.commands = registry.commands /\ registry'.identifiers = new
        /\ DOMAIN registry'.aliases = DOMAIN aliases \ {alias}
    <3>1. registry' = [registry EXCEPT !.identifiers = new, !.aliases = map]
      BY <1>1, <1>3, <2>1 DEF RemoveAlias
    <3>2. IsRegistry(registry)
      BY DEF TextsInv, RegistryInv
    <3>3. PICK reg : reg = [registry EXCEPT !.identifiers = new]
      OBVIOUS
    <3>4. IsRegistry(reg) /\ reg.identifiers = new /\ reg.commands = registry.commands
      BY <3>2, <3>3, RegistrySet DEF IsRegistry
    <3>5. registry' = [reg EXCEPT !.aliases = map]
      BY <3>1, <3>3
    <3>6. registry'.commands = registry.commands /\ registry'.identifiers = new /\ registry'.aliases = map
      BY <3>4, <3>5, RegistrySet
    <3>. QED
      BY <2>1, <3>6
  <2>3. /\ TrieInv(new) /\ WordsOf(new) = WordsOf(ids) \ {alias}
        /\ \A words : Counts(ids, words) => Counts(new, words \ {alias})
    BY <1>2, <1>3, <2>1, EraseKeeps
  <2>4. ASSUME seen'.shadowed = {}
        PROVE  Counts(new, registry.commands \cup (DOMAIN aliases \ {alias}))
    <3>1. seen.shadowed = {} /\ alias \notin registry.commands
      BY <2>4
    <3>2. (registry.commands \cup DOMAIN aliases) \ {alias}
          = registry.commands \cup (DOMAIN aliases \ {alias})
      BY <3>1
    <3>. QED
      BY <1>2, <2>3, <3>1, <3>2
  <2>5. /\ (registry.commands \ seen'.shadowed) \cup (DOMAIN aliases \ {alias})
              \subseteq WordsOf(new) \cup {<<>>}
        /\ \A name \in registry.commands \cup (DOMAIN aliases \ {alias}) : IsSequence(name)
    BY <1>2, <2>3
  <2>. QED
    BY <2>2, <2>3, <2>4, <2>5 DEF NamesInv
<1>4. CASE ~TrieContains(ids, alias)
  <2>1. UNCHANGED registry
    BY <1>1, <1>4 DEF RemoveAlias
  <2>. QED
    BY <1>1, <1>2, <2>1 DEF NamesInv
<1>. QED
  BY <1>3, <1>4
LEMMA AliasNames == CliInv /\ TextsInv /\ NamesInv /\ Alias => NamesInv'
<1>. SUFFICES ASSUME CliInv, TextsInv, NamesInv, Alias PROVE NamesInv'
  OBVIOUS
<1>1. IsList(TopThread.arguments)
  BY RunningTexts DEF Alias, InnermostRuns
<1>2. PICK names : names = seen.shadowed \cup {Argument}
  OBVIOUS
<1>3. [seen EXCEPT !.shadowed = names].shadowed = names
  BY SeenSet DEF CliInv
<1>4. seen'.shadowed = IF (Deletes \/ Defines) /\ Argument \in registry.commands
                       THEN names ELSE seen.shadowed
  <2>1. CASE (Deletes \/ Defines) /\ Argument \in registry.commands
    BY <1>2, <1>3, <2>1 DEF Alias
  <2>2. CASE ~((Deletes \/ Defines) /\ Argument \in registry.commands)
    BY <2>2 DEF Alias
  <2>. QED
    BY <2>1, <2>2
<1>5. CASE UNCHANGED registry
  <2>1. seen.shadowed \subseteq seen'.shadowed
    BY <1>2, <1>4
  <2>2. seen'.shadowed = {} => seen.shadowed = {}
    BY <2>1
  <2>3. registry.commands \ seen'.shadowed \subseteq registry.commands \ seen.shadowed
    BY <2>1
  <2>. QED
    BY <1>5, <2>2, <2>3 DEF NamesInv
<1>6. CASE Defines /\ AddAlias(Argument, TopThread.arguments[2])
  <2>1. PICK alias, value : /\ alias = Argument /\ value = TopThread.arguments[2]
                            /\ IsSequence(alias) /\ AddAlias(alias, value)
    BY <1>1, <1>6, ArgumentText
  <2>2. seen'.shadowed = seen.shadowed \cup ({alias} \cap registry.commands)
    BY <1>2, <1>4, <1>6, <2>1
  <2>. QED
    BY <2>1, <2>2, AddAliasNames
<1>7. CASE Deletes /\ RemoveAlias(Argument)
  <2>1. PICK alias : alias = Argument /\ IsSequence(alias) /\ RemoveAlias(alias)
    BY <1>1, <1>7, ArgumentText
  <2>2. seen'.shadowed = seen.shadowed \cup ({alias} \cap registry.commands)
    BY <1>2, <1>4, <1>7, <2>1
  <2>. QED
    BY <2>1, <2>2, RemoveAliasNames
<1>. QED
  BY <1>5, <1>6, <1>7, Zenon DEF Alias

\* A variable is no identifier.
LEMMA VariableNames == CliInv /\ TextsInv /\ NamesInv /\ (SetVariable \/ SourceDofile) => NamesInv'
<1>. SUFFICES ASSUME CliInv, TextsInv, NamesInv, SetVariable \/ SourceDofile PROVE NamesInv'
  OBVIOUS
<1>1. PICK variables : registry' = registry \/ registry' = [registry EXCEPT !.variables = variables]
  <2>1. CASE SetVariable
    BY <2>1, Zenon DEF SetVariable
  <2>2. CASE SourceDofile
    BY <2>2, Zenon DEF SourceDofile
  <2>. QED
    BY <2>1, <2>2, Zenon
<1>2. IsRegistry(registry)
  BY DEF TextsInv, RegistryInv
<1>3. /\ registry'.commands = registry.commands /\ registry'.aliases = registry.aliases
      /\ registry'.identifiers = registry.identifiers
  BY <1>1, <1>2, RegistrySet
<1>4. seen' = seen
  BY Zenon DEF SetVariable, SourceDofile
<1>. QED
  BY <1>3, <1>4, NamesKept

LEMMA NamesStep == CliInv /\ TextsInv /\ NamesInv /\ [CliNext]_cliVars => NamesInv'
<1>. SUFFICES ASSUME CliInv, TextsInv, NamesInv, [CliNext]_cliVars PROVE NamesInv'
  OBVIOUS
<1>1. CASE RegistrySteps
  BY <1>1, AliasNames, VariableNames DEF RegistrySteps
<1>2. CASE ~RegistrySteps
  <2>1. registry' = registry /\ seen'.shadowed = seen.shadowed
    BY <1>2, QuietSteps
  <2>. QED
    BY <2>1, NamesKept
<1>. QED
  BY <1>1, <1>2

-----------------------------------------------------------------------------
(* The theorems                                                            *)

\* Readers nest, with a command under way for each but the innermost one; the
\* history is what ran; who is stopped has a signal.
THEOREM CliInvHolds == CliSpec => []CliInv
<1>1. CliInit => CliInv
  BY InitReaders
<1>2. CliInv /\ [CliNext]_cliVars => CliInv'
  BY CliStepKeeps
<1>. QED
  BY <1>1, <1>2, PTL DEF CliSpec

\* A SIGINT interrupts at most one command: sigint_handler asks the thread that is
\* the innermost one then, and the stop goes with that thread when it is joined.
THEOREM InterruptsStopOne == CliSpec => []InterruptStopsOne
<1>1. CliInv => InterruptStopsOne
  <2>. SUFFICES ASSUME CliInv PROVE InterruptStopsOne
    OBVIOUS
  <2>1. IsSequence(commandThreads)
    BY DEF CliInv, ReadersInv, Nested
  <2>2. Cardinality(Stopping(commandThreads)) \in Nat
    BY <2>1, StoppingCount
  <2>. QED
    BY <2>2 DEF CliInv, SignalInv, HandlerInv, InterruptStopsOne
<1>. QED
  BY <1>1, CliInvHolds, PTL

\* All texts are sequences of characters, and the cursor stands in the line.
THEOREM TextsHold == CliSpec => []TextsInv
<1>1. CliInit => CliInv /\ TextsInv
  BY InitReaders, InitTexts
<1>2. CliInv /\ TextsInv /\ [CliNext]_cliVars => CliInv' /\ TextsInv'
  BY CliStepKeeps, TextsStep
<1>. QED
  BY <1>1, <1>2, PTL DEF CliSpec

\* The history is what ran, in this order and with its results, and behind it the line that
\* was being typed, whatever keys, dofiles and signals come in between; the place in it and
\* the cursor in the line are where the code may look.
THEOREM HistoryIsWhatRan == CliSpec => []HistoryKept
<1>1. CliInv /\ TextsInv => HistoryKept
  <2>. SUFFICES ASSUME CliInv, TextsInv PROVE HistoryKept
    OBVIOUS
  <2>1. /\ Remembers(editor, seen.ran, seen.draft) /\ Holds(editor, seen.ran, seen.draft)
        /\ IsSequence(seen.ran)
    BY DEF CliInv, HistoryInv, Remembers, Holds
  <2>2. editor.cursor \in 0 .. Len(editor.buffer)
    BY DEF TextsInv, LineInv, CursorIn
  <2>3. editor.idx \in 0 .. Len(editor.history)
    <3>1. PICK n, more : /\ n = Len(seen.ran) /\ n \in Nat
                         /\ more = (IF editor.stored THEN 1 ELSE 0) /\ Len(editor.history) = n + more
      BY <2>1, HistoryLength
    <3>2. PICK idx, len : idx = editor.idx /\ len = Len(editor.history)
      OBVIOUS
    <3>3. idx \in 0 .. n /\ more \in {0, 1} /\ len = n + more /\ n \in Nat
      BY <2>1, <3>1, <3>2 DEF Remembers
    <3>4. idx \in 0 .. len
      BY <3>3
    <3>. QED
      BY <3>2, <3>4
  <2>4. editor.history = seen.ran \o (IF editor.stored
                                      THEN << [input |-> seen.draft, status |-> "done"] >> ELSE <<>>)
    <3>1. PICK ran, e : ran = seen.ran /\ e = [input |-> seen.draft, status |-> "done"]
      OBVIOUS
    <3>2. PICK S : S = Letters(ran) \cup {e}
      OBVIOUS
    <3>3. ran \in Seq(S) /\ e \in S
      BY <2>1, <3>1, <3>2, OfLetters
    <3>4. Append(ran, e) = ran \o <<e>> /\ ran \o <<>> = ran
      BY <3>3
    <3>. QED
      BY <2>1, <3>1, <3>4 DEF Holds
  <2>. QED
    BY <2>2, <2>3, <2>4 DEF HistoryKept
<1>. QED
  BY <1>1, CliInvHolds, TextsHold, PTL

\* Commands are found by their names, and aliases by theirs, however aliases come and go; what
\* a tab would complete is what would run.
THEOREM NamesAlwaysFound == CliSpec => []NamesFound
<1>1. CliInit => CliInv /\ TextsInv /\ NamesInv
  BY InitReaders, InitTexts, InitNames
<1>2. CliInv /\ TextsInv /\ NamesInv /\ [CliNext]_cliVars => CliInv' /\ TextsInv' /\ NamesInv'
  BY CliStepKeeps, TextsStep, NamesStep
<1>3. NamesInv => NamesFound
  <2>. SUFFICES ASSUME NamesInv PROVE NamesFound
    OBVIOUS
  <2>1. PICK ids : ids = registry.identifiers /\ TrieInv(ids)
    BY DEF NamesInv
  <2>2. ASSUME NEW name \in (registry.commands \ seen.shadowed) \cup DOMAIN registry.aliases
        PROVE  FindWithPrefix(ids, name) = name
    BY <2>1, WordFound DEF NamesInv
  <2>3. ASSUME seen.shadowed = {}, NEW prefix \in DOMAIN ids
        PROVE  LET words == FindAllWithPrefix(ids, prefix)
               IN words # {} /\ (Cardinality(words) = 1 => FindWithPrefix(ids, prefix) \in words)
    <3>1. PICK words : Counts(ids, words)
      BY <2>1, <2>3 DEF NamesInv
    <3>. QED
      BY <2>1, <3>1, OnlyWordFound
  <2>. QED
    BY <2>1, <2>2, <2>3 DEF NamesFound
<1>. QED
  BY <1>1, <1>2, <1>3, PTL DEF CliSpec
==============================================================================
