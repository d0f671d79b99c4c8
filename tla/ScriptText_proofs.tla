--------------------------- MODULE ScriptText_proofs --------------------------
(***************************************************************************)
(* Proofs about module ScriptText, for any texts over any symbols: the     *)
(* scanner stays inside the text, and it accepts exactly the texts of the  *)
(* language, as the commands that their pieces say.                        *)
(*                                                                         *)
(* The inductive invariant says where the scanner is in the cut of the     *)
(* text: the symbols before a place h are cut into pieces, every cut of    *)
(* the text begins with these (Reached), and from h to pos the scanner has *)
(* read a part of one piece more (InPiece).                                *)
(***************************************************************************)
EXTENDS ScriptText, WellFoundedInduction, FiniteSetTheorems, SequenceTheorems, TLAPS

Alphabet == Symbols \cup Special
Words == Seq(Seq(Alphabet))

-------------------------------------------------------------------------------
(* Positions. *)

(* A set of numbers has a least one. *)
LEMMA LeastExists ==
    ASSUME NEW T, T \subseteq Nat, T # {}
    PROVE  \E i \in T : \A j \in T : i <= j
<1> DEFINE Less == {p \in Nat \X Nat : p[1] < p[2]}
<1>1. IsWellFoundedOn(Less, Nat)
  BY NatLessThanWellFounded DEF OpToRel
<1>2. PICK i \in T : \A j \in T : <<j, i>> \notin Less
  BY <1>1, WFMin
<1>3. ASSUME NEW j \in T PROVE i <= j
  <2>1. i \in Nat /\ j \in Nat
    OBVIOUS
  <2>2. ~(j < i)
    BY <1>2, <2>1
  <2>3. QED
    BY <2>1, <2>2
<1>4. QED
  BY <1>3

(* The line that the scanner is in ends behind it, inside the text. *)
LEMMA LineEndInText ==
    ASSUME TypeOK
    PROVE  /\ text \in Seq(Alphabet) /\ Len(text) \in Nat /\ pos \in Nat
           /\ LineEnd \in pos..(Len(text) + 1)
           /\ LineEnd <= Len(text) => text[LineEnd] = "newline"
           /\ \A i \in pos..(LineEnd - 1) : text[i] # "newline"
<1> DEFINE ends == {i \in pos..Len(text) : text[i] = "newline"} \cup {Len(text) + 1}
<1>1. text \in Seq(Alphabet) /\ Len(text) \in Nat /\ pos \in Nat /\ pos <= Len(text) + 1
  BY TextAssumption DEF TypeOK, Alphabet
<1>2. ends \subseteq Nat /\ ends # {} /\ ends \subseteq pos..(Len(text) + 1)
  BY <1>1
<1>3. \E i \in ends : \A j \in ends : i <= j
  BY <1>2, LeastExists
<1>4. LineEnd \in ends /\ \A j \in ends : LineEnd <= j
  BY <1>3 DEF LineEnd
<1>5. ASSUME NEW i \in pos..(LineEnd - 1) PROVE text[i] # "newline"
  <2>1. i \in Nat /\ i < LineEnd /\ i \in pos..Len(text)
    BY <1>1, <1>2, <1>4
  <2>2. i \notin ends
    BY <1>2, <1>4, <2>1
  <2>3. QED
    BY <2>1, <2>2
<1>6. QED
  BY <1>1, <1>2, <1>4, <1>5

(* A scanner that is not at the end of its line sees a symbol of the text, *)
(* and the line goes on at least to the next one.                          *)
LEMMA NotAtEnd ==
    ASSUME TypeOK, ~AtEnd
    PROVE  /\ pos \in 1..Len(text) /\ pos + 1 \in 1..(Len(text) + 1)
           /\ text[pos] \in Alphabet
           /\ LineEnd \in (pos + 1)..(Len(text) + 1)
<1>1. /\ text \in Seq(Alphabet) /\ Len(text) \in Nat /\ pos \in Nat
      /\ LineEnd \in pos..(Len(text) + 1)
      /\ LineEnd <= Len(text) => text[LineEnd] = "newline"
  BY LineEndInText
<1>2. pos \in 1..(Len(text) + 1) /\ pos <= Len(text) /\ text[pos] # "newline"
  BY <1>1 DEF TypeOK, AtEnd
<1>3. LineEnd # pos
  BY <1>1, <1>2
<1>4. QED
  BY <1>1, <1>2, <1>3

(* Where a closing quote leaves the scanner: behind blanks, still in its   *)
(* line.                                                                   *)
LEMMA AfterQuote ==
    ASSUME TypeOK, ~AtEnd, CloseQuote
    PROVE  /\ pos' \in (pos + 1)..LineEnd
           /\ \A j \in (pos + 1)..(pos' - 1) : text[j] = "blank"
<1> DEFINE goals == {i \in (pos + 1)..LineEnd : i < LineEnd => text[i] # "blank"}
<1>1. pos \in Nat /\ LineEnd \in Nat /\ pos + 1 <= LineEnd
  BY NotAtEnd, LineEndInText
<1>2. goals \subseteq Nat /\ LineEnd \in goals
  BY <1>1
<1>3. PICK i \in goals : \A j \in goals : i <= j
  BY <1>2, LeastExists
<1>4. ASSUME NEW j \in (pos + 1)..(i - 1) PROVE text[j] = "blank"
  <2>1. i \in Nat /\ i <= LineEnd
    BY <1>1
  <2>2. j \in Nat /\ j < i /\ j \in (pos + 1)..LineEnd
    BY <1>1, <2>1
  <2>3. j \notin goals
    BY <1>2, <1>3, <2>1, <2>2
  <2>4. QED
    BY <2>2, <2>3
<1>5. \E k \in (pos + 1)..LineEnd :
         /\ \A j \in (pos + 1)..(k - 1) : text[j] = "blank"
         /\ k < LineEnd => text[k] # "blank"
  BY <1>4
<1>6. QED
  BY <1>5 DEF CloseQuote

-------------------------------------------------------------------------------
(* The table of commands.                                                  *)

(* parse_script_line accepts the words of a line exactly when they are a   *)
(* form of the documented table.                                           *)
THEOREM AcceptedIsDocumented ==
    ASSUME NEW line \in Words, line # <<>>
    PROVE  Accepted(line) <=> Documented(line)
<1> DEFINE Is(i, what) == line[i] = <<what>>
<1>1. Len(line) \in Nat /\ Len(line) > 0
  BY DEF Words
<1>2. Documented(line) <=>
         \/ Len(line) = 2 /\ Is(1, "type")
         \/ Len(line) = 2 /\ Is(1, "text")
         \/ Len(line) = 1 /\ Is(1, "stop")
         \/ Len(line) = 2 /\ Is(1, "wait") /\ IsNumber(line[2], Unsigned32)
         \/ Len(line) = 3 /\ Is(1, "key") /\ Is(2, "tap") /\ IsCombo(line[3])
         \/ Len(line) = 3 /\ Is(1, "key") /\ Is(2, "down") /\ IsCombo(line[3])
         \/ /\ Len(line) = 4 /\ Is(1, "mouse") /\ Is(2, "move")
            /\ IsNumber(line[3], Integers16) /\ IsNumber(line[4], Integers16)
         \/ /\ Len(line) = 3 /\ Is(1, "mouse") /\ Is(2, "wheel")
            /\ IsNumber(line[3], Integers8)
         \/ Len(line) = 3 /\ Is(1, "mouse") /\ Is(2, "click") /\ IsButton(line[3])
         \/ Len(line) = 3 /\ Is(1, "mouse") /\ Is(2, "down") /\ IsButton(line[3])
  <2> DEFINE Matches(form) == Len(form) = Len(line) /\ \A i \in 1..Len(form) : IsA(line[i], form[i])
  <2>1. ASSUME NEW x
        PROVE  Matches(<<x>>) <=> Len(line) = 1 /\ IsA(line[1], x)
    BY <1>1
  <2>2. ASSUME NEW x, NEW y
        PROVE  Matches(<<x, y>>) <=> Len(line) = 2 /\ IsA(line[1], x) /\ IsA(line[2], y)
    BY <1>1
  <2>3. ASSUME NEW x, NEW y, NEW z
        PROVE  Matches(<<x, y, z>>) <=>
                  Len(line) = 3 /\ IsA(line[1], x) /\ IsA(line[2], y) /\ IsA(line[3], z)
    BY <1>1
  <2>4. ASSUME NEW x, NEW y, NEW z, NEW u
        PROVE  Matches(<<x, y, z, u>>) <=>
                  Len(line) = 4 /\ IsA(line[1], x) /\ IsA(line[2], y) /\ IsA(line[3], z) /\ IsA(line[4], u)
    BY <1>1
  <2> HIDE DEF Matches
  <2>5. Documented(line) <=>
           \/ Matches(<<"type", "any">>) \/ Matches(<<"text", "any">>) \/ Matches(<<"stop">>)
           \/ Matches(<<"wait", "uint32">>)
           \/ Matches(<<"key", "tap", "combo">>) \/ Matches(<<"key", "down", "combo">>)
           \/ Matches(<<"mouse", "move", "int16", "int16">>) \/ Matches(<<"mouse", "wheel", "int8">>)
           \/ Matches(<<"mouse", "click", "button">>) \/ Matches(<<"mouse", "down", "button">>)
    <3>1. Documented(line) <=> \E form \in Forms : Matches(form)
      BY Zenon DEF Documented, Matches
    <3>2. QED
      BY <3>1, Zenon DEF Forms
  <2>6. \A word :
           /\ IsA(word, "any") /\ (IsA(word, "int8") <=> IsNumber(word, Integers8))
           /\ IsA(word, "int16") <=> IsNumber(word, Integers16)
           /\ IsA(word, "uint32") <=> IsNumber(word, Unsigned32)
           /\ IsA(word, "combo") <=> IsCombo(word)
           /\ IsA(word, "button") <=> IsButton(word)
           /\ \A what \in {"type", "text", "stop", "wait", "key", "tap", "down", "mouse", "move",
                             "wheel", "click"} : IsA(word, what) <=> word = <<what>>
    BY DEF IsA
  <2>7. QED
    BY <2>1, <2>2, <2>3, <2>4, <2>5, <2>6
<1>3. Accepted(line) <=>
         \/ (Is(1, "type") \/ Is(1, "text")) /\ Len(line) = 2
         \/ /\ Is(1, "key") /\ Len(line) = 3
            /\ (Is(2, "tap") \/ Is(2, "down")) /\ IsCombo(line[3])
         \/ /\ Is(1, "mouse") /\ Len(line) >= 2
            /\ \/ /\ Is(2, "move") /\ Len(line) = 4
                  /\ IsNumber(line[3], Integers16) /\ IsNumber(line[4], Integers16)
               \/ (Is(2, "click") \/ Is(2, "down")) /\ Len(line) = 3 /\ IsButton(line[3])
               \/ Is(2, "wheel") /\ Len(line) = 3 /\ IsNumber(line[3], Integers8)
         \/ Is(1, "wait") /\ Len(line) = 2 /\ IsNumber(line[2], Unsigned32)
         \/ Is(1, "stop") /\ Len(line) = 1
  BY DEF Accepted
<1> HIDE DEF Is
<1>4. QED
  BY <1>1, <1>2, <1>3

-------------------------------------------------------------------------------
(* The scanner.                                                            *)

(* What the words and commands of a line are made of. *)
LEMMA WordTypes ==
    ASSUME TypeOK
    PROVE  /\ words \in Words /\ current \in Seq(Alphabet)
           /\ commands \in Seq(Words) /\ EndWord(words) \in Words
<1>1. words \in Words /\ current \in Seq(Alphabet) /\ commands \in Seq(Words)
  BY DEF TypeOK, Words, Alphabet
<1>2. Append(words, current) \in Words
  BY <1>1, AppendProperties DEF Words
<1>3. QED
  BY <1>1, <1>2 DEF EndWord

(* Words are appended to, so they are not empty afterwards. *)
LEMMA AppendedIsSome ==
    ASSUME NEW S, NEW s \in Seq(S), NEW e \in S
    PROVE  Append(s, e) \in Seq(S) /\ Append(s, e) # <<>>
BY AppendProperties

(* No step leaves the types. *)
LEMMA TypePreserved ==
    ASSUME TypeOK, [Next]_vars
    PROVE  TypeOK'
<1> USE DEF Words
<1>1. /\ text \in Texts /\ text \in Seq(Alphabet) /\ Len(text) \in Nat /\ pos \in 1..(Len(text) + 1)
      /\ words \in Words /\ current \in Seq(Alphabet) /\ commands \in Seq(Words)
      /\ quoted \in BOOLEAN /\ outcome \in {"parsing", "parsed", "rejected"}
  BY WordTypes, LineEndInText DEF TypeOK
<1>2. SUFFICES /\ text' = text /\ pos' \in 1..(Len(text) + 1)
               /\ words' \in Words /\ current' \in Seq(Alphabet)
               /\ quoted' \in BOOLEAN
               /\ commands' \in Seq(Words)
               /\ outcome' \in {"parsing", "parsed", "rejected"}
  BY <1>1 DEF TypeOK, Alphabet
<1>3. CASE UNCHANGED vars \/ Reject
  BY <1>1, <1>3 DEF vars, Reject
<1>4. CASE CloseQuote
  <2>1. ~AtEnd
    BY <1>4 DEF CloseQuote, Sees
  <2>2. pos' \in (pos + 1)..LineEnd /\ LineEnd \in (pos + 1)..(Len(text) + 1)
    BY <1>4, <2>1, AfterQuote, NotAtEnd
  <2>3. pos' \in 1..(Len(text) + 1)
    BY <1>1, <2>2
  <2>4. Append(words, current) \in Words
    BY <1>1, AppendedIsSome
  <2>5. /\ words' = Append(words, current) /\ current' = <<>> /\ quoted' = FALSE
        /\ text' = text /\ commands' = commands /\ outcome' = outcome
    BY <1>4 DEF CloseQuote
  <2>6. <<>> \in Seq(Alphabet)
    OBVIOUS
  <2>7. QED
    BY <1>1, <2>3, <2>4, <2>5, <2>6
<1>5. CASE OpenQuote /\ ~Reject
  <2>1. ~AtEnd /\ pos' = pos + 1
    BY <1>5 DEF OpenQuote, Sees
  <2>2. pos' \in 1..(Len(text) + 1)
    BY <2>1, NotAtEnd
  <2>3. QED
    BY <1>1, <1>5, <2>2 DEF OpenQuote
<1>6. CASE Escape /\ ~Reject
  <2>1. ~AtEnd /\ pos' = pos + 2 /\ pos + 1 # LineEnd
    BY <1>6 DEF Escape, Sees
  <2>2. LineEnd \in (pos + 1)..(Len(text) + 1)
    BY <2>1, NotAtEnd
  <2>3. pos + 1 \in 1..Len(text) /\ pos' \in 1..(Len(text) + 1)
    BY <1>1, <2>1, <2>2
  <2>4. text[pos + 1] \in Alphabet
    BY <1>1, <2>3
  <2>5. Unescaped(text[pos + 1]) \in Alphabet
    BY <2>4 DEF Unescaped, Alphabet, Special
  <2>6. current' = Append(current, Unescaped(text[pos + 1]))
    BY <1>6 DEF Escape
  <2>7. current' \in Seq(Alphabet)
    BY <1>1, <2>5, <2>6, AppendedIsSome
  <2>8. QED
    BY <1>1, <1>6, <2>3, <2>7 DEF Escape
<1>7. CASE Separate
  <2>1. ~AtEnd /\ pos' = pos + 1
    BY <1>7 DEF Separate, Sees
  <2>2. pos' \in 1..(Len(text) + 1)
    BY <2>1, NotAtEnd
  <2>3. <<>> \in Seq(Alphabet)
    OBVIOUS
  <2>4. QED
    BY <1>1, <1>7, <2>2, <2>3, WordTypes DEF Separate
<1>8. CASE Comment
  <2>1. ~AtEnd /\ pos' = LineEnd
    BY <1>8 DEF Comment, CommentStarts, Sees
  <2>2. pos' \in 1..(Len(text) + 1)
    BY <1>1, <2>1, NotAtEnd
  <2>3. QED
    BY <1>1, <1>8, <2>2 DEF Comment
<1>9. CASE Ordinary
  <2>1. ~AtEnd /\ pos' = pos + 1 /\ current' = Append(current, text[pos])
    BY <1>9 DEF Ordinary
  <2>2. pos' \in 1..(Len(text) + 1) /\ text[pos] \in Alphabet
    BY <2>1, NotAtEnd
  <2>3. current' \in Seq(Alphabet)
    BY <1>1, <2>1, <2>2, AppendedIsSome
  <2>4. QED
    BY <1>1, <1>9, <2>2, <2>3 DEF Ordinary
<1>10. CASE EndLine /\ ~Reject
  <2>1. /\ commands' = IF EndWord(words) = <<>> THEN commands ELSE Append(commands, EndWord(words))
        /\ words' = <<>> /\ current' = <<>> /\ quoted' = FALSE /\ text' = text
        /\ \/ pos > Len(text) /\ outcome' = "parsed" /\ pos' = pos
           \/ ~(pos > Len(text)) /\ pos' = pos + 1 /\ outcome' = outcome
    BY <1>10 DEF EndLine
  <2>2. pos' \in 1..(Len(text) + 1)
    BY <1>1, <2>1
  <2>3. Append(commands, EndWord(words)) \in Seq(Words)
    BY <1>1, WordTypes, AppendedIsSome
  <2>4. <<>> \in Seq(Alphabet) /\ <<>> \in Seq(Seq(Alphabet))
    OBVIOUS
  <2>5. QED
    BY <1>1, <2>1, <2>2, <2>3, <2>4
<1>11. QED
  BY <1>3, <1>4, <1>5, <1>6, <1>7, <1>8, <1>9, <1>10 DEF Next


-------------------------------------------------------------------------------
(* Numbers in their order.                                                 *)

(* The ranks of n numbers are 1 to n. *)
LEMMA Ranks ==
    ASSUME NEW set, set \subseteq Nat, IsFiniteSet(set)
    PROVE  /\ Cardinality(set) \in Nat
           /\ \A i \in set : Rank(set, i) \in 1..Cardinality(set)
           /\ \A i, j \in set : Rank(set, i) = Rank(set, j) => i = j
           /\ \A k \in 1..Cardinality(set) : \E i \in set : Rank(set, i) = k
<1> DEFINE Upto(i) == {j \in set : j <= i}
           n == Cardinality(set)
<1>1. n \in Nat
  BY FS_CardinalityType
<1>2. ASSUME NEW i \in set
      PROVE  IsFiniteSet(Upto(i)) /\ Rank(set, i) = Cardinality(Upto(i)) /\ Rank(set, i) \in 1..n
  <2>1. Upto(i) \in SUBSET set /\ i \in Upto(i)
    OBVIOUS
  <2>2. IsFiniteSet(Upto(i)) /\ Cardinality(Upto(i)) <= n
    BY <2>1, FS_Subset
  <2>3. Cardinality(Upto(i)) \in Nat /\ Cardinality(Upto(i)) # 0
    BY <2>1, <2>2, FS_CardinalityType, FS_EmptySet
  <2>4. QED
    BY <1>1, <2>2, <2>3 DEF Rank
<1>3. ASSUME NEW i \in set, NEW j \in set, i < j
      PROVE  Rank(set, i) # Rank(set, j)
  <2>1. i \in Nat /\ j \in Nat /\ \A x \in set : x \in Nat
    OBVIOUS
  <2>2. \A x \in Nat : x <= i => x <= j
    BY <1>3, <2>1
  <2>3. Upto(i) \in SUBSET Upto(j)
    BY <2>1, <2>2
  <2>4. j <= j /\ ~(j <= i)
    BY <1>3, <2>1
  <2>5. j \in Upto(j) /\ j \notin Upto(i)
    BY <2>4
  <2>6. Cardinality(Upto(j)) # Cardinality(Upto(i))
    BY <1>2, <2>3, <2>5, FS_Subset
  <2>7. QED
    BY <1>2, <2>6
<1>4. ASSUME NEW i \in set, NEW j \in set, Rank(set, i) = Rank(set, j) PROVE i = j
  <2>1. i \in Nat /\ j \in Nat /\ ~(i < j) /\ ~(j < i)
    BY <1>3, <1>4
  <2>2. QED
    BY <2>1
<1> DEFINE rank == [i \in set |-> Rank(set, i)]
<1>5. rank \in Injection(set, 1..n)
  <2>1. rank \in [set -> 1..n]
    BY <1>2
  <2>2. \A i, j \in set : rank[i] = rank[j] => i = j
    BY <1>4
  <2> HIDE DEF rank
  <2>3. QED
    BY <2>1, <2>2 DEF Injection, IsInjective
<1>6. IsFiniteSet(1..n) /\ Cardinality(1..n) = n
  BY <1>1, FS_Interval
<1> HIDE DEF rank
<1>7. rank \in Surjection(set, 1..n)
  BY <1>5, <1>6, FS_Injection
<1>8. \A k \in 1..n : \E i \in set : rank[i] = k
  BY <1>7 DEF Surjection
<1>9. QED
  BY <1>1, <1>2, <1>4, <1>8 DEF rank

(* A function over 1..n is a sequence. *)
LEMMA FunctionIsSeq ==
    ASSUME NEW n \in Nat, NEW q, q = [k \in 1..n |-> q[k]]
    PROVE  q \in Seq({q[k] : k \in 1..n}) /\ Len(q) = n
<1>1. q \in [1..n -> {q[k] : k \in 1..n}]
  BY Zenon
<1>2. q \in Seq({q[k] : k \in 1..n})
  BY <1>1, SeqDef
<1>3. QED
  BY <1>1, <1>2, LenProperties

(* Numbers in their order are a function. *)
LEMMA OrderIsFunction ==
    ASSUME NEW set, NEW f
    PROVE  InOrder(set, f) = [k \in 1..Cardinality(set) |-> InOrder(set, f)[k]]
BY DEF InOrder

(* Nothing in its order is nothing. *)
LEMMA OrderNone ==
    ASSUME NEW f
    PROVE  InOrder({}, f) = <<>>
<1>1. Cardinality({}) = 0
  BY FS_EmptySet
<1>2. 1..Cardinality({}) = {}
  BY <1>1
<1>3. QED
  BY <1>2 DEF InOrder

(* A set with a number has a sequence that is not empty. *)
LEMMA OrderSome ==
    ASSUME NEW set, set \subseteq Nat, IsFiniteSet(set), NEW f, set # {}
    PROVE  InOrder(set, f) # <<>>
<1>1. Cardinality(set) \in Nat /\ Cardinality(set) # 0
  BY FS_CardinalityType, FS_EmptySet
<1>2. DOMAIN InOrder(set, f) = 1..Cardinality(set) /\ 1 \in 1..Cardinality(set)
  BY <1>1 DEF InOrder
<1>3. DOMAIN <<>> = {}
  OBVIOUS
<1>4. QED
  BY <1>2, <1>3

(* One number more, behind the others. *)
LEMMA OrderMore ==
    ASSUME NEW set, set \subseteq Nat, IsFiniteSet(set),
           NEW m \in Nat, \A i \in set : i < m,
           NEW f, NEW g, \A i \in set : g[i] = f[i]
    PROVE  InOrder(set \cup {m}, g) = Append(InOrder(set, f), g[m])
<1> DEFINE n == Cardinality(set)
           all == set \cup {m}
           old == InOrder(set, f)
           new == InOrder(all, g)
           At(T, k) == CHOOSE i \in T : Rank(T, i) = k
<1>1. n \in Nat /\ all \subseteq Nat /\ m \notin set
  <2>1. n \in Nat
    BY Ranks
  <2>2. ~(m < m) /\ set \subseteq Nat
    OBVIOUS
  <2>3. m \notin set
    BY <2>2
  <2>4. QED
    BY <2>1, <2>2, <2>3
<1>2. IsFiniteSet(all) /\ Cardinality(all) = n + 1
  BY <1>1, FS_AddElement
<1>3. \A i \in set : Rank(all, i) = Rank(set, i)
  <2> SUFFICES ASSUME NEW i \in set PROVE Rank(all, i) = Rank(set, i)
    OBVIOUS
  <2>1. {j \in all : j <= i} = {j \in set : j <= i}
    BY <1>1
  <2>2. QED
    BY <2>1 DEF Rank
<1>4. Rank(all, m) = n + 1
  <2>1. \A j \in all : j \in Nat /\ (j < m \/ j = m)
    BY <1>1
  <2>2. \A j \in all : j <= m
    BY <2>1
  <2>3. {j \in all : j <= m} = all
    BY <2>2
  <2>4. QED
    BY <1>2, <2>3 DEF Rank
<1>5. ASSUME NEW k \in 1..n PROVE new[k] = old[k]
  <2>1. PICK i \in set : Rank(set, i) = k
    BY Ranks
  <2>2. At(set, k) = i
    BY <2>1, Ranks
  <2>3. \A j \in all : Rank(all, j) = k => j = i
    <3> SUFFICES ASSUME NEW j \in all, Rank(all, j) = k PROVE j = i
      OBVIOUS
    <3>1. j # m
      BY <1>1, <1>4
    <3>2. Rank(set, j) = k /\ j \in set
      BY <1>3, <3>1
    <3>3. QED
      BY <2>1, <3>2, Ranks
  <2>4. At(all, k) = i
    BY <1>3, <2>1, <2>3
  <2>5. k \in 1..Cardinality(all)
    BY <1>1, <1>2
  <2>6. new[k] = g[At(all, k)] /\ old[k] = f[At(set, k)]
    BY <2>5, Zenon DEF InOrder
  <2>7. QED
    BY <2>1, <2>2, <2>4, <2>6
<1>6. new[n + 1] = g[m]
  <2>1. \A j \in all : Rank(all, j) = n + 1 => j = m
    <3> SUFFICES ASSUME NEW j \in set, Rank(all, j) = n + 1 PROVE FALSE
      OBVIOUS
    <3>1. Rank(set, j) \in 1..n
      BY Ranks
    <3>2. Rank(set, j) = n + 1
      BY <1>3
    <3>3. QED
      BY <1>1, <3>1, <3>2
  <2>2. At(all, n + 1) = m
    BY <1>4, <2>1
  <2>3. n + 1 \in 1..Cardinality(all)
    BY <1>1, <1>2
  <2>4. new[n + 1] = g[At(all, n + 1)]
    BY <2>3, Zenon DEF InOrder
  <2>5. QED
    BY <2>2, <2>4
<1>7. new = [k \in 1..(n + 1) |-> new[k]] /\ old = [k \in 1..n |-> old[k]]
  <2>1. new = [k \in 1..Cardinality(all) |-> new[k]] /\ old = [k \in 1..Cardinality(set) |-> old[k]]
    BY OrderIsFunction, Zenon
  <2>2. QED
    BY <1>2, <2>1
<1> HIDE DEF new, old, all, n
<1> DEFINE S == {old[k] : k \in 1..n} \cup {new[k] : k \in 1..(n + 1)}
<1>8. /\ old \in Seq(S) /\ Len(old) = n /\ new \in Seq(S) /\ Len(new) = n + 1
  <2>1. old \in Seq({old[k] : k \in 1..n}) /\ Len(old) = n
    BY <1>1, <1>7, FunctionIsSeq
  <2>2. n + 1 \in Nat
    BY <1>1
  <2>3. new \in Seq({new[k] : k \in 1..(n + 1)}) /\ Len(new) = n + 1
    BY <1>7, <2>2, FunctionIsSeq
  <2>4. \A T \in SUBSET S : Seq(T) \subseteq Seq(S)
    OBVIOUS
  <2>5. QED
    BY <2>1, <2>3, <2>4
<1>9. g[m] \in S
  <2>1. n + 1 \in 1..(n + 1)
    BY <1>1
  <2>2. QED
    BY <1>6, <2>1
<1> HIDE DEF S
<1>10. /\ Append(old, g[m]) \in Seq(S) /\ Len(Append(old, g[m])) = n + 1
       /\ \A k \in 1..n : Append(old, g[m])[k] = old[k]
       /\ Append(old, g[m])[n + 1] = g[m]
  BY <1>8, <1>9, AppendProperties
<1>11. \A k \in 1..(n + 1) : k \in 1..n \/ k = n + 1
  BY <1>1
<1>12. \A k \in 1..(n + 1) : new[k] = Append(old, g[m])[k]
  BY <1>5, <1>6, <1>10, <1>11
<1>13. new = Append(old, g[m])
  BY <1>8, <1>10, <1>12, SeqEqual
<1>14. QED
  BY <1>13 DEF new, old, all

-------------------------------------------------------------------------------
(* Backslashes.                                                            *)

(* In quotes, a symbol is escaped if and only if the one before it is a    *)
(* backslash that is not.                                                  *)
LEMMA EscapedNext ==
    ASSUME NEW s, NEW a \in Nat, s[a] # "backslash"
    PROVE  /\ ~Escaped(s, a, a + 1)
           /\ \A i \in Nat : i > a =>
                 (Escaped(s, a, i + 1) <=> s[i] = "backslash" /\ ~Escaped(s, a, i))
<1>1. ~Escaped(s, a, a + 1)
  BY DEF Escaped
<1> SUFFICES ASSUME NEW i \in Nat, i > a
             PROVE  Escaped(s, a, i + 1) <=> s[i] = "backslash" /\ ~Escaped(s, a, i)
  BY <1>1
<1> DEFINE Last(n, j) == /\ j \in a..(n - 1) /\ s[j] # "backslash"
                         /\ \A k \in (j + 1)..(n - 1) : s[k] = "backslash"
<1>2. \A n : Escaped(s, a, n) <=> \E j : Last(n, j) /\ (n - 1 - j) % 2 = 1
  BY DEF Escaped
<1>3. CASE s[i] # "backslash"
  <2>1. \A j : Last(i + 1, j) => j = i
    BY <1>3
  <2>2. (i + 1 - 1 - i) % 2 # 1
    OBVIOUS
  <2>3. QED
    BY <1>2, <1>3, <2>1, <2>2
<1>4. CASE s[i] = "backslash"
  <2>1. \E j : Last(i, j)
    <3> DEFINE T == {d \in 1..(i - a) : s[i - d] # "backslash"}
    <3>1. i - a \in T /\ T \subseteq Nat
      BY i - (i - a) = a
    <3>2. PICK d \in T : \A e \in T : d <= e
      BY <3>1, LeastExists
    <3>3. d \in Nat /\ i - d \in a..(i - 1) /\ s[i - d] # "backslash"
      BY <3>1, <3>2
    <3>4. ASSUME NEW k \in (i - d + 1)..(i - 1) PROVE s[k] = "backslash"
      <4>1. i - k \in 1..(i - a) /\ i - k < d /\ i - (i - k) = k /\ i - k \in Nat
        BY <3>3
      <4>2. i - k \notin T
        BY <3>2, <3>3, <4>1
      <4>3. QED
        BY <4>1, <4>2
    <3>5. QED
      BY <3>3, <3>4
  <2>2. PICK j : Last(i, j)
    BY <2>1
  <2>3. j \in Nat /\ j < i
    BY <2>2
  <2>4. \A n : Last(i, n) => n = j
    <3> SUFFICES ASSUME NEW n, Last(i, n) PROVE n = j
      OBVIOUS
    <3>1. n \in a..(i - 1) /\ j \in a..(i - 1)
      BY <2>2
    <3>2. ~(n \in (j + 1)..(i - 1)) /\ ~(j \in (n + 1)..(i - 1))
      BY <2>2
    <3>3. QED
      BY <3>1, <3>2
  <2>5. \A n : Last(i + 1, n) <=> Last(i, n)
    BY <1>4
  <2> HIDE DEF Last
  <2>6. Escaped(s, a, i) <=> (i - 1 - j) % 2 = 1
    BY <1>2, <2>2, <2>4
  <2>7. Escaped(s, a, i + 1) <=> (i + 1 - 1 - j) % 2 = 1
    <3>1. Escaped(s, a, i + 1) <=> \E n : Last(i + 1, n) /\ (i + 1 - 1 - n) % 2 = 1
      BY DEF Escaped, Last
    <3>2. QED
      BY <2>2, <2>4, <2>5, <3>1
  <2>8. (i + 1 - 1 - j) % 2 = 1 <=> ~((i - 1 - j) % 2 = 1)
    BY <2>3
  <2>9. QED
    BY <1>4, <2>6, <2>7, <2>8
<1>5. QED
  BY <1>3, <1>4

-------------------------------------------------------------------------------
(* Pieces.                                                                 *)

(* A piece has one end. *)
LEMMA OnePiece ==
    ASSUME NEW s \in Seq(Alphabet), NEW a \in 1..Len(s),
           NEW b \in a..Len(s), NEW c \in a..Len(s), IsPiece(s, a, b), IsPiece(s, a, c)
    PROVE  b = c
<1>1. ASSUME NEW x \in a..Len(s), NEW y \in a..Len(s), IsPiece(s, a, x), IsPiece(s, a, y), x < y
      PROVE  FALSE
  <2>1. /\ Len(s) \in Nat /\ a \in 1..Len(s) /\ a \in a..x /\ a \in a..y
        /\ x \in a..y /\ x + 1 \in a..y /\ x # Len(s) /\ a # y
        /\ x \in (a + 1)..(y - 1) \/ x = a
    BY <1>1
  <2>2. CASE IsBlank(s, a, x)
    BY <1>1, <2>1, <2>2 DEF IsPiece, IsBlank, IsBare, IsComment, IsQuoted, Between
  <2>3. CASE IsBare(s, a, x)
    BY <1>1, <2>1, <2>3 DEF IsPiece, IsBlank, IsBare, IsComment, IsQuoted, Between, Ends
  <2>4. CASE IsComment(s, a, x)
    BY <1>1, <2>1, <2>4 DEF IsPiece, IsBlank, IsBare, IsComment, IsQuoted, Between, Ends
  <2>5. CASE IsQuoted(s, a, x)
    BY <1>1, <2>1, <2>5 DEF IsPiece, IsBlank, IsBare, IsComment, IsQuoted, Between
  <2>6. QED
    BY <1>1, <2>2, <2>3, <2>4, <2>5 DEF IsPiece
<1>2. ~(b < c) /\ ~(c < b)
  BY <1>1
<1>3. QED
  BY <1>2

(* The word of a piece whose end is known. *)
LEMMA WordOfPiece ==
    ASSUME NEW s \in Seq(Alphabet), NEW a \in 1..Len(s), NEW b \in a..Len(s), IsPiece(s, a, b)
    PROVE  WordAt(s, a) = IF s[a] = "quote" THEN InOrder(Kept(s, a, b), Meant(s, a))
                          ELSE SubSeq(s, a, b)
<1>1. (CHOOSE n \in a..Len(s) : IsPiece(s, a, n)) = b
  BY OnePiece
<1>2. QED
  BY <1>1 DEF WordAt

(* A newline is a piece of its own. *)
LEMMA PieceInLine ==
    ASSUME NEW s \in Seq(Alphabet), NEW a \in 1..Len(s), NEW b \in a..Len(s), IsPiece(s, a, b),
           s[a] # "newline"
    PROVE  \A i \in a..b : s[i] # "newline"
<1>1. Len(s) \in Nat /\ \A i \in a..b : i = a \/ i = b \/ i \in (a + 1)..(b - 1)
  OBVIOUS
<1>2. QED
  BY <1>1 DEF IsPiece, IsBlank, IsBare, IsComment, IsQuoted, Between

-------------------------------------------------------------------------------
(* What has been read.                                                     *)

(* The symbols before h fall into pieces that begin at the places of S,    *)
(* and every cut of the text begins so.                                    *)
Pieced(s, S, h) ==
    /\ h \in 1..(Len(s) + 1) /\ S \subseteq 1..(h - 1)
    /\ h > 1 => 1 \in S
    /\ \A a \in S : \E b \in a..(h - 1) :
          /\ IsPiece(s, a, b)
          /\ \A i \in (a + 1)..b : i \notin S
          /\ b + 1 = h \/ b + 1 \in S
Forced(s, S, h) ==
    \A cut \in Cuts(s) :
        /\ \A i \in 1..(h - 1) : i \in cut <=> i \in S
        /\ h <= Len(s) => h \in cut

(* The lines that end before h. *)
LinesRead(s, cut, h) ==
    LET ends == {e \in LineEnds(s) : e < h /\ WordsOf(s, cut, e) # <<>>}
    IN  InOrder(ends, [e \in ends |-> WordsOf(s, cut, e)])

(* The words and commands that stand before h. *)
Reached(s, S, h, list, done) ==
    /\ Pieced(s, S, h) /\ Forced(s, S, h)
    /\ list = WordsOf(s, S, h)
    /\ \A e \in LineEnds(s) :
          e < h => WordsOf(s, S, e) = <<>> \/ Documented(WordsOf(s, S, e))
    /\ done = LinesRead(s, S, h)

(* One piece more. *)
LEMMA NextCut ==
    ASSUME NEW s \in Seq(Alphabet), NEW S, NEW h \in 1..Len(s), NEW b \in h..Len(s),
           Pieced(s, S, h), Forced(s, S, h), IsPiece(s, h, b)
    PROVE  Pieced(s, S \cup {h}, b + 1) /\ Forced(s, S \cup {h}, b + 1)
<1> DEFINE new == S \cup {h}
<1>1. Len(s) \in Nat /\ h \in Nat /\ b \in Nat /\ S \subseteq 1..(h - 1)
  BY DEF Pieced
<1>2. Pieced(s, new, b + 1)
  <2>1. b + 1 \in 1..(Len(s) + 1) /\ new \subseteq 1..(b + 1 - 1) /\ 1 \in new
    <3>1. h = 1 \/ h > 1
      BY <1>1
    <3>2. QED
      BY <1>1, <3>1 DEF Pieced
  <2>2. ASSUME NEW a \in S
        PROVE  \E c \in a..(b + 1 - 1) :
                  /\ IsPiece(s, a, c) /\ \A i \in (a + 1)..c : i \notin new
                  /\ c + 1 = b + 1 \/ c + 1 \in new
    <3>1. PICK c \in a..(h - 1) :
             /\ IsPiece(s, a, c)
             /\ \A i \in (a + 1)..c : i \notin S
             /\ c + 1 = h \/ c + 1 \in S
      BY DEF Pieced
    <3>2. a \in Nat /\ c \in a..(b + 1 - 1) /\ \A i \in (a + 1)..c : i # h
      BY <1>1
    <3>3. QED
      BY <3>1, <3>2
  <2>3. \E c \in h..(b + 1 - 1) :
           /\ IsPiece(s, h, c) /\ \A i \in (h + 1)..c : i \notin new
           /\ c + 1 = b + 1 \/ c + 1 \in new
    <3>1. \A i \in (h + 1)..b : i \notin new
      BY <1>1
    <3>2. b \in h..(b + 1 - 1)
      BY <1>1
    <3>3. QED
      BY <3>1, <3>2
  <2>4. ASSUME NEW a \in new
        PROVE  \E c \in a..(b + 1 - 1) :
                  /\ IsPiece(s, a, c) /\ \A i \in (a + 1)..c : i \notin new
                  /\ c + 1 = b + 1 \/ c + 1 \in new
    <3>1. a \in S \/ a = h
      OBVIOUS
    <3>2. QED
      BY <2>2, <2>3, <3>1
  <2> HIDE DEF new
  <2>5. QED
    BY <2>1, <2>4 DEF Pieced
<1>3. ASSUME NEW cut \in Cuts(s)
      PROVE  /\ \A i \in 1..(b + 1 - 1) : i \in cut <=> i \in new
             /\ b + 1 <= Len(s) => b + 1 \in cut
  <2>1. h \in cut /\ \A i \in 1..(h - 1) : i \in cut <=> i \in S
    BY <1>1 DEF Forced
  <2>2. PICK c \in h..Len(s) :
           /\ IsPiece(s, h, c)
           /\ \A i \in (h + 1)..c : i \notin cut
           /\ c = Len(s) \/ c + 1 \in cut
    BY <2>1 DEF Cuts
  <2>3. c = b
    BY <2>2, OnePiece
  <2>4. b + 1 <= Len(s) => b + 1 \in cut
    BY <1>1, <2>2, <2>3
  <2>5. \A i \in 1..(b + 1 - 1) : i \in 1..(h - 1) \/ i = h \/ i \in (h + 1)..b
    BY <1>1
  <2>6. \A i \in (h + 1)..b : i \notin new /\ i \notin cut
    BY <1>1, <2>2, <2>3
  <2>7. \A i \in 1..(h - 1) : i # h
    BY <1>1
  <2>8. QED
    BY <2>1, <2>4, <2>5, <2>6, <2>7
<1>4. Forced(s, new, b + 1)
  BY <1>3 DEF Forced
<1>5. QED
  BY <1>2, <1>4

(* The words before e depend on the pieces before e only. *)
LEMMA SameWords ==
    ASSUME NEW s \in Seq(Alphabet), NEW e \in Nat, NEW S, NEW R,
           \A i \in 1..(e - 1) : i \in S <=> i \in R
    PROVE  WordsOf(s, S, e) = WordsOf(s, R, e)
<1>1. {a \in S \cap Line(s, e) : s[a] \notin {"blank", "hash"}}
          = {a \in R \cap Line(s, e) : s[a] \notin {"blank", "hash"}}
  BY DEF Line
<1>2. QED
  BY <1>1 DEF WordsOf

(* The words of the line before h, with one piece more. *)
LEMMA NextWords ==
    ASSUME NEW s \in Seq(Alphabet), NEW h \in 1..Len(s), NEW b \in h..Len(s),
           NEW S, S \subseteq 1..(h - 1), IsPiece(s, h, b), s[h] # "newline"
    PROVE  WordsOf(s, S \cup {h}, b + 1) =
               IF s[h] \in {"blank", "hash"} THEN WordsOf(s, S, h)
               ELSE Append(WordsOf(s, S, h), WordAt(s, h))
<1> DEFINE Starts(R, e) == {a \in R \cap Line(s, e) : s[a] \notin {"blank", "hash"}}
           f == [a \in Starts(S, h) |-> WordAt(s, a)]
<1>1. Len(s) \in Nat /\ h \in Nat /\ b \in Nat
  OBVIOUS
<1>2. \A i \in h..b : s[i] # "newline"
  BY PieceInLine
<1>3. ASSUME NEW i \in 1..(h - 1) PROVE i \in Line(s, b + 1) <=> i \in Line(s, h)
  <2>1. i \in 1..(b + 1 - 1) /\ \A j \in i..(b + 1 - 1) : j \in i..(h - 1) \/ j \in h..b
    BY <1>1
  <2>2. \A j \in i..(h - 1) : j \in i..(b + 1 - 1)
    BY <1>1
  <2>3. QED
    BY <1>2, <2>1, <2>2 DEF Line
<1>4. h \in Line(s, b + 1) /\ h \notin Line(s, h)
  BY <1>1, <1>2 DEF Line
<1>5. Starts(S \cup {h}, b + 1) =
         IF s[h] \in {"blank", "hash"} THEN Starts(S, h) ELSE Starts(S, h) \cup {h}
  BY <1>3, <1>4
<1>6. WordsOf(s, S, h) = InOrder(Starts(S, h), f)
  BY DEF WordsOf
<1>7. CASE s[h] \in {"blank", "hash"}
  <2>1. Starts(S \cup {h}, b + 1) = Starts(S, h)
    BY <1>5, <1>7
  <2>2. QED
    BY <1>7, <2>1 DEF WordsOf
<1>8. CASE s[h] \notin {"blank", "hash"}
  <2> DEFINE old == Starts(S, h)
             g == [a \in old \cup {h} |-> WordAt(s, a)]
  <2>1. Starts(S \cup {h}, b + 1) = old \cup {h}
    BY <1>5, <1>8
  <2>2. WordsOf(s, S \cup {h}, b + 1) = InOrder(old \cup {h}, g)
    BY <2>1 DEF WordsOf
  <2>3. old \subseteq Nat /\ (\A i \in old : i < h) /\ IsFiniteSet(old)
    <3>1. old \subseteq 1..(h - 1)
      OBVIOUS
    <3>2. IsFiniteSet(1..(h - 1))
      BY <1>1, FS_Interval
    <3>3. IsFiniteSet(old)
      BY <3>1, <3>2, FS_Subset
    <3>4. QED
      BY <1>1, <3>1, <3>3
  <2>4. (\A i \in old : g[i] = f[i]) /\ g[h] = WordAt(s, h)
    OBVIOUS
  <2> HIDE DEF old, f, g
  <2>5. InOrder(old \cup {h}, g) = Append(InOrder(old, f), g[h])
    <3>1. old \subseteq Nat /\ IsFiniteSet(old) /\ h \in Nat /\ (\A i \in old : i < h)
      BY <1>1, <2>3
    <3>2. \A i \in old : g[i] = f[i]
      BY <2>4
    <3> HIDE DEF Starts
    <3>3. \A F, G : (\A i \in old : G[i] = F[i]) =>
             InOrder(old \cup {h}, G) = Append(InOrder(old, F), G[h])
      BY <3>1, OrderMore
    <3>4. QED
      BY <3>2, <3>3
  <2>6. InOrder(old, f) = WordsOf(s, S, h)
    BY <1>6 DEF old
  <2>7. QED
    BY <1>8, <2>2, <2>4, <2>5, <2>6
<1>9. QED
  BY <1>7, <1>8

-------------------------------------------------------------------------------

(* Line ends are places of the text, or the one behind it. *)
LEMMA LineEndsInText ==
    ASSUME NEW s \in Seq(Alphabet)
    PROVE  /\ LineEnds(s) \subseteq 1..(Len(s) + 1) /\ LineEnds(s) \subseteq Nat
           /\ IsFiniteSet(LineEnds(s))
<1>1. Len(s) \in Nat /\ Len(s) + 1 \in Nat
  OBVIOUS
<1>2. LineEnds(s) \subseteq 1..(Len(s) + 1)
  BY <1>1 DEF LineEnds
<1>3. IsFiniteSet(1..(Len(s) + 1)) /\ 1..(Len(s) + 1) \subseteq Nat
  BY <1>1, FS_Interval
<1>4. QED
  BY <1>2, <1>3, FS_Subset

(* Without a line end in between, no more lines have been read. *)
LEMMA SameLines ==
    ASSUME NEW s \in Seq(Alphabet), NEW h \in Nat, NEW q \in Nat, h <= q,
           \A e \in LineEnds(s) : e < q => e < h,
           NEW S, NEW R, \A i \in 1..(h - 1) : i \in S <=> i \in R
    PROVE  /\ LinesRead(s, S, h) = LinesRead(s, R, q)
           /\ \A e \in LineEnds(s) : e < q => WordsOf(s, S, e) = WordsOf(s, R, e)
<1> DEFINE Ends1 == {e \in LineEnds(s) : e < h /\ WordsOf(s, S, e) # <<>>}
           Ends2 == {e \in LineEnds(s) : e < q /\ WordsOf(s, R, e) # <<>>}
<1>1. ASSUME NEW e \in LineEnds(s), e < h PROVE WordsOf(s, S, e) = WordsOf(s, R, e)
  <2>1. e \in Nat /\ \A i \in 1..(e - 1) : i \in 1..(h - 1)
    BY <1>1, LineEndsInText
  <2>2. QED
    BY <2>1, SameWords
<1>2. \A e \in LineEnds(s) : e < q <=> e < h
  BY LineEndsInText
<1>3. Ends1 = Ends2
  BY <1>1, <1>2
<1>4. [e \in Ends1 |-> WordsOf(s, S, e)] = [e \in Ends2 |-> WordsOf(s, R, e)]
  BY <1>1, <1>3
<1>5. LinesRead(s, S, h) = InOrder(Ends1, [e \in Ends1 |-> WordsOf(s, S, e)])
  BY DEF LinesRead
<1>6. LinesRead(s, R, q) = InOrder(Ends2, [e \in Ends2 |-> WordsOf(s, R, e)])
  BY DEF LinesRead
<1> HIDE DEF Ends1, Ends2
<1>7. LinesRead(s, S, h) = LinesRead(s, R, q)
  BY <1>3, <1>4, <1>5, <1>6
<1>8. QED
  BY <1>1, <1>7

(* At a line end the words before it are one line more, if there are any. *)
LEMMA NextLines ==
    ASSUME NEW s \in Seq(Alphabet), NEW m \in LineEnds(s), NEW S
    PROVE  LinesRead(s, S, m + 1) =
               IF WordsOf(s, S, m) = <<>> THEN LinesRead(s, S, m)
               ELSE Append(LinesRead(s, S, m), WordsOf(s, S, m))
<1> DEFINE Read(h) == {e \in LineEnds(s) : e < h /\ WordsOf(s, S, e) # <<>>}
           Of(h) == [e \in Read(h) |-> WordsOf(s, S, e)]
<1>1. m \in Nat /\ LineEnds(s) \subseteq Nat /\ IsFiniteSet(LineEnds(s))
  BY LineEndsInText
<1>2. /\ LinesRead(s, S, m) = InOrder(Read(m), Of(m))
      /\ LinesRead(s, S, m + 1) = InOrder(Read(m + 1), Of(m + 1))
  BY DEF LinesRead
<1>3. \A e \in LineEnds(s) : e < m + 1 <=> e < m \/ e = m
  BY <1>1
<1>4. CASE WordsOf(s, S, m) = <<>>
  <2>1. Read(m + 1) = Read(m)
    BY <1>3, <1>4
  <2>2. QED
    BY <1>2, <1>4, <2>1
<1>5. CASE WordsOf(s, S, m) # <<>>
  <2> DEFINE old == Read(m)
             f == Of(m)
             g == Of(m + 1)
  <2>1. Read(m + 1) = old \cup {m}
    BY <1>3, <1>5
  <2>2. old \subseteq Nat /\ IsFiniteSet(old) /\ (\A e \in old : e < m)
    <3>1. old \subseteq LineEnds(s)
      OBVIOUS
    <3>2. QED
      BY <1>1, <3>1, FS_Subset
  <2>3. \A F, G : (\A e \in old : G[e] = F[e]) =>
           InOrder(old \cup {m}, G) = Append(InOrder(old, F), G[m])
    <3> HIDE DEF old
    <3>1. QED
      BY <1>1, <2>2, OrderMore
  <2>4. (\A e \in old : g[e] = f[e]) /\ g[m] = WordsOf(s, S, m)
    BY <2>1
  <2> HIDE DEF old, f, g
  <2>5. InOrder(old \cup {m}, g) = Append(InOrder(old, f), WordsOf(s, S, m))
    BY <2>3, <2>4
  <2>6. LinesRead(s, S, m) = InOrder(old, f) /\ LinesRead(s, S, m + 1) = InOrder(old \cup {m}, g)
    BY <1>2, <2>1 DEF old, f, g
  <2>7. QED
    BY <1>5, <2>5, <2>6
<1>6. QED
  BY <1>4, <1>5

(* The reading of a text is what stands before a line end more. *)
LEMMA ReadingIsLines ==
    ASSUME NEW s \in Seq(Alphabet), NEW S
    PROVE  Reading(s, S) = LinesRead(s, S, Len(s) + 2)
<1>1. Len(s) \in Nat /\ \A e \in LineEnds(s) : e < Len(s) + 2
  BY LineEndsInText
<1>2. {e \in LineEnds(s) : e < Len(s) + 2 /\ WordsOf(s, S, e) # <<>>}
          = {e \in LineEnds(s) : WordsOf(s, S, e) # <<>>}
  BY <1>1
<1>3. QED
  BY <1>2 DEF Reading, LinesRead

(* One piece more in the line. *)
LEMMA NextPiece ==
    ASSUME NEW s \in Seq(Alphabet), NEW S, NEW h \in 1..Len(s), NEW b \in h..Len(s),
           NEW list, NEW done, Reached(s, S, h, list, done),
           IsPiece(s, h, b), s[h] # "newline"
    PROVE  Reached(s, S \cup {h}, b + 1,
                   IF s[h] \in {"blank", "hash"} THEN list ELSE Append(list, WordAt(s, h)), done)
<1> DEFINE new == S \cup {h}
<1>1. Len(s) \in Nat /\ h \in Nat /\ b \in Nat /\ b + 1 \in Nat /\ h <= b + 1
  OBVIOUS
<1>2. Pieced(s, S, h) /\ Forced(s, S, h) /\ S \subseteq 1..(h - 1)
  BY DEF Reached, Pieced
<1>3. Pieced(s, new, b + 1) /\ Forced(s, new, b + 1)
  BY <1>2, NextCut
<1>4. WordsOf(s, new, b + 1) =
         IF s[h] \in {"blank", "hash"} THEN WordsOf(s, S, h)
         ELSE Append(WordsOf(s, S, h), WordAt(s, h))
  BY <1>2, NextWords
<1>5. \A e \in LineEnds(s) : e < b + 1 => e < h
  <2> SUFFICES ASSUME NEW e \in LineEnds(s), e < b + 1, ~(e < h) PROVE FALSE
    OBVIOUS
  <2>1. e \in Nat /\ e \in h..b /\ e # Len(s) + 1
    BY <1>1, LineEndsInText
  <2>2. s[e] = "newline"
    BY <2>1 DEF LineEnds
  <2>3. QED
    BY <2>1, <2>2, PieceInLine
<1>6. \A i \in 1..(h - 1) : i \in S <=> i \in new
  BY <1>1
<1> HIDE DEF new
<1>7. /\ LinesRead(s, S, h) = LinesRead(s, new, b + 1)
      /\ \A e \in LineEnds(s) : e < b + 1 => WordsOf(s, S, e) = WordsOf(s, new, e)
  BY <1>1, <1>5, <1>6, SameLines
<1>8. Reached(s, new, b + 1,
              IF s[h] \in {"blank", "hash"} THEN list ELSE Append(list, WordAt(s, h)), done)
  BY <1>3, <1>4, <1>5, <1>7 DEF Reached
<1>9. QED
  BY <1>8 DEF new

(* One newline more. *)
LEMMA NextLine ==
    ASSUME NEW s \in Seq(Alphabet), NEW S, NEW h \in 1..Len(s), s[h] = "newline",
           NEW list, NEW done, Reached(s, S, h, list, done),
           list = <<>> \/ Documented(list)
    PROVE  Reached(s, S \cup {h}, h + 1, <<>>, IF list = <<>> THEN done ELSE Append(done, list))
<1> DEFINE new == S \cup {h}
<1>1. Len(s) \in Nat /\ h \in Nat /\ h \in h..Len(s) /\ h \in LineEnds(s)
  BY DEF LineEnds
<1>2. Pieced(s, S, h) /\ Forced(s, S, h) /\ list = WordsOf(s, S, h) /\ done = LinesRead(s, S, h)
  BY DEF Reached
<1>3. IsPiece(s, h, h)
  BY DEF IsPiece, IsBlank, Between
<1>4. Pieced(s, new, h + 1) /\ Forced(s, new, h + 1)
  BY <1>1, <1>2, <1>3, NextCut
<1>5. \A i \in 1..(h - 1) : i \in S <=> i \in new
  BY <1>1
<1> HIDE DEF new
<1>6. WordsOf(s, new, h + 1) = <<>>
  <2>1. Line(s, h + 1) = {}
    BY <1>1 DEF Line
  <2> DEFINE starts == {a \in new \cap Line(s, h + 1) : s[a] \notin {"blank", "hash"}}
  <2>2. starts = {}
    BY <2>1
  <2>3. WordsOf(s, new, h + 1) = InOrder(starts, [a \in starts |-> WordAt(s, a)])
    BY DEF WordsOf
  <2>4. QED
    BY <2>2, <2>3, OrderNone
<1>7. WordsOf(s, new, h) = list
  BY <1>1, <1>2, <1>5, SameWords
<1>8. /\ LinesRead(s, S, h) = LinesRead(s, new, h)
      /\ \A e \in LineEnds(s) : e < h => WordsOf(s, S, e) = WordsOf(s, new, e)
  <2>1. PICK q \in Nat : q = h
    BY <1>1
  <2>2. h <= q /\ \A e \in LineEnds(s) : e < q => e < h
    BY <1>1, <2>1
  <2>3. /\ LinesRead(s, S, h) = LinesRead(s, new, q)
        /\ \A e \in LineEnds(s) : e < q => WordsOf(s, S, e) = WordsOf(s, new, e)
    BY <1>1, <1>5, <2>2, SameLines
  <2>4. QED
    BY <2>1, <2>3
<1>9. LinesRead(s, new, h + 1) = IF list = <<>> THEN done ELSE Append(done, list)
  BY <1>1, <1>2, <1>7, <1>8, NextLines
<1>10. ASSUME NEW e \in LineEnds(s), e < h + 1
       PROVE  WordsOf(s, new, e) = <<>> \/ Documented(WordsOf(s, new, e))
  <2>1. e \in Nat /\ (e < h \/ e = h)
    BY <1>1, <1>10, LineEndsInText
  <2>2. QED
    BY <1>7, <1>8, <2>1 DEF Reached
<1>11. Reached(s, new, h + 1, <<>>, IF list = <<>> THEN done ELSE Append(done, list))
  BY <1>4, <1>6, <1>9, <1>10 DEF Reached
<1>12. QED
  BY <1>11 DEF new

(* A run of blanks. *)
LEMMA NextBlanks ==
    ASSUME NEW s \in Seq(Alphabet), NEW S, NEW h \in 1..(Len(s) + 1), NEW q \in h..(Len(s) + 1),
           NEW list, NEW done, Reached(s, S, h, list, done),
           \A i \in h..(q - 1) : s[i] = "blank"
    PROVE  \E R : Reached(s, R, q, list, done)
<1> DEFINE Fine(k) == \E R : Reached(s, R, k, list, done)
           bad == {k \in h..q : ~Fine(k)}
<1>1. Len(s) \in Nat /\ h \in Nat /\ q \in Nat /\ q \in h..q /\ bad \subseteq Nat /\ Fine(h)
  OBVIOUS
<1>2. SUFFICES ASSUME bad # {} PROVE FALSE
  BY <1>1
<1>3. PICK k \in bad : \A j \in bad : k <= j
  BY <1>1, <1>2, LeastExists
<1>4. k \in Nat /\ k > h /\ k - 1 \in h..q /\ k - 1 \in h..(q - 1) /\ ~(k <= k - 1) /\ ~Fine(k)
      /\ k - 1 \in 1..Len(s) /\ k - 1 \in (k - 1)..Len(s) /\ k - 1 + 1 = k
  <2>1. k # h
    BY <1>1, <1>3
  <2>2. QED
    BY <1>1, <1>3, <2>1
<1>5. Fine(k - 1)
  BY <1>3, <1>4
<1>6. PICK R : Reached(s, R, k - 1, list, done)
  BY <1>5
<1>7. s[k - 1] = "blank" /\ IsPiece(s, k - 1, k - 1)
  BY <1>4 DEF IsPiece, IsBlank, Between
<1>8. Reached(s, R \cup {k - 1}, k - 1 + 1, list, done)
  <2>1. s[k - 1] # "newline" /\ s[k - 1] \in {"blank", "hash"}
    BY <1>7
  <2>2. Reached(s, R \cup {k - 1}, k - 1 + 1,
                IF s[k - 1] \in {"blank", "hash"} THEN list ELSE Append(list, WordAt(s, k - 1)), done)
    BY <1>4, <1>6, <1>7, <2>1, NextPiece
  <2>3. QED
    BY <2>1, <2>2
<1>9. QED
  BY <1>4, <1>8

-------------------------------------------------------------------------------
(* Texts that have no cut.                                                 *)

(* A quote that is not closed on its line begins no piece. *)
LEMMA QuoteNotClosed ==
    ASSUME NEW s \in Seq(Alphabet), NEW h \in 1..Len(s), NEW q \in (h + 1)..(Len(s) + 1),
           s[h] = "quote", \A i \in (h + 1)..(q - 1) : s[i] = "quote" => Escaped(s, h, i),
           q = Len(s) + 1 \/ s[q] = "newline"
    PROVE  \A b \in h..Len(s) : ~IsPiece(s, h, b)
<1> SUFFICES ASSUME NEW b \in h..Len(s), IsPiece(s, h, b) PROVE FALSE
  OBVIOUS
<1>1. Len(s) \in Nat /\ h \in Nat /\ b \in Nat /\ q \in Nat /\ h \in h..b
  OBVIOUS
<1>2. IsQuoted(s, h, b)
  BY <1>1 DEF IsPiece, IsBlank, IsBare, IsComment, Between
<1>3. s[b] = "quote" /\ ~Escaped(s, h, b) /\ h < b /\ \A i \in (h + 1)..(b - 1) : s[i] # "newline"
  BY <1>2 DEF IsQuoted
<1>4. ~(b \in (h + 1)..(q - 1))
  BY <1>3
<1>5. b >= q /\ q # Len(s) + 1
  BY <1>1, <1>3, <1>4
<1>6. q = b \/ q \in (h + 1)..(b - 1)
  BY <1>1, <1>5
<1>7. QED
  BY <1>3, <1>5, <1>6

(* A quote in a bare word begins no piece, and ends none. *)
LEMMA QuoteInWord ==
    ASSUME NEW s \in Seq(Alphabet), NEW h \in 1..Len(s), NEW p \in (h + 1)..Len(s),
           s[h] # "hash", \A i \in h..(p - 1) : s[i] \notin Between \cup {"quote"}, s[p] = "quote"
    PROVE  \A b \in h..Len(s) : ~IsPiece(s, h, b)
<1> SUFFICES ASSUME NEW b \in h..Len(s), IsPiece(s, h, b) PROVE FALSE
  OBVIOUS
<1>1. Len(s) \in Nat /\ h \in Nat /\ b \in Nat /\ p \in Nat /\ h \in h..(p - 1)
  OBVIOUS
<1>2. s[h] \notin Between \cup {"quote", "hash"}
  BY <1>1
<1>3. IsBare(s, h, b)
  BY <1>2 DEF IsPiece, IsBlank, IsComment, IsQuoted
<1>4. ~(p \in h..b)
  BY <1>3 DEF IsBare
<1>5. b < p /\ b # Len(s)
  BY <1>1, <1>4
<1>6. s[b + 1] \in Between
  BY <1>3, <1>5 DEF IsBare, Ends
<1>7. b + 1 \in h..(p - 1) \/ b + 1 = p
  BY <1>1, <1>5
<1>8. QED
  BY <1>6, <1>7 DEF Between

(* Where no piece begins that should, the text has no cut. *)
LEMMA NoCut ==
    ASSUME NEW s \in Seq(Alphabet), NEW S, NEW h \in 1..Len(s), Forced(s, S, h),
           \A b \in h..Len(s) : ~IsPiece(s, h, b)
    PROVE  Cuts(s) = {}
<1> SUFFICES ASSUME NEW cut \in Cuts(s) PROVE FALSE
  OBVIOUS
<1>1. h \in cut
  BY DEF Forced
<1>2. \E b \in h..Len(s) : IsPiece(s, h, b)
  BY <1>1 DEF Cuts
<1>3. QED
  BY <1>2

(* A line that is not documented leaves no good cut. *)
LEMMA BadLine ==
    ASSUME NEW s \in Seq(Alphabet), NEW S, NEW m \in LineEnds(s), Forced(s, S, m),
           WordsOf(s, S, m) # <<>>, ~Documented(WordsOf(s, S, m))
    PROVE  \A cut \in Cuts(s) : ~Good(s, cut)
<1> SUFFICES ASSUME NEW cut \in Cuts(s) PROVE ~Good(s, cut)
  OBVIOUS
<1>1. m \in Nat
  BY LineEndsInText
<1>2. WordsOf(s, cut, m) = WordsOf(s, S, m)
  BY <1>1, SameWords DEF Forced
<1>3. QED
  BY <1>2 DEF Good

-------------------------------------------------------------------------------
(* The whole text.                                                         *)

(* A list with what follows, if anything does. *)
With(list, next) == IF next = <<>> THEN list ELSE Append(list, next)

(* What has been read up to the end is the only cut of the text. *)
LEMMA AtTheEnd ==
    ASSUME NEW s \in Seq(Alphabet), NEW S, NEW list, NEW done,
           Reached(s, S, Len(s) + 1, list, done), list = <<>> \/ Documented(list)
    PROVE  S \in Cuts(s) /\ Cuts(s) = {S} /\ Good(s, S) /\ Reading(s, S) = With(done, list)
<1>1. /\ Len(s) \in Nat /\ Len(s) + 1 \in LineEnds(s)
      /\ Len(s) + 1 - 1 = Len(s) /\ Len(s) + 1 + 1 = Len(s) + 2
  BY DEF LineEnds
<1>2. Pieced(s, S, Len(s) + 1) /\ Forced(s, S, Len(s) + 1)
  BY DEF Reached
<1>3. S \subseteq 1..Len(s) /\ (Len(s) > 0 => 1 \in S)
  BY <1>1, <1>2 DEF Pieced
<1>4. ASSUME NEW a \in S
      PROVE  \E b \in a..Len(s) :
                /\ IsPiece(s, a, b)
                /\ \A i \in (a + 1)..b : i \notin S
                /\ b = Len(s) \/ b + 1 \in S
  <2>1. PICK b \in a..(Len(s) + 1 - 1) :
           /\ IsPiece(s, a, b)
           /\ \A i \in (a + 1)..b : i \notin S
           /\ b + 1 = Len(s) + 1 \/ b + 1 \in S
    BY <1>2 DEF Pieced
  <2>2. b \in a..Len(s) /\ (b + 1 = Len(s) + 1 => b = Len(s))
    <3>1. a \in 1..Len(s) /\ b \in a..Len(s)
      BY <1>1, <1>3
    <3>2. a \in Nat /\ b \in Nat
      BY <3>1
    <3>3. \A x, y \in Nat : x + 1 = y + 1 => x = y
      OBVIOUS
    <3>4. Len(s) \in Nat
      OBVIOUS
    <3>5. QED
      BY <3>1, <3>2, <3>3, <3>4
  <2>3. QED
    BY <2>1, <2>2
<1>5. S \in Cuts(s)
  BY <1>2, <1>3, <1>4 DEF Cuts, Pieced
<1>6. ASSUME NEW cut \in Cuts(s) PROVE cut = S
  <2>1. cut \subseteq 1..Len(s) /\ S \subseteq 1..Len(s)
    BY <1>5 DEF Cuts
  <2>2. \A i \in 1..Len(s) : i \in cut <=> i \in S
    BY <1>1, <1>2 DEF Forced
  <2>3. QED
    BY <2>1, <2>2
<1>7. list = WordsOf(s, S, Len(s) + 1) /\ done = LinesRead(s, S, Len(s) + 1)
  BY DEF Reached
<1>8. Good(s, S)
  <2> SUFFICES ASSUME NEW e \in LineEnds(s)
               PROVE  WordsOf(s, S, e) = <<>> \/ Documented(WordsOf(s, S, e))
    BY DEF Good
  <2>1. e < Len(s) + 1 \/ e = Len(s) + 1
    BY <1>1, LineEndsInText
  <2>2. QED
    BY <1>7, <2>1 DEF Reached
<1>9. Reading(s, S) = With(done, list)
  BY <1>1, <1>7, ReadingIsLines, NextLines DEF With
<1>10. QED
  BY <1>5, <1>6, <1>8, <1>9

-------------------------------------------------------------------------------
(* The scanner, one symbol after the other.                                *)

(* The piece that begins at h has been read as far as p: its word so far.  *)
InPiece(s, h, p, word, inQuote) ==
    \/ ~inQuote /\ word = <<>> /\ h = p
    \/ /\ ~inQuote /\ h < p /\ word = SubSeq(s, h, p - 1)
       /\ s[h] # "hash" /\ \A i \in h..(p - 1) : s[i] \notin Between \cup {"quote"}
    \/ /\ inQuote /\ h < p /\ s[h] = "quote"
       /\ \A i \in (h + 1)..(p - 1) : s[i] # "newline" /\ (s[i] = "quote" => Escaped(s, h, i))
       /\ ~Escaped(s, h, p)
       /\ word = InOrder(Kept(s, h, p), Meant(s, h))

(* A scanner at p holds the words and commands before the piece it is in.  *)
At(s, p, word, inQuote, list, done) ==
    \E h \in 1..p : \E S \in SUBSET (1..(h - 1)) :
        Reached(s, S, h, list, done) /\ InPiece(s, h, p, word, inQuote)

(* Between two pieces. *)
LEMMA AtPiece ==
    ASSUME NEW s \in Seq(Alphabet), NEW p \in Nat, NEW S, NEW list, NEW done,
           Reached(s, S, p, list, done)
    PROVE  At(s, p, <<>>, FALSE, list, done)
<1>1. p \in 1..p /\ S \in SUBSET (1..(p - 1))
  BY DEF Reached, Pieced
<1>2. InPiece(s, p, p, <<>>, FALSE)
  BY DEF InPiece
<1>3. QED
  BY <1>1, <1>2 DEF At

(* A bare word ends. *)
LEMMA WordEnds ==
    ASSUME NEW s \in Seq(Alphabet), NEW p \in 1..(Len(s) + 1), NEW word, NEW list, NEW done,
           At(s, p, word, FALSE, list, done), p = Len(s) + 1 \/ s[p] \in Between
    PROVE  \E R : Reached(s, R, p, With(list, word), done)
<1>0. PICK h \in 1..p :
         \E S \in SUBSET (1..(h - 1)) :
            Reached(s, S, h, list, done) /\ InPiece(s, h, p, word, FALSE)
  BY DEF At
<1>1. PICK S \in SUBSET (1..(h - 1)) :
         Reached(s, S, h, list, done) /\ InPiece(s, h, p, word, FALSE)
  BY <1>0
<1>2. CASE word = <<>> /\ h = p
  BY <1>1, <1>2 DEF With
<1>3. CASE /\ h < p /\ word = SubSeq(s, h, p - 1)
           /\ s[h] # "hash" /\ \A i \in h..(p - 1) : s[i] \notin Between \cup {"quote"}
  <2>1. /\ Len(s) \in Nat /\ h \in 1..Len(s) /\ p - 1 \in h..Len(s) /\ p - 1 + 1 = p
        /\ h \in h..(p - 1) /\ (p = Len(s) + 1 => p - 1 = Len(s))
    BY <1>3
  <2>2. IsBare(s, h, p - 1)
    BY <1>3, <2>1 DEF IsBare, Ends
  <2>3. IsPiece(s, h, p - 1)
    BY <2>2 DEF IsPiece
  <2>4. s[h] \notin {"blank", "newline", "quote", "hash"}
    BY <1>3, <2>1 DEF Between
  <2>5. WordAt(s, h) = word
    BY <1>3, <2>1, <2>3, <2>4, WordOfPiece
  <2>6. word # <<>>
    <3>1. Len(word) = p - 1 - h + 1
      BY <1>3, <2>1, SubSeqProperties
    <3>2. QED
      BY <1>3, <2>1, <3>1
  <2>7. Reached(s, S \cup {h}, p - 1 + 1,
                IF s[h] \in {"blank", "hash"} THEN list ELSE Append(list, WordAt(s, h)), done)
    BY <1>1, <2>1, <2>3, <2>4, NextPiece
  <2>8. Reached(s, S \cup {h}, p, With(list, word), done)
    BY <2>1, <2>4, <2>5, <2>6, <2>7 DEF With
  <2>9. QED
    BY <2>8
<1>4. QED
  BY <1>1, <1>2, <1>3 DEF InPiece

(* A scanner outside quotes that holds no word is between two pieces. *)
LEMMA NoWord ==
    ASSUME NEW s \in Seq(Alphabet), NEW p \in 1..(Len(s) + 1), NEW list, NEW done,
           At(s, p, <<>>, FALSE, list, done)
    PROVE  \E R : Reached(s, R, p, list, done)
<1>0. PICK h \in 1..p :
         \E S \in SUBSET (1..(h - 1)) :
            Reached(s, S, h, list, done) /\ InPiece(s, h, p, <<>>, FALSE)
  BY DEF At
<1>1. PICK S \in SUBSET (1..(h - 1)) :
         Reached(s, S, h, list, done) /\ InPiece(s, h, p, <<>>, FALSE)
  BY <1>0
<1>2. ASSUME h < p PROVE SubSeq(s, h, p - 1) # <<>>
  <2>1. h \in 1..Len(s) /\ p - 1 \in h..Len(s) /\ Len(s) \in Nat
    BY <1>2
  <2>2. Len(SubSeq(s, h, p - 1)) = p - 1 - h + 1
    BY <2>1, SubSeqProperties
  <2>3. QED
    BY <1>2, <2>1, <2>2
<1>3. h = p
  BY <1>1, <1>2 DEF InPiece
<1>4. QED
  BY <1>1, <1>3

-------------------------------------------------------------------------------
(* One step of the scanner each.                                           *)

(* A blank outside quotes. *)
LEMMA BlankRead ==
    ASSUME NEW s \in Seq(Alphabet), NEW p \in 1..Len(s), NEW word, NEW list, NEW done,
           At(s, p, word, FALSE, list, done), s[p] = "blank"
    PROVE  At(s, p + 1, <<>>, FALSE, With(list, word), done)
<1>1. Len(s) \in Nat /\ p \in 1..(Len(s) + 1) /\ p \in p..Len(s) /\ p + 1 \in Nat /\ s[p] \in Between
  BY DEF Between
<1>2. PICK R : Reached(s, R, p, With(list, word), done)
  BY <1>1, WordEnds
<1>3. IsPiece(s, p, p) /\ s[p] # "newline" /\ s[p] \in {"blank", "hash"}
  BY <1>1 DEF IsPiece, IsBlank
<1>4. Reached(s, R \cup {p}, p + 1,
              IF s[p] \in {"blank", "hash"} THEN With(list, word)
              ELSE Append(With(list, word), WordAt(s, p)), done)
  BY <1>1, <1>2, <1>3, NextPiece
<1>5. Reached(s, R \cup {p}, p + 1, With(list, word), done)
  BY <1>3, <1>4
<1>6. QED
  BY <1>1, <1>5, AtPiece

(* A comment. *)
LEMMA CommentRead ==
    ASSUME NEW s \in Seq(Alphabet), NEW p \in 1..Len(s), NEW list, NEW done,
           At(s, p, <<>>, FALSE, list, done), s[p] = "hash",
           NEW q \in (p + 1)..(Len(s) + 1), \A i \in p..(q - 1) : s[i] # "newline",
           q = Len(s) + 1 \/ s[q] = "newline"
    PROVE  At(s, q, <<>>, FALSE, list, done)
<1>1. /\ Len(s) \in Nat /\ p \in 1..(Len(s) + 1) /\ q \in Nat
      /\ q - 1 \in p..Len(s) /\ q - 1 + 1 = q /\ (q = Len(s) + 1 => q - 1 = Len(s))
  OBVIOUS
<1>2. PICK R : Reached(s, R, p, list, done)
  BY <1>1, NoWord
<1>3. IsComment(s, p, q - 1)
  BY <1>1 DEF IsComment, Ends
<1>4. IsPiece(s, p, q - 1) /\ s[p] # "newline" /\ s[p] \in {"blank", "hash"}
  BY <1>3 DEF IsPiece
<1>5. Reached(s, R \cup {p}, q - 1 + 1,
              IF s[p] \in {"blank", "hash"} THEN list ELSE Append(list, WordAt(s, p)), done)
  BY <1>1, <1>2, <1>4, NextPiece
<1>6. Reached(s, R \cup {p}, q, list, done)
  BY <1>1, <1>4, <1>5
<1>7. QED
  BY <1>1, <1>6, AtPiece

(* Any other symbol outside quotes. *)
LEMMA WordRead ==
    ASSUME NEW s \in Seq(Alphabet), NEW p \in 1..Len(s), NEW word, NEW list, NEW done,
           At(s, p, word, FALSE, list, done),
           s[p] \notin Between \cup {"quote"}, word = <<>> => s[p] # "hash"
    PROVE  At(s, p + 1, Append(word, s[p]), FALSE, list, done)
<1>0. PICK h \in 1..p :
         \E S \in SUBSET (1..(h - 1)) :
            Reached(s, S, h, list, done) /\ InPiece(s, h, p, word, FALSE)
  BY DEF At
<1>1. PICK S \in SUBSET (1..(h - 1)) :
         Reached(s, S, h, list, done) /\ InPiece(s, h, p, word, FALSE)
  BY <1>0
<1>2. Len(s) \in Nat /\ h \in Nat /\ p \in Nat /\ h \in 1..(p + 1) /\ h < p + 1 /\ p + 1 - 1 = p
      /\ \A i \in h..p : s[i] \in Alphabet
  OBVIOUS
<1>3. Append(word, s[p]) = SubSeq(s, h, p + 1 - 1)
  <2>1. CASE word = <<>> /\ h = p
    <3>1. SubSeq(s, p, p) = <<s[p]>>
      <4> DEFINE one == SubSeq(s, p, p)
      <4>1. \A i \in p..p : s[i] \in Alphabet
        BY <1>2, <2>1
      <4>2. one \in Seq(Alphabet) /\ Len(one) = 1 /\ one[1] = s[p]
        <5>1. /\ one \in Seq(Alphabet) /\ Len(one) = IF p <= p THEN p - p + 1 ELSE 0
              /\ \A i \in 1..(p - p + 1) : one[i] = s[p + i - 1]
          BY <1>2, <4>1, SubSeqProperties
        <5>2. p - p + 1 = 1 /\ p + 1 - 1 = p /\ 1 \in 1..1
          BY <1>2
        <5>3. QED
          BY <1>2, <5>1, <5>2
      <4>3. <<s[p]>> \in Seq(Alphabet) /\ Len(<<s[p]>>) = 1
        BY <1>2, <2>1
      <4> HIDE DEF one
      <4>4. one = <<s[p]>>
        BY <4>2, <4>3, SeqEqual
      <4>5. QED
        BY <4>4 DEF one
    <3>2. Append(<<>>, s[p]) = <<s[p]>>
      OBVIOUS
    <3>3. QED
      BY <1>2, <2>1, <3>1, <3>2
  <2>2. CASE h < p /\ word = SubSeq(s, h, p - 1)
    <3> DEFINE new == SubSeq(s, h, p)
    <3>1. /\ new \in Seq(Alphabet) /\ Len(new) = p - h + 1
          /\ \A i \in 1..(p - h + 1) : new[i] = s[h + i - 1]
      BY <1>2, SubSeqProperties
    <3>2. /\ word \in Seq(Alphabet) /\ Len(word) = p - 1 - h + 1
          /\ \A i \in 1..(p - 1 - h + 1) : word[i] = s[h + i - 1]
      <4>1. p - 1 \in Int /\ h <= p - 1 /\ \A i \in h..(p - 1) : s[i] \in Alphabet
        BY <1>2, <2>2
      <4>2. QED
        BY <1>2, <2>2, <4>1, SubSeqProperties
    <3>3. /\ Append(word, s[p]) \in Seq(Alphabet) /\ Len(Append(word, s[p])) = p - h + 1
          /\ \A i \in 1..(p - h) : Append(word, s[p])[i] = s[h + i - 1]
          /\ Append(word, s[p])[p - h + 1] = s[p]
      <4>1. s[p] \in Alphabet /\ Len(word) = p - h /\ p - 1 - h + 1 = p - h
        BY <1>2, <3>2
      <4>2. QED
        BY <1>2, <3>2, <4>1, AppendProperties
    <3>4. \A i \in 1..(p - h + 1) : new[i] = Append(word, s[p])[i]
      <4>1. h + (p - h + 1) - 1 = p /\ p - h \in Nat /\ p - h + 1 \in 1..(p - h + 1)
        BY <1>2, <2>2
      <4>2. \A i \in 1..(p - h + 1) : i \in 1..(p - h) \/ i = p - h + 1
        BY <4>1
      <4>3. new[p - h + 1] = s[p]
        BY <3>1, <4>1
      <4>4. QED
        BY <3>1, <3>3, <4>2, <4>3
    <3> HIDE DEF new
    <3>5. new = Append(word, s[p])
      BY <3>1, <3>3, <3>4, SeqEqual
    <3>6. QED
      BY <1>2, <3>5 DEF new
  <2>3. QED
    BY <1>1, <2>1, <2>2 DEF InPiece
<1>4. s[h] # "hash" /\ \A i \in h..(p + 1 - 1) : s[i] \notin Between \cup {"quote"}
  <2>1. \A i \in h..p : i \in h..(p - 1) \/ i = p
    BY <1>2
  <2>2. QED
    BY <1>1, <1>2, <2>1 DEF InPiece
<1>5. InPiece(s, h, p + 1, Append(word, s[p]), FALSE)
  BY <1>2, <1>3, <1>4 DEF InPiece
<1>6. QED
  BY <1>1, <1>2, <1>5 DEF At

(* The opening quote. *)
LEMMA QuoteOpened ==
    ASSUME NEW s \in Seq(Alphabet), NEW p \in 1..Len(s), NEW list, NEW done,
           At(s, p, <<>>, FALSE, list, done), s[p] = "quote"
    PROVE  At(s, p + 1, <<>>, TRUE, list, done)
<1>1. Len(s) \in Nat /\ p \in Nat /\ p \in 1..(Len(s) + 1) /\ p \in 1..(p + 1) /\ p < p + 1
      /\ (p + 1)..(p + 1 - 1) = {}
  OBVIOUS
<1>2. PICK R : Reached(s, R, p, list, done)
  BY <1>1, NoWord
<1>3. R \in SUBSET (1..(p - 1))
  BY <1>2 DEF Reached, Pieced
<1>4. ~Escaped(s, p, p + 1)
  BY <1>1, EscapedNext
<1>5. InOrder(Kept(s, p, p + 1), Meant(s, p)) = <<>>
  <2>1. Kept(s, p, p + 1) = {}
    BY <1>1 DEF Kept
  <2>2. QED
    BY <2>1, OrderNone
<1>6. InPiece(s, p, p + 1, <<>>, TRUE)
  BY <1>1, <1>4, <1>5 DEF InPiece
<1>7. QED
  BY <1>1, <1>2, <1>3, <1>6 DEF At

(* What is kept of a quoted word grows by one symbol. *)
LEMMA KeptMore ==
    ASSUME NEW s \in Seq(Alphabet), NEW h \in 1..Len(s), NEW m \in (h + 1)..Len(s),
           NEW p \in Nat, p <= m, NEW q \in Nat, Kept(s, h, q) = Kept(s, h, p) \cup {m}
    PROVE  InOrder(Kept(s, h, q), Meant(s, h)) =
               Append(InOrder(Kept(s, h, p), Meant(s, h)),
                      IF Escaped(s, h, m) THEN Unescaped(s[m]) ELSE s[m])
<1> DEFINE old == Kept(s, h, p)
           f == Meant(s, h)
<1>1. Len(s) \in Nat /\ h \in Nat /\ m \in Nat /\ m \in 1..Len(s)
  OBVIOUS
<1>2. old \subseteq Nat /\ IsFiniteSet(old) /\ \A i \in old : i < m
  <2>1. old \subseteq (h + 1)..(p - 1)
    BY DEF Kept
  <2>2. IsFiniteSet((h + 1)..(p - 1))
    BY <1>1, FS_Interval
  <2>3. IsFiniteSet(old)
    BY <2>1, <2>2, FS_Subset
  <2>4. \A i \in (h + 1)..(p - 1) : i \in Nat /\ i < m
    BY <1>1
  <2> HIDE DEF old
  <2>5. QED
    BY <2>1, <2>3, <2>4
<1>3. f[m] = IF Escaped(s, h, m) THEN Unescaped(s[m]) ELSE s[m]
  BY <1>1 DEF Meant
<1> HIDE DEF old, f
<1>4. \A F, G : (\A i \in old : G[i] = F[i]) =>
         InOrder(old \cup {m}, G) = Append(InOrder(old, F), G[m])
  BY <1>1, <1>2, OrderMore
<1>5. InOrder(old \cup {m}, f) = Append(InOrder(old, f), f[m])
  BY <1>4
<1>6. QED
  BY <1>3, <1>5 DEF old, f

(* A symbol in quotes that is no backslash. *)
LEMMA QuotedRead ==
    ASSUME NEW s \in Seq(Alphabet), NEW p \in 1..Len(s), NEW word, NEW list, NEW done,
           At(s, p, word, TRUE, list, done), s[p] \notin {"quote", "backslash", "newline"}
    PROVE  At(s, p + 1, Append(word, s[p]), TRUE, list, done)
<1>0. PICK h \in 1..p :
         \E S \in SUBSET (1..(h - 1)) :
            Reached(s, S, h, list, done) /\ InPiece(s, h, p, word, TRUE)
  BY DEF At
<1>1. PICK S \in SUBSET (1..(h - 1)) :
         Reached(s, S, h, list, done) /\ InPiece(s, h, p, word, TRUE)
  BY <1>0
<1>2. /\ h < p /\ s[h] = "quote" /\ ~Escaped(s, h, p)
      /\ \A i \in (h + 1)..(p - 1) : s[i] # "newline" /\ (s[i] = "quote" => Escaped(s, h, i))
      /\ word = InOrder(Kept(s, h, p), Meant(s, h))
  BY <1>1 DEF InPiece
<1>3. /\ Len(s) \in Nat /\ h \in 1..Len(s) /\ p \in (h + 1)..Len(s) /\ p \in Nat /\ h \in Nat
      /\ p <= p /\ p + 1 \in Nat /\ h \in 1..(p + 1) /\ h < p + 1 /\ p > h
  BY <1>2
<1>4. ~Escaped(s, h, p + 1)
  BY <1>2, <1>3, EscapedNext
<1>5. \A i \in (h + 1)..(p + 1 - 1) : i \in (h + 1)..(p - 1) \/ i = p
  BY <1>3
<1>6. Kept(s, h, p + 1) = Kept(s, h, p) \cup {p}
  <2>1. \A i \in (h + 1)..(p - 1) : i \in (h + 1)..(p + 1 - 1)
    BY <1>3
  <2>2. p \in (h + 1)..(p + 1 - 1)
    BY <1>3
  <2>3. QED
    BY <1>5, <2>1, <2>2 DEF Kept
<1>7. InOrder(Kept(s, h, p + 1), Meant(s, h)) = Append(word, s[p])
  <2>1. PICK m \in (h + 1)..Len(s) : m = p
    BY <1>3
  <2>2. p <= m /\ Kept(s, h, p + 1) = Kept(s, h, p) \cup {m}
    BY <1>3, <1>6, <2>1
  <2>3. InOrder(Kept(s, h, p + 1), Meant(s, h)) =
           Append(InOrder(Kept(s, h, p), Meant(s, h)),
                      IF Escaped(s, h, m) THEN Unescaped(s[m]) ELSE s[m])
    BY <1>3, <2>2, KeptMore
  <2>4. QED
    BY <1>2, <2>1, <2>3
<1>8. InPiece(s, h, p + 1, Append(word, s[p]), TRUE)
  BY <1>2, <1>3, <1>4, <1>5, <1>7 DEF InPiece
<1>9. QED
  BY <1>1, <1>3, <1>8 DEF At

(* A backslash in quotes, and what it escapes. *)
LEMMA EscapeRead ==
    ASSUME NEW s \in Seq(Alphabet), NEW p \in 1..Len(s), NEW word, NEW list, NEW done,
           At(s, p, word, TRUE, list, done), s[p] = "backslash",
           p + 1 \in 1..Len(s), s[p + 1] # "newline"
    PROVE  At(s, p + 2, Append(word, Unescaped(s[p + 1])), TRUE, list, done)
<1>0. PICK h \in 1..p :
         \E S \in SUBSET (1..(h - 1)) :
            Reached(s, S, h, list, done) /\ InPiece(s, h, p, word, TRUE)
  BY DEF At
<1>1. PICK S \in SUBSET (1..(h - 1)) :
         Reached(s, S, h, list, done) /\ InPiece(s, h, p, word, TRUE)
  BY <1>0
<1>2. /\ h < p /\ s[h] = "quote" /\ ~Escaped(s, h, p)
      /\ \A i \in (h + 1)..(p - 1) : s[i] # "newline" /\ (s[i] = "quote" => Escaped(s, h, i))
      /\ word = InOrder(Kept(s, h, p), Meant(s, h))
  BY <1>1 DEF InPiece
<1>3. PICK m \in Nat : m = p + 1
  OBVIOUS
<1>4. /\ Len(s) \in Nat /\ h \in 1..Len(s) /\ m \in (h + 1)..Len(s) /\ p \in Nat /\ h \in Nat
      /\ p <= m /\ p + 2 \in Nat /\ h \in 1..(p + 2) /\ h < p + 2 /\ p > h /\ m > h /\ m + 1 = p + 2
  BY <1>2, <1>3
<1>5. Escaped(s, h, m)
  BY <1>2, <1>3, <1>4, EscapedNext
<1>6. ~Escaped(s, h, p + 2)
  BY <1>2, <1>4, <1>5, EscapedNext
<1>7. \A i \in (h + 1)..(p + 2 - 1) : i \in (h + 1)..(p - 1) \/ i = p \/ i = m
  BY <1>3, <1>4
<1>8. Kept(s, h, p + 2) = Kept(s, h, p) \cup {m}
  <2>1. \A i \in (h + 1)..(p - 1) : i \in (h + 1)..(p + 2 - 1)
    BY <1>4
  <2>2. m \in (h + 1)..(p + 2 - 1)
    BY <1>3, <1>4
  <2>3. p \notin Kept(s, h, p + 2)
    BY <1>2 DEF Kept
  <2>4. QED
    BY <1>5, <1>7, <2>1, <2>2, <2>3 DEF Kept
<1>9. InOrder(Kept(s, h, p + 2), Meant(s, h)) = Append(word, Unescaped(s[p + 1]))
  <2>1. InOrder(Kept(s, h, p + 2), Meant(s, h)) =
           Append(InOrder(Kept(s, h, p), Meant(s, h)),
                      IF Escaped(s, h, m) THEN Unescaped(s[m]) ELSE s[m])
    BY <1>4, <1>8, KeptMore
  <2>2. QED
    BY <1>2, <1>3, <1>5, <2>1
<1>10. \A i \in (h + 1)..(p + 2 - 1) : s[i] # "newline" /\ (s[i] = "quote" => Escaped(s, h, i))
  BY <1>2, <1>3, <1>5, <1>7
<1>11. InPiece(s, h, p + 2, Append(word, Unescaped(s[p + 1])), TRUE)
  BY <1>2, <1>4, <1>6, <1>9, <1>10 DEF InPiece
<1>12. QED
  BY <1>1, <1>4, <1>11 DEF At

(* The closing quote, and the blanks behind it. *)
LEMMA QuoteClosed ==
    ASSUME NEW s \in Seq(Alphabet), NEW p \in 1..Len(s), NEW word, NEW list, NEW done,
           At(s, p, word, TRUE, list, done), s[p] = "quote",
           NEW q \in (p + 1)..(Len(s) + 1), \A i \in (p + 1)..(q - 1) : s[i] = "blank"
    PROVE  At(s, q, <<>>, FALSE, Append(list, word), done)
<1>0. PICK h \in 1..p :
         \E S \in SUBSET (1..(h - 1)) :
            Reached(s, S, h, list, done) /\ InPiece(s, h, p, word, TRUE)
  BY DEF At
<1>1. PICK S \in SUBSET (1..(h - 1)) :
         Reached(s, S, h, list, done) /\ InPiece(s, h, p, word, TRUE)
  BY <1>0
<1>2. /\ h < p /\ s[h] = "quote" /\ ~Escaped(s, h, p)
      /\ \A i \in (h + 1)..(p - 1) : s[i] # "newline" /\ (s[i] = "quote" => Escaped(s, h, i))
      /\ word = InOrder(Kept(s, h, p), Meant(s, h))
  BY <1>1 DEF InPiece
<1>3. /\ Len(s) \in Nat /\ h \in 1..Len(s) /\ p \in h..Len(s) /\ p + 1 \in 1..(Len(s) + 1) /\ q \in Nat
      /\ q \in (p + 1)..(Len(s) + 1)
  BY <1>2
<1>4. IsPiece(s, h, p)
  BY <1>2 DEF IsPiece, IsQuoted
<1>5. WordAt(s, h) = word
  BY <1>2, <1>3, <1>4, WordOfPiece
<1>6. s[h] # "newline" /\ s[h] \notin {"blank", "hash"}
  BY <1>2
<1>7. Reached(s, S \cup {h}, p + 1,
              IF s[h] \in {"blank", "hash"} THEN list ELSE Append(list, WordAt(s, h)), done)
  BY <1>1, <1>3, <1>4, <1>6, NextPiece
<1>8. Reached(s, S \cup {h}, p + 1, Append(list, word), done)
  BY <1>5, <1>6, <1>7
<1>9. PICK R : Reached(s, R, q, Append(list, word), done)
  BY <1>3, <1>8, NextBlanks
<1>10. QED
  BY <1>3, <1>9, AtPiece

(* The newline of a line that is documented. *)
LEMMA LineClosed ==
    ASSUME NEW s \in Seq(Alphabet), NEW p \in 1..Len(s), NEW word, NEW list, NEW done,
           At(s, p, word, FALSE, list, done), s[p] = "newline",
           With(list, word) = <<>> \/ Documented(With(list, word))
    PROVE  At(s, p + 1, <<>>, FALSE, <<>>, With(done, With(list, word)))
<1>1. Len(s) \in Nat /\ p \in 1..(Len(s) + 1) /\ p + 1 \in Nat /\ s[p] \in Between
  BY DEF Between
<1>2. PICK R : Reached(s, R, p, With(list, word), done)
  BY <1>1, WordEnds
<1>3. Reached(s, R \cup {p}, p + 1, <<>>, With(done, With(list, word)))
  <2> DEFINE line == With(list, word)
  <2> HIDE DEF line
  <2>1. \A L : Reached(s, R, p, L, done) /\ (L = <<>> \/ Documented(L)) =>
           Reached(s, R \cup {p}, p + 1, <<>>, IF L = <<>> THEN done ELSE Append(done, L))
    BY NextLine
  <2>2. QED
    BY <1>2, <2>1 DEF With
<1>4. QED
  BY <1>1, <1>3, AtPiece

-------------------------------------------------------------------------------
(* Rejections.                                                             *)

(* The line ends in quotes. *)
LEMMA QuoteRejected ==
    ASSUME NEW s \in Seq(Alphabet), NEW p \in 1..(Len(s) + 1), NEW word, NEW list, NEW done,
           At(s, p, word, TRUE, list, done), NEW q \in p..(Len(s) + 1),
           \A i \in p..(q - 1) : s[i] # "quote", q = Len(s) + 1 \/ s[q] = "newline"
    PROVE  Cuts(s) = {}
<1>0. PICK h \in 1..p :
         \E S \in SUBSET (1..(h - 1)) :
            Reached(s, S, h, list, done) /\ InPiece(s, h, p, word, TRUE)
  BY DEF At
<1>1. PICK S \in SUBSET (1..(h - 1)) :
         Reached(s, S, h, list, done) /\ InPiece(s, h, p, word, TRUE)
  BY <1>0
<1>2. /\ h < p /\ s[h] = "quote"
      /\ \A i \in (h + 1)..(p - 1) : s[i] = "quote" => Escaped(s, h, i)
  BY <1>1 DEF InPiece
<1>3. Len(s) \in Nat /\ h \in 1..Len(s) /\ q \in (h + 1)..(Len(s) + 1)
  BY <1>2
<1>4. \A i \in (h + 1)..(q - 1) : s[i] = "quote" => Escaped(s, h, i)
  <2>1. \A i \in (h + 1)..(q - 1) : i \in (h + 1)..(p - 1) \/ i \in p..(q - 1)
    BY <1>3
  <2>2. QED
    BY <1>2, <2>1
<1>5. \A b \in h..Len(s) : ~IsPiece(s, h, b)
  BY <1>2, <1>3, <1>4, QuoteNotClosed
<1>6. Forced(s, S, h)
  BY <1>1 DEF Reached
<1>7. QED
  BY <1>3, <1>5, <1>6, NoCut

(* A quote in a bare word. *)
LEMMA WordRejected ==
    ASSUME NEW s \in Seq(Alphabet), NEW p \in 1..Len(s), NEW word, NEW list, NEW done,
           At(s, p, word, FALSE, list, done), word # <<>>, s[p] = "quote"
    PROVE  Cuts(s) = {}
<1>0. PICK h \in 1..p :
         \E S \in SUBSET (1..(h - 1)) :
            Reached(s, S, h, list, done) /\ InPiece(s, h, p, word, FALSE)
  BY DEF At
<1>1. PICK S \in SUBSET (1..(h - 1)) :
         Reached(s, S, h, list, done) /\ InPiece(s, h, p, word, FALSE)
  BY <1>0
<1>2. h < p /\ s[h] # "hash" /\ \A i \in h..(p - 1) : s[i] \notin Between \cup {"quote"}
  BY <1>1 DEF InPiece
<1>3. Len(s) \in Nat /\ h \in 1..Len(s) /\ p \in (h + 1)..Len(s)
  BY <1>2
<1>4. \A b \in h..Len(s) : ~IsPiece(s, h, b)
  BY <1>2, <1>3, QuoteInWord
<1>5. Forced(s, S, h)
  BY <1>1 DEF Reached
<1>6. QED
  BY <1>3, <1>4, <1>5, NoCut

(* A line that is not documented. *)
LEMMA LineRejected ==
    ASSUME NEW s \in Seq(Alphabet), NEW p \in 1..(Len(s) + 1), NEW word, NEW list, NEW done,
           At(s, p, word, FALSE, list, done), p = Len(s) + 1 \/ s[p] = "newline",
           With(list, word) # <<>>, ~Documented(With(list, word))
    PROVE  \A cut \in Cuts(s) : ~Good(s, cut)
<1>1. p \in LineEnds(s)
  BY DEF LineEnds
<1>2. PICK R : Reached(s, R, p, With(list, word), done)
  BY WordEnds DEF Between
<1>3. Forced(s, R, p) /\ With(list, word) = WordsOf(s, R, p)
  BY <1>2 DEF Reached
<1>4. QED
  BY <1>1, <1>3, BadLine

-------------------------------------------------------------------------------
(* The inductive invariant.                                                *)

(* While the scanner runs, it holds the words and commands of what it has  *)
(* passed.                                                                 *)
ReadSoFar == outcome = "parsing" => At(text, pos, current, quoted, words, commands)

(* At the first symbol nothing has been passed. *)
LEMMA NothingRead ==
    ASSUME NEW s \in Seq(Alphabet)
    PROVE  At(s, 1, <<>>, FALSE, <<>>, <<>>)
<1>1. Len(s) \in Nat /\ \A e \in LineEnds(s) : ~(e < 1)
  BY LineEndsInText
<1>2. Pieced(s, {}, 1)
  BY <1>1 DEF Pieced
<1>3. Forced(s, {}, 1)
  BY <1>1 DEF Forced, Cuts
<1>4. WordsOf(s, {}, 1) = <<>>
  <2> DEFINE starts == {a \in {} \cap Line(s, 1) : s[a] \notin {"blank", "hash"}}
  <2>1. starts = {}
    OBVIOUS
  <2>2. WordsOf(s, {}, 1) = InOrder(starts, [a \in starts |-> WordAt(s, a)])
    BY DEF WordsOf
  <2>3. QED
    BY <2>1, <2>2, OrderNone
<1>5. LinesRead(s, {}, 1) = <<>>
  <2> DEFINE ends == {e \in LineEnds(s) : e < 1 /\ WordsOf(s, {}, e) # <<>>}
  <2>1. ends = {}
    BY <1>1
  <2>2. LinesRead(s, {}, 1) = InOrder(ends, [e \in ends |-> WordsOf(s, {}, e)])
    BY DEF LinesRead
  <2>3. QED
    BY <2>1, <2>2, OrderNone
<1>6. Reached(s, {}, 1, <<>>, <<>>)
  BY <1>1, <1>2, <1>3, <1>4, <1>5 DEF Reached
<1>7. QED
  BY <1>6, AtPiece

(* What a step leaves: a scanner that holds what it has passed, or the     *)
(* verdict on the text.                                                    *)
Goes(s, o, p, word, inQuote, list, done) ==
    \/ o = "parsing" /\ At(s, p, word, inQuote, list, done)
    \/ o = "rejected" /\ \A cut \in Cuts(s) : ~Good(s, cut)
    \/ /\ o = "parsed"
       /\ \E cut \in Cuts(s) : Cuts(s) = {cut} /\ Good(s, cut) /\ done = Reading(s, cut)

(* A text without a cut has no good one. *)
LEMMA Rejects ==
    ASSUME Reject, \A cut \in Cuts(text) : ~Good(text, cut)
    PROVE  Goes(text, outcome', pos', current', quoted', words', commands')
BY DEF Reject, Goes

(* Every branch of split_words, and the end of the line. *)
LEMMA NextReads ==
    ASSUME TypeOK, outcome = "parsing", ReadSoFar, Next
    PROVE  Goes(text, outcome', pos', current', quoted', words', commands')
<1>1. /\ At(text, pos, current, quoted, words, commands) /\ text \in Seq(Alphabet)
      /\ Len(text) \in Nat /\ pos \in 1..(Len(text) + 1) /\ quoted \in BOOLEAN
      /\ LineEnd \in pos..(Len(text) + 1)
      /\ LineEnd = Len(text) + 1 \/ text[LineEnd] = "newline"
      /\ \A i \in pos..(LineEnd - 1) : text[i] # "newline"
  BY LineEndInText DEF ReadSoFar, TypeOK
<1>2. ~AtEnd => /\ pos \in 1..Len(text) /\ text[pos] # "newline"
                /\ LineEnd \in (pos + 1)..(Len(text) + 1)
  BY NotAtEnd DEF AtEnd
<1>3. EndWord(words) = With(words, current)
  BY DEF EndWord, With
<1>4. CASE CloseQuote
  <2>1. /\ ~AtEnd /\ text[pos] = "quote" /\ quoted = TRUE
        /\ words' = Append(words, current) /\ current' = <<>> /\ quoted' = FALSE
        /\ commands' = commands /\ outcome' = "parsing"
    BY <1>1, <1>4 DEF CloseQuote, Sees
  <2>2. pos' \in (pos + 1)..LineEnd /\ \A j \in (pos + 1)..(pos' - 1) : text[j] = "blank"
    BY <1>4, <2>1, AfterQuote
  <2>3. pos' \in (pos + 1)..(Len(text) + 1)
    BY <1>1, <2>2
  <2>4. At(text, pos', <<>>, FALSE, Append(words, current), commands)
    BY <1>1, <1>2, <2>1, <2>2, <2>3, QuoteClosed
  <2>5. QED
    BY <2>1, <2>4 DEF Goes
<1>5. CASE OpenQuote
  <2>1. ~AtEnd /\ text[pos] = "quote" /\ quoted = FALSE
    BY <1>1, <1>5 DEF OpenQuote, Sees
  <2>2. CASE current # <<>>
    <3>1. Reject
      BY <1>5, <2>2 DEF OpenQuote
    <3>2. Cuts(text) = {}
      BY <1>1, <1>2, <2>1, <2>2, WordRejected
    <3>3. QED
      BY <3>1, <3>2, Rejects
  <2>3. CASE current = <<>>
    <3>1. /\ quoted' = TRUE /\ pos' = pos + 1
          /\ words' = words /\ current' = <<>> /\ commands' = commands /\ outcome' = "parsing"
      BY <1>5, <2>3 DEF OpenQuote
    <3>2. At(text, pos + 1, <<>>, TRUE, words, commands)
      BY <1>1, <1>2, <2>1, <2>3, QuoteOpened
    <3>3. QED
      BY <3>1, <3>2 DEF Goes
  <2>4. QED
    BY <2>2, <2>3
<1>6. CASE Escape
  <2>1. ~AtEnd /\ text[pos] = "backslash" /\ quoted = TRUE
    BY <1>1, <1>6 DEF Escape, Sees
  <2>2. CASE pos + 1 = LineEnd
    <3>1. Reject
      BY <1>6, <2>2 DEF Escape
    <3>2. \A i \in pos..(LineEnd - 1) : text[i] # "quote"
      <4>1. \A i \in pos..(LineEnd - 1) : i = pos
        BY <1>1, <2>2
      <4>2. QED
        BY <2>1, <4>1
    <3>3. Cuts(text) = {}
      BY <1>1, <2>1, <3>2, QuoteRejected
    <3>4. QED
      BY <3>1, <3>3, Rejects
  <2>3. CASE pos + 1 # LineEnd
    <3>1. /\ current' = Append(current, Unescaped(text[pos + 1])) /\ pos' = pos + 2
          /\ quoted' = TRUE /\ words' = words /\ commands' = commands /\ outcome' = "parsing"
      BY <1>6, <2>1, <2>3 DEF Escape
    <3>2. pos + 1 \in 1..Len(text) /\ pos + 1 \in pos..(LineEnd - 1)
      BY <1>1, <1>2, <2>1, <2>3
    <3>3. text[pos + 1] # "newline"
      BY <1>1, <3>2
    <3>4. At(text, pos + 2, Append(current, Unescaped(text[pos + 1])), TRUE, words, commands)
      BY <1>1, <1>2, <2>1, <3>2, <3>3, EscapeRead
    <3>5. QED
      BY <3>1, <3>4 DEF Goes
  <2>4. QED
    BY <2>2, <2>3
<1>7. CASE Separate
  <2>1. /\ ~AtEnd /\ text[pos] = "blank" /\ quoted = FALSE
        /\ words' = With(words, current) /\ current' = <<>> /\ pos' = pos + 1
        /\ quoted' = FALSE /\ commands' = commands /\ outcome' = "parsing"
    BY <1>1, <1>3, <1>7 DEF Separate, Sees
  <2>2. At(text, pos + 1, <<>>, FALSE, With(words, current), commands)
    BY <1>1, <1>2, <2>1, BlankRead
  <2>3. QED
    BY <2>1, <2>2 DEF Goes
<1>8. CASE Comment
  <2>1. /\ ~AtEnd /\ text[pos] = "hash" /\ quoted = FALSE /\ current = <<>>
        /\ pos' = LineEnd /\ words' = words /\ current' = <<>>
        /\ quoted' = FALSE /\ commands' = commands /\ outcome' = "parsing"
    BY <1>1, <1>8 DEF Comment, CommentStarts, Sees
  <2>2. At(text, LineEnd, <<>>, FALSE, words, commands)
    BY <1>1, <1>2, <2>1, CommentRead
  <2>3. QED
    BY <2>1, <2>2 DEF Goes
<1>9. CASE Ordinary
  <2>1. /\ ~AtEnd /\ text[pos] # "quote"
        /\ ~(text[pos] = "backslash" /\ quoted) /\ ~(text[pos] = "blank" /\ ~quoted)
        /\ ~(text[pos] = "hash" /\ ~quoted /\ current = <<>>)
        /\ current' = Append(current, text[pos]) /\ pos' = pos + 1
        /\ quoted' = quoted /\ words' = words /\ commands' = commands /\ outcome' = "parsing"
    BY <1>9 DEF Ordinary, CommentStarts, Sees
  <2>2. At(text, pos + 1, Append(current, text[pos]), quoted, words, commands)
    <3>1. CASE quoted = TRUE
      <4>1. text[pos] \notin {"quote", "backslash", "newline"}
        BY <1>2, <2>1, <3>1
      <4>2. QED
        BY <1>1, <1>2, <2>1, <3>1, <4>1, QuotedRead
    <3>2. CASE quoted = FALSE
      <4>1. text[pos] \notin Between \cup {"quote"} /\ (current = <<>> => text[pos] # "hash")
        BY <1>2, <2>1, <3>2 DEF Between
      <4>2. QED
        BY <1>1, <1>2, <2>1, <3>2, <4>1, WordRead
    <3>3. QED
      BY <1>1, <3>1, <3>2
  <2>3. QED
    BY <2>1, <2>2 DEF Goes
<1>10. CASE EndLine
  <2> DEFINE line == With(words, current)
  <2>1. AtEnd
    BY <1>10 DEF EndLine
  <2>2. pos = Len(text) + 1 \/ (pos \in 1..Len(text) /\ ~(pos > Len(text)) /\ text[pos] = "newline")
    BY <1>1, <2>1 DEF AtEnd
  <2>3. line # <<>> => (Accepted(line) <=> Documented(line))
    BY <1>3, WordTypes, AcceptedIsDocumented
  <2>4. CASE quoted = TRUE
    <3>1. Reject
      BY <1>10, <2>4 DEF EndLine
    <3>2. pos \in pos..(Len(text) + 1) /\ (\A i \in pos..(pos - 1) : text[i] # "quote")
      BY <1>1
    <3>3. Cuts(text) = {}
      BY <1>1, <2>2, <2>4, <3>2, QuoteRejected
    <3>4. QED
      BY <3>1, <3>3, Rejects
  <2>5. CASE quoted = FALSE /\ line # <<>> /\ ~Documented(line)
    <3>1. Reject
      BY <1>3, <1>10, <2>3, <2>5 DEF EndLine
    <3>2. \A cut \in Cuts(text) : ~Good(text, cut)
      BY <1>1, <2>2, <2>5, LineRejected
    <3>3. QED
      BY <3>1, <3>2, Rejects
  <2>6. CASE quoted = FALSE /\ (line = <<>> \/ Documented(line))
    <3>1. /\ commands' = With(commands, line) /\ words' = <<>> /\ current' = <<>> /\ quoted' = FALSE
          /\ \/ pos > Len(text) /\ outcome' = "parsed"
             \/ ~(pos > Len(text)) /\ pos' = pos + 1 /\ outcome' = "parsing"
      BY <1>3, <1>10, <2>3, <2>6 DEF EndLine, With
    <3>2. CASE pos = Len(text) + 1
      <4>1. outcome' = "parsed"
        BY <1>1, <3>1, <3>2
      <4>2. PICK R : Reached(text, R, Len(text) + 1, line, commands)
        BY <1>1, <2>6, <3>2, WordEnds
      <4>3. R \in Cuts(text) /\ Cuts(text) = {R} /\ Good(text, R) /\ Reading(text, R) = With(commands, line)
        <5> HIDE DEF line
        <5>1. QED
          BY <1>1, <2>6, <4>2, AtTheEnd
      <4>4. QED
        BY <3>1, <4>1, <4>3 DEF Goes
    <3>3. CASE pos \in 1..Len(text) /\ ~(pos > Len(text)) /\ text[pos] = "newline"
      <4>1. At(text, pos + 1, <<>>, FALSE, <<>>, With(commands, line))
        BY <1>1, <2>6, <3>3, LineClosed
      <4>2. QED
        BY <3>1, <3>3, <4>1 DEF Goes
    <3>4. QED
      BY <2>2, <3>2, <3>3
  <2>7. QED
    BY <1>1, <2>4, <2>5, <2>6
<1>11. QED
  BY <1>4, <1>5, <1>6, <1>7, <1>8, <1>9, <1>10 DEF Next

-------------------------------------------------------------------------------
(* The theorems.                                                           *)

Inv == TypeOK /\ ReadSoFar /\ ParsesTheLanguage

(* The invariant holds in every state. *)
THEOREM InvHolds == Spec => []Inv
<1>1. ASSUME Init PROVE Inv
  <2>1. TypeOK
    <3>1. Len(text) \in Nat /\ 1 \in 1..(Len(text) + 1)
      BY <1>1, TextAssumption DEF Init
    <3>2. <<>> \in Seq(Alphabet) /\ <<>> \in Words /\ <<>> \in Seq(Words)
      BY DEF Words
    <3>3. QED
      BY <1>1, <3>1, <3>2 DEF Init, TypeOK, Words, Alphabet
  <2>2. text \in Seq(Alphabet)
    BY <2>1, LineEndInText
  <2>3. At(text, 1, <<>>, FALSE, <<>>, <<>>)
    BY <2>2, NothingRead
  <2>4. QED
    BY <1>1, <2>1, <2>3 DEF Init, Inv, ReadSoFar, ParsesTheLanguage
<1>2. ASSUME Inv, [Next]_vars PROVE Inv'
  <2>1. TypeOK'
    BY <1>2, TypePreserved DEF Inv
  <2>2. CASE Next
    <3>1. outcome = "parsing" /\ text' = text
      BY <2>2 DEF Next, CloseQuote, OpenQuote, Escape, Separate, Comment, CommentStarts, Ordinary,
                  EndLine, Sees, Reject
    <3>2. Goes(text, outcome', pos', current', quoted', words', commands')
      BY <1>2, <2>2, <3>1, NextReads DEF Inv
    <3>3. QED
      BY <2>1, <3>1, <3>2 DEF Inv, ReadSoFar, ParsesTheLanguage, Goes
  <2>3. CASE UNCHANGED vars
    BY <1>2, <2>1, <2>3 DEF Inv, ReadSoFar, ParsesTheLanguage, vars
  <2>4. QED
    BY <1>2, <2>2, <2>3
<1>3. QED
  BY <1>1, <1>2, PTL DEF Spec

(* The scanner never leaves the text: `i' stays within its line. *)
THEOREM TypeCorrect == Spec => []TypeOK
<1>1. Inv => TypeOK
  BY DEF Inv
<1>2. QED
  BY <1>1, InvHolds, PTL

(* parse_script accepts exactly the texts of the language, and reads every *)
(* one as its pieces say: all lines or, if one of them is bad, nothing.    *)
THEOREM LanguageIsParsed == Spec => []ParsesTheLanguage
<1>1. Inv => ParsesTheLanguage
  BY DEF Inv
<1>2. QED
  BY <1>1, InvHolds, PTL

===============================================================================
