------------------------------- MODULE ScriptText -------------------------------
(***************************************************************************)
(* The script language (script.hpp): parse_script cuts a text into lines,  *)
(* split_words cuts a line into words, and parse_script_line accepts or    *)
(* rejects the words.  Nothing of a script is sent before all of it has    *)
(* been accepted: Script starts where this module ends, and calls a line   *)
(* that is rejected here "malformed".                                      *)
(*                                                                         *)
(* A text is a sequence of symbols: the characters that the scanner looks  *)
(* at, and runs of other characters, each as one symbol named for what it  *)
(* says.  Case is left out: upper_ascii makes keywords equal.              *)
(*                                                                         *)
(* A definition whose comment says "Mutant" is a faulty variant of the one *)
(* that follows it, for the mutation runs; no behaviour uses it.           *)
(***************************************************************************)
EXTENDS Integers, Sequences, FiniteSets

CONSTANTS
    Symbols,    \* the ordinary symbols of the texts
    Texts       \* the texts that are parsed

Special == {"quote", "backslash", "blank", "hash", "newline"}

ASSUME TextAssumption == Texts \subseteq Seq(Symbols \cup Special)

VARIABLES
    text,       \* the script
    pos,        \* the next symbol to look at: `i' in split_words
    words,      \* `out': the words of the line so far
    current,    \* the word being read
    quoted,     \* in_quote
    commands,   \* the commands of the lines before
    outcome     \* "parsing", "parsed" or "rejected" (invalid_argument)

vars == <<text, pos, words, current, quoted, commands, outcome>>

Init ==
    /\ text \in Texts
    /\ pos = 1
    /\ words = <<>> /\ current = <<>> /\ quoted = FALSE
    /\ commands = <<>>
    /\ outcome = "parsing"

(* Mutant: the newline, or the end, is skipped too. *)
LineEndBeyond ==
    LET ends == {i \in pos..Len(text) : text[i] = "newline"} \cup {Len(text) + 1}
    IN  1 + CHOOSE i \in ends : \A j \in ends : i <= j

(* Where the line ends that the scanner is in. *)
LineEnd ==
    LET ends == {i \in pos..Len(text) : text[i] = "newline"} \cup {Len(text) + 1}
    IN  CHOOSE i \in ends : \A j \in ends : i <= j

AtEnd == IF pos > Len(text) THEN TRUE ELSE text[pos] = "newline"
Sees(symbol) == outcome = "parsing" /\ ~AtEnd /\ text[pos] = symbol

Reject ==
    /\ outcome' = "rejected"
    /\ UNCHANGED <<text, pos, words, current, quoted, commands>>

-------------------------------------------------------------------------------
(* split_words, one action per branch of its loop.                         *)

(* A closing quote ends a word, which may be empty; blanks after it are    *)
(* skipped.                                                                *)
CloseQuote ==
    /\ Sees("quote") /\ quoted
    /\ words' = Append(words, current) /\ current' = <<>>
    /\ quoted' = FALSE
    /\ pos' = CHOOSE i \in (pos + 1)..LineEnd :
                  /\ \A j \in (pos + 1)..(i - 1) : text[j] = "blank"
                  /\ i < LineEnd => text[i] # "blank"
    /\ UNCHANGED <<text, commands, outcome>>

(* Mutant: a quote may begin inside a word. *)
OpenQuoteAnywhere ==
    /\ Sees("quote") /\ ~quoted
    /\ quoted' = TRUE /\ pos' = pos + 1
    /\ UNCHANGED <<text, words, current, commands, outcome>>

OpenQuote ==
    /\ Sees("quote") /\ ~quoted
    /\ IF current # <<>> THEN Reject
       ELSE /\ quoted' = TRUE /\ pos' = pos + 1
            /\ UNCHANGED <<text, words, current, commands, outcome>>

(* What a backslash makes of the symbol after it.  (\r and \t are like \n.) *)
Unescaped(symbol) == IF symbol = "n" THEN "newline" ELSE symbol

Escape ==
    /\ Sees("backslash") /\ quoted
    /\ IF pos + 1 = LineEnd THEN Reject
       ELSE /\ current' = Append(current, Unescaped(text[pos + 1]))
            /\ pos' = pos + 2
            /\ UNCHANGED <<text, words, quoted, commands, outcome>>

EndWord(list) == IF current = <<>> THEN list ELSE Append(list, current)

Separate ==
    /\ Sees("blank") /\ ~quoted
    /\ words' = EndWord(words) /\ current' = <<>>
    /\ pos' = pos + 1
    /\ UNCHANGED <<text, quoted, commands, outcome>>

(* A comment begins where a word could begin, and takes the rest.          *)
CommentStarts == Sees("hash") /\ ~quoted /\ current = <<>>

Comment ==
    /\ CommentStarts
    /\ pos' = LineEnd
    /\ UNCHANGED <<text, words, current, quoted, commands, outcome>>

(* Anything else is part of a word. *)
Ordinary ==
    /\ outcome = "parsing" /\ ~AtEnd
    /\ text[pos] # "quote"
    /\ ~(text[pos] = "backslash" /\ quoted)
    /\ ~(text[pos] = "blank" /\ ~quoted)
    /\ ~CommentStarts
    /\ current' = Append(current, text[pos])
    /\ pos' = pos + 1
    /\ UNCHANGED <<text, words, quoted, commands, outcome>>

-------------------------------------------------------------------------------
(* What the words may be.                                                  *)

Space == {"blank", "newline"}
Integers8 == {"1", "-1"}
Integers16 == Integers8 \cup {"300"}
Unsigned32 == {"1", "300", "40000"}

(* parse_ranged_integer_token: stoll skips white space before the number,  *)
(* and nothing may follow it.                                              *)
IsNumber(word, range) ==
    /\ word # <<>>
    /\ \A i \in 1..(Len(word) - 1) : word[i] \in Space
    /\ word[Len(word)] \in range

(* parse_combo: white space is removed, and between the plus signs stands  *)
(* one name each, of which one at most is a key.  Digits, letters and the  *)
(* names of the arrows are keys.                                           *)
Modifiers == {"ctrl"}
Keys == {"enter", "left", "down", "1", "n"}
IsCombo(word) ==
    LET kept == SelectSeq(word, LAMBDA symbol : symbol \notin Space)
        keys == {i \in 1..Len(kept) : kept[i] \in Keys}
    IN  /\ Len(kept) % 2 = 1
        /\ \A i \in 1..Len(kept) :
              IF i % 2 = 0 THEN kept[i] = "plus" ELSE kept[i] \in Modifiers \cup Keys
        /\ Cardinality(keys) <= 1

(* mouse_button_mask *)
IsButton(word) == word = <<"left">>

(* parse_script_line: the words must be as many as the command takes, and  *)
(* be what it takes.  (`up' is treated like `down'.)                       *)
Accepted(line) ==
    LET size == Len(line)
    IN  \/ line[1] \in {<<"type">>, <<"text">>} /\ size = 2
        \/ /\ line[1] = <<"key">> /\ size = 3
           /\ line[2] \in {<<"tap">>, <<"down">>} /\ IsCombo(line[3])
        \/ /\ line[1] = <<"mouse">> /\ size >= 2
           /\ \/ /\ line[2] = <<"move">> /\ size = 4
                 /\ IsNumber(line[3], Integers16) /\ IsNumber(line[4], Integers16)
              \/ line[2] \in {<<"click">>, <<"down">>} /\ size = 3 /\ IsButton(line[3])
              \/ line[2] = <<"wheel">> /\ size = 3 /\ IsNumber(line[3], Integers8)
        \/ line[1] = <<"wait">> /\ size = 2 /\ IsNumber(line[2], Unsigned32)
        \/ line[1] = <<"stop">> /\ size = 1

(* The end of a line: split_words checks for an open quote, and            *)
(* parse_script_line makes a command of the words, if there are any; one   *)
(* line that is rejected rejects the script.                               *)
EndLine ==
    /\ outcome = "parsing" /\ AtEnd
    /\ LET line == EndWord(words)
       IN  IF quoted \/ (line # <<>> /\ ~Accepted(line)) THEN Reject
           ELSE /\ commands' = IF line = <<>> THEN commands ELSE Append(commands, line)
                /\ words' = <<>> /\ current' = <<>> /\ quoted' = FALSE
                /\ IF pos > Len(text)
                   THEN outcome' = "parsed" /\ UNCHANGED pos
                   ELSE pos' = pos + 1 /\ UNCHANGED outcome
                /\ UNCHANGED text

Next ==
    \/ CloseQuote \/ OpenQuote \/ Escape \/ Separate \/ Comment \/ Ordinary
    \/ EndLine

Spec == Init /\ [][Next]_vars

-------------------------------------------------------------------------------
(* The language, without a scanner: a text s is cut into blanks, newlines,  *)
(* bare words, quoted words and comments.                                  *)

(* The values of f at the numbers of a set, in their order.                *)
Rank(set, i) == Cardinality({j \in set : j <= i})
InOrder(set, f) ==
    [k \in 1..Cardinality(set) |-> f[CHOOSE i \in set : Rank(set, i) = k]]

(* In quotes that open at a: an odd number of backslashes before i.        *)
Escaped(s, a, i) ==
    \E j \in a..(i - 1) :
        /\ s[j] # "backslash" /\ \A k \in (j + 1)..(i - 1) : s[k] = "backslash"
        /\ (i - 1 - j) % 2 = 1

(* What the symbols from a to b can be.  A bare word ends only at a blank  *)
(* or with the line, a comment only with the line.                         *)
Between == {"blank", "newline"}
Ends(s, b, symbols) == b = Len(s) \/ s[b + 1] \in symbols

IsBlank(s, a, b) == a = b /\ s[a] \in Between
IsBare(s, a, b) ==
    /\ s[a] # "hash" /\ \A i \in a..b : s[i] \notin Between \cup {"quote"}
    /\ Ends(s, b, Between)
IsComment(s, a, b) ==
    /\ s[a] = "hash" /\ \A i \in a..b : s[i] # "newline"
    /\ Ends(s, b, {"newline"})
IsQuoted(s, a, b) ==
    /\ a < b /\ s[a] = "quote" /\ s[b] = "quote" /\ ~Escaped(s, a, b)
    /\ \A i \in (a + 1)..(b - 1) : s[i] # "newline" /\ (s[i] = "quote" => Escaped(s, a, i))

IsPiece(s, a, b) == IsBlank(s, a, b) \/ IsBare(s, a, b) \/ IsComment(s, a, b) \/ IsQuoted(s, a, b)

(* The ways to cut a text, each as the set of the places where a piece     *)
(* begins.                                                                 *)
Cuts(s) ==
    {starts \in SUBSET (1..Len(s)) :
        /\ Len(s) > 0 => 1 \in starts
        /\ \A a \in starts : \E b \in a..Len(s) :
              /\ IsPiece(s, a, b)
              /\ \A i \in (a + 1)..b : i \notin starts
              /\ b = Len(s) \/ b + 1 \in starts}

(* The word that a piece from a on stands for: if it is quoted its inside,  *)
(* without the backslashes that escape something.                          *)
Kept(s, a, n) == {i \in (a + 1)..(n - 1) : s[i] = "backslash" => Escaped(s, a, i)}
Meant(s, a) == [i \in 1..Len(s) |-> IF Escaped(s, a, i) THEN Unescaped(s[i]) ELSE s[i]]
WordAt(s, a) ==
    LET b == CHOOSE n \in a..Len(s) : IsPiece(s, a, n)
    IN  IF s[a] = "quote" THEN InOrder(Kept(s, a, b), Meant(s, a)) ELSE SubSeq(s, a, b)

(* The words of the line that ends before e, and of all lines that have    *)
(* any.                                                                    *)
LineEnds(s) == {i \in 1..Len(s) : s[i] = "newline"} \cup {Len(s) + 1}
Line(s, e) == {i \in 1..(e - 1) : \A j \in i..(e - 1) : s[j] # "newline"}
WordsOf(s, cut, e) ==
    LET starts == {a \in cut \cap Line(s, e) : s[a] \notin {"blank", "hash"}}
    IN  InOrder(starts, [a \in starts |-> WordAt(s, a)])
Reading(s, cut) ==
    LET ends == {e \in LineEnds(s) : WordsOf(s, cut, e) # <<>>}
    IN  InOrder(ends, [e \in ends |-> WordsOf(s, cut, e)])

(* The table of commands in README.md, and the alias `text'. *)
Forms ==
    {<<"type", "any">>, <<"text", "any">>, <<"stop">>, <<"wait", "uint32">>,
     <<"key", "tap", "combo">>, <<"key", "down", "combo">>,
     <<"mouse", "move", "int16", "int16">>, <<"mouse", "wheel", "int8">>,
     <<"mouse", "click", "button">>, <<"mouse", "down", "button">>}

IsA(word, what) ==
    CASE what = "any" -> TRUE
      [] what = "int8" -> IsNumber(word, Integers8)
      [] what = "int16" -> IsNumber(word, Integers16)
      [] what = "uint32" -> IsNumber(word, Unsigned32)
      [] what = "combo" -> IsCombo(word)
      [] what = "button" -> IsButton(word)
      [] OTHER -> word = <<what>>

Documented(line) ==
    \E form \in Forms :
        Len(form) = Len(line) /\ \A i \in 1..Len(form) : IsA(line[i], form[i])

Good(s, cut) ==
    \A e \in LineEnds(s) : WordsOf(s, cut, e) = <<>> \/ Documented(WordsOf(s, cut, e))

-------------------------------------------------------------------------------
(* Properties. *)

TypeOK ==
    /\ text \in Texts
    /\ pos \in 1..(Len(text) + 1)
    /\ words \in Seq(Seq(Symbols \cup Special)) /\ current \in Seq(Symbols \cup Special)
    /\ quoted \in BOOLEAN
    /\ commands \in Seq(Seq(Seq(Symbols \cup Special)))
    /\ outcome \in {"parsing", "parsed", "rejected"}

(* The scanner accepts exactly the language: a text is parsed if and only  *)
(* if it can be cut into pieces, in one way, so that the words of every    *)
(* line are a documented command or none; and the commands are those       *)
(* words, line by line.  One bad line rejects all of the script.           *)
ParsesTheLanguage ==
    /\ outcome = "parsed" =>
          \E cut \in Cuts(text) :
             Cuts(text) = {cut} /\ Good(text, cut) /\ commands = Reading(text, cut)
    /\ outcome = "rejected" => \A cut \in Cuts(text) : ~Good(text, cut)
===============================================================================
