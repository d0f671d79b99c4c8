----------------------------- MODULE MCScriptText ------------------------------
(***************************************************************************)
(* Every text of up to MaxLength symbols over those that the scanner tells *)
(* apart, and the lines of one to four words that the commands are made    *)
(* of.                                                                     *)
(***************************************************************************)
EXTENDS ScriptText

CONSTANT MaxLength

Keywords == {"type", "key", "tap", "down", "mouse", "move", "click", "wheel", "wait",
             "stop", "left", "enter", "1", "-1", "300", "40000", "100ms"}

MCSymbols == Keywords \cup {"text", "n", "ctrl", "plus"}

(* All short texts, with one command that takes any word and one that      *)
(* takes none.                                                             *)
Raw == UNION {[1..n -> Special \cup {"stop", "n"}] : n \in 0..MaxLength}
Typed == {<<"type", "blank">> \o t : t \in UNION {[1..n -> Special \cup {"n"}] : n \in 0..(MaxLength - 1)}}

(* Words with blanks between them. *)
Spaced(list) == [i \in 1..(2 * Len(list) - 1) |->
                    IF i % 2 = 1 THEN list[(i + 1) \div 2] ELSE "blank"]
Sentences ==
    LET Numbers == {"1", "-1", "300", "40000", "100ms"}
        lists == UNION {[1..n -> Keywords] : n \in 1..3}
                 \cup {<<"mouse", "move", a, b>> : a \in Numbers, b \in Numbers}
                 \cup {l \o <<"1">> : l \in {<<"key", "tap", "enter">>, <<"mouse", "click", "left">>}}
    IN  {Spaced(l) : l \in lists}

(* White space inside a quoted number or key. *)
Padded == {head \o <<"quote", "blank">> \o word \o <<"quote">> :
              head \in {<<"wait", "blank">>, <<"key", "blank", "tap", "blank">>},
              word \in {<<"1">>, <<"1", "blank">>, <<"enter">>}}

(* Combinations of keys, well-formed and not. *)
Combos == {<<"key", "blank", "tap", "blank">> \o c :
              c \in UNION {[1..n -> {"ctrl", "enter", "left", "plus"}] : n \in 1..5}}

MCTexts == Combos \cup Raw \cup Typed \cup Sentences \cup Padded
===============================================================================
