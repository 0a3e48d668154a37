------------------------------ MODULE Compute ------------------------------
(***************************************************************************)
(* The command language: what ParseAndValidate and DatabaseHandler make of *)
(* the text of a query.                                                    *)
(*                                                                         *)
(* A text is the sequence of its tokens, which is what strings.Fields      *)
(* returns.  A token is a sequence of pieces rather than of characters:    *)
(* each piece is of one kind (capital letters, small letters, digits,      *)
(* allowed or other symbols), so that upper-casing, validation and the     *)
(* gluing of two tokens act on whole pieces.                               *)
(***************************************************************************)
EXTENDS Integers, Sequences, SequencesExt

\* Pieces of small letters, with what strings.ToUpper makes of them.
UpperOf == [set |-> "SET", get |-> "GET", del |-> "DEL", k |-> "K", v |-> "V"]

LowerLetters == DOMAIN UpperOf
UpperLetters == {UpperOf[p] : p \in LowerLetters}
Digits == {"1"}
Punctuation == {"_"}
OtherSymbols == {"#"}
Pieces ==
  LowerLetters \cup UpperLetters \cup Digits \cup Punctuation \cup OtherSymbols

CommandSet == <<"SET">>
CommandGet == <<"GET">>
CommandDel == <<"DEL">>

CommandSetQ == 2
CommandGetQ == 1
CommandDelQ == 1

ToUpper(token) ==
  [i \in DOMAIN token |->
     IF token[i] \in LowerLetters THEN UpperOf[token[i]] ELSE token[i]]

ValidateCommand(token) == ToSet(token) \subseteq UpperLetters

ValidateArgument(token) ==
  ToSet(token) \subseteq LowerLetters \cup UpperLetters \cup Digits \cup Punctuation

\* The tokens, the first in capitals; <<>> stands for an error.
ParseAndValidate(text) ==
  LET tokens == [text EXCEPT ![1] = ToUpper(@)]
  IN  IF /\ text # <<>>
         /\ ValidateCommand(tokens[1])
         /\ \A i \in DOMAIN tokens : ValidateArgument(tokens[i])
      THEN tokens
      ELSE <<>>

\* What the handler asks of the storage layer, if anything.
Call(name, arguments) == [call |-> name, args |-> arguments]
NoCall == Call("none", <<>>)

\* Mutant: arguments too many are not noticed.
handleSetLax(tokens) ==
  IF Len(tokens) - 1 < CommandSetQ THEN NoCall
  ELSE Call("Set", <<tokens[2], tokens[3]>>)

handleSet(tokens) ==
  IF Len(tokens) - 1 # CommandSetQ THEN NoCall ELSE Call("Set", Tail(tokens))

handleGet(tokens) ==
  IF Len(tokens) - 1 # CommandGetQ THEN NoCall ELSE Call("Get", Tail(tokens))

handleDel(tokens) ==
  IF Len(tokens) - 1 # CommandDelQ THEN NoCall ELSE Call("Del", Tail(tokens))

\* The parsing and the switch of DatabaseHandler.
DatabaseHandler(text) ==
  LET tokens == ParseAndValidate(text)
  IN  CASE tokens = <<>> -> NoCall
        [] tokens # <<>> /\ tokens[1] = CommandSet -> handleSet(tokens)
        [] tokens # <<>> /\ tokens[1] = CommandGet -> handleGet(tokens)
        [] tokens # <<>> /\ tokens[1] = CommandDel -> handleDel(tokens)
        [] OTHER -> NoCall

-----------------------------------------------------------------------------
\* Two texts that arrive back to back: the prompt loop trims its lines and
\* sends no line end, so the last token of one runs into the first of the
\* other.
Glue(a, b) == Front(a) \o <<Last(a) \o Head(b)>> \o Tail(b)

\* The text of several lines that one Read returns.
GlueAll(lines) ==
  LET text[n \in DOMAIN lines] ==
        IF n = 1 THEN lines[1] ELSE Glue(text[n - 1], lines[n])
  IN  text[Len(lines)]

=============================================================================
