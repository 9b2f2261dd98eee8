--------------------------- MODULE KestrelTokenizer ----------------------------
(***************************************************************************)
(* tokenize_fields and group_positions of src/src/tokenizer.rs: the text   *)
(* of a document, a character at a time.                                   *)
(*                                                                         *)
(* A run of letters becomes one term, in lower case; a run of CJK          *)
(* characters becomes its overlapping pairs, or a single character; other  *)
(* characters separate.  Two buffers hold the run at hand, and what ends a *)
(* run flushes them.                                                       *)
(*                                                                         *)
(* KestrelIndex takes the terms of a document as given, in Fields; here a  *)
(* document is a text, a sequence of fields of characters.  It has at most *)
(* 64 fields (see validate_operations), and fewer tokens than a 32-bit     *)
(* word can count.                                                         *)
(***************************************************************************)
EXTENDS KestrelIndex

CONSTANTS
  Texts,       \* the texts of an instance
  Characters,  \* their characters
  Letters,     \* letters, digits and underscores
  Cjk,         \* what is_cjk accepts
  Lower        \* to_lowercase, of a letter

ASSUME CharacterAssumption ==
  /\ Texts \subseteq Seq(Seq(Characters))
  /\ \A d \in Texts : Len(d) <= 64
  /\ Letters \cap Cjk = {}
  /\ Lower \in [Letters -> Letters]
  /\ \A ch \in Letters : Lower[Lower[ch]] = Lower[ch]

VARIABLES
  text,    \* the document
  field,   \* the number of the field at hand
  at,      \* the next character of it
  word,    \* the letters since the last separator
  cjk,     \* the CJK characters since the last separator
  offset,  \* the tokens of this field
  tokens,  \* all tokens so far
  total    \* the tokens of the fields before this one

tokenizerVars == <<text, field, at, word, cjk, offset, tokens, total>>

normalize_term(t) == [i \in DOMAIN t |-> IF t[i] \in Letters THEN Lower[t[i]] ELSE t[i]]

Start(d) ==
  /\ text = d /\ field = 1 /\ at = 1
  /\ word = <<>> /\ cjk = <<>> /\ offset = 0
  /\ tokens = <<>> /\ total = 0

Tokenized == field > Len(text)

-----------------------------------------------------------------------------
(* What the buffers become.                                                *)

WordTerms == IF word = <<>> THEN <<>> ELSE <<normalize_term(word)>>

CjkPairs == [i \in 1..(Len(cjk) - 1) |-> <<cjk[i], cjk[i + 1]>>]

CjkTerms ==
  IF cjk = <<>> THEN <<>> ELSE IF Len(cjk) = 1 THEN <<cjk>> ELSE CjkPairs

\* The terms as the next tokens of the field.  Behind the last position of a
\* column all tokens have that position.
Occurrences(terms) ==
  [i \in DOMAIN terms |->
     [term |-> terms[i],
      position |-> (field - 1) * ColumnSize + Smaller(offset + i - 1, ColumnSize - 1)]]

Flush(terms) ==
  /\ tokens' = tokens \o Occurrences(terms)
  /\ offset' = offset + Len(terms)

-----------------------------------------------------------------------------
(* The loop over the characters of a field.                                *)

Reads(chars) ==
  /\ ~Tokenized
  /\ at <= Len(text[field])
  /\ text[field][at] \in chars
  /\ at' = at + 1
  /\ UNCHANGED <<text, field, total>>

\* Seeded fault: a CJK character does not end a word.
CjkWithinWord ==
  /\ Reads(Cjk)
  /\ cjk' = Append(cjk, text[field][at])
  /\ UNCHANGED <<word, offset, tokens>>

CjkCharacter ==
  /\ Reads(Cjk)
  /\ Flush(WordTerms)
  /\ word' = <<>> /\ cjk' = Append(cjk, text[field][at])

Letter ==
  /\ Reads(Letters)
  /\ Flush(CjkTerms)
  /\ cjk' = <<>> /\ word' = Append(word, text[field][at])

Separator ==
  /\ Reads({ch \in ToSet(text[field]) : ch \notin Cjk \cup Letters})
  /\ Flush(CjkTerms \o WordTerms)
  /\ word' = <<>> /\ cjk' = <<>>

FieldEnds ==
  LET terms == WordTerms \o CjkTerms
  IN /\ ~Tokenized
     /\ at > Len(text[field])
     /\ tokens' = tokens \o Occurrences(terms)
     /\ total' = total + offset + Len(terms)
     /\ word' = <<>> /\ cjk' = <<>>
     /\ field' = field + 1 /\ at' = 1 /\ offset' = 0
     /\ UNCHANGED text

Tokenize == CjkCharacter \/ Letter \/ Separator \/ FieldEnds

\* group_positions.
GroupPositions ==
  [t \in Terms |->
     LET nth == Ascending({n \in DOMAIN tokens : tokens[n].term = t})
     IN [i \in DOMAIN nth |-> tokens[nth[i]].position]]

-----------------------------------------------------------------------------
(* Properties.  The reference: a field read at once, by its runs.          *)

Class(ch) == IF ch \in Letters THEN "word" ELSE IF ch \in Cjk THEN "cjk" ELSE "none"

\* Character i begins a run, or the one after it goes on with it.
Begins(f, i) == i = 1 \/ Class(f[i - 1]) # Class(f[i])
GoesOn(f, i) == i < Len(f) /\ Class(f[i + 1]) = Class(f[i])

\* A word is a term, and in a run of CJK characters each one that has a next,
\* or the only one.
StartsTerm(f, i) ==
  \/ Class(f[i]) = "word" /\ Begins(f, i)
  \/ Class(f[i]) = "cjk" /\ (GoesOn(f, i) \/ Begins(f, i))

WordEnd(f, i) == Max({j \in i..Len(f) : \A k \in i..j : Class(f[k]) = "word"})

TermAt(f, i) ==
  IF Class(f[i]) = "word" THEN normalize_term(SubSeq(f, i, WordEnd(f, i)))
  ELSE IF GoesOn(f, i) THEN <<f[i], f[i + 1]>> ELSE <<f[i]>>

TermsOfRuns(f) ==
  LET starts == Ascending({i \in DOMAIN f : StartsTerm(f, i)})
  IN [k \in DOMAIN starts |-> TermAt(f, starts[k])]

RunFields(d) == [c \in DOMAIN d |-> TermsOfRuns(d[c])]

\* At the end of a text the tokens are those of its runs, at their positions,
\* and they are all counted: what KestrelIndex says of a document in advance.
\* Neither buffer is ever filled while the other one holds characters, so that
\* no flush can put two runs in the wrong order.
TokensAreRuns ==
  /\ word = <<>> \/ cjk = <<>>
  /\ Tokenized =>
       /\ GroupPositions = GroupedPositions(RunFields(text))
       /\ total = TokenCount(RunFields(text))

=============================================================================
