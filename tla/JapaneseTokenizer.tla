------------------------- MODULE JapaneseTokenizer -------------------------
(***************************************************************************)
(* JapaneseTokenizer::next (nlp/src/tokenizers/japanese.rs): an iterator   *)
(* over the tokens of an inner tokenizer that passes every token through,  *)
(* except the alphabetic ones, which it cuts with tinysegmenter into words *)
(* and returns one by one with the byte offsets it computes for them.     *)
(*                                                                         *)
(* The inner tokenizer and tinysegmenter are not under src/; they are      *)
(* modelled from their contracts. An inner token covers the bytes         *)
(* [from, to) of the text and its word is those bytes; tinysegmenter cuts  *)
(* a non-empty word into one or more non-empty words that concatenate to  *)
(* it. A word is therefore given by its byte length: an inner token's     *)
(* pieces are the byte lengths of the words tinysegmenter returns for it. *)
(* An output word is named <<i, j>>, the j-th piece of inner token i, or  *)
(* <<i, 0>> for inner token i passed through.                             *)
(***************************************************************************)
EXTENDS Naturals, Sequences, SequencesExt

CONSTANTS
    MaxTokens,  \* the inner tokens of a text at most
    MaxPieces,  \* the words tinysegmenter cuts one token into at most
    Lens,       \* the byte lengths a word may have
    MaxFrom     \* the largest offset an inner token starts at

ASSUME JapaneseTokenizerAssumption ==
    /\ MaxTokens \in Nat /\ MaxPieces \in Nat \ {0} /\ MaxFrom \in Nat
    /\ Lens \subseteq Nat \ {0}

\* The sum of the first n piece lengths.
PrefixLen(p, n) == FoldLeft(LAMBDA a, b : a + b, 0, SubSeq(p, 1, n))

\* An inner token: alphabetic or not, its span, and for an alphabetic one
\* the lengths of the words tinysegmenter cuts it into.
InnerToken ==
    {[alpha |-> TRUE, from |-> f, to |-> f + PrefixLen(p, Len(p)), pieces |-> p] :
        f \in 0..MaxFrom, p \in BoundedSeq(Lens, MaxPieces) \ {<<>>}}
    \cup {[alpha |-> FALSE, from |-> f, to |-> f + l, pieces |-> <<>>] :
              f \in 0..MaxFrom, l \in Lens}

\* The inner tokenizer returns tokens in text order, without overlap.
InTextOrder(s) == \A i \in 1..(Len(s) - 1) : s[i].to <= s[i + 1].from

OutToken == [word: Nat \X Nat, from: Nat, to: Nat]

VARIABLES
    input,   \* the tokens the inner tokenizer will return, in order
    pos,     \* self.tokenizer: the index of its next token
    tokens,  \* self.tokens: the words of the last alphabetic token not yet returned
    out,     \* the tokens next() has returned so far
    done     \* next() has returned None

vars == <<input, pos, tokens, out, done>>

Init ==
    /\ input \in {s \in BoundedSeq(InnerToken, MaxTokens) : InTextOrder(s)}
    /\ pos = 1
    /\ tokens = <<>>
    /\ out = <<>>
    /\ done = FALSE

\* Mutant: the running offset token_to is advanced before token_from is
\* taken from it.
SegmentShifted(i) ==
    LET t == input[i]
        tt[j \in 0..Len(t.pieces)] == IF j = 0 THEN t.from ELSE tt[j - 1] + t.pieces[j]
    IN  [j \in 1..Len(t.pieces) |-> [word |-> <<i, j>>, from |-> tt[j], to |-> tt[j]]]

\* The tokens the .map closure builds from tinysegmenter's words for inner
\* token i: token_to starts at token.from, and each word takes
\* token_from = token_to, then advances token_to by word.len().
Segment(i) ==
    LET t == input[i]
        tt[j \in 0..Len(t.pieces)] == IF j = 0 THEN t.from ELSE tt[j - 1] + t.pieces[j]
    IN  [j \in 1..Len(t.pieces) |-> [word |-> <<i, j>>, from |-> tt[j - 1], to |-> tt[j]]]

\* token.into(): an inner token returned as it is.
PassThrough(i) == [word |-> <<i, 0>>, from |-> input[i].from, to |-> input[i].to]

\* Mutant: the inner tokenizer is peeked, not advanced.
ConsumePeek == pos' = pos

\* self.tokenizer.next() takes the next inner token.
Consume == pos' = pos + 1

\* One call of next(): the loop returns the next buffered word; with none,
\* it takes the next inner token (None when there is none, the `?`),
\* returns a non-alphabetic one as it is, and for an alphabetic one fills
\* self.tokens with its words and goes round again to return the first.
NextToken ==
    /\ ~done
    /\ \/ /\ tokens # <<>>
          /\ out' = Append(out, Head(tokens))
          /\ tokens' = Tail(tokens)
          /\ UNCHANGED <<input, pos, done>>
       \/ /\ tokens = <<>>
          /\ pos > Len(input)
          /\ done' = TRUE
          /\ UNCHANGED <<input, pos, tokens, out>>
       \/ /\ tokens = <<>>
          /\ pos <= Len(input)
          /\ ~input[pos].alpha
          /\ Consume
          /\ out' = Append(out, PassThrough(pos))
          /\ UNCHANGED <<input, tokens, done>>
       \/ /\ tokens = <<>>
          /\ pos <= Len(input)
          /\ input[pos].alpha
          /\ Consume
          /\ out' = Append(out, Head(Segment(pos)))
          /\ tokens' = Tail(Segment(pos))
          /\ UNCHANGED <<input, done>>

Next == NextToken

Spec == Init /\ [][Next]_vars

-----------------------------------------------------------------------------
(* Properties                                                              *)

\* Every variable has its type; the output never holds more tokens than
\* the inner tokens and their pieces.
TypeOK ==
    /\ pos \in 1..(Len(input) + 1)
    /\ tokens \in Seq(OutToken)
    /\ out \in Seq(OutToken)
    /\ Len(out) <= MaxTokens * MaxPieces
    /\ done \in BOOLEAN

\* What the tokenizer should return for inner token i: a non-alphabetic
\* token as it is; an alphabetic one as its words, each over the bytes of
\* the token that precede and make it, so that they tile [from, to).
Expected(i) ==
    LET t == input[i] IN
    IF t.alpha
    THEN [j \in 1..Len(t.pieces) |->
            [word |-> <<i, j>>, from |-> t.from + PrefixLen(t.pieces, j - 1),
             to |-> t.from + PrefixLen(t.pieces, j)]]
    ELSE <<PassThrough(i)>>

Reference == FlattenSeq([i \in 1..Len(input) |-> Expected(i)])

\* Across the calls of next(), the buffered words and the inner tokens
\* taken between them, what the tokenizer has returned is always a prefix
\* of the reference output, and it is the whole of it once next() returns
\* None: words in text order, each with the byte offsets of its own bytes.
OutputMatchesReference ==
    /\ IsPrefix(out, Reference)
    /\ done => out = Reference

=============================================================================
