------------------------------ MODULE SFTDataset ------------------------------
(***************************************************************************)
(* From the moves of a puzzle to the labels a model is trained on:         *)
(* generate_puzzle_sequence writes them with a <call_env> after each move  *)
(* of the model, SFTDataset strips, masks or keeps the replies, and        *)
(* MultiTurnSFTDataset masks the replies it keeps.  A word is its tokens   *)
(* and who they are from, which the code does not see.                     *)
(***************************************************************************)
EXTENDS EnvMask

Word(tokens, by) == [tokens |-> tokens, by |-> by]

Tag == Word(<<"call">>, "model")

\* The moves after the trigger, of which the first is the model's.
generate_puzzle_sequence(moves, max_puzzle_moves) ==
    FlattenSeq([i \in 1..(IF Len(moves) < max_puzzle_moves THEN Len(moves) ELSE max_puzzle_moves) |->
        IF i % 2 = 1 THEN << Word(moves[i], "model"), Tag >> ELSE << Word(moves[i], "env") >>])

\* A thinking response: <T>, a trace, </T>.
Thinking ==
    << Word(<<"struct">>, "frame"), Word(<<"piece", "square">>, "model"),
       Word(<<"struct">>, "model") >>

IsTag(word) == word.tokens = <<"call">>

FollowsTag(words, i) == i > 1 /\ IsTag(words[i - 1])

_strip_env_tokens(words) ==
    LET kept == {i \in DOMAIN words : ~ IsTag(words[i]) /\ ~ FollowsTag(words, i)}
    IN  [n \in 1..Cardinality(kept) |-> words[SetToSortSeq(kept, <)[n]]]

\* Without the tags, and the places of the words that follow one.
_split_env_segments(words) ==
    LET text == SelectSeq(words, LAMBDA word : ~ IsTag(word))
        place(i) == Cardinality({j \in 1..i : ~ IsTag(words[j])})
    IN  [text |-> text, opponent |-> {place(i) : i \in {i \in DOMAIN words :
                                          ~ IsTag(words[i]) /\ FollowsTag(words, i)}}]

Tokens(words) == FlattenSeq([i \in DOMAIN words |-> words[i].tokens])

\* Spans [start, end) of tokens, counted from zero.
_env_token_spans(text, opponent) ==
    {<<Len(Tokens(SubSeq(text, 1, i - 1))), Len(Tokens(SubSeq(text, 1, i)))>> : i \in opponent}

\* A sample: its prompt and response, and the spans to mask.
Sample(s) ==
    LET raw == (IF s.thinking THEN Thinking ELSE << >>)
                   \o generate_puzzle_sequence(s.moves, s.max_puzzle_moves)
        cut == _split_env_segments(raw)
    IN  CASE s.env_mode = "strip" -> [text |-> _strip_env_tokens(raw), spans |-> {}]
          [] s.env_mode = "mask"  -> [text |-> cut.text,
                                      spans |-> _env_token_spans(cut.text, cut.opponent)]
          [] OTHER                -> [text |-> raw, spans |-> {}]

\* prompt + response; <eos> stays after thinking only.
Text(s) ==
    << Word(s.prompt, "prompt") >> \o Sample(s).text
        \o (IF s.thinking THEN << Word(<<"struct">>, "model") >> ELSE << >>)

\* labels[:prompt_length - 1]
PromptLabels(prompt_length) == IF prompt_length > 1 THEN 1..(prompt_length - 1) ELSE {}

\* Mutant of SpanLabels: labels are counted like tokens.
SpanLabels_NoShift(prompt, span) == (Len(prompt) + span[1] + 1)..(Len(prompt) + span[2])

\* labels[L + start - 1 : L + end - 1]
SpanLabels(prompt, span) == (Len(prompt) + span[1])..(Len(prompt) + span[2] - 1)

\* SFTDataset.__getitem__ and MultiTurnSFTDataset.__getitem__: the labels
\* (from one) that are not masked.
TrainedLabels(s) ==
    LET tokens == Tokens(Text(s))
    IN  ((1..(Len(tokens) - 1))
            \ (IF s.mask_prompt THEN PromptLabels(Len(s.prompt) + (IF s.thinking THEN 1 ELSE 0))
               ELSE {}))
            \ (UNION {SpanLabels(s.prompt, span) : span \in Sample(s).spans}
               \cup (IF s.multi_turn THEN MaskedLabels(tokens) ELSE {}))

-----------------------------------------------------------------------------
\* Castling, a plain move and a promotion.
Played == { <<"piece">>, <<"piece", "square">>, <<"piece", "square", "equal", "piece">> }

\* "mask" is for responses without thinking.
Samples ==
    {s \in [moves : BoundedSeq(Played, 4) \ {<< >>}, max_puzzle_moves : {3, 4},
            thinking : BOOLEAN, env_mode : {"strip", "mask", "keep"},
            multi_turn : BOOLEAN, mask_prompt : BOOLEAN,
            prompt : { <<"struct">>, <<"struct", "piece", "square">> }] :
        s.env_mode = "mask" => ~ s.thinking}

\* What should be trained: all that is from the model, and the rest only where
\* the options say so.
OwnLabels(s) ==
    LET words == Text(s)
        by    == FlattenSeq([i \in DOMAIN words |->
                     [t \in DOMAIN words[i].tokens |-> words[i].by]])
        trained == {"model"}
                       \cup (IF s.mask_prompt THEN {} ELSE {"prompt", "frame"})
                       \cup (IF s.env_mode = "keep" /\ ~ s.multi_turn THEN {"env"} ELSE {})
    IN  {j \in 1..(Len(by) - 1) : by[j + 1] \in trained}
=============================================================================
