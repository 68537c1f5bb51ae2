----------------------------- MODULE Cognition -----------------------------
(***************************************************************************)
(* The cognitive layer of the distribution: the vocabulary of              *)
(* src/vocab.cpp, the tokenizer and its context of src/tokenizer.cpp, and  *)
(* the forward pass of src/tensor.cpp.                                     *)
(*                                                                         *)
(* Every occurrence of a token adds the same weight to its output, the sum *)
(* of 0.001 * (token + dim) over the dimensions; outputs are counted in    *)
(* these weights.  total_tokens_processed is counted and never read.       *)
(***************************************************************************)
EXTENDS Integers, Sequences

CONSTANTS FONTANA_VOCAB_SIZE,   \* 256
          FONTANA_CONTEXT_LEN,  \* 32
          Tokens,               \* tokens a caller pushes, any of 32 bits
          Words,                \* strings a caller passes
          Kept                  \* word |-> what 15 characters keep of it

Ids == 0 .. FONTANA_VOCAB_SIZE - 1
Slots == 0 .. FONTANA_CONTEXT_LEN - 1
OutOfVocabulary == FONTANA_VOCAB_SIZE - 1   \* 255, which is an entry as well
Empty == ""

ASSUME CognitionAssumption ==
    /\ FONTANA_VOCAB_SIZE \in Nat \ {0} /\ FONTANA_CONTEXT_LEN \in Nat \ {0}
    /\ Tokens \subseteq Nat
    /\ DOMAIN Kept = Words

VARIABLES token_string,      \* id |-> the string of its entry of vocab_table
          context_history, current_index,
          output_layer       \* id |-> its output, in occurrences

cognition == <<token_string, context_history, current_index, output_layer>>

\* init_vocab_parser, init_tokenizer_routing and init_tensor_engine.
CognitionInit ==
    /\ token_string = [i \in Ids |-> Empty]
    /\ context_history = [s \in Slots |-> 0]
    /\ current_index = 0
    /\ output_layer = [i \in Ids |-> 0]

-----------------------------------------------------------------------------
\* An id out of range is ignored.
add_vocab_mapping(id, word) ==
    /\ id \in Ids
    /\ token_string' = [token_string EXCEPT ![id] = Kept[word]]
    /\ UNCHANGED <<context_history, current_index, output_layer>>

\* The first entry that matches.
tokenize_string_slice(word) ==
    LET matches == {i \in Ids : token_string[i] = word} IN
      IF word = Empty THEN 0
      ELSE IF matches = {} THEN OutOfVocabulary
      ELSE CHOOSE i \in matches : \A m \in matches : i <= m

Shifted_TooFar(t) ==
    [s \in Slots |-> IF s = FONTANA_CONTEXT_LEN - 1 THEN t
                     ELSE context_history[FONTANA_CONTEXT_LEN - 1]]
Shifted(t) ==
    [s \in Slots |-> IF s = FONTANA_CONTEXT_LEN - 1 THEN t ELSE context_history[s + 1]]

push_token_to_context(t) ==
    /\ IF current_index < FONTANA_CONTEXT_LEN
       THEN /\ context_history' = [context_history EXCEPT ![current_index] = t]
            /\ current_index' = current_index + 1
       ELSE /\ context_history' = Shifted(t)
            /\ UNCHANGED current_index
    /\ UNCHANGED <<token_string, output_layer>>

\* A caller tokenizes a word and pushes what it gets.
Read(word) == push_token_to_context(tokenize_string_slice(word))

-----------------------------------------------------------------------------
\* evaluate_tensor_forward: the layer is reset, then every slot of the context,
\* filled or not, adds to the output of its token; other tokens are skipped.
Baseline_LastPass == output_layer
Baseline == [i \in Ids |-> 0]
Accumulated ==
    LET after[n \in 0 .. FONTANA_CONTEXT_LEN] ==
          IF n = 0 THEN Baseline
          ELSE IF context_history[n - 1] \in Ids
               THEN [after[n - 1] EXCEPT ![context_history[n - 1]] = @ + 1]
               ELSE after[n - 1]
    IN  after[FONTANA_CONTEXT_LEN]

evaluate_tensor_forward ==
    /\ output_layer' = Accumulated
    /\ UNCHANGED <<token_string, context_history, current_index>>

-----------------------------------------------------------------------------
\* The context, as what has been pushed.
Remembered == [n \in 1 .. current_index |-> context_history[n - 1]]
TheWindow == INSTANCE Window WITH
    Tokens <- Tokens \cup Ids, Length <- FONTANA_CONTEXT_LEN, window <- Remembered

\* The context holds the latest tokens in the order in which they were pushed.
RefinesWindow == TheWindow!Spec
=============================================================================
