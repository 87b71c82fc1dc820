------------------------------- MODULE LlmClient -------------------------------
(***************************************************************************)
(* The governed client of a language model and the conversations above it  *)
(* (llm_runtime.py), as the chat uses them (chat.py): a budget of calls,   *)
(* retries with a pause between them, replies that are shown while they    *)
(* arrive, and a conversation that is replaced when the reply is complete. *)
(*                                                                         *)
(* A turn is a user message.  A piece of a reply is the number of the      *)
(* attempt that produced it: what a property can tell of two pieces is     *)
(* whether they belong to one answer of the provider.                      *)
(***************************************************************************)
EXTENDS Naturals, FiniteSets, Sequences

CONSTANTS
    Turns,
    MaxRetries, CallBudget,   \* max_retries and daily_token_budget
    MaxPieces,                \* bound: pieces of one reply
    MaxClears                 \* bound: clears of the session

ASSUME LlmAssumption ==
    /\ CallBudget \in Nat \ {0} /\ {MaxRetries, MaxPieces, MaxClears} \subseteq Nat
    /\ IsFiniteSet(Turns)

VARIABLES
    used,           \* LlmBudget.used
    requests,       \* what the provider was asked, with its attempt
    conversation,   \* the messages of the running session
    session,        \* the number of the session: clear() starts another
    turns           \* the calls of send and send_streaming

llmVars == <<used, requests, conversation, session, turns>>

NotSent == [pc |-> "unsent"]
Retryable == {"UNAVAILABLE", "RATE_LIMITED", "TIMEOUT"}
LlmErrors == Retryable \cup {"AUTHENTICATION", "INVALID_OUTPUT"}

LlmInit ==
    /\ used = 0 /\ requests = {} /\ conversation = <<>> /\ session = 0
    /\ turns = [t \in Turns |-> NotSent]

HasBudget == used + 1 <= CallBudget

\* What a turn sends: the messages of this moment, with the system prompt on a new conversation
Messages(t) ==
    conversation \o (IF conversation = <<>> THEN <<[role |-> "system"]>> ELSE <<>>)
                 \o <<[role |-> "user", turn |-> t]>>

SendTurn(t, streaming) ==
    /\ turns[t].pc = "unsent"
    /\ turns' = [turns EXCEPT ![t] =
          [pc |-> IF streaming THEN "reserve" ELSE "attempt", messages |-> Messages(t), session |-> session,
           streaming |-> streaming, attempt |-> 0, emitted |-> FALSE, parts |-> <<>>]]
    /\ UNCHANGED <<used, requests, conversation, session>>

EndTurn(t, pc) == turns' = [turns EXCEPT ![t].pc = pc]

\* stream_generate() reserves once, before its attempts
ReserveStream(t) ==
    /\ turns[t].pc = "reserve"
    /\ IF HasBudget THEN used' = used + 1 /\ EndTurn(t, "attempt")
                    ELSE EndTurn(t, "failed") /\ UNCHANGED used
    /\ UNCHANGED <<requests, conversation, session>>

AskProvider(t) == requests' = requests \cup {<<t, turns[t].attempt>>}

AttemptStream(t) ==
    /\ turns[t].pc = "attempt" /\ turns[t].streaming
    /\ AskProvider(t)
    /\ turns' = [turns EXCEPT ![t].pc = "answer", ![t].emitted = FALSE]
    /\ UNCHANGED <<used, conversation, session>>

(* A faulty retry: what was emitted does not matter.                       *)
RetriesWhatever(t, code) == code \in Retryable /\ turns[t].attempt < MaxRetries
MayRetry(t, code) ==
    /\ code \in Retryable /\ turns[t].attempt < MaxRetries
    /\ ~ (turns[t].streaming /\ turns[t].emitted)

\* An error of the call: another attempt after a pause, or the end of the turn
FailedAttempt(t, code) ==
    turns' = [turns EXCEPT ![t] =
        IF MayRetry(t, code) THEN [turns[t] EXCEPT !.pc = "attempt", !.attempt = @ + 1]
                             ELSE [turns[t] EXCEPT !.pc = "failed"]]

(* generate() reserves for every attempt, inside the try: a budget that is *)
(* spent is an error like a limit of the provider.                         *)
AttemptGenerate(t) ==
    /\ turns[t].pc = "attempt" /\ ~ turns[t].streaming
    /\ IF HasBudget THEN used' = used + 1 /\ AskProvider(t) /\ EndTurn(t, "answer")
                    ELSE FailedAttempt(t, "RATE_LIMITED") /\ UNCHANGED <<used, requests>>
    /\ UNCHANGED <<conversation, session>>

ProviderFails(t, code) ==
    /\ turns[t].pc = "answer"
    /\ FailedAttempt(t, code)
    /\ UNCHANGED <<used, requests, conversation, session>>

\* wait_for() of generate() raises an error that is not an LlmError; the user may interrupt a turn
Interrupted(t) ==
    /\ turns[t].pc \in {"attempt", "answer"}
    /\ EndTurn(t, "failed")
    /\ UNCHANGED <<used, requests, conversation, session>>

\* A piece of text is shown and kept; the account of tokens is only emitted
Piece(t) ==
    /\ turns[t].pc = "answer" /\ turns[t].streaming
    /\ \/ /\ Len(turns[t].parts) < MaxPieces
          /\ turns' = [turns EXCEPT ![t].emitted = TRUE, ![t].parts = Append(@, turns[t].attempt)]
       \/ ~ turns[t].emitted /\ turns' = [turns EXCEPT ![t].emitted = TRUE]
    /\ UNCHANGED <<used, requests, conversation, session>>

\* A stream ends when the connection does, with or without its last mark
Answered(t) ==
    LET text == IF turns[t].streaming THEN turns[t].parts ELSE <<turns[t].attempt>>
    IN  /\ turns[t].pc = "answer"
        /\ EndTurn(t, "done")
        /\ conversation' = IF turns[t].session = session
                           THEN Append(turns[t].messages, [role |-> "assistant", turn |-> t, text |-> text])
                           ELSE conversation
        /\ UNCHANGED <<used, requests, session>>

ClearSession ==
    /\ session < MaxClears
    /\ session' = session + 1 /\ conversation' = <<>>
    /\ UNCHANGED <<used, requests, turns>>

LlmNext ==
    \/ \E t \in Turns : \/ \E b \in BOOLEAN : SendTurn(t, b)
                        \/ \E code \in LlmErrors : ProviderFails(t, code)
                        \/ ReserveStream(t) \/ AttemptStream(t) \/ AttemptGenerate(t)
                        \/ Interrupted(t) \/ Piece(t) \/ Answered(t)
    \/ ClearSession

LlmSpec == LlmInit /\ [][LlmNext]_llmVars

(* A reply in the conversation comes from one attempt: what was shown      *)
(* before an error is never followed by the text of a retry.               *)
OneAttemptPerReply ==
    \A i \in DOMAIN conversation :
       conversation[i].role = "assistant" =>
          \A j, k \in DOMAIN conversation[i].text : conversation[i].text[j] = conversation[i].text[k]

(* The provider is asked no more often than the budget allows, up to the   *)
(* retries of the streams, which are not charged.                          *)
CallsArePaid ==
    Cardinality(requests) <= CallBudget + MaxRetries * Cardinality({t \in Turns : turns[t].pc # "unsent" /\ turns[t].streaming})

(* A conversation is governed: whole replies, and calls within the budget. *)
ChatIsGoverned == OneAttemptPerReply /\ CallsArePaid
=============================================================================
