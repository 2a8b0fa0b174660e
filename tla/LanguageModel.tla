---------------------------- MODULE LanguageModel ----------------------------
(***************************************************************************)
(* Structured completions: concurrent callers of complete_json share one   *)
(* response cache (single flight per key, the subject of TieredCache), one *)
(* daily token budget and one provider, which may fail, answer with        *)
(* nothing, or answer in prose.  A caller asks once and repairs once.      *)
(***************************************************************************)
EXTENDS Naturals, FiniteSets

CONSTANTS
  Askers,     \* concurrent calls of complete_json, all of one prompt
  Budget,     \* llm_daily_token_budget; 0: unlimited
  Estimate,   \* count_tokens of the prompts (characters over four) plus max_tokens
  Costs,      \* what the provider may bill for a reply, whatever was estimated
  MaxCost,    \* the most it bills
  Retries,    \* llm_max_retries
  MaxDays,    \* bound: midnights
  MaxAsks     \* bound: calls made in all

ASSUME LanguageModelAssumption ==
  /\ {Budget, Estimate, MaxCost, Retries, MaxDays, MaxAsks} \subseteq Nat
  /\ Costs \subseteq 0..MaxCost
  /\ IsFiniteSet(Askers) /\ Askers # {}

VARIABLES
  caching,  \* cache_llm_responses, and temperature 0
  used,     \* TokenBudget: tokens recorded today
  reply,    \* the response cache: what the entry of each round's prompt holds
  asker,    \* each caller's progress
  asks, days

llmVars == <<caching, used, reply, asker, asks, days>>

Rounds == {"ask", "repair"}

(* classify_error: what an exception of the SDK is taken for. *)
Failures == {"timeout", "rate_limited", "server", "client"}
Transient(failure) == failure \in {"timeout", "rate_limited", "server"}

(* parse_json_payload and _as_json_object: JSON on its own, in a fence, inside prose or
   with trailing commas is read; prose and nothing at all are not. *)
Readable == {"json"}
Replies == {"json", "prose", "blank"}

NotAsking == [pc |-> "idle", round |-> "ask", attempt |-> 0, text |-> "none", leads |-> FALSE]

LlmInit ==
  /\ caching \in BOOLEAN
  /\ used = 0
  /\ reply = [r \in Rounds |-> "absent"]
  /\ asker = [a \in Askers |-> NotAsking]
  /\ asks = 0 /\ days = 0

\* Somebody is paying for the key of this round (the flight of get_or_set).
InFlight(r) == \E a \in Askers : asker[a].leads /\ asker[a].round = r

Go(a, pc) == asker' = [asker EXCEPT ![a].pc = pc]

\* complete_json begins.
Ask(a) ==
  /\ asker[a].pc = "idle" /\ asks < MaxAsks
  /\ asks' = asks + 1
  /\ asker' = [asker EXCEPT ![a] = [NotAsking EXCEPT !.pc = "look"]]
  /\ UNCHANGED <<caching, used, reply, days>>

\* complete: straight to the provider without caching; else what the cache holds, or the
\* lead of this key's flight.
LookUp(a) ==
  /\ asker[a].pc = "look"
  /\ LET r == asker[a].round
     IN  \/ ~caching /\ Go(a, "check")
         \/ /\ caching /\ reply[r] # "absent"
            /\ asker' = [asker EXCEPT ![a].pc = "served", ![a].text = reply[r]]
         \/ /\ caching /\ reply[r] = "absent" /\ ~InFlight(r)
            /\ asker' = [asker EXCEPT ![a].pc = "check", ![a].leads = TRUE]
  /\ UNCHANGED <<caching, used, reply, asks, days>>

\* Mutant of CheckBudget: the tokens already used are compared, not the projection.
CheckUsedOnly(a) ==
  /\ asker[a].pc = "check"
  /\ IF Budget = 0 \/ used < Budget
     THEN asker' = [asker EXCEPT ![a].pc = "invoke", ![a].attempt = 0]
     ELSE asker' = [asker EXCEPT ![a] = NotAsking]
  /\ UNCHANGED <<caching, used, reply, asks, days>>

\* _call: the budget, if there is one, is asked with the estimate.
CheckBudget(a) ==
  /\ asker[a].pc = "check"
  /\ IF Budget = 0 \/ used + Estimate <= Budget
     THEN asker' = [asker EXCEPT ![a].pc = "invoke", ![a].attempt = 0]
     ELSE asker' = [asker EXCEPT ![a] = NotAsking]
  /\ UNCHANGED <<caching, used, reply, asks, days>>

\* A reply: the tokens the provider bills are recorded, and the leader stores it, whatever it says.
InvokeAnswers(a) ==
  /\ asker[a].pc = "invoke"
  /\ \E text \in Replies :
       /\ asker' = [asker EXCEPT ![a].pc = "fresh", ![a].text = text, ![a].leads = FALSE]
       /\ reply' = [r \in Rounds |-> IF asker[a].leads /\ asker[a].round = r THEN text ELSE reply[r]]
  /\ \E cost \in Costs : used' = used + cost
  /\ UNCHANGED <<caching, asks, days>>

\* A failure (also of the second request a client makes once the provider has refused the
\* field's old name): another attempt when it is transient and one is left, else it is
\* raised.
InvokeFails(a) ==
  /\ asker[a].pc = "invoke"
  /\ \E failure \in Failures :
       IF Transient(failure) /\ asker[a].attempt < Retries
       THEN asker' = [asker EXCEPT ![a].attempt = @ + 1]
       ELSE asker' = [asker EXCEPT ![a] = NotAsking]
  /\ UNCHANGED <<caching, used, reply, asks, days>>

Forgotten(a) ==
  [reply EXCEPT ![asker[a].round] = IF caching /\ asker[a].text = "blank" THEN "absent" ELSE @]

\* A fresh blank is not kept.
AskAfresh(a) ==
  /\ asker[a].pc = "fresh"
  /\ reply' = Forgotten(a)
  /\ Go(a, "parse")
  /\ UNCHANGED <<caching, used, asks, days>>

\* A stored blank is dropped, and this caller asks the provider on its own.
Served(a) ==
  /\ asker[a].pc = "served"
  /\ reply' = Forgotten(a)
  /\ Go(a, IF asker[a].text = "blank" THEN "check" ELSE "parse")
  /\ UNCHANGED <<caching, used, asks, days>>

\* The parse: one repair round, then LLMParseError.
Parse(a) ==
  /\ asker[a].pc = "parse"
  /\ asker' = [asker EXCEPT ![a] =
       IF asker[a].text \in Readable \/ asker[a].round = "repair" THEN NotAsking
       ELSE [@ EXCEPT !.pc = "look", !.round = "repair", !.text = "none"]]
  /\ UNCHANGED <<caching, used, reply, asks, days>>

\* The task is cancelled while it waits for the provider.
CancelAsk(a) ==
  /\ asker[a].pc \in {"check", "invoke"}
  /\ asker' = [asker EXCEPT ![a] = NotAsking]
  /\ UNCHANGED <<caching, used, reply, asks, days>>

\* The counter rolls over at midnight UTC.
Midnight ==
  /\ days < MaxDays
  /\ days' = days + 1
  /\ used' = 0
  /\ UNCHANGED <<caching, reply, asker, asks>>

AskStep(a) ==
  LookUp(a) \/ CheckBudget(a) \/ InvokeAnswers(a) \/ InvokeFails(a) \/ AskAfresh(a)
  \/ Served(a) \/ Parse(a)

LlmNext == Midnight \/ \E a \in Askers : Ask(a) \/ AskStep(a) \/ CancelAsk(a)

LlmSpec == LlmInit /\ [][LlmNext]_llmVars
-----------------------------------------------------------------------------
LlmTypeOK ==
  /\ caching \in BOOLEAN
  /\ used \in Nat
  /\ reply \in [Rounds -> Replies \cup {"absent"}]
  /\ asker \in [Askers -> [pc : {"idle", "look", "check", "invoke", "fresh", "served", "parse"},
                           round : Rounds, attempt : 0..Retries,
                           text : Replies \cup {"none"}, leads : BOOLEAN]]
  /\ asks \in 0..MaxAsks /\ days \in 0..MaxDays

\* The budget is checked with an estimate before a call and charged with the bill after it,
\* so concurrent calls may overdraw it, and one call alone may; but whoever was let in last
\* still found room for an estimate, and only the calls in the air with it came on top.
OverdraftIsBounded ==
  Budget = 0 \/ used = 0 \/ used + Estimate <= Budget + Cardinality(Askers) * MaxCost
=============================================================================
