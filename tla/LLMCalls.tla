------------------------------ MODULE LLMCalls ------------------------------
(***************************************************************************)
(* The language model as the program calls it: runs (and the weekly        *)
(* reflection) that have a text written, and chat turns that alternate     *)
(* between the model and tools.  Runs share one client and turns another,  *)
(* each with a circuit breaker (shared/llm_client.py); all share the daily *)
(* budget (agent/llm_usage.py).                                            *)
(*                                                                         *)
(* Budget and breaker are looked at before a call, the breaker is told and *)
(* the cost is booked after an await of the provider, and a caller can be  *)
(* cancelled at each await.  Keys are configured: without one no call is   *)
(* made.  A run's texts and a caller's calls follow one another without    *)
(* end, so that nothing here is bounded by the model; Runs and Turns are   *)
(* as many as are active at once.                                          *)
(***************************************************************************)
EXTENDS Naturals, FiniteSets

CONSTANTS
    Runs,        \* runs that draft orders, and the reflection
    Turns,       \* chat turns
    Threshold,   \* failures at which the breaker opens
    MaxRetries,  \* attempts of a call
    MaxSteps,    \* chat_max_steps
    Cap,         \* daily_llm_spend_cap; 0 is no cap
    MaxCost      \* the most a reply costs: its tokens and the prompt's are limited

Callers == Runs \cup Turns
Clients == {"agent", "chat"}
ClientOf(c) == IF c \in Turns THEN "chat" ELSE "agent"
Users(cl) == {c \in Callers : ClientOf(c) = cl}

ASSUME LLMAssumption ==
    /\ IsFiniteSet(Callers)
    /\ Runs \cap Turns = {}
    /\ Threshold \in Nat \ {0} /\ MaxRetries \in Nat \ {0} /\ MaxSteps \in Nat \ {0}
    /\ Cap \in Nat /\ MaxCost \in Nat \ {0}

VARIABLES
    failures,  \* failures[cl]: failed attempts since the last success of client cl
    cooling,   \* cooling[cl]: the time is before _open_until
    spent,     \* the costs booked since midnight
    pc,        \* pc[c]: where caller c is, "idle" between two calls or turns
    attempt,   \* attempt[c]: failed attempts of c's present call
    steps      \* steps[c]: replies turn c has had

breaker == <<failures, cooling>>
vars == <<breaker, spent, pc, attempt, steps>>

\* cleared: the budget was looked at; stream, emitting: a stream before and after its
\* first delta; post: an attempt without stream; reply: the result is there; tools: a
\* turn runs what the model asked for.
Places == {"idle", "cleared", "stream", "emitting", "post", "reply", "tools"}
AtProvider == {"stream", "emitting", "post"}

Init ==
    /\ failures = [cl \in Clients |-> 0]
    /\ cooling = [cl \in Clients |-> FALSE]
    /\ spent = 0
    /\ pc = [c \in Callers |-> "idle"]
    /\ attempt = [c \in Callers |-> 0]
    /\ steps = [c \in Callers |-> 0]

\* Mutant: is_open goes by the time alone.
IsOpenWhileCooling(cl) == cooling[cl]

\* What is_open returns now.
IsOpen(cl) == cooling[cl] \/ failures[cl] >= Threshold

\* should_skip_llm_call
Exhausted == Cap > 0 /\ spent >= Cap

Move(c, to) == pc' = [pc EXCEPT ![c] = to]

End(c) ==
    /\ Move(c, "idle")
    /\ attempt' = [attempt EXCEPT ![c] = 0]
    /\ steps' = [steps EXCEPT ![c] = 0]

-----------------------------------------------------------------------------
(* Before the call: the budget is read, then the breaker.                  *)

Cleared(c) == ~Exhausted /\ Move(c, "cleared") /\ UNCHANGED <<breaker, spent, attempt, steps>>

Begin(c) == pc[c] = "idle" /\ Cleared(c)

\* Mutant: the budget is looked at once for a turn.
AskAgainUnchecked(c) ==
    pc[c] = "tools" /\ Move(c, "cleared") /\ UNCHANGED <<breaker, spent, attempt, steps>>

AskAgain(c) == pc[c] = "tools" /\ Cleared(c)

\* budget_exceeded
StopForBudget(c) == pc[c] = "tools" /\ Exhausted /\ End(c) /\ UNCHANGED <<breaker, spent>>

Admit(c) ==
    /\ pc[c] = "cleared"
    /\ ~IsOpen(ClientOf(c))
    /\ Move(c, IF c \in Turns THEN "stream" ELSE "post")
    /\ UNCHANGED <<breaker, spent, attempt, steps>>

\* is_open sets _open_until anew when the failures are still as many as the threshold.
Refuse(c) ==
    /\ pc[c] = "cleared"
    /\ IsOpen(ClientOf(c))
    /\ cooling' = [cooling EXCEPT ![ClientOf(c)] = TRUE]
    /\ End(c)
    /\ UNCHANGED <<failures, spent>>

-----------------------------------------------------------------------------
(* At the provider.  The breaker is not told of streams.                   *)

Emit(c) == pc[c] = "stream" /\ Move(c, "emitting") /\ UNCHANGED <<breaker, spent, attempt, steps>>

StreamEnds(c) ==
    /\ pc[c] \in {"stream", "emitting"}
    /\ Move(c, "reply")
    /\ UNCHANGED <<breaker, spent, attempt, steps>>

\* Before the first delta: the same messages are sent again without stream.
StreamFails(c) == pc[c] = "stream" /\ Move(c, "post") /\ UNCHANGED <<breaker, spent, attempt, steps>>

Succeed(c) ==
    /\ pc[c] = "post"
    /\ failures' = [failures EXCEPT ![ClientOf(c)] = 0]
    /\ cooling' = [cooling EXCEPT ![ClientOf(c)] = FALSE]
    /\ Move(c, "reply")
    /\ attempt' = [attempt EXCEPT ![c] = 0]
    /\ UNCHANGED <<spent, steps>>

\* Mutant: one attempt too many.
FailAttemptOnceMore(c) ==
    /\ pc[c] = "post"
    /\ failures' = [failures EXCEPT ![ClientOf(c)] = @ + 1]
    /\ \/ /\ attempt[c] < MaxRetries
          /\ attempt' = [attempt EXCEPT ![c] = @ + 1]
          /\ UNCHANGED <<pc, steps>>
       \/ attempt[c] = MaxRetries /\ End(c)
    /\ UNCHANGED <<cooling, spent>>

\* A timeout or an HTTP error: once more, after a pause, or the call is given up.
FailAttempt(c) ==
    /\ pc[c] = "post"
    /\ failures' = [failures EXCEPT ![ClientOf(c)] = @ + 1]
    /\ \/ /\ attempt[c] + 1 < MaxRetries
          /\ attempt' = [attempt EXCEPT ![c] = @ + 1]
          /\ UNCHANGED <<pc, steps>>
       \/ attempt[c] + 1 = MaxRetries /\ End(c)
    /\ UNCHANGED <<cooling, spent>>

\* The caller goes on without the model, or is no more: another error (of the network, of
\* the JSON, of a query), a stream that breaks off, a client that disconnects, a run that
\* times out, or a text too short for a run to use.
Abandon(c) == pc[c] # "idle" /\ End(c) /\ UNCHANGED <<breaker, spent>>

-----------------------------------------------------------------------------
(* After the call.                                                         *)

\* Mutant: the steps of a turn are not counted.
GoOnUncounted(c) ==
    \/ End(c)
    \/ c \in Turns /\ steps[c] + 1 < MaxSteps /\ Move(c, "tools") /\ UNCHANGED <<attempt, steps>>

\* A run has its text; a turn ends unless the model asks for tools and has steps left.
GoOn(c) ==
    \/ End(c)
    \/ /\ c \in Turns
       /\ steps[c] + 1 < MaxSteps
       /\ steps' = [steps EXCEPT ![c] = @ + 1]
       /\ Move(c, "tools")
       /\ UNCHANGED attempt

\* log_llm_call
Book(c) ==
    /\ pc[c] = "reply"
    /\ \E cost \in 1 .. MaxCost : spent' = spent + cost
    /\ GoOn(c)
    /\ UNCHANGED breaker

\* A reply to a turn is not booked if it has tool calls and no text, or if that failed.
LeaveUnbooked(c) == pc[c] = "reply" /\ c \in Turns /\ GoOn(c) /\ UNCHANGED <<breaker, spent>>

-----------------------------------------------------------------------------
(* Time.                                                                   *)

Cool(cl) ==
    /\ cooling[cl]
    /\ cooling' = [cooling EXCEPT ![cl] = FALSE]
    /\ UNCHANGED <<failures, spent, pc, attempt, steps>>

\* The budget is summed from the start of the day.
Midnight == spent' = 0 /\ UNCHANGED <<breaker, pc, attempt, steps>>

\* The clients and their breakers are in memory, and so are all who were calling.
Restart ==
    /\ failures' = [cl \in Clients |-> 0]
    /\ cooling' = [cl \in Clients |-> FALSE]
    /\ pc' = [c \in Callers |-> "idle"]
    /\ attempt' = [c \in Callers |-> 0]
    /\ steps' = [c \in Callers |-> 0]
    /\ UNCHANGED spent

Step(c) ==
    \/ AskAgain(c) \/ StopForBudget(c) \/ Admit(c) \/ Refuse(c)
    \/ Emit(c) \/ StreamEnds(c) \/ StreamFails(c) \/ Succeed(c) \/ FailAttempt(c)
    \/ Book(c) \/ LeaveUnbooked(c)

Next ==
    \/ \E c \in Callers : Begin(c) \/ Step(c) \/ Abandon(c)
    \/ \E cl \in Clients : Cool(cl)
    \/ Midnight \/ Restart

Spec == Init /\ [][Next]_vars

\* The event loop serves every caller, the provider answers or the HTTP client times
\* out, and time passes.
FairSpec ==
    /\ Spec
    /\ \A c \in Callers : WF_vars(Step(c))
    /\ \A cl \in Clients : WF_vars(Cool(cl))

\* Moreover days pass, callers keep coming, and of those who reach the provider again and
\* again some succeed: the outage is over.
HealthySpec ==
    /\ FairSpec
    /\ WF_vars(Midnight)
    /\ \A c \in Callers : WF_vars(Begin(c)) /\ SF_vars(Succeed(c))

-----------------------------------------------------------------------------
(* Properties.                                                             *)

TypeOK ==
    /\ failures \in [Clients -> Nat]
    /\ cooling \in [Clients -> BOOLEAN]
    /\ spent \in Nat
    /\ pc \in [Callers -> Places]
    /\ attempt \in [Callers -> 0 .. MaxRetries - 1]
    /\ steps \in [Callers -> 0 .. MaxSteps - 1]
    /\ \A c \in Callers : pc[c] = "post" \/ attempt[c] = 0

\* The budget is overdrawn by no more than a reply for each caller, though it is read
\* before a call and booked after it, by callers who do not wait for each other and may
\* retry (should_skip_llm_call, log_llm_call).
OverspendBounded == Cap > 0 => spent <= Cap - 1 + MaxCost * Cardinality(Callers)

\* An outage costs each client the failures of its threshold and of what was under way:
\* the breaker is not looked at between attempts, and a success among them, which closes
\* it and lets others in, does not add to that.
FailuresBounded ==
    \A cl \in Clients :
        failures[cl] <= Threshold - 1 + MaxRetries * Cardinality(Users(cl))

\* A client whose time is not yet up has its failures: no success of a call that was under
\* way when the breaker opened leaves it shut for others.
CoolingIsFailing == \A cl \in Clients : cooling[cl] => failures[cl] >= Threshold

\* Every call and every turn ends, whatever the provider does and the model asks for.
EveryCallEnds == \A c \in Callers : pc[c] # "idle" ~> pc[c] = "idle"

\* docs/RUNBOOK.md:240 "The circuit breaker auto-resets after the configured cooldown";
\* shared/llm_client.py:9 "5 failures -> 60s open".
BreakerResets == \A cl \in Clients : IsOpen(cl) ~> ~IsOpen(cl)
=============================================================================
