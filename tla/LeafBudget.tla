----------------------------- MODULE LeafBudget -----------------------------
(***************************************************************************)
(* What the model calls of a workflow cost: the circuit breaker of         *)
(* fallback/budget.py (LlmInvocationGuard), which precharges a call and    *)
(* reconciles it, and the calls themselves (fallback/leaf/                 *)
(* anthropic_adapter.py), with the transport retries and the one retry of  *)
(* a malformed answer.  Several calls share the guard of their workflow:   *)
(* precharge and reconcile run without a suspension point, a call is       *)
(* awaited.                                                                *)
(*                                                                         *)
(* The caller, FallbackTier.run, is a placeholder in the repository: it is *)
(* taken to precharge, invoke and reconcile what an answer reports, once   *)
(* or again, and to have nothing to report of a call that raised.          *)
(***************************************************************************)
EXTENDS Integers, Sequences, FiniteSets, Functions

CONSTANTS Call,        \* the calls of the workflow, each with its token id
          Request,     \* what a precharge may ask for
          Usage,       \* what one message of the service may use
          Price,       \* what a token may cost in the end
          PerCallMax,  \* per_call_max_tokens
          MaxTokens,   \* max_tokens
          MaxDollars,  \* max_dollars
          DollarsPerToken, \* the estimate of a precharge
          Retries      \* length of _TRANSPORT_RETRY_BACKOFF_SECONDS

ASSUME CapsAssumption ==
    /\ PerCallMax \in Nat \ {0} /\ MaxTokens \in Nat /\ MaxDollars \in Nat
    /\ DollarsPerToken \in Nat /\ Retries \in Nat
ASSUME AmountsAssumption ==
    Request \subseteq Int /\ Usage \subseteq Nat /\ Price \subseteq Nat
ASSUME CallAssumption == IsFiniteSet(Call)

VARIABLES
    pc,          \* how far each call is
    precharged,  \* the tokens in the BudgetToken of the call
    outstanding, \* the calls in _outstanding
    reconciled,  \* the calls in _reconciled_ids
    consumed,    \* _consumed_tokens
    dollars,     \* _consumed_dollars
    errors,      \* APIStatusErrors of the request that is under way
    bills,       \* history: the usage of the messages the service sent
    paid,        \* history: actual_dollars of the first reconcile
    sent         \* history: requests that went over the wire

guard == <<precharged, outstanding, reconciled, consumed, dollars>>
budgetVars == <<pc, guard, errors, bills, paid, sent>>

BudgetInit ==
    /\ pc = [c \in Call |-> "new"]
    /\ precharged = [c \in Call |-> 0]
    /\ outstanding = {} /\ reconciled = {}
    /\ consumed = 0 /\ dollars = 0
    /\ errors = [c \in Call |-> 0]
    /\ bills = [c \in Call |-> <<>>]
    /\ paid = [c \in Call |-> 0]
    /\ sent = [c \in Call |-> 0]

-----------------------------------------------------------------------------
(* LlmInvocationGuard                                                      *)

OutstandingTokens == SumFunctionOnSet(precharged, outstanding)
OutstandingDollars == DollarsPerToken * OutstandingTokens

(* Mutant: what is outstanding does not count.                             *)
VerdictOfConsumed(n) ==
    CASE n > PerCallMax           -> "per_call_max_exceeded"
      [] consumed + n > MaxTokens -> "workflow_max_tokens_exceeded"
      [] OTHER                    -> "minted"

(* The caps in the order in which they are looked at.                      *)
PrechargeVerdict(n) ==
    CASE n > PerCallMax -> "per_call_max_exceeded"
      [] consumed + OutstandingTokens + n > MaxTokens ->
           "workflow_max_tokens_exceeded"
      [] dollars + OutstandingDollars + DollarsPerToken * n > MaxDollars ->
           "workflow_max_dollars_exceeded"
      [] OTHER -> "minted"

(* precharge; an amount that is not positive is a ValueError.              *)
Precharge(c, n) ==
    /\ pc[c] = "new"
    /\ n > 0
    /\ IF PrechargeVerdict(n) = "minted"
       THEN /\ pc' = [pc EXCEPT ![c] = "charged"]
            /\ precharged' = [precharged EXCEPT ![c] = n]
            /\ outstanding' = outstanding \cup {c}
            /\ UNCHANGED <<reconciled, consumed, dollars>>
       ELSE pc' = [pc EXCEPT ![c] = PrechargeVerdict(n)] /\ UNCHANGED guard
    /\ UNCHANGED <<errors, bills, paid, sent>>

Reported(c) == bills[c][Len(bills[c])]

(* Mutant: the token stays outstanding.                                    *)
ReconcileKeeping(c, p) ==
    /\ pc[c] = "answered" /\ c \notin reconciled
    /\ reconciled' = reconciled \cup {c}
    /\ consumed' = consumed + Reported(c)
    /\ dollars' = dollars + p * Reported(c)
    /\ paid' = [paid EXCEPT ![c] = p * Reported(c)]
    /\ UNCHANGED <<pc, precharged, outstanding, errors, bills, sent>>

(* reconcile of an answer, first or duplicate.                             *)
Reconcile(c, p) ==
    /\ pc[c] = "answered"
    /\ IF c \in outstanding
       THEN /\ outstanding' = outstanding \ {c}
            /\ reconciled' = reconciled \cup {c}
            /\ consumed' = consumed + Reported(c)
            /\ dollars' = dollars + p * Reported(c)
            /\ paid' = [paid EXCEPT ![c] = p * Reported(c)]
       ELSE c \in reconciled /\ UNCHANGED <<guard, paid>>
    /\ UNCHANGED <<pc, precharged, errors, bills, sent>>

-----------------------------------------------------------------------------
(* AnthropicLeafAdapter.invoke                                             *)
Asking == {"first", "second"}

Invoke(c) ==
    /\ pc[c] = "charged"
    /\ pc' = [pc EXCEPT ![c] = "first"]
    /\ UNCHANGED <<guard, errors, bills, paid, sent>>

(* One more request; the count stops when it is past every bound.          *)
MostRequests == 2 * (Retries + 1)
Send(c) == sent' = [sent EXCEPT ![c] = IF @ > MostRequests THEN @ ELSE @ + 1]

(* _call_sdk_with_transport_retry: an APIStatusError is slept on and tried *)
(* again, until the last one propagates.                                   *)
StatusError(c) ==
    /\ pc[c] \in Asking
    /\ Send(c)
    /\ errors' = [errors EXCEPT ![c] = @ + 1]
    /\ pc' = IF errors[c] = Retries THEN [pc EXCEPT ![c] = "transport"] ELSE pc
    /\ UNCHANGED <<guard, bills, paid>>

(* Any other exception propagates at once.                                 *)
OtherError(c) ==
    /\ pc[c] \in Asking
    /\ Send(c)
    /\ pc' = [pc EXCEPT ![c] = "transport"]
    /\ UNCHANGED <<guard, errors, bills, paid>>

(* A message: it parses, or is asked for once more, or violates the        *)
(* protocol.  The retry is a request of its own, with retries of its own.  *)
Message(c, u, parses) ==
    /\ pc[c] \in Asking
    /\ Send(c)
    /\ bills' = [bills EXCEPT ![c] = Append(@, u)]
    /\ errors' = [errors EXCEPT ![c] = 0]
    /\ pc' = [pc EXCEPT ![c] = IF parses THEN "answered"
                               ELSE IF @ = "first" THEN "second" ELSE "violation"]
    /\ UNCHANGED <<guard, paid>>

Create(c) ==
    \/ StatusError(c) \/ OtherError(c)
    \/ \E u \in Usage, parses \in BOOLEAN : Message(c, u, parses)

BudgetNext == \E c \in Call :
            \/ \E n \in Request : Precharge(c, n)
            \/ \E p \in Price : Reconcile(c, p)
            \/ Invoke(c) \/ Create(c)

BudgetSpec == BudgetInit /\ [][BudgetNext]_budgetVars

(* The service answers every request or fails it.                          *)
Fairness == \A c \in Call : WF_budgetVars(Create(c))

BudgetFairSpec == BudgetSpec /\ Fairness

-----------------------------------------------------------------------------
Refusals == {"per_call_max_exceeded", "workflow_max_tokens_exceeded",
             "workflow_max_dollars_exceeded"}

TypeOK ==
    /\ pc \in [Call -> {"new", "charged", "answered", "violation", "transport"}
                         \cup Asking \cup Refusals]
    /\ precharged \in [Call -> 0 .. PerCallMax]
    /\ outstanding \subseteq Call /\ reconciled \subseteq Call
    /\ consumed \in Nat /\ dollars \in Nat
    /\ errors \in [Call -> 0 .. Retries + 1]
    /\ bills \in [Call -> Seq(Usage)]
    /\ paid \in [Call -> Nat]
    /\ sent \in [Call -> 0 .. MostRequests + 1]

(* running_total raises when the totals are over a cap (BudgetSnapshot).   *)
RunningTotalRaises ==
    \/ consumed + OutstandingTokens > MaxTokens
    \/ dollars + OutstandingDollars > MaxDollars

(* Calls that overlap never take the workflow over its caps, and           *)
(* running_total answers, as long as no call used or cost more than it was *)
(* precharged for: reconcile lets an overrun through (precharge).          *)
Overran(c) == \/ Reported(c) > precharged[c]
              \/ paid[c] > DollarsPerToken * precharged[c]

CapsHold == (\A c \in reconciled : ~ Overran(c)) => ~ RunningTotalRaises

(* However often a call is reconciled, it is folded in once, with the      *)
(* usage of its last message: what the first, malformed one used, and the  *)
(* messages of calls that raised, are in no total (reconcile, invoke).     *)
FoldedOnce ==
    /\ consumed = SumFunctionOnSet([c \in reconciled |-> Reported(c)], reconciled)
    /\ dollars = SumFunctionOnSet(paid, reconciled)

(* Every mint is in exactly one place: a token is outstanding until it is  *)
(* reconciled and never both, and one of a call that raised stays          *)
(* outstanding (precharge, reconcile).                                     *)
MintsAccounted ==
    /\ outstanding \cap reconciled = {}
    /\ \A c \in Call :
          /\ c \in outstanding \cup reconciled <=> precharged[c] > 0
          /\ c \in reconciled => pc[c] = "answered"
          /\ pc[c] \in {"transport", "violation"} => c \in outstanding

(* A call goes over the wire at most twice as often as one request may,    *)
(* and is answered at most twice (_call_sdk_with_transport_retry, invoke). *)
RequestsBounded ==
    \A c \in Call : sent[c] <= MostRequests /\ Len(bills[c]) <= 2

(* A call that has begun ends, whatever the service answers (invoke).      *)
CallsEnd == \A c \in Call : pc[c] = "first" ~> pc[c] \notin Asking
=============================================================================
