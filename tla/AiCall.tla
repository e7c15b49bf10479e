-------------------------------- MODULE AiCall --------------------------------
(***************************************************************************)
(* One call of a model: AIService.run_prompt_with_provider.  The gateway   *)
(* is asked first, when it is enabled, and AvalAI after it; each is asked  *)
(* again, after a pause, while its errors are worth a retry.  All of it    *)
(* shares one deadline.  A step is the code between two awaits: the        *)
(* request, and the pause.  The loop may wake a coroutine late.            *)
(***************************************************************************)
EXTENDS Integers

CONSTANTS
    MaxRetries,      \* AI_MAX_RETRIES
    BaseDelay,       \* AI_RETRY_BASE_DELAY
    Deadline,        \* AI_TOTAL_DEADLINE_SECONDS, or half of the lease
    RequestTimeout,  \* total timeout of one request, 180 seconds
    Reserve,         \* seconds that must be left for the fallback, 5
    MaxLate,         \* how late the event loop wakes a coroutine at most
    Codes            \* HTTP status codes of errors, in the head or in the body

ASSUME CallAssumption ==
    /\ {MaxRetries, BaseDelay, Deadline, RequestTimeout, Reserve, MaxLate} \subseteq Nat
    /\ Deadline > 0 /\ RequestTimeout > 0
    /\ Codes \subseteq Nat \ {0}

VARIABLES
    setup,    \* is the gateway enabled, has the fallback a key
    call,     \* where the call stands
    primary,  \* primary_error
    result,   \* what the caller gets
    asked,    \* history: requests sent to each provider
    heard,    \* history: what kinds of replies came from whom
    time      \* time.monotonic(), from the beginning of the call

callVars == <<setup, call, primary, result, asked, heard, time>>

Providers == {"primary", "fallback"}

(***************************************************************************)
(* Errors                                                                  *)
(***************************************************************************)
NoStatus == 0

\* AIProviderError.retryable of an error that stands for itself.
StatusRetryable(s) == s = NoStatus \/ s \in {408, 425, 429} \/ s >= 500

\* _error_envelope_to_exception; reset: the message speaks of a limit.
EnvelopeRetryable(s, reset) ==
    StatusRetryable(s) \/ (s \notin {400, 401, 403, 404} /\ reset)

\* What a request can bring: an answer, an error in the head or in the body of
\* the response, nothing (no connection, an empty body), or a body of a shape
\* or encoding the parser does not expect.
Replies ==
    [as : {"answer", "nothing", "broken"}]
    \cup [as : {"head"}, status : Codes]
    \cup [as : {"body"}, status : Codes \cup {NoStatus}, reset : BOOLEAN]

Retryable(r) ==
    CASE r.as = "head" -> StatusRetryable(r.status)
      [] r.as = "body" -> EnvelopeRetryable(r.status, r.reset)
      [] OTHER -> TRUE

Kind(r) ==
    CASE r.as \in {"answer", "broken"} -> r.as
      [] OTHER -> IF Retryable(r) THEN "busy" ELSE "refused"

\* A synthetic error is the deadline's: no provider gave it.
Error(p, retryable) == [by |-> p, real |-> TRUE, retryable |-> retryable]
DeadlineError(p) == [by |-> p, real |-> FALSE, retryable |-> TRUE]
NoError == DeadlineError("fallback")   \* None; the raised error names the fallback

\* Mutant of Combined: the call is retried when one of the providers may be.
CombinedAny(p, f) ==
    [by |-> IF f.real THEN f.by ELSE p.by, real |-> TRUE,
     retryable |-> {p, f} = {NoError} \/ \E e \in {p, f} \ {NoError} : e.retryable]

\* effective_error and retryable of the error raised for both.
Combined(p, f) ==
    [by |-> IF f.real THEN f.by ELSE p.by, real |-> TRUE,
     retryable |-> \A e \in {p, f} : e.real => e.retryable]

(***************************************************************************)
(* Steps of the code between two awaits                                    *)
(***************************************************************************)
Waiting(pc, p, n, until) == [pc |-> pc, provider |-> p, attempt |-> n, until |-> until]
Ended == Waiting("ended", "none", 0, 0)

CallInit ==
    /\ setup \in [gateway : BOOLEAN, key : BOOLEAN]
    /\ call = Waiting("begin", "none", 0, 0)
    /\ primary = NoError
    /\ result = [outcome |-> "none", by |-> "none"]
    /\ asked = [p \in Providers |-> 0]
    /\ heard = {}
    /\ time = 0

End(outcome, p) ==
    /\ call' = Ended
    /\ result' = [outcome |-> outcome, by |-> p]
    /\ UNCHANGED asked

CallFails(e) == End(IF e.retryable THEN "retryable" ELSE "fatal", e.by)

\* Mutant of Timeout: every request has the full timeout.
FullTimeout == RequestTimeout

\* min(180, remaining)
Timeout == IF RequestTimeout < Deadline - time THEN RequestTimeout ELSE Deadline - time

\* _request: the n-th retry of a provider.
Ask(p, n) ==
    /\ call' = Waiting("request", p, n, time + Timeout)
    /\ asked' = [asked EXCEPT ![p] = @ + 1]
    /\ UNCHANGED result

\* The primary route ended with e; without a key the error is a plain ValueError,
\* whatever e was.
TryFallback(e) ==
    /\ primary' = e
    /\ \/ ~setup.key /\ End("unknown", "none")
       \/ setup.key /\ Deadline - time <= Reserve /\ CallFails(Combined(e, NoError))
       \/ setup.key /\ Deadline - time > Reserve /\ Ask("fallback", 0)

\* _request_with_retry raises e.
GiveUp(e) ==
    \/ call.provider = "primary" /\ TryFallback(e)
    \/ call.provider = "fallback" /\ CallFails(Combined(primary, e)) /\ UNCHANGED primary

\* The pause before retry n, with its jitter.
Pauses(n) ==
    LET delay == BaseDelay * 2 ^ (n - 1)
    IN {d \in 0 .. 2 * delay : 8 * delay <= 10 * d /\ 10 * d <= 12 * delay}

\* Before retry n: a pause that would outlast the deadline is not begun.
PauseBefore(n) ==
    \E d \in Pauses(n) :
        \/ time + d >= Deadline /\ GiveUp(DeadlineError(call.provider))
        \/ /\ time + d < Deadline
           /\ call' = [call EXCEPT !.pc = "pause", !.attempt = n, !.until = time + d]
           /\ UNCHANGED <<primary, result, asked>>

\* A request raised e.
RequestFails(e) ==
    \/ (~e.retryable \/ call.attempt = MaxRetries) /\ GiveUp(e)
    \/ e.retryable /\ call.attempt < MaxRetries /\ PauseBefore(call.attempt + 1)

(***************************************************************************)
(* Actions                                                                 *)
(***************************************************************************)
BeginCall ==
    /\ call.pc = "begin"
    /\ \/ setup.gateway /\ Ask("primary", 0) /\ UNCHANGED primary
       \/ ~setup.gateway /\ TryFallback(NoError)
    /\ UNCHANGED <<setup, heard, time>>

\* The response is there; an unexpected exception passes through all handlers.
ReplyComes(r) ==
    /\ call.pc = "request"
    /\ heard' = heard \cup {<<call.provider, Kind(r)>>}
    /\ \/ r.as = "answer" /\ End("answer", call.provider) /\ UNCHANGED primary
       \/ r.as = "broken" /\ End("unknown", "none") /\ UNCHANGED primary
       \/ /\ r.as \notin {"answer", "broken"}
          /\ RequestFails(Error(call.provider, Retryable(r)))
    /\ UNCHANGED <<setup, time>>

\* Mutant of RequestTimesOut: only the provider ends a request.
RequestHangs == FALSE /\ UNCHANGED callVars

RequestTimesOut ==
    /\ call.pc = "request" /\ time >= call.until
    /\ RequestFails(Error(call.provider, TRUE))
    /\ UNCHANGED <<setup, heard, time>>

\* Mutant of PauseEnds: the deadline is not looked at after the pause.
PauseEndsBlind ==
    /\ call.pc = "pause" /\ time >= call.until
    /\ Ask(call.provider, call.attempt) /\ UNCHANGED primary
    /\ UNCHANGED <<setup, heard, time>>

PauseEnds ==
    /\ call.pc = "pause" /\ time >= call.until
    /\ \/ time >= Deadline /\ GiveUp(DeadlineError(call.provider))
       \/ time < Deadline /\ Ask(call.provider, call.attempt) /\ UNCHANGED primary
    /\ UNCHANGED <<setup, heard, time>>

CallTick ==
    /\ call.pc \in {"request", "pause"} /\ time < call.until + MaxLate
    /\ time' = time + 1
    /\ UNCHANGED <<setup, call, primary, result, asked, heard>>

CallNext ==
    \/ BeginCall \/ RequestTimesOut \/ PauseEnds \/ CallTick
    \/ \E r \in Replies : ReplyComes(r)

CallSpec == CallInit /\ [][CallNext]_callVars

\* Timers fire and the loop goes on; a provider need not reply.
CallFairness ==
    /\ WF_callVars(BeginCall) /\ WF_callVars(RequestTimesOut) /\ WF_callVars(PauseEnds)
    /\ WF_callVars(CallTick)

FairCallSpec == CallSpec /\ CallFairness

(***************************************************************************)
(* Properties                                                              *)
(***************************************************************************)
\* mark_failure takes an unknown kind of error for one that is worth a retry.
CallOutcome == IF result.outcome = "unknown" THEN "retryable" ELSE result.outcome

Promise == INSTANCE CallPromise WITH
    CallDeadline <- Deadline + MaxLate, outcome <- CallOutcome, now <- time

\* A call of the program keeps the promise DailyRun relies on: whatever retries,
\* pauses and routes it takes, it has one outcome, at the latest when the
\* deadline has passed and the loop has noticed (run_prompt_with_provider).
CallKept == Promise!Spec

\* The call ends, also when no provider ever replies.
CallEnds == <>(call.pc = "ended")

\* A failure needs a manual fix exactly if a provider refused for good, whatever
\* the other provider said and however the deadline cut the retries short
\* (AIProviderError.retryable of the combined error).  Errors of unknown kind
\* come from a reply no parser expects or from a fallback that has no key.
FatalIfRefused ==
    /\ result.outcome \in {"retryable", "fatal"} =>
          (result.outcome = "fatal" <=> \E p \in Providers : <<p, "refused">> \in heard)
    /\ result.outcome = "unknown" => ~setup.key \/ \E p \in Providers : <<p, "broken">> \in heard

\* The provider a failure names is one whose error it was: it was asked, it did
\* not answer, and the primary is named only if the fallback gave no verdict
\* that counts (AIProviderError.effective_error).
BlameIsFair ==
    result.outcome \in {"retryable", "fatal"} /\ Deadline > Reserve =>
        /\ asked[result.by] > 0
        /\ <<result.by, "answer">> \notin heard
        /\ result.by = "primary" => <<"fallback", "refused">> \notin heard

\* What the call reports of a failure is true of both routes: its class, which
\* decides whether the model is tried again, and its provider, which an alert names.
FailureIsFair == FatalIfRefused /\ BlameIsFair

\* Nobody is asked after the deadline, more often than the settings allow, after
\* it answered or refused, or after the other route was taken.
AskedSparingly ==
    [][\A p \in Providers : asked'[p] # asked[p] =>
          /\ time < Deadline /\ asked[p] <= MaxRetries
          /\ \A kind \in {"answer", "refused", "broken"} : <<p, kind>> \notin heard'
          /\ p = "primary" => asked["fallback"] = 0]_callVars

\* A call does not fail without having asked the fallback, whatever became of the
\* gateway, unless there is no key, too little time or an unexpected exception.
FallbackIsTried ==
    [][result.outcome = "none" /\ result'.outcome \in {"retryable", "fatal", "unknown"} =>
          \/ asked["fallback"] > 0
          \/ ~setup.key \/ Deadline - time <= Reserve
          \/ <<"primary", "broken">> \in heard']_callVars

\* The routes are taken as _request_with_retry and run_prompt_with_provider say, in
\* every timing: nobody is asked too late, too often or in vain, and the fallback is
\* not forgotten.
RoutesFollowed == AskedSparingly /\ FallbackIsTried
===============================================================================
