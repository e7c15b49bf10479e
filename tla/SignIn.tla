------------------------------ MODULE SignIn ------------------------------
(***************************************************************************)
(* Signing in and registering by a code sent to a phone: the two pages     *)
(* (features/auth/login-page.tsx, register-page.tsx) and the code store    *)
(* (services/auth_service.py), for the pages opened for one phone number.  *)
(*                                                                         *)
(* Time passes in minutes: a code lives two, a phone rests one between two *)
(* codes and a page counts down two before it offers another one.  A Redis *)
(* command times out after ten seconds, so the two commands that store a   *)
(* code fall into the same minute.                                         *)
(***************************************************************************)
EXTENDS Naturals, Sequences, SequencesExt

CONSTANTS LoginPages,    \* pages that only send codes to users
          RegisterPages, \* pages that create the user first
          MaxAttempts,   \* settings.OTP_MAX_ATTEMPTS
          MaxCalls       \* bound: calls in flight when the user acts

SignInParameters == MaxAttempts \in Nat \ {0} /\ MaxCalls \in Nat

VARIABLES page,   \* per page, its state
          calls,  \* the calls in flight, each with how far the server is
          store,  \* what Redis holds for the phone
          user    \* the phone has a user

vars == <<page, calls, store, user>>

Pages == LoginPages \cup RegisterPages

\* Minutes: settings.OTP_TTL, OTP_SEND_COOLDOWN, and the pages' own count.
CodeLife == 2
Cooldown == 1
Countdown == 2

NoPage == [step |-> "form", loading |-> FALSE, countdown |-> 0, leaving |-> FALSE]

\* "guesses" are the wrong guesses made at the stored code, "rest" what is left
\* of the pause and "for" the page that began it, if that page knows no failure
\* of its own since then.  "crossed": when the code was stored, another
\* request had stored one and not yet deleted the counter.
Init ==
    /\ page = [c \in Pages |-> NoPage]
    /\ calls = <<>>
    /\ store = [life |-> 0, attempts |-> 0, count |-> 0, rest |-> 0, for |-> {}, guesses |-> 0,
                crossed |-> FALSE]
    /\ user \in BOOLEAN

Calling(c) == \E i \in DOMAIN calls : calls[i].by = c /\ calls[i].op # "verify"

Send(c, op, v) ==
    /\ Len(calls) < MaxCalls
    /\ page' = [page EXCEPT ![c] = v]
    /\ calls' = Append(calls, [op |-> op, by |-> c, at |-> "sent"])
    /\ UNCHANGED <<store, user>>

SetPage(c, v) == page' = [page EXCEPT ![c] = v] /\ UNCHANGED <<calls, store, user>>

-----------------------------------------------------------------------------
(* The pages *)

\* With the fields of the first step filled in; otherwise it returns early.
HandleSendOtp(c) ==
    /\ page[c].step = "form" /\ ~page[c].loading
    /\ Send(c, "send", [page[c] EXCEPT !.loading = TRUE])

\* With six digits typed or pasted; the button waits for them.
HandleVerifyOtp(c) ==
    /\ page[c].step = "code" /\ ~page[c].loading
    /\ Send(c, "verify", [page[c] EXCEPT !.loading = TRUE])

\* The link is there when the countdown has ended, loading or not.
HandleResend(c) ==
    /\ page[c].step = "code" /\ page[c].countdown = 0
    /\ Send(c, "resend", [page[c] EXCEPT !.loading = TRUE])

Back(c) ==
    /\ page[c].step = "code"
    /\ SetPage(c, [page[c] EXCEPT !.step = "form", !.countdown = 0])

\* Mutant of Succeeded: a second code does not start the countdown again.
SucceededOnce(p, op) ==
    [p EXCEPT !.loading = FALSE,
              !.step = IF op = "send" THEN "code" ELSE @,
              !.countdown = IF op = "send" THEN Countdown ELSE @,
              !.leaving = @ \/ op = "verify"]

\* What the page does with a good answer: startCountdown, and for a code that
\* was right the way out of the page, a moment later.
Succeeded(p, op) ==
    [p EXCEPT !.loading = FALSE,
              !.step = IF op = "send" THEN "code" ELSE @,
              !.countdown = IF op # "verify" THEN Countdown ELSE @,
              !.leaving = @ \/ op = "verify"]

Answered(i) ==
    /\ calls[i].at = "ok"
    /\ page' = [page EXCEPT ![calls[i].by] = Succeeded(@, calls[i].op)]
    /\ calls' = RemoveAt(calls, i)
    /\ UNCHANGED <<store, user>>

\* The server refused, or the call did not reach the server, or its answer did
\* not reach the page: an error message, and the countdown goes on.
Failed(i) ==
    /\ calls[i].at \in {"refused", "sent", "ok"}
    /\ page' = [page EXCEPT ![calls[i].by].loading = FALSE]
    /\ store' = IF calls[i].op # "verify"
                THEN [store EXCEPT !.for = @ \ {calls[i].by}] ELSE store
    /\ calls' = RemoveAt(calls, i)
    /\ UNCHANGED user

\* setTimeout(navigate): the page is left.
Navigate(c) ==
    /\ page[c].leaving /\ page[c].step # "left"
    /\ SetPage(c, [page[c] EXCEPT !.step = "left", !.loading = FALSE, !.countdown = 0])

-----------------------------------------------------------------------------
(* The server *)

At(i, where) == calls' = [calls EXCEPT ![i].at = where]

\* check_send_rate: the phone rests from here on, whatever becomes of the
\* request; then the user is looked up, or created.
CheckSendRate(i) ==
    /\ calls[i].at = "sent" /\ calls[i].op # "verify"
    /\ LET register == calls[i].op = "send" /\ calls[i].by \in RegisterPages
       IN IF store.rest > 0
          THEN At(i, "refused") /\ UNCHANGED <<store, user>>
          ELSE /\ store' = [store EXCEPT !.rest = Cooldown, !.for = {calls[i].by}]
               /\ user' = (user \/ register)
               /\ At(i, IF user' THEN "found" ELSE "refused")
    /\ UNCHANGED page

\* OTPStore.store, its first command: a new code takes the place of the old.
StoreCode(i) ==
    /\ calls[i].at = "found"
    /\ store' = [store EXCEPT !.life = CodeLife, !.guesses = 0,
                              !.crossed = \E j \in DOMAIN calls : calls[j].at = "stored"]
    /\ At(i, "stored")
    /\ UNCHANGED <<page, user>>

\* Its second command, and sending the message, which may fail.
ClearAttempts(i) ==
    /\ calls[i].at = "stored"
    /\ store' = [store EXCEPT !.attempts = 0, !.count = 0]
    /\ \E where \in {"ok", "refused"} : At(i, where)
    /\ UNCHANGED <<page, user>>

\* A command fails: the request ends there.
RedisFails(i) ==
    /\ calls[i].at \in {"sent", "found", "stored"}
    /\ At(i, "refused")
    /\ UNCHANGED <<page, store, user>>

\* Mutant of Guessed: the code that was guessed at too often stays.
GuessedOn ==
    [store EXCEPT !.attempts = @ + 1, !.guesses = @ + 1, !.count = IF @ = 0 THEN CodeLife ELSE @]

\* One wrong guess: the counter gets a life of its own when it starts, and the
\* code goes with the counter at the last attempt.
Guessed ==
    LET more == [store EXCEPT !.attempts = @ + 1, !.guesses = @ + 1,
                              !.count = IF @ = 0 THEN CodeLife ELSE @]
    IN IF more.attempts >= MaxAttempts
       THEN [more EXCEPT !.life = 0, !.attempts = 0, !.count = 0] ELSE more

\* OTPStore.verify, one script: no code, the right one, or a wrong one.
Verify(i) ==
    /\ calls[i].at = "sent" /\ calls[i].op = "verify"
    /\ \/ store.life = 0 /\ At(i, "refused") /\ UNCHANGED store
       \/ /\ store.life > 0
          /\ store' = [store EXCEPT !.life = 0, !.attempts = 0, !.count = 0]
          /\ At(i, "ok")
       \/ store.life > 0 /\ store' = Guessed /\ At(i, "refused")
    /\ UNCHANGED <<page, user>>

Less(n) == IF n > 0 THEN n - 1 ELSE 0

\* A minute passes for Redis and for the pages.
Tick ==
    /\ \A i \in DOMAIN calls : calls[i].at # "stored"
    /\ store' = [store EXCEPT !.life = Less(@), !.count = Less(@), !.rest = Less(@),
                              !.attempts = IF store.count <= 1 THEN 0 ELSE @,
                              !.for = IF store.rest <= 1 THEN {} ELSE @]
    /\ page' = [c \in Pages |-> [page[c] EXCEPT !.countdown = Less(@)]]
    /\ UNCHANGED <<calls, user>>

SignInPage(c) ==
    \/ HandleSendOtp(c) \/ HandleVerifyOtp(c) \/ HandleResend(c)
    \/ Back(c) \/ Navigate(c)

Request(i) ==
    \/ CheckSendRate(i) \/ StoreCode(i) \/ ClearAttempts(i) \/ RedisFails(i)
    \/ Verify(i) \/ Answered(i) \/ Failed(i)

Next ==
    \/ \E c \in Pages : SignInPage(c)
    \/ \E i \in DOMAIN calls : Request(i)
    \/ Tick

Spec == Init /\ [][Next]_vars

-----------------------------------------------------------------------------
(* Properties *)

\* Every code has its own attempts, though it is stored by one command and the
\* counter of the code before it is deleted by another, either of which may
\* fail, and though the counter has a lifetime of its own: fewer than twice the
\* attempts allowed are ever made at one code (auth_service.py, store, verify).
\* Only a request delayed beyond the phone's pause, between the commands of
\* another one, can delete the counter once more.
GuessesBounded == ~store.crossed => store.guesses < 2 * MaxAttempts

\* The page counts on its own and the server pauses on its own: a page whose
\* requests for a code succeeded does not offer another one while the phone
\* still rests from its own (countdown in the pages, check_send_rate).
ResendAllowed ==
    \A c \in Pages :
        page[c].step = "code" /\ page[c].countdown = 0 /\ ~Calling(c) =>
            store.for # {c}
=============================================================================
